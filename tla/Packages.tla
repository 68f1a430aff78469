------------------------------- MODULE Packages -------------------------------
(***************************************************************************)
(* Algorithm packages: the directories under data/packages, the rows that  *)
(* say which commit a directory holds, the routes that install, update and *)
(* redeploy, the tarball a worker asks for, and the worker's cache of them *)
(* by algorithm and commit.                                                *)
(*                                                                         *)
(* One repository.  A version is a commit's number; 0 is no directory.     *)
(* Git runs inside the handlers without an await, so that a handler is one *)
(* step up to its flush; its row is seen by others after the commit.       *)
(***************************************************************************)
EXTENDS Integers

CONSTANTS
  Algorithms,
  Deployed,     \* those that workers ask for
  Names,        \* directories
  Repo,         \* the one that the repository's name gives
  Commits,      \* the repository has 1..Commits
  Broken        \* commits that do not pass the validation

ASSUME ConstantsAssumption ==
  Deployed \subseteq Algorithms /\ Repo \in Names /\ Commits \in Nat \ {0} /\ Broken \subseteq 1..Commits

VARIABLES
  upstream,     \* the newest commit on GitHub
  disk,         \* [git, version] of each directory
  row,          \* [state, origin, dir, sha, next] of each algorithm
  writers,      \* history: the algorithms for which a directory was written
  failed,       \* history: directories whose last change was not followed by a commit
  cache,        \* the worker's directory for an algorithm and commit
  torn          \* history: served while directory and row disagreed

vars == <<upstream, disk, row, writers, failed, cache, torn>>

Local    == Commits + 1        \* the contents of a local source
Foreign  == Commits + 2        \* what rev-parse says outside of a clone
Partial  == Commits + 3        \* an extraction that was cut off
Versions == 0..Commits + 3
NoDir    == [git |-> FALSE, version |-> 0]
NoRow    == [state |-> "none", origin |-> "url", dir |-> Repo, sha |-> 0, next |-> 0]

Init ==
  /\ upstream = 1 /\ disk = [n \in Names |-> NoDir] /\ row = [a \in Algorithms |-> NoRow]
  /\ writers = [n \in Names |-> {}] /\ failed = {}
  /\ cache = [a \in Deployed |-> [s \in Versions |-> 0]] /\ torn = {}

Push ==
  /\ upstream < Commits /\ upstream' = upstream + 1
  /\ UNCHANGED <<disk, row, writers, failed, cache, torn>>

Live(a)      == row[a].state = "row"
Writes(a, n) == writers' = [writers EXCEPT ![n] = @ \cup {a}]
Fails(n)     == failed' = failed \cup {n}
WorkerOnly   == UNCHANGED <<cache, torn>>

-----------------------------------------------------------------------------
(* install-from-url, install with a URL *)

(* A directory that is a clone is reset; another one is refused. *)
CloneRepo(n) == disk[n] = NoDir \/ disk[n].git

InstallFromUrl(a, n) ==
  /\ row[a].state = "none" /\ CloneRepo(n) /\ Writes(a, n)
  /\ \/ /\ upstream \notin Broken
        /\ disk' = [disk EXCEPT ![n] = [git |-> TRUE, version |-> upstream]]
        /\ row' = [row EXCEPT ![a] = [state |-> "flushed", origin |-> "url", dir |-> n,
                                      sha |-> upstream, next |-> 0]]
        /\ UNCHANGED failed
     \/ /\ upstream \in Broken              \* validate_algorithm_package: rmtree
        /\ disk' = [disk EXCEPT ![n] = NoDir] /\ Fails(n) /\ UNCHANGED row
     \/ /\ Fails(n) /\ UNCHANGED row  \* venv, pip or manifest: PackageError
        /\ disk' = [disk EXCEPT ![n] = [git |-> TRUE, version |-> upstream]]
  /\ WorkerOnly /\ UNCHANGED upstream

(* install with a path: the destination is replaced whatever it is. *)
InstallLocal(a, n) ==
  /\ row[a].state = "none" /\ Writes(a, n)
  /\ \/ /\ disk' = [disk EXCEPT ![n] = [git |-> FALSE, version |-> Local]]
        /\ \/ /\ row' = [row EXCEPT ![a] = [state |-> "flushed", origin |-> "local", dir |-> n,
                                            sha |-> Local, next |-> 0]]
              /\ UNCHANGED failed
           \/ Fails(n) /\ UNCHANGED row           \* its assets are invalid
     \/ disk' = [disk EXCEPT ![n] = NoDir] /\ Fails(n) /\ UNCHANGED row
  /\ WorkerOnly /\ UNCHANGED upstream

-----------------------------------------------------------------------------
(* update and redeploy.  Both look in the repository's directory, and the   *)
(* update ignores whether the pull worked.                                  *)

Pulled == IF disk[Repo].git THEN [disk EXCEPT ![Repo].version = upstream] ELSE disk
Head(d) == IF d[Repo].git THEN d[Repo].version ELSE Foreign

Sets(a, sha) ==
  \/ row' = [row EXCEPT ![a].next = sha] /\ UNCHANGED failed
  \/ Fails(Repo) /\ UNCHANGED row              \* the manifest is not accepted

UpdateAlgorithm(a) ==
  /\ Live(a) /\ row[a].origin = "url" /\ row[a].next = 0
  /\ disk' \in {Pulled, disk} /\ Sets(a, Head(disk')) /\ Writes(a, Repo)
  /\ WorkerOnly /\ UNCHANGED upstream

Redeploy(a) ==
  /\ Live(a) /\ row[a].origin = "url" /\ row[a].next = 0
  /\ disk[Repo].git /\ disk' = Pulled /\ Sets(a, Head(disk')) /\ Writes(a, Repo)
  /\ WorkerOnly /\ UNCHANGED upstream

(* get_db commits once the handler has returned, or the process is gone.    *)
(* Mutant: the new commit is not written.                                   *)
KeepsSha(a) == row[a].sha
NewSha(a)   == IF row[a].next # 0 THEN row[a].next ELSE row[a].sha

Commit(a) ==
  /\ row[a].state = "flushed" \/ row[a].next # 0
  /\ row' = [row EXCEPT ![a].state = "row", ![a].sha = NewSha(a), ![a].next = 0]
  /\ WorkerOnly /\ UNCHANGED <<upstream, disk, writers, failed>>

Rollback(a) ==
  /\ row[a].state = "flushed" \/ row[a].next # 0
  /\ row' = [row EXCEPT ![a] = IF @.state = "flushed" THEN NoRow ELSE [@ EXCEPT !.next = 0]]
  /\ Fails(IF row[a].state = "flushed" THEN row[a].dir ELSE Repo)
  /\ WorkerOnly /\ UNCHANGED <<upstream, disk, writers>>

(* The directory stays. *)
DeleteAlgorithm(a) ==
  /\ Live(a) /\ row[a].next = 0 /\ row' = [row EXCEPT ![a].state = "deleted"]
  /\ WorkerOnly /\ UNCHANGED <<upstream, disk, writers, failed>>

-----------------------------------------------------------------------------
(* The worker.  load_algorithm_class reads whatever is in the cache.        *)

Where(a) == IF row[a].origin = "url" THEN Repo ELSE row[a].dir

(* Mutant: any commit is served. *)
AnySha(a, s)  == Live(a)
Matches(a, s) == Live(a) /\ row[a].sha = s

(* A directory that is not empty counts as cached. *)
Ensure(a, s) ==
  /\ cache[a][s] = 0
  /\ Matches(a, s) /\ disk[Where(a)] # NoDir
  /\ \E got \in {disk[Where(a)].version, Partial} : cache' = [cache EXCEPT ![a][s] = got]
  /\ torn' = IF disk[Where(a)].version # row[a].sha THEN torn \cup {a} ELSE torn
  /\ UNCHANGED <<upstream, disk, row, writers, failed>>

Next ==
  \/ Push
  \/ \E a \in Algorithms :
       \/ \E n \in Names : InstallFromUrl(a, n) \/ InstallLocal(a, n)
       \/ UpdateAlgorithm(a) \/ Redeploy(a) \/ Commit(a) \/ Rollback(a) \/ DeleteAlgorithm(a)
  \/ \E a \in Deployed, s \in Versions : Ensure(a, s)

Spec == Init /\ [][Next]_vars

-----------------------------------------------------------------------------
TypeOK ==
  /\ disk \in [Names -> [git : BOOLEAN, version : 0..Commits + 1]]
  /\ \A a \in Algorithms : row[a].state \in {"none", "flushed", "row", "deleted"}
  /\ cache \in [Deployed -> [Versions -> Versions]]

(* What the route serves for an algorithm is the commit of its row, unless  *)
(* the directory was written for another algorithm too, it was installed    *)
(* under another name than the repository's, an operation failed halfway,   *)
(* or a new commit is about to be written.                                  *)
Settled(a)     == writers[Where(a)] = {a} /\ row[a].dir = Where(a) /\ Where(a) \notin failed
DiskMatchesRow ==
  \A a \in Algorithms :
    Live(a) /\ row[a].next = 0 /\ Settled(a) => disk[Where(a)].version = row[a].sha

(* package_cache.py:5-6: under a commit the cache has that commit, so that  *)
(* an update does not touch an older run; unless the tarball was made while *)
(* directory and row disagreed, or its extraction was cut off.              *)
CacheIsTrue ==
  \A a \in Deployed \ torn, s \in Versions : cache[a][s] \in {0, s, Partial}

(* Both: what the route serves, and what a worker keeps of it. *)
PackagesAreTrue == DiskMatchesRow /\ CacheIsTrue
=============================================================================
