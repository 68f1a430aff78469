--------------------------- MODULE PackagesProofs ---------------------------
(***************************************************************************)
(* Proofs about Packages, for any algorithms, directories and commits.     *)
(***************************************************************************)
EXTENDS Packages, TLAPS

Rows == [state : {"none", "flushed", "row", "deleted"}, origin : {"url", "local"}, dir : Names,
         sha : Versions, next : Versions]

PackageTypes ==
  /\ upstream \in 1..Commits
  /\ disk \in [Names -> [git : BOOLEAN, version : 0..Commits + 1]]
  /\ row \in [Algorithms -> Rows] /\ writers \in [Names -> SUBSET Algorithms] /\ failed \subseteq Names
  /\ cache \in [Deployed -> [Versions -> Versions]] /\ torn \subseteq Deployed
  /\ \A n \in Names : disk[n].git => disk[n].version # 0
  /\ \A a \in Algorithms : row[a].next # 0 => row[a].origin = "url" /\ row[a].state = "row"
  /\ \A a \in Algorithms : row[a].state # "none" => a \in writers[row[a].dir]

(* The directory has what the row says, or what it will say once the        *)
(* handler's transaction is committed; a repository's directory is a clone. *)
DirectoryHas(a) ==
  row[a].state \in {"flushed", "row"} /\ Settled(a) =>
    /\ disk[Where(a)].version = IF row[a].next = 0 THEN row[a].sha ELSE row[a].next
    /\ row[a].origin = "url" => disk[Repo].git

PackageInv == PackageTypes /\ (\A a \in Algorithms : DirectoryHas(a)) /\ CacheIsTrue

LEMMA PackageInit == Init => PackageInv
BY ConstantsAssumption DEF PackageInv, PackageTypes, Rows, DirectoryHas, Init, ConstantsAssumption,
   NoDir, NoRow, Versions, CacheIsTrue, Partial

Target(r) == IF r.origin = "url" THEN Repo ELSE r.dir

RowSays(a, n, d, r) ==
  /\ row' = [row EXCEPT ![a] = r] /\ UNCHANGED failed
  /\ r.next # 0 => r.origin = "url" /\ r.state = "row"
  /\ n = Target(r) \/ r.dir # Target(r)
  /\ a \in writers'[r.dir]
  /\ r.dir = n /\ n = Target(r) /\ writers'[n] = {a} /\ n \notin failed =>
                      /\ d.version = IF r.next = 0 THEN r.sha ELSE r.next
                      /\ r.origin = "url" => d.git

(* An operation writes a directory for an algorithm and, unless it fails,   *)
(* says so in the algorithm's row.                                          *)
LEMMA Wrote ==
  ASSUME PackageInv, NEW a \in Algorithms, NEW n \in Names, NEW d \in [git : BOOLEAN, version : 0..Commits + 1],
         NEW r \in Rows, d.git => d.version # 0, Writes(a, n),
         disk' = [disk EXCEPT ![n] = d], UNCHANGED <<upstream, cache, torn>>,
         (row' = row /\ Fails(n)) \/ RowSays(a, n, d, r)
  PROVE  PackageInv'
<1>0. /\ writers' \in [Names -> SUBSET Algorithms] /\ failed' \subseteq Names /\ failed \subseteq failed'
      /\ a \in writers'[n] /\ \A m \in Names : m # n => writers'[m] = writers[m]
      /\ row' \in [Algorithms -> Rows] /\ (row' = row \/ row'[a] = r)
      /\ \A b \in Algorithms : b # a => row'[b] = row[b]
      /\ disk' \in [Names -> [git : BOOLEAN, version : 0..Commits + 1]] /\ disk'[n] = d
      /\ \A m \in Names : m # n => disk'[m] = disk[m]
  BY DEF PackageInv, PackageTypes, Writes, Fails, RowSays
<1>1. PackageTypes'
  <2>1. \A m \in Names : disk'[m].git => disk'[m].version # 0
    BY <1>0 DEF PackageInv, PackageTypes
  <2>2. \A b \in Algorithms : row'[b].next # 0 => row'[b].origin = "url" /\ row'[b].state = "row"
    BY <1>0 DEF PackageInv, PackageTypes, RowSays
  <2>3. ASSUME NEW b \in Algorithms, row'[b].state # "none" PROVE b \in writers'[row'[b].dir]
    <3>1. CASE row'[b] = row[b]
      BY <1>0, <2>3, <3>1 DEF PackageInv, PackageTypes, Writes, Rows
    <3>2. CASE row'[b] # row[b]
      BY <1>0, <2>3, <3>2 DEF PackageInv, PackageTypes, RowSays
    <3> QED
      BY <3>1, <3>2
  <2> QED
    BY <1>0, <2>1, <2>2, <2>3 DEF PackageInv, PackageTypes
<1>2. ASSUME NEW b \in Algorithms PROVE DirectoryHas(b)'
  <2>1. Where(b) \in Names /\ Where(b)' \in Names
    BY <1>1, ConstantsAssumption DEF PackageInv, PackageTypes, Where, Rows, ConstantsAssumption
  <2>2. CASE b # a
    <3>1. row'[b] = row[b] /\ Where(b)' = Where(b) /\ DirectoryHas(b)
      BY <1>0, <2>2 DEF PackageInv, Where
    <3>2. Settled(b)' => Settled(b) /\ Where(b) # n
      <4>1. Where(b) = n => ~Settled(b)'
        BY <1>0, <2>2, <3>1 DEF Settled
      <4>2. Where(b) # n => (Settled(b)' => Settled(b))
        BY <1>0, <2>1, <3>1 DEF Settled
      <4> QED
        BY <4>1, <4>2
    <3>3. Where(b) # n => disk'[Where(b)] = disk[Where(b)]
      BY <2>1 DEF PackageInv, PackageTypes
    <3>4. row[b].origin = "url" => Where(b) = Repo
      BY DEF Where
    <3> QED
      BY <3>1, <3>2, <3>3, <3>4 DEF DirectoryHas
  <2>3. CASE b = a
    <3>1. CASE row' = row /\ Fails(n)
      <4>1. Where(a)' = Where(a) /\ DirectoryHas(a)
        BY <3>1 DEF Where, PackageInv
      <4>2. Settled(a)' => Settled(a) /\ Where(a) # n
        BY <2>1, <2>3, <3>1, <4>1 DEF PackageInv, PackageTypes, Settled, Writes, Fails
      <4> QED
        BY <2>1, <2>3, <3>1, <4>1, <4>2 DEF PackageInv, PackageTypes, DirectoryHas, Where
    <3>2. CASE RowSays(a, n, d, r)
      <4>1. row'[a] = r /\ Where(a)' = Target(r)
        BY <3>2 DEF PackageInv, PackageTypes, Where, Target, RowSays
      <4>2. CASE n = Where(a)'
        BY <1>0, <2>3, <3>2, <4>1, <4>2 DEF DirectoryHas, Settled, RowSays, Target
      <4>3. CASE n # Where(a)'
        BY <2>3, <3>2, <4>1, <4>3 DEF DirectoryHas, Settled, RowSays
      <4> QED
        BY <4>2, <4>3
    <3> QED
      BY <3>1, <3>2
  <2> QED
    BY <2>2, <2>3
<1>3. CacheIsTrue'
  BY DEF PackageInv, CacheIsTrue
<1> QED
  BY <1>1, <1>2, <1>3 DEF PackageInv

LEMMA PackageStep == PackageInv /\ [Next]_vars => PackageInv'
<1> SUFFICES ASSUME PackageInv, [Next]_vars PROVE PackageInv'
  OBVIOUS
<1>a. /\ Repo \in Names /\ Deployed \subseteq Algorithms /\ Commits \in Nat \ {0}
      /\ Versions = 0..Commits + 3 /\ 0 \in Versions
  BY ConstantsAssumption DEF ConstantsAssumption, Versions
<1>b. PackageTypes /\ \A a \in Algorithms : DirectoryHas(a)
  BY DEF PackageInv
<1>c. /\ NoDir \in [git : BOOLEAN, version : 0..Commits + 1] /\ ~NoDir.git /\ NoRow \in Rows
      /\ upstream \in 1..Commits /\ upstream \in Versions /\ Local \in Versions /\ Foreign \in Versions
      /\ Local \in 0..Commits + 1 /\ Foreign # 0
  BY <1>a, <1>b DEF NoDir, NoRow, Rows, PackageTypes, Local, Foreign
<1>1. CASE Push
  BY <1>a, <1>b, <1>1 DEF Push, PackageInv, PackageTypes, DirectoryHas, Settled, Where, CacheIsTrue
<1>2. ASSUME NEW a \in Algorithms, NEW n \in Names, InstallFromUrl(a, n) PROVE PackageInv'
  <2> DEFINE d == [git |-> TRUE, version |-> upstream]
             r == [state |-> "flushed", origin |-> "url", dir |-> n, sha |-> upstream, next |-> 0]
  <2>1. d \in [git : BOOLEAN, version : 0..Commits + 1] /\ d.version # 0 /\ r \in Rows /\ Target(r) = Repo /\ r.dir = n
    BY <1>a, <1>c DEF Rows, Target
  <2>2. Writes(a, n) /\ UNCHANGED <<upstream, cache, torn>>
    BY <1>2 DEF InstallFromUrl, WorkerOnly
  <2>3. \/ disk' = [disk EXCEPT ![n] = d] /\ RowSays(a, n, d, r)
        \/ disk' = [disk EXCEPT ![n] = d] /\ Fails(n) /\ row' = row
        \/ disk' = [disk EXCEPT ![n] = NoDir] /\ Fails(n) /\ row' = row
    <3>1. a \in writers'[n] /\ r.dir = n
      BY <1>b, <2>2 DEF PackageTypes, Writes
    <3>2. row' = [row EXCEPT ![a] = r] /\ UNCHANGED failed => RowSays(a, n, d, r)
      BY <2>1, <3>1 DEF RowSays
    <3> QED
      BY <1>2, <3>2 DEF InstallFromUrl
  <2> HIDE DEF d, r
  <2> QED
    BY <1>c, <2>1, <2>2, <2>3, Wrote
<1>3. ASSUME NEW a \in Algorithms, NEW n \in Names, InstallLocal(a, n) PROVE PackageInv'
  <2> DEFINE d == [git |-> FALSE, version |-> Local]
             r == [state |-> "flushed", origin |-> "local", dir |-> n, sha |-> Local, next |-> 0]
  <2>1. d \in [git : BOOLEAN, version : 0..Commits + 1] /\ ~d.git /\ r \in Rows /\ Target(r) = n
    BY <1>a, <1>c DEF Rows, Target
  <2>2. Writes(a, n) /\ UNCHANGED <<upstream, cache, torn>>
    BY <1>3 DEF InstallLocal, WorkerOnly
  <2>3. \/ disk' = [disk EXCEPT ![n] = d] /\ RowSays(a, n, d, r)
        \/ disk' = [disk EXCEPT ![n] = d] /\ Fails(n) /\ row' = row
        \/ disk' = [disk EXCEPT ![n] = NoDir] /\ Fails(n) /\ row' = row
    <3>1. a \in writers'[n] /\ r.dir = n
      BY <1>b, <2>2 DEF PackageTypes, Writes
    <3>2. row' = [row EXCEPT ![a] = r] /\ UNCHANGED failed => RowSays(a, n, d, r)
      BY <2>1, <3>1 DEF RowSays
    <3> QED
      BY <1>3, <3>2 DEF InstallLocal
  <2> HIDE DEF d, r
  <2> QED
    BY <1>c, <2>1, <2>2, <2>3, Wrote
<1>4. ASSUME NEW a \in Algorithms, UpdateAlgorithm(a) \/ Redeploy(a) PROVE PackageInv'
  <2> DEFINE d == disk'[Repo]
             r == [row[a] EXCEPT !.next = Head(disk')]
  <2>1. disk' \in {Pulled, disk} /\ Sets(a, Head(disk')) /\ Writes(a, Repo) /\ row[a].origin = "url"
        /\ UNCHANGED <<upstream, cache, torn>>
    BY <1>4 DEF UpdateAlgorithm, Redeploy, WorkerOnly
  <2>2. disk' = [disk EXCEPT ![Repo] = d] /\ d \in [git : BOOLEAN, version : 0..Commits + 1] /\ (d.git => d.version # 0)
    <3>1. CASE disk' = disk
      BY <1>a, <1>b, <3>1 DEF PackageTypes
    <3>2. CASE disk' = [disk EXCEPT ![Repo].version = upstream]
      <4>1. d = [disk[Repo] EXCEPT !.version = upstream] /\ upstream \in 0..Commits + 1 /\ upstream # 0
        BY <1>a, <1>b, <1>c, <3>2 DEF PackageTypes
      <4>2. disk' = [disk EXCEPT ![Repo] = d]
        BY <1>b, <3>2, <4>1 DEF PackageTypes
      <4> QED
        BY <1>a, <1>b, <4>1, <4>2 DEF PackageTypes
    <3> QED
      BY <2>1, <3>1, <3>2 DEF Pulled
  <2>3. Head(disk') \in Versions /\ Head(disk') # 0 /\ (d.git => Head(disk') = d.version)
    BY <1>a, <1>c, <2>2 DEF Head
  <2>4. r \in Rows /\ r.next = Head(disk') /\ r.origin = "url" /\ r.state = "row" /\ Target(r) = Repo
    BY <1>a, <1>b, <1>4, <2>1, <2>3 DEF UpdateAlgorithm, Redeploy, Live, Rows, PackageTypes, Target
  <2>5. row[a].state = "row" /\ row[a].next = 0 /\ Where(a) = Repo
    BY <1>4, <2>1 DEF UpdateAlgorithm, Redeploy, Live, Where
  <2>6. a \in writers[row[a].dir] /\ r.dir = row[a].dir /\ r.dir \in Names
    BY <1>b, <2>4, <2>5 DEF PackageTypes, Rows
  <2>7. writers'[r.dir] \in {writers[r.dir], writers[r.dir] \cup {a}}
    BY <1>a, <1>b, <2>1, <2>6 DEF PackageTypes, Writes
  <2>8. r.dir = Repo /\ writers'[Repo] = {a} /\ Repo \notin failed => d.git
    <3> SUFFICES ASSUME r.dir = Repo, writers'[Repo] = {a}, Repo \notin failed PROVE d.git
      OBVIOUS
    <3>1. Settled(a)
      BY <2>5, <2>6, <2>7 DEF Settled
    <3>2. disk[Repo].git
      BY <1>b, <2>1, <2>5, <3>1 DEF DirectoryHas
    <3> QED
      <4>1. disk'[Repo].git = disk[Repo].git
        <5>1. CASE disk' = disk
          BY <5>1
        <5>2. CASE disk' = [disk EXCEPT ![Repo].version = upstream]
          BY <1>a, <1>b, <5>2 DEF PackageTypes
        <5> QED
          BY <2>1, <5>1, <5>2 DEF Pulled
      <4> QED
        BY <3>2, <4>1
  <2>9. (row' = row /\ Fails(Repo)) \/ RowSays(a, Repo, d, r)
    <3>1. CASE Fails(Repo) /\ UNCHANGED row
      BY <3>1
    <3>2. CASE row' = [row EXCEPT ![a].next = Head(disk')] /\ UNCHANGED failed
      <4>1. row' = [row EXCEPT ![a] = r]
        BY <1>b, <3>2 DEF PackageTypes
      <4> HIDE DEF r, d
      <4> QED
        BY <2>3, <2>4, <2>6, <2>7, <2>8, <3>2, <4>1 DEF RowSays
    <3> QED
      BY <2>1, <3>1, <3>2 DEF Sets
  <2> HIDE DEF d, r
  <2> QED
    BY <1>a, <2>1, <2>2, <2>4, <2>9, Wrote
<1>5. ASSUME NEW a \in Algorithms, Commit(a) \/ Rollback(a) \/ DeleteAlgorithm(a) PROVE PackageInv'
  <2>1. UNCHANGED <<upstream, disk, writers, cache, torn>>
    BY <1>5 DEF Commit, Rollback, DeleteAlgorithm, WorkerOnly
  <2>2. PICK r : row' = [row EXCEPT ![a] = r] /\ r = row'[a]
    BY <1>b, <1>5 DEF Commit, Rollback, DeleteAlgorithm, PackageTypes
  <2>3. \A b \in Algorithms \ {a} : row'[b] = row[b]
    BY <1>b, <2>2 DEF PackageTypes
  <2>4. /\ r \in Rows /\ r.next = 0 /\ (r.state # "none" => row[a].state # "none" /\ r.dir = row[a].dir)
        /\ failed' \subseteq Names /\ failed \subseteq failed'
    <3>1. CASE Commit(a)
      <4>1. row[a] \in Rows /\ row[a].state \in {"flushed", "row"} /\ UNCHANGED failed
        BY <1>b, <3>1 DEF Commit, PackageTypes, Rows
      <4>2. r = [row[a] EXCEPT !.state = "row", !.sha = NewSha(a), !.next = 0]
        BY <1>b, <2>2, <3>1 DEF Commit, PackageTypes
      <4>3. NewSha(a) \in Versions
        BY <4>1 DEF NewSha, Rows
      <4> QED
        BY <1>a, <1>b, <4>1, <4>2, <4>3 DEF Rows, PackageTypes
    <3>2. CASE Rollback(a)
      <4>1. row[a] \in Rows /\ (row[a].state # "none" \/ row[a].next # 0)
        BY <1>b, <3>2 DEF Rollback, PackageTypes
      <4>2. r = IF row[a].state = "flushed" THEN NoRow ELSE [row[a] EXCEPT !.next = 0]
        BY <1>b, <2>2, <3>2 DEF Rollback, PackageTypes
      <4>3. failed' \subseteq Names /\ failed \subseteq failed'
        BY <1>a, <1>b, <3>2, <4>1 DEF Rollback, PackageTypes, Fails, Rows
      <4>4. NoRow.state = "none" /\ NoRow.next = 0
        BY DEF NoRow
      <4>5. CASE row[a].state = "flushed"
        BY <1>c, <4>2, <4>3, <4>4, <4>5
      <4>6. CASE row[a].state # "flushed"
        BY <1>a, <4>1, <4>2, <4>3, <4>6 DEF Rows
      <4> QED
        BY <4>5, <4>6
    <3>3. CASE DeleteAlgorithm(a)
      <4>1. row[a] \in Rows /\ row[a].state = "row" /\ row[a].next = 0 /\ UNCHANGED failed
        BY <1>b, <3>3 DEF DeleteAlgorithm, PackageTypes, Live
      <4>2. r = [row[a] EXCEPT !.state = "deleted"]
        BY <1>b, <2>2, <3>3 DEF DeleteAlgorithm, PackageTypes
      <4> QED
        BY <1>b, <4>1, <4>2 DEF Rows, PackageTypes
    <3> QED
      BY <1>5, <3>1, <3>2, <3>3
  <2>5. PackageTypes'
    BY <1>b, <2>1, <2>2, <2>3, <2>4 DEF PackageTypes
  <2>6. ASSUME NEW b \in Algorithms PROVE DirectoryHas(b)'
    <3>1. CASE b # a
      <4>1. row'[b] = row[b]
        BY <2>3, <3>1
      <4> QED
        BY <1>b, <2>1, <2>4, <4>1 DEF DirectoryHas, Settled, Where
    <3>2. CASE b = a
      <4>1. CASE Commit(a)
        <5>1. row[a] \in Rows /\ row[a].state \in {"flushed", "row"} /\ UNCHANGED failed
          BY <1>b, <4>1 DEF Commit, PackageTypes, Rows
        <5>2. r = [row[a] EXCEPT !.state = "row", !.sha = NewSha(a), !.next = 0]
          BY <1>b, <2>2, <4>1 DEF Commit, PackageTypes
        <5>3. r.sha = NewSha(a) /\ r.next = 0 /\ r.dir = row[a].dir /\ r.origin = row[a].origin
          BY <5>1, <5>2 DEF Rows
        <5>4. Where(a)' = Where(a) /\ (Settled(a)' => Settled(a))
          BY <2>1, <2>2, <5>1, <5>3 DEF Where, Settled
        <5> QED
          BY <1>b, <2>1, <2>2, <3>2, <5>1, <5>3, <5>4 DEF DirectoryHas, NewSha
      <4>2. CASE Rollback(a)
        <5>1. CASE row[a].state = "flushed"
          BY <1>b, <2>2, <3>2, <4>2, <5>1 DEF Rollback, PackageTypes, DirectoryHas, NoRow
        <5>2. CASE row[a].state # "flushed"
          <6>1. row[a].next # 0 /\ row[a].origin = "url" /\ Repo \in failed' /\ r.origin = "url"
            BY <1>b, <2>2, <4>2, <5>2 DEF Rollback, PackageTypes, Fails, Rows
          <6> QED
            BY <2>2, <3>2, <6>1 DEF DirectoryHas, Settled, Where
        <5> QED
          BY <5>1, <5>2
      <4>3. CASE DeleteAlgorithm(a)
        <5>1. r.state = "deleted"
          BY <1>b, <2>2, <4>3 DEF DeleteAlgorithm, PackageTypes, Rows
        <5> QED
          BY <2>2, <3>2, <5>1 DEF DirectoryHas
      <4> QED
        BY <1>5, <4>1, <4>2, <4>3
    <3> QED
      BY <3>1, <3>2
  <2> QED
    BY <2>1, <2>5, <2>6 DEF PackageInv, CacheIsTrue
<1>6. ASSUME NEW a \in Deployed, NEW s \in Versions, Ensure(a, s) PROVE PackageInv'
  <2>1. UNCHANGED <<upstream, disk, row, writers, failed>> /\ a \in Algorithms /\ row[a].sha = s
    BY <1>a, <1>6 DEF Ensure, Matches
  <2>2. Where(a) \in Names /\ disk[Where(a)].version \in Versions /\ Partial \in Versions
    <3>1. row[a] \in Rows /\ Partial \in Versions
      BY <1>a, <1>b, <2>1 DEF PackageTypes, Partial
    <3>2. Where(a) \in Names
      BY <1>a, <3>1 DEF Where, Rows
    <3>3. disk[Where(a)].version \in 0..Commits + 1
      BY <1>b, <3>2 DEF PackageTypes
    <3> QED
      BY <1>a, <3>1, <3>2, <3>3
  <2>3. PICK got \in {disk[Where(a)].version, Partial} : cache' = [cache EXCEPT ![a][s] = got]
    BY <1>6 DEF Ensure
  <2>4. torn' = IF disk[Where(a)].version # s THEN torn \cup {a} ELSE torn
    BY <1>6, <2>1 DEF Ensure
  <2>5. PackageTypes'
    BY <1>b, <2>1, <2>2, <2>3, <2>4 DEF PackageTypes
  <2>6. \A b \in Algorithms : DirectoryHas(b)'
    BY <1>b, <2>1 DEF DirectoryHas, Settled, Where
  <2>7. CacheIsTrue'
    BY <1>b, <2>3, <2>4 DEF PackageInv, PackageTypes, CacheIsTrue
  <2> QED
    BY <2>5, <2>6, <2>7 DEF PackageInv
<1>7. CASE UNCHANGED vars
  BY <1>b, <1>7 DEF vars, PackageInv, PackageTypes, DirectoryHas, Settled, Where, CacheIsTrue
<1> QED
  BY <1>1, <1>2, <1>3, <1>4, <1>5, <1>6, <1>7 DEF Next

LEMMA PackagesRight == PackageInv => DiskMatchesRow /\ CacheIsTrue
BY DEF PackageInv, DirectoryHas, DiskMatchesRow, Live

LEMMA PackagesKeepInv == Spec => []PackageInv
BY PackageInit, PackageStep, PTL DEF Spec

(* The variables keep their types. *)
THEOREM PackagesTyped == Spec => []TypeOK
<1>1. PackageInv => TypeOK
  BY DEF PackageInv, PackageTypes, Rows, TypeOK
<1> QED
  BY <1>1, PackagesKeepInv, PTL

(* What the route serves for an algorithm is the commit of its row: of one *)
(* that is settled, the handlers' steps in any order and with any failures *)
(* leave directory and row agreed.  And a worker's cache has, under a      *)
(* commit, that commit or what was cut off of it, unless it was served     *)
(* while directory and row disagreed.                                      *)
THEOREM PackagesStayTrue == Spec => []PackagesAreTrue
<1>1. PackageInv => PackagesAreTrue
  BY PackagesRight DEF PackagesAreTrue
<1> QED
  BY <1>1, PackagesKeepInv, PTL
=============================================================================
