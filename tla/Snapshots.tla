----------------------------- MODULE Snapshots ------------------------------
(***************************************************************************)
(* The two snapshots behind the slow pages of the dashboard                *)
(* (coordinator/services/cached_snapshot.py, wired in main.py), the index  *)
(* of the days on disk that the coverage goes through                      *)
(* (coverage_index.py), and who invalidates them.  A refresh computes its  *)
(* value in a thread, so that files, the index and the invalidations move  *)
(* between any two of its steps.  What is on disk is the number of times   *)
(* it has changed; 0 is to have found nothing.                             *)
(***************************************************************************)
EXTENDS Naturals

CONSTANTS
  MaxChanges,   \* how often the files change
  MayPrewarm    \* whether the refresh at the start of the process runs beside the others

VARIABLES
  disk,         \* the state of the files
  saving,       \* a download's thread is writing a file
  index,        \* what the index holds: [has, at]
  value,        \* what each snapshot holds, 0 before the first refresh
  pending,      \* whether each snapshot was invalidated since its refresh began
  worker,       \* the refreshes: the drainer of each snapshot, and the prewarm
  prewarm,      \* which snapshot the prewarm is at, or "done"
  told,         \* (history) the state of the files at the last invalidation of each
  crossed,      \* (history) a prewarm or a failure came over a later invalidation
  overtaken     \* (history) the index was cleared while a thread was to fill it

vars == <<disk, saving, index, value, pending, worker, prewarm, told, crossed, overtaken>>

Snaps   == {"coverage", "storage"}
Workers == Snaps \cup {"prewarm"}

Idle     == [at |-> "idle", got |-> 0]
Begun(s) == [at |-> IF s = "coverage" THEN "look" ELSE "walk", got |-> 0]

Init ==
  /\ disk = 1 /\ saving = FALSE /\ index = [has |-> FALSE, at |-> 0]
  /\ value = [s \in Snaps |-> 0] /\ pending = [s \in Snaps |-> FALSE]
  /\ prewarm = "coverage"
  /\ worker = [w \in Workers |-> IF w = "prewarm" THEN Begun("coverage") ELSE Idle]
  /\ told = [s \in Snaps |-> 1] /\ crossed = [s \in Snaps |-> FALSE] /\ overtaken = FALSE

(***************************************************************************)
(* The steps of a refresh, in its thread.                                  *)
(***************************************************************************)

Moves(w, at, got) ==
  /\ worker' = [worker EXCEPT ![w] = [at |-> at, got |-> got]]
  /\ UNCHANGED <<disk, saving, value, pending, prewarm, told, crossed>>

Look(w) ==
  /\ worker[w].at = "look"
  /\ Moves(w, IF index.has THEN "fetch" ELSE "scan", 0)
  /\ UNCHANGED <<index, overtaken>>

(* A file that is half written reads as one without days. *)
Scan(w) ==
  /\ worker[w].at = "scan"
  /\ \/ Moves(w, "store", disk)
     \/ saving /\ Moves(w, "store", 0)
  /\ UNCHANGED <<index, overtaken>>

Store(w) ==
  /\ worker[w].at = "store"
  /\ index' = [has |-> TRUE, at |-> worker[w].got]
  /\ Moves(w, "fetch", 0)
  /\ UNCHANGED overtaken

(* The entry may be gone again: then the refresh fails. *)
Fetch(w) ==
  /\ worker[w].at = "fetch"
  /\ IF index.has THEN Moves(w, "made", index.at) ELSE Moves(w, "failed", 0)
  /\ UNCHANGED <<index, overtaken>>

Walk(w) ==
  /\ worker[w].at = "walk"
  /\ Moves(w, "made", disk)
  /\ UNCHANGED <<index, overtaken>>

(***************************************************************************)
(* The ends of a refresh, on the event loop.                               *)
(***************************************************************************)

(* The drainer takes the value and goes on as long as it is stale. *)
Consumed(s) == pending' = [pending EXCEPT ![s] = FALSE]
(* Mutant: the flag is consumed after the value was computed. *)
OneRound(s)  == [worker EXCEPT ![s] = Idle]
NextRound(s) == [worker EXCEPT ![s] = IF pending[s] THEN Begun(s) ELSE Idle]

Drained(s) ==
  /\ worker[s].at = "made"
  /\ value' = [value EXCEPT ![s] = worker[s].got]
  /\ worker' = NextRound(s) /\ Consumed(s)
  /\ crossed' = [crossed EXCEPT ![s] = FALSE]
  /\ UNCHANGED <<disk, saving, index, prewarm, told, overtaken>>

(* After a failure it ends, whatever was invalidated meanwhile. *)
GivesUp(s) ==
  /\ worker[s].at = "failed"
  /\ worker' = [worker EXCEPT ![s] = Idle]
  /\ crossed' = [crossed EXCEPT ![s] = TRUE]
  /\ UNCHANGED <<disk, saving, index, value, pending, prewarm, told, overtaken>>

(* refresh_now: the coverage, then the storage; a failure ends the prewarm. *)
Prewarmed ==
  /\ worker["prewarm"].at \in {"made", "failed"}
  /\ LET made == worker["prewarm"].at = "made"
         next == IF made /\ prewarm = "coverage" THEN "storage" ELSE "done"
     IN /\ prewarm' = next
        /\ value' = IF made THEN [value EXCEPT ![prewarm] = worker["prewarm"].got] ELSE value
        /\ crossed' = [crossed EXCEPT ![prewarm] = @ \/ ~made \/ told[prewarm] > 1]
        /\ worker' = [worker EXCEPT !["prewarm"] =
                        IF next = "storage" THEN Begun("storage") ELSE Idle]
  /\ UNCHANGED <<disk, saving, index, pending, told, overtaken>>

(***************************************************************************)
(* The files, and those who say that they changed.                         *)
(***************************************************************************)

MayStart == MayPrewarm \/ prewarm = "done"

(* CachedSnapshot.invalidate: one drainer at a time. *)
Invalidated(which) ==
  LET starts == {s \in which : worker[s].at = "idle"} IN
  /\ pending' = [s \in Snaps |-> IF s \in which THEN s \notin starts ELSE pending[s]]
  /\ worker' = [w \in Workers |-> IF w \in starts THEN Begun(w) ELSE worker[w]]
  /\ told' = [s \in Snaps |-> IF s \in which THEN disk' ELSE told[s]]

(* CoverageIndex.invalidate. *)
Cleared ==
  /\ index' = [has |-> FALSE, at |-> 0]
  /\ overtaken' = (\E w \in Workers : worker[w].at = "store")

SaveBegins ==
  /\ MayStart /\ ~saving /\ disk < MaxChanges
  /\ saving' = TRUE
  /\ UNCHANGED <<disk, index, value, pending, worker, prewarm, told, crossed, overtaken>>

SaveEnds ==
  /\ saving /\ saving' = FALSE /\ disk' = disk + 1
  /\ UNCHANGED <<index, value, pending, worker, prewarm, told, crossed, overtaken>>

(* The completion of a download is told after its last save. *)
DownloadComplete ==
  /\ ~saving /\ told["coverage"] < disk
  /\ disk' = disk /\ Cleared /\ Invalidated(Snaps)
  /\ UNCHANGED <<saving, value, prewarm, crossed>>

DeleteDatasets ==
  /\ MayStart /\ ~saving /\ disk < MaxChanges
  /\ disk' = disk + 1 /\ Cleared /\ Invalidated(Snaps)
  /\ UNCHANGED <<saving, value, prewarm, crossed>>

(* What a scraper writes is not market data: only the storage is told. *)
ScraperWrote ==
  /\ MayStart /\ ~saving /\ disk < MaxChanges
  /\ disk' = disk + 1 /\ Invalidated({"storage"})
  /\ UNCHANGED <<saving, index, value, prewarm, crossed, overtaken>>

Next ==
  \/ \E w \in Workers : Look(w) \/ Scan(w) \/ Store(w) \/ Fetch(w) \/ Walk(w)
  \/ \E s \in Snaps : Drained(s) \/ GivesUp(s)
  \/ Prewarmed
  \/ SaveBegins \/ SaveEnds \/ DownloadComplete \/ DeleteDatasets \/ ScraperWrote

-----------------------------------------------------------------------------

TypeOK ==
  /\ disk \in 1..MaxChanges /\ saving \in BOOLEAN
  /\ index \in [has : BOOLEAN, at : 0..MaxChanges]
  /\ value \in [Snaps -> 0..MaxChanges] /\ pending \in [Snaps -> BOOLEAN]
  /\ worker \in [Workers -> [at : {"idle", "look", "scan", "store", "fetch", "walk", "made",
                                   "failed"}, got : 0..MaxChanges]]
  /\ prewarm \in Snaps \cup {"done"} /\ told \in [Snaps -> 1..MaxChanges]
  /\ crossed \in [Snaps -> BOOLEAN] /\ overtaken \in BOOLEAN

Quiet(s) == worker[s].at = "idle" /\ worker["prewarm"].at = "idle"

(* No invalidation is forgotten: a stale snapshot has a drainer, unless the   *)
(* drainer gave up.                                                           *)
StaleIsDrained == \A s \in Snaps : pending[s] => (worker[s].at # "idle" \/ crossed[s])

(* What the storage page shows, once nothing is computed, is not older than   *)
(* the last change it was told of; of the coverage page the same holds once   *)
(* every change was told, if the index was not filled by a scan that an       *)
(* invalidation overtook.                                                     *)
StorageIsFresh == (Quiet("storage") /\ ~crossed["storage"]) => value["storage"] >= told["storage"]
CoverageIsFresh ==
  (Quiet("coverage") /\ ~crossed["coverage"] /\ ~overtaken /\ ~saving /\ told["coverage"] = disk) =>
    value["coverage"] >= told["coverage"]

(* Not so, without these conditions: a scan that was overtaken fills the      *)
(* index with what it read, and the prewarm may put an older value over a     *)
(* newer one.                                                                 *)
AlwaysFresh == \A s \in Snaps : Quiet(s) => value[s] >= told[s]

=============================================================================
