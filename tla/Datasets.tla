------------------------------ MODULE Datasets ------------------------------
(***************************************************************************)
(* Dataset downloads: jobs that page through a provider behind one gate    *)
(* and a daily quota, and merge what they get into a file of observations, *)
(* each with the time it became known.  The provider adds and restates     *)
(* observations meanwhile, at the front of its pages.                      *)
(***************************************************************************)
EXTENDS Integers, Sequences, FiniteSets

CONSTANTS
  Jobs,
  Limit,        \* daily_limit
  MaxWindows,   \* days, a bound
  MaxServed,    \* observations of the provider, a bound
  MaxCrashes

ConstantsAssumption == {Limit, MaxWindows, MaxServed} \subseteq Nat \ {0} /\ MaxCrashes \in Nat

VARIABLES
  window,     \* the day in the quota's time zone
  usage,      \* QuotaUsage: [window -> NoUsage or [used, limit, exhausted]]
  gate,       \* who holds the adapter's lock, or NoOne
  served,     \* the provider's observations [id, known, value], newest first
  file,       \* the parquet file
  row,        \* DatasetDownload.status of each job
  task,       \* its task: [pc, page, first]
  history     \* [sent, late, ingested, crashes]

vars == <<window, usage, gate, served, file, row, task, history>>

NoOne   == "nobody"
NoUsage == [used |-> 0, limit |-> -1, exhausted |-> FALSE]
Windows == 1..MaxWindows
NoTask  == [pc |-> "none", page |-> 0, first |-> {}]
Observations == [id : {1, 2}, known : Windows, value : 0..1]

Init ==
  /\ window = 1 /\ usage = [w \in Windows |-> NoUsage] /\ gate = NoOne
  /\ served = <<>> /\ file = {}
  /\ row = [j \in Jobs |-> "absent"] /\ task = [j \in Jobs |-> NoTask]
  /\ history = [sent |-> [w \in Windows |-> 0], late |-> 0, ingested |-> {}, crashes |-> 0]

Elapses ==
  /\ window < MaxWindows /\ window' = window + 1
  /\ UNCHANGED <<usage, gate, served, file, row, task, history>>

(* The provider publishes, restates, or corrects in place. *)
Publishes ==
  /\ Len(served) < MaxServed
  /\ \E i \in {1, 2} :
       /\ \A n \in DOMAIN served : served[n].id = i => served[n].known < window
       /\ served' = <<[id |-> i, known |-> window, value |-> 0]>> \o served
  /\ UNCHANGED <<window, usage, gate, file, row, task, history>>

Corrects ==
  /\ \E n \in DOMAIN served : served[n].value = 0 /\ served' = [served EXCEPT ![n].value = 1]
  /\ UNCHANGED <<window, usage, gate, file, row, task, history>>

-----------------------------------------------------------------------------
(* The routes, and the start of the task. *)

QueueDownload(j) ==
  /\ row[j] = "absent"
  /\ row' = [row EXCEPT ![j] = "queued"] /\ task' = [task EXCEPT ![j].pc = "new"]
  /\ UNCHANGED <<window, usage, gate, served, file, history>>

CancelDownload(j) ==
  /\ row[j] = "queued" /\ row' = [row EXCEPT ![j] = "cancelled"]
  /\ UNCHANGED <<window, usage, gate, served, file, task, history>>

(* The row is set to running whatever it is. *)
Execute(j) ==
  /\ task[j].pc = "new"
  /\ row' = [row EXCEPT ![j] = "running"]
  /\ task' = [task EXCEPT ![j] = [pc |-> "asks", page |-> 0, first |-> {served[n] : n \in DOMAIN served}]]
  /\ UNCHANGED <<window, usage, gate, served, file, history>>

Ends(j, status) ==
  /\ row' = [row EXCEPT ![j] = status]
  /\ task' = [task EXCEPT ![j].pc = status]

-----------------------------------------------------------------------------
(* FMPAdapter and QuotaTracker. *)

Used(w, limit) == IF usage[w] = NoUsage THEN [NoUsage EXCEPT !.limit = limit] ELSE usage[w]

(* Mutant: one call more. *)
AfterTheLimit(u) == u.exhausted \/ u.used > u.limit
Refuses(u)       == u.exhausted \/ u.used >= u.limit

(* _request, up to the call: the quota is taken for the day it is. *)
Acquire(j) ==
  /\ task[j].pc = "asks" /\ gate = NoOne
  /\ LET u == Used(window, Limit) IN
     IF Refuses(u) THEN Ends(j, "paused_quota") /\ UNCHANGED <<usage, gate, history>>
     ELSE /\ usage' = [usage EXCEPT ![window] = [u EXCEPT !.used = @ + 1]]
          /\ gate' = j /\ task' = [task EXCEPT ![j].pc = "calls"]
          /\ history' = [history EXCEPT !.sent[window] = @ + 1]
          /\ UNCHANGED row
  /\ UNCHANGED <<window, served, file>>

(* DatasetService.upsert: the last of the same observation stays.  Mutants: *)
(* a restatement replaces what it restates; the file is written anew.       *)
Latest(old, new)     == {o \in old : o.id # new.id} \cup {new}
Overwritten(old, new) == {new}
Merged(old, new)     == {o \in old : <<o.id, o.known>> # <<new.id, new.known>>} \cup {new}

(* A page, or the end of the pages. *)
Page(j) ==
  /\ task[j].pc = "calls" /\ gate' = NoOne
  /\ IF task[j].page < Len(served)
     THEN LET o == served[task[j].page + 1] IN
          /\ file' = Merged(file, o)
          /\ history' = [history EXCEPT !.ingested = @ \cup {<<o.id, o.known>>}]
          /\ task' = [task EXCEPT ![j].pc = "asks", ![j].page = @ + 1]
          /\ UNCHANGED row
     ELSE Ends(j, "completed") /\ UNCHANGED <<file, history>>
  /\ UNCHANGED <<window, usage, served>>

(* 402: what was reachable is all there is to get.  An error. *)
Gated(j) ==
  /\ task[j].pc = "calls" /\ gate' = NoOne
  /\ row' = [row EXCEPT ![j] = "completed"] /\ task' = [task EXCEPT ![j].pc = "gated"]
  /\ UNCHANGED <<window, usage, served, file, history>>

Errs(j) ==
  /\ task[j].pc = "calls" /\ gate' = NoOne
  /\ Ends(j, "failed")
  /\ UNCHANGED <<window, usage, served, file, history>>

(* 429: the day is marked outside the gate, and it is the day it then is. *)
TooMany(j) ==
  /\ task[j].pc = "calls" /\ gate' = NoOne
  /\ task' = [task EXCEPT ![j].pc = "marks"]
  /\ UNCHANGED <<window, usage, served, file, row, history>>

(* Mutant: only the count is looked at later. *)
NotMarked(u) == u
Marked(u)    == [u EXCEPT !.exhausted = TRUE]

MarkExhausted(j) ==
  /\ task[j].pc = "marks"
  /\ usage' = [usage EXCEPT ![window] = Marked(Used(window, 0))]
  /\ Ends(j, "paused_quota")
  /\ history' = [history EXCEPT !.late = window]
  /\ UNCHANGED <<window, gate, served, file>>

-----------------------------------------------------------------------------
(* The process ends and starts: recover_orphaned_jobs. *)
Restart ==
  /\ history.crashes < MaxCrashes
  /\ history' = [history EXCEPT !.crashes = @ + 1]
  /\ row' = [j \in Jobs |-> IF row[j] = "running" THEN "queued" ELSE row[j]]
  /\ task' = [j \in Jobs |-> [task[j] EXCEPT !.pc = IF @ \in {"new", "asks", "calls", "marks"} THEN "lost" ELSE @]]
  /\ gate' = NoOne
  /\ UNCHANGED <<window, usage, served, file>>

Next ==
  \/ Elapses \/ Publishes \/ Corrects \/ Restart
  \/ \E j \in Jobs :
       \/ QueueDownload(j) \/ CancelDownload(j) \/ Execute(j) \/ Acquire(j) \/ Page(j)
       \/ Gated(j) \/ Errs(j) \/ TooMany(j) \/ MarkExhausted(j)

Spec == Init /\ [][Next]_vars

-----------------------------------------------------------------------------
TypeOK ==
  /\ window \in Windows /\ gate \in Jobs \cup {NoOne} /\ file \subseteq Observations
  /\ \A w \in Windows : usage[w].used \in 0..Limit + 1 /\ usage[w].limit \in {-1, 0, Limit}
  /\ \A j \in Jobs : row[j] \in {"absent", "queued", "running", "completed", "failed", "cancelled", "paused_quota"}
                     /\ task[j].page \in 0..MaxServed

(* load_dataset: what is known as of a time, after a job of these rows. *)
Visible(asOf) == {o \in file : o.known <= asOf}

(* What a read as of a time has seen it sees again, restated or not: every  *)
(* observation that came is there once.                                     *)
ObservationsStay ==
  \A t \in Windows : LET seen == {x \in history.ingested : x[2] <= t} IN
    {<<o.id, o.known>> : o \in Visible(t)} = seen /\ Cardinality(Visible(t)) = Cardinality(seen)

(* The calls of a day are within its quota, and a job calls alone. *)
QuotaIsKept ==
  /\ \A w \in Windows : history.sent[w] <= Limit
  /\ \A j \in Jobs : task[j].pc = "calls" => gate = j
  /\ history.late = window => usage[window].exhausted

(* A job that went to the end of the pages has all that was served when it  *)
(* began, though the pages moved.                                           *)
CompletedHasAll ==
  \A j \in Jobs : task[j].pc = "completed" =>
    \A o \in task[j].first : \E x \in file : <<x.id, x.known>> = <<o.id, o.known>>

(* Not so: nothing runs a row that a restart put back, or one that waits    *)
(* for its quota, and a row that was cancelled runs.                        *)
QueuedIsRun     == \A j \in Jobs : row[j] = "queued" => task[j].pc = "new"
CancelledIsKept == \A j \in Jobs : task[j].pc # "lost" /\ row[j] = "cancelled" => task[j].pc # "new"

(* Not so: an answer of yesterday's closes today. *)
TodayIsOpen == \A w \in Windows : usage[w].limit # 0
=============================================================================
