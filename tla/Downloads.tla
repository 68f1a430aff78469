----------------------------- MODULE Downloads -----------------------------
(***************************************************************************)
(* The market-data downloads of coordinator/services/download_manager.py:  *)
(* a row and an asyncio task per download, one semaphore per provider, the *)
(* completion listeners that feed the goal processor and the caches, and   *)
(* cancel, delete and restart racing with the tasks.                       *)
(*                                                                         *)
(* A task is cut at its awaits.  What a cancelled task had in flight lands *)
(* or is rolled back before the canceller's own UPDATE, which has to wait  *)
(* for SQLite's write lock.                                                *)
(***************************************************************************)
EXTENDS Naturals, FiniteSets

CONSTANTS
  DownloadIds,   \* downloads that may be created (a bound)
  Providers,
  ProviderOf,    \* the provider of each download
  Concurrency,   \* permits of each provider's semaphore
  Symbols,       \* number of symbols of each download
  Cancellers,    \* concurrent cancel_download calls
  NoDownload

ASSUME ConstantsAssumption ==
  /\ ProviderOf \in [DownloadIds -> Providers]
  /\ Concurrency \in [Providers -> Nat \ {0}]
  /\ Symbols \in [DownloadIds -> Nat \ {0}]
  /\ NoDownload \notin DownloadIds

VARIABLES
  status,     \* MarketDataDownload.status ("absent": not created, or deleted)
  created,    \* downloads that were ever created
  task,       \* where _run_download of each download is suspended
  progress,   \* symbols done
  errors,     \* symbols that failed
  cancelReq,  \* downloads whose task has a CancelledError pending
  canceller,  \* each cancel_download call: where it is suspended, and its download
  notified,   \* downloads whose completion listeners were called
  cutOff      \* downloads a coordinator restart ended, in mid-task or in mid-cancel

vars == <<status, created, task, progress, errors, cancelReq, canceller, notified, cutOff>>

Active   == {"queued", "running"}
Finished == {"completed", "completed_with_errors", "failed"}
Terminal == Finished \cup {"cancelled"}

Holding   == {"check", "mark", "fetch", "final", "close"}
Suspended == {"new", "lookup", "wait"} \cup Holding
Idle == [pc |-> "idle", id |-> NoDownload]

TypeOK ==
  /\ status \in [DownloadIds -> {"absent"} \cup Active \cup Terminal]
  /\ created \subseteq DownloadIds
  /\ task \in [DownloadIds -> {"none", "inserted", "done"} \cup Suspended]
  /\ progress \in [DownloadIds -> Nat] /\ errors \in [DownloadIds -> Nat]
  /\ \A d \in DownloadIds : errors[d] <= progress[d] /\ progress[d] <= Symbols[d]
  /\ cancelReq \subseteq DownloadIds
  /\ canceller \in [Cancellers -> [pc: {"idle", "update", "read", "write"}, id: DownloadIds \cup {NoDownload}]]
  /\ notified \subseteq DownloadIds /\ cutOff \subseteq DownloadIds

Init ==
  /\ status = [d \in DownloadIds |-> "absent"]
  /\ created = {}
  /\ task = [d \in DownloadIds |-> "none"]
  /\ progress = [d \in DownloadIds |-> 0]
  /\ errors = [d \in DownloadIds |-> 0]
  /\ cancelReq = {}
  /\ canceller = [c \in Cancellers |-> Idle]
  /\ notified = {} /\ cutOff = {}

(* An UPDATE of a row that was deleted changes nothing. *)
SetStatus(d, s) == status' = [status EXCEPT ![d] = IF @ = "absent" THEN @ ELSE s]

-----------------------------------------------------------------------------
(* create_download: the row is committed, and can be listed and cancelled, *)
(* before its task exists.                                                 *)
CreateRow(d) ==
  /\ d \notin created
  /\ created' = created \cup {d}
  /\ status' = [status EXCEPT ![d] = "queued"]
  /\ task' = [task EXCEPT ![d] = "inserted"]
  /\ UNCHANGED <<progress, errors, cancelReq, canceller, notified, cutOff>>

StartTask(d) ==
  /\ task[d] = "inserted"
  /\ task' = [task EXCEPT ![d] = "new"]
  /\ UNCHANGED <<status, created, progress, errors, cancelReq, canceller, notified, cutOff>>

-----------------------------------------------------------------------------
(* _run_download; a task with a CancelledError pending takes only the      *)
(* Interrupt step.                                                         *)
Runs(d, at) == task[d] = at /\ d \notin cancelReq
Goto(d, pc) == task' = [task EXCEPT ![d] = pc]

FirstStep(d) ==
  /\ Runs(d, "new") /\ Goto(d, "lookup")
  /\ UNCHANGED <<status, created, progress, errors, cancelReq, canceller, notified, cutOff>>

LookUp(d) ==
  /\ Runs(d, "lookup")
  /\ Goto(d, IF status[d] = "absent" THEN "done" ELSE "wait")
  /\ UNCHANGED <<status, created, progress, errors, cancelReq, canceller, notified, cutOff>>

(* async with semaphore; leaving the block, however it is left, releases.  *)
Permits(p) == Concurrency[p] - Cardinality({d \in DownloadIds : ProviderOf[d] = p /\ task[d] \in Holding})

Acquire(d) ==
  /\ Runs(d, "wait") /\ Permits(ProviderOf[d]) > 0
  /\ Goto(d, "check")
  /\ UNCHANGED <<status, created, progress, errors, cancelReq, canceller, notified, cutOff>>

(* A row that is gone or no longer queued ends the task. *)
Check(d) ==
  /\ Runs(d, "check")
  /\ Goto(d, IF status[d] = "queued" THEN "mark" ELSE "done")
  /\ UNCHANGED <<status, created, progress, errors, cancelReq, canceller, notified, cutOff>>

MarkRunning(d) ==
  /\ Runs(d, "mark")
  /\ SetStatus(d, "running")
  /\ Goto(d, "fetch")
  /\ UNCHANGED <<created, progress, errors, cancelReq, canceller, notified, cutOff>>

(* One symbol: it is saved, or fails for a reason that is collected.       *)
(* Mutant: the loop ends one symbol late.                                  *)
LastSymbol(d) == progress[d] + 1 = Symbols[d]

FetchSymbol(d) ==
  /\ Runs(d, "fetch")
  /\ progress' = [progress EXCEPT ![d] = @ + 1]
  /\ \/ UNCHANGED errors
     \/ errors' = [errors EXCEPT ![d] = @ + 1]
  /\ Goto(d, IF LastSymbol(d) THEN "final" ELSE "fetch")
  /\ UNCHANGED <<status, created, cancelReq, canceller, notified, cutOff>>

FinalStatus(d) ==
  CASE errors[d] = 0 -> "completed"
    [] errors[d] = Symbols[d] -> "failed"
    [] OTHER -> "completed_with_errors"

Finalize(d) ==
  /\ Runs(d, "final")
  /\ SetStatus(d, FinalStatus(d))
  /\ Goto(d, "close")
  /\ UNCHANGED <<created, progress, errors, cancelReq, canceller, notified, cutOff>>

(* The session is closed and, without another await, every listener is     *)
(* called, for failures too.  Mutant: only for a download that saved data. *)
CallsOnSuccess(d) == IF errors[d] < Symbols[d] THEN {d} ELSE {}
CallsListeners(d) == {d}

Notify(d) ==
  /\ Runs(d, "close")
  /\ notified' = notified \cup CallsListeners(d)
  /\ Goto(d, "done")
  /\ UNCHANGED <<status, created, progress, errors, cancelReq, canceller, cutOff>>

(* CancelledError leaves through every handler; the commit in flight may   *)
(* have landed.                                                            *)
Interrupt(d) ==
  /\ d \in cancelReq
  /\ cancelReq' = cancelReq \ {d}
  /\ \/ UNCHANGED status
     \/ task[d] = "mark" /\ SetStatus(d, "running")
     \/ task[d] = "final" /\ SetStatus(d, FinalStatus(d))
  /\ Goto(d, "done")
  /\ UNCHANGED <<created, progress, errors, canceller, notified, cutOff>>

-----------------------------------------------------------------------------
(* cancel_download: a live task is cancelled and the row overwritten; with *)
(* no live task the row is read first.                                     *)
CancelCall(c, d) ==
  /\ canceller[c] = Idle /\ d \in created
  /\ IF task[d] \in Suspended
     THEN /\ cancelReq' = cancelReq \cup {d}
          /\ canceller' = [canceller EXCEPT ![c] = [pc |-> "update", id |-> d]]
     ELSE /\ canceller' = [canceller EXCEPT ![c] = [pc |-> "read", id |-> d]]
          /\ UNCHANGED cancelReq
  /\ UNCHANGED <<status, created, task, progress, errors, notified, cutOff>>

(* Mutant: the row is left to the task's own handler. *)
TaskWillTell(d) == UNCHANGED status
MarkCancelled(d) == SetStatus(d, "cancelled")

CancelUpdate(c) ==
  /\ canceller[c].pc = "update" /\ canceller[c].id \notin cancelReq
  /\ MarkCancelled(canceller[c].id)
  /\ canceller' = [canceller EXCEPT ![c] = Idle]
  /\ UNCHANGED <<created, task, progress, errors, cancelReq, notified, cutOff>>

CancelRead(c) ==
  /\ canceller[c].pc = "read"
  /\ canceller' = [canceller EXCEPT ![c] =
        IF status[canceller[c].id] \in Active THEN [@ EXCEPT !.pc = "write"] ELSE Idle]
  /\ UNCHANGED <<status, created, task, progress, errors, cancelReq, notified, cutOff>>

CancelWrite(c) ==
  /\ canceller[c].pc = "write"
  /\ SetStatus(canceller[c].id, "cancelled")
  /\ canceller' = [canceller EXCEPT ![c] = Idle]
  /\ UNCHANGED <<created, task, progress, errors, cancelReq, notified, cutOff>>

(* DELETE /downloads and /downloads/{id}: never an active row. *)
DeleteRow(d) ==
  /\ status[d] \in Terminal
  /\ status' = [status EXCEPT ![d] = "absent"]
  /\ UNCHANGED <<created, task, progress, errors, cancelReq, canceller, notified, cutOff>>

(* The coordinator dies and the next one runs recover_orphaned_downloads   *)
(* before it serves a request (shutdown() is not called on the way down).  *)
(* Mutant: rows that were still queued are forgotten.                      *)
OrphanedIfRunning(d) == status[d] = "running"
Orphaned(d) == status[d] \in Active

Restart ==
  /\ status' = [d \in DownloadIds |-> IF Orphaned(d) THEN "failed" ELSE status[d]]
  /\ cutOff' = cutOff \cup {d \in DownloadIds :
        Orphaned(d) \/ task[d] \in Suspended \/ \E c \in Cancellers : canceller[c].id = d}
  /\ task' = [d \in DownloadIds |-> IF task[d] = "none" THEN "none" ELSE "done"]
  /\ cancelReq' = {}
  /\ canceller' = [c \in Cancellers |-> Idle]
  /\ UNCHANGED <<created, progress, errors, notified>>

TaskStep(d) ==
  \/ StartTask(d) \/ FirstStep(d) \/ LookUp(d) \/ Acquire(d) \/ Check(d) \/ MarkRunning(d)
  \/ FetchSymbol(d) \/ Finalize(d) \/ Notify(d) \/ Interrupt(d)

CancelStep(c) == CancelUpdate(c) \/ CancelRead(c) \/ CancelWrite(c)

Next ==
  \/ \E d \in DownloadIds : CreateRow(d) \/ TaskStep(d) \/ DeleteRow(d)
  \/ \E c \in Cancellers, d \in DownloadIds : CancelCall(c, d)
  \/ \E c \in Cancellers : CancelStep(c)
  \/ Restart

(* The event loop runs every ready coroutine and a provider answers.  The  *)
(* coordinator may die at any moment but need not be restarted for this.   *)
Fairness ==
  /\ \A d \in DownloadIds : WF_vars(TaskStep(d))
  /\ \A c \in Cancellers : WF_vars(CancelStep(c))

Spec == Init /\ [][Next]_vars /\ Fairness

-----------------------------------------------------------------------------
(* A row that says queued or running has somebody left to end it: its task *)
(* or a cancel_download about to write.  Otherwise it would count against  *)
(* the goal processor's in-flight cap until the next restart.              *)
SomebodyEndsIt ==
  \A d \in DownloadIds : status[d] \in Active =>
    task[d] \in Suspended \cup {"inserted"} \/ \E c \in Cancellers : canceller[c].id = d

(* A download that finished, and was not cut off by a cancel or a restart, *)
(* has told its listeners: the next download of the lane is enqueued.      *)
FinishedIsAnnounced ==
  \A d \in DownloadIds \ cutOff :
    status[d] \in Finished /\ task[d] = "done" /\ (\A c \in Cancellers : canceller[c].id # d)
      => d \in notified

(* Every download reaches a terminal status or is deleted, also behind a   *)
(* provider's semaphore whose holders are cancelled.                       *)
EveryDownloadEnds == \A d \in DownloadIds : status[d] = "queued" ~> status[d] \notin Active
=============================================================================
