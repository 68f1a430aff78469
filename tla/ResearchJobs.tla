---------------------------- MODULE ResearchJobs ----------------------------
(***************************************************************************)
(* The fire-and-poll jobs of coordinator/services/research_job_manager.py. *)
(*                                                                         *)
(* A request inserts a ResearchJob row, starts an asyncio task and returns *)
(* the id; the task moves the row queued -> running -> terminal, and any   *)
(* number of cancel_job calls, a shutdown or a crash of the coordinator    *)
(* race with it.  Every coroutine is cut at its awaits: a SELECT and the   *)
(* COMMIT that follows it are two steps, so another coroutine may change   *)
(* the row in between.                                                     *)
(***************************************************************************)
EXTENDS Naturals, FiniteSets

CONSTANTS Jobs,        \* job ids that may be created (finite: a bound)
          Cancellers,  \* concurrent cancel_job calls
          NoJob        \* the value of a canceller that serves no request

ASSUME NoJobAssumption == NoJob \notin Jobs

VARIABLES
  status,      \* ResearchJob.status of each row ("absent": no row yet)
  task,        \* where the coroutine _run_job of each job is suspended
  outcome,     \* the status _run_job is about to pass to _mark_terminal
  registered,  \* jobs with an entry in _active_tasks and _cancel_flags
  flag,        \* jobs whose cancel flag is set
  cancelReq,   \* jobs whose task has a CancelledError pending
  canceller,   \* each cancel_job call: where it is suspended, and its job
  up           \* FALSE from the call of shutdown() until the next start

vars == <<status, task, outcome, registered, flag, cancelReq, canceller, up>>

Terminal == {"completed", "failed", "cancelled"}
Live     == {"queued", "running"}

Suspended == {"new", "mr_read", "mr_write", "work", "t_read", "t_write"}
Idle == [pc |-> "idle", job |-> NoJob]

TypeOK ==
  /\ status \in [Jobs -> {"absent"} \cup Live \cup Terminal]
  /\ task \in [Jobs -> {"none", "inserted", "done"} \cup Suspended]
  /\ outcome \in [Jobs -> Terminal]
  /\ registered \subseteq Jobs
  /\ flag \subseteq Jobs
  /\ cancelReq \subseteq Jobs
  /\ canceller \in [Cancellers -> [pc: {"idle", "read", "write"}, job: Jobs \cup {NoJob}]]
  /\ up \in BOOLEAN

Init ==
  /\ status = [j \in Jobs |-> "absent"]
  /\ task = [j \in Jobs |-> "none"]
  /\ outcome = [j \in Jobs |-> "completed"]
  /\ registered = {} /\ flag = {} /\ cancelReq = {}
  /\ canceller = [c \in Cancellers |-> Idle]
  /\ up = TRUE

-----------------------------------------------------------------------------
(* _create_job: the row is committed first; flag and task are registered   *)
(* after that await, so the row is visible before the task exists.         *)
CreateRow(j) ==
  /\ up /\ status[j] = "absent"
  /\ status' = [status EXCEPT ![j] = "queued"]
  /\ task' = [task EXCEPT ![j] = "inserted"]
  /\ UNCHANGED <<outcome, registered, flag, cancelReq, canceller, up>>

StartTask(j) ==
  /\ up /\ task[j] = "inserted"
  /\ task' = [task EXCEPT ![j] = "new"]
  /\ registered' = registered \cup {j}
  /\ UNCHANGED <<status, outcome, flag, cancelReq, canceller, up>>

-----------------------------------------------------------------------------
(* _run_job, one action per await.  A task with a CancelledError pending   *)
(* takes only the Interrupt step.                                          *)
Runs(j, at) == task[j] = at /\ j \notin cancelReq

(* The finally clause of _run_job pops both registries. *)
Finish(j) ==
  /\ task' = [task EXCEPT ![j] = "done"]
  /\ registered' = registered \ {j}
  /\ flag' = flag \ {j}

EnterTerminal(j, result) ==
  /\ task' = [task EXCEPT ![j] = "t_read"]
  /\ outcome' = [outcome EXCEPT ![j] = result]
  /\ UNCHANGED <<registered, flag>>

FirstStep(j) ==
  /\ Runs(j, "new")
  /\ task' = [task EXCEPT ![j] = "mr_read"]
  /\ UNCHANGED <<status, outcome, registered, flag, cancelReq, canceller, up>>

(* _mark_running: a row already cancelled raises CancelledError. *)
MarkRunningRead(j) ==
  /\ Runs(j, "mr_read")
  /\ \/ /\ status[j] = "cancelled"
        /\ EnterTerminal(j, "cancelled")
     \/ /\ status[j] # "cancelled"
        /\ task' = [task EXCEPT ![j] = "mr_write"]
        /\ UNCHANGED <<outcome, registered, flag>>
  /\ UNCHANGED <<status, cancelReq, canceller, up>>

MarkRunningWrite(j) ==
  /\ Runs(j, "mr_write")
  /\ status' = [status EXCEPT ![j] = "running"]
  /\ task' = [task EXCEPT ![j] = "work"]
  /\ UNCHANGED <<outcome, registered, flag, cancelReq, canceller, up>>

(* The dispatched sweep, walk-forward or CPCV: it returns, raises, or its  *)
(* progress callback finds the flag set and raises CancelledError.         *)
Work(j) ==
  /\ Runs(j, "work")
  /\ \/ j \in flag /\ EnterTerminal(j, "cancelled")
     \/ EnterTerminal(j, "completed")
     \/ EnterTerminal(j, "failed")
  /\ UNCHANGED <<status, cancelReq, canceller, up>>

(* _mark_terminal: a row already terminal is left alone. *)
MarkTerminalRead(j) ==
  /\ Runs(j, "t_read")
  /\ \/ /\ status[j] \in Terminal
        /\ Finish(j)
     \/ /\ status[j] \notin Terminal
        /\ task' = [task EXCEPT ![j] = "t_write"]
        /\ UNCHANGED <<registered, flag>>
  /\ UNCHANGED <<status, outcome, cancelReq, canceller, up>>

MarkTerminalWrite(j) ==
  /\ Runs(j, "t_write")
  /\ status' = [status EXCEPT ![j] = outcome[j]]
  /\ Finish(j)
  /\ UNCHANGED <<outcome, cancelReq, canceller, up>>

(* What the interrupted await had in hand: a commit may or may not land.   *)
CommitMayLand(j) ==
  \/ UNCHANGED status
  \/ task[j] = "mr_write" /\ status' = [status EXCEPT ![j] = "running"]
  \/ task[j] = "t_write" /\ status' = [status EXCEPT ![j] = outcome[j]]

(* CancelledError is thrown into the suspended coroutine.  A coroutine     *)
(* that never ran has entered no try block: nothing is popped.  Inside the *)
(* try block the handler marks the row cancelled; inside one of the        *)
(* handlers the error leaves through the finally clause.                   *)
Interrupt(j) ==
  /\ j \in cancelReq
  /\ cancelReq' = cancelReq \ {j}
  /\ CommitMayLand(j)
  /\ \/ /\ task[j] = "new"
        /\ task' = [task EXCEPT ![j] = "done"]
        /\ UNCHANGED <<outcome, registered, flag>>
     \/ /\ \/ task[j] \in {"mr_read", "mr_write", "work"}
           \/ task[j] \in {"t_read", "t_write"} /\ outcome[j] = "completed"
        /\ EnterTerminal(j, "cancelled")
     \/ /\ task[j] \in {"t_read", "t_write"} /\ outcome[j] # "completed"
        /\ Finish(j)
        /\ UNCHANGED outcome
  /\ UNCHANGED <<canceller, up>>

-----------------------------------------------------------------------------
(* cancel_job: set the flag, cancel the task, then read the row. *)
CancelCall(c, j) ==
  /\ up /\ canceller[c] = Idle
  /\ status[j] # "absent"
  /\ flag' = IF j \in registered THEN flag \cup {j} ELSE flag
  /\ cancelReq' = IF j \in registered /\ task[j] \in Suspended
                  THEN cancelReq \cup {j} ELSE cancelReq
  /\ canceller' = [canceller EXCEPT ![c] = [pc |-> "read", job |-> j]]
  /\ UNCHANGED <<status, task, outcome, registered, up>>

(* A row already terminal ends the call.  Mutant: the row is left to the   *)
(* interrupted task.                                                       *)
LeavesRowToTask(j) == status[j] \in Terminal \/ j \in cancelReq
NothingToCancel(j) == status[j] \in Terminal

CancelRead(c) ==
  /\ canceller[c].pc = "read"
  /\ canceller' = [canceller EXCEPT ![c] =
        IF NothingToCancel(canceller[c].job) THEN Idle ELSE [@ EXCEPT !.pc = "write"]]
  /\ UNCHANGED <<status, task, outcome, registered, flag, cancelReq, up>>

(* Mutant: the status is misspelt, so no reader recognises it. *)
MisspeltStatus == "canceled"
CancelStatus == "cancelled"

CancelWrite(c) ==
  /\ canceller[c].pc = "write"
  /\ status' = [status EXCEPT ![canceller[c].job] = CancelStatus]
  /\ canceller' = [canceller EXCEPT ![c] = Idle]
  /\ UNCHANGED <<task, outcome, registered, flag, cancelReq, up>>

-----------------------------------------------------------------------------
(* shutdown() cancels every task it knows; rows are left to the handlers. *)
Shutdown ==
  /\ up /\ up' = FALSE
  /\ cancelReq' = cancelReq \cup {j \in registered : task[j] \in Suspended}
  /\ UNCHANGED <<status, task, outcome, registered, flag, canceller>>

(* The process dies, after a shutdown or without one, and the next one     *)
(* runs recover_orphaned_jobs before it serves a request.  Mutant: the     *)
(* recovery forgets the rows that were still queued.                       *)
OrphanedIfRunning(j) == status[j] = "running"
Orphaned(j) == status[j] \in Live

Restart ==
  /\ status' = [j \in Jobs |-> IF Orphaned(j) THEN "failed" ELSE status[j]]
  /\ task' = [j \in Jobs |-> IF task[j] = "none" THEN "none" ELSE "done"]
  /\ outcome' = [j \in Jobs |-> "completed"]
  /\ registered' = {} /\ flag' = {} /\ cancelReq' = {}
  /\ canceller' = [c \in Cancellers |-> Idle]
  /\ up' = TRUE

TaskStep(j) ==
  \/ StartTask(j) \/ FirstStep(j) \/ MarkRunningRead(j) \/ MarkRunningWrite(j)
  \/ Work(j) \/ MarkTerminalRead(j) \/ MarkTerminalWrite(j) \/ Interrupt(j)

Next ==
  \/ \E j \in Jobs : CreateRow(j)
  \/ \E j \in Jobs : TaskStep(j)
  \/ \E c \in Cancellers, j \in Jobs : CancelCall(c, j)
  \/ \E c \in Cancellers : CancelRead(c) \/ CancelWrite(c)
  \/ Shutdown
  \/ Restart

(* The event loop runs every ready coroutine, a dispatched job ends, and a *)
(* coordinator that was shut down is started again.                        *)
Fairness ==
  /\ \A j \in Jobs : WF_vars(TaskStep(j))
  /\ \A c \in Cancellers : WF_vars(CancelRead(c) \/ CancelWrite(c))
  /\ WF_vars(~up /\ Restart)

Spec == Init /\ [][Next]_vars /\ Fairness

-----------------------------------------------------------------------------
(* A row that still says queued or running has somebody left to finish it: *)
(* its own task, a cancel_job about to write, or (after shutdown()) the    *)
(* recovery of the next start.  _run_job's handlers, the row write of      *)
(* cancel_job and recover_orphaned_jobs only give this together.           *)
SomebodyFinishes ==
  \A j \in Jobs : status[j] \in Live =>
    \/ task[j] \in Suspended \cup {"inserted"}
    \/ \E c \in Cancellers : canceller[c].job = j
    \/ ~up

(* Every job that was created reaches a terminal status (fire-and-poll: a  *)
(* client polls the row until it does), whatever cancels, shuts down or    *)
(* kills the coordinator.                                                  *)
EveryJobEnds == \A j \in Jobs : status[j] = "queued" ~> status[j] \in Terminal
=============================================================================
