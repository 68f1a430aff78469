----------------------------- MODULE JobsProofs -----------------------------
(***************************************************************************)
(* Proofs about the parts of MCJobs: the research jobs, for any sets of    *)
(* jobs and calls; the backtest runs and the engine, for any size of the   *)
(* writer's queue, any number of chunks, bars, markets, symbols and legs.  *)
(***************************************************************************)
EXTENDS MCJobs, Integers, Sequences, WellFoundedInduction, TLAPS

-----------------------------------------------------------------------------
(* Research jobs, for any sets of jobs and of cancel_job calls.            *)

(* A task that still has a CancelledError to receive belongs to a row that *)
(* is terminal, that a cancel_job is about to write, or that a shutdown    *)
(* left to the next start.  An interrupted task may end without writing,   *)
(* so SomebodyFinishes is not inductive without this.                      *)
InterruptsAreCovered ==
  \A j \in Jobs : j \in cancelReq =>
    \/ status[j] \in Terminal
    \/ \E c \in Cancellers : canceller[c].job = j
    \/ ~up

JobsInv == TypeOK /\ SomebodyFinishes /\ InterruptsAreCovered

(* Every variable keeps its type: no step writes a status, a suspension    *)
(* point or a canceller record the code does not know.                     *)
LEMMA JobTypeStep == TypeOK /\ [Next]_vars => TypeOK'
<1> SUFFICES ASSUME TypeOK, [Next]_vars PROVE TypeOK'
  OBVIOUS
<1> USE DEF TypeOK, Terminal, Live, Suspended, Idle
<1>1. ASSUME NEW j \in Jobs, CreateRow(j) PROVE TypeOK'
  BY <1>1 DEF CreateRow
<1>2. ASSUME NEW j \in Jobs, TaskStep(j) PROVE TypeOK'
  <2>1. CASE StartTask(j)
    BY <2>1 DEF StartTask
  <2>2. CASE FirstStep(j)
    BY <2>2 DEF FirstStep, Runs
  <2>3. CASE MarkRunningRead(j)
    BY <2>3 DEF MarkRunningRead, Runs, EnterTerminal
  <2>4. CASE MarkRunningWrite(j)
    BY <2>4 DEF MarkRunningWrite, Runs
  <2>5. CASE Work(j)
    BY <2>5 DEF Work, Runs, EnterTerminal
  <2>6. CASE MarkTerminalRead(j)
    BY <2>6 DEF MarkTerminalRead, Runs, Finish
  <2>7. CASE MarkTerminalWrite(j)
    BY <2>7 DEF MarkTerminalWrite, Runs, Finish
  <2>8. CASE Interrupt(j)
    <3>1. status' \in [Jobs -> {"absent"} \cup Live \cup Terminal]
      BY <2>8 DEF Interrupt, CommitMayLand
    <3>2. QED
      BY <2>8, <3>1 DEF Interrupt, EnterTerminal, Finish
  <2>9. QED
    BY <1>2, <2>1, <2>2, <2>3, <2>4, <2>5, <2>6, <2>7, <2>8 DEF TaskStep
<1>3. ASSUME NEW c \in Cancellers, NEW j \in Jobs, CancelCall(c, j) PROVE TypeOK'
  BY <1>3 DEF CancelCall
<1>4. ASSUME NEW c \in Cancellers, CancelRead(c) PROVE TypeOK'
  BY <1>4 DEF CancelRead
<1>5. ASSUME NEW c \in Cancellers, CancelWrite(c) PROVE TypeOK'
  BY <1>5 DEF CancelWrite, CancelStatus
<1>6. CASE Shutdown
  BY <1>6 DEF Shutdown
<1>7. CASE Restart
  BY <1>7 DEF Restart, Orphaned
<1>8. CASE UNCHANGED vars
  BY <1>8 DEF vars
<1>9. QED
  BY <1>1, <1>2, <1>3, <1>4, <1>5, <1>6, <1>7, <1>8 DEF Next

(* The manager's registries and rows stay well formed in every execution. *)
THEOREM JobTypes == Spec => []TypeOK
<1>1. Init => TypeOK
  BY DEF Init, TypeOK, Idle, Terminal, Live
<1>2. QED
  BY <1>1, JobTypeStep, PTL DEF Spec

-----------------------------------------------------------------------------
(* One step of a task keeps a row that is not terminal covered. *)
LEMMA TaskStepCovered ==
  ASSUME JobsInv, TypeOK', NEW j \in Jobs, TaskStep(j)
  PROVE  SomebodyFinishes' /\ InterruptsAreCovered'
<1> USE DEF TypeOK, Terminal, Live, Suspended, JobsInv, SomebodyFinishes, InterruptsAreCovered
<1>1. CASE StartTask(j)
  BY <1>1 DEF StartTask
<1>2. CASE FirstStep(j)
  BY <1>2 DEF FirstStep, Runs
<1>3. CASE MarkRunningRead(j)
  BY <1>3 DEF MarkRunningRead, Runs, EnterTerminal
<1>4. CASE MarkRunningWrite(j)
  BY <1>4 DEF MarkRunningWrite, Runs
<1>5. CASE Work(j)
  BY <1>5 DEF Work, Runs, EnterTerminal
<1>6. CASE MarkTerminalRead(j)
  BY <1>6 DEF MarkTerminalRead, Runs, Finish
<1>7. CASE MarkTerminalWrite(j)
  BY <1>7 DEF MarkTerminalWrite, Runs, Finish
<1>8. CASE Interrupt(j)
  <2>1. CASE task[j] = "new"
    BY <1>8, <2>1 DEF Interrupt, CommitMayLand, EnterTerminal, Finish
  <2>2. CASE task'[j] = "t_read"
    BY <1>8, <2>2 DEF Interrupt, CommitMayLand, EnterTerminal, Finish
  <2>3. CASE task[j] \in {"t_read", "t_write"} /\ Finish(j) /\ UNCHANGED outcome
    BY <1>8, <2>3 DEF Interrupt, CommitMayLand, Finish
  <2>4. QED
    BY <1>8, <2>1, <2>2, <2>3 DEF Interrupt, EnterTerminal
<1>9. QED
  BY <1>1, <1>2, <1>3, <1>4, <1>5, <1>6, <1>7, <1>8 DEF TaskStep

(* The strengthened invariant is inductive. *)
LEMMA JobsStep == JobsInv /\ [Next]_vars => JobsInv'
<1> SUFFICES ASSUME JobsInv, [Next]_vars PROVE JobsInv'
  OBVIOUS
<1>0. TypeOK /\ TypeOK'
  BY JobTypeStep DEF JobsInv
<1> SUFFICES SomebodyFinishes' /\ InterruptsAreCovered'
  BY <1>0 DEF JobsInv
<1> USE DEF TypeOK, Terminal, Live, Suspended, Idle, JobsInv, SomebodyFinishes, InterruptsAreCovered
<1>1. ASSUME NEW j \in Jobs, CreateRow(j) PROVE SomebodyFinishes' /\ InterruptsAreCovered'
  BY <1>0, <1>1 DEF CreateRow
<1>2. ASSUME NEW j \in Jobs, TaskStep(j) PROVE SomebodyFinishes' /\ InterruptsAreCovered'
  BY <1>0, <1>2, TaskStepCovered
<1>3. ASSUME NEW c \in Cancellers, NEW j \in Jobs, CancelCall(c, j)
      PROVE  SomebodyFinishes' /\ InterruptsAreCovered'
  <2>1. \A d \in Cancellers : canceller[d].job \in Jobs => canceller'[d].job = canceller[d].job
    BY <1>0, <1>3, NoJobAssumption DEF CancelCall
  <2>2. canceller'[c].job = j
    BY <1>0, <1>3 DEF CancelCall
  <2>3. QED
    BY <1>0, <1>3, <2>1, <2>2 DEF CancelCall
<1>4. ASSUME NEW c \in Cancellers, CancelRead(c) PROVE SomebodyFinishes' /\ InterruptsAreCovered'
  <2>1. \A d \in Cancellers :
          \/ canceller'[d].job = canceller[d].job
          \/ d = c /\ status[canceller[c].job] \in Terminal
    BY <1>0, <1>4 DEF CancelRead, NothingToCancel
  <2>2. QED
    BY <1>0, <1>4, <2>1 DEF CancelRead
<1>5. ASSUME NEW c \in Cancellers, CancelWrite(c) PROVE SomebodyFinishes' /\ InterruptsAreCovered'
  <2>1. \A d \in Cancellers \ {c} : canceller'[d] = canceller[d]
    BY <1>0, <1>5 DEF CancelWrite
  <2>2. \A j \in Jobs : status'[j] = IF canceller[c].job = j THEN "cancelled" ELSE status[j]
    BY <1>0, <1>5 DEF CancelWrite, CancelStatus
  <2>3. QED
    BY <1>0, <1>5, <2>1, <2>2 DEF CancelWrite
<1>6. CASE Shutdown
  BY <1>0, <1>6 DEF Shutdown
<1>7. CASE Restart
  BY <1>0, <1>7 DEF Restart, Orphaned
<1>8. CASE UNCHANGED vars
  BY <1>8 DEF vars
<1>9. QED
  BY <1>1, <1>2, <1>3, <1>4, <1>5, <1>6, <1>7, <1>8 DEF Next

(* No research job is abandoned: whatever interleaving of the job's own    *)
(* task, cancel_job calls, shutdown and restart, a row that says queued or *)
(* running is still somebody's to finish.                                  *)
THEOREM NoJobIsAbandoned == Spec => []SomebodyFinishes
<1>1. Init => JobsInv
  BY DEF Init, JobsInv, TypeOK, SomebodyFinishes, InterruptsAreCovered, Idle, Terminal, Live
<1>2. JobsInv => SomebodyFinishes
  BY DEF JobsInv
<1>3. QED
  BY <1>1, <1>2, JobsStep, PTL DEF Spec

-----------------------------------------------------------------------------
(* Backtest runs.  The queue holds chunks and, last, the runner's sentinel. *)
Items == {"chunk", "end"}
HasEnd(q) == q # <<>> /\ q[Len(q)] = "end"
EndIsLast(q) == \A i \in 1..Len(q) : q[i] = "end" => i = Len(q)
ChunksIn(q) == IF HasEnd(q) THEN Len(q) - 1 ELSE Len(q)

LEMMA EmptyQueue == <<>> \in Seq(Items) /\ ~HasEnd(<<>>) /\ EndIsLast(<<>>) /\ ChunksIn(<<>>) = 0
BY DEF HasEnd, EndIsLast, ChunksIn

LEMMA AppendChunk ==
  ASSUME NEW q \in Seq(Items), ~HasEnd(q), EndIsLast(q)
  PROVE  LET r == Append(q, "chunk") IN
           /\ r \in Seq(Items) /\ Len(r) = Len(q) + 1 /\ r # <<>>
           /\ ~HasEnd(r) /\ EndIsLast(r) /\ ChunksIn(r) = ChunksIn(q) + 1
<1> DEFINE r == Append(q, "chunk")
<1>1. r \in Seq(Items) /\ Len(r) = Len(q) + 1 /\ Len(q) \in Nat /\ r[Len(q) + 1] = "chunk"
  BY DEF Items
<1>2. \A i \in 1..Len(q) : r[i] = q[i]
  OBVIOUS
<1>3. r # <<>> /\ ~HasEnd(r)
  BY <1>1 DEF HasEnd
<1>4. \A i \in 1..Len(q) : q[i] # "end"
  <2> SUFFICES ASSUME NEW i \in 1..Len(q), q[i] = "end" PROVE FALSE
    OBVIOUS
  <2>1. i = Len(q) /\ q # <<>>
    BY DEF EndIsLast
  <2> QED BY <2>1 DEF HasEnd
<1>5. EndIsLast(r)
  BY <1>1, <1>2, <1>4 DEF EndIsLast
<1>6. ChunksIn(r) = ChunksIn(q) + 1
  BY <1>1, <1>3 DEF ChunksIn
<1> QED BY <1>1, <1>3, <1>5, <1>6

LEMMA AppendEnd ==
  ASSUME NEW q \in Seq(Items), ~HasEnd(q), EndIsLast(q)
  PROVE  LET r == Append(q, "end") IN
           /\ r \in Seq(Items) /\ Len(r) = Len(q) + 1 /\ r # <<>>
           /\ EndIsLast(r) /\ ChunksIn(r) = ChunksIn(q)
<1> DEFINE r == Append(q, "end")
<1>1. r \in Seq(Items) /\ Len(r) = Len(q) + 1 /\ Len(q) \in Nat /\ r[Len(q) + 1] = "end"
  BY DEF Items
<1>2. \A i \in 1..Len(q) : r[i] = q[i]
  OBVIOUS
<1>3. r # <<>> /\ HasEnd(r)
  BY <1>1 DEF HasEnd
<1>4. \A i \in 1..Len(q) : q[i] # "end"
  <2> SUFFICES ASSUME NEW i \in 1..Len(q), q[i] = "end" PROVE FALSE
    OBVIOUS
  <2>1. i = Len(q) /\ q # <<>>
    BY DEF EndIsLast
  <2> QED BY <2>1 DEF HasEnd
<1>5. EndIsLast(r)
  BY <1>1, <1>2, <1>4 DEF EndIsLast
<1>6. ChunksIn(r) = ChunksIn(q)
  BY <1>1, <1>3 DEF ChunksIn
<1> QED BY <1>1, <1>3, <1>5, <1>6

(* What is taken is a chunk, or the sentinel and then the queue is empty. *)
LEMMA TakeItem ==
  ASSUME NEW q \in Seq(Items), q # <<>>, EndIsLast(q)
  PROVE  /\ Head(q) \in Items /\ Tail(q) \in Seq(Items)
         /\ EndIsLast(Tail(q)) /\ Len(Tail(q)) = Len(q) - 1
         /\ HasEnd(Tail(q)) => HasEnd(q)
         /\ Head(q) = "end" => Tail(q) = <<>> /\ ChunksIn(q) = 0 /\ HasEnd(q)
         /\ Head(q) = "chunk" => ChunksIn(Tail(q)) = ChunksIn(q) - 1
<1> DEFINE n == Len(q)  t == Tail(q)
<1>1. n \in Nat /\ n > 0 /\ Head(q) = q[1] /\ q[1] \in Items
  OBVIOUS
<1>2. t \in Seq(Items) /\ Len(t) = n - 1 /\ \A i \in 1..(n - 1) : t[i] = q[i + 1]
  OBVIOUS
<1>3. \A i \in 1..n : q[i] = "end" => i = n
  BY DEF EndIsLast
<1>4. HasEnd(q) <=> q[n] = "end"
  BY DEF HasEnd
<1> HIDE DEF n, t
<1>5. EndIsLast(t)
  BY <1>1, <1>2, <1>3 DEF EndIsLast
<1>6. ASSUME t # <<>> PROVE HasEnd(t) <=> HasEnd(q)
  <2>1. n - 1 \in 1..(n - 1)
    BY <1>1, <1>2, <1>6
  <2>2. t[n - 1] = q[n]
    BY <1>1, <1>2, <2>1
  <2> QED BY <1>2, <1>4, <1>6, <2>2 DEF HasEnd
<1>7. ASSUME Head(q) = "end" PROVE t = <<>> /\ ChunksIn(q) = 0 /\ HasEnd(q)
  <2>1. n = 1
    BY <1>1, <1>3, <1>7
  <2>2. t = <<>>
    BY <1>2, <2>1
  <2>3. HasEnd(q)
    BY <1>1, <1>4, <1>7, <2>1
  <2> QED BY <2>1, <2>2, <2>3 DEF ChunksIn, n
<1>8. ASSUME Head(q) = "chunk" PROVE ChunksIn(t) = ChunksIn(q) - 1
  <2>1. ChunksIn(q) = IF HasEnd(q) THEN n - 1 ELSE n
    BY DEF ChunksIn, n
  <2>2. CASE t = <<>>
    <3>1. n = 1 /\ ~HasEnd(t)
      BY <1>1, <1>2, <2>2 DEF HasEnd
    <3>2. ~HasEnd(q)
      BY <1>1, <1>4, <1>8, <3>1
    <3> QED BY <1>2, <2>1, <3>1, <3>2 DEF ChunksIn
  <2>3. CASE t # <<>>
    BY <1>1, <1>2, <1>6, <2>1, <2>3 DEF ChunksIn
  <2> QED BY <2>2, <2>3
<1>9. HasEnd(t) => HasEnd(q)
  BY <1>6 DEF HasEnd
<1> QED BY <1>1, <1>2, <1>5, <1>7, <1>8, <1>9 DEF n, t

(* Chunks are not negative, and an empty queue has none. *)
LEMMA CountChunks ==
  ASSUME NEW q \in Seq(Items)
  PROVE  ChunksIn(q) \in Nat
BY DEF ChunksIn, HasEnd

-----------------------------------------------------------------------------
(* A run's threads before its engine is started. *)
NoThreads ==
  /\ engine = "none" /\ writer = "none" /\ queue = <<>> /\ produced = 0 /\ written = 0
  /\ ~error /\ ~buffered

(* The row, the task and the report follow each other. *)
Stages ==
  /\ ~serving => stage = "none"
  /\ row = "none" => stage = "none" /\ NoThreads
  /\ stage = "begin" => row \in {"queued", "deleted"}
  /\ stage \in {"begin", "deps", "wait", "start", "prepare"} => NoThreads
  /\ engine \in {"run", "miss", "complete", "raise"} => stage = "engine"
  /\ stage = "put" => engine \in {"done", "raised"}
  /\ stage \in {"benchmark", "finalize", "complete"} => Backtest!WriterFine
  /\ stage = "complete" => (files # "none" => report = "whole")
  /\ row = "completed" => stage = "none" /\ (files # "none" => report = "whole")
  /\ Backtest!LiveHasTask

EndWasPut == stage \in {"join", "check", "benchmark", "finalize", "complete", "fail", "none"}

(* What the engine produced has been written or is queued, unless the       *)
(* writer failed.                                                           *)
Accounts ==
  /\ EndIsLast(queue)
  /\ HasEnd(queue) => EndWasPut /\ engine \in {"done", "raised"}
  /\ written + ChunksIn(queue) <= produced
  /\ ~error => written + ChunksIn(queue) = produced
  /\ buffered => produced < MaxChunks
  /\ writer = "drain" => error
  /\ writer = "ended" => files # "open"
  /\ writer = "ended" /\ ~error => queue = <<>> /\ EndWasPut /\ engine \in {"done", "raised"}

RunInv == Backtest!TypeOK /\ Stages /\ Accounts
(* The routes. *)
LEMMA RequestsKeepRuns ==
  RunInv /\ (Backtest!CreateRun \/ Backtest!DeleteRun \/ Backtest!DeleteCommits \/ Backtest!DeleteAlgorithm) => RunInv'
<1> SUFFICES ASSUME RunInv PROVE (Backtest!CreateRun \/ Backtest!DeleteRun \/ Backtest!DeleteCommits \/ Backtest!DeleteAlgorithm) => RunInv'
  OBVIOUS
<1> USE DEF RunInv, Stages, Accounts, EndWasPut, NoThreads, Backtest!TypeOK,
           Backtest!Live, Backtest!Statuses, Backtest!Steps, Backtest!Exists, Backtest!LoopFree, Backtest!threads,
           Backtest!LiveHasTask, Backtest!WriterFine, Backtest!Goto, Backtest!Raises, Backtest!Whole, Backtest!Orphaned
<1>1. ASSUME Backtest!CreateRun PROVE RunInv'
  <2>1. Backtest!TypeOK'
    BY <1>1 DEF Backtest!CreateRun
  <2>2. Stages'
    BY <1>1 DEF Backtest!CreateRun
  <2>3. Accounts'
    BY <1>1 DEF Backtest!CreateRun
  <2> QED BY <2>1, <2>2, <2>3
<1>2. ASSUME Backtest!DeleteRun PROVE RunInv'
  <2>1. Backtest!TypeOK'
    BY <1>2 DEF Backtest!DeleteRun
  <2>2. Stages'
    BY <1>2 DEF Backtest!DeleteRun
  <2>3. Accounts'
    BY <1>2 DEF Backtest!DeleteRun
  <2> QED BY <2>1, <2>2, <2>3
<1>3. ASSUME Backtest!DeleteCommits PROVE RunInv'
  <2>1. Backtest!TypeOK'
    <3>1. {serving, deleting}' \subseteq BOOLEAN
      BY <1>3 DEF Backtest!DeleteCommits
    <3>2. algorithm' \in BOOLEAN
      BY <1>3 DEF Backtest!DeleteCommits
    <3>3. error' \in BOOLEAN /\ buffered' \in BOOLEAN
      BY <1>3 DEF Backtest!DeleteCommits
    <3>4. /\ row' \in Backtest!Statuses /\ stage' \in Backtest!Steps /\ deps' \in 0..Deps
          /\ {produced, written}' \subseteq 0..MaxChunks /\ progress' \in {"none", "some", "all"}
      BY PartsAssumption, <1>3 DEF Backtest!DeleteCommits, Backtest!ConstantsAssumption
    <3>5. queue' \in Seq({"chunk", "end"}) /\ Len(queue)' <= QueueSize
      BY PartsAssumption, <1>3 DEF Backtest!DeleteCommits, Items, Backtest!ConstantsAssumption
    <3> QED BY <1>3, <3>1, <3>2, <3>3, <3>4, <3>5 DEF Backtest!DeleteCommits
  <2>2. Stages'
    BY <1>3 DEF Backtest!DeleteCommits
  <2>3. Accounts'
    BY <1>3 DEF Backtest!DeleteCommits
  <2> QED BY <2>1, <2>2, <2>3
<1>4. ASSUME Backtest!DeleteAlgorithm PROVE RunInv'
  <2>1. Backtest!TypeOK'
    <3>1. {serving, deleting}' \subseteq BOOLEAN
      BY <1>4 DEF Backtest!DeleteAlgorithm
    <3>2. algorithm' \in BOOLEAN
      BY <1>4 DEF Backtest!DeleteAlgorithm
    <3>3. error' \in BOOLEAN /\ buffered' \in BOOLEAN
      BY <1>4 DEF Backtest!DeleteAlgorithm
    <3>4. /\ row' \in Backtest!Statuses /\ stage' \in Backtest!Steps /\ deps' \in 0..Deps
          /\ {produced, written}' \subseteq 0..MaxChunks /\ progress' \in {"none", "some", "all"}
      BY PartsAssumption, <1>4 DEF Backtest!DeleteAlgorithm, Backtest!ConstantsAssumption
    <3>5. queue' \in Seq({"chunk", "end"}) /\ Len(queue)' <= QueueSize
      BY PartsAssumption, <1>4 DEF Backtest!DeleteAlgorithm, Items, Backtest!ConstantsAssumption
    <3> QED BY <1>4, <3>1, <3>2, <3>3, <3>4, <3>5 DEF Backtest!DeleteAlgorithm
  <2>2. Stages'
    BY <1>4 DEF Backtest!DeleteAlgorithm
  <2>3. Accounts'
    BY <1>4 DEF Backtest!DeleteAlgorithm
  <2> QED BY <2>1, <2>2, <2>3
<1> QED BY <1>1, <1>2, <1>3, <1>4

(* The task, but for the step that puts the sentinel. *)
LEMMA TaskKeepsRuns ==
  RunInv /\ (Backtest!Begin \/ Backtest!EnsureCoverage \/ Backtest!WaitForDownload \/ Backtest!StartRunning \/ Backtest!Prepare \/ Backtest!ProgressPump \/ Backtest!EngineReturned \/ Backtest!Join \/ Backtest!CheckWriter \/ Backtest!Benchmark \/ Backtest!FinalizeRun \/ Backtest!Complete \/ Backtest!Fail) => RunInv'
<1> SUFFICES ASSUME RunInv PROVE (Backtest!Begin \/ Backtest!EnsureCoverage \/ Backtest!WaitForDownload \/ Backtest!StartRunning \/ Backtest!Prepare \/ Backtest!ProgressPump \/ Backtest!EngineReturned \/ Backtest!Join \/ Backtest!CheckWriter \/ Backtest!Benchmark \/ Backtest!FinalizeRun \/ Backtest!Complete \/ Backtest!Fail) => RunInv'
  OBVIOUS
<1> USE DEF RunInv, Stages, Accounts, EndWasPut, NoThreads, Backtest!TypeOK,
           Backtest!Live, Backtest!Statuses, Backtest!Steps, Backtest!Exists, Backtest!LoopFree, Backtest!threads,
           Backtest!LiveHasTask, Backtest!WriterFine, Backtest!Goto, Backtest!Raises, Backtest!Whole, Backtest!Orphaned
<1>1. ASSUME Backtest!Begin PROVE RunInv'
  <2>1. Backtest!TypeOK'
    BY <1>1 DEF Backtest!Begin
  <2>2. Stages'
    BY <1>1 DEF Backtest!Begin
  <2>3. Accounts'
    BY <1>1 DEF Backtest!Begin
  <2> QED BY <2>1, <2>2, <2>3
<1>2. ASSUME Backtest!EnsureCoverage PROVE RunInv'
  <2>1. Backtest!TypeOK'
    <3>1. {serving, deleting}' \subseteq BOOLEAN
      BY <1>2 DEF Backtest!EnsureCoverage
    <3>2. algorithm' \in BOOLEAN
      BY <1>2 DEF Backtest!EnsureCoverage
    <3>3. error' \in BOOLEAN /\ buffered' \in BOOLEAN
      BY <1>2 DEF Backtest!EnsureCoverage
    <3>4. /\ row' \in Backtest!Statuses /\ stage' \in Backtest!Steps /\ deps' \in 0..Deps
          /\ {produced, written}' \subseteq 0..MaxChunks /\ progress' \in {"none", "some", "all"}
      BY PartsAssumption, <1>2 DEF Backtest!EnsureCoverage, Backtest!ConstantsAssumption
    <3>5. queue' \in Seq({"chunk", "end"}) /\ Len(queue)' <= QueueSize
      BY PartsAssumption, <1>2 DEF Backtest!EnsureCoverage, Items, Backtest!ConstantsAssumption
    <3> QED BY <1>2, <3>1, <3>2, <3>3, <3>4, <3>5 DEF Backtest!EnsureCoverage
  <2>2. Stages'
    BY <1>2 DEF Backtest!EnsureCoverage
  <2>3. Accounts'
    BY <1>2 DEF Backtest!EnsureCoverage
  <2> QED BY <2>1, <2>2, <2>3
<1>3. ASSUME Backtest!WaitForDownload PROVE RunInv'
  <2>1. Backtest!TypeOK'
    BY <1>3 DEF Backtest!WaitForDownload
  <2>2. Stages'
    BY <1>3 DEF Backtest!WaitForDownload
  <2>3. Accounts'
    BY <1>3 DEF Backtest!WaitForDownload
  <2> QED BY <2>1, <2>2, <2>3
<1>4. ASSUME Backtest!StartRunning PROVE RunInv'
  <2>1. Backtest!TypeOK'
    BY <1>4 DEF Backtest!StartRunning
  <2>2. Stages'
    BY <1>4 DEF Backtest!StartRunning
  <2>3. Accounts'
    BY <1>4 DEF Backtest!StartRunning
  <2> QED BY <2>1, <2>2, <2>3
<1>5. ASSUME Backtest!Prepare PROVE RunInv'
  <2>1. Backtest!TypeOK'
    BY <1>5, EmptyQueue DEF Backtest!Prepare
  <2>2. Stages'
    BY <1>5, EmptyQueue DEF Backtest!Prepare
  <2>3. Accounts'
    BY <1>5, EmptyQueue DEF Backtest!Prepare
  <2> QED BY <2>1, <2>2, <2>3
<1>6. ASSUME Backtest!ProgressPump PROVE RunInv'
  <2>1. Backtest!TypeOK'
    BY <1>6 DEF Backtest!ProgressPump
  <2>2. Stages'
    BY <1>6 DEF Backtest!ProgressPump
  <2>3. Accounts'
    BY <1>6 DEF Backtest!ProgressPump
  <2> QED BY <2>1, <2>2, <2>3
<1>7. ASSUME Backtest!EngineReturned PROVE RunInv'
  <2>1. Backtest!TypeOK'
    BY <1>7 DEF Backtest!EngineReturned
  <2>2. Stages'
    BY <1>7 DEF Backtest!EngineReturned
  <2>3. Accounts'
    BY <1>7 DEF Backtest!EngineReturned
  <2> QED BY <2>1, <2>2, <2>3
<1>8. ASSUME Backtest!Join PROVE RunInv'
  <2>1. Backtest!TypeOK'
    BY <1>8 DEF Backtest!Join
  <2>2. Stages'
    BY <1>8 DEF Backtest!Join
  <2>3. Accounts'
    BY <1>8 DEF Backtest!Join
  <2> QED BY <2>1, <2>2, <2>3
<1>9. ASSUME Backtest!CheckWriter PROVE RunInv'
  <2>1. Backtest!TypeOK'
    BY <1>9 DEF Backtest!CheckWriter
  <2>2. Stages'
    BY <1>9 DEF Backtest!CheckWriter
  <2>3. Accounts'
    BY <1>9 DEF Backtest!CheckWriter
  <2> QED BY <2>1, <2>2, <2>3
<1>10. ASSUME Backtest!Benchmark PROVE RunInv'
  <2>1. Backtest!TypeOK'
    BY <1>10 DEF Backtest!Benchmark
  <2>2. Stages'
    BY <1>10 DEF Backtest!Benchmark
  <2>3. Accounts'
    BY <1>10 DEF Backtest!Benchmark
  <2> QED BY <2>1, <2>2, <2>3
<1>11. ASSUME Backtest!FinalizeRun PROVE RunInv'
  <2>1. Backtest!TypeOK'
    BY <1>11 DEF Backtest!FinalizeRun
  <2>2. Stages'
    <3>1. CASE files # "none"
      <4>1. Backtest!Whole
        BY <1>11, <3>1, EmptyQueue, CountChunks DEF Backtest!FinalizeRun
      <4> QED BY <1>11, <3>1, <4>1 DEF Backtest!FinalizeRun
    <3>2. CASE files = "none"
      BY <1>11, <3>2 DEF Backtest!FinalizeRun
    <3> QED BY <3>1, <3>2
  <2>3. Accounts'
    BY <1>11 DEF Backtest!FinalizeRun
  <2> QED BY <2>1, <2>2, <2>3
<1>12. ASSUME Backtest!Complete PROVE RunInv'
  <2>1. Backtest!TypeOK'
    BY <1>12 DEF Backtest!Complete
  <2>2. Stages'
    BY <1>12 DEF Backtest!Complete
  <2>3. Accounts'
    BY <1>12 DEF Backtest!Complete
  <2> QED BY <2>1, <2>2, <2>3
<1>13. ASSUME Backtest!Fail PROVE RunInv'
  <2>1. Backtest!TypeOK'
    BY <1>13 DEF Backtest!Fail
  <2>2. Stages'
    BY <1>13 DEF Backtest!Fail
  <2>3. Accounts'
    BY <1>13 DEF Backtest!Fail
  <2> QED BY <2>1, <2>2, <2>3
<1> QED BY <1>1, <1>2, <1>3, <1>4, <1>5, <1>6, <1>7, <1>8, <1>9, <1>10, <1>11, <1>12, <1>13

(* The engine's thread, but for the step that puts a chunk. *)
LEMMA EngineKeepsRuns ==
  RunInv /\ (Backtest!OnEquityPoint \/ Backtest!OnMiss \/ Backtest!EngineEnds \/ Backtest!EngineReturns) => RunInv'
<1> SUFFICES ASSUME RunInv PROVE (Backtest!OnEquityPoint \/ Backtest!OnMiss \/ Backtest!EngineEnds \/ Backtest!EngineReturns) => RunInv'
  OBVIOUS
<1> USE DEF RunInv, Stages, Accounts, EndWasPut, NoThreads, Backtest!TypeOK,
           Backtest!Live, Backtest!Statuses, Backtest!Steps, Backtest!Exists, Backtest!LoopFree, Backtest!threads,
           Backtest!LiveHasTask, Backtest!WriterFine, Backtest!Goto, Backtest!Raises, Backtest!Whole, Backtest!Orphaned
<1>1. ASSUME Backtest!OnEquityPoint PROVE RunInv'
  <2>1. Backtest!TypeOK'
    BY <1>1 DEF Backtest!OnEquityPoint
  <2>2. Stages'
    BY <1>1 DEF Backtest!OnEquityPoint
  <2>3. Accounts'
    BY <1>1 DEF Backtest!OnEquityPoint
  <2> QED BY <2>1, <2>2, <2>3
<1>2. ASSUME Backtest!OnMiss PROVE RunInv'
  <2>1. Backtest!TypeOK'
    BY <1>2 DEF Backtest!OnMiss
  <2>2. Stages'
    BY <1>2 DEF Backtest!OnMiss
  <2>3. Accounts'
    BY <1>2 DEF Backtest!OnMiss
  <2> QED BY <2>1, <2>2, <2>3
<1>3. ASSUME Backtest!EngineEnds PROVE RunInv'
  <2>1. Backtest!TypeOK'
    BY <1>3 DEF Backtest!EngineEnds
  <2>2. Stages'
    BY <1>3 DEF Backtest!EngineEnds
  <2>3. Accounts'
    BY <1>3 DEF Backtest!EngineEnds
  <2> QED BY <2>1, <2>2, <2>3
<1>4. ASSUME Backtest!EngineReturns PROVE RunInv'
  <2>1. Backtest!TypeOK'
    BY <1>4 DEF Backtest!EngineReturns
  <2>2. Stages'
    BY <1>4 DEF Backtest!EngineReturns
  <2>3. Accounts'
    BY <1>4 DEF Backtest!EngineReturns
  <2> QED BY <2>1, <2>2, <2>3
<1> QED BY <1>1, <1>2, <1>3, <1>4

(* The coordinator's death, and its next start. *)
LEMMA RestartKeepsRuns ==
  RunInv /\ (Backtest!Crash \/ Backtest!RecoverOrphanedRuns) => RunInv'
<1> SUFFICES ASSUME RunInv PROVE (Backtest!Crash \/ Backtest!RecoverOrphanedRuns) => RunInv'
  OBVIOUS
<1> USE DEF RunInv, Stages, Accounts, EndWasPut, NoThreads, Backtest!TypeOK,
           Backtest!Live, Backtest!Statuses, Backtest!Steps, Backtest!Exists, Backtest!LoopFree, Backtest!threads,
           Backtest!LiveHasTask, Backtest!WriterFine, Backtest!Goto, Backtest!Raises, Backtest!Whole, Backtest!Orphaned
<1>1. ASSUME Backtest!Crash PROVE RunInv'
  <2>1. Backtest!TypeOK'
    <3>1. {serving, deleting}' \subseteq BOOLEAN
      BY <1>1 DEF Backtest!Crash
    <3>2. algorithm' \in BOOLEAN
      BY <1>1 DEF Backtest!Crash
    <3>3. error' \in BOOLEAN /\ buffered' \in BOOLEAN
      BY <1>1 DEF Backtest!Crash
    <3>4. /\ row' \in Backtest!Statuses /\ stage' \in Backtest!Steps /\ deps' \in 0..Deps
          /\ {produced, written}' \subseteq 0..MaxChunks /\ progress' \in {"none", "some", "all"}
      BY PartsAssumption, <1>1 DEF Backtest!Crash, Backtest!ConstantsAssumption
    <3>5. queue' \in Seq({"chunk", "end"}) /\ Len(queue)' <= QueueSize
      BY PartsAssumption, <1>1, EmptyQueue DEF Backtest!Crash, Items, Backtest!ConstantsAssumption
    <3> QED BY <1>1, <3>1, <3>2, <3>3, <3>4, <3>5 DEF Backtest!Crash
  <2>2. Stages'
    BY <1>1, EmptyQueue DEF Backtest!Crash
  <2>3. Accounts'
    BY <1>1, EmptyQueue DEF Backtest!Crash
  <2> QED BY <2>1, <2>2, <2>3
<1>2. ASSUME Backtest!RecoverOrphanedRuns PROVE RunInv'
  <2>1. Backtest!TypeOK'
    BY <1>2 DEF Backtest!RecoverOrphanedRuns
  <2>2. Stages'
    BY <1>2 DEF Backtest!RecoverOrphanedRuns
  <2>3. Accounts'
    BY <1>2 DEF Backtest!RecoverOrphanedRuns
  <2> QED BY <2>1, <2>2, <2>3
<1> QED BY <1>1, <1>2
(* What is put at the queue's end ... *)
LEMMA PutsKeepRuns ==
  RunInv /\ (Backtest!FlushChunk \/ Backtest!PutEnd) => RunInv'
<1> SUFFICES ASSUME RunInv PROVE (Backtest!FlushChunk \/ Backtest!PutEnd) => RunInv'
  OBVIOUS
<1>q. queue \in Seq(Items) /\ EndIsLast(queue) /\ ChunksIn(queue) \in Nat
  BY CountChunks DEF RunInv, Accounts, Backtest!TypeOK, Items
<1>1. ASSUME Backtest!FlushChunk PROVE RunInv'
  <2>1. ~HasEnd(queue)
    BY <1>1 DEF Backtest!FlushChunk, RunInv, Accounts
  <2>2. /\ queue' \in Seq(Items) /\ Len(queue') = Len(queue) + 1 /\ queue' # <<>>
        /\ ~HasEnd(queue') /\ EndIsLast(queue') /\ ChunksIn(queue') = ChunksIn(queue) + 1
    BY <1>1, <1>q, <2>1, AppendChunk DEF Backtest!FlushChunk
  <2>3. Len(queue) \in Nat /\ Len(queue) < QueueSize /\ QueueSize \in Nat
    BY <1>1, <1>q, PartsAssumption DEF Backtest!FlushChunk, Backtest!ConstantsAssumption
  <2>4. Backtest!TypeOK'
    <3>1. queue' \in Seq({"chunk", "end"}) /\ Len(queue') <= QueueSize
      BY <2>2, <2>3 DEF Items
    <3>2. produced' \in 0..MaxChunks
      BY <1>1, PartsAssumption
      DEF Backtest!FlushChunk, RunInv, Accounts, Backtest!TypeOK, Backtest!ConstantsAssumption
    <3> QED BY <1>1, <3>1, <3>2 DEF Backtest!FlushChunk, RunInv, Backtest!TypeOK
  <2>5. Stages'
    BY <1>1, <2>2 DEF Backtest!FlushChunk, RunInv, Stages, NoThreads, Backtest!WriterFine, Backtest!LiveHasTask
  <2>6. Accounts'
    BY SMTT(30), <1>1, <1>q, <2>2, PartsAssumption
    DEF Backtest!FlushChunk, RunInv, Accounts, EndWasPut, Backtest!TypeOK, Backtest!ConstantsAssumption
  <2> QED BY <2>4, <2>5, <2>6 DEF RunInv
<1>2. ASSUME Backtest!PutEnd PROVE RunInv'
  <2>1. ~HasEnd(queue)
    BY <1>2 DEF Backtest!PutEnd, RunInv, Accounts, EndWasPut
  <2>2. /\ queue' \in Seq(Items) /\ Len(queue') = Len(queue) + 1 /\ queue' # <<>>
        /\ EndIsLast(queue') /\ ChunksIn(queue') = ChunksIn(queue)
    BY <1>2, <1>q, <2>1, AppendEnd DEF Backtest!PutEnd
  <2>3. Len(queue) \in Nat /\ Len(queue) < QueueSize /\ QueueSize \in Nat
    BY <1>2, <1>q, PartsAssumption DEF Backtest!PutEnd, Backtest!ConstantsAssumption
  <2>4. Backtest!TypeOK'
    BY <1>2, <2>2, <2>3
    DEF Backtest!PutEnd, Backtest!Goto, Backtest!Steps, RunInv, Backtest!TypeOK, Items
  <2>5. Stages'
    BY <1>2, <2>2
    DEF Backtest!PutEnd, Backtest!Goto, RunInv, Stages, NoThreads, Backtest!WriterFine, Backtest!LiveHasTask
  <2>6. Accounts'
    <3>1. stage = "put" /\ stage' = "join" /\ engine \in {"done", "raised"} /\ engine' = engine
      BY <1>2 DEF Backtest!PutEnd, Backtest!Goto, RunInv, Stages
    <3>2. writer' # "ended" \/ error'
      BY <1>2, <3>1 DEF Backtest!PutEnd, RunInv, Accounts, EndWasPut
    <3> QED BY <1>2, <1>q, <2>2, <3>1, <3>2 DEF Backtest!PutEnd, RunInv, Accounts, EndWasPut, Backtest!TypeOK
  <2> QED BY <2>4, <2>5, <2>6 DEF RunInv
<1> QED BY <1>1, <1>2

(* ... and what the writer takes from its front. *)
LEMMA TakesKeepRuns ==
  RunInv /\ (Backtest!TakeChunk \/ Backtest!Drain) => RunInv'
<1> SUFFICES ASSUME RunInv PROVE (Backtest!TakeChunk \/ Backtest!Drain) => RunInv'
  OBVIOUS
<1>q. queue \in Seq(Items) /\ EndIsLast(queue) /\ ChunksIn(queue) \in Nat /\ Len(queue) \in Nat
  BY CountChunks DEF RunInv, Accounts, Backtest!TypeOK, Items
<1>t. ASSUME queue # <<>>, queue' = Tail(queue)
      PROVE  /\ Head(queue) \in Items /\ queue' \in Seq(Items)
             /\ EndIsLast(queue') /\ Len(queue') = Len(queue) - 1
             /\ HasEnd(queue') => HasEnd(queue)
             /\ Head(queue) = "end" => queue' = <<>> /\ ChunksIn(queue) = 0 /\ HasEnd(queue)
             /\ Head(queue) = "chunk" => ChunksIn(queue') = ChunksIn(queue) - 1
  BY <1>q, <1>t, TakeItem
<1>1. ASSUME Backtest!TakeChunk PROVE RunInv'
  <2>1. queue # <<>> /\ queue' = Tail(queue) /\ writer = "wait"
    BY <1>1 DEF Backtest!TakeChunk
  <2>2. QueueSize \in Nat /\ MaxChunks \in Nat
    BY PartsAssumption DEF Backtest!ConstantsAssumption
  <2>3. ChunksIn(queue') \in Nat
    BY <1>t, <2>1, CountChunks
  <2>4. Backtest!TypeOK'
    <3>1. queue' \in Seq({"chunk", "end"}) /\ Len(queue') <= QueueSize
      BY <1>q, <1>t, <2>1, <2>2 DEF RunInv, Backtest!TypeOK, Items
    <3>2. written' \in 0..MaxChunks
      BY <1>1, <1>q, <1>t, <2>1, <2>2, <2>3 DEF Backtest!TakeChunk, RunInv, Accounts, Backtest!TypeOK
    <3> QED BY ZenonT(40), <1>1, <3>1, <3>2 DEF Backtest!TakeChunk, Backtest!CloseFiles, RunInv, Backtest!TypeOK
  <2>5. Stages'
    BY <1>1, <2>1
    DEF Backtest!TakeChunk, Backtest!CloseFiles, RunInv, Stages, NoThreads, Backtest!WriterFine, Backtest!LiveHasTask
  <2>6. Accounts'
    <3> USE DEF RunInv, Accounts, EndWasPut, Backtest!TypeOK
    <3>1. CASE Head(queue) = "end"
      <4>1. queue' = <<>> /\ ChunksIn(queue) = 0 /\ HasEnd(queue)
        BY <1>t, <2>1, <3>1
      <4>2. writer' = "ended" /\ files' # "open" /\ UNCHANGED <<error, written, engine, stage, produced, buffered>>
        BY <1>1, <3>1 DEF Backtest!TakeChunk, Backtest!CloseFiles
      <4> QED BY <4>1, <4>2, EmptyQueue
    <3>2. CASE Head(queue) = "chunk"
      <4>1. /\ EndIsLast(queue') /\ (HasEnd(queue') => HasEnd(queue))
            /\ ChunksIn(queue') = ChunksIn(queue) - 1
        BY <1>t, <2>1, <3>2
      <4>2. \/ written' = written + 1 /\ UNCHANGED <<error, writer>>
            \/ error' = TRUE /\ writer' = "drain" /\ UNCHANGED written
        BY <1>1, <3>2 DEF Backtest!TakeChunk
      <4>3. UNCHANGED <<engine, stage, produced, buffered>>
        BY <1>1 DEF Backtest!TakeChunk
      <4> QED BY <1>q, <2>1, <2>3, <4>1, <4>2, <4>3
    <3> QED BY <1>t, <2>1, <3>1, <3>2 DEF Items
  <2> QED BY <2>4, <2>5, <2>6 DEF RunInv
<1>2. ASSUME Backtest!Drain PROVE RunInv'
  <2>1. writer = "drain" /\ error
    BY <1>2 DEF Backtest!Drain, RunInv, Accounts
  <2>2. QueueSize \in Nat
    BY PartsAssumption DEF Backtest!ConstantsAssumption
  <2>3. CASE queue = <<>>
    <3>1. Backtest!TypeOK'
      BY <1>2, <2>3 DEF Backtest!Drain, Backtest!CloseFiles, RunInv, Backtest!TypeOK
    <3>2. Stages'
      BY <1>2, <2>1, <2>3
      DEF Backtest!Drain, Backtest!CloseFiles, RunInv, Stages, NoThreads, Backtest!WriterFine, Backtest!LiveHasTask
    <3>3. Accounts'
      BY <1>2, <2>1, <2>3 DEF Backtest!Drain, Backtest!CloseFiles, RunInv, Accounts, EndWasPut, Backtest!TypeOK
    <3> QED BY <3>1, <3>2, <3>3 DEF RunInv
  <2>4. CASE queue # <<>>
    <3>1. queue' = Tail(queue)
      BY <1>2, <2>4 DEF Backtest!Drain
    <3>2. ChunksIn(queue') \in Nat
      BY <1>t, <2>4, <3>1, CountChunks
    <3>3. Backtest!TypeOK'
      BY <1>2, <1>q, <1>t, <2>2, <2>4, <3>1
      DEF Backtest!Drain, Backtest!CloseFiles, RunInv, Backtest!TypeOK, Items
    <3>4. Stages'
      BY <1>2, <2>1, <2>4
      DEF Backtest!Drain, Backtest!CloseFiles, RunInv, Stages, NoThreads, Backtest!WriterFine, Backtest!LiveHasTask
    <3>5. Accounts'
      <4> USE DEF RunInv, Accounts, EndWasPut, Backtest!TypeOK
      <4>1. UNCHANGED <<engine, stage, produced, buffered, error, written>>
        BY <1>2 DEF Backtest!Drain
      <4>2. \/ writer' = "ended" /\ files' # "open"
            \/ Head(queue) # "end" /\ UNCHANGED <<writer, files>>
        BY <1>2, <2>4 DEF Backtest!Drain, Backtest!CloseFiles
      <4>3. EndIsLast(queue') /\ (HasEnd(queue') => HasEnd(queue)) /\ ChunksIn(queue') <= ChunksIn(queue)
        <5>1. Head(queue) = "end" => ChunksIn(queue) = 0 /\ ChunksIn(queue') = 0
          BY <1>t, <2>4, <3>1, EmptyQueue
        <5>2. Head(queue) = "chunk" => ChunksIn(queue') = ChunksIn(queue) - 1
          BY <1>t, <2>4, <3>1
        <5>3. Head(queue) \in Items /\ EndIsLast(queue') /\ (HasEnd(queue') => HasEnd(queue))
          BY <1>t, <2>4, <3>1
        <5> QED BY <1>q, <5>1, <5>2, <5>3 DEF Items
      <4> QED BY <1>q, <2>1, <3>2, <4>1, <4>2, <4>3
    <3> QED BY <3>3, <3>4, <3>5 DEF RunInv
  <2> QED BY <2>3, <2>4
<1> QED BY <1>1, <1>2

LEMMA RunStep == RunInv /\ [Backtest!Next]_runVars => RunInv'
<1> SUFFICES ASSUME RunInv, [Backtest!Next]_runVars PROVE RunInv'
  OBVIOUS
<1>1. ASSUME UNCHANGED runVars PROVE RunInv'
  BY <1>1
  DEF runVars, RunInv, Stages, Accounts, EndWasPut, NoThreads, Backtest!TypeOK, Backtest!WriterFine, Backtest!LiveHasTask
<1> QED
  BY <1>1, RequestsKeepRuns, TaskKeepsRuns, EngineKeepsRuns, RestartKeepsRuns, PutsKeepRuns, TakesKeepRuns
  DEF Backtest!Next

LEMMA RunInit == Backtest!Init => RunInv
<1> SUFFICES ASSUME Backtest!Init PROVE RunInv
  OBVIOUS
<1> USE EmptyQueue, PartsAssumption DEF Backtest!Init, Backtest!ConstantsAssumption
<1>1. Backtest!TypeOK
  <2>1. queue \in Seq({"chunk", "end"}) /\ Len(queue) <= QueueSize
    BY DEF Items
  <2>2. {serving, deleting} \subseteq BOOLEAN /\ algorithm \in BOOLEAN /\ error \in BOOLEAN
    OBVIOUS
  <2>3. deps \in 0..Deps /\ {produced, written} \subseteq 0..MaxChunks
    OBVIOUS
  <2> QED BY <2>1, <2>2, <2>3 DEF Backtest!TypeOK, Backtest!Statuses, Backtest!Live, Backtest!Steps
<1>2. Stages
  BY DEF Stages, NoThreads, Backtest!LiveHasTask, Backtest!Live
<1>3. Accounts
  BY DEF Accounts, EndWasPut
<1> QED BY <1>1, <1>2, <1>3 DEF RunInv

(* A part of a behaviour takes its own steps or none. *)
LEMMA PartsMove ==
  [MCNext]_<<part, vars, runVars, engineVars>> =>
    [Backtest!Next]_runVars /\ [Engine!Next]_engineVars
BY DEF MCNext

(* A backtest run that is shown as completed reports everything its engine  *)
(* produced, and a live run has a task that will end it, for any size of    *)
(* the queue and any number of chunks.                                      *)
THEOREM RunsEndWholly == MCSpec => []RunsEndWhole
<1>1. MCInit => RunInv
  BY RunInit DEF MCInit
<1>2. RunInv /\ [MCNext]_<<part, vars, runVars, engineVars>> => RunInv'
  BY PartsMove, RunStep
<1>3. RunInv => RunsEndWhole
  BY DEF RunInv, Stages, RunsEndWhole, Backtest!CompletedIsWhole
<1> QED BY <1>1, <1>2, <1>3, PTL DEF MCSpec

-----------------------------------------------------------------------------
(* The engine. *)
LegTypes ==
  /\ market \in Markets /\ phase \in {"discovery", "tick", "fill", "settle", "over", "failed"}
  /\ bar \in 0..(LastBar + 1) /\ legs \in 0..MaxLegs
  /\ pending \subseteq Engine!Order /\ todo \subseteq Engine!Order
  /\ answers \in [1..MaxLegs -> Seq(Engine!Reasons)]

(* A leg that was asked for waits, once, or has had its only answer. *)
LegPlaces ==
  /\ \A o \in pending \cup todo :
       o.leg <= legs /\ o.born <= bar /\ o.born < o.due /\ answers[o.leg] = <<>>
  /\ \A o, p \in pending \cup todo : o.leg = p.leg => o = p
  /\ pending \cap todo = {}
  /\ \A l \in 1..MaxLegs :
       /\ Len(answers[l]) <= 1
       /\ l > legs => answers[l] = <<>>
       /\ l <= legs /\ answers[l] = <<>> => \E o \in pending \cup todo : o.leg = l

LegPhases ==
  /\ phase # "fill" => todo = {}
  /\ phase \in {"fill", "settle"} => bar <= LastBar
  /\ phase = "over" => pending = {}

LegInv == LegTypes /\ LegPlaces /\ LegPhases

LEMMA OrderFields ==
  ASSUME NEW o \in Engine!Order
  PROVE  /\ o.leg \in 1..MaxLegs /\ o.kind \in Kinds /\ o.due \in 0..(LastBar + 1)
         /\ o.born \in 0..LastBar
BY DEF Engine!Order

LEMMA Sizes == LastBar \in Nat /\ MaxLegs \in Nat
BY PartsAssumption DEF Engine!ConstantsAssumption

(* A leg that is kept for a later bar stays the same leg. *)
LEMMA KeptLeg ==
  ASSUME LegTypes, LegPlaces, NEW o \in todo, NEW p \in Engine!Order,
         p.leg = o.leg, p.born = o.born, p.born < p.due,
         todo' = todo \ {o}, pending' = pending \cup {p}, UNCHANGED <<market, phase, bar, legs, answers>>
  PROVE  LegTypes' /\ LegPlaces'
<1>1. LegTypes'
  BY DEF LegTypes
<1>2. pending' \cup todo' = ((pending \cup todo) \ {o}) \cup {p}
  BY DEF LegPlaces
<1>3. \A q \in (pending \cup todo) \ {o} : q.leg # p.leg
  BY DEF LegPlaces
<1>4. pending' \cap todo' = {}
  BY <1>3 DEF LegPlaces
<1>5. \A q \in pending' \cup todo' :
        q.leg <= legs /\ q.born <= bar /\ q.born < q.due /\ answers[q.leg] = <<>>
  BY <1>2 DEF LegPlaces
<1>6. \A q, r \in pending' \cup todo' : q.leg = r.leg => q = r
  BY <1>2, <1>3 DEF LegPlaces
<1>7. ASSUME NEW l \in 1..MaxLegs, \E q \in pending \cup todo : q.leg = l
      PROVE  \E q \in pending' \cup todo' : q.leg = l
  BY <1>2, <1>7
<1> QED BY <1>1, <1>4, <1>5, <1>6, <1>7 DEF LegPlaces

(* A leg that is answered waits no longer. *)
LEMMA AnsweredLeg ==
  ASSUME LegTypes, LegPlaces, NEW o \in todo, NEW r \in Engine!Reasons,
         todo' = todo \ {o}, Engine!Answer(o, r), UNCHANGED <<market, phase, bar, legs, pending>>
  PROVE  LegTypes' /\ LegPlaces'
<1>1. o.leg \in 1..MaxLegs /\ answers[o.leg] = <<>> /\ answers \in [1..MaxLegs -> Seq(Engine!Reasons)]
  BY OrderFields DEF LegTypes, LegPlaces
<1>2. Append(<<>>, r) \in Seq(Engine!Reasons) /\ Len(Append(<<>>, r)) = 1 /\ Append(<<>>, r) # <<>>
  OBVIOUS
<1>3. /\ answers' \in [1..MaxLegs -> Seq(Engine!Reasons)]
      /\ answers'[o.leg] = Append(<<>>, r)
      /\ \A l \in 1..MaxLegs : l # o.leg => answers'[l] = answers[l]
  BY <1>1, <1>2 DEF Engine!Answer
<1>4. LegTypes'
  BY <1>3 DEF LegTypes
<1>5. pending' \cup todo' = (pending \cup todo) \ {o}
  BY DEF LegPlaces
<1>6. \A q \in (pending \cup todo) \ {o} : q.leg # o.leg /\ q.leg \in 1..MaxLegs
  BY OrderFields DEF LegTypes, LegPlaces
<1>7. \A q \in pending' \cup todo' :
        q.leg <= legs /\ q.born <= bar /\ q.born < q.due /\ answers'[q.leg] = <<>>
  BY <1>3, <1>5, <1>6 DEF LegPlaces
<1>8. pending' \cap todo' = {} /\ \A q, p \in pending' \cup todo' : q.leg = p.leg => q = p
  BY <1>5 DEF LegPlaces
<1>9. ASSUME NEW l \in 1..MaxLegs
      PROVE  /\ Len(answers'[l]) <= 1
             /\ l > legs => answers'[l] = <<>>
             /\ l <= legs /\ answers'[l] = <<>> => \E q \in pending' \cup todo' : q.leg = l
  <2>1. CASE l = o.leg
    <3>1. l <= legs /\ l \in Nat /\ legs \in Nat
      BY <2>1, Sizes DEF LegPlaces, LegTypes
    <3>2. Len(answers'[l]) = 1 /\ answers'[l] # <<>>
      BY <1>2, <1>3, <2>1
    <3> QED BY <3>1, <3>2
  <2>2. CASE l # o.leg
    BY <1>3, <1>5, <2>2 DEF LegPlaces
  <2> QED BY <2>1, <2>2
<1> QED BY <1>4, <1>7, <1>8, <1>9 DEF LegPlaces

(* So do the legs that are refused together. *)
LEMMA RejectedLegs ==
  ASSUME LegTypes, LegPlaces, todo = {}, NEW os \in SUBSET pending, NEW r \in Engine!Reasons,
         pending' = pending \ os, answers' = Engine!Rejected(os, r), todo' = {}, legs' = legs,
         bar' \in 0..(LastBar + 1), bar <= bar'
  PROVE  /\ LegPlaces' /\ pending' \subseteq Engine!Order /\ todo' \subseteq Engine!Order
         /\ answers' \in [1..MaxLegs -> Seq(Engine!Reasons)]
<1>1. \A o \in pending : o.leg \in 1..MaxLegs /\ answers[o.leg] = <<>> /\ o.leg <= legs /\ o.born \in Nat
  BY OrderFields, Sizes DEF LegTypes, LegPlaces
<1>2. Append(<<>>, r) \in Seq(Engine!Reasons) /\ Len(Append(<<>>, r)) = 1 /\ Append(<<>>, r) # <<>>
  OBVIOUS
<1>3. ASSUME NEW l \in 1..MaxLegs
      PROVE  answers'[l] = IF \E o \in os : o.leg = l THEN Append(<<>>, r) ELSE answers[l]
  BY <1>1 DEF Engine!Rejected
<1>4. answers' \in [1..MaxLegs -> Seq(Engine!Reasons)]
  <2>1. answers \in [1..MaxLegs -> Seq(Engine!Reasons)]
    BY DEF LegTypes
  <2>2. \A l \in 1..MaxLegs : answers'[l] \in Seq(Engine!Reasons)
    BY <1>2, <1>3, <2>1
  <2> QED BY <2>2 DEF Engine!Rejected
<1>5. \A o \in pending' : \A p \in os : o.leg # p.leg
  BY DEF LegPlaces
<1>6. \A o \in pending' : answers'[o.leg] = <<>>
  BY <1>1, <1>3, <1>5
<1>7. \A o \in pending' \cup todo' :
        o.leg <= legs /\ o.born <= bar' /\ o.born < o.due /\ answers'[o.leg] = <<>>
  BY <1>1, <1>6 DEF LegPlaces, LegTypes
<1>8. pending' \cap todo' = {} /\ \A o, p \in pending' \cup todo' : o.leg = p.leg => o = p
  BY DEF LegPlaces
<1>9. ASSUME NEW l \in 1..MaxLegs
      PROVE  /\ Len(answers'[l]) <= 1
             /\ l > legs => answers'[l] = <<>>
             /\ l <= legs /\ answers'[l] = <<>> => \E o \in pending' \cup todo' : o.leg = l
  <2>1. CASE \E o \in os : o.leg = l
    <3>1. PICK o \in os : o.leg = l
      BY <2>1
    <3>2. l <= legs /\ l \in Nat /\ legs \in Nat
      BY <1>1, <3>1, Sizes DEF LegTypes
    <3>3. Len(answers'[l]) = 1 /\ answers'[l] # <<>>
      BY <1>2, <1>3, <2>1
    <3> QED BY <3>2, <3>3
  <2>2. CASE ~\E o \in os : o.leg = l
    <3>1. answers'[l] = answers[l]
      BY <1>3, <2>2
    <3> QED BY <2>2, <3>1 DEF LegPlaces
  <2> QED BY <2>1, <2>2
<1>10. pending' \subseteq Engine!Order /\ todo' \subseteq Engine!Order
  BY DEF LegTypes
<1> QED BY <1>4, <1>7, <1>8, <1>9, <1>10 DEF LegPlaces

(* A stop-limit leg that triggers is an order like the others. *)
LEMMA TriggeredOrder ==
  ASSUME NEW o \in Engine!Order
  PROVE  /\ Engine!Triggered(o) \in Engine!Order
         /\ Engine!Triggered(o).leg = o.leg /\ Engine!Triggered(o).born = o.born
<1> DEFINE k == [o.kind EXCEPT !.tif = "DAY"]
<1>1. o.kind \in Kinds /\ (o.kind.type = "stop_limit" => k \in Kinds)
  BY PartsAssumption DEF Engine!ConstantsAssumption, Engine!Order
<1>2. [o EXCEPT !.kind.tif = "DAY"] = [o EXCEPT !.kind = k]
  BY DEF Engine!Order
<1> HIDE DEF k
<1>3. CASE o.kind.type = "stop_limit"
  BY <1>1, <1>2, <1>3 DEF Engine!Triggered, Engine!Order
<1>4. CASE o.kind.type # "stop_limit"
  BY <1>4 DEF Engine!Triggered
<1> QED BY <1>3, <1>4

LEMMA LaterOrder ==
  ASSUME NEW o \in Engine!Order, NEW trig \in BOOLEAN, bar \in 0..LastBar, o.born <= bar
  PROVE  LET p == [o EXCEPT !.due = bar + 1, !.tried = TRUE, !.triggered = trig] IN
           p \in Engine!Order /\ p.leg = o.leg /\ p.born = o.born /\ p.born < p.due
<1> DEFINE p == [o EXCEPT !.due = bar + 1, !.tried = TRUE, !.triggered = trig]
<1>1. p \in Engine!Order /\ p.leg = o.leg /\ p.born = o.born /\ p.due = bar + 1
  <2>1. bar + 1 \in 0..(LastBar + 1)
    BY Sizes
  <2> DEFINE b == bar + 1
  <2> HIDE DEF b
  <2>2. b \in 0..(LastBar + 1)
    BY <2>1 DEF b
  <2>3. LET q == [o EXCEPT !.due = b, !.tried = TRUE, !.triggered = trig] IN
          q \in Engine!Order /\ q.leg = o.leg /\ q.born = o.born /\ q.due = b
    BY <2>2 DEF Engine!Order
  <2> QED BY <2>3 DEF b
<1>2. o.born \in Nat /\ bar \in Nat
  BY OrderFields, Sizes
<1> HIDE DEF p
<1>3. p.born < p.due
  BY <1>1, <1>2
<1> QED BY <1>1, <1>3 DEF p

LEMMA RefusalReasons ==
  ASSUME NEW k, NEW price, Engine!Refusal(k, price) # None
  PROVE  Engine!Refusal(k, price) \in Engine!Reasons
BY DEF Engine!Refusal, Engine!Reasons

(* One leg is tried: it is kept or answered. *)
LEMMA TryLeg ==
  ASSUME LegInv, Engine!Try
  PROVE  LegInv'
<1>1. PICK o \in todo :
        LET k == o.kind  price == Engine!Price(o) IN
        /\ Engine!IsFirst(o, todo) /\ todo' = todo \ {o}
        /\ \/ /\ o.due > bar
              /\ pending' = pending \cup {o} /\ UNCHANGED answers
           \/ /\ o.due <= bar /\ Engine!Expired(o)
              /\ Engine!Answer(o, "day_expired") /\ UNCHANGED pending
           \/ /\ price # None
              /\ IF Engine!Refusal(k, price) = None
                   THEN Engine!Answer(o, "filled")
                   ELSE Engine!Answer(o, Engine!Refusal(k, price))
              /\ UNCHANGED pending
           \/ /\ price = None
              /\ CASE Engine!Triggers(o) -> Engine!Later(Engine!Triggered(o), TRUE) /\ UNCHANGED answers
                   [] ~Engine!Triggers(o) /\ k.sym \in Options -> Engine!Answer(o, "no_price") /\ UNCHANGED pending
                   [] ~Engine!Triggers(o) /\ k.sym \notin Options /\ k.tif = "IOC" ->
                        Engine!Answer(o, "no_fill") /\ UNCHANGED pending
                   [] OTHER -> Engine!Later(o, o.triggered) /\ UNCHANGED answers
  BY DEF Engine!Try
<1>2. UNCHANGED <<market, phase, bar, legs>> /\ phase = "fill" /\ bar \in 0..LastBar
  BY Sizes DEF Engine!Try, LegInv, LegTypes, LegPhases
<1>3. todo' = todo \ {o} /\ o \in Engine!Order /\ o.born <= bar /\ o.born < o.due
  BY <1>1 DEF LegInv, LegTypes, LegPlaces
<1>4. LegTypes /\ LegPlaces
  BY DEF LegInv
<1>5. {"day_expired", "filled", "no_price", "no_fill"} \subseteq Engine!Reasons
  BY DEF Engine!Reasons
<1>a. ASSUME NEW r \in Engine!Reasons, Engine!Answer(o, r), UNCHANGED pending
      PROVE  LegTypes' /\ LegPlaces'
  BY <1>2, <1>3, <1>4, <1>a, AnsweredLeg
<1>b. ASSUME NEW p \in Engine!Order, p.leg = o.leg, p.born = o.born, p.born < p.due,
             pending' = pending \cup {p}, UNCHANGED answers
      PROVE  LegTypes' /\ LegPlaces'
  BY <1>2, <1>3, <1>4, <1>b, KeptLeg
<1>c. ASSUME NEW p \in Engine!Order, NEW trig \in BOOLEAN, p.leg = o.leg, p.born = o.born,
             Engine!Later(p, trig), UNCHANGED answers
      PROVE  LegTypes' /\ LegPlaces'
  <2> DEFINE q == [p EXCEPT !.due = bar + 1, !.tried = TRUE, !.triggered = trig]
  <2>1. q \in Engine!Order /\ q.leg = o.leg /\ q.born = o.born /\ q.born < q.due
    BY <1>2, <1>3, <1>c, LaterOrder
  <2>2. pending' = pending \cup {q}
    BY <1>c DEF Engine!Later
  <2> HIDE DEF q
  <2> QED BY <1>b, <1>c, <2>1, <2>2
<1>6. LegTypes' /\ LegPlaces'
  <2>1. CASE pending' = pending \cup {o} /\ UNCHANGED answers
    BY <1>3, <1>b, <2>1
  <2>2. CASE Engine!Answer(o, "day_expired") /\ UNCHANGED pending
    BY <1>5, <1>a, <2>2
  <2>3. CASE /\ IF Engine!Refusal(o.kind, Engine!Price(o)) = None
                  THEN Engine!Answer(o, "filled")
                  ELSE Engine!Answer(o, Engine!Refusal(o.kind, Engine!Price(o)))
             /\ UNCHANGED pending
    BY <1>5, <1>a, <2>3, RefusalReasons
  <2>4. CASE Engine!Later(Engine!Triggered(o), TRUE) /\ UNCHANGED answers
    BY <1>3, <1>c, <2>4, TriggeredOrder
  <2>5. CASE Engine!Later(o, o.triggered) /\ UNCHANGED answers
    <3>1. o.triggered \in BOOLEAN
      BY <1>3 DEF Engine!Order
    <3> QED BY <1>3, <1>c, <2>5, <3>1
  <2>6. CASE Engine!Answer(o, "no_price") /\ UNCHANGED pending
    BY <1>5, <1>a, <2>6
  <2>7. CASE Engine!Answer(o, "no_fill") /\ UNCHANGED pending
    BY <1>5, <1>a, <2>7
  <2> QED BY <1>1, <2>1, <2>2, <2>3, <2>4, <2>5, <2>6, <2>7
<1>7. LegPhases'
  BY <1>2, Sizes DEF LegInv, LegPhases
<1> QED BY <1>6, <1>7 DEF LegInv

(* The algorithm asks for one leg more. *)
LEMMA EmitLeg ==
  ASSUME LegInv, Engine!Emit
  PROVE  LegInv'
<1>1. PICK k \in Kinds :
        pending' = pending \cup {[leg |-> legs + 1, kind |-> k, due |-> Engine!DueAt(bar), born |-> bar,
                                  triggered |-> FALSE, tried |-> FALSE]}
  BY DEF Engine!Emit
<1> DEFINE n == [leg |-> legs + 1, kind |-> k, due |-> bar + 1, born |-> bar, triggered |-> FALSE, tried |-> FALSE]
<1>2. /\ phase = "tick" /\ bar \in 0..LastBar /\ legs \in Nat /\ legs < MaxLegs /\ legs' = legs + 1
      /\ pending' = pending \cup {n} /\ UNCHANGED <<market, phase, bar, todo, answers>>
  BY <1>1, Sizes DEF Engine!Emit, Engine!DueAt, LegInv, LegTypes
<1>3. n \in Engine!Order /\ n.leg = legs + 1 /\ n.born = bar /\ n.due = bar + 1
  BY <1>2, Sizes DEF Engine!Order
<1> HIDE DEF n
<1>4. todo = {} /\ legs + 1 \in 1..MaxLegs /\ answers[legs + 1] = <<>>
  BY <1>2, Sizes DEF LegInv, LegPhases, LegPlaces
<1>5. LegTypes'
  BY <1>2, <1>3, Sizes DEF LegInv, LegTypes
<1>6. \A o \in pending : o.leg <= legs /\ o.leg \in Nat
  BY OrderFields DEF LegInv, LegTypes, LegPlaces
<1>7. \A o \in pending' \cup todo' :
        o.leg <= legs + 1 /\ o.born <= bar /\ o.born < o.due /\ answers[o.leg] = <<>>
  BY <1>2, <1>3, <1>4, <1>6 DEF LegInv, LegPlaces
<1>8. pending' \cap todo' = {} /\ \A o, p \in pending' \cup todo' : o.leg = p.leg => o = p
  BY <1>2, <1>3, <1>4, <1>6 DEF LegInv, LegPlaces
<1>9. ASSUME NEW l \in 1..MaxLegs
      PROVE  /\ Len(answers[l]) <= 1
             /\ l > legs + 1 => answers[l] = <<>>
             /\ l <= legs + 1 /\ answers[l] = <<>> => \E o \in pending' \cup todo' : o.leg = l
  <2>1. Len(answers[l]) <= 1 /\ (l > legs + 1 => answers[l] = <<>>)
    BY <1>2 DEF LegInv, LegPlaces
  <2>2. CASE l = legs + 1
    BY <1>2, <1>3, <2>1, <2>2
  <2>3. CASE l # legs + 1
    BY <1>2, <2>1, <2>3 DEF LegInv, LegPlaces
  <2> QED BY <2>2, <2>3
<1>10. LegPlaces'
  BY <1>2, <1>7, <1>8, <1>9 DEF LegPlaces
<1>11. LegPhases'
  BY <1>2, <1>4 DEF LegPhases
<1> QED BY <1>5, <1>10, <1>11 DEF LegInv

(* Every step of the engine. *)
LEMMA LegStep == LegInv /\ [Engine!Next]_engineVars => LegInv'
<1> SUFFICES ASSUME LegInv, [Engine!Next]_engineVars PROVE LegInv'
  OBVIOUS
<1>1. ASSUME UNCHANGED <<market, phase, bar, legs, pending, todo, answers>> PROVE LegInv'
  BY <1>1 DEF LegInv, LegTypes, LegPlaces, LegPhases
<1>2. ASSUME Engine!Discovery PROVE LegInv'
  BY <1>2 DEF Engine!Discovery, LegInv, LegTypes, LegPlaces, LegPhases
<1>3. ASSUME Engine!CancelAllOrders PROVE LegInv'
  BY <1>1, <1>3 DEF Engine!CancelAllOrders
<1>4. ASSUME Engine!Raise PROVE LegInv'
  BY <1>4 DEF Engine!Raise, LegInv, LegTypes, LegPlaces, LegPhases
<1>5. ASSUME Engine!Ticked PROVE LegInv'
  <2>1. /\ phase = "tick" /\ phase' = "fill" /\ bar <= LastBar /\ todo = {} /\ todo' = pending /\ pending' = {}
        /\ UNCHANGED <<market, bar, legs, answers>>
    BY <1>5 DEF Engine!Ticked, LegInv, LegPhases
  <2>2. pending' \cup todo' = pending \cup todo /\ pending' \cap todo' = {}
    BY <2>1
  <2>3. LegPlaces'
    BY <2>1, <2>2 DEF LegInv, LegPlaces
  <2>4. LegTypes' /\ LegPhases'
    BY <2>1 DEF LegInv, LegTypes, LegPhases
  <2> QED BY <2>3, <2>4 DEF LegInv
<1>6. ASSUME Engine!Cancel PROVE LegInv'
  <2>1. /\ phase = "fill" /\ phase' = "settle" /\ todo = {} /\ todo' = {}
        /\ UNCHANGED <<market, bar, legs>> /\ bar \in 0..LastBar
    BY <1>6, Sizes DEF Engine!Cancel, LegInv, LegTypes, LegPhases
  <2>2. CASE UNCHANGED <<pending, answers>>
    BY <2>1, <2>2 DEF LegInv, LegTypes, LegPlaces, LegPhases
  <2>3. CASE pending' = {} /\ answers' = Engine!Rejected(pending, "cancelled")
    <3>1. pending' = pending \ pending /\ "cancelled" \in Engine!Reasons /\ bar' \in 0..(LastBar + 1) /\ bar <= bar'
      BY <2>1, <2>3, Sizes DEF Engine!Reasons
    <3>2. LegTypes /\ LegPlaces
      BY DEF LegInv
    <3>3. /\ LegPlaces' /\ pending' \subseteq Engine!Order /\ todo' \subseteq Engine!Order
          /\ answers' \in [1..MaxLegs -> Seq(Engine!Reasons)]
      BY <2>1, <2>3, <3>1, <3>2, RejectedLegs
    <3> QED BY <2>1, <3>2, <3>3, Sizes DEF LegInv, LegTypes, LegPhases
  <2> QED BY <1>6, <2>2, <2>3 DEF Engine!Cancel, Engine!Cleared
<1>7. ASSUME Engine!Settle PROVE LegInv'
  <2>1. /\ phase = "settle" /\ phase' = "tick" /\ todo = {} /\ todo' = {}
        /\ bar \in 0..LastBar /\ bar' = bar + 1 /\ UNCHANGED <<market, legs>>
        /\ pending' = pending \ Engine!Dead /\ answers' = Engine!Rejected(Engine!Dead, "contract_expired")
    BY <1>7, Sizes DEF Engine!Settle, LegInv, LegTypes, LegPhases
  <2>2. /\ Engine!Dead \in SUBSET pending /\ "contract_expired" \in Engine!Reasons
        /\ bar' \in 0..(LastBar + 1) /\ bar <= bar'
    BY <2>1, Sizes DEF Engine!Dead, Engine!Reasons
  <2>3. LegTypes /\ LegPlaces
    BY DEF LegInv
  <2>4. /\ LegPlaces' /\ pending' \subseteq Engine!Order /\ todo' \subseteq Engine!Order
        /\ answers' \in [1..MaxLegs -> Seq(Engine!Reasons)]
    BY <2>1, <2>2, <2>3, RejectedLegs
  <2> QED BY <2>1, <2>2, <2>3, <2>4 DEF LegInv, LegTypes, LegPhases
<1>8. ASSUME Engine!Complete PROVE LegInv'
  <2>1. /\ phase' = "over" /\ todo = {} /\ todo' = {} /\ UNCHANGED <<market, bar, legs>>
        /\ pending' = pending \ pending /\ answers' = Engine!Rejected(pending, "end")
    BY <1>8 DEF Engine!Complete, LegInv, LegPhases
  <2>2. "end" \in Engine!Reasons /\ bar' \in 0..(LastBar + 1) /\ bar <= bar'
    BY <2>1, Sizes DEF Engine!Reasons, LegInv, LegTypes
  <2>3. LegTypes /\ LegPlaces
    BY DEF LegInv
  <2>4. /\ LegPlaces' /\ pending' \subseteq Engine!Order /\ todo' \subseteq Engine!Order
        /\ answers' \in [1..MaxLegs -> Seq(Engine!Reasons)]
    BY <2>1, <2>2, <2>3, RejectedLegs
  <2> QED BY <2>1, <2>3, <2>4 DEF LegInv, LegTypes, LegPhases
<1> QED
  BY <1>1, <1>2, <1>3, <1>4, <1>5, <1>6, <1>7, <1>8, TryLeg, EmitLeg DEF Engine!Next, engineVars

(* The bar of a symbol that has elapsed last is the greatest of a finite    *)
(* set of numbers.                                                          *)
LEMMA MaxOf ==
  ASSUME NEW n \in Nat, NEW S \in SUBSET (0..n), S # {}
  PROVE  Engine!Max(S) \in S /\ \A t \in S : Engine!Max(S) >= t
<1> DEFINE T == {n - t : t \in S}
<1>0. \A t \in S : t \in Nat /\ n - t \in Nat
  OBVIOUS
<1>1. T \subseteq Nat /\ T # {}
  BY <1>0
<1>2. PICK m \in T : \A t \in T : ~(<<t, m>> \in OpToRel(<, Nat))
  BY <1>1, NatLessThanWellFounded, WFMin
<1>3. \A t \in T : ~(t < m)
  BY <1>1, <1>2, Zenon DEF OpToRel
<1>4. PICK x \in S : m = n - x
  BY <1>2
<1>5. ASSUME NEW t \in S PROVE x >= t
  <2>1. ~(n - t < n - x)
    BY <1>3, <1>4
  <2>2. t \in Nat /\ x \in Nat
    BY <1>0
  <2> QED BY <2>1, <2>2
<1> QED BY <1>4, <1>5 DEF Engine!Max

(* A leg is filled after the bar of its signal; when its symbol has had a   *)
(* bar since, the fill is on such a bar.                                    *)
LEMMA FilledLater ==
  ASSUME LegInv, NEW o \in Engine!Order, o.born < bar, bar \in 0..LastBar, NEW price,
         Engine!Fresh(Engine!FillOf(o, price))
  PROVE  Engine!PricedAfterSignal(Engine!FillOf(o, price))
<1> DEFINE s == o.kind.sym
<1>1. s \in Engine!Symbols /\ o.born \in Nat /\ bar \in Nat
  BY OrderFields, PartsAssumption, Sizes DEF Engine!ConstantsAssumption
<1>2. CASE s \in Options
  <2>1. Engine!FillIndex(s, bar) = bar
    BY <1>2 DEF Engine!FillIndex, Engine!OwnBars
  <2> QED BY <1>1, <2>1 DEF Engine!FillOf, Engine!PricedAfterSignal
<1>3. CASE s \notin Options
  <2>1. PICK t \in DOMAIN market.bars[s] : o.born < t /\ t <= bar
    BY <1>3 DEF Engine!Fresh, Engine!FillOf
  <2>2. DOMAIN market.bars[s] \subseteq 0..LastBar
    BY <1>1, <1>3, PartsAssumption DEF Engine!ConstantsAssumption, Engine!Symbols, LegInv, LegTypes
  <2>3. t \in Engine!OwnBars(s, bar) /\ Engine!OwnBars(s, bar) \subseteq 0..LastBar
    BY <1>3, <2>1, <2>2 DEF Engine!OwnBars
  <2>4. Engine!FillIndex(s, bar) \in 0..LastBar /\ Engine!FillIndex(s, bar) >= t
    BY <2>3, MaxOf, Sizes DEF Engine!FillIndex
  <2>5. Engine!FillIndex(s, bar) > o.born
    BY <1>1, <2>1, <2>2, <2>4, Sizes
  <2> QED BY <2>5 DEF Engine!FillOf, Engine!PricedAfterSignal
<1> QED BY <1>2, <1>3

FillInv == (\E f : priced = [l \in 1..MaxLegs |-> f[l]]) /\ Engine!NoStaleFills

LEMMA FillStep == LegInv /\ FillInv /\ [Engine!Next]_engineVars => FillInv'
<1> SUFFICES ASSUME LegInv, FillInv, [Engine!Next]_engineVars PROVE FillInv'
  OBVIOUS
<1>1. ASSUME UNCHANGED <<market, priced>> PROVE FillInv'
  BY <1>1 DEF FillInv, Engine!NoStaleFills, Engine!Fresh, Engine!PricedAfterSignal
<1>2. ASSUME Engine!Try PROVE FillInv'
  <2>1. CASE UNCHANGED priced
    BY <1>1, <1>2, <2>1 DEF Engine!Try
  <2>2. CASE ~UNCHANGED priced
    <3>o. PICK o \in todo :
            o.due <= bar /\ \E p : priced' = [priced EXCEPT ![o.leg] = Engine!FillOf(o, p)]
      BY <1>2, <2>2 DEF Engine!Try
    <3>p. PICK price : priced' = [priced EXCEPT ![o.leg] = Engine!FillOf(o, price)]
      BY <3>o
    <3>1. o.due <= bar /\ priced' = [priced EXCEPT ![o.leg] = Engine!FillOf(o, price)]
      BY <3>o, <3>p
    <3>2. UNCHANGED market /\ phase = "fill"
      BY <1>2 DEF Engine!Try
    <3>3. o \in Engine!Order /\ o.born < o.due /\ bar \in 0..LastBar
      BY <3>2, Sizes DEF LegInv, LegTypes, LegPlaces, LegPhases
    <3>4. o.born < bar
      BY <3>1, <3>3, OrderFields, Sizes
    <3>5. Engine!Fresh(Engine!FillOf(o, price)) => Engine!PricedAfterSignal(Engine!FillOf(o, price))
      BY <3>3, <3>4, FilledLater
    <3>6. PICK g : g = Engine!FillOf(o, price)
      OBVIOUS
    <3>7. Engine!Fresh(g) => Engine!PricedAfterSignal(g)
      BY <3>5, <3>6
    <3>8. priced' = [priced EXCEPT ![o.leg] = g]
      BY <3>1, <3>6
    <3>9. \A f : Engine!Fresh(f)' <=> Engine!Fresh(f)
      BY <3>2 DEF Engine!Fresh
    <3>10. PICK f : priced = [l \in 1..MaxLegs |-> f[l]]
      BY DEF FillInv
    <3>11. o.leg \in 1..MaxLegs
      BY <3>3, OrderFields
    <3>12. priced' = [l \in 1..MaxLegs |-> IF l = o.leg THEN g ELSE f[l]]
      BY <3>8, <3>10, <3>11
    <3>13. \E h : priced' = [l \in 1..MaxLegs |-> h[l]]
      BY <3>12
    <3>14. ASSUME NEW l \in 1..MaxLegs, priced'[l] # None, Engine!Fresh(priced[l])'
           PROVE  Engine!PricedAfterSignal(priced'[l])
      <4>1. priced'[l] = IF l = o.leg THEN g ELSE priced[l]
        BY <3>10, <3>12
      <4>2. PICK v : v = priced'[l]
        OBVIOUS
      <4>3. Engine!Fresh(v)
        BY <3>9, <3>14, <4>2 DEF Engine!Fresh
      <4>4. CASE l = o.leg
        BY <3>7, <4>1, <4>2, <4>3, <4>4
      <4>5. CASE l # o.leg
        BY <3>14, <4>1, <4>2, <4>3, <4>5 DEF FillInv, Engine!NoStaleFills
      <4> QED BY <4>4, <4>5
    <3> QED BY <3>13, <3>14 DEF FillInv, Engine!NoStaleFills, Engine!PricedAfterSignal
  <2> QED BY <2>1, <2>2
<1>3. ASSUME ~Engine!Try, Engine!Next PROVE FillInv'
  BY <1>1, <1>3
  DEF Engine!Next, Engine!Discovery, Engine!Emit, Engine!CancelAllOrders, Engine!Raise, Engine!Ticked,
      Engine!Cancel, Engine!Settle, Engine!Complete
<1> QED BY <1>1, <1>2, <1>3 DEF engineVars

LEMMA EngineInit == Engine!Init => LegInv /\ FillInv
<1> SUFFICES ASSUME Engine!Init PROVE LegInv /\ FillInv
  OBVIOUS
<1>1. /\ phase = "discovery" /\ market \in Markets /\ bar = 0 /\ legs = 0 /\ pending = {} /\ todo = {}
      /\ answers = [l \in 1..MaxLegs |-> <<>>] /\ priced = [l \in 1..MaxLegs |-> None]
  BY DEF Engine!Init
<1>2. LegInv
  BY <1>1, Sizes DEF LegInv, LegTypes, LegPlaces, LegPhases
<1>3. \E f : priced = [l \in 1..MaxLegs |-> f[l]]
  <2>1. priced = [l \in 1..MaxLegs |-> priced[l]]
    BY <1>1
  <2>2. PICK f : f = priced
    OBVIOUS
  <2> QED BY <2>1, <2>2
<1>4. Engine!NoStaleFills
  BY <1>1 DEF Engine!NoStaleFills
<1> QED BY <1>2, <1>3, <1>4 DEF FillInv

(* Every leg that an algorithm asked for is answered at most once, and has  *)
(* an answer when the run is over; no leg is filled at a bar that is not    *)
(* after its signal's, when there is a later one - for any market, symbols, *)
(* kinds of legs and number of bars.                                        *)
THEOREM LegsAreAnswered == MCSpec => []LegsAreRight
<1>1. MCInit => LegInv /\ FillInv
  BY EngineInit DEF MCInit
<1>2. LegInv /\ FillInv /\ [MCNext]_<<part, vars, runVars, engineVars>> => LegInv' /\ FillInv'
  BY PartsMove, LegStep, FillStep
<1>3. LegInv /\ FillInv => LegsAreRight
  BY Sizes DEF LegInv, LegTypes, LegPlaces, LegPhases, FillInv, LegsAreRight, Engine!LegsAnsweredOnce
<1> QED BY <1>1, <1>2, <1>3, PTL DEF MCSpec

=============================================================================
