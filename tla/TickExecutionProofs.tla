------------------------ MODULE TickExecutionProofs ------------------------
(***************************************************************************)
(* Proofs about TickExecution, for any numbers of ticks, runs, signals and *)
(* legs, and whatever raises, times out or is lost.                        *)
(***************************************************************************)
EXTENDS TickExecution, TLAPS

(* What the record of a task says at each point of process_tick: its       *)
(* runtime, and the signals and legs that are left.                        *)
Shape ==
  \A k \in Ticks :
    /\ ~At(k, "none") => Rt(k) \in Runtimes
    /\ task[k].pc \in {"ask", "await", "order", "report"} => task[k].signals >= 1
    /\ task[k].pc \in {"order", "report"} => task[k].legs >= 1

TaskRecord == [pc: TaskPC, runtime: Runtimes \cup {None}, prev: Ticks \cup {None},
               signals: 0..MaxSignals, legs: 0..MaxLegs, answer: SignalIds \cup {<<>>}]

-----------------------------------------------------------------------------
(* Type correctness. *)

LEMMA PostType ==
  ASSUME TypeOK, NEW ms \in Seq(ToCoord), Post(ms)
  PROVE  toCoord' \in Seq(ToCoord)
BY DEF TypeOK, Post

LEMMA Messages ==
  /\ \A t \in {"instance_started", "instance_stopped", "instance_error"} : Event(t) \in ToCoord
  /\ \A v \in Nat : Checkpoint(v) \in ToCoord
  /\ \A s \in SignalIds : Request(s) \in ToCoord /\ Response(s) \in ToWorker
  /\ Stop \in ToWorker
  /\ \A k \in Ticks : Tick(k) \in ToWorker
  /\ \A r \in Runtimes, v \in Nat : Start(r, v) \in ToWorker
BY DEF Event, Checkpoint, Request, Response, Stop, Tick, Start, ToCoord, ToWorker, StartMsgs

(* A task's record stays one when its program counter moves. *)
LEMMA GotoType ==
  ASSUME TypeOK, NEW k \in Ticks, NEW pc \in TaskPC, Goto(k, pc)
  PROVE  /\ task' \in [Ticks -> TaskRecord]
         /\ task'[k].pc = pc
         /\ task'[k].runtime = task[k].runtime /\ task'[k].prev = task[k].prev
         /\ task'[k].signals = task[k].signals /\ task'[k].legs = task[k].legs
         /\ \A j \in Ticks \ {k} : task'[j] = task[j]
BY DEF TypeOK, Goto, TaskRecord

LEMMA FailType ==
  ASSUME TypeOK, NEW k \in Ticks, Rt(k) \in Runtimes, Fail(k)
  PROVE  /\ fails' \in [Runtimes -> Nat]
         /\ toCoord' \in Seq(ToCoord) /\ saved' \in Nat
         /\ Goto(k, "done") \/ Goto(k, "giveup")
<1>1. fails' \in [Runtimes -> Nat]
  BY DEF TypeOK, Fail
<1>2. memory[Rt(k)] \in Nat
  BY DEF TypeOK
<1>3. CASE link = "lost"
  BY <1>1, <1>3 DEF Fail, TypeOK
<1>4. CASE link # "lost" /\ fails[Rt(k)] + 1 >= MaxFailures
  <2>1. <<Event("instance_error")>> \in Seq(ToCoord)
    BY Messages
  <2>2. QED
    BY <1>1, <1>4, <2>1, PostType DEF Fail, TypeOK
<1>5. CASE link # "lost" /\ ~(fails[Rt(k)] + 1 >= MaxFailures)
  <2>1. <<Checkpoint(memory[Rt(k)])>> \o <<>> \in Seq(ToCoord)
    BY <1>2, Messages
  <2>2. QED
    BY <1>1, <1>2, <1>5, <2>1, PostType DEF Fail, PostState
<1>6. QED
  BY <1>3, <1>4, <1>5

(* What a step of the task of tick k does to the tasks: it moves that one  *)
(* on, and leaves its runtime, its predecessor and every other task alone. *)
Moves(k) ==
  /\ task' \in [Ticks -> TaskRecord]
  /\ \A j \in Ticks \ {k} : task'[j] = task[j]
  /\ task'[k].prev = task[k].prev /\ task'[k].runtime = task[k].runtime
  /\ task[k].pc \notin {"none", "done"} /\ task'[k].pc \notin {"none", "waiting"}
  /\ task'[k].pc \in {"ask", "await", "order", "report"} => task'[k].signals >= 1
  /\ task'[k].pc \in {"order", "report"} => task'[k].legs >= 1

LEMMA FailMoves ==
  ASSUME TypeOK, NEW k \in Ticks, Goto(k, "done") \/ Goto(k, "giveup"), task[k].pc \notin {"none", "done"}
  PROVE  Moves(k)
<1>1. PICK pc \in {"done", "giveup"} : Goto(k, pc)
  OBVIOUS
<1>2. pc \in TaskPC
  BY DEF TaskPC
<1>3. QED
  BY <1>1, <1>2, GotoType DEF Moves

LEMMA NextSignalMoves ==
  ASSUME TypeOK, NEW k \in Ticks, task[k].pc \notin {"none", "done"}, task[k].signals >= 1, NextSignal(k)
  PROVE  Moves(k)
<1>1. task[k].signals - 1 \in 0..MaxSignals
  BY SMTT(30), ConstantsAssumption DEF TypeOK
<1>2. /\ task'[k].signals = task[k].signals - 1
      /\ task'[k].pc = IF task[k].signals = 1 THEN "finish" ELSE "ask"
      /\ task'[k].prev = task[k].prev /\ task'[k].runtime = task[k].runtime
      /\ \A j \in Ticks \ {k} : task'[j] = task[j]
  BY DEF NextSignal, TypeOK
<1>3. task' \in [Ticks -> TaskRecord]
  <2> DEFINE p == IF task[k].signals = 1 THEN "finish" ELSE "ask"
             t == [task EXCEPT ![k].signals = task[k].signals - 1]
  <2>1. t \in [Ticks -> TaskRecord]
    BY <1>1 DEF TypeOK, TaskRecord
  <2>2. p \in TaskPC
    BY DEF TaskPC
  <2>3. task' = [t EXCEPT ![k].pc = p]
    BY DEF NextSignal
  <2> HIDE DEF t, p
  <2>4. QED
    BY <2>1, <2>2, <2>3 DEF TaskRecord
<1>4. task[k].signals # 1 => task[k].signals - 1 >= 1
  BY DEF TypeOK
<1>5. QED
  BY <1>2, <1>3, <1>4 DEF Moves

(* What the steps of a tick's task have in common: they move the task, and *)
(* touch neither the queues' ticks and starts nor the running instance.    *)
LEMMA TaskSteps ==
  ASSUME TypeOK, Shape, NEW k \in Ticks, TaskStep(k)
  PROVE  /\ TypeOK' /\ Moves(k)
         /\ UNCHANGED <<coordVars, link, toWorker, running, bringUp, tail>>
<1> USE DEF At
<1>r. task[k].pc # "none" => Rt(k) \in Runtimes
  BY DEF Shape
<1>c. Rt(k) \in Runtimes => \A m : m = [memory EXCEPT ![Rt(k)] = @ + 1] => m \in [Runtimes -> Nat]
  BY DEF TypeOK
<1>1. CASE Begin(k)
  <2>1. Rt(k) \in Runtimes /\ task[k].pc = "waiting"
    BY <1>1, <1>r DEF Begin, MyTurn
  <2>2. CASE /\ CallsBack(k)
             /\ \E n \in 0..MaxSignals :
                  task' = [task EXCEPT ![k].signals = n, ![k].pc = IF n = 0 THEN "finish" ELSE "ask"]
             /\ UNCHANGED <<fails, toCoord, saved>>
    <3>1. PICK n \in 0..MaxSignals :
             task' = [task EXCEPT ![k].signals = n, ![k].pc = IF n = 0 THEN "finish" ELSE "ask"]
      BY <2>2
    <3> DEFINE p == IF n = 0 THEN "finish" ELSE "ask"
               t == [task EXCEPT ![k].signals = n]
    <3>2. t \in [Ticks -> TaskRecord]
      BY DEF TypeOK, TaskRecord
    <3>3. p \in TaskPC
      BY DEF TaskPC
    <3>4. task' = [t EXCEPT ![k].pc = p]
      BY <3>1
    <3>5. task' \in [Ticks -> TaskRecord]
      <4> HIDE DEF t, p
      <4> QED
        BY <3>2, <3>3, <3>4 DEF TaskRecord
    <3>6. Moves(k)
      <4>1. /\ task'[k].signals = n /\ task'[k].pc = p
            /\ task'[k].prev = task[k].prev /\ task'[k].runtime = task[k].runtime
            /\ \A j \in Ticks \ {k} : task'[j] = task[j]
        BY <3>1 DEF TypeOK
      <4>2. p \in {"finish", "ask"} /\ (p = "ask" => n >= 1)
        BY ConstantsAssumption
      <4> HIDE DEF p
      <4>3. QED
        BY <2>1, <3>5, <4>1, <4>2 DEF Moves
    <3>7. memory' \in [Runtimes -> Nat]
      BY <1>c, <2>1, <2>2 DEF CallsBack
    <3>8. QED
      BY <1>1, <2>2, <3>5, <3>6, <3>7 DEF Begin, TypeOK, TaskRecord, coordVars
  <2>3. CASE Fail(k) /\ UNCHANGED memory
    BY <1>1, <2>1, <2>3, FailType, FailMoves DEF Begin, Moves, TypeOK, TaskRecord, coordVars
  <2>4. QED
    BY <1>1, <2>2, <2>3 DEF Begin
<1>2. CASE Ask(k)
  <2>1. Rt(k) \in Runtimes /\ task[k].pc = "ask"
    BY <1>2, <1>r DEF Ask
  <2>2. CASE /\ task' = [task EXCEPT ![k].pc = "await", ![k].answer = <<>>]
             /\ pending' = Append(pending, k)
             /\ Post(<<Request(Current(k))>>)
             /\ UNCHANGED <<fails, saved>>
    <3> DEFINE t == [task EXCEPT ![k].pc = "await"]
    <3>1. t \in [Ticks -> TaskRecord]
      BY ZenonT(40) DEF TypeOK, TaskRecord, TaskPC
    <3>2. task' = [t EXCEPT ![k].answer = <<>>]
      BY <2>2
    <3>3. task' \in [Ticks -> TaskRecord]
      <4> HIDE DEF t
      <4> QED
        BY <3>1, <3>2 DEF TaskRecord
    <3>4. task[k].signals >= 1
      BY <2>1 DEF Shape
    <3>5. Moves(k)
      BY <2>1, <2>2, <3>3, <3>4 DEF Moves, TypeOK
    <3>6. <<Request(Current(k))>> \in Seq(ToCoord)
      <4>1. Current(k) \in SignalIds
        BY DEF Current, SignalIds, TypeOK
      <4>2. QED
        BY <4>1, Messages
    <3>7. toCoord' \in Seq(ToCoord) /\ pending' \in Seq(Ticks)
      <4>1. Post(<<Request(Current(k))>>) /\ pending' = Append(pending, k)
        BY <2>2
      <4>2. toCoord' \in Seq(ToCoord)
        BY <3>6, <4>1, PostType
      <4>3. pending' \in Seq(Ticks)
        BY <4>1 DEF TypeOK
      <4>4. QED
        BY <4>2, <4>3
    <3>8. QED
      BY <1>2, <2>2, <3>3, <3>5, <3>7 DEF Ask, TypeOK, TaskRecord, coordVars
  <2>3. CASE Fail(k) /\ UNCHANGED pending
    BY <1>2, <2>1, <2>3, FailType, FailMoves DEF Ask, Moves, TypeOK, TaskRecord, coordVars
  <2>4. QED
    BY <1>2, <2>2, <2>3 DEF Ask
<1>3. CASE TimeOut(k)
  <2>1. Rt(k) \in Runtimes /\ task[k].pc = "await" /\ task[k].signals >= 1
    BY <1>3, <1>r DEF TimeOut, Shape
  <2>2. Moves(k)
    BY <1>3, <2>1, NextSignalMoves DEF TimeOut
  <2>3. memory' \in [Runtimes -> Nat]
    BY <1>3, <1>c, <2>1 DEF TimeOut, CallsBack
  <2>4. pending' \in Seq(Ticks)
    BY <1>3 DEF TimeOut, TypeOK
  <2>5. QED
    BY <1>3, <2>2, <2>3, <2>4 DEF TimeOut, Moves, TypeOK, TaskRecord, coordVars
<1>4. CASE Approved(k)
  <2>1. task[k].pc = "await" /\ task[k].signals >= 1
    BY <1>4 DEF Approved, Shape
  <2>2. PICK n \in 1..MaxLegs : task' = [task EXCEPT ![k].pc = "order", ![k].legs = n]
    BY <1>4 DEF Approved
  <2> DEFINE t == [task EXCEPT ![k].pc = "order"]
  <2>3. t \in [Ticks -> TaskRecord]
    BY ZenonT(40) DEF TypeOK, TaskRecord, TaskPC
  <2>4. task' = [t EXCEPT ![k].legs = n]
    BY <2>2
  <2>5. n \in 0..MaxLegs
    BY ConstantsAssumption
  <2>6. task' \in [Ticks -> TaskRecord]
    <3> HIDE DEF t
    <3> QED
      BY <2>3, <2>4, <2>5 DEF TaskRecord
  <2>7. Moves(k)
    BY SMTT(30), <2>1, <2>2, <2>6, ConstantsAssumption DEF Moves, TypeOK
  <2>8. QED
    BY <1>4, <2>6, <2>7 DEF Approved, TypeOK, TaskRecord, coordVars, rtVars
<1>5. CASE SubmitOrder(k)
  <2>1. Rt(k) \in Runtimes /\ task[k].pc = "order" /\ task[k].signals >= 1 /\ task[k].legs >= 1
    BY <1>5, <1>r DEF SubmitOrder, Shape
  <2>2. CASE Goto(k, "report") /\ UNCHANGED <<fails, toCoord, saved>>
    <3>1. "report" \in TaskPC
      BY DEF TaskPC
    <3>2. Moves(k)
      BY <2>1, <2>2, <3>1, GotoType DEF Moves
    <3>3. QED
      BY <1>5, <2>2, <3>2 DEF SubmitOrder, Moves, TypeOK, TaskRecord, coordVars
  <2>3. CASE Fail(k)
    BY <1>5, <2>1, <2>3, FailType, FailMoves DEF SubmitOrder, Moves, TypeOK, TaskRecord, coordVars
  <2>4. QED
    BY <1>5, <2>2, <2>3 DEF SubmitOrder
<1>6. CASE ReportOrder(k)
  <2>1. Rt(k) \in Runtimes /\ task[k].pc = "report" /\ task[k].signals >= 1 /\ task[k].legs >= 1
    BY <1>6, <1>r DEF ReportOrder, Shape
  <2>2. CASE /\ task[k].legs > 1
             /\ task' = [task EXCEPT ![k].pc = "order", ![k].legs = @ - 1]
             /\ UNCHANGED <<memory, fails, toCoord, saved>>
    <3> DEFINE t == [task EXCEPT ![k].pc = "order"]
    <3>1. t \in [Ticks -> TaskRecord] /\ t[k].legs = task[k].legs
      BY ZenonT(40) DEF TypeOK, TaskRecord, TaskPC
    <3>2. task' = [t EXCEPT ![k].legs = task[k].legs - 1]
      BY <2>2
    <3>3. task[k].legs - 1 \in 0..MaxLegs /\ task[k].legs - 1 >= 1
      <4>1. task[k].legs > 1 /\ task[k].legs \in 0..MaxLegs
        BY <2>2 DEF TypeOK
      <4>2. QED
        BY <4>1, ConstantsAssumption
    <3>4. task' \in [Ticks -> TaskRecord]
      <4> HIDE DEF t
      <4> QED
        BY <3>1, <3>2, <3>3 DEF TaskRecord
    <3>5. Moves(k)
      BY <2>1, <2>2, <3>3, <3>4 DEF Moves, TypeOK
    <3>6. QED
      BY <1>6, <2>2, <3>4, <3>5 DEF ReportOrder, TypeOK, TaskRecord, coordVars
  <2>3. CASE /\ CallsBack(k) /\ NextSignal(k)
             /\ UNCHANGED <<fails, toCoord, saved>>
    <3>1. memory' \in [Runtimes -> Nat]
      BY <1>c, <2>1, <2>3 DEF CallsBack
    <3>2. Moves(k)
      BY <2>1, <2>3, NextSignalMoves
    <3>3. QED
      BY <1>6, <2>3, <3>1, <3>2 DEF ReportOrder, Moves, TypeOK, TaskRecord, coordVars
  <2>4. CASE Fail(k) /\ UNCHANGED memory
    BY <1>6, <2>1, <2>4, FailType, FailMoves DEF ReportOrder, Moves, TypeOK, TaskRecord, coordVars
  <2>5. QED
    BY <1>6, <2>2, <2>3, <2>4 DEF ReportOrder
<1>7. CASE Finish(k)
  <2>1. Rt(k) \in Runtimes /\ task[k].pc = "finish"
    BY <1>7, <1>r DEF Finish
  <2>2. CASE /\ fails' = [fails EXCEPT ![Rt(k)] = 0]
             /\ PostState(memory[Rt(k)], <<>>)
             /\ Goto(k, "done")
    <3>1. memory[Rt(k)] \in Nat
      BY <2>1 DEF TypeOK
    <3>2. <<Checkpoint(memory[Rt(k)])>> \o <<>> \in Seq(ToCoord)
      BY <3>1, Messages
    <3>3. saved' \in Nat /\ toCoord' \in Seq(ToCoord) /\ fails' \in [Runtimes -> Nat]
      BY <2>2, <3>1, <3>2, PostType DEF PostState, TypeOK
    <3>4. Moves(k)
      BY <2>1, <2>2, FailMoves
    <3>5. QED
      BY <1>7, <3>3, <3>4 DEF Finish, Moves, TypeOK, TaskRecord, coordVars
  <2>3. CASE Fail(k)
    BY <1>7, <2>1, <2>3, FailType, FailMoves DEF Finish, Moves, TypeOK, TaskRecord, coordVars
  <2>4. QED
    BY <1>7, <2>2, <2>3 DEF Finish
<1>8. CASE GiveUp(k)
  <2>1. Rt(k) \in Runtimes /\ task[k].pc = "giveup"
    BY <1>8, <1>r DEF GiveUp
  <2>2. Moves(k)
    BY <1>8, <2>1, FailMoves DEF GiveUp
  <2>3. runner' \in [Runtimes -> {"none", "running", "stopped"}]
    BY <1>8, <2>1 DEF GiveUp, ShutDownItself, ShutDown, TypeOK
  <2>4. QED
    BY <1>8, <2>1, <2>2, <2>3 DEF GiveUp, Moves, TypeOK, TaskRecord, coordVars
<1>9. QED
  BY <1>1, <1>2, <1>3, <1>4, <1>5, <1>6, <1>7, <1>8 DEF TaskStep

-----------------------------------------------------------------------------
(* The coordinator's and the receive loop's steps. *)

LEMMA TailType ==
  ASSUME NEW S, NEW s \in Seq(S), s # <<>>
  PROVE  Head(s) \in S /\ Tail(s) \in Seq(S)
OBVIOUS

LEMMA OtherSteps ==
  ASSUME TypeOK, Shape, [Next]_vars, \A k \in Ticks : ~TaskStep(k)
  PROVE  TypeOK' /\ Shape'
<1> USE DEF At, Rt
<1>1. CASE SendStart
  <2>1. runs + 1 \in Runtimes /\ persisted \in Nat
    BY <1>1, ConstantsAssumption DEF SendStart, TypeOK, Runtimes
  <2>2. Start(runs + 1, persisted) \in ToWorker
    BY <2>1, Messages
  <2>3. toWorker' \in Seq(ToWorker)
    BY <1>1, <2>2 DEF SendStart, TypeOK
  <2>4. QED
    BY SMTT(30), <1>1, <2>1, <2>3, ConstantsAssumption DEF SendStart, TypeOK, Shape, rtVars, tickVars, Runtimes
<1>2. CASE SendStop
  BY SMTT(30), <1>2, Messages DEF SendStop, TypeOK, Shape, rtVars, tickVars
<1>3. CASE SendTick
  <2>1. sent + 1 \in Ticks
    BY <1>3, ConstantsAssumption DEF SendTick, TypeOK, Ticks
  <2>2. toWorker' \in Seq(ToWorker)
    BY <1>3, <2>1, Messages DEF SendTick, TypeOK
  <2>3. sent' \in 0..MaxTicks
    BY <1>3, ConstantsAssumption DEF SendTick, TypeOK
  <2>4. QED
    BY <1>3, <2>2, <2>3 DEF SendTick, TypeOK, Shape, rtVars, tickVars
<1>4. CASE CoordinatorReceives
  <2> DEFINE m == Head(toCoord)
  <2>1. m \in ToCoord /\ toCoord' \in Seq(ToCoord)
    BY <1>4, TailType DEF CoordinatorReceives, TypeOK
  <2>2. m.type = "state_checkpoint" => m.state \in Nat
    BY <2>1 DEF ToCoord
  <2>3. m.type = "signal_request" => Response(m.signal) \in ToWorker
    BY <2>1, Messages DEF ToCoord
  <2>h. Handle(m)
    BY <1>4 DEF CoordinatorReceives
  <2> HIDE DEF m
  <2>4. toWorker' \in Seq(ToWorker)
    BY <2>3, <2>h DEF Handle, TypeOK
  <2>5. status' \in {"stopped", "live", "stopping", "error"} /\ persisted' \in Nat
    BY <2>2, <2>h DEF Handle, TypeOK
  <2>6. QED
    BY <1>4, <2>1, <2>4, <2>5 DEF CoordinatorReceives, TypeOK, Shape, rtVars, tickVars
<1>5. CASE Lose
  <2>1. toCoord' \in Seq(ToCoord) /\ toWorker' \in Seq(ToWorker)
    BY <1>5 DEF Lose, TypeOK
  <2>2. QED
    BY <1>5, <2>1 DEF Lose, TypeOK, Shape, coordVars, rtVars, tickVars
<1>6. ASSUME NEW t, Reads(t)
      PROVE  /\ Head(toWorker) \in ToWorker /\ Head(toWorker).type = t
             /\ toWorker' \in Seq(ToWorker) /\ bringUp = <<>>
  BY <1>6, TailType DEF Reads, TypeOK
<1>7. CASE ReceiveStart
  <2>1. Head(toWorker) \in StartMsgs /\ toWorker' \in Seq(ToWorker)
    BY <1>6, <1>7 DEF ReceiveStart, ToWorker
  <2>2. bringUp' \in Seq(StartMsgs) /\ running' \in Runtimes \cup {None}
    <3>1. CASE UNCHANGED <<bringUp, running, runner>>
      BY <3>1 DEF TypeOK
    <3>2. CASE bringUp' = <<Head(toWorker)>> /\ running' = None
      BY <2>1, <3>2
    <3>3. QED
      BY <1>7, <3>1, <3>2 DEF ReceiveStart
  <2>3. runner' \in [Runtimes -> {"none", "running", "stopped"}]
    BY <1>7 DEF ReceiveStart, ShutDown, TypeOK
  <2>4. QED
    BY <1>7, <2>1, <2>2, <2>3 DEF ReceiveStart, TypeOK, Shape, coordVars, tickVars
<1>8. CASE ReceiveStop
  <2>1. toWorker' \in Seq(ToWorker)
    BY <1>6, <1>8 DEF ReceiveStop
  <2>2. runner' \in [Runtimes -> {"none", "running", "stopped"}]
    BY <1>8 DEF ReceiveStop, ShutDown, TypeOK
  <2>3. toCoord' \in Seq(ToCoord) /\ saved' \in Nat
    <3>1. CASE running = None
      <4>1. <<Event("instance_stopped")>> \in Seq(ToCoord)
        BY Messages
      <4>2. QED
        BY <1>8, <3>1, <4>1, PostType DEF ReceiveStop, TypeOK
    <3>2. CASE running # None
      <4>1. memory[running] \in Nat
        BY <3>2 DEF TypeOK
      <4>2. <<Checkpoint(memory[running])>> \o <<Event("instance_stopped")>> \in Seq(ToCoord)
        BY <4>1, Messages
      <4>3. QED
        BY <1>8, <3>2, <4>1, <4>2, PostType DEF ReceiveStop, StateFirst, PostState
    <3>3. QED
      BY <3>1, <3>2
  <2>4. QED
    BY <1>8, <2>1, <2>2, <2>3 DEF ReceiveStop, KeepChain, TypeOK, Shape, coordVars
<1>9. CASE ReceiveTick
  <2> DEFINE k == Head(toWorker).tick
  <2>1. k \in Ticks /\ toWorker' \in Seq(ToWorker)
    BY <1>6, <1>9 DEF ReceiveTick, ToWorker, StartMsgs
  <2>2. CASE running = None
    BY <1>9, <2>1, <2>2 DEF ReceiveTick, TypeOK, Shape, coordVars, rtVars
  <2>3. CASE running # None
    <3> DEFINE new == TaskFor("waiting", running, tail)
    <3>1. new.pc = "waiting" /\ new.runtime = running /\ new.signals = 0 /\ new.legs = 0
      BY DEF TaskFor
    <3>2. new \in TaskRecord
      BY ConstantsAssumption DEF TaskFor, TypeOK, TaskRecord, TaskPC
    <3>3. task' = [task EXCEPT ![k] = new] /\ tail' = k
      BY <1>9, <2>3 DEF ReceiveTick
    <3> HIDE DEF new, k
    <3>4. task' \in [Ticks -> TaskRecord]
      BY <2>1, <3>2, <3>3 DEF TypeOK, TaskRecord
    <3>5. Shape'
      BY <2>1, <2>3, <3>1, <3>3 DEF Shape, TypeOK
    <3>6. QED
      BY <1>9, <2>1, <3>3, <3>4, <3>5 DEF ReceiveTick, TypeOK, TaskRecord, coordVars, rtVars
  <2>4. QED
    BY <2>2, <2>3
<1>10. CASE ReceiveResponse
  <2>1. /\ Head(toWorker).signal \in SignalIds /\ toWorker' \in Seq(ToWorker)
    BY <1>6, <1>10 DEF ReceiveResponse, ToWorker, StartMsgs
  <2>2. CASE pending = <<>>
    BY <1>10, <2>1, <2>2 DEF ReceiveResponse, TypeOK, Shape, coordVars, rtVars
  <2>3. CASE pending # <<>>
    <3> DEFINE k == Head(pending)
    <3>1. k \in Ticks /\ pending' \in Seq(Ticks)
      BY <1>10, <2>3, TailType DEF ReceiveResponse, TypeOK
    <3>2. task' = [task EXCEPT ![k].answer = Head(toWorker).signal]
      BY <1>10, <2>3 DEF ReceiveResponse
    <3> HIDE DEF k
    <3>3. task' \in [Ticks -> TaskRecord]
      BY ZenonT(40), <2>1, <3>1, <3>2 DEF TypeOK, TaskRecord
    <3>4. Shape'
      BY <3>1, <3>2 DEF Shape, TypeOK
    <3>5. QED
      BY <1>10, <2>1, <3>1, <3>3, <3>4 DEF ReceiveResponse, TypeOK, TaskRecord, coordVars, rtVars
  <2>4. QED
    BY <2>2, <2>3
<1>11. CASE BroughtUp
  <2>1. bringUp[1] \in StartMsgs
    BY <1>11 DEF BroughtUp, TypeOK
  <2>2. /\ running' \in Runtimes \cup {None}
        /\ runner' \in [Runtimes -> {"none", "running", "stopped"}]
        /\ memory' \in [Runtimes -> Nat]
    BY ZenonT(40), <1>11, <2>1 DEF BroughtUp, TypeOK, StartMsgs
  <2>3. toCoord' \in Seq(ToCoord)
    <3>1. <<Event("instance_started")>> \in Seq(ToCoord) /\ <<Event("instance_error")>> \in Seq(ToCoord)
      BY Messages
    <3>2. QED
      BY <1>11, <3>1, PostType DEF BroughtUp
  <2>4. QED
    BY SMTT(30), <1>11, <2>2, <2>3 DEF BroughtUp, TypeOK, Shape, coordVars, tickVars
<1>12. CASE Exhausted \/ UNCHANGED vars
  BY <1>12 DEF Exhausted, TypeOK, Shape, vars, coordVars, rtVars, tickVars
<1>13. QED
  BY <1>1, <1>2, <1>3, <1>4, <1>5, <1>7, <1>8, <1>9, <1>10, <1>11, <1>12 DEF Next, Receive

LEMMA TypeStep == TypeOK /\ Shape /\ [Next]_vars => TypeOK' /\ Shape'
<1> SUFFICES ASSUME TypeOK, Shape, [Next]_vars PROVE TypeOK' /\ Shape'
  OBVIOUS
<1>1. ASSUME NEW k \in Ticks, TaskStep(k) PROVE TypeOK' /\ Shape'
  <2>1. TypeOK' /\ Moves(k)
    BY <1>1, TaskSteps
  <2>2. QED
    BY <2>1 DEF Moves, Shape, At, Rt
<1>2. QED
  BY <1>1, OtherSteps

LEMMA TypeInit == Init => TypeOK /\ Shape
<1> SUFFICES ASSUME Init PROVE TypeOK /\ Shape
  OBVIOUS
<1>1. TaskFor("none", None, None) \in TaskRecord
  BY ConstantsAssumption DEF TaskFor, TaskRecord, TaskPC
<1>2. task \in [Ticks -> TaskRecord]
  BY <1>1 DEF Init
<1>3. Shape
  BY DEF Init, Shape, TaskFor, At
<1>4. QED
  BY <1>2, <1>3, ConstantsAssumption DEF Init, TypeOK, TaskRecord

(* Every row, message, task and counter is well formed in every reachable  *)
(* state: in particular no tick handles more signals or legs than it has.  *)
THEOREM TypeCorrect == Spec => []TypeOK
<1>1. TypeOK /\ Shape /\ [Next]_vars => (TypeOK /\ Shape)'
  BY TypeStep
<1>2. QED
  BY <1>1, TypeInit, PTL DEF Spec

-----------------------------------------------------------------------------
(* The order of the ticks.                                                 *)

(* The tail is the newest tick taken up; the ticks still in the queue are  *)
(* newer and in order.                                                     *)
Arriving ==
  /\ tail <= sent
  /\ \A a \in 1..Len(toWorker) :
       toWorker[a].type = "tick" => tail < toWorker[a].tick /\ toWorker[a].tick <= sent
  /\ \A a, b \in 1..Len(toWorker) :
       a < b /\ toWorker[a].type = "tick" /\ toWorker[b].type = "tick"
         => toWorker[a].tick < toWorker[b].tick

(* A task waits for the newest one made before it, and none is newer than  *)
(* the tail.                                                               *)
Chain ==
  \A k \in Ticks : ~At(k, "none") =>
    /\ k <= tail
    /\ task[k].prev < k
    /\ \A j \in Ticks : task[k].prev < j /\ j < k => At(j, "none")

OrderInv == Arriving /\ Chain /\ TicksInOrder

(* A step of a task keeps the order: one that begins finds its predecessor *)
(* done, and nothing between the two; one that goes on is the only one.    *)
LEMMA TaskKeepsOrder ==
  ASSUME TypeOK, Shape, OrderInv, NEW k \in Ticks, TaskStep(k)
  PROVE  OrderInv'
<1>1. Moves(k) /\ UNCHANGED <<coordVars, toWorker, tail>>
  BY TaskSteps
<1>2. Arriving'
  BY <1>1 DEF OrderInv, Arriving, coordVars
<1>3. Chain'
  BY <1>1 DEF OrderInv, Chain, Moves, At
<1>4. \A j \in 1..(k - 1) : task[j].pc \in {"none", "done"}
  <2>1. CASE task[k].pc = "waiting"
    <3>1. \A j \in Ticks : j = task[k].prev => At(j, "done")
      BY <2>1 DEF TaskStep, Begin, MyTurn, Ask, TimeOut, Approved, SubmitOrder, ReportOrder, Finish, GiveUp, At
    <3>2. task[k].prev \in Ticks \cup {None} /\ task[k].prev < k
      BY <2>1 DEF OrderInv, Chain, At, TypeOK
    <3> SUFFICES ASSUME NEW j \in 1..(k - 1) PROVE task[j].pc \in {"none", "done"}
      OBVIOUS
    <3>3. j \in Ticks /\ j < k
      BY ConstantsAssumption DEF Ticks
    <3>4. CASE task[k].prev < j
      BY <2>1, <3>3, <3>4 DEF OrderInv, Chain, At
    <3>5. CASE j = task[k].prev
      BY <3>1, <3>3, <3>5 DEF At
    <3>6. CASE j < task[k].prev
      <4>1. task[k].prev \in Ticks
        BY <3>2, <3>3, <3>6 DEF Ticks, None
      <4>2. task[task[k].prev].pc = "done"
        BY <3>1, <4>1 DEF At
      <4>3. j \in 1..(task[k].prev - 1)
        BY <3>6, <4>1, ConstantsAssumption DEF Ticks
      <4>4. QED
        BY <4>1, <4>2, <4>3 DEF OrderInv, TicksInOrder
    <3>7. QED
      BY <3>2, <3>3, <3>4, <3>5, <3>6, ConstantsAssumption DEF Ticks, None
  <2>2. CASE task[k].pc # "waiting"
    BY <1>1, <2>2 DEF OrderInv, TicksInOrder, Moves
  <2>3. QED
    BY <2>1, <2>2
<1>5. TicksInOrder'
  <2> SUFFICES ASSUME NEW i \in Ticks, task'[i].pc \notin {"none", "waiting"}, NEW j \in 1..(i - 1)
               PROVE  task'[j].pc \in {"none", "done"}
    BY DEF TicksInOrder
  <2>1. j \in Ticks /\ j < i
    BY ConstantsAssumption DEF Ticks
  <2>2. CASE i = k
    BY <1>1, <1>4, <2>1, <2>2 DEF Moves
  <2>3. CASE i # k
    <3>1. task[i].pc \notin {"none", "waiting"}
      BY <1>1, <2>3 DEF Moves
    <3>2. task[j].pc \in {"none", "done"}
      BY <3>1 DEF OrderInv, TicksInOrder
    <3>3. j # k
      BY <1>1, <3>2 DEF Moves
    <3>4. QED
      BY <1>1, <2>1, <3>2, <3>3 DEF Moves
  <2>4. QED
    BY <2>2, <2>3
<1>6. QED
  BY <1>2, <1>3, <1>5 DEF OrderInv

(* What the queue's operations do to Arriving. *)
LEMMA AppendArriving ==
  ASSUME TypeOK, Arriving, NEW m \in ToWorker, toWorker' = Append(toWorker, m),
         UNCHANGED tail, sent' >= sent, sent' \in Nat,
         m.type = "tick" => sent < m.tick /\ m.tick <= sent' /\ m.tick \in Nat
  PROVE  Arriving'
<1>1. /\ Len(toWorker') = Len(toWorker) + 1
      /\ toWorker'[Len(toWorker) + 1] = m
      /\ \A a \in 1..Len(toWorker) : toWorker'[a] = toWorker[a] /\ toWorker[a] \in ToWorker
      /\ Len(toWorker) \in Nat
  BY DEF TypeOK
<1>2. \A x \in ToWorker : x.type = "tick" => x.tick \in Nat
  BY ConstantsAssumption DEF ToWorker, StartMsgs, Ticks
<1>3. tail \in Nat /\ sent \in Nat
  BY ConstantsAssumption DEF TypeOK, Ticks, None
<1>4. \A a \in 1..Len(toWorker') : a \in 1..Len(toWorker) \/ a = Len(toWorker) + 1
  BY <1>1
<1>5. \A a \in 1..Len(toWorker') :
        toWorker'[a].type = "tick" => tail < toWorker'[a].tick /\ toWorker'[a].tick <= sent'
  <2> SUFFICES ASSUME NEW a \in 1..Len(toWorker'), toWorker'[a].type = "tick"
               PROVE  tail < toWorker'[a].tick /\ toWorker'[a].tick <= sent'
    OBVIOUS
  <2>1. CASE a = Len(toWorker) + 1
    BY <1>1, <1>3, <2>1 DEF Arriving
  <2>2. CASE a \in 1..Len(toWorker)
    BY <1>1, <1>2, <1>3, <2>2 DEF Arriving
  <2>3. QED
    BY <1>4, <2>1, <2>2
<1>6. \A a, b \in 1..Len(toWorker') :
        a < b /\ toWorker'[a].type = "tick" /\ toWorker'[b].type = "tick"
          => toWorker'[a].tick < toWorker'[b].tick
  <2> SUFFICES ASSUME NEW a \in 1..Len(toWorker'), NEW b \in 1..Len(toWorker'), a < b,
                      toWorker'[a].type = "tick", toWorker'[b].type = "tick"
               PROVE  toWorker'[a].tick < toWorker'[b].tick
    OBVIOUS
  <2>1. a \in 1..Len(toWorker)
    BY <1>1
  <2>2. CASE b = Len(toWorker) + 1
    <3>1. toWorker[a].tick <= sent /\ toWorker[a].tick \in Nat
      BY <1>1, <1>2, <2>1 DEF Arriving
    <3>2. QED
      BY <1>1, <1>3, <2>1, <2>2, <3>1
  <2>3. CASE b \in 1..Len(toWorker)
    BY <1>1, <2>1, <2>3 DEF Arriving
  <2>4. QED
    BY <1>4, <2>2, <2>3
<1>7. QED
  BY <1>3, <1>5, <1>6 DEF Arriving

LEMMA TailArriving ==
  ASSUME TypeOK, Arriving, toWorker # <<>>, toWorker' = Tail(toWorker), UNCHANGED sent,
         \/ UNCHANGED tail
         \/ Head(toWorker).type = "tick" /\ tail' = Head(toWorker).tick
  PROVE  Arriving'
<1>1. /\ Len(toWorker) \in Nat \ {0}
      /\ Len(toWorker') = Len(toWorker) - 1
      /\ \A a \in 1..Len(toWorker') : toWorker'[a] = toWorker[a + 1] /\ a + 1 \in 1..Len(toWorker)
      /\ Head(toWorker) = toWorker[1] /\ 1 \in 1..Len(toWorker)
  BY DEF TypeOK
<1>2. \A a \in 1..Len(toWorker') : 1 < a + 1
  BY <1>1
<1>3. \A a, b \in 1..Len(toWorker') : a < b => a + 1 < b + 1
  BY <1>1
<1>4. tail' <= sent
  BY <1>1 DEF Arriving
<1>5. QED
  BY <1>1, <1>2, <1>3, <1>4 DEF Arriving

(* The other steps make at most one task, of a tick newer than all. *)
LEMMA OthersKeepOrder ==
  ASSUME TypeOK, Shape, OrderInv, [Next]_vars, \A k \in Ticks : ~TaskStep(k)
  PROVE  OrderInv'
<1>1. UNCHANGED <<task, tail>> => Chain' /\ TicksInOrder'
  BY DEF OrderInv, Chain, TicksInOrder, At
<1>2. UNCHANGED <<toWorker, tail, sent>> => Arriving'
  BY DEF OrderInv, Arriving
<1>3. Arriving
  BY DEF OrderInv
<1>s. sent \in Nat
  BY ConstantsAssumption DEF TypeOK
<1>4. CASE SendStart
  <2>1. runs + 1 \in Runtimes /\ persisted \in Nat
    BY <1>4, ConstantsAssumption DEF SendStart, TypeOK, Runtimes
  <2>2. Start(runs + 1, persisted) \in ToWorker /\ Start(runs + 1, persisted).type = "start"
    BY <2>1, Messages DEF Start
  <2>3. QED
    BY <1>1, <1>3, <1>4, <1>s, <2>2, AppendArriving DEF SendStart, OrderInv, tickVars
<1>5. CASE SendStop
  <2>1. Stop \in ToWorker /\ Stop.type = "stop"
    BY Messages DEF Stop
  <2>2. QED
    BY <1>1, <1>3, <1>5, <1>s, <2>1, AppendArriving DEF SendStop, OrderInv, tickVars
<1>6. CASE SendTick
  <2>1. sent + 1 \in Ticks
    BY <1>6, ConstantsAssumption DEF SendTick, TypeOK, Ticks
  <2>2. Tick(sent + 1) \in ToWorker /\ Tick(sent + 1).tick = sent + 1
    BY <2>1, Messages DEF Tick
  <2>3. Arriving'
    BY <1>3, <1>6, <1>s, <2>2, AppendArriving DEF SendTick, tickVars
  <2>4. QED
    BY <1>1, <1>6, <2>3 DEF SendTick, OrderInv, tickVars
<1>7. CASE CoordinatorReceives
  <2> DEFINE m == Head(toCoord)
  <2>1. m \in ToCoord
    BY <1>7, TailType DEF CoordinatorReceives, TypeOK
  <2>2. m.type = "signal_request" => Response(m.signal) \in ToWorker /\ Response(m.signal).type # "tick"
    BY <2>1, Messages DEF ToCoord, Response
  <2>h. Handle(m)
    BY <1>7 DEF CoordinatorReceives
  <2> HIDE DEF m
  <2>3. UNCHANGED <<sent, tail, task>>
    BY <1>7 DEF CoordinatorReceives, tickVars
  <2>4. CASE UNCHANGED toWorker
    BY <1>1, <1>2, <2>3, <2>4 DEF OrderInv
  <2>5. CASE m.type = "signal_request" /\ toWorker' = Append(toWorker, Response(m.signal))
    BY <1>1, <1>3, <1>s, <2>2, <2>3, <2>5, AppendArriving DEF OrderInv
  <2>6. QED
    BY <2>h, <2>4, <2>5 DEF Handle
<1>8. CASE Lose
  <2>1. Arriving'
    BY <1>3, <1>8 DEF Lose, Arriving, coordVars, tickVars
  <2>2. QED
    BY <1>1, <1>8, <2>1 DEF Lose, OrderInv, tickVars
<1>9. CASE ReceiveStart
  <2>1. Arriving'
    BY <1>3, <1>9, TailArriving DEF ReceiveStart, Reads, coordVars, tickVars
  <2>2. QED
    BY <1>1, <1>9, <2>1 DEF ReceiveStart, OrderInv, tickVars
<1>10. CASE ReceiveStop
  <2>1. Arriving'
    BY <1>3, <1>10, TailArriving DEF ReceiveStop, KeepChain, Reads, coordVars
  <2>2. QED
    BY <1>1, <1>10, <2>1 DEF ReceiveStop, KeepChain, OrderInv
<1>11. CASE ReceiveTick
  <2> DEFINE k == Head(toWorker).tick
  <2>1. Head(toWorker) \in ToWorker /\ Head(toWorker).type = "tick" /\ toWorker # <<>>
    BY <1>11, TailType DEF ReceiveTick, Reads, TypeOK
  <2>2. k \in Ticks
    BY <2>1 DEF ToWorker, StartMsgs
  <2>3. tail < k
    <3>1. Head(toWorker) = toWorker[1] /\ 1 \in 1..Len(toWorker)
      BY <2>1 DEF TypeOK
    <3>2. QED
      BY <1>3, <2>1, <3>1 DEF Arriving
  <2>4. CASE running = None
    <3>1. Arriving'
      BY <1>3, <1>11, <2>4, TailArriving DEF ReceiveTick, Reads, coordVars
    <3>2. QED
      BY <1>1, <1>11, <2>4, <3>1 DEF ReceiveTick, OrderInv
  <2>5. CASE running # None
    <3>1. Arriving'
      BY <1>3, <1>11, <2>1, <2>5, TailArriving DEF ReceiveTick, Reads, coordVars
    <3> DEFINE new == TaskFor("waiting", running, tail)
    <3>2. new.pc = "waiting" /\ new.prev = tail
      BY DEF TaskFor
    <3>3. task' = [task EXCEPT ![k] = new] /\ tail' = k
      BY <1>11, <2>5 DEF ReceiveTick
    <3> HIDE DEF new, k
    <3>4. /\ task'[k].pc = "waiting" /\ task'[k].prev = tail
          /\ \A j \in Ticks \ {k} : task'[j] = task[j]
      BY <2>2, <3>2, <3>3 DEF TypeOK
    <3>5. tail \in Nat /\ k \in Nat /\ Ticks \subseteq Nat
      BY <2>2, ConstantsAssumption DEF TypeOK, Ticks, None
    <3>6. \A j \in Ticks : tail < j => task[j].pc = "none"
      BY <3>5 DEF OrderInv, Chain, At
    <3>7. Chain'
      <4> SUFFICES ASSUME NEW i \in Ticks, task'[i].pc # "none"
                   PROVE  /\ i <= k /\ task'[i].prev < i
                          /\ \A j \in Ticks : task'[i].prev < j /\ j < i => task'[j].pc = "none"
        BY <3>3 DEF Chain, At
      <4>1. CASE i = k
        BY <2>3, <3>4, <3>5, <3>6, <4>1
      <4>2. CASE i # k
        <5>1. /\ task'[i] = task[i] /\ i <= tail /\ task[i].prev < i
              /\ \A j \in Ticks : task[i].prev < j /\ j < i => task[j].pc = "none"
          BY <3>4, <4>2 DEF OrderInv, Chain, At
        <5>2. QED
          BY <2>3, <3>4, <3>5, <5>1
      <4>3. QED
        BY <4>1, <4>2
    <3>8. TicksInOrder'
      <4> SUFFICES ASSUME NEW i \in Ticks, task'[i].pc \notin {"none", "waiting"}, NEW j \in 1..(i - 1)
                   PROVE  task'[j].pc \in {"none", "done"}
        BY DEF TicksInOrder
      <4>1. i # k /\ task'[i] = task[i]
        BY <3>4
      <4>2. i <= tail
        BY <4>1 DEF OrderInv, Chain, At
      <4>3. j \in Ticks /\ j < k
        BY <2>3, <3>5, <4>2, ConstantsAssumption DEF Ticks
      <4>4. QED
        BY <3>4, <4>1, <4>3 DEF OrderInv, TicksInOrder
    <3>9. QED
      BY <3>1, <3>7, <3>8 DEF OrderInv
  <2>6. QED
    BY <2>4, <2>5
<1>12. CASE ReceiveResponse
  <2>1. Arriving'
    BY <1>3, <1>12, TailArriving DEF ReceiveResponse, Reads, coordVars
  <2>2. CASE pending = <<>>
    BY <1>1, <1>12, <2>1, <2>2 DEF ReceiveResponse, OrderInv
  <2>3. CASE pending # <<>>
    <3>1. task' = [task EXCEPT ![Head(pending)].answer = Head(toWorker).signal] /\ UNCHANGED tail
      BY <1>12, <2>3 DEF ReceiveResponse
    <3>2. \A j \in Ticks : task'[j].pc = task[j].pc /\ task'[j].prev = task[j].prev
      BY <3>1 DEF TypeOK
    <3>3. Chain'
      BY <3>1, <3>2 DEF OrderInv, Chain, At
    <3>4. \A i \in Ticks : \A j \in 1..(i - 1) : j \in Ticks
      BY ConstantsAssumption DEF Ticks
    <3>5. TicksInOrder'
      BY <3>2, <3>4 DEF OrderInv, TicksInOrder
    <3>6. QED
      BY <2>1, <3>3, <3>5 DEF OrderInv
  <2>4. QED
    BY <2>2, <2>3
<1>13. CASE BroughtUp
  BY <1>1, <1>2, <1>13 DEF BroughtUp, OrderInv, coordVars, tickVars
<1>14. CASE Exhausted \/ UNCHANGED vars
  BY <1>1, <1>2, <1>14 DEF Exhausted, OrderInv, vars, coordVars, tickVars
<1>15. QED
  BY <1>4, <1>5, <1>6, <1>7, <1>8, <1>9, <1>10, <1>11, <1>12, <1>13, <1>14 DEF Next, Receive

(* The ticks of a deployment run one at a time and in the order in which   *)
(* the coordinator sent them, whatever raises, times out, is lost, stopped *)
(* or started again meanwhile.                                             *)
THEOREM TicksStayInOrder == Spec => []TicksInOrder
<1> DEFINE Inv == TypeOK /\ Shape /\ OrderInv
<1>1. Init => Inv
  <2> SUFFICES ASSUME Init PROVE Inv
    OBVIOUS
  <2>1. TypeOK /\ Shape
    BY TypeInit
  <2>2. \A k \in Ticks : task[k].pc = "none"
    BY DEF Init, TaskFor
  <2>3. tail = 0 /\ sent = 0 /\ Len(toWorker) = 0
    BY DEF Init, None
  <2>4. QED
    BY <2>1, <2>2, <2>3 DEF OrderInv, Arriving, Chain, TicksInOrder, At
<1>2. Inv /\ [Next]_vars => Inv'
  <2> SUFFICES ASSUME Inv, [Next]_vars PROVE OrderInv'
    BY TypeStep
  <2>1. QED
    BY TaskKeepsOrder, OthersKeepOrder
<1>3. Inv => TicksInOrder
  BY DEF OrderInv
<1>4. QED
  BY <1>1, <1>2, <1>3, PTL DEF Spec

-----------------------------------------------------------------------------
(* The runners.                                                            *)

(* While a runtime is brought up none is registered, and a runner that     *)
(* runs is the registered one.                                             *)
RunnerInv == (bringUp # <<>> => running = None) /\ OneRunner

LEMMA RunnerStep ==
  ASSUME "on_stop" \notin Raises, TypeOK, Shape, RunnerInv, [Next]_vars
  PROVE  RunnerInv'
<1> USE DEF RunnerInv
<1>n. None \notin Runtimes
  BY DEF None, Runtimes
<1>1. ASSUME NEW k \in Ticks, TaskStep(k) PROVE RunnerInv'
  <2>1. UNCHANGED <<running, bringUp>>
    BY <1>1, TaskSteps
  <2>2. CASE GiveUp(k)
    <3>1. runner' = [runner EXCEPT ![Rt(k)] = "stopped"]
      BY <2>2 DEF GiveUp, ShutDownItself, ShutDown
    <3>2. QED
      BY <2>1, <3>1 DEF OneRunner, TypeOK
  <2>3. CASE ~GiveUp(k)
    <3>1. UNCHANGED runner
      BY <1>1, <2>3 DEF TaskStep, Begin, Ask, TimeOut, Approved, SubmitOrder, ReportOrder, Finish, rtVars
    <3>2. QED
      BY <2>1, <3>1 DEF OneRunner
  <2>4. QED
    BY <2>2, <2>3
<1>2. CASE ReceiveStart
  <2>1. CASE UNCHANGED <<bringUp, running, runner>>
    BY <2>1 DEF OneRunner
  <2>2. CASE /\ running' = None
             /\ IF running = None THEN UNCHANGED runner ELSE ShutDown(running)
    BY <2>2 DEF ShutDown, OneRunner, TypeOK
  <2>3. QED
    BY <1>2, <2>1, <2>2 DEF ReceiveStart
<1>3. CASE BroughtUp
  <2>1. bringUp[1].run \in Runtimes /\ running = None
    <3>1. bringUp[1] \in StartMsgs
      BY <1>3 DEF BroughtUp, TypeOK
    <3>2. running = None
      BY <1>3 DEF BroughtUp
    <3>3. QED
      BY <3>1, <3>2 DEF StartMsgs
  <2>2. bringUp' = <<>>
    BY <1>3 DEF BroughtUp
  <2>3. \A r \in Runtimes : runner[r] # "running"
    BY <1>n, <2>1 DEF OneRunner
  <2>4. CASE running' = bringUp[1].run /\ runner' = [runner EXCEPT ![bringUp[1].run] = "running"]
    BY <2>2, <2>3, <2>4 DEF OneRunner, TypeOK
  <2>5. CASE UNCHANGED <<running, runner>>
    BY <2>2, <2>5 DEF OneRunner
  <2>6. QED
    BY <1>3, <2>4, <2>5 DEF BroughtUp
<1>4. CASE ReceiveStop
  <2>1. running' = None /\ (running = None => UNCHANGED runner)
        /\ (running # None => runner' = [runner EXCEPT ![running] = "stopped"])
    BY <1>4 DEF ReceiveStop, ShutDown
  <2>2. QED
    BY <2>1 DEF OneRunner, TypeOK
<1>5. CASE \/ SendStart \/ SendStop \/ SendTick \/ CoordinatorReceives \/ Lose
           \/ ReceiveTick \/ ReceiveResponse \/ Exhausted \/ UNCHANGED vars
  <2>1. UNCHANGED <<running, bringUp, runner>>
    BY <1>5 DEF SendStart, SendStop, SendTick, CoordinatorReceives, Lose, ReceiveTick,
                ReceiveResponse, Exhausted, vars, rtVars
  <2>2. QED
    BY <2>1 DEF OneRunner
<1>6. QED
  BY <1>1, <1>2, <1>3, <1>4, <1>5 DEF Next, Receive

(* When on_stop does not raise, no second runner of a deployment runs      *)
(* beside the one that start and stop act on.                              *)
THEOREM NeverTwoRunners ==
  ASSUME "on_stop" \notin Raises PROVE Spec => []OneRunner
<1> DEFINE Inv == TypeOK /\ Shape /\ RunnerInv
<1>1. Init => Inv
  <2> SUFFICES ASSUME Init PROVE RunnerInv
    BY TypeInit
  <2>1. QED
    BY DEF Init, RunnerInv, OneRunner
<1>2. Inv /\ [Next]_vars => Inv'
  BY TypeStep, RunnerStep
<1>3. Inv => OneRunner
  BY DEF RunnerInv
<1>4. QED
  BY <1>1, <1>2, <1>3, PTL DEF Spec

-----------------------------------------------------------------------------
(* What gave up is down.                                                   *)

(* A runner exists from the moment its run was brought up: the registered  *)
(* one and the tasks' ones do, and later runs' do not.                     *)
Named ==
  /\ running # None => runner[running] # "none"
  /\ \A k \in Ticks : ~At(k, "none") => runner[Rt(k)] # "none"
  /\ \A r \in Runtimes : runs < r => runner[r] = "none"

(* A start on its way or being brought up is the first for its run.        *)
Queued ==
  /\ \A a \in 1..Len(toWorker) :
       toWorker[a].type = "start" => toWorker[a].run <= runs /\ runner[toWorker[a].run] = "none"
  /\ \A a, b \in 1..Len(toWorker) :
       a < b /\ toWorker[a].type = "start" /\ toWorker[b].type = "start"
         => toWorker[a].run < toWorker[b].run
  /\ bringUp # <<>> =>
       /\ bringUp[1].run <= runs /\ runner[bringUp[1].run] = "none"
       /\ \A a \in 1..Len(toWorker) :
            toWorker[a].type = "start" => bringUp[1].run < toWorker[a].run

(* No task of a runtime that gave up is past the check of its runner.      *)
Down ==
  \A r \in gaveUp :
    /\ runner[r] = "stopped"
    /\ \A k \in Ticks : Rt(k) = r => task[k].pc \in {"none", "waiting", "giveup", "done"}

SameNames == \A r \in Runtimes : runner'[r] = "none" <=> runner[r] = "none"

LEMMA StartRuns ==
  ASSUME TypeOK
  PROVE  /\ \A a \in 1..Len(toWorker) : toWorker[a].type = "start" => toWorker[a].run \in Runtimes
         /\ bringUp # <<>> => bringUp[1].run \in Runtimes
<1>1. \A x \in ToWorker : x.type = "start" => x.run \in Runtimes
  BY DEF ToWorker, StartMsgs
<1>2. \A a \in 1..Len(toWorker) : toWorker[a] \in ToWorker
  BY DEF TypeOK
<1>3. bringUp # <<>> => bringUp[1] \in StartMsgs
  BY DEF TypeOK
<1>4. QED
  BY <1>1, <1>2, <1>3 DEF StartMsgs

(* What the queue's operations do to Queued. *)
LEMMA SameQueue ==
  ASSUME TypeOK, Queued, SameNames, UNCHANGED <<toWorker, bringUp, runs>>
  PROVE  Queued'
BY StartRuns DEF Queued, SameNames

LEMMA AppendQueued ==
  ASSUME TypeOK, Queued, SameNames, UNCHANGED bringUp,
         NEW m \in ToWorker, toWorker' = Append(toWorker, m),
         \/ m.type # "start" /\ UNCHANGED runs
         \/ m.type = "start" /\ m.run = runs + 1 /\ runs' = runs + 1 /\ runner[runs + 1] = "none"
            /\ runs + 1 \in Runtimes
  PROVE  Queued'
<1>1. /\ Len(toWorker') = Len(toWorker) + 1
      /\ toWorker'[Len(toWorker) + 1] = m
      /\ \A a \in 1..Len(toWorker) : toWorker'[a] = toWorker[a]
      /\ Len(toWorker) \in Nat
  BY DEF TypeOK
<1>2. \A a \in 1..Len(toWorker') : a \in 1..Len(toWorker) \/ a = Len(toWorker) + 1
  BY <1>1
<1>3. runs \in Nat /\ runs' \in Nat /\ runs <= runs' /\ Runtimes \subseteq Nat
  BY ConstantsAssumption DEF TypeOK, Runtimes
<1>4. m.type = "start" => m.run \in Nat /\ runner'[m.run] = "none" /\ m.run <= runs' /\ runs < m.run
  BY <1>3 DEF SameNames
<1>5. \A a \in 1..Len(toWorker) : toWorker[a].type = "start" =>
        toWorker[a].run \in Nat /\ toWorker[a].run <= runs /\ toWorker[a].run <= runs'
        /\ runner'[toWorker[a].run] = "none"
  <2> SUFFICES ASSUME NEW a \in 1..Len(toWorker), toWorker[a].type = "start"
               PROVE  toWorker[a].run \in Nat /\ toWorker[a].run <= runs /\ toWorker[a].run <= runs'
                      /\ runner'[toWorker[a].run] = "none"
    OBVIOUS
  <2>1. toWorker[a].run \in Runtimes
    BY StartRuns
  <2>2. toWorker[a].run <= runs /\ runner[toWorker[a].run] = "none"
    BY DEF Queued
  <2>3. runner'[toWorker[a].run] = "none"
    BY <2>1, <2>2 DEF SameNames
  <2>4. toWorker[a].run \in Nat
    BY <1>3, <2>1
  <2>5. QED
    BY <1>3, <2>2, <2>3, <2>4
<1>6. bringUp # <<>> =>
        bringUp[1].run \in Nat /\ bringUp[1].run <= runs /\ bringUp[1].run <= runs'
        /\ runner'[bringUp[1].run] = "none"
  <2> SUFFICES ASSUME bringUp # <<>>
               PROVE  bringUp[1].run \in Nat /\ bringUp[1].run <= runs /\ bringUp[1].run <= runs'
                      /\ runner'[bringUp[1].run] = "none"
    OBVIOUS
  <2>1. bringUp[1].run \in Runtimes
    BY StartRuns
  <2>2. bringUp[1].run <= runs /\ runner[bringUp[1].run] = "none"
    BY DEF Queued
  <2>3. runner'[bringUp[1].run] = "none"
    BY <2>1, <2>2 DEF SameNames
  <2>4. bringUp[1].run \in Nat
    BY <1>3, <2>1
  <2>5. QED
    BY <1>3, <2>2, <2>3, <2>4
<1>7. \A a \in 1..Len(toWorker') : toWorker'[a].type = "start" =>
        toWorker'[a].run <= runs' /\ runner'[toWorker'[a].run] = "none"
  <2> SUFFICES ASSUME NEW a \in 1..Len(toWorker'), toWorker'[a].type = "start"
               PROVE  toWorker'[a].run <= runs' /\ runner'[toWorker'[a].run] = "none"
    OBVIOUS
  <2>1. CASE a = Len(toWorker) + 1
    BY <1>1, <1>4, <2>1
  <2>2. CASE a \in 1..Len(toWorker)
    BY <1>1, <1>5, <2>2
  <2>3. QED
    BY <1>2, <2>1, <2>2
<1>8. \A a, b \in 1..Len(toWorker') :
        a < b /\ toWorker'[a].type = "start" /\ toWorker'[b].type = "start"
          => toWorker'[a].run < toWorker'[b].run
  <2> SUFFICES ASSUME NEW a \in 1..Len(toWorker'), NEW b \in 1..Len(toWorker'), a < b,
                      toWorker'[a].type = "start", toWorker'[b].type = "start"
               PROVE  toWorker'[a].run < toWorker'[b].run
    OBVIOUS
  <2>1. a \in 1..Len(toWorker)
    BY <1>1
  <2>2. CASE b = Len(toWorker) + 1
    <3>1. toWorker'[a].run \in Nat /\ toWorker'[a].run <= runs
      BY <1>1, <1>5, <2>1
    <3>2. toWorker'[b].run \in Nat /\ runs < toWorker'[b].run
      BY <1>1, <1>4, <2>2
    <3>3. QED
      BY SMTT(30), <1>3, <3>1, <3>2
  <2>3. CASE b \in 1..Len(toWorker)
    BY <1>1, <2>1, <2>3 DEF Queued
  <2>4. QED
    BY <1>2, <2>2, <2>3
<1>9. bringUp # <<>> => \A a \in 1..Len(toWorker') :
        toWorker'[a].type = "start" => bringUp[1].run < toWorker'[a].run
  <2> SUFFICES ASSUME bringUp # <<>>, NEW a \in 1..Len(toWorker'), toWorker'[a].type = "start"
               PROVE  bringUp[1].run < toWorker'[a].run
    OBVIOUS
  <2>1. CASE a = Len(toWorker) + 1
    <3>1. toWorker'[a].run \in Nat /\ runs < toWorker'[a].run
      BY <1>1, <1>4, <2>1
    <3>2. QED
      BY <1>3, <1>6, <3>1
  <2>2. CASE a \in 1..Len(toWorker)
    BY <1>1, <2>2 DEF Queued
  <2>3. QED
    BY <1>2, <2>1, <2>2
<1>10. bringUp' = bringUp
  OBVIOUS
<1>11. QED
  BY <1>6, <1>7, <1>8, <1>9, <1>10 DEF Queued

LEMMA TailQueued ==
  ASSUME TypeOK, Queued, SameNames, UNCHANGED runs, toWorker # <<>>, toWorker' = Tail(toWorker),
         bringUp = <<>>,
         \/ bringUp' = <<>>
         \/ Head(toWorker).type = "start" /\ bringUp' = <<Head(toWorker)>>
  PROVE  Queued'
<1>1. /\ Len(toWorker) \in Nat \ {0}
      /\ Len(toWorker') = Len(toWorker) - 1
      /\ \A a \in 1..Len(toWorker') : toWorker'[a] = toWorker[a + 1] /\ a + 1 \in 1..Len(toWorker)
      /\ Head(toWorker) = toWorker[1] /\ 1 \in 1..Len(toWorker)
  BY DEF TypeOK
<1>2. \A a \in 1..Len(toWorker') : 1 < a + 1
  BY <1>1
<1>3. \A a, b \in 1..Len(toWorker') : a < b => a + 1 < b + 1
  BY <1>1
<1>4. \A a \in 1..Len(toWorker) : toWorker[a].type = "start" =>
        toWorker[a].run <= runs' /\ runner'[toWorker[a].run] = "none"
  BY StartRuns DEF Queued, SameNames
<1>5. \A a, b \in 1..Len(toWorker) :
        a < b /\ toWorker[a].type = "start" /\ toWorker[b].type = "start"
          => toWorker[a].run < toWorker[b].run
  BY DEF Queued
<1>6. bringUp' # <<>> => bringUp'[1] = toWorker[1] /\ toWorker[1].type = "start"
  BY <1>1
<1>7. QED
  BY <1>1, <1>2, <1>3, <1>4, <1>5, <1>6 DEF Queued

DownInv == Named /\ Queued /\ Down

(* A step of a task: only one that gives up touches a runner, and then no  *)
(* other task of the runtime is past the check, for ticks are in order.    *)
LEMMA TaskKeepsDown ==
  ASSUME "on_stop" \notin Raises, TypeOK, Shape, TicksInOrder, DownInv, NEW k \in Ticks, TaskStep(k)
  PROVE  DownInv'
<1> USE DEF At, Rt
<1>1. Moves(k) /\ UNCHANGED <<runs, toWorker, running, bringUp>>
  BY TaskSteps DEF coordVars
<1>2. /\ \A j \in Ticks : task'[j].runtime = task[j].runtime
      /\ \A j \in Ticks : task'[j].pc # "none" <=> task[j].pc # "none"
  BY <1>1 DEF Moves
<1>3. CASE GiveUp(k)
  <2>1. task[k].pc = "giveup" /\ task[k].runtime \in Runtimes
    BY <1>3 DEF GiveUp, Shape
  <2>2. runner' = [runner EXCEPT ![task[k].runtime] = "stopped"]
    BY <1>3 DEF GiveUp, ShutDownItself, ShutDown
  <2>3. runner[task[k].runtime] # "none"
    BY <2>1 DEF DownInv, Named
  <2>4. SameNames
    BY <2>1, <2>2, <2>3 DEF SameNames, TypeOK
  <2>5. Queued'
    BY <1>1, <2>4, SameQueue DEF DownInv
  <2>6. Named'
    BY SMTT(30), <1>1, <1>2, <2>1, <2>2 DEF DownInv, Named, TypeOK
  <2>7. \A j \in Ticks : task'[j].pc \in {"none", "waiting", "giveup", "done"}
    <3> SUFFICES ASSUME NEW j \in Ticks PROVE task'[j].pc \in {"none", "waiting", "giveup", "done"}
      OBVIOUS
    <3>1. CASE j = k
      BY <1>3, <3>1 DEF GiveUp, Goto, TypeOK
    <3>2. CASE j \in 1..(k - 1)
      <4>1. task[j].pc \in {"none", "done"}
        BY <2>1, <3>2 DEF TicksInOrder
      <4>2. j # k
        BY <2>1, <4>1
      <4>3. QED
        BY <1>1, <4>1, <4>2 DEF Moves
    <3>3. CASE k \in 1..(j - 1)
      <4>1. j # k
        BY <3>3, ConstantsAssumption DEF Ticks
      <4>2. task[j].pc \in {"none", "waiting"}
        BY <2>1, <3>3 DEF TicksInOrder
      <4>3. QED
        BY <1>1, <4>1, <4>2 DEF Moves
    <3>4. j = k \/ j \in 1..(k - 1) \/ k \in 1..(j - 1)
      BY ConstantsAssumption DEF Ticks
    <3>5. QED
      BY <3>1, <3>2, <3>3, <3>4
  <2>8. gaveUp' = gaveUp \cup {task[k].runtime}
    BY <1>3 DEF GiveUp
  <2>9. Down'
    <3>1. \A r \in gaveUp' : runner'[r] = "stopped"
      BY <2>1, <2>2, <2>8 DEF DownInv, Down, TypeOK
    <3>2. QED
      BY <2>7, <3>1 DEF Down
  <2>10. QED
    BY <2>5, <2>6, <2>9 DEF DownInv
<1>4. CASE ~GiveUp(k)
  <2>1. UNCHANGED <<runner, gaveUp>>
    BY <1>4 DEF TaskStep, Begin, Ask, TimeOut, Approved, SubmitOrder, ReportOrder, Finish, rtVars
  <2>2. SameNames
    BY <2>1 DEF SameNames
  <2>3. Queued'
    BY <1>1, <2>2, SameQueue DEF DownInv
  <2>4. Named'
    BY <1>1, <1>2, <2>1 DEF DownInv, Named
  <2>5. task[k].runtime \in gaveUp => task'[k].pc \in {"giveup", "done"}
    <3> SUFFICES ASSUME task[k].runtime \in gaveUp PROVE task'[k].pc \in {"giveup", "done"}
      OBVIOUS
    <3>1. task[k].pc \in {"none", "waiting", "giveup", "done"} /\ runner[task[k].runtime] = "stopped"
      BY DEF DownInv, Down
    <3>2. Begin(k)
      BY <1>4, <3>1 DEF TaskStep, Ask, TimeOut, Approved, SubmitOrder, ReportOrder, Finish
    <3>3. Fail(k)
      BY <3>1, <3>2 DEF Begin
    <3>4. Rt(k) \in Runtimes
      BY <3>2 DEF Begin, MyTurn, Shape
    <3>5. Goto(k, "done") \/ Goto(k, "giveup")
      BY <3>3, <3>4, FailType
    <3>6. QED
      BY <3>5 DEF Goto, TypeOK
  <2>6. Down'
    BY <1>1, <1>2, <2>1, <2>5 DEF DownInv, Down, Moves
  <2>7. QED
    BY <2>3, <2>4, <2>6 DEF DownInv
<1>5. QED
  BY <1>3, <1>4

(* The other steps: only bring_up makes a runner run, one that is new.     *)
LEMMA OthersKeepDown ==
  ASSUME "on_stop" \notin Raises, TypeOK, Shape, DownInv, [Next]_vars, \A k \in Ticks : ~TaskStep(k)
  PROVE  DownInv'
<1> USE DEF At, Rt
<1>i. Named /\ Queued /\ Down
  BY DEF DownInv
<1>s. UNCHANGED runner => SameNames
  BY DEF SameNames
<1>d. UNCHANGED <<runner, task, gaveUp>> => Down'
  BY DEF DownInv, Down
<1>n. UNCHANGED <<runner, task, running, runs>> => Named'
  BY DEF DownInv, Named
<1>1. CASE SendStart
  <2>1. runs + 1 \in Runtimes /\ persisted \in Nat /\ runs < runs + 1
    BY <1>1, ConstantsAssumption DEF SendStart, TypeOK, Runtimes
  <2>2. runner[runs + 1] = "none"
    BY <2>1 DEF DownInv, Named
  <2>3. /\ Start(runs + 1, persisted) \in ToWorker
        /\ Start(runs + 1, persisted).type = "start" /\ Start(runs + 1, persisted).run = runs + 1
    BY <2>1, Messages DEF Start
  <2>4. Queued'
    BY <1>1, <1>i, <1>s, <2>1, <2>2, <2>3, AppendQueued DEF SendStart, rtVars
  <2>5. Named'
    <3>1. \A r \in Runtimes : runs + 1 < r => runs < r
      BY ConstantsAssumption DEF TypeOK, Runtimes
    <3>2. QED
      BY <1>1, <1>i, <3>1 DEF SendStart, Named, rtVars, tickVars
  <2>6. QED
    BY <1>1, <1>d, <2>4, <2>5 DEF SendStart, DownInv, rtVars, tickVars
<1>2. CASE SendStop
  <2>1. Stop \in ToWorker /\ Stop.type = "stop"
    BY Messages DEF Stop
  <2>2. Queued'
    BY <1>2, <1>i, <1>s, <2>1, AppendQueued DEF SendStop, rtVars
  <2>3. QED
    BY <1>2, <1>d, <1>n, <2>2 DEF SendStop, DownInv, rtVars, tickVars
<1>3. CASE SendTick
  <2>1. sent + 1 \in Ticks
    BY <1>3, ConstantsAssumption DEF SendTick, TypeOK, Ticks
  <2>2. Tick(sent + 1) \in ToWorker /\ Tick(sent + 1).type = "tick"
    BY <2>1, Messages DEF Tick
  <2>3. Queued'
    BY <1>3, <1>i, <1>s, <2>2, AppendQueued DEF SendTick, rtVars
  <2>4. QED
    BY <1>3, <1>d, <1>n, <2>3 DEF SendTick, DownInv, rtVars, tickVars
<1>4. CASE CoordinatorReceives
  <2> DEFINE m == Head(toCoord)
  <2>1. m \in ToCoord
    BY <1>4, TailType DEF CoordinatorReceives, TypeOK
  <2>2. m.type = "signal_request" => Response(m.signal) \in ToWorker /\ Response(m.signal).type # "start"
    BY <2>1, Messages DEF ToCoord, Response
  <2>h. Handle(m)
    BY <1>4 DEF CoordinatorReceives
  <2> HIDE DEF m
  <2>3. UNCHANGED <<runs, runner, running, bringUp, task, gaveUp>>
    BY <1>4 DEF CoordinatorReceives, rtVars, tickVars
  <2>4. CASE UNCHANGED toWorker
    BY <1>i, <1>s, <1>d, <1>n, <2>3, <2>4, SameQueue DEF DownInv
  <2>5. CASE m.type = "signal_request" /\ toWorker' = Append(toWorker, Response(m.signal))
    BY <1>i, <1>s, <1>d, <1>n, <2>2, <2>3, <2>5, AppendQueued DEF DownInv
  <2>6. QED
    BY <2>h, <2>4, <2>5 DEF Handle
<1>5. CASE Lose
  <2>1. UNCHANGED <<runs, runner, running, bringUp, task, gaveUp>> /\ toWorker' = <<>>
    BY <1>5 DEF Lose, coordVars, rtVars, tickVars
  <2>2. Queued'
    BY <1>i, <2>1 DEF Queued
  <2>3. QED
    BY <1>d, <1>n, <2>1, <2>2 DEF DownInv
<1>6. CASE ReceiveStart
  <2>1. \/ UNCHANGED <<running, runner>>
        \/ running' = None /\ running = None /\ UNCHANGED runner
        \/ running' = None /\ running \in Runtimes /\ runner' = [runner EXCEPT ![running] = "stopped"]
    BY <1>6 DEF ReceiveStart, ShutDown, TypeOK
  <2>2. UNCHANGED <<runs, task, gaveUp>>
    BY <1>6 DEF ReceiveStart, coordVars, tickVars
  <2>3. SameNames
    <3>1. running \in Runtimes => runner[running] # "none"
      BY <1>i DEF Named, None, Runtimes
    <3>2. QED
      BY <1>s, <2>1, <3>1 DEF SameNames, TypeOK
  <2>4. /\ toWorker # <<>> /\ toWorker' = Tail(toWorker) /\ bringUp = <<>>
        /\ Head(toWorker).type = "start"
        /\ bringUp' = <<>> \/ bringUp' = <<Head(toWorker)>>
    BY <1>6 DEF ReceiveStart, Reads
  <2>5. Queued'
    BY <1>i, <2>2, <2>3, <2>4, TailQueued
  <2>6. Named'
    BY <1>i, <2>1, <2>2, <2>3 DEF Named, SameNames, Shape, TypeOK
  <2>7. Down'
    BY <1>i, <2>1, <2>2 DEF Down, TypeOK
  <2>8. QED
    BY <2>5, <2>6, <2>7 DEF DownInv
<1>7. CASE ReceiveStop
  <2>1. /\ running' = None
        /\ \/ running = None /\ UNCHANGED runner
           \/ running \in Runtimes /\ runner' = [runner EXCEPT ![running] = "stopped"]
    BY <1>7 DEF ReceiveStop, ShutDown, TypeOK
  <2>2. UNCHANGED <<runs, bringUp, task, gaveUp>>
    BY <1>7 DEF ReceiveStop, coordVars
  <2>3. SameNames
    <3>1. running \in Runtimes => runner[running] # "none"
      BY <1>i DEF Named, None, Runtimes
    <3>2. QED
      BY <1>s, <2>1, <3>1 DEF SameNames, TypeOK
  <2>4. toWorker # <<>> /\ toWorker' = Tail(toWorker) /\ bringUp = <<>>
    BY <1>7 DEF ReceiveStop, Reads
  <2>5. Queued'
    BY <1>i, <2>2, <2>3, <2>4, TailQueued
  <2>6. Named'
    BY <1>i, <2>1, <2>2, <2>3 DEF Named, SameNames, Shape, TypeOK
  <2>7. Down'
    BY <1>i, <2>1, <2>2 DEF Down, TypeOK
  <2>8. QED
    BY <2>5, <2>6, <2>7 DEF DownInv
<1>8. CASE ReceiveTick
  <2> DEFINE k == Head(toWorker).tick
  <2>1. Head(toWorker) \in ToWorker /\ Head(toWorker).type = "tick"
    BY <1>8, TailType DEF ReceiveTick, Reads, TypeOK
  <2>2. k \in Ticks
    BY <2>1 DEF ToWorker, StartMsgs
  <2>3. UNCHANGED <<runs, runner, running, bringUp, gaveUp>>
    BY <1>8 DEF ReceiveTick, coordVars, rtVars
  <2>4. Queued'
    <3>1. toWorker # <<>> /\ toWorker' = Tail(toWorker) /\ bringUp = <<>>
      BY <1>8 DEF ReceiveTick, Reads
    <3>2. QED
      BY <1>i, <1>s, <2>3, <3>1, TailQueued
  <2>5. CASE running = None
    BY <1>8, <1>d, <1>n, <2>3, <2>4, <2>5 DEF ReceiveTick, DownInv
  <2>6. CASE running # None
    <3> DEFINE new == TaskFor("waiting", running, tail)
    <3>1. new.pc = "waiting" /\ new.runtime = running
      BY DEF TaskFor
    <3>2. task' = [task EXCEPT ![k] = new]
      BY <1>8, <2>6 DEF ReceiveTick
    <3> HIDE DEF new, k
    <3>3. /\ task'[k].pc = "waiting" /\ task'[k].runtime = running
          /\ \A j \in Ticks \ {k} : task'[j] = task[j]
      BY <2>2, <3>1, <3>2 DEF TypeOK
    <3>4. Named'
      BY <1>i, <2>3, <2>6, <3>3 DEF Named
    <3>5. Down'
      BY <1>i, <2>3, <3>3 DEF Down
    <3>6. QED
      BY <2>4, <3>4, <3>5 DEF DownInv
  <2>7. QED
    BY <2>5, <2>6
<1>9. CASE ReceiveResponse
  <2>1. UNCHANGED <<runs, runner, running, bringUp, gaveUp>>
    BY <1>9 DEF ReceiveResponse, coordVars, rtVars
  <2>2. \A j \in Ticks : task'[j].pc = task[j].pc /\ task'[j].runtime = task[j].runtime
    <3>1. CASE pending = <<>>
      BY <1>9, <3>1 DEF ReceiveResponse
    <3>2. CASE pending # <<>>
      <4>1. task' = [task EXCEPT ![Head(pending)].answer = Head(toWorker).signal]
        BY <1>9, <3>2 DEF ReceiveResponse
      <4>2. QED
        BY <4>1 DEF TypeOK
    <3>3. QED
      BY <3>1, <3>2
  <2>3. Queued'
    <3>1. toWorker # <<>> /\ toWorker' = Tail(toWorker) /\ bringUp = <<>>
      BY <1>9 DEF ReceiveResponse, Reads
    <3>2. QED
      BY <1>i, <1>s, <2>1, <3>1, TailQueued
  <2>4. QED
    BY <1>i, <2>1, <2>2, <2>3 DEF DownInv, Named, Down
<1>10. CASE BroughtUp
  <2> DEFINE r0 == bringUp[1].run
  <2>1. r0 \in Runtimes /\ bringUp # <<>> /\ bringUp' = <<>>
    BY <1>10, StartRuns DEF BroughtUp
  <2>2. /\ runner[r0] = "none" /\ r0 <= runs
        /\ \A a \in 1..Len(toWorker) : toWorker[a].type = "start" => r0 < toWorker[a].run
    BY <1>i, <2>1 DEF Queued
  <2>3. UNCHANGED <<runs, toWorker, task, gaveUp>>
    BY <1>10 DEF BroughtUp, coordVars, tickVars
  <2>4. CASE running' = r0 /\ runner' = [runner EXCEPT ![r0] = "running"]
    <3> HIDE DEF r0
    <3>1. \A r \in Runtimes : runs < r => r # r0
      BY <2>2, ConstantsAssumption DEF TypeOK, Runtimes
    <3>2. \A r \in Runtimes : r0 < r => r # r0
      BY ConstantsAssumption DEF Runtimes
    <3>3. Named'
      BY <1>i, <2>1, <2>3, <2>4, <3>1 DEF Named, TypeOK, Shape
    <3>4. Queued'
      BY <1>i, <2>1, <2>2, <2>3, <2>4, <3>2, StartRuns DEF Queued, TypeOK
    <3>5. Down'
      BY <1>i, <2>2, <2>3, <2>4 DEF Down, TypeOK
    <3>6. QED
      BY <3>3, <3>4, <3>5 DEF DownInv
  <2>5. CASE UNCHANGED <<running, runner>>
    <3>1. Queued'
      BY <1>i, <2>1, <2>3, <2>5 DEF Queued
    <3>2. QED
      BY <1>d, <1>n, <2>3, <2>5, <3>1 DEF DownInv
  <2>6. QED
    BY <1>10, <2>4, <2>5 DEF BroughtUp
<1>11. CASE Exhausted \/ UNCHANGED vars
  <2>1. UNCHANGED <<runs, runner, running, bringUp, toWorker, task, gaveUp>>
    BY <1>11 DEF Exhausted, vars, coordVars, rtVars, tickVars
  <2>2. QED
    BY <1>i, <1>s, <1>d, <1>n, <2>1, SameQueue DEF DownInv
<1>12. QED
  BY <1>1, <1>2, <1>3, <1>4, <1>5, <1>6, <1>7, <1>8, <1>9, <1>10, <1>11 DEF Next, Receive

(* When on_stop does not raise, a runtime that reported MaxFailures        *)
(* failures in a row and was shut down submits no order ever again: not    *)
(* from the ticks that were chained behind, and not after a new start.     *)
THEOREM GivenUpStaysDown ==
  ASSUME "on_stop" \notin Raises PROVE Spec => GivenUpIsDown
<1> DEFINE Inv == TypeOK /\ Shape /\ OrderInv /\ DownInv
<1>1. Init => Inv
  <2> SUFFICES ASSUME Init PROVE OrderInv /\ DownInv
    BY TypeInit
  <2>1. \A k \in Ticks : task[k].pc = "none"
    BY DEF Init, TaskFor
  <2>2. tail = 0 /\ sent = 0 /\ Len(toWorker) = 0
    BY DEF Init, None
  <2>3. OrderInv
    BY <2>1, <2>2 DEF OrderInv, Arriving, Chain, TicksInOrder, At
  <2>4. DownInv
    BY <2>1, <2>2 DEF Init, DownInv, Named, Queued, Down, At
  <2>5. QED
    BY <2>3, <2>4
<1>2. Inv /\ [Next]_vars => Inv'
  <2> SUFFICES ASSUME Inv, [Next]_vars PROVE OrderInv' /\ DownInv'
    BY TypeStep
  <2>1. OrderInv'
    BY TaskKeepsOrder, OthersKeepOrder
  <2>2. DownInv'
    BY TaskKeepsDown, OthersKeepDown DEF OrderInv
  <2>3. QED
    BY <2>1, <2>2
<1>3. Inv => \A k \in Ticks : At(k, "order") => Rt(k) \notin gaveUp
  BY DEF DownInv, Down, At
<1>4. (\A k \in Ticks : At(k, "order") => Rt(k) \notin gaveUp)
        => [\A k \in Ticks : At(k, "order") /\ task'[k].pc = "report" => Rt(k) \notin gaveUp]_vars
  OBVIOUS
<1>5. QED
  BY <1>1, <1>2, <1>3, <1>4, PTL DEF Spec, GivenUpIsDown
=============================================================================
