--------------------------- MODULE TickExecution ---------------------------
(***************************************************************************)
(* One deployment on one worker connection: the chain of tick tasks, the   *)
(* approval of signals, the orders, the failure counter, the checkpoints,  *)
(* and the start and stop messages that interleave with them.              *)
(*                                                                         *)
(* worker/agent.py handles one message at a time, but every tick runs in a *)
(* task of its own; a task is cut where it waits for its predecessor, for  *)
(* an approval, or for a send.  What start and stop do to the database is  *)
(* in ControlPlane; here they only produce messages in an order the        *)
(* coordinator allows.                                                     *)
(***************************************************************************)
EXTENDS Naturals, Sequences

CONSTANTS
  MaxTicks,      \* bound: ticks the scheduler sends
  MaxRuntimes,   \* bound: runs the coordinator starts
  MaxSignals,    \* bound: signals one tick returns
  MaxLegs,       \* bound: legs of a signal
  MaxFailures,   \* MAX_CONSECUTIVE_FAILURES
  Raises,        \* what may raise: a subset of Callbacks
  Timeouts,      \* 30 s may pass before an approval arrives
  Losses         \* the connection may be lost

Callbacks == {"bring_up", "on_tick", "on_stop", "submit_order"}

ASSUME ConstantsAssumption ==
  /\ {MaxTicks, MaxRuntimes, MaxSignals, MaxLegs} \subseteq Nat
  /\ MaxFailures \in Nat \ {0}
  /\ Raises \subseteq Callbacks
  /\ Timeouts \in BOOLEAN /\ Losses \in BOOLEAN

Ticks == 1..MaxTicks
Runtimes == 1..MaxRuntimes
None == 0          \* no runtime, no tick, no request

VARIABLES
  \* Coordinator
  status,     \* AlgorithmInstance.status, "live" for starting and running
  persisted,  \* AlgorithmInstance.persisted_state
  sent,       \* ticks sent so far
  runs,       \* runs started so far; a run is named by its number
  \* Connection
  link, toWorker, toCoord,
  \* Worker
  running,    \* WorkerAgent._running_instances[instance]
  bringUp,    \* the start_instance whose bring_up the receive loop awaits
  runner,     \* RunnerState of each runtime
  memory,     \* the algorithm's state: how often it was called back
  fails,      \* _consecutive_failures of each runtime
  tail,       \* _instance_tick_tails[instance]
  task,       \* the task of each tick
  pending,    \* _pending_signal_responses[instance]: ticks that wait
  \* History
  saved,      \* the last state handed to send_state_checkpoint
  gaveUp      \* runtimes that reported MaxFailures failures in a row

coordVars == <<status, persisted, sent, runs>>
rtVars    == <<running, bringUp, runner, memory, fails>>
tickVars  == <<tail, task, pending, gaveUp>>
vars == <<coordVars, link, toWorker, toCoord, rtVars, tickVars, saved>>

TaskPC == {"none", "waiting", "ask", "await", "order", "report", "finish", "giveup", "done"}
TaskFor(pc, r, prev) ==
  [pc |-> pc, runtime |-> r, prev |-> prev, signals |-> 0, legs |-> 0, answer |-> <<>>]

(* A signal is named by its tick and how many signals the tick has left. *)
SignalIds == Ticks \X (0..MaxSignals)
Start(r, v) == [type |-> "start", run |-> r, state |-> v]
Stop        == [type |-> "stop"]
Tick(k)     == [type |-> "tick", tick |-> k]
Response(s) == [type |-> "signal_response", signal |-> s]
Request(s)  == [type |-> "signal_request", signal |-> s]
Checkpoint(v) == [type |-> "state_checkpoint", state |-> v]
Event(t)    == [type |-> t]

StartMsgs == [type: {"start"}, run: Runtimes, state: Nat]
ToWorker  == StartMsgs \cup [type: {"stop"}] \cup [type: {"tick"}, tick: Ticks]
             \cup [type: {"signal_response"}, signal: SignalIds]
ToCoord   == [type: {"instance_started", "instance_stopped", "instance_error"}]
             \cup [type: {"state_checkpoint"}, state: Nat]
             \cup [type: {"signal_request"}, signal: SignalIds]

TypeOK ==
  /\ status \in {"stopped", "live", "stopping", "error"}
  /\ persisted \in Nat /\ saved \in Nat
  /\ sent \in 0..MaxTicks /\ runs \in 0..MaxRuntimes
  /\ link \in {"open", "lost"}
  /\ toWorker \in Seq(ToWorker) /\ toCoord \in Seq(ToCoord)
  /\ running \in Runtimes \cup {None}
  /\ bringUp \in Seq(StartMsgs)
  /\ runner \in [Runtimes -> {"none", "running", "stopped"}]
  /\ memory \in [Runtimes -> Nat]
  /\ fails \in [Runtimes -> Nat]
  /\ tail \in Ticks \cup {None}
  /\ task \in [Ticks -> [pc: TaskPC, runtime: Runtimes \cup {None}, prev: Ticks \cup {None},
                         signals: 0..MaxSignals, legs: 0..MaxLegs, answer: SignalIds \cup {<<>>}]]
  /\ pending \in Seq(Ticks)
  /\ gaveUp \subseteq Runtimes

Init ==
  /\ status = "stopped" /\ persisted = 0 /\ saved = 0 /\ sent = 0 /\ runs = 0
  /\ link = "open" /\ toWorker = <<>> /\ toCoord = <<>>
  /\ running = None /\ bringUp = <<>>
  /\ runner = [r \in Runtimes |-> "none"]
  /\ memory = [r \in Runtimes |-> 0]
  /\ fails = [r \in Runtimes |-> 0]
  /\ tail = None
  /\ task = [k \in Ticks |-> TaskFor("none", None, None)]
  /\ pending = <<>>
  /\ gaveUp = {}

-----------------------------------------------------------------------------
(* Coordinator.  Starts and stops follow the checks of the deployments     *)
(* routes; a tick may still leave the outbound queue after the deployment  *)
(* was stopped or started again.                                           *)
SendStart ==
  /\ status \in {"stopped", "error"} /\ link = "open"
  /\ runs < MaxRuntimes
  /\ status' = "live"
  /\ runs' = runs + 1
  /\ toWorker' = Append(toWorker, Start(runs + 1, persisted))
  /\ UNCHANGED <<persisted, sent, link, toCoord, rtVars, tickVars, saved>>

SendStop ==
  /\ status = "live" /\ link = "open"
  /\ status' = "stopping"
  /\ toWorker' = Append(toWorker, Stop)
  /\ UNCHANGED <<persisted, sent, runs, link, toCoord, rtVars, tickVars, saved>>

SendTick ==
  /\ sent < MaxTicks /\ link = "open"
  /\ sent' = sent + 1
  /\ toWorker' = Append(toWorker, Tick(sent + 1))
  /\ UNCHANGED <<status, persisted, runs, link, toCoord, rtVars, tickVars, saved>>

(* handle_worker_message: one message at a time; a signal is approved. *)
Handle(m) ==
  /\ status' = CASE m.type = "instance_started" -> "live"
                 [] m.type = "instance_stopped" -> "stopped"
                 [] m.type = "instance_error"   -> "error"
                 [] OTHER -> status
  /\ persisted' = IF m.type = "state_checkpoint" THEN m.state ELSE persisted
  /\ toWorker' = IF m.type = "signal_request" /\ link = "open"
                 THEN Append(toWorker, Response(m.signal)) ELSE toWorker

CoordinatorReceives ==
  /\ toCoord # <<>>
  /\ Handle(Head(toCoord))
  /\ toCoord' = Tail(toCoord)
  /\ UNCHANGED <<sent, runs, link, rtVars, tickVars, saved>>

(* Frames on their way are lost with the connection, in both directions;   *)
(* the old agent reads no more, but the tasks it created run on.           *)
Lose ==
  /\ Losses /\ link = "open"
  /\ link' = "lost"
  /\ toWorker' = <<>>
  /\ \E n \in 0..Len(toCoord) : toCoord' = SubSeq(toCoord, 1, n)
  /\ UNCHANGED <<coordVars, rtVars, tickVars, saved>>

-----------------------------------------------------------------------------
(* Worker.  A send on a lost connection raises. *)
Post(ms) == toCoord' = IF link = "open" THEN toCoord \o ms ELSE toCoord
PostState(v, ms) == saved' = v /\ Post(<<Checkpoint(v)>> \o ms)

Reads(type) ==
  /\ link = "open" /\ bringUp = <<>> /\ toWorker # <<>>
  /\ Head(toWorker).type = type
  /\ toWorker' = Tail(toWorker)

Healthy(r) == r # None /\ runner[r] = "running" /\ fails[r] < MaxFailures

(* shut_down calls on_stop whatever the runner's state, and leaves the     *)
(* runner as it was when on_stop raises.  Mutant: a runtime that gave up   *)
(* is only forgotten.                                                      *)
OnlyForget(r) == UNCHANGED runner
ShutDown(r) ==
  \/ runner' = [runner EXCEPT ![r] = "stopped"]
  \/ "on_stop" \in Raises /\ UNCHANGED runner

(* _handle_start_instance: a healthy runtime ignores it, a zombie is shut  *)
(* down first; the receive loop then awaits bring_up.                      *)
ReceiveStart ==
  /\ Reads("start")
  /\ \/ Healthy(running) /\ UNCHANGED <<bringUp, running, runner>>
     \/ /\ ~Healthy(running)
        /\ bringUp' = <<Head(toWorker)>>
        /\ running' = None
        /\ IF running = None THEN UNCHANGED runner ELSE ShutDown(running)
  /\ UNCHANGED <<coordVars, link, toCoord, memory, fails, tickVars, saved>>

BroughtUp ==
  /\ bringUp # <<>>
  /\ bringUp' = <<>>
  /\ \/ /\ running' = bringUp[1].run
        /\ runner' = [runner EXCEPT ![bringUp[1].run] = "running"]
        /\ memory' = [memory EXCEPT ![bringUp[1].run] = bringUp[1].state]
        /\ Post(<<Event("instance_started")>>)
     \/ /\ "bring_up" \in Raises
        /\ Post(<<Event("instance_error")>>)
        /\ UNCHANGED <<running, runner, memory>>
  /\ UNCHANGED <<coordVars, link, toWorker, fails, tickVars, saved>>

(* _handle_stop_instance: the final state goes out before the answer.      *)
(* Mutant: after it.                                                       *)
StateFirst(v) == PostState(v, <<Event("instance_stopped")>>)

(* Nothing is done about its ticks.  Mutant: their chain is forgotten too. *)
ForgetChain == tail' = None
KeepChain == UNCHANGED tail

ReceiveStop ==
  /\ Reads("stop")
  /\ running' = None
  /\ KeepChain
  /\ IF running = None
     THEN Post(<<Event("instance_stopped")>>) /\ UNCHANGED <<saved, runner>>
     ELSE /\ ShutDown(running)
          /\ StateFirst(memory[running])
  /\ UNCHANGED <<coordVars, link, bringUp, memory, fails, task, pending, gaveUp>>

(* _handle_tick_batch: a task chained to the previous tick's; a tick for   *)
(* an instance that does not run is ignored.                               *)
ReceiveTick ==
  /\ Reads("tick")
  /\ LET k == Head(toWorker).tick IN
     IF running = None THEN UNCHANGED <<task, tail>>
     ELSE /\ task' = [task EXCEPT ![k] = TaskFor("waiting", running, tail)]
          /\ tail' = k
  /\ UNCHANGED <<coordVars, link, toCoord, rtVars, pending, gaveUp, saved>>

(* _handle_signal_response: the oldest request that waits gets it. *)
ReceiveResponse ==
  /\ Reads("signal_response")
  /\ IF pending = <<>> THEN UNCHANGED <<task, pending>>
     ELSE /\ task' = [task EXCEPT ![Head(pending)].answer = Head(toWorker).signal]
          /\ pending' = Tail(pending)
  /\ UNCHANGED <<coordVars, link, toCoord, rtVars, tail, gaveUp, saved>>

-----------------------------------------------------------------------------
(* The task of tick k, for the runtime the tick found. *)
Rt(k) == task[k].runtime
At(k, pc) == task[k].pc = pc
Goto(k, pc) == task' = [task EXCEPT ![k].pc = pc]
CallsBack(k) == memory' = [memory EXCEPT ![Rt(k)] = @ + 1]
Current(k) == <<k, task[k].signals>>

(* A tick that raised: one more failure, and at the limit the runtime      *)
(* reports and is about to be shut down; otherwise its state is saved.  On *)
(* a lost connection the report itself raises.                             *)
Fail(k) ==
  /\ fails' = [fails EXCEPT ![Rt(k)] = @ + 1]
  /\ IF link = "lost" THEN Goto(k, "done") /\ UNCHANGED <<toCoord, saved>>
     ELSE IF fails[Rt(k)] + 1 >= MaxFailures
     THEN Goto(k, "giveup") /\ Post(<<Event("instance_error")>>) /\ UNCHANGED saved
     ELSE Goto(k, "done") /\ PostState(memory[Rt(k)], <<>>)

(* _run_tick_entry_serialized: the previous task has ended. *)
MyTurn(k) == At(k, "waiting") /\ \A j \in Ticks : j = task[k].prev => At(j, "done")

Begin(k) ==
  /\ MyTurn(k)
  /\ \/ /\ runner[Rt(k)] = "running"
        /\ CallsBack(k)
        /\ \E n \in 0..MaxSignals :
             task' = [task EXCEPT ![k].signals = n, ![k].pc = IF n = 0 THEN "finish" ELSE "ask"]
        /\ UNCHANGED <<fails, toCoord, saved>>
     \/ /\ runner[Rt(k)] # "running" \/ "on_tick" \in Raises
        /\ Fail(k)
        /\ UNCHANGED memory
  /\ UNCHANGED <<coordVars, link, toWorker, running, bringUp, runner,
                 tail, pending, gaveUp>>

(* request_signal_approval: a future at the end of the queue, then the     *)
(* request; the activity event before it raises on a lost connection.      *)
Ask(k) ==
  /\ At(k, "ask")
  /\ \/ /\ link = "open"
        /\ task' = [task EXCEPT ![k].pc = "await", ![k].answer = <<>>]
        /\ pending' = Append(pending, k)
        /\ Post(<<Request(Current(k))>>)
        /\ UNCHANGED <<fails, saved>>
     \/ link = "lost" /\ Fail(k) /\ UNCHANGED pending
  /\ UNCHANGED <<coordVars, link, toWorker, running, bringUp, runner, memory,
                 tail, gaveUp>>

(* Mutant: one signal more than the tick returned. *)
OneTooMany(k) ==
  task' = [task EXCEPT ![k].signals = @ - 1, ![k].pc = IF task[k].signals = 0 THEN "finish" ELSE "ask"]
NextSignal(k) ==
  task' = [task EXCEPT ![k].signals = @ - 1, ![k].pc = IF task[k].signals = 1 THEN "finish" ELSE "ask"]

(* After 30 s the request is withdrawn and the signal counts as rejected.  *)
(* Mutant: it waits as long as it takes.                                   *)
NeverGivesUp(k) == FALSE
GivesUpWaiting(k) == Timeouts \/ link = "lost"

TimeOut(k) ==
  /\ At(k, "await") /\ task[k].answer = <<>>
  /\ GivesUpWaiting(k)
  /\ \E n \in 1..Len(pending) :
       pending[n] = k /\ pending' = SubSeq(pending, 1, n - 1) \o SubSeq(pending, n + 1, Len(pending))
  /\ CallsBack(k)
  /\ NextSignal(k)
  /\ UNCHANGED <<coordVars, link, toWorker, toCoord, running, bringUp, runner, fails,
                 tail, gaveUp, saved>>

Approved(k) ==
  /\ At(k, "await") /\ task[k].answer # <<>>
  /\ \E n \in 1..MaxLegs : task' = [task EXCEPT ![k].pc = "order", ![k].legs = n]
  /\ UNCHANGED <<coordVars, link, toWorker, toCoord, rtVars, tail, pending, gaveUp, saved>>

(* One leg's order, and the events that follow it; the algorithm hears of  *)
(* the trade after the last leg.                                           *)
SubmitOrder(k) ==
  /\ At(k, "order")
  /\ \/ Goto(k, "report") /\ UNCHANGED <<fails, toCoord, saved>>
     \/ "submit_order" \in Raises /\ Fail(k)
  /\ UNCHANGED <<coordVars, link, toWorker, running, bringUp, runner, memory,
                 tail, pending, gaveUp>>

ReportOrder(k) ==
  /\ At(k, "report")
  /\ \/ /\ link = "open" /\ task[k].legs > 1
        /\ task' = [task EXCEPT ![k].pc = "order", ![k].legs = @ - 1]
        /\ UNCHANGED <<memory, fails, toCoord, saved>>
     \/ /\ link = "open" /\ task[k].legs = 1
        /\ CallsBack(k)
        /\ NextSignal(k)
        /\ UNCHANGED <<fails, toCoord, saved>>
     \/ link = "lost" /\ Fail(k) /\ UNCHANGED memory
  /\ UNCHANGED <<coordVars, link, toWorker, running, bringUp, runner, tail, pending, gaveUp>>

(* The equity sample, the counter and the checkpoint. *)
Finish(k) ==
  /\ At(k, "finish")
  /\ \/ /\ link = "open"
        /\ fails' = [fails EXCEPT ![Rt(k)] = 0]
        /\ PostState(memory[Rt(k)], <<>>)
        /\ Goto(k, "done")
     \/ link = "lost" /\ Fail(k)
  /\ UNCHANGED <<coordVars, link, toWorker, running, bringUp, runner, memory,
                 tail, pending, gaveUp>>

(* Mutant: the runtime only reports. *)
LeaveRunning(r) == UNCHANGED runner
ShutDownItself(r) == ShutDown(r)

GiveUp(k) ==
  /\ At(k, "giveup")
  /\ ShutDownItself(Rt(k))
  /\ Goto(k, "done")
  /\ gaveUp' = gaveUp \cup {Rt(k)}
  /\ UNCHANGED <<coordVars, link, toWorker, toCoord, running, bringUp, memory, fails,
                 tail, pending, saved>>

-----------------------------------------------------------------------------
TaskStep(k) ==
  Begin(k) \/ Ask(k) \/ TimeOut(k) \/ Approved(k) \/ SubmitOrder(k) \/ ReportOrder(k)
  \/ Finish(k) \/ GiveUp(k)

Receive == ReceiveStart \/ ReceiveStop \/ ReceiveTick \/ ReceiveResponse

(* The bounds are reached, or the connection is gone: nothing is left. *)
Exhausted ==
  /\ sent = MaxTicks \/ link = "lost"
  /\ toWorker = <<>> /\ toCoord = <<>> /\ bringUp = <<>>
  /\ \A k \in Ticks : task[k].pc \in {"none", "done"}
  /\ UNCHANGED vars

Next ==
  \/ SendStart \/ SendStop \/ SendTick \/ CoordinatorReceives \/ Lose
  \/ Receive \/ BroughtUp
  \/ \E k \in Ticks : TaskStep(k)
  \/ Exhausted

(* Both event loops run what is ready; bring_up and the 30 s end. *)
Fairness ==
  /\ WF_vars(CoordinatorReceives) /\ WF_vars(Receive) /\ WF_vars(BroughtUp)
  /\ \A k \in Ticks : WF_vars(TaskStep(k))

Spec == Init /\ [][Next]_vars /\ Fairness

-----------------------------------------------------------------------------
(* The ticks of a deployment run one at a time and in the order they       *)
(* arrived, also across a stop and a start ("strict arrival order").       *)
TicksInOrder ==
  \A k \in Ticks : task[k].pc \notin {"none", "waiting"} =>
    \A j \in 1..(k - 1) : task[j].pc \in {"none", "done"}

(* At most one runner of the deployment is running, and it is the one that *)
(* start and stop act on: no second copy trades beside it.                 *)
OneRunner == \A r \in Runtimes : runner[r] = "running" => r = running

(* A runtime that has reported MaxFailures failures in a row submits no    *)
(* further order: the deployment shows an error and nobody trades for it.  *)
GivenUpIsDown ==
  [][\A k \in Ticks : At(k, "order") /\ task'[k].pc = "report" => Rt(k) \notin gaveUp]_vars

(* A tick that was taken up ends, even if its approval never comes. *)
EveryTickEnds == \A k \in Ticks : At(k, "waiting") ~> At(k, "done")

(* The approval a request gets is the one it asked for. *)
PairsFIFO ==
  \A k \in Ticks : At(k, "await") /\ task[k].answer # <<>> => task[k].answer = Current(k)
=============================================================================
