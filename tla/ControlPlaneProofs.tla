------------------------- MODULE ControlPlaneProofs -------------------------
(***************************************************************************)
(* Proofs about ControlPlane, for any numbers of deployments, runs,        *)
(* connections and requests and any environment of the worker.             *)
(***************************************************************************)
EXTENDS ControlPlane, TLAPS

(* Appending to, and reading from, a queue keeps it a queue of messages. *)
LEMMA SendType ==
  ASSUME TypeOK, NEW m \in ToCoord, WorkerSend(m)
  PROVE  toCoord' \in [Conns -> Seq(ToCoord)]
<1>1. CASE wconn \in Conns
  BY <1>1 DEF TypeOK, WorkerSend
<1>2. CASE wconn \notin Conns
  BY <1>2 DEF TypeOK, WorkerSend
<1>3. QED
  BY <1>1, <1>2

LEMMA ReadType ==
  ASSUME TypeOK, NEW m, Reads(m)
  PROVE  toWorker' \in [Conns -> Seq(ToWorker)]
BY DEF TypeOK, Reads

LEMMA DeliverType ==
  ASSUME TypeOK, NEW c \in Conns, NEW m \in ToWorker, Deliver(c, m)
  PROVE  toWorker' \in [Conns -> Seq(ToWorker)]
BY DEF TypeOK, Deliver

(* Closing a run writes one row, of the given deployment. *)
LEMMA EndRunType ==
  ASSUME TypeOK, NEW i \in Instances, NEW s \in RunStatus, EndRun(i, s)
  PROVE  runStatus' \in [Instances -> [Runs -> RunStatus]]
<1>1. CASE activeRun[i] = NoRun
  BY <1>1 DEF TypeOK, EndRun
<1>2. CASE activeRun[i] # NoRun
  <2>1. activeRun[i] \in Runs
    BY <1>2 DEF TypeOK
  <2>2. runStatus' = [runStatus EXCEPT ![i] = [runStatus[i] EXCEPT ![activeRun[i]] = s]]
    BY <1>2 DEF EndRun
  <2>3. [runStatus[i] EXCEPT ![activeRun[i]] = s] \in [Runs -> RunStatus]
    BY <2>1 DEF TypeOK
  <2>4. QED
    BY <2>2, <2>3 DEF TypeOK
<1>3. QED
  BY <1>1, <1>2

(* What a worker step writes keeps its type. *)
LEMMA WorkerTypes ==
  ASSUME TypeOK,
         \/ \E c \in Conns : Connect(c)
         \/ SendHeartbeat \/ Lose \/ WorkerStep
         \/ \E i \in Instances : TickFails(i) \/ LateTicksFail(i)
  PROVE  TypeOK'
<1> USE DEF TypeOK, HandlerPC
<1>m. \A t \in {"started", "stopped", "error"}, i \in Instances :
         Event(t, i) \in ToCoord /\ Heartbeat \in ToCoord
  BY DEF Event, ToCoord, Heartbeat
<1>1. ASSUME NEW c \in Conns, Connect(c) PROVE TypeOK'
  BY <1>1 DEF Connect, dbVars
<1>2. CASE SendHeartbeat
  <2>1. Heartbeat \in ToCoord
    BY DEF Heartbeat, ToCoord
  <2>2. QED
    BY <1>2, <2>1 DEF SendHeartbeat, WorkerSend, dbVars, hVars, wkVars
<1>3. CASE Lose
  BY <1>3 DEF Lose, dbVars, hVars
<1>4. ASSUME NEW m \in ToWorker, IgnoreDuplicateStart(m) PROVE TypeOK'
  BY <1>4 DEF IgnoreDuplicateStart, Reads, dbVars, hVars, wkVars
<1>5. ASSUME NEW m \in ToWorker, BringUp(m) PROVE TypeOK'
  <2>1. m.inst \in Instances /\ m.run \in Runs \cup {NoRun}
    BY DEF ToWorker
  <2>2. toWorker' \in [Conns -> Seq(ToWorker)]
    BY <1>5, ReadType DEF BringUp
  <2>3. toCoord' \in [Conns -> Seq(ToCoord)]
    BY <1>5, <1>m, <2>1, SendType DEF BringUp
  <2>4. runtime' \in [Instances -> Runs \cup {NoRun}]
    BY <1>5, <2>1 DEF BringUp
  <2>5. zombie' \subseteq Instances /\ draining' \subseteq Instances
    BY <1>5, <2>1 DEF BringUp, MayDrain
  <2>6. QED
    BY <1>5, <2>2, <2>3, <2>4, <2>5 DEF BringUp, dbVars, hVars
<1>6. ASSUME NEW m \in ToWorker, StopInstance(m) PROVE TypeOK'
  <2>1. m.inst \in Instances
    BY DEF ToWorker
  <2>2. toWorker' \in [Conns -> Seq(ToWorker)]
    BY <1>6, ReadType DEF StopInstance
  <2>3. toCoord' \in [Conns -> Seq(ToCoord)]
    BY <1>6, <1>m, <2>1, SendType DEF StopInstance, AnswerStop
  <2>4. QED
    BY <1>6, <2>1, <2>2, <2>3 DEF StopInstance, MayDrain, dbVars, hVars
<1>7. ASSUME NEW i \in Instances, TickFails(i) PROVE TypeOK'
  <2>1. toCoord' \in [Conns -> Seq(ToCoord)]
    BY <1>7, <1>m, SendType DEF TickFails
  <2>2. QED
    BY <1>7, <2>1 DEF TickFails, GiveUp, dbVars, hVars
<1>8. ASSUME NEW i \in Instances, LateTicksFail(i) PROVE TypeOK'
  BY <1>8, <1>m DEF LateTicksFail, WorkerSend, dbVars, hVars
<1>9. QED
  BY <1>1, <1>2, <1>3, <1>4, <1>5, <1>6, <1>7, <1>8 DEF WorkerStep

(* What a socket handler, the sweep or a crash writes keeps its type. *)
LEMMA CoordinatorTypes ==
  ASSUME TypeOK, (\E c \in Conns : HandlerStep(c)) \/ Sweep \/ Crash
  PROVE  TypeOK'
<1> USE DEF TypeOK, HandlerPC
<1>h. ASSUME NEW c \in Conns, HandlerStep(c) PROVE TypeOK'
  <2> USE DEF Goto, Receives, dbVars, wkVars
  <2>1. CASE HeartbeatReceive(c)
    BY <2>1 DEF HeartbeatReceive, RegisterWorker
  <2>2. CASE HeartbeatRead(c)
    BY <2>2 DEF HeartbeatRead
  <2>3. CASE HeartbeatCommit(c)
    BY <2>3 DEF HeartbeatCommit
  <2>4. CASE ReconcileSelect(c)
    <3>1. {<<i, activeRun[i]>> : i \in {j \in Instances : Reconcilable(j)}} \subseteq Instances \X Runs
      BY DEF Reconcilable
    <3>2. QED
      BY <2>4, <3>1 DEF ReconcileSelect
  <2>5. CASE ReconcileSend(c)
    <3>1. PICK p \in todo[c] :
            \/ /\ Deliver(c, StartMsg(p[1], p[2])) \/ Vanish(c)
               /\ cur' = [cur EXCEPT ![c] = p]
               /\ todo' = [todo EXCEPT ![c] = @ \ {p}]
               /\ Goto(c, "rec_sched")
            \/ /\ Raise(c)
               /\ todo' = [todo EXCEPT ![c] = {}]
               /\ Goto(c, "recv")
               /\ UNCHANGED cur
      BY <2>5 DEF ReconcileSend
    <3>2. p \in Instances \X Runs
      OBVIOUS
    <3>3. StartMsg(p[1], p[2]) \in ToWorker
      BY <3>2 DEF StartMsg, ToWorker
    <3>4. toWorker' \in [Conns -> Seq(ToWorker)]
      BY <3>1, <3>3, DeliverType DEF Vanish, Raise
    <3>5. cur' \in [Conns -> (Instances \X Runs) \cup {NoPair}]
      BY <3>1, <3>2
    <3>6. todo' \in [Conns -> SUBSET (Instances \X Runs)]
      <4> DEFINE Left == IF todo' = [todo EXCEPT ![c] = {}] THEN {} ELSE todo[c] \ {p}
      <4>1. todo \in [Conns -> SUBSET (Instances \X Runs)]
        OBVIOUS
      <4>2. Left \in SUBSET (Instances \X Runs)
        BY <4>1
      <4>3. todo' = [todo EXCEPT ![c] = Left]
        BY <3>1
      <4> HIDE DEF Left
      <4>4. QED
        BY ONLY <4>1, <4>2, <4>3
    <3>7. hpc' \in [Conns -> HandlerPC]
      BY <3>1
    <3>8. QED
      BY <2>5, <3>4, <3>5, <3>6, <3>7 DEF ReconcileSend
  <2>6. CASE ReconcileSchedule(c)
    <3>1. cur[c][2] \in Runs \cup {NoRun}
      <4>1. CASE cur[c] \in Instances \X Runs
        BY <4>1
      <4>2. CASE cur[c] = NoPair
        BY <4>2 DEF NoPair
      <4>3. QED
        BY <4>1, <4>2
    <3>2. sched' \in [Instances -> Runs \cup {NoRun}]
      BY <2>6, <3>1 DEF ReconcileSchedule, Schedule
    <3>3. QED
      BY <2>6, <3>2 DEF ReconcileSchedule
  <2>7. CASE ReconcileDone(c)
    BY <2>7 DEF ReconcileDone
  <2>8. ASSUME NEW i \in Instances,
               InstanceStarted(c, i) \/ InstanceStopped(c, i) \/ InstanceError(c, i)
        PROVE  TypeOK'
    <3>1. EndRun(i, "stopped") \/ EndRun(i, "error") => runStatus' \in [Instances -> [Runs -> RunStatus]]
      <4>1. "stopped" \in RunStatus /\ "error" \in RunStatus
        BY DEF RunStatus
      <4>2. QED
        BY <4>1, EndRunType
    <3>2. CASE InstanceStarted(c, i)
      BY <3>2 DEF InstanceStarted, InstanceStatus, hVars
    <3>3. CASE InstanceStopped(c, i)
      BY <3>1, <3>3 DEF InstanceStopped, InstanceStatus, hVars
    <3>4. CASE InstanceError(c, i)
      BY <3>1, <3>4 DEF InstanceError, ErrorStatus, InstanceStatus, hVars
    <3>5. QED
      BY <2>8, <3>2, <3>3, <3>4
  <2>9. CASE Notice(c)
    BY <2>9 DEF Notice
  <2>10. CASE DisconnectRead(c)
    BY <2>10 DEF DisconnectRead
  <2>11. CASE DisconnectCommit(c)
    BY <2>11 DEF DisconnectCommit, MarkOffline
  <2>12. CASE DropWorker(c)
    BY <2>12 DEF DropWorker
  <2>13. QED
    BY <1>h, <2>1, <2>2, <2>3, <2>4, <2>5, <2>6, <2>7, <2>8, <2>9, <2>10, <2>11, <2>12 DEF HandlerStep
<1>1. CASE Sweep
  BY <1>1, ConstantsAssumption DEF Sweep, hVars, wkVars
<1>2. CASE Crash
  BY <1>2 DEF Crash, dbVars, IdleReq, RequestPC, Request
<1>3. QED
  BY <1>h, <1>1, <1>2

(* What an HTTP request writes keeps its type. *)
LEMMA NewRunType ==
  ASSUME TypeOK, NEW i \in Instances, NEW r \in Runs, NewRun(i, r)
  PROVE  /\ runStatus' \in [Instances -> [Runs -> RunStatus]]
         /\ status' \in [Instances -> InstanceStatus]
         /\ activeRun' \in [Instances -> Runs \cup {NoRun}]
<1>1. runStatus' = [runStatus EXCEPT ![i] = [runStatus[i] EXCEPT ![r] = "running"]]
  BY DEF NewRun
<1>2. [runStatus[i] EXCEPT ![r] = "running"] \in [Runs -> RunStatus]
  BY DEF TypeOK, RunStatus
<1>3. QED
  BY <1>1, <1>2 DEF TypeOK, NewRun, InstanceStatus

(* Moving a request on, and ending it, keep the table of requests typed. *)
LEMMA RequestUpdates ==
  ASSUME TypeOK, NEW u \in Requests
  PROVE  /\ Done(u) => req' \in [Requests -> Request]
         /\ \A pc \in RequestPC : Step(u, pc) => req' \in [Requests -> Request]
         /\ \A pc \in RequestPC, r \in Runs :
              req' = [req EXCEPT ![u].pc = pc, ![u].run = r] => req' \in [Requests -> Request]
         /\ \A pc \in RequestPC, k \in Conns \cup {NoConn} :
              req' = [req EXCEPT ![u].pc = pc, ![u].conn = k] => req' \in [Requests -> Request]
<1>t. req \in [Requests -> Request] /\ req[u] \in Request
  BY DEF TypeOK
<1>1. IdleReq \in Request
  BY DEF IdleReq, Request, RequestPC
<1>2. ASSUME NEW pc \in RequestPC PROVE [req[u] EXCEPT !.pc = pc] \in Request
  BY <1>t DEF Request
<1>3. ASSUME NEW pc \in RequestPC, NEW r \in Runs
      PROVE  [req[u] EXCEPT !.pc = pc, !.run = r] \in Request
  BY <1>t DEF Request
<1>4. ASSUME NEW pc \in RequestPC, NEW k \in Conns \cup {NoConn}
      PROVE  [req[u] EXCEPT !.pc = pc, !.conn = k] \in Request
  BY <1>t DEF Request
<1>5. QED
  BY ZenonT(40), <1>t, <1>1, <1>2, <1>3, <1>4 DEF Done, Step

(* The request at hand names a deployment from its second step on. *)
Targeted == \A u \in Requests : req[u].pc # "idle" => req[u].inst \in Instances

LEMMA SendStartTypes ==
  ASSUME TypeOK, NEW u \in Requests, req[u].inst \in Instances,
         NEW c \in Conns \cup {NoConn}, SendStart(u, c) \/ (StartError(u) /\ UNCHANGED toWorker)
  PROVE  /\ status' \in [Instances -> InstanceStatus]
         /\ runStatus' \in [Instances -> [Runs -> RunStatus]]
         /\ req' \in [Requests -> Request]
         /\ toWorker' \in [Conns -> Seq(ToWorker)]
<1> DEFINE i == req[u].inst  r == req[u].run
<1>1. ASSUME StartError(u), UNCHANGED toWorker
      PROVE  /\ status' \in [Instances -> InstanceStatus]
             /\ runStatus' \in [Instances -> [Runs -> RunStatus]]
             /\ req' \in [Requests -> Request]
             /\ toWorker' \in [Conns -> Seq(ToWorker)]
  <2>1. runStatus' = [runStatus EXCEPT ![i] = [runStatus[i] EXCEPT ![r] = "error"]]
    BY <1>1 DEF StartError
  <2>2. [runStatus[i] EXCEPT ![r] = "error"] \in [Runs -> RunStatus]
    BY DEF TypeOK, RunStatus
  <2>3. runStatus' \in [Instances -> [Runs -> RunStatus]]
    BY <2>1, <2>2 DEF TypeOK
  <2>4. QED
    BY <1>1, <2>3, RequestUpdates DEF TypeOK, StartError, InstanceStatus
<1>2. ASSUME SendStart(u, c), ~(StartError(u) /\ UNCHANGED toWorker)
      PROVE  /\ UNCHANGED <<status, runStatus>>
             /\ req' \in [Requests -> Request]
             /\ toWorker' \in [Conns -> Seq(ToWorker)]
  <2>1. StartMsg(i, r) \in ToWorker
    BY DEF StartMsg, ToWorker, TypeOK, Request
  <2>2. UNCHANGED <<status, runStatus>> /\ (Done(u) \/ Step(u, "sched"))
    BY <1>2 DEF SendStart
  <2>3. req' \in [Requests -> Request]
    BY <2>2, RequestUpdates DEF RequestPC
  <2>4. UNCHANGED toWorker \/ (c \in Conns /\ Deliver(c, StartMsg(i, r)))
    BY <1>2 DEF SendStart, Vanish
  <2>5. toWorker' \in [Conns -> Seq(ToWorker)]
    BY <2>1, <2>4, DeliverType DEF TypeOK
  <2>6. QED
    BY <2>2, <2>3, <2>5
<1>3. QED
  BY <1>1, <1>2 DEF TypeOK

(* What an HTTP request does keeps its type, and its target. *)
LEMMA RequestTypes ==
  ASSUME TypeOK, Targeted,
         \/ \E u \in Requests : RequestStep(u)
         \/ \E u \in Requests, i \in Instances : StartCheck(u, i) \/ StopCommit(u, i) \/ RedeployRead(u, i)
  PROVE  TypeOK'
<1>s. ASSUME NEW u \in Requests, NEW i \in Instances,
             StartCheck(u, i) \/ StopCommit(u, i) \/ RedeployRead(u, i)
      PROVE  TypeOK'
  <2> USE DEF dbVars, hVars, wkVars
  <2>1. ASSUME NEW pc \in RequestPC, NEW k \in Conns \cup {NoConn}
        PROVE  [pc |-> pc, inst |-> i, conn |-> k, run |-> NoRun] \in Request
    BY DEF Request
  <2>2. CASE StartCheck(u, i)
    BY <2>1, <2>2 DEF StartCheck, TypeOK, RequestPC
  <2>3. CASE StopCommit(u, i)
    BY <2>1, <2>3 DEF StopCommit, TypeOK, RequestPC, InstanceStatus
  <2>4. CASE RedeployRead(u, i)
    BY <2>1, <2>4 DEF RedeployRead, TypeOK, RequestPC
  <2>5. QED
    BY <1>s, <2>2, <2>3, <2>4
<1>r. ASSUME NEW u \in Requests, RequestStep(u) PROVE TypeOK'
  <2> DEFINE i == req[u].inst
  <2>t. req \in [Requests -> Request] /\ i \in Instances \cup {NoInst} /\ req[u].run \in Runs \cup {NoRun}
        /\ req[u].conn \in Conns \cup {NoConn}
    BY DEF TypeOK, Request
  <2>i. req[u].pc # "idle" => i \in Instances
    BY DEF Targeted
  <2>u. \A pc \in RequestPC : Step(u, pc) => req' \in [Requests -> Request]
    BY RequestUpdates
  <2>d. Done(u) => req' \in [Requests -> Request]
    BY RequestUpdates
  <2>m. req[u].pc # "idle" => StopMsg(i) \in ToWorker
    BY <2>i DEF StopMsg, ToWorker
  <2>1. CASE PreStartChecksFail(u)
    BY <2>1, <2>d DEF PreStartChecksFail, TypeOK, dbVars, hVars, wkVars
  <2>2. CASE StartSend(u)
    <3>1. /\ status' \in [Instances -> InstanceStatus]
          /\ runStatus' \in [Instances -> [Runs -> RunStatus]]
          /\ req' \in [Requests -> Request]
          /\ toWorker' \in [Conns -> Seq(ToWorker)]
      BY <2>2, <2>t, <2>i, SendStartTypes DEF StartSend
    <3>2. QED
      BY <2>2, <3>1 DEF StartSend, TypeOK, hVars, wkVars
  <2>3. CASE StartSchedule(u)
    BY <2>3, <2>t, <2>d DEF StartSchedule, Schedule, TypeOK, dbVars, hVars, wkVars
  <2>4. ASSUME NEW r \in Runs, StartCommit(u, r) PROVE TypeOK'
    <3>1. req' \in [Requests -> Request]
      BY <2>4, RequestUpdates DEF StartCommit, RequestPC
    <3>2. QED
      BY <2>4, <2>i, <3>1, NewRunType DEF StartCommit, TypeOK, hVars, wkVars
  <2>5. CASE StopSend(u)
    <3>1. toWorker' \in [Conns -> Seq(ToWorker)]
      BY <2>5, <2>t, <2>m, DeliverType DEF StopSend, SendStop, TypeOK
    <3>2. req' \in [Requests -> Request]
      BY <2>5, <2>u DEF StopSend, RequestPC
    <3>3. QED
      BY <2>5, <3>1, <3>2 DEF StopSend, TypeOK, dbVars, hVars, wkVars
  <2>6. CASE StopUnschedule(u)
    BY <2>6, <2>d DEF StopUnschedule, Unschedule, TypeOK, dbVars, hVars, wkVars
  <2>7. CASE RedeployStop(u)
    <3>1. req' \in [Requests -> Request]
      BY <2>7, RequestUpdates DEF RedeployStop, RequestPC, TypeOK
    <3>2. QED
      BY <2>7, <3>1 DEF RedeployStop, TypeOK, InstanceStatus, hVars, wkVars
  <2>8. CASE RedeployUnschedule(u)
    BY <2>8, <2>u DEF RedeployUnschedule, Unschedule, TypeOK, RequestPC, dbVars, hVars, wkVars
  <2>9. CASE RedeploySendStop(u)
    <3>1. toWorker' \in [Conns -> Seq(ToWorker)]
      BY <2>9, <2>t, <2>m, DeliverType DEF RedeploySendStop, SendStop, TypeOK
    <3>2. req' \in [Requests -> Request]
      BY <2>9, <2>u DEF RedeploySendStop, RequestPC
    <3>3. QED
      BY <2>9, <3>1, <3>2 DEF RedeploySendStop, TypeOK, dbVars, hVars, wkVars
  <2>10. CASE RedeploySend(u)
    <3>1. /\ status' \in [Instances -> InstanceStatus]
          /\ runStatus' \in [Instances -> [Runs -> RunStatus]]
          /\ req' \in [Requests -> Request]
          /\ toWorker' \in [Conns -> Seq(ToWorker)]
      <4>1. registered \in Conns \cup {NoConn}
        BY DEF TypeOK
      <4>2. QED
        BY <2>10, <2>i, <4>1, SendStartTypes DEF RedeploySend
    <3>2. QED
      BY <2>10, <3>1 DEF RedeploySend, TypeOK, hVars, wkVars
  <2>11. ASSUME NEW r \in Runs, RedeployCommit(u, r) PROVE TypeOK'
    <3>1. req' \in [Requests -> Request]
      BY <2>11, RequestUpdates DEF RedeployCommit, RequestPC
    <3>2. QED
      BY <2>11, <2>i, <3>1, NewRunType DEF RedeployCommit, TypeOK, hVars, wkVars
  <2>12. QED
    BY <1>r, <2>1, <2>2, <2>3, <2>4, <2>5, <2>6, <2>7, <2>8, <2>9, <2>10, <2>11 DEF RequestStep
<1>1. QED
  BY <1>s, <1>r

(* A step of the worker, of a socket handler, of the sweep or a crash      *)
(* leaves the requests alone or ends them all.                             *)
LEMMA OthersLeaveRequests ==
  ASSUME \/ \E c \in Conns : Connect(c) \/ HandlerStep(c)
         \/ SendHeartbeat \/ Lose \/ WorkerStep
         \/ \E i \in Instances : TickFails(i) \/ LateTicksFail(i)
         \/ Sweep \/ Crash
  PROVE  UNCHANGED req \/ req' = [u \in Requests |-> IdleReq]
<1>1. ASSUME NEW c \in Conns, HandlerStep(c) PROVE UNCHANGED req
  BY <1>1 DEF HandlerStep, HeartbeatReceive, HeartbeatRead, HeartbeatCommit, ReconcileSelect,
     ReconcileSend, ReconcileSchedule, ReconcileDone, InstanceStarted, InstanceStopped,
     InstanceError, Notice, DisconnectRead, DisconnectCommit, DropWorker
<1>2. CASE WorkerStep
  BY <1>2 DEF WorkerStep, IgnoreDuplicateStart, BringUp, StopInstance
<1>3. CASE Sweep \/ Crash
  BY <1>3 DEF Sweep, Crash
<1>4. QED
  BY <1>1, <1>2, <1>3 DEF Connect, SendHeartbeat, Lose, TickFails, LateTicksFail

(* What a request's step does to the table of requests: it moves on, keeps *)
(* its deployment, or ends; the first step picks an idle request.          *)
LEMMA RequestMoves ==
  ASSUME TypeOK, NEW u \in Requests, RequestStep(u)
  PROVE  /\ req[u].pc # "idle"
         /\ \/ req' = [req EXCEPT ![u] = IdleReq]
            \/ \E q \in Request : q.inst = req[u].inst /\ q.pc # "idle" /\ req' = [req EXCEPT ![u] = q]
<1>t. req \in [Requests -> Request]
  BY DEF TypeOK
<1>1. ASSUME NEW q \in Request, req' = [req EXCEPT ![u] = q], q.inst = req[u].inst, q.pc # "idle"
      PROVE  \E p \in Request : p.inst = req[u].inst /\ p.pc # "idle" /\ req' = [req EXCEPT ![u] = p]
  BY <1>1
<1>2. ASSUME NEW pc \in RequestPC \ {"idle"}, Step(u, pc)
      PROVE  \E q \in Request : q.inst = req[u].inst /\ q.pc # "idle" /\ req' = [req EXCEPT ![u] = q]
  <2>1. [req[u] EXCEPT !.pc = pc] \in Request /\ [req[u] EXCEPT !.pc = pc].inst = req[u].inst
        /\ [req[u] EXCEPT !.pc = pc].pc = pc
    BY <1>t DEF Request
  <2>2. req' = [req EXCEPT ![u] = [req[u] EXCEPT !.pc = pc]]
    BY <1>2 DEF Step
  <2>3. QED
    BY <2>1, <2>2, <1>1
<1>3. ASSUME NEW pc \in RequestPC \ {"idle"}, NEW r \in Runs,
             req' = [req EXCEPT ![u].pc = pc, ![u].run = r]
      PROVE  \E q \in Request : q.inst = req[u].inst /\ q.pc # "idle" /\ req' = [req EXCEPT ![u] = q]
  <2>1. [req[u] EXCEPT !.pc = pc, !.run = r] \in Request
        /\ [req[u] EXCEPT !.pc = pc, !.run = r].inst = req[u].inst
        /\ [req[u] EXCEPT !.pc = pc, !.run = r].pc = pc
    BY <1>t DEF Request
  <2>2. req' = [req EXCEPT ![u] = [req[u] EXCEPT !.pc = pc, !.run = r]]
    BY <1>3, <1>t
  <2>3. QED
    BY <2>1, <2>2, <1>1
<1>4. ASSUME NEW pc \in RequestPC \ {"idle"}, NEW k \in Conns \cup {NoConn},
             req' = [req EXCEPT ![u].pc = pc, ![u].conn = k]
      PROVE  \E q \in Request : q.inst = req[u].inst /\ q.pc # "idle" /\ req' = [req EXCEPT ![u] = q]
  <2>1. [req[u] EXCEPT !.pc = pc, !.conn = k] \in Request
        /\ [req[u] EXCEPT !.pc = pc, !.conn = k].inst = req[u].inst
        /\ [req[u] EXCEPT !.pc = pc, !.conn = k].pc = pc
    BY <1>t DEF Request
  <2>2. req' = [req EXCEPT ![u] = [req[u] EXCEPT !.pc = pc, !.conn = k]]
    BY <1>4, <1>t
  <2>3. QED
    BY <2>1, <2>2, <1>1
<1>p. /\ {"send", "sched", "stop_unsched", "re_unsched", "re_stop", "re_sleep", "re_send"}
           \subseteq RequestPC \ {"idle"}
      /\ registered \in Conns \cup {NoConn}
  BY DEF RequestPC, TypeOK
<1>5. CASE PreStartChecksFail(u) \/ StartSchedule(u) \/ StopUnschedule(u)
  BY <1>5 DEF PreStartChecksFail, StartSchedule, StopUnschedule, Done
<1>6. CASE StartSend(u) \/ RedeploySend(u)
  <2>1. Done(u) \/ Step(u, "sched")
    BY <1>6 DEF StartSend, RedeploySend, SendStart, StartError
  <2>2. QED
    BY <1>6, <2>1, <1>2, <1>p DEF Done, StartSend, RedeploySend
<1>7. ASSUME NEW r \in Runs, StartCommit(u, r) \/ RedeployCommit(u, r)
      PROVE  /\ req[u].pc # "idle"
             /\ \E q \in Request : q.inst = req[u].inst /\ q.pc # "idle" /\ req' = [req EXCEPT ![u] = q]
  BY <1>7, <1>3, <1>p DEF StartCommit, RedeployCommit
<1>8. CASE StopSend(u) \/ RedeployUnschedule(u) \/ RedeploySendStop(u)
  BY <1>8, <1>2, <1>p DEF StopSend, RedeployUnschedule, RedeploySendStop
<1>9. CASE RedeployStop(u)
  BY <1>9, <1>4, <1>p DEF RedeployStop
<1>10. QED
  BY <1>5, <1>6, <1>7, <1>8, <1>9 DEF RequestStep

LEMMA FirstSteps ==
  ASSUME NEW u \in Requests, NEW i \in Instances,
         StartCheck(u, i) \/ StopCommit(u, i) \/ RedeployRead(u, i)
  PROVE  /\ May(u, i)
         /\ \E q : q.inst = i /\ q.pc \in {"commit", "stop_send", "re_begin"} /\ req' = [req EXCEPT ![u] = q]
BY DEF StartCheck, StopCommit, RedeployRead

(* Every step keeps the types and the targets. *)
LEMMA TypeStep ==
  ASSUME TypeOK, Targeted, [Next]_vars
  PROVE  TypeOK' /\ Targeted'
<1>t. req \in [Requests -> Request]
  BY DEF TypeOK
<1>1. CASE UNCHANGED vars
  BY <1>1 DEF TypeOK, Targeted, vars, dbVars, hVars, wkVars
<1>2. CASE \/ \E c \in Conns : Connect(c) \/ HandlerStep(c)
           \/ SendHeartbeat \/ Lose \/ WorkerStep
           \/ \E i \in Instances : TickFails(i) \/ LateTicksFail(i)
           \/ Sweep \/ Crash
  <2>1. TypeOK'
    BY <1>2, WorkerTypes, CoordinatorTypes
  <2>2. UNCHANGED req \/ req' = [u \in Requests |-> IdleReq]
    BY <1>2, OthersLeaveRequests
  <2>3. QED
    BY <2>1, <2>2 DEF Targeted, IdleReq
<1>3. ASSUME NEW u \in Requests, RequestStep(u) PROVE TypeOK' /\ Targeted'
  <2>1. TypeOK'
    BY <1>3, RequestTypes
  <2>2. Targeted'
    BY <1>3, <1>t, RequestMoves DEF Targeted, IdleReq
  <2>3. QED
    BY <2>1, <2>2
<1>4. ASSUME NEW u \in Requests, NEW i \in Instances,
             StartCheck(u, i) \/ StopCommit(u, i) \/ RedeployRead(u, i)
      PROVE  TypeOK' /\ Targeted'
  <2>1. TypeOK'
    BY <1>4, RequestTypes
  <2>2. Targeted'
    BY <1>4, <1>t, FirstSteps DEF Targeted
  <2>3. QED
    BY <2>1, <2>2
<1>5. QED
  BY <1>1, <1>2, <1>3, <1>4 DEF Next

LEMMA TypeInit == Init => TypeOK /\ Targeted
<1> SUFFICES ASSUME Init PROVE TypeOK /\ Targeted
  OBVIOUS
<1>1. IdleReq \in Request /\ IdleReq.pc = "idle"
  BY DEF IdleReq, Request, RequestPC
<1>2. runStatus \in [Instances -> [Runs -> RunStatus]]
  BY DEF Init, RunStatus
<1>3. req \in [Requests -> Request] /\ Targeted
  BY <1>1 DEF Init, Targeted
<1>4. QED
  BY <1>2, <1>3, ConstantsAssumption DEF Init, TypeOK, InstanceStatus, HandlerPC

(* Every variable keeps to its range, in every environment. *)
THEOREM TypeCorrect == Spec => []TypeOK
<1>1. TypeOK /\ Targeted /\ [Next]_vars => (TypeOK /\ Targeted)'
  BY TypeStep
<1>2. QED
  BY TypeInit, <1>1, PTL DEF Spec

-----------------------------------------------------------------------------
(***************************************************************************)
(* No run is left behind.  NoOrphanRun alone is not inductive: a start     *)
(* request checks the deployment's status in one step and creates its run  *)
(* in a later one.  What carries it over is that a deployment that may be  *)
(* started has no running run (Closed), that this stays so while a request *)
(* is between the two (Pending), and that no second request works on the   *)
(* same deployment meanwhile (Separate).                                   *)
(***************************************************************************)
Closed ==
  \A i \in Instances : status[i] \in {"stopped", "error"} => \A r \in Runs : runStatus[i][r] # "running"

Pending ==
  \A u \in Requests, r \in Runs :
    /\ req[u].pc = "commit" => runStatus[req[u].inst][r] # "running"
    /\ req[u].pc \in {"send", "sched"} /\ runStatus[req[u].inst][r] = "running" => r = req[u].run

Separate ==
  \A u, v \in Requests :
    u # v /\ req[u].pc # "idle" /\ req[v].pc # "idle" => req[u].inst # req[v].inst

NoRedeploy == \A u \in Requests : req[u].pc \notin {"re_begin", "re_unsched", "re_stop", "re_sleep", "re_send"}

RunsInv == NoOrphanRun /\ Closed /\ Pending

(* Steps that create no running row, keep or end the active run, and leave *)
(* the status open unless no running row is left.                          *)
LEMMA EndingKeepsRuns ==
  ASSUME TypeOK, Targeted, RunsInv, UNCHANGED req,
         NEW i \in Instances, NEW s \in {"stopped", "error"}, EndRun(i, s),
         \A j \in Instances : activeRun'[j] = activeRun[j] \/ (j = i /\ activeRun'[j] = NoRun),
         \A j \in Instances : j # i => status'[j] = status[j]
  PROVE  RunsInv'
<1>1. \A r \in Runs : runStatus'[i][r] # "running"
  <2> SUFFICES ASSUME NEW r \in Runs PROVE runStatus'[i][r] # "running"
    OBVIOUS
  <2>1. CASE activeRun[i] = NoRun
    BY <2>1, ConstantsAssumption DEF EndRun, RunsInv, NoOrphanRun
  <2>2. CASE activeRun[i] # NoRun
    <3>1. runStatus' = [runStatus EXCEPT ![i] = [runStatus[i] EXCEPT ![activeRun[i]] = s]]
      BY <2>2 DEF EndRun
    <3>2. runStatus'[i] = [runStatus[i] EXCEPT ![activeRun[i]] = s]
      BY <3>1 DEF TypeOK
    <3>3. r # activeRun[i] => runStatus[i][r] # "running"
      BY DEF RunsInv, NoOrphanRun
    <3>4. QED
      BY <3>2, <3>3 DEF TypeOK
  <2>3. QED
    BY <2>1, <2>2
<1>2. \A j \in Instances : j # i => runStatus'[j] = runStatus[j]
  BY DEF EndRun, TypeOK
<1>3. NoOrphanRun'
  BY <1>1, <1>2 DEF RunsInv, NoOrphanRun
<1>4. Closed'
  BY <1>1, <1>2 DEF RunsInv, Closed
<1>5. Pending'
  <2> SUFFICES ASSUME NEW u \in Requests, NEW r \in Runs,
                      req[u].pc \in {"commit", "send", "sched"}, runStatus'[req[u].inst][r] = "running"
               PROVE  req[u].pc # "commit" /\ r = req[u].run
    BY DEF Pending
  <2>1. req[u].inst \in Instances
    BY DEF Targeted
  <2>2. QED
    BY <1>1, <1>2, <2>1 DEF RunsInv, Pending
<1>6. QED
  BY <1>3, <1>4, <1>5 DEF RunsInv

(* Steps that touch neither a row nor a request. *)
LEMMA OtherRows ==
  ASSUME \/ \E c \in Conns : Connect(c) \/ HandlerStep(c)
         \/ SendHeartbeat \/ Lose \/ WorkerStep
         \/ \E i \in Instances : TickFails(i) \/ LateTicksFail(i)
         \/ Sweep \/ Crash
  PROVE  \/ UNCHANGED <<status, activeRun, runStatus>>
         \/ /\ UNCHANGED req
            /\ \E c \in Conns, i \in Instances :
                 InstanceStarted(c, i) \/ InstanceStopped(c, i) \/ InstanceError(c, i)
<1>1. ASSUME NEW c \in Conns, HandlerStep(c),
             ~\E i \in Instances : InstanceStarted(c, i) \/ InstanceStopped(c, i) \/ InstanceError(c, i)
      PROVE  UNCHANGED <<status, activeRun, runStatus>>
  BY <1>1 DEF HandlerStep, HeartbeatReceive, HeartbeatRead, HeartbeatCommit, ReconcileSelect,
     ReconcileSend, ReconcileSchedule, ReconcileDone, Notice, DisconnectRead, DisconnectCommit,
     DropWorker, dbVars
<1>2. CASE WorkerStep
  BY <1>2 DEF WorkerStep, IgnoreDuplicateStart, BringUp, StopInstance, dbVars
<1>3. CASE Sweep \/ Crash
  BY <1>3 DEF Sweep, Crash, dbVars
<1>4. ASSUME NEW c \in Conns, NEW i \in Instances,
             InstanceStarted(c, i) \/ InstanceStopped(c, i) \/ InstanceError(c, i)
      PROVE  UNCHANGED req
  BY <1>4 DEF InstanceStarted, InstanceStopped, InstanceError
<1>5. QED
  BY <1>1, <1>2, <1>3, <1>4 DEF Connect, SendHeartbeat, Lose, TickFails, LateTicksFail, dbVars

LEMMA OthersKeepRuns ==
  ASSUME TypeOK, Targeted, RunsInv,
         \/ \E c \in Conns : Connect(c) \/ HandlerStep(c)
         \/ SendHeartbeat \/ Lose \/ WorkerStep
         \/ \E i \in Instances : TickFails(i) \/ LateTicksFail(i)
         \/ Sweep \/ Crash
  PROVE  RunsInv'
<1>1. CASE UNCHANGED <<status, activeRun, runStatus>>
  <2>1. UNCHANGED req \/ req' = [u \in Requests |-> IdleReq]
    BY OthersLeaveRequests
  <2>2. QED
    BY <1>1, <2>1 DEF RunsInv, NoOrphanRun, Closed, Pending, IdleReq
<1>2. ASSUME UNCHANGED req, NEW c \in Conns, NEW i \in Instances,
             InstanceStarted(c, i) \/ InstanceStopped(c, i) \/ InstanceError(c, i)
      PROVE  RunsInv'
  <2>1. CASE InstanceStarted(c, i)
    <3>1. UNCHANGED <<activeRun, runStatus>> /\ status' = [status EXCEPT ![i] = "running"]
      BY <2>1 DEF InstanceStarted
    <3>2. NoOrphanRun' /\ Pending'
      BY <1>2, <3>1 DEF RunsInv, NoOrphanRun, Pending
    <3>3. Closed'
      BY <3>1 DEF RunsInv, Closed, TypeOK
    <3>4. QED
      BY <3>2, <3>3 DEF RunsInv
  <2>2. CASE InstanceStopped(c, i)
    <3>1. /\ EndRun(i, "stopped")
          /\ \A j \in Instances : activeRun'[j] = activeRun[j] \/ (j = i /\ activeRun'[j] = NoRun)
          /\ \A j \in Instances : j # i => status'[j] = status[j]
      BY <2>2 DEF InstanceStopped, TypeOK
    <3>2. QED
      BY <1>2, <3>1, EndingKeepsRuns
  <2>3. CASE InstanceError(c, i)
    <3>1. /\ EndRun(i, "error")
          /\ \A j \in Instances : activeRun'[j] = activeRun[j]
          /\ \A j \in Instances : j # i => status'[j] = status[j]
      BY <2>3 DEF InstanceError, TypeOK
    <3>2. QED
      BY <1>2, <3>1, EndingKeepsRuns
  <2>4. QED
    BY <1>2, <2>1, <2>2, <2>3
<1>3. QED
  BY <1>1, <1>2, OtherRows

LEMMA RequestsKeepRuns ==
  ASSUME TypeOK, Targeted, RunsInv, Separate, NoRedeploy, NEW u \in Requests, RequestStep(u)
  PROVE  RunsInv'
<1> DEFINE i == req[u].inst
<1>t. req \in [Requests -> Request]
  BY DEF TypeOK
<1>i. i \in Instances
  BY RequestMoves DEF Targeted
<1>s. \A v \in Requests : v # u /\ req[v].pc # "idle" => req[v].inst # i
  BY RequestMoves DEF Separate
<1>1. ASSUME UNCHANGED <<status, activeRun, runStatus>>,
             \A v \in Requests : v # u => req'[v] = req[v],
             req'[u].pc \notin {"commit", "send", "sched"}
      PROVE  RunsInv'
  <2>1. NoOrphanRun' /\ Closed'
    BY <1>1 DEF RunsInv, NoOrphanRun, Closed
  <2>2. Pending'
    BY <1>1 DEF RunsInv, Pending
  <2>3. QED
    BY <2>1, <2>2 DEF RunsInv
<1>2. CASE PreStartChecksFail(u) \/ StartSchedule(u) \/ StopUnschedule(u) \/ StopSend(u)
  <2>1. UNCHANGED <<status, activeRun, runStatus>>
    BY <1>2 DEF PreStartChecksFail, StartSchedule, StopUnschedule, StopSend, dbVars
  <2>2. /\ \A v \in Requests : v # u => req'[v] = req[v]
        /\ req'[u].pc \notin {"commit", "send", "sched"}
    BY <1>2, <1>t DEF PreStartChecksFail, StartSchedule, StopUnschedule, StopSend, Done, Step,
       IdleReq, Request
  <2>3. QED
    BY <1>1, <2>1, <2>2
<1>3. CASE StartSend(u)
  <2>1. CASE Done(u) /\ UNCHANGED <<status, activeRun, runStatus>>
    BY <1>1, <1>t, <2>1 DEF Done, IdleReq
  <2>2. CASE Step(u, "sched") /\ UNCHANGED <<status, activeRun, runStatus>>
    <3>1. /\ \A v \in Requests : v # u => req'[v] = req[v]
          /\ req'[u].pc = "sched" /\ req'[u].inst = i /\ req'[u].run = req[u].run
      BY <1>t, <2>2 DEF Step, Request
    <3>2. Pending'
      BY <1>3, <2>2, <3>1 DEF RunsInv, Pending, StartSend
    <3>3. NoOrphanRun' /\ Closed'
      BY <2>2 DEF RunsInv, NoOrphanRun, Closed
    <3>4. QED
      BY <3>2, <3>3 DEF RunsInv
  <2>3. CASE StartError(u) /\ UNCHANGED activeRun
    <3>1. /\ \A v \in Requests : v # u => req'[v] = req[v]
          /\ req'[u].pc = "idle"
      BY <1>t, <2>3 DEF StartError, Done, IdleReq
    <3>2. \A j \in Instances : j # i => runStatus'[j] = runStatus[j] /\ status'[j] = status[j]
      BY <2>3 DEF StartError, TypeOK
    <3>3. runStatus'[i] = [runStatus[i] EXCEPT ![req[u].run] = "error"]
      BY <1>i, <2>3 DEF StartError, TypeOK
    <3>4. \A r \in Runs : runStatus[i][r] = "running" => r = req[u].run
      BY <1>3 DEF RunsInv, Pending, StartSend
    <3>5. \A r \in Runs : runStatus'[i][r] # "running"
      BY <3>3, <3>4, <1>i DEF TypeOK
    <3>6. NoOrphanRun'
      BY <2>3, <3>2, <3>5 DEF RunsInv, NoOrphanRun
    <3>7. Closed'
      BY <3>2, <3>5 DEF RunsInv, Closed
    <3>8. Pending'
      <4> SUFFICES ASSUME NEW v \in Requests, NEW r \in Runs, v # u, req[v].pc # "idle"
                   PROVE  /\ req[v].pc = "commit" => runStatus'[req[v].inst][r] # "running"
                          /\ req[v].pc \in {"send", "sched"} /\ runStatus'[req[v].inst][r] = "running"
                               => r = req[v].run
        BY <3>1 DEF Pending
      <4>1. req[v].inst \in Instances /\ req[v].inst # i
        BY <1>s DEF Targeted
      <4>2. QED
        BY <3>2, <4>1 DEF RunsInv, Pending
    <3>9. QED
      BY <3>6, <3>7, <3>8 DEF RunsInv
  <2>4. QED
    BY <1>3, <2>1, <2>2, <2>3 DEF StartSend, SendStart
<1>4. ASSUME NEW r \in Runs, StartCommit(u, r) PROVE RunsInv'
  <2>1. /\ \A v \in Requests : v # u => req'[v] = req[v]
        /\ req'[u].pc = "send" /\ req'[u].inst = i /\ req'[u].run = r
    BY <1>t, <1>4 DEF StartCommit, Request
  <2>2. /\ \A j \in Instances : j # i => /\ runStatus'[j] = runStatus[j] /\ status'[j] = status[j]
                                         /\ activeRun'[j] = activeRun[j]
        /\ status'[i] = "starting" /\ activeRun'[i] = r
    BY <1>i, <1>4 DEF StartCommit, NewRun, TypeOK
  <2>3. runStatus'[i] = [runStatus[i] EXCEPT ![r] = "running"]
    BY <1>i, <1>4 DEF StartCommit, NewRun, TypeOK
  <2>4. \A q \in Runs : runStatus[i][q] # "running"
    BY <1>4 DEF RunsInv, Pending, StartCommit
  <2>5. \A q \in Runs : runStatus'[i][q] = "running" => q = r
    BY <2>3, <2>4, <1>i DEF TypeOK
  <2>6. NoOrphanRun'
    BY <2>2, <2>5 DEF RunsInv, NoOrphanRun
  <2>7. Closed'
    BY <2>2 DEF RunsInv, Closed
  <2>8. Pending'
    <3> SUFFICES ASSUME NEW v \in Requests, NEW q \in Runs
                 PROVE  /\ req'[v].pc = "commit" => runStatus'[req'[v].inst][q] # "running"
                        /\ req'[v].pc \in {"send", "sched"} /\ runStatus'[req'[v].inst][q] = "running"
                             => q = req'[v].run
      BY DEF Pending
    <3>1. CASE v = u
      BY <2>1, <2>5, <3>1
    <3>2. CASE v # u /\ req[v].pc # "idle"
      <4>1. req[v].inst \in Instances /\ req[v].inst # i
        BY <1>s, <3>2 DEF Targeted
      <4>2. QED
        BY <2>1, <2>2, <3>2, <4>1 DEF RunsInv, Pending
    <3>3. CASE v # u /\ req[v].pc = "idle"
      BY <2>1, <3>3
    <3>4. QED
      BY <3>1, <3>2, <3>3
  <2>9. QED
    BY <2>6, <2>7, <2>8 DEF RunsInv
<1>5. ~ \/ RedeployStop(u) \/ RedeployUnschedule(u) \/ RedeploySendStop(u) \/ RedeploySend(u)
        \/ \E r \in Runs : RedeployCommit(u, r)
  BY DEF NoRedeploy, RedeployStop, RedeployUnschedule, RedeploySendStop, RedeploySend, RedeployCommit
<1>6. QED
  BY <1>2, <1>3, <1>4, <1>5 DEF RequestStep

(* A start request finds a deployment that is Closed; a stop opens nothing. *)
LEMMA FirstStepsKeepRuns ==
  ASSUME TypeOK, Targeted, RunsInv, ~Redeploys, NEW u \in Requests, NEW i \in Instances,
         StartCheck(u, i) \/ StopCommit(u, i) \/ RedeployRead(u, i)
  PROVE  RunsInv'
<1>t. req \in [Requests -> Request]
  BY DEF TypeOK
<1>1. CASE StartCheck(u, i)
  <2>1. /\ UNCHANGED <<status, activeRun, runStatus>>
        /\ \A v \in Requests : v # u => req'[v] = req[v]
        /\ req'[u].pc = "commit" /\ req'[u].inst = i
    BY <1>t, <1>1 DEF StartCheck, dbVars
  <2>2. \A r \in Runs : runStatus[i][r] # "running"
    BY <1>1 DEF StartCheck, Startable, RunsInv, Closed
  <2>3. QED
    BY <2>1, <2>2 DEF RunsInv, NoOrphanRun, Closed, Pending
<1>2. CASE StopCommit(u, i)
  <2>1. /\ UNCHANGED <<activeRun, runStatus>>
        /\ \A v \in Requests : v # u => req'[v] = req[v]
        /\ req'[u].pc = "stop_send"
        /\ status' = [status EXCEPT ![i] = "stopping"]
    BY <1>t, <1>2 DEF StopCommit
  <2>2. Closed'
    BY <2>1 DEF RunsInv, Closed, TypeOK
  <2>3. NoOrphanRun' /\ Pending'
    BY <2>1 DEF RunsInv, NoOrphanRun, Pending
  <2>4. QED
    BY <2>2, <2>3 DEF RunsInv
<1>3. QED
  BY <1>1, <1>2 DEF RedeployRead

(* Two requests in progress are for two deployments. *)
LEMMA StayApart ==
  ASSUME TypeOK, Targeted, Separate, OneAtATime, [Next]_vars
  PROVE  Separate'
<1>t. req \in [Requests -> Request]
  BY DEF TypeOK
<1>1. CASE UNCHANGED req \/ req' = [u \in Requests |-> IdleReq]
  BY <1>1 DEF Separate, IdleReq
<1>2. ASSUME NEW u \in Requests, RequestStep(u) PROVE Separate'
  <2>1. \A v \in Requests : v # u => req'[v] = req[v]
    BY <1>2, <1>t, RequestMoves
  <2>2. req[u].pc # "idle" /\ (req'[u].pc = "idle" \/ req'[u].inst = req[u].inst)
    BY <1>2, <1>t, RequestMoves DEF IdleReq
  <2>3. QED
    BY <2>1, <2>2 DEF Separate
<1>3. ASSUME NEW u \in Requests, NEW i \in Instances,
             StartCheck(u, i) \/ StopCommit(u, i) \/ RedeployRead(u, i)
      PROVE  Separate'
  <2>1. \A v \in Requests : req[v].inst # i
    BY <1>3, FirstSteps DEF May
  <2>2. /\ \A v \in Requests : v # u => req'[v] = req[v]
        /\ req'[u].inst = i /\ req'[u].pc \in {"commit", "stop_send", "re_begin"}
    BY <1>3, <1>t DEF StartCheck, StopCommit, RedeployRead
  <2>3. QED
    BY <2>1, <2>2 DEF Separate
<1>4. QED
  BY <1>1, <1>2, <1>3, OthersLeaveRequests DEF Next, vars

(* No request redeploys. *)
LEMMA NoneRedeploys ==
  ASSUME TypeOK, NoRedeploy, ~Redeploys, [Next]_vars
  PROVE  NoRedeploy'
<1>t. req \in [Requests -> Request]
  BY DEF TypeOK
<1>1. CASE UNCHANGED req \/ req' = [u \in Requests |-> IdleReq]
  BY <1>1 DEF NoRedeploy, IdleReq
<1>2. ASSUME NEW u \in Requests, RequestStep(u) PROVE NoRedeploy'
  <2>1. \A v \in Requests : v # u => req'[v] = req[v]
    BY <1>2, <1>t, RequestMoves
  <2>2. req'[u].pc \in {"idle", "send", "sched", "stop_unsched"}
    <3>1. CASE PreStartChecksFail(u) \/ StartSend(u) \/ StartSchedule(u) \/ StopSend(u) \/ StopUnschedule(u)
      BY <1>t, <3>1 DEF PreStartChecksFail, StartSend, SendStart, StartError, StartSchedule, StopSend,
         StopUnschedule, Done, Step, IdleReq, Request
    <3>2. ASSUME NEW r \in Runs, StartCommit(u, r)
          PROVE  req'[u].pc \in {"idle", "send", "sched", "stop_unsched"}
      BY <1>t, <3>2 DEF StartCommit, Request
    <3>3. QED
      BY <1>2, <3>1, <3>2 DEF RequestStep, NoRedeploy, RedeployStop, RedeployUnschedule,
         RedeploySendStop, RedeploySend, RedeployCommit
  <2>3. QED
    BY <2>1, <2>2 DEF NoRedeploy
<1>3. ASSUME NEW u \in Requests, NEW i \in Instances,
             StartCheck(u, i) \/ StopCommit(u, i) \/ RedeployRead(u, i)
      PROVE  NoRedeploy'
  <2>1. /\ \A v \in Requests : v # u => req'[v] = req[v]
        /\ req'[u].pc \in {"commit", "stop_send"}
    BY <1>3, <1>t DEF StartCheck, StopCommit, RedeployRead
  <2>2. QED
    BY <2>1 DEF NoRedeploy
<1>4. QED
  BY <1>1, <1>2, <1>3, OthersLeaveRequests DEF Next, vars

(* The rows the coordinator starts on agree with each other. *)
LEMMA RunsInit == Init => RunsInv /\ Separate /\ NoRedeploy
<1> SUFFICES ASSUME Init PROVE RunsInv /\ Separate /\ NoRedeploy
  OBVIOUS
<1>1. \A i \in Instances, r \in Runs : runStatus[i][r] = "running" => activeRun[i] = r
  BY DEF Init
<1>2. NoOrphanRun
  BY <1>1 DEF Init, NoOrphanRun
<1>3. Closed
  <2>1. \A i \in Instances : status[i] \in {"stopped", "error"} => activeRun[i] = NoRun
    BY DEF Init
  <2>2. QED
    BY <1>1, <2>1, ConstantsAssumption DEF Closed
<1>4. \A u \in Requests : req[u] = IdleReq
  BY DEF Init
<1>5. QED
  BY <1>2, <1>3, <1>4 DEF RunsInv, Pending, Separate, NoRedeploy, IdleReq

(* Whatever the connections, crashes, failures and late messages do, no    *)
(* run row is left running that is not its deployment's active run, as     *)
(* long as the operator neither overlaps requests for one deployment nor   *)
(* redeploys.                                                              *)
THEOREM NoRunIsLeftBehind ==
  ASSUME OneAtATime, ~Redeploys
  PROVE  Spec => []NoOrphanRun
<1> DEFINE IInv == TypeOK /\ Targeted /\ Separate /\ NoRedeploy /\ RunsInv
<1>1. Init => IInv
  BY TypeInit, RunsInit
<1>2. IInv /\ [Next]_vars => IInv'
  <2> SUFFICES ASSUME IInv, [Next]_vars PROVE IInv'
    OBVIOUS
  <2>1. TypeOK' /\ Targeted' /\ Separate' /\ NoRedeploy'
    BY TypeStep, StayApart, NoneRedeploys
  <2>2. RunsInv'
    <3>1. CASE UNCHANGED vars
      BY <3>1 DEF RunsInv, NoOrphanRun, Closed, Pending, vars, dbVars
    <3>2. CASE Next
      BY <3>2, OthersKeepRuns, RequestsKeepRuns, FirstStepsKeepRuns DEF Next
    <3>3. QED
      BY <3>1, <3>2
  <2>3. QED
    BY <2>1, <2>2
<1>3. IInv => NoOrphanRun
  BY DEF RunsInv
<1> HIDE DEF IInv
<1>4. QED
  BY <1>1, <1>2, <1>3, PTL DEF Spec

-----------------------------------------------------------------------------
(***************************************************************************)
(* The status at rest is true, where the worker has one connection c:      *)
(* there is no loss, no kill, no stall, and no deployment was running when *)
(* the coordinator started, so the reconcile of the first heartbeat finds  *)
(* nothing and sends nothing.  Several deployments and requests, failures, *)
(* and redeploys remain.                                                   *)
(*                                                                         *)
(* StatusIsTrue speaks about rest only.  The invariant says what is true   *)
(* on the way there, as a relation between the queues, the worker and the  *)
(* scheduler: the events that are under way leave a status that the worker *)
(* deserves (EventsAreTrue), and the ticks follow the last message that    *)
(* was sent to it (TicksFollow), up to what requests in progress have      *)
(* still to do (RequestsKnow).                                             *)
(***************************************************************************)
OneConnection(c) ==
  /\ Conns = {c}
  /\ ~MayCrash /\ MaxStalls = 0
  /\ WasRunning = {NoRun}
  /\ OneAtATime /\ ~QueuedTicks

(* Queue s holds nothing about deployment i, holds a message of type t     *)
(* about it, or has one of type t as the last one.                         *)
NoneOf(s, i)    == \A k \in 1..Len(s) : s[k].inst # i
Holds(s, i, t)  == \E k \in 1..Len(s) : s[k].inst = i /\ s[k].type = t
EndsIn(s, i, t) ==
  \E k \in 1..Len(s) :
    s[k].inst = i /\ s[k].type = t /\ \A l \in 1..Len(s) : l > k => s[l].inst # i

SameFor(i, s, q) ==
  /\ NoneOf(q, i) <=> NoneOf(s, i)
  /\ \A t : Holds(q, i, t) <=> Holds(s, i, t)
  /\ \A t : EndsIn(q, i, t) <=> EndsIn(s, i, t)

At(i, pc) == \E u \in Requests : req[u].inst = i /\ req[u].pc = pc

(* Once it has read all its events, the coordinator will write what event  *)
(* t tells.                                                                *)
Told(t) == IF t = "started" THEN "running" ELSE t
Becomes(c, i, t) ==
  EndsIn(toCoord[c], i, t) \/ (NoneOf(toCoord[c], i) /\ status[i] = Told(t))

(* An error that a redeploy wrote, whose checks failed, may come before    *)
(* the stop that it has sent.                                              *)
EventsAreTrue(c, i) ==
  /\ Becomes(c, i, "started") => Healthy(i)
  /\ Becomes(c, i, "stopped") => runtime[i] = NoRun
  /\ Becomes(c, i, "error")   => ~Healthy(i) \/ Holds(toWorker[c], i, "stop")

MayLackTicks(i) == At(i, "sched") \/ At(i, "re_stop")

TicksFollow(c, i) ==
  /\ EndsIn(toWorker[c], i, "start") => sched[i] # NoRun \/ MayLackTicks(i)
  /\ EndsIn(toWorker[c], i, "stop")  => sched[i] = NoRun \/ At(i, "stop_unsched")
  /\ NoneOf(toWorker[c], i) /\ Becomes(c, i, "started") => sched[i] # NoRun \/ MayLackTicks(i)
  /\ NoneOf(toWorker[c], i) /\ Becomes(c, i, "stopped") => sched[i] = NoRun \/ At(i, "stop_unsched")

RequestsKnow(c, i) ==
  /\ At(i, "sched") =>
       \/ EndsIn(toWorker[c], i, "start")
       \/ NoneOf(toWorker[c], i) /\ ~Becomes(c, i, "stopped")
  /\ At(i, "stop_unsched") =>
       \/ EndsIn(toWorker[c], i, "stop")
       \/ NoneOf(toWorker[c], i) /\ ~Becomes(c, i, "started")
  /\ At(i, "re_stop") => sched[i] = NoRun
  /\ At(i, "re_sleep") \/ At(i, "re_send") =>
       \/ EndsIn(toWorker[c], i, "stop")
       \/ NoneOf(toWorker[c], i) /\ runtime[i] = NoRun
  /\ i \in BadCredentials => runtime[i] = NoRun /\ ~Holds(toWorker[c], i, "start")

Sound(c, i) == EventsAreTrue(c, i) /\ TicksFollow(c, i) /\ RequestsKnow(c, i)

(* Nothing happens before the first heartbeat is read. *)
Nothing(c) ==
  /\ wstatus = "offline"
  /\ \A u \in Requests : req[u].pc = "idle"
  /\ toWorker[c] = <<>>
  /\ \A i \in Instances : /\ status[i] = "stopped" /\ runtime[i] = NoRun /\ sched[i] = NoRun
                          /\ NoneOf(toCoord[c], i)

(* The connection and its handler; the reconcile selects nothing, because  *)
(* no status says running before it.                                       *)
LinkInv(c) ==
  /\ wconn = NoConn => link[c] = "unused" /\ hpc[c] = "none" /\ registered = NoConn
  /\ wconn # NoConn => /\ link[c] = "open"
                       /\ hpc[c] \in {"recv", "hb_read", "hb_commit", "rec_select", "rec_send"}
  /\ registered = NoConn => Nothing(c) /\ hpc[c] \in {"none", "recv"}
  /\ wstatus = "offline" => /\ hpc[c] = "recv" => registered = NoConn
                            /\ \A i \in Instances : status[i] # "running"
  /\ hpc[c] = "hb_commit" => prior[c] = wstatus
  /\ hpc[c] \in {"rec_select", "rec_send"} => wstatus = "online"
  /\ hpc[c] = "rec_select" => \A i \in Instances : status[i] # "running"
  /\ todo[c] = {} /\ draining = {}

(* What a request has picked. *)
PickedInv(c) ==
  \A u \in Requests : /\ req[u].pc \notin {"idle", "re_begin"} => req[u].conn = c
                      /\ req[u].pc \in {"send", "re_send", "sched"} => req[u].run \in Runs

(* A start names a run. *)
NamedInv(c) ==
  \A k \in 1..Len(toWorker[c]) : toWorker[c][k].type = "start" => toWorker[c][k].run # NoRun

(* What appending and reading do to the messages about a deployment. *)
LEMMA AppendOther ==
  ASSUME NEW S, NEW s \in Seq(S), NEW m \in S, NEW i, m.inst # i
  PROVE  SameFor(i, s, Append(s, m))
<1>1. Len(Append(s, m)) = Len(s) + 1 /\ Append(s, m)[Len(s) + 1] = m
      /\ \A k \in 1..Len(s) : Append(s, m)[k] = s[k]
  OBVIOUS
<1>2. Len(s) \in Nat
  OBVIOUS
<1> DEFINE q == Append(s, m)
<1>3. Len(q) = Len(s) + 1 /\ q[Len(s) + 1] = m /\ \A k \in 1..Len(s) : q[k] = s[k]
  BY <1>1
<1> HIDE DEF q
<1>4. NoneOf(q, i) <=> NoneOf(s, i)
  BY <1>2, <1>3 DEF NoneOf
<1>5. \A t : Holds(q, i, t) <=> Holds(s, i, t)
  BY <1>2, <1>3 DEF Holds
<1>6. \A t : EndsIn(q, i, t) => EndsIn(s, i, t)
  BY <1>2, <1>3 DEF EndsIn
<1>7. \A t : EndsIn(s, i, t) => EndsIn(q, i, t)
  <2> SUFFICES ASSUME NEW t, EndsIn(s, i, t) PROVE EndsIn(q, i, t)
    OBVIOUS
  <2>1. PICK k \in 1..Len(s) : s[k].inst = i /\ s[k].type = t
                               /\ \A l \in 1..Len(s) : l > k => s[l].inst # i
    BY DEF EndsIn
  <2>2. k \in 1..Len(q) /\ q[k] = s[k]
    BY <1>2, <1>3
  <2>3. \A l \in 1..Len(q) : l > k => q[l].inst # i
    BY <1>2, <1>3, <2>1
  <2>4. QED
    BY <2>1, <2>2, <2>3 DEF EndsIn
<1>8. QED
  BY <1>4, <1>5, <1>6, <1>7 DEF SameFor, q

LEMMA AppendOwn ==
  ASSUME NEW S, NEW s \in Seq(S), NEW m \in S
  PROVE  /\ ~NoneOf(Append(s, m), m.inst)
         /\ \A t : Holds(Append(s, m), m.inst, t) <=> Holds(s, m.inst, t) \/ t = m.type
         /\ \A t : EndsIn(Append(s, m), m.inst, t) <=> t = m.type
<1> DEFINE q == Append(s, m)
<1>1. Len(q) = Len(s) + 1 /\ q[Len(s) + 1] = m /\ \A k \in 1..Len(s) : q[k] = s[k]
  OBVIOUS
<1>2. Len(s) \in Nat
  OBVIOUS
<1> HIDE DEF q
<1>3. ~NoneOf(q, m.inst)
  BY <1>1, <1>2 DEF NoneOf
<1>4. \A t : Holds(q, m.inst, t) <=> Holds(s, m.inst, t) \/ t = m.type
  BY <1>1, <1>2 DEF Holds
<1>5. \A t : EndsIn(q, m.inst, t) <=> t = m.type
  BY <1>1, <1>2 DEF EndsIn
<1>6. QED
  BY <1>3, <1>4, <1>5 DEF q

LEMMA TailShape ==
  ASSUME NEW S, NEW s \in Seq(S), s # <<>>
  PROVE  /\ Len(Tail(s)) \in Nat /\ Len(s) = Len(Tail(s)) + 1 /\ s[1] = Head(s)
         /\ \A k \in 1..Len(Tail(s)) : k + 1 \in 1..Len(s) /\ s[k + 1] = Tail(s)[k]
         /\ \A k \in 1..Len(s) : k > 1 => k - 1 \in 1..Len(Tail(s)) /\ Tail(s)[k - 1] = s[k]
<1>1. Len(Tail(s)) \in Nat /\ Len(s) = Len(Tail(s)) + 1 /\ s[1] = Head(s)
  OBVIOUS
<1>2. \A k \in 1..Len(Tail(s)) : s[k + 1] = Tail(s)[k]
  OBVIOUS
<1>3. \A k \in 1..Len(Tail(s)) : k + 1 \in 1..Len(s)
  BY <1>1
<1>4. ASSUME NEW k \in 1..Len(s), k > 1
      PROVE  k - 1 \in 1..Len(Tail(s)) /\ Tail(s)[k - 1] = s[k]
  <2>1. k - 1 \in 1..Len(Tail(s)) /\ (k - 1) + 1 = k
    BY <1>1, <1>4
  <2>2. QED
    BY <1>2, <2>1
<1>5. QED
  BY <1>1, <1>2, <1>3, <1>4

LEMMA TailOther ==
  ASSUME NEW S, NEW s \in Seq(S), s # <<>>, NEW i, Head(s).inst # i
  PROVE  SameFor(i, s, Tail(s))
<1> DEFINE q == Tail(s)
<1>1. /\ Len(q) \in Nat /\ Len(s) = Len(q) + 1 /\ s[1] = Head(s)
      /\ \A k \in 1..Len(q) : k + 1 \in 1..Len(s) /\ s[k + 1] = q[k]
  BY TailShape
<1>2. Len(s) \in Nat
  BY <1>1
<1>3. \A k \in 1..Len(s) : k > 1 => k - 1 \in 1..Len(q) /\ q[k - 1] = s[k]
  BY TailShape
<1> HIDE DEF q
<1>f. \A k \in 1..Len(s) : s[k].inst = i => k > 1
  BY <1>1
<1>4. NoneOf(q, i) <=> NoneOf(s, i)
  <2>1. NoneOf(s, i) => NoneOf(q, i)
    BY <1>1 DEF NoneOf
  <2>2. NoneOf(q, i) => NoneOf(s, i)
    BY <1>f, <1>3 DEF NoneOf
  <2>3. QED
    BY <2>1, <2>2
<1>5. \A t : Holds(q, i, t) <=> Holds(s, i, t)
  <2>1. \A t : Holds(q, i, t) => Holds(s, i, t)
    BY <1>1 DEF Holds
  <2>2. \A t : Holds(s, i, t) => Holds(q, i, t)
    BY <1>f, <1>3 DEF Holds
  <2>3. QED
    BY <2>1, <2>2
<1>6. \A t : EndsIn(q, i, t) => EndsIn(s, i, t)
  <2> SUFFICES ASSUME NEW t, EndsIn(q, i, t) PROVE EndsIn(s, i, t)
    OBVIOUS
  <2>1. PICK k \in 1..Len(q) : q[k].inst = i /\ q[k].type = t
                               /\ \A l \in 1..Len(q) : l > k => q[l].inst # i
    BY DEF EndsIn
  <2>2. k + 1 \in 1..Len(s) /\ s[k + 1] = q[k]
    BY <1>1, <1>2
  <2>3. ASSUME NEW l \in 1..Len(s), l > k + 1 PROVE s[l].inst # i
    <3>1. l > 1 /\ l - 1 > k
      BY <1>1, <2>3
    <3>2. QED
      BY <1>3, <2>1, <2>3, <3>1
  <2>4. QED
    BY <2>1, <2>2, <2>3 DEF EndsIn
<1>7. \A t : EndsIn(s, i, t) => EndsIn(q, i, t)
  <2> SUFFICES ASSUME NEW t, EndsIn(s, i, t) PROVE EndsIn(q, i, t)
    OBVIOUS
  <2>1. PICK k \in 1..Len(s) : s[k].inst = i /\ s[k].type = t
                               /\ \A l \in 1..Len(s) : l > k => s[l].inst # i
    BY DEF EndsIn
  <2>2. k - 1 \in 1..Len(q) /\ q[k - 1] = s[k]
    BY <1>1, <1>3, <2>1
  <2>3. \A l \in 1..Len(q) : l > k - 1 => q[l].inst # i
    BY <1>1, <1>2, <2>1
  <2>4. QED
    BY <2>1, <2>2, <2>3 DEF EndsIn
<1>8. QED
  BY <1>4, <1>5, <1>6, <1>7 DEF SameFor, q

LEMMA TailOwn ==
  ASSUME NEW S, NEW s \in Seq(S), s # <<>>, NEW i, Head(s).inst = i
  PROVE  /\ ~NoneOf(s, i)
         /\ \A t : Holds(s, i, t) <=> Holds(Tail(s), i, t) \/ t = Head(s).type
         /\ \A t : EndsIn(s, i, t) <=>
              EndsIn(Tail(s), i, t) \/ (NoneOf(Tail(s), i) /\ t = Head(s).type)
<1> DEFINE q == Tail(s)
<1>1. /\ Len(q) \in Nat /\ Len(s) = Len(q) + 1 /\ s[1] = Head(s)
      /\ \A k \in 1..Len(q) : k + 1 \in 1..Len(s) /\ s[k + 1] = q[k]
  BY TailShape
<1>2. Len(s) \in Nat
  BY <1>1
<1>3. \A k \in 1..Len(s) : k > 1 => k - 1 \in 1..Len(q) /\ q[k - 1] = s[k]
  BY TailShape
<1> HIDE DEF q
<1>4. ~NoneOf(s, i)
  BY <1>1, <1>2 DEF NoneOf
<1>5. \A t : Holds(s, i, t) <=> Holds(q, i, t) \/ t = Head(s).type
  BY SMTT(30), <1>1, <1>2, <1>3 DEF Holds
<1>6. ASSUME NEW t, EndsIn(q, i, t) PROVE EndsIn(s, i, t)
  <2>1. PICK k \in 1..Len(q) : q[k].inst = i /\ q[k].type = t
                               /\ \A l \in 1..Len(q) : l > k => q[l].inst # i
    BY <1>6 DEF EndsIn
  <2>2. k + 1 \in 1..Len(s) /\ s[k + 1] = q[k]
    BY <1>1, <1>2
  <2>3. ASSUME NEW l \in 1..Len(s), l > k + 1 PROVE s[l].inst # i
    <3>1. l > 1 /\ l - 1 > k
      BY <1>1, <2>3
    <3>2. QED
      BY <1>3, <2>1, <2>3, <3>1
  <2>4. QED
    BY <2>1, <2>2, <2>3 DEF EndsIn
<1>7. ASSUME NEW t, NoneOf(q, i), t = Head(s).type PROVE EndsIn(s, i, t)
  <2>1. \A l \in 1..Len(s) : l > 1 => s[l].inst # i
    BY <1>2, <1>3, <1>7 DEF NoneOf
  <2>2. QED
    BY <1>1, <1>2, <1>7, <2>1 DEF EndsIn
<1>8. ASSUME NEW t, EndsIn(s, i, t)
      PROVE  EndsIn(q, i, t) \/ (NoneOf(q, i) /\ t = Head(s).type)
  <2>1. PICK k \in 1..Len(s) : s[k].inst = i /\ s[k].type = t
                               /\ \A l \in 1..Len(s) : l > k => s[l].inst # i
    BY <1>8 DEF EndsIn
  <2>2. \A l \in 1..Len(q) : l > k - 1 => q[l].inst # i
    BY <1>1, <1>2, <2>1
  <2>3. CASE k = 1
    BY <1>1, <2>1, <2>2, <2>3 DEF NoneOf
  <2>4. CASE k # 1
    <3>1. k - 1 \in 1..Len(q) /\ q[k - 1] = s[k]
      BY <1>3, <2>4
    <3>2. QED
      BY <2>1, <2>2, <3>1 DEF EndsIn
  <2>5. QED
    BY <2>3, <2>4
<1>9. QED
  BY <1>4, <1>5, <1>6, <1>7, <1>8 DEF q

(* Nothing, or one last message. *)
LEMMA OneEnd ==
  ASSUME NEW S, NEW s \in Seq(S), NEW i
  PROVE  /\ \A t : NoneOf(s, i) => ~Holds(s, i, t) /\ ~EndsIn(s, i, t)
         /\ \A t : EndsIn(s, i, t) => Holds(s, i, t)
         /\ \A t, w : EndsIn(s, i, t) /\ EndsIn(s, i, w) => t = w
<1>1. \A t : NoneOf(s, i) => ~Holds(s, i, t) /\ ~EndsIn(s, i, t)
  BY DEF NoneOf, Holds, EndsIn
<1>2. \A t : EndsIn(s, i, t) => Holds(s, i, t)
  BY DEF Holds, EndsIn
<1>3. ASSUME NEW t, NEW w, EndsIn(s, i, t), EndsIn(s, i, w) PROVE t = w
  <2>1. PICK k \in 1..Len(s) : s[k].inst = i /\ s[k].type = t
                               /\ \A l \in 1..Len(s) : l > k => s[l].inst # i
    BY <1>3 DEF EndsIn
  <2>2. PICK j \in 1..Len(s) : s[j].inst = i /\ s[j].type = w
                               /\ \A l \in 1..Len(s) : l > j => s[l].inst # i
    BY <1>3 DEF EndsIn
  <2>3. ~(k < j) /\ ~(j < k)
    BY <2>1, <2>2
  <2>4. k = j
    BY <2>3
  <2>5. QED
    BY <2>1, <2>2, <2>4
<1>4. QED
  BY <1>1, <1>2, <1>3

(* A step that brings nothing new about deployment i, except that requests *)
(* may write a status that nobody reports. *)
Phases == {"sched", "stop_unsched", "re_stop", "re_sleep", "re_send"}
KeptWorker(c, i) ==
  /\ runtime'[i] = runtime[i] /\ (i \in zombie' <=> i \in zombie)
  /\ SameFor(i, toWorker[c], toWorker'[c])
Events == {"started", "stopped", "error"}
KeptEvents(c, i)  == \A t \in Events : Becomes(c, i, t)' => Becomes(c, i, t)
KeptRequest(i)    == \A pc \in Phases : At(i, pc)' <=> At(i, pc)
Kept(c, i) == KeptWorker(c, i) /\ sched'[i] = sched[i] /\ KeptEvents(c, i) /\ KeptRequest(i)

LEMMA SameQueue == \A s, i : SameFor(i, s, s)
BY DEF SameFor

LEMMA KeptIsSound ==
  ASSUME NEW c \in Conns, NEW i \in Instances, Sound(c, i), Kept(c, i)
  PROVE  Sound(c, i)'
<1>1. /\ runtime'[i] = runtime[i] /\ sched'[i] = sched[i] /\ (Healthy(i)' <=> Healthy(i))
      /\ NoneOf(toWorker[c], i)' <=> NoneOf(toWorker[c], i)
      /\ \A t : Holds(toWorker'[c], i, t) <=> Holds(toWorker[c], i, t)
      /\ \A t : EndsIn(toWorker'[c], i, t) <=> EndsIn(toWorker[c], i, t)
  BY DEF Kept, KeptWorker, SameFor, Healthy
<1>2. /\ Becomes(c, i, "started")' => Becomes(c, i, "started")
      /\ Becomes(c, i, "stopped")' => Becomes(c, i, "stopped")
      /\ Becomes(c, i, "error")' => Becomes(c, i, "error")
  BY DEF Kept, KeptEvents, Events
<1>3. /\ At(i, "sched")' <=> At(i, "sched")
      /\ At(i, "stop_unsched")' <=> At(i, "stop_unsched")
      /\ At(i, "re_stop")' <=> At(i, "re_stop")
      /\ At(i, "re_sleep")' <=> At(i, "re_sleep")
      /\ At(i, "re_send")' <=> At(i, "re_send")
  BY DEF Kept, KeptRequest, Phases
<1>4. EventsAreTrue(c, i)'
  BY <1>1, <1>2 DEF Sound, EventsAreTrue
<1>5. TicksFollow(c, i)'
  BY <1>1, <1>2, <1>3 DEF Sound, TicksFollow, MayLackTicks
<1>6. RequestsKnow(c, i)'
  BY <1>1, <1>2, <1>3 DEF Sound, RequestsKnow
<1>7. QED
  BY <1>4, <1>5, <1>6 DEF Sound

(* Events: what is sent about i is what will be; a message that is read    *)
(* has become the status.                                                  *)
LEMMA SentAboutOthers ==
  ASSUME TypeOK, NEW c \in Conns, wconn = c, NEW m \in ToCoord, WorkerSend(m),
         NEW i \in Instances \cup {NoInst}, m.inst # i, UNCHANGED status
  PROVE  SameFor(i, toCoord[c], toCoord'[c]) /\ KeptEvents(c, i)
<1>1. toCoord[c] \in Seq(ToCoord) /\ toCoord'[c] = Append(toCoord[c], m)
  BY DEF TypeOK, WorkerSend
<1>2. SameFor(i, toCoord[c], toCoord'[c])
  BY <1>1, AppendOther
<1>3. /\ NoneOf(toCoord'[c], i) <=> NoneOf(toCoord[c], i)
      /\ \A t : EndsIn(toCoord'[c], i, t) <=> EndsIn(toCoord[c], i, t)
  BY <1>2 DEF SameFor
<1>4. KeptEvents(c, i)
  BY <1>3 DEF KeptEvents, Becomes
<1>5. QED
  BY <1>2, <1>4

LEMMA Sent ==
  ASSUME TypeOK, NEW c \in Conns, wconn = c, NEW m \in ToCoord, WorkerSend(m)
  PROVE  \A t : Becomes(c, m.inst, t)' => t = m.type
<1>1. toCoord[c] \in Seq(ToCoord) /\ toCoord'[c] = Append(toCoord[c], m)
  BY DEF TypeOK, WorkerSend
<1>2. ~NoneOf(toCoord'[c], m.inst) /\ \A t : EndsIn(toCoord'[c], m.inst, t) <=> t = m.type
  BY <1>1, AppendOwn
<1>3. QED
  BY <1>2 DEF Becomes

LEMMA EventsUnchanged ==
  ASSUME NEW c \in Conns, NEW i \in Instances, UNCHANGED toCoord,
         status'[i] = status[i] \/ status'[i] \in {"starting", "stopping"}
  PROVE  KeptEvents(c, i)
BY DEF KeptEvents, Events, Becomes, Told

LEMMA ReceivedEvents ==
  ASSUME TypeOK, NEW c \in Conns, NEW m \in ToCoord, Receives(c, m), NEW i \in Instances,
         m.inst # i => status'[i] = status[i],
         m.inst = i => status'[i] = Told(m.type)
  PROVE  KeptEvents(c, i)
<1>1. toCoord[c] \in Seq(ToCoord) /\ toCoord[c] # <<>> /\ m = Head(toCoord[c])
      /\ toCoord'[c] = Tail(toCoord[c])
  BY DEF TypeOK, Receives
<1>2. CASE m.inst # i
  <2>1. SameFor(i, toCoord[c], toCoord'[c])
    BY <1>1, <1>2, TailOther
  <2>2. QED
    BY <1>2, <2>1 DEF KeptEvents, Becomes, SameFor
<1>3. CASE m.inst = i
  <2>1. \A t : EndsIn(toCoord[c], i, t) <=>
          EndsIn(toCoord'[c], i, t) \/ (NoneOf(toCoord'[c], i) /\ t = m.type)
    BY <1>1, <1>3, TailOwn
  <2>2. \A t \in Events : Told(t) = Told(m.type) => t = m.type
    BY DEF ToCoord, Events, Told
  <2>3. QED
    BY <1>3, <2>1, <2>2 DEF KeptEvents, Becomes
<1>4. QED
  BY <1>2, <1>3

(* The worker's queue. *)
LEMMA SentToWorker ==
  ASSUME TypeOK, NEW c \in Conns, NEW m \in ToWorker, Deliver(c, m)
  PROVE  /\ \A j \in Instances : j # m.inst => SameFor(j, toWorker[c], toWorker'[c])
         /\ ~NoneOf(toWorker'[c], m.inst)
         /\ \A t : Holds(toWorker'[c], m.inst, t) <=> Holds(toWorker[c], m.inst, t) \/ t = m.type
         /\ \A t : EndsIn(toWorker'[c], m.inst, t) <=> t = m.type
<1>1. toWorker[c] \in Seq(ToWorker) /\ toWorker'[c] = Append(toWorker[c], m)
  BY DEF TypeOK, Deliver
<1>2. \A j \in Instances : j # m.inst => SameFor(j, toWorker[c], toWorker'[c])
  BY <1>1, AppendOther
<1>3. QED
  BY ZenonT(40), <1>1, <1>2, AppendOwn

LEMMA ReadByWorker ==
  ASSUME TypeOK, NEW c \in Conns, wconn = c, NEW m \in ToWorker, Reads(m)
  PROVE  /\ \A j \in Instances : j # m.inst => SameFor(j, toWorker[c], toWorker'[c])
         /\ ~NoneOf(toWorker[c], m.inst)
         /\ \A t : Holds(toWorker[c], m.inst, t) <=> Holds(toWorker'[c], m.inst, t) \/ t = m.type
         /\ \A t : EndsIn(toWorker[c], m.inst, t) <=>
              EndsIn(toWorker'[c], m.inst, t) \/ (NoneOf(toWorker'[c], m.inst) /\ t = m.type)
<1>1. /\ toWorker[c] \in Seq(ToWorker) /\ toWorker[c] # <<>> /\ m = Head(toWorker[c])
      /\ toWorker'[c] = Tail(toWorker[c])
  BY DEF TypeOK, Reads
<1>2. \A j \in Instances : j # m.inst => SameFor(j, toWorker[c], toWorker'[c])
  BY <1>1, TailOther
<1>3. /\ ~NoneOf(toWorker[c], m.inst)
      /\ \A t : Holds(toWorker[c], m.inst, t) <=> Holds(Tail(toWorker[c]), m.inst, t) \/ t = m.type
      /\ \A t : EndsIn(toWorker[c], m.inst, t) <=>
           EndsIn(Tail(toWorker[c]), m.inst, t) \/ (NoneOf(Tail(toWorker[c]), m.inst) /\ t = m.type)
  BY <1>1, TailOwn
<1>4. QED
  BY <1>1, <1>2, <1>3

LEMMA WorkerQueues ==
  ASSUME TypeOK, NEW c \in Conns, NEW i \in Instances
  PROVE  /\ NoneOf(toWorker[c], i) => \A t : ~Holds(toWorker[c], i, t) /\ ~EndsIn(toWorker[c], i, t)
         /\ ~(EndsIn(toWorker[c], i, "start") /\ EndsIn(toWorker[c], i, "stop"))
<1>1. toWorker[c] \in Seq(ToWorker)
  BY DEF TypeOK
<1>2. "start" # "stop"
  OBVIOUS
<1>3. QED
  BY <1>1, <1>2, OneEnd

(* The phase of the one request that works on a deployment. *)
LEMMA RequestPhases ==
  ASSUME TypeOK, Targeted, Separate, NEW u \in Requests, RequestStep(u)
  PROVE  /\ req[u].inst \in Instances
         /\ \A pc \in Phases : At(req[u].inst, pc) <=> req[u].pc = pc
         /\ \A j \in Instances : j # req[u].inst => KeptRequest(j)
<1>t. req \in [Requests -> Request]
  BY DEF TypeOK
<1>1. req[u].pc # "idle" /\ req[u].inst \in Instances
  BY RequestMoves DEF Targeted
<1>2. \A v \in Requests : v # u /\ req[v].pc # "idle" => req[v].inst # req[u].inst
  BY <1>1 DEF Separate
<1>3. \A pc \in Phases : At(req[u].inst, pc) <=> req[u].pc = pc
  BY <1>2 DEF At, Phases
<1>4. /\ \A v \in Requests : v # u => req'[v] = req[v]
      /\ req'[u].pc = "idle" \/ req'[u].inst = req[u].inst
  BY <1>t, RequestMoves DEF IdleReq
<1>5. ASSUME NEW j \in Instances, j # req[u].inst PROVE KeptRequest(j)
  BY <1>4, <1>5 DEF KeptRequest, At, Phases
<1>6. QED
  BY <1>1, <1>3, <1>5

LEMMA RequestPhasesAfter ==
  ASSUME TypeOK, Targeted, Separate, NEW u \in Requests, RequestStep(u), NEW i, i = req[u].inst
  PROVE  \A pc \in Phases : At(i, pc)' <=> req'[u].pc = pc
<1>t. req \in [Requests -> Request]
  BY DEF TypeOK
<1>1. \A v \in Requests : v # u /\ req[v].pc # "idle" => req[v].inst # i
  BY RequestMoves DEF Separate
<1>2. /\ \A v \in Requests : v # u => req'[v] = req[v]
      /\ req'[u].pc = "idle" \/ req'[u].inst = i
  BY <1>t, RequestMoves DEF IdleReq
<1>3. QED
  BY <1>1, <1>2 DEF At, Phases

LEMMA FirstPhases ==
  ASSUME TypeOK, NEW u \in Requests, NEW i \in Instances,
         StartCheck(u, i) \/ StopCommit(u, i) \/ RedeployRead(u, i)
  PROVE  \A j \in Instances : KeptRequest(j)
<1>t. req \in [Requests -> Request]
  BY DEF TypeOK
<1>1. /\ req[u].pc = "idle" /\ req'[u].pc \in {"commit", "stop_send", "re_begin"}
      /\ \A v \in Requests : v # u => req'[v] = req[v]
  BY <1>t, FirstSteps DEF May, IdleReq
<1>2. QED
  BY <1>1 DEF KeptRequest, At, Phases

LEMMA SameRequests == \A i : UNCHANGED req => KeptRequest(i)
BY DEF KeptRequest, At

LEMMA SameWorker ==
  ASSUME NEW c, NEW i, UNCHANGED <<runtime, zombie, toWorker>>
  PROVE  KeptWorker(c, i)
BY SameQueue DEF KeptWorker

(* What cannot happen on a connection that is never lost. *)
LEMMA NeverLost ==
  ASSUME NEW c, OneConnection(c), TypeOK, LinkInv(c)
  PROVE  /\ ~Lose /\ ~Crash /\ ~Notice(c)
         /\ ~ReconcileSend(c) /\ ~ReconcileSchedule(c)
         /\ ~DisconnectRead(c) /\ ~DisconnectCommit(c) /\ ~DropWorker(c) /\ ~Sweep
         /\ \A i \in Instances : ~LateTicksFail(i)
         /\ wconn \in {NoConn, c} /\ registered \in {NoConn, c}
<1>1. wconn \in {NoConn, c} /\ registered \in {NoConn, c}
  BY DEF OneConnection, TypeOK
<1>2. ~Lose /\ ~Crash
  BY <1>1 DEF OneConnection, LinkInv, Lose, Crash, MoreConns
<1>3. hpc[c] # "none" => link[c] = "open"
  BY DEF LinkInv
<1>4. hpc[c] \in {"none", "recv", "hb_read", "hb_commit", "rec_select", "rec_send"}
  BY DEF LinkInv
<1>5. ~Notice(c) /\ ~ReconcileSend(c)
  BY <1>3 DEF Notice, ReconcileSend, Raise, LinkInv
<1>6. ~ReconcileSchedule(c) /\ ~DisconnectRead(c) /\ ~DisconnectCommit(c) /\ ~DropWorker(c)
  BY <1>4 DEF ReconcileSchedule, DisconnectRead, DisconnectCommit, DropWorker
<1>7. ~Sweep
  <2>1. wconn = NoConn => wstatus # "online"
    BY DEF LinkInv, Nothing
  <2>2. ~(stalls < MaxStalls)
    BY DEF OneConnection, TypeOK
  <2>3. QED
    BY <2>1, <2>2 DEF Sweep
<1>8. \A i \in Instances : ~LateTicksFail(i)
  BY DEF LinkInv, LateTicksFail
<1>9. QED
  BY <1>1, <1>2, <1>5, <1>6, <1>7, <1>8

(* Connections, heartbeats and handlers bring nothing new. *)
LEMMA HandlersKeep ==
  ASSUME NEW c, OneConnection(c), TypeOK, LinkInv(c), NEW i \in Instances,
         Connect(c) \/ SendHeartbeat \/ HandlerStep(c)
  PROVE  Kept(c, i)
<1>c. c \in Conns
  BY DEF OneConnection
<1>s. status \in [Instances -> InstanceStatus]
  BY DEF TypeOK
<1>m. /\ Heartbeat \in ToCoord /\ Heartbeat.inst # i
      /\ \A t \in Events, j \in Instances :
           Event(t, j) \in ToCoord /\ Event(t, j).inst = j /\ Event(t, j).type = t
  BY ConstantsAssumption DEF Heartbeat, Event, Events, ToCoord
<1>1. CASE Connect(c)
  BY <1>1, <1>c, EventsUnchanged, SameRequests, SameWorker DEF Connect, Kept, dbVars
<1>2. CASE SendHeartbeat
  <2>1. wconn = c
    BY <1>2, NeverLost DEF SendHeartbeat
  <2>2. KeptEvents(c, i)
    BY <1>2, <1>c, <1>m, <2>1, SentAboutOthers DEF SendHeartbeat, dbVars
  <2>3. QED
    BY <1>2, <2>2, SameRequests, SameWorker DEF SendHeartbeat, Kept, wkVars
<1>3. CASE HeartbeatReceive(c)
  <2>1. KeptEvents(c, i)
    BY <1>3, <1>c, <1>m, ReceivedEvents DEF HeartbeatReceive, dbVars
  <2>2. QED
    BY <1>3, <2>1, SameRequests, SameWorker DEF HeartbeatReceive, Kept, wkVars
<1>4. CASE HeartbeatRead(c) \/ HeartbeatCommit(c) \/ ReconcileSelect(c) \/ ReconcileDone(c)
  <2>1. UNCHANGED <<status, sched, req, toCoord, toWorker, runtime, zombie>>
    BY <1>4 DEF HeartbeatRead, HeartbeatCommit, ReconcileSelect, ReconcileDone, dbVars, wkVars
  <2>2. KeptEvents(c, i)
    BY <1>c, <2>1, EventsUnchanged
  <2>3. QED
    BY <2>1, <2>2, SameRequests, SameWorker DEF Kept
<1>5. ASSUME NEW j \in Instances, InstanceStarted(c, j) \/ InstanceStopped(c, j) \/ InstanceError(c, j)
      PROVE  Kept(c, i)
  <2>1. PICK t \in Events : Receives(c, Event(t, j)) /\ status' = [status EXCEPT ![j] = Told(t)]
    BY <1>5 DEF InstanceStarted, InstanceStopped, InstanceError, ErrorStatus, Told, Events
  <2>2. status'[j] = Told(t) /\ (j # i => status'[i] = status[i])
    BY <1>s, <2>1
  <2>3. KeptEvents(c, i)
    BY <1>c, <1>m, <2>1, <2>2, ReceivedEvents
  <2>4. UNCHANGED <<sched, req, toWorker, runtime, zombie>>
    BY <1>5 DEF InstanceStarted, InstanceStopped, InstanceError, wkVars
  <2>5. QED
    BY <2>3, <2>4, SameRequests, SameWorker DEF Kept
<1>6. QED
  BY <1>1, <1>2, <1>3, <1>4, <1>5, NeverLost DEF HandlerStep

(* A message that the worker reads, for the deployment that it is about. *)
LEMMA ReadsOwn ==
  ASSUME NEW c, OneConnection(c), TypeOK, wconn = c, NEW m \in ToWorker, Reads(m)
  PROVE  /\ ~NoneOf(toWorker[c], m.inst)
         /\ \A t : Holds(toWorker[c], m.inst, t) <=> Holds(toWorker[c], m.inst, t)' \/ t = m.type
         /\ \A t : EndsIn(toWorker[c], m.inst, t)' => EndsIn(toWorker[c], m.inst, t)
         /\ \A t : EndsIn(toWorker[c], m.inst, t) /\ t # m.type => EndsIn(toWorker[c], m.inst, t)'
         /\ NoneOf(toWorker[c], m.inst)' => EndsIn(toWorker[c], m.inst, m.type)
         /\ EndsIn(toWorker[c], m.inst, m.type) =>
              EndsIn(toWorker[c], m.inst, m.type)' \/ NoneOf(toWorker[c], m.inst)'
<1>1. c \in Conns
  BY DEF OneConnection
<1>2. QED
  BY <1>1, ReadByWorker

LEMMA StartReadIsSound ==
  ASSUME NEW c, OneConnection(c), TypeOK, wconn = c, NEW m \in ToWorker, Sound(c, m.inst),
         m.run # NoRun, IgnoreDuplicateStart(m) \/ BringUp(m)
  PROVE  Sound(c, m.inst)'
<1> DEFINE i == m.inst
<1>i. i \in Instances /\ m.type = "start" /\ Reads(m) /\ i = m.inst /\ c \in Conns
  BY DEF ToWorker, IgnoreDuplicateStart, BringUp, OneConnection
<1> HIDE DEF i
<1>s. EventsAreTrue(c, i) /\ TicksFollow(c, i) /\ RequestsKnow(c, i)
  BY <1>i DEF Sound
<1>1. UNCHANGED <<sched, req>>
  BY DEF IgnoreDuplicateStart, BringUp
<1>2. KeptRequest(i)
  BY <1>1, SameRequests
<1>p. /\ At(i, "sched")' <=> At(i, "sched")
      /\ At(i, "stop_unsched")' <=> At(i, "stop_unsched")
      /\ At(i, "re_stop")' <=> At(i, "re_stop")
      /\ At(i, "re_sleep")' <=> At(i, "re_sleep")
      /\ At(i, "re_send")' <=> At(i, "re_send")
  BY <1>2 DEF KeptRequest, Phases
<1>q. /\ ~NoneOf(toWorker[c], i)
      /\ Holds(toWorker[c], i, "start")
      /\ Holds(toWorker[c], i, "stop") => Holds(toWorker[c], i, "stop")'
      /\ EndsIn(toWorker[c], i, "start")' => EndsIn(toWorker[c], i, "start")
      /\ EndsIn(toWorker[c], i, "stop")' <=> EndsIn(toWorker[c], i, "stop")
      /\ NoneOf(toWorker[c], i)' => EndsIn(toWorker[c], i, "start")
      /\ EndsIn(toWorker[c], i, "start") => EndsIn(toWorker[c], i, "start")' \/ NoneOf(toWorker[c], i)'
  BY <1>i, ReadsOwn
<1>b. i \notin BadCredentials
  BY <1>s, <1>q DEF RequestsKnow
<1>e. /\ Becomes(c, i, "started")' => Healthy(i)'
      /\ ~Becomes(c, i, "stopped")'
      /\ Becomes(c, i, "error")' => ~Healthy(i)' \/ Holds(toWorker[c], i, "stop")'
  <2>1. CASE IgnoreDuplicateStart(m)
    <3>1. Healthy(i) /\ Healthy(i)' /\ UNCHANGED <<status, toCoord>>
      BY <1>i, <2>1 DEF IgnoreDuplicateStart, Healthy, dbVars, wkVars
    <3>2. /\ Becomes(c, i, "started")' => Becomes(c, i, "started")
          /\ Becomes(c, i, "stopped")' => Becomes(c, i, "stopped")
          /\ Becomes(c, i, "error")' => Becomes(c, i, "error")
      BY <1>i, <3>1, EventsUnchanged DEF KeptEvents, Events
    <3>3. QED
      BY <1>s, <1>q, <3>1, <3>2 DEF EventsAreTrue, Healthy
  <2>2. CASE BringUp(m)
    <3>m. \A t \in Events : Event(t, i) \in ToCoord /\ Event(t, i).inst = i /\ Event(t, i).type = t
      BY <1>i DEF Event, Events, ToCoord
    <3>1. CASE /\ runtime' = [runtime EXCEPT ![m.inst] = m.run]
               /\ WorkerSend(Event("started", m.inst))
      <4>1. \A t : Becomes(c, i, t)' => t = "started"
        BY <1>i, <3>1, <3>m, Sent DEF Events
      <4>2. Becomes(c, i, "started")' => Healthy(i)'
        <5>1. zombie' = zombie \ {i}
          BY <1>i, <2>2 DEF BringUp
        <5>2. runtime'[i] = m.run
          BY <1>i, <3>1 DEF TypeOK
        <5>3. QED
          BY <5>1, <5>2 DEF Healthy
      <4>3. QED
        BY <4>1, <4>2
    <3>2. CASE /\ runtime' = [runtime EXCEPT ![m.inst] = NoRun]
               /\ WorkerSend(Event("error", m.inst))
      <4>1. \A t : Becomes(c, i, t)' => t = "error"
        BY <1>i, <3>2, <3>m, Sent DEF Events
      <4>2. ~Healthy(i)'
        BY <1>i, <3>2 DEF Healthy, TypeOK
      <4>3. QED
        BY <4>1, <4>2
    <3>3. QED
      BY <2>2, <3>1, <3>2 DEF BringUp
  <2>3. QED
    BY <2>1, <2>2
<1>3. EventsAreTrue(c, i)'
  BY <1>e DEF EventsAreTrue
<1>4. TicksFollow(c, i)'
  BY <1>s, <1>1, <1>p, <1>q, <1>e DEF TicksFollow, MayLackTicks
<1>5. RequestsKnow(c, i)'
  BY <1>s, <1>1, <1>p, <1>q, <1>e, <1>b DEF RequestsKnow
<1>6. QED
  BY <1>i, <1>3, <1>4, <1>5 DEF Sound

LEMMA StopReadIsSound ==
  ASSUME NEW c, OneConnection(c), TypeOK, wconn = c, NEW m \in ToWorker, Sound(c, m.inst),
         StopInstance(m)
  PROVE  Sound(c, m.inst)'
<1> DEFINE i == m.inst
<1>i. i \in Instances /\ m.type = "stop" /\ Reads(m) /\ i = m.inst /\ c \in Conns
  BY DEF ToWorker, StopInstance, OneConnection
<1> HIDE DEF i
<1>s. EventsAreTrue(c, i) /\ TicksFollow(c, i) /\ RequestsKnow(c, i)
  BY <1>i DEF Sound
<1>1. UNCHANGED <<sched, req>> /\ runtime'[i] = NoRun /\ ~Healthy(i)'
  BY <1>i DEF StopInstance, TypeOK, Healthy
<1>2. KeptRequest(i)
  BY <1>1, SameRequests
<1>p. /\ At(i, "sched")' <=> At(i, "sched")
      /\ At(i, "stop_unsched")' <=> At(i, "stop_unsched")
      /\ At(i, "re_stop")' <=> At(i, "re_stop")
      /\ At(i, "re_sleep")' <=> At(i, "re_sleep")
      /\ At(i, "re_send")' <=> At(i, "re_send")
  BY <1>2 DEF KeptRequest, Phases
<1>q. /\ ~NoneOf(toWorker[c], i)
      /\ Holds(toWorker[c], i, "start")' => Holds(toWorker[c], i, "start")
      /\ EndsIn(toWorker[c], i, "start")' <=> EndsIn(toWorker[c], i, "start")
      /\ EndsIn(toWorker[c], i, "stop")' => EndsIn(toWorker[c], i, "stop")
      /\ NoneOf(toWorker[c], i)' => EndsIn(toWorker[c], i, "stop")
      /\ EndsIn(toWorker[c], i, "stop") => EndsIn(toWorker[c], i, "stop")' \/ NoneOf(toWorker[c], i)'
  BY <1>i, ReadsOwn
<1>e. ~Becomes(c, i, "started")' /\ ~Becomes(c, i, "error")'
  <2>1. Event("stopped", i) \in ToCoord /\ Event("stopped", i).inst = i
        /\ Event("stopped", i).type = "stopped"
    BY <1>i DEF Event, ToCoord
  <2>2. \A t : Becomes(c, i, t)' => t = "stopped"
    BY <1>i, <2>1, Sent DEF StopInstance, AnswerStop
  <2>3. QED
    BY <2>2
<1>3. EventsAreTrue(c, i)'
  BY <1>1, <1>e DEF EventsAreTrue
<1>4. TicksFollow(c, i)'
  BY <1>s, <1>1, <1>p, <1>q, <1>e DEF TicksFollow, MayLackTicks
<1>5. RequestsKnow(c, i)'
  BY <1>s, <1>1, <1>p, <1>q, <1>e DEF RequestsKnow
<1>6. QED
  BY <1>i, <1>3, <1>4, <1>5 DEF Sound

LEMMA FailureIsSound ==
  ASSUME NEW c, OneConnection(c), TypeOK, wconn = c, NEW i \in Instances, Sound(c, i), TickFails(i)
  PROVE  Sound(c, i)'
<1>c. c \in Conns
  BY DEF OneConnection
<1>s. EventsAreTrue(c, i) /\ TicksFollow(c, i) /\ RequestsKnow(c, i)
  BY DEF Sound
<1>1. UNCHANGED <<sched, req, toWorker, runtime>> /\ ~Healthy(i)'
  BY DEF TickFails, GiveUp, Healthy
<1>2. KeptRequest(i)
  BY <1>1, SameRequests
<1>p. /\ At(i, "sched")' <=> At(i, "sched")
      /\ At(i, "stop_unsched")' <=> At(i, "stop_unsched")
      /\ At(i, "re_stop")' <=> At(i, "re_stop")
      /\ At(i, "re_sleep")' <=> At(i, "re_sleep")
      /\ At(i, "re_send")' <=> At(i, "re_send")
  BY <1>2 DEF KeptRequest, Phases
<1>e. ~Becomes(c, i, "started")' /\ ~Becomes(c, i, "stopped")'
  <2>1. Event("error", i) \in ToCoord /\ Event("error", i).inst = i /\ Event("error", i).type = "error"
    BY DEF Event, ToCoord
  <2>2. \A t : Becomes(c, i, t)' => t = "error"
    BY <1>c, <2>1, Sent DEF TickFails
  <2>3. QED
    BY <2>2
<1>3. EventsAreTrue(c, i)'
  BY <1>1, <1>e DEF EventsAreTrue
<1>4. TicksFollow(c, i)'
  BY <1>s, <1>1, <1>p, <1>e DEF TicksFollow, MayLackTicks
<1>5. RequestsKnow(c, i)'
  BY <1>s, <1>1, <1>p, <1>e DEF RequestsKnow
<1>6. QED
  BY <1>3, <1>4, <1>5 DEF Sound

(* The worker's steps, for every deployment. *)
LEMMA WorkerIsSound ==
  ASSUME NEW c, OneConnection(c), TypeOK, LinkInv(c), NEW i \in Instances, Sound(c, i),
         \/ \E m \in ToWorker : /\ m.type = "start" => m.run # NoRun
                                /\ IgnoreDuplicateStart(m) \/ BringUp(m) \/ StopInstance(m)
         \/ \E j \in Instances : TickFails(j)
  PROVE  Sound(c, i)'
<1>c. c \in Conns
  BY DEF OneConnection
<1>m. \A t \in Events, j \in Instances :
        Event(t, j) \in ToCoord /\ Event(t, j).inst = j /\ Event(t, j).type = t
  BY DEF Event, Events, ToCoord
<1>r. runtime \in [Instances -> Runs \cup {NoRun}]
  BY DEF TypeOK
<1>1. ASSUME NEW m \in ToWorker, m.type = "start" => m.run # NoRun,
             IgnoreDuplicateStart(m) \/ BringUp(m) \/ StopInstance(m)
      PROVE  Sound(c, i)'
  <2>w. wconn = c /\ Reads(m) /\ m.inst \in Instances
    BY <1>1, NeverLost DEF IgnoreDuplicateStart, BringUp, StopInstance, Reads, ToWorker
  <2>1. CASE m.inst = i
    BY <1>1, <2>w, <2>1, StartReadIsSound, StopReadIsSound DEF IgnoreDuplicateStart, BringUp
  <2>2. CASE m.inst # i
    <3>1. SameFor(i, toWorker[c], toWorker'[c])
      BY <1>c, <2>w, <2>2, ReadByWorker
    <3>2. KeptWorker(c, i) /\ UNCHANGED <<status, sched, req>>
      BY <1>1, <1>r, <2>w, <2>2, <3>1
      DEF IgnoreDuplicateStart, BringUp, StopInstance, KeptWorker, dbVars, wkVars
    <3>3. KeptEvents(c, i)
      <4>1. CASE UNCHANGED toCoord
        BY <1>c, <3>2, <4>1, EventsUnchanged
      <4>2. ASSUME NEW t \in Events, WorkerSend(Event(t, m.inst)) PROVE KeptEvents(c, i)
        BY <1>c, <1>m, <2>w, <2>2, <3>2, <4>2, SentAboutOthers
      <4>3. QED
        BY <1>1, <4>1, <4>2 DEF IgnoreDuplicateStart, BringUp, StopInstance, AnswerStop, Events
    <3>4. QED
      BY <1>c, <3>2, <3>3, SameRequests, KeptIsSound DEF Kept
  <2>3. QED
    BY <2>1, <2>2
<1>2. ASSUME NEW j \in Instances, TickFails(j) PROVE Sound(c, i)'
  <2>w. wconn = c
    <3>1. wconn # NoConn
      BY <1>2 DEF TickFails, LinkInv, Nothing
    <3>2. QED
      BY <3>1, NeverLost
  <2>1. CASE j = i
    BY <1>2, <2>w, <2>1, FailureIsSound
  <2>2. CASE j # i
    <3>1. KeptEvents(c, i)
      BY <1>2, <1>c, <1>m, <2>w, <2>2, SentAboutOthers DEF TickFails, Events, dbVars
    <3>2. KeptWorker(c, i) /\ UNCHANGED <<sched, req>>
      BY <1>2, <2>2, SameQueue DEF TickFails, GiveUp, KeptWorker
    <3>3. QED
      BY <1>c, <3>1, <3>2, SameRequests, KeptIsSound DEF Kept
  <2>3. QED
    BY <2>1, <2>2
<1>3. CASE \E m \in ToWorker : /\ m.type = "start" => m.run # NoRun
                               /\ IgnoreDuplicateStart(m) \/ BringUp(m) \/ StopInstance(m)
  BY <1>1, <1>3
<1>4. CASE \E j \in Instances : TickFails(j)
  BY <1>2, <1>4
<1>5. QED
  BY <1>3, <1>4

(* A request's step, for another deployment than its own. *)
LEMMA RequestsLeaveOthers ==
  ASSUME NEW c, OneConnection(c), TypeOK, Targeted, Separate, NEW u \in Requests, RequestStep(u),
         NEW j \in Instances, j # req[u].inst
  PROVE  Kept(c, j)
<1>c. c \in Conns
  BY DEF OneConnection
<1>t. /\ status \in [Instances -> InstanceStatus] /\ sched \in [Instances -> Runs \cup {NoRun}]
      /\ req \in [Requests -> Request] /\ req[u].inst \in Instances
      /\ registered \in Conns \cup {NoConn}
  BY RequestPhases DEF TypeOK
<1>1. KeptRequest(j)
  BY RequestPhases
<1>2. UNCHANGED <<runtime, zombie, toCoord>> /\ status'[j] = status[j] /\ sched'[j] = sched[j]
  <2>1. CASE PreStartChecksFail(u) \/ StartSend(u) \/ StartSchedule(u) \/ StopSend(u) \/ StopUnschedule(u)
    BY <1>t, <2>1 DEF PreStartChecksFail, StartSend, SendStart, StartError, StartSchedule, Schedule,
       StopSend, StopUnschedule, Unschedule, dbVars, wkVars
  <2>2. CASE RedeployStop(u) \/ RedeployUnschedule(u) \/ RedeploySendStop(u) \/ RedeploySend(u)
    BY <1>t, <2>2 DEF RedeployStop, RedeployUnschedule, Unschedule, RedeploySendStop, RedeploySend,
       SendStart, StartError, dbVars, wkVars
  <2>3. ASSUME NEW r \in Runs, StartCommit(u, r) \/ RedeployCommit(u, r)
        PROVE  UNCHANGED <<runtime, zombie, toCoord>> /\ status'[j] = status[j] /\ sched'[j] = sched[j]
    BY <1>t, <2>3 DEF StartCommit, RedeployCommit, NewRun, wkVars
  <2>4. QED
    BY <2>1, <2>2, <2>3 DEF RequestStep
<1>3. SameFor(j, toWorker[c], toWorker'[c])
  <2>1. ASSUME NEW d \in Conns, NEW m \in ToWorker, m.inst = req[u].inst, Deliver(d, m)
        PROVE  SameFor(j, toWorker[c], toWorker'[c])
    BY <1>c, <2>1, SentToWorker DEF OneConnection
  <2>2. CASE UNCHANGED toWorker
    BY <2>2, SameQueue
  <2>3. /\ \A r \in Runs \cup {NoRun} : /\ StartMsg(req[u].inst, r) \in ToWorker
                                        /\ StartMsg(req[u].inst, r).inst = req[u].inst
        /\ StopMsg(req[u].inst) \in ToWorker /\ StopMsg(req[u].inst).inst = req[u].inst
    BY <1>t DEF StartMsg, StopMsg, ToWorker
  <2>4. req[u].conn \in Conns \cup {NoConn} /\ req[u].run \in Runs \cup {NoRun}
    BY <1>t DEF Request
  <2>5. ASSUME NEW d \in Conns \cup {NoConn}, SendStart(u, d)
        PROVE  SameFor(j, toWorker[c], toWorker'[c])
    <3>1. UNCHANGED toWorker \/ (d # NoConn /\ Deliver(d, StartMsg(req[u].inst, req[u].run)))
      BY <2>5 DEF SendStart, Vanish
    <3>2. QED
      BY <3>1, <2>1, <2>2, <2>3, <2>4
  <2>6. CASE SendStop(u)
    BY <2>6, <2>1, <2>2, <2>3, <2>4 DEF SendStop
  <2>7. CASE StartSend(u) \/ RedeploySend(u)
    BY <1>t, <2>2, <2>4, <2>5, <2>7 DEF StartSend, RedeploySend
  <2>8. CASE StopSend(u) \/ RedeploySendStop(u)
    BY <2>6, <2>8 DEF StopSend, RedeploySendStop
  <2>9. CASE PreStartChecksFail(u) \/ StartSchedule(u) \/ StopUnschedule(u) \/ RedeployStop(u)
             \/ RedeployUnschedule(u)
    BY <2>2, <2>9 DEF PreStartChecksFail, StartSchedule, StopUnschedule, RedeployStop,
       RedeployUnschedule
  <2>10. ASSUME NEW r \in Runs, StartCommit(u, r) \/ RedeployCommit(u, r)
         PROVE  SameFor(j, toWorker[c], toWorker'[c])
    BY <2>2, <2>10 DEF StartCommit, RedeployCommit
  <2>11. QED
    BY <2>7, <2>8, <2>9, <2>10 DEF RequestStep
<1>4. KeptEvents(c, j)
  BY <1>c, <1>2, EventsUnchanged
<1>5. QED
  BY <1>1, <1>2, <1>3, <1>4 DEF Kept, KeptWorker

(* What the steps of a request do to its own deployment: it ends, perhaps  *)
(* in error, sends a start or a stop, or sets the ticks.                   *)
Resting(i) == \A pc \in Phases : ~At(i, pc)
InPhase(i, p) == \A pc \in Phases : At(i, pc) <=> pc = p

LEMMA EndIsSound ==
  ASSUME NEW c \in Conns, NEW i \in Instances, Sound(c, i),
         UNCHANGED <<toCoord, toWorker, runtime, zombie, sched>>,
         \/ status'[i] = status[i]
         \/ status'[i] = "error" /\ (~Healthy(i) \/ Holds(toWorker[c], i, "stop")),
         ~At(i, "sched"), ~At(i, "re_stop"), ~At(i, "stop_unsched"), Resting(i)'
  PROVE  Sound(c, i)'
<1>s. EventsAreTrue(c, i) /\ TicksFollow(c, i) /\ RequestsKnow(c, i)
  BY DEF Sound
<1>1. /\ Becomes(c, i, "started")' => Becomes(c, i, "started")
      /\ Becomes(c, i, "stopped")' => Becomes(c, i, "stopped")
  BY DEF Becomes, Told
<1>2. /\ Healthy(i)' <=> Healthy(i)
      /\ ~At(i, "sched")' /\ ~At(i, "stop_unsched")' /\ ~At(i, "re_stop")'
      /\ ~At(i, "re_sleep")' /\ ~At(i, "re_send")'
  BY DEF Healthy, Resting, Phases
<1>e. Becomes(c, i, "error")' => ~Healthy(i) \/ Holds(toWorker[c], i, "stop")
  <2>1. CASE status'[i] = status[i]
    <3>1. Becomes(c, i, "error")' => Becomes(c, i, "error")
      BY <2>1 DEF Becomes
    <3>2. QED
      BY <1>s, <3>1 DEF EventsAreTrue
  <2>2. QED
    BY <2>1
<1>3. EventsAreTrue(c, i)'
  BY <1>s, <1>1, <1>2, <1>e DEF EventsAreTrue
<1>4. TicksFollow(c, i)'
  BY <1>s, <1>1, <1>2 DEF TicksFollow, MayLackTicks
<1>5. RequestsKnow(c, i)'
  BY <1>s, <1>2 DEF RequestsKnow
<1>6. QED
  BY <1>3, <1>4, <1>5 DEF Sound

LEMMA StartSentIsSound ==
  ASSUME NEW c \in Conns, TypeOK, NEW i \in Instances, Sound(c, i), i \notin BadCredentials,
         NEW r \in Runs \cup {NoRun}, Deliver(c, StartMsg(i, r)),
         UNCHANGED <<toCoord, runtime, zombie, status>>, InPhase(i, "sched")'
  PROVE  Sound(c, i)'
<1>s. EventsAreTrue(c, i)
  BY DEF Sound
<1>m. StartMsg(i, r) \in ToWorker /\ StartMsg(i, r).inst = i /\ StartMsg(i, r).type = "start"
  BY DEF StartMsg, ToWorker
<1>1. /\ ~NoneOf(toWorker[c], i)'
      /\ Holds(toWorker[c], i, "stop")' <=> Holds(toWorker[c], i, "stop")
      /\ EndsIn(toWorker[c], i, "start")' /\ ~EndsIn(toWorker[c], i, "stop")'
  BY <1>m, SentToWorker
<1>2. /\ Becomes(c, i, "started")' => Becomes(c, i, "started")
      /\ Becomes(c, i, "stopped")' => Becomes(c, i, "stopped")
      /\ Becomes(c, i, "error")' => Becomes(c, i, "error")
      /\ Healthy(i)' <=> Healthy(i)
  BY DEF Becomes, Healthy
<1>3. /\ At(i, "sched")' /\ ~At(i, "stop_unsched")' /\ ~At(i, "re_stop")'
      /\ ~At(i, "re_sleep")' /\ ~At(i, "re_send")'
  BY DEF InPhase, Phases
<1>4. EventsAreTrue(c, i)'
  BY <1>s, <1>1, <1>2 DEF EventsAreTrue
<1>5. TicksFollow(c, i)'
  BY <1>1, <1>3 DEF TicksFollow, MayLackTicks
<1>6. RequestsKnow(c, i)'
  BY <1>1, <1>3 DEF RequestsKnow
<1>7. QED
  BY <1>4, <1>5, <1>6 DEF Sound

(* A stop is sent while the ticks still flow, or after they were stopped. *)
LEMMA StopSentIsSound ==
  ASSUME NEW c \in Conns, TypeOK, NEW i \in Instances, Sound(c, i), Deliver(c, StopMsg(i)),
         UNCHANGED <<toCoord, runtime, zombie, status, sched>>,
         InPhase(i, "stop_unsched")' \/ (sched[i] = NoRun /\ InPhase(i, "re_sleep")')
  PROVE  Sound(c, i)'
<1>s. EventsAreTrue(c, i) /\ RequestsKnow(c, i)
  BY DEF Sound
<1>m. StopMsg(i) \in ToWorker /\ StopMsg(i).inst = i /\ StopMsg(i).type = "stop"
  BY DEF StopMsg, ToWorker
<1>q. /\ ~NoneOf(toWorker'[c], i)
      /\ \A t : Holds(toWorker'[c], i, t) <=> Holds(toWorker[c], i, t) \/ t = "stop"
      /\ \A t : EndsIn(toWorker'[c], i, t) <=> t = "stop"
  BY <1>m, SentToWorker
<1>1. /\ ~NoneOf(toWorker[c], i)'
      /\ Holds(toWorker[c], i, "stop")'
      /\ Holds(toWorker[c], i, "start")' <=> Holds(toWorker[c], i, "start")
      /\ EndsIn(toWorker[c], i, "stop")' /\ ~EndsIn(toWorker[c], i, "start")'
  BY <1>q
<1>2. /\ Becomes(c, i, "started")' => Becomes(c, i, "started")
      /\ Becomes(c, i, "stopped")' => Becomes(c, i, "stopped")
      /\ Healthy(i)' <=> Healthy(i)
  BY DEF Becomes, Healthy
<1>3. /\ At(i, "stop_unsched")' \/ sched'[i] = NoRun
      /\ ~At(i, "sched")' /\ ~At(i, "re_stop")'
  BY DEF InPhase, Phases
<1>4. EventsAreTrue(c, i)'
  BY <1>s, <1>1, <1>2 DEF EventsAreTrue
<1>5. TicksFollow(c, i)'
  BY <1>1, <1>3 DEF TicksFollow
<1>6. RequestsKnow(c, i)'
  BY <1>s, <1>1, <1>3 DEF RequestsKnow
<1>7. QED
  BY <1>4, <1>5, <1>6 DEF Sound

(* The scheduler's entry is made or removed, or the redeploy's new run is. *)
LEMMA TicksSetIsSound ==
  ASSUME NEW c \in Conns, TypeOK, NEW i \in Instances, Sound(c, i),
         UNCHANGED <<toCoord, toWorker, runtime, zombie, status>>,
         \/ At(i, "sched") /\ sched'[i] # NoRun /\ Resting(i)'
         \/ At(i, "stop_unsched") /\ sched'[i] = NoRun /\ Resting(i)'
         \/ sched'[i] = NoRun /\ InPhase(i, "re_stop")'
  PROVE  Sound(c, i)'
<1>s. EventsAreTrue(c, i) /\ TicksFollow(c, i) /\ RequestsKnow(c, i)
  BY DEF Sound
<1>1. /\ Becomes(c, i, "started")' <=> Becomes(c, i, "started")
      /\ Becomes(c, i, "stopped")' <=> Becomes(c, i, "stopped")
      /\ Becomes(c, i, "error")' <=> Becomes(c, i, "error")
      /\ Healthy(i)' <=> Healthy(i)
  BY DEF Becomes, Healthy
<1>2. /\ ~At(i, "sched")' /\ ~At(i, "stop_unsched")'
      /\ ~At(i, "re_sleep")' /\ ~At(i, "re_send")'
      /\ At(i, "re_stop")' => sched'[i] = NoRun
  BY DEF InPhase, Resting, Phases
<1>3. /\ NoneOf(toWorker[c], i) => ~EndsIn(toWorker[c], i, "start") /\ ~EndsIn(toWorker[c], i, "stop")
      /\ ~(EndsIn(toWorker[c], i, "start") /\ EndsIn(toWorker[c], i, "stop"))
  BY WorkerQueues
<1>4. EventsAreTrue(c, i)'
  BY <1>s, <1>1 DEF EventsAreTrue
<1>5. RequestsKnow(c, i)'
  BY <1>s, <1>2 DEF RequestsKnow
<1>6. TicksFollow(c, i)'
  <2>1. CASE At(i, "sched") /\ sched'[i] # NoRun
    BY <1>s, <1>1, <1>3, <2>1 DEF TicksFollow, RequestsKnow, MayLackTicks
  <2>2. CASE At(i, "stop_unsched") /\ sched'[i] = NoRun
    BY <1>s, <1>1, <1>3, <2>2 DEF TicksFollow, RequestsKnow, MayLackTicks
  <2>3. CASE sched'[i] = NoRun /\ InPhase(i, "re_stop")'
    <3>1. At(i, "re_stop")'
      BY <2>3 DEF InPhase, Phases
    <3>2. QED
      BY <2>3, <3>1 DEF TicksFollow, MayLackTicks
  <2>4. QED
    BY <2>1, <2>2, <2>3
<1>7. QED
  BY <1>4, <1>5, <1>6 DEF Sound

LEMMA RedeployedIsSound ==
  ASSUME NEW c \in Conns, NEW i \in Instances, Sound(c, i),
         UNCHANGED <<toCoord, toWorker, runtime, zombie, sched>>, status'[i] = "starting",
         InPhase(i, "re_sleep"), InPhase(i, "re_send")'
  PROVE  Sound(c, i)'
<1>s. EventsAreTrue(c, i) /\ TicksFollow(c, i) /\ RequestsKnow(c, i)
  BY DEF Sound
<1>1. /\ Becomes(c, i, "started")' => Becomes(c, i, "started")
      /\ Becomes(c, i, "stopped")' => Becomes(c, i, "stopped")
      /\ Becomes(c, i, "error")' => Becomes(c, i, "error")
      /\ Healthy(i)' <=> Healthy(i)
  BY DEF Becomes, Told, Healthy
<1>2. /\ ~At(i, "sched")' /\ ~At(i, "stop_unsched")' /\ ~At(i, "re_stop")'
      /\ ~At(i, "sched") /\ ~At(i, "stop_unsched") /\ ~At(i, "re_stop") /\ At(i, "re_sleep")
  BY DEF InPhase, Phases
<1>3. EventsAreTrue(c, i)'
  BY <1>s, <1>1 DEF EventsAreTrue
<1>4. TicksFollow(c, i)'
  BY <1>s, <1>1, <1>2 DEF TicksFollow, MayLackTicks
<1>5. RequestsKnow(c, i)'
  BY <1>s, <1>2 DEF RequestsKnow
<1>6. QED
  BY <1>3, <1>4, <1>5 DEF Sound

(* A step of a request, for its own deployment. *)
LEMMA OwnRequestIsSound ==
  ASSUME NEW c, OneConnection(c), TypeOK, Targeted, Separate, LinkInv(c), PickedInv(c),
         NEW u \in Requests, RequestStep(u), NEW i \in Instances, i = req[u].inst, Sound(c, i)
  PROVE  Sound(c, i)'
<1>c. c \in Conns /\ NoConn \notin Conns /\ NoRun \notin Runs
  BY ConstantsAssumption DEF OneConnection
<1>t. /\ status \in [Instances -> InstanceStatus] /\ sched \in [Instances -> Runs \cup {NoRun}]
      /\ req \in [Requests -> Request]
  BY DEF TypeOK
<1>r. registered = c /\ link[c] = "open"
  <2>1. req[u].pc # "idle"
    BY RequestMoves
  <2>2. QED
    BY <1>c, <2>1, NeverLost DEF LinkInv, Nothing
<1>b. \A pc \in Phases : At(i, pc) <=> req[u].pc = pc
  BY RequestPhases
<1>a. \A pc \in Phases : At(i, pc)' <=> req'[u].pc = pc
  BY RequestPhasesAfter
<1>p. ASSUME NEW pc, Step(u, pc) PROVE req'[u].pc = pc
  BY <1>t, <1>p DEF Step, Request
<1>d. ASSUME Done(u) PROVE Resting(i)'
  BY <1>a, <1>d, <1>t DEF Done, IdleReq, Resting, Phases
<1>k. ASSUME UNCHANGED <<toCoord, toWorker, runtime, zombie, sched>>,
             status'[i] = status[i] \/ status'[i] \in {"starting", "stopping"},
             req[u].pc \notin Phases, req'[u].pc \notin Phases
      PROVE  Sound(c, i)'
  <2>1. KeptRequest(i)
    BY <1>a, <1>b, <1>k DEF KeptRequest
  <2>2. KeptEvents(c, i) /\ KeptWorker(c, i)
    BY <1>c, <1>k, EventsUnchanged, SameWorker
  <2>3. QED
    BY <1>c, <1>k, <2>1, <2>2, KeptIsSound DEF Kept
<1>e. ASSUME StartError(u), UNCHANGED <<toCoord, toWorker, runtime, zombie, sched>>,
             req[u].pc \in {"send", "re_send"},
             i \in BadCredentials \/ req[u].pc = "re_send"
      PROVE  Sound(c, i)'
  <2>1. status'[i] = "error" /\ Resting(i)'
    BY <1>d, <1>e, <1>t DEF StartError
  <2>2. ~At(i, "sched") /\ ~At(i, "re_stop") /\ ~At(i, "stop_unsched")
    BY <1>b, <1>e DEF Phases
  <2>3. ~Healthy(i) \/ Holds(toWorker[c], i, "stop")
    <3>1. CASE i \in BadCredentials
      BY <3>1 DEF Sound, RequestsKnow, Healthy
    <3>2. CASE req[u].pc = "re_send"
      <4>1. At(i, "re_send")
        BY <1>b, <3>2 DEF Phases
      <4>2. EndsIn(toWorker[c], i, "stop") \/ runtime[i] = NoRun
        BY <4>1 DEF Sound, RequestsKnow
      <4>3. toWorker[c] \in Seq(ToWorker)
        BY <1>c DEF TypeOK
      <4>4. QED
        BY <4>2, <4>3, OneEnd DEF Healthy
    <3>3. QED
      BY <1>e, <3>1, <3>2
  <2>4. QED
    BY <1>c, <1>e, <2>1, <2>2, <2>3, EndIsSound
<1>s. ASSUME SendStart(u, c), UNCHANGED <<toCoord, runtime, zombie, sched>>,
             req[u].pc \in {"send", "re_send"}
      PROVE  Sound(c, i)'
  <2>1. CASE StartError(u) /\ UNCHANGED toWorker /\ i \in BadCredentials
    BY <1>e, <1>s, <2>1
  <2>2. CASE Done(u) /\ UNCHANGED <<status, toWorker>>
    <3>1. Resting(i)' /\ ~At(i, "sched") /\ ~At(i, "re_stop") /\ ~At(i, "stop_unsched")
      BY <1>b, <1>d, <1>s, <2>2 DEF Phases
    <3>2. QED
      BY <1>c, <1>s, <2>2, <3>1, EndIsSound
  <2>3. CASE /\ i \notin BadCredentials /\ Deliver(c, StartMsg(i, req[u].run))
             /\ Step(u, "sched") /\ UNCHANGED status
    <3>1. req[u].run \in Runs \cup {NoRun}
      BY <1>t DEF Request
    <3>2. InPhase(i, "sched")'
      BY <1>a, <1>p, <2>3 DEF InPhase
    <3>3. QED
      BY <1>c, <1>s, <2>3, <3>1, <3>2, StartSentIsSound
  <2>4. QED
    BY <1>c, <1>r, <1>s, <2>1, <2>2, <2>3 DEF SendStart, Raise, Vanish
<1>1. CASE PreStartChecksFail(u) \/ RedeployStop(u)
  <2>1. /\ UNCHANGED <<toCoord, toWorker, runtime, zombie, sched>>
        /\ status'[i] = status[i] \/ status'[i] \in {"starting", "stopping"}
        /\ req[u].pc \notin Phases
    BY <1>1, <1>t DEF PreStartChecksFail, RedeployStop, Phases, dbVars, wkVars
  <2>2. req'[u].pc \notin Phases
    BY <1>1, <1>t DEF PreStartChecksFail, RedeployStop, Phases, Done, IdleReq, Request
  <2>3. QED
    BY <1>k, <2>1, <2>2
<1>2. ASSUME NEW r \in Runs, StartCommit(u, r) PROVE Sound(c, i)'
  <2>1. /\ UNCHANGED <<toCoord, toWorker, runtime, zombie, sched>> /\ status'[i] = "starting"
        /\ req[u].pc \notin Phases /\ req'[u].pc \notin Phases
    BY <1>2, <1>t DEF StartCommit, NewRun, Phases, Request, wkVars
  <2>2. QED
    BY <1>k, <2>1
<1>3. ASSUME NEW r \in Runs, RedeployCommit(u, r) PROVE Sound(c, i)'
  <2>1. /\ UNCHANGED <<toCoord, toWorker, runtime, zombie, sched>> /\ status'[i] = "starting"
        /\ req[u].pc = "re_sleep" /\ req'[u].pc = "re_send"
    BY <1>3, <1>t DEF RedeployCommit, NewRun, Request, wkVars
  <2>2. InPhase(i, "re_sleep") /\ InPhase(i, "re_send")'
    BY <1>a, <1>b, <2>1 DEF InPhase
  <2>3. QED
    BY <1>c, <2>1, <2>2, RedeployedIsSound
<1>4. CASE StartSend(u)
  <2>1. req[u].conn = c
    BY <1>4 DEF StartSend, PickedInv
  <2>2. QED
    BY <1>4, <1>s, <2>1 DEF StartSend, wkVars
<1>5. CASE RedeploySend(u)
  <2>1. CASE StartError(u) /\ UNCHANGED toWorker
    BY <1>5, <1>e, <2>1 DEF RedeploySend, wkVars
  <2>2. CASE SendStart(u, registered)
    BY <1>5, <1>r, <1>s, <2>2 DEF RedeploySend, wkVars
  <2>3. QED
    BY <1>5, <2>1, <2>2 DEF RedeploySend
<1>6. CASE StopSend(u) \/ RedeploySendStop(u)
  <2>1. req[u].conn = c
    BY <1>6 DEF StopSend, RedeploySendStop, PickedInv
  <2>2. Deliver(c, StopMsg(i))
    BY <1>6, <1>c, <1>r, <2>1 DEF StopSend, RedeploySendStop, SendStop
  <2>3. UNCHANGED <<toCoord, runtime, zombie, status, sched>>
    BY <1>6 DEF StopSend, RedeploySendStop, dbVars, wkVars
  <2>4. InPhase(i, "stop_unsched")' \/ (sched[i] = NoRun /\ InPhase(i, "re_sleep")')
    <3>1. CASE StopSend(u)
      BY <1>a, <1>p, <3>1 DEF StopSend, InPhase
    <3>2. CASE RedeploySendStop(u)
      <4>1. At(i, "re_stop")
        BY <1>b, <3>2 DEF RedeploySendStop, Phases
      <4>2. sched[i] = NoRun
        BY <4>1 DEF Sound, RequestsKnow
      <4>3. InPhase(i, "re_sleep")'
        BY <1>a, <1>p, <3>2 DEF RedeploySendStop, InPhase
      <4>4. QED
        BY <4>2, <4>3
    <3>3. QED
      BY <1>6, <3>1, <3>2
  <2>5. QED
    BY <1>c, <2>2, <2>3, <2>4, StopSentIsSound
<1>7. CASE StartSchedule(u) \/ StopUnschedule(u) \/ RedeployUnschedule(u)
  <2>1. UNCHANGED <<toCoord, toWorker, runtime, zombie, status>>
    BY <1>7 DEF StartSchedule, StopUnschedule, RedeployUnschedule, dbVars, wkVars
  <2>2. \/ At(i, "sched") /\ sched'[i] # NoRun /\ Resting(i)'
        \/ At(i, "stop_unsched") /\ sched'[i] = NoRun /\ Resting(i)'
        \/ sched'[i] = NoRun /\ InPhase(i, "re_stop")'
    <3>1. CASE StartSchedule(u)
      <4>1. req[u].run \in Runs /\ At(i, "sched")
        BY <1>b, <3>1 DEF StartSchedule, PickedInv, Phases
      <4>2. QED
        BY <1>c, <1>d, <1>t, <3>1, <4>1 DEF StartSchedule, Schedule
    <3>2. CASE StopUnschedule(u)
      <4>1. At(i, "stop_unsched")
        BY <1>b, <3>2 DEF StopUnschedule, Phases
      <4>2. QED
        BY <1>d, <1>t, <3>2, <4>1 DEF StopUnschedule, Unschedule
    <3>3. CASE RedeployUnschedule(u)
      BY <1>a, <1>p, <1>t, <3>3 DEF RedeployUnschedule, Unschedule, InPhase
    <3>4. QED
      BY <1>7, <3>1, <3>2, <3>3
  <2>3. QED
    BY <1>c, <2>1, <2>2, TicksSetIsSound
<1>8. QED
  BY <1>1, <1>2, <1>3, <1>4, <1>5, <1>6, <1>7 DEF RequestStep

(* Until the first heartbeat is read, only the socket moves. *)
LEMMA NothingHappens ==
  ASSUME NEW c, OneConnection(c), TypeOK, LinkInv(c), registered = NoConn
  PROVE  /\ \A u \in Requests : ~RequestStep(u)
         /\ \A u \in Requests, i \in Instances :
              ~StartCheck(u, i) /\ ~StopCommit(u, i) /\ ~RedeployRead(u, i)
         /\ ~WorkerStep /\ \A i \in Instances : ~TickFails(i)
         /\ \A i \in Instances :
              ~InstanceStarted(c, i) /\ ~InstanceStopped(c, i) /\ ~InstanceError(c, i)
<1>n. Nothing(c) /\ c \in Conns
  BY DEF LinkInv, OneConnection
<1>1. \A u \in Requests : ~RequestStep(u)
  BY <1>n, RequestMoves DEF Nothing
<1>2. \A u \in Requests, i \in Instances :
        ~StartCheck(u, i) /\ ~StopCommit(u, i) /\ ~RedeployRead(u, i)
  BY <1>n DEF Nothing, StartCheck, StopCommit, RedeployRead, Stoppable
<1>3. ~WorkerStep /\ \A i \in Instances : ~TickFails(i)
  <2>1. \A m : ~Reads(m)
    BY <1>n, NeverLost DEF Nothing, Reads
  <2>2. QED
    BY <1>n, <2>1 DEF Nothing, WorkerStep, IgnoreDuplicateStart, BringUp, StopInstance, TickFails
<1>4. ASSUME NEW i \in Instances, NEW t, Receives(c, Event(t, i)) PROVE FALSE
  <2>1. toCoord[c] \in Seq(ToCoord) /\ toCoord[c] # <<>> /\ Head(toCoord[c]).inst = i
    BY <1>n, <1>4 DEF TypeOK, Receives, Event
  <2>2. ~NoneOf(toCoord[c], i)
    BY <2>1, TailOwn
  <2>3. QED
    BY <1>n, <2>2 DEF Nothing
<1>5. QED
  BY <1>1, <1>2, <1>3, <1>4 DEF InstanceStarted, InstanceStopped, InstanceError

LEMMA HandlersKeepLink ==
  ASSUME NEW c, OneConnection(c), TypeOK, LinkInv(c), Connect(c) \/ SendHeartbeat \/ HandlerStep(c)
  PROVE  LinkInv(c)'
<1>c. c \in Conns /\ c # NoConn
  BY ConstantsAssumption DEF OneConnection
<1>t. /\ hpc \in [Conns -> HandlerPC] /\ todo \in [Conns -> SUBSET (Instances \X Runs)]
      /\ prior \in [Conns -> {"online", "offline"}] /\ link \in [Conns -> {"unused", "open", "lost"}]
      /\ status \in [Instances -> InstanceStatus] /\ wstatus \in {"online", "offline"}
  BY DEF TypeOK
<1>1. CASE Connect(c)
  <2>1. /\ link'[c] = "open" /\ hpc'[c] = "recv" /\ wconn' = c /\ registered = NoConn
        /\ UNCHANGED <<wstatus, status, registered, sched, prior, todo, req, toCoord, toWorker,
                       runtime, draining>>
    BY <1>1, <1>c, <1>t DEF Connect, LinkInv, dbVars
  <2>2. Nothing(c)'
    BY <2>1 DEF LinkInv, Nothing
  <2>3. QED
    BY <1>c, <2>1, <2>2 DEF LinkInv
<1>2. CASE SendHeartbeat
  <2>1. UNCHANGED <<wstatus, status, registered, sched, hpc, prior, todo, req, link, toWorker,
                    wconn, runtime, draining>>
    BY <1>2 DEF SendHeartbeat, dbVars, hVars, wkVars
  <2>2. \A i \in Instances : NoneOf(toCoord[c], i)' <=> NoneOf(toCoord[c], i)
    <3>1. wconn = c
      BY <1>2, NeverLost DEF SendHeartbeat
    <3>2. Heartbeat \in ToCoord /\ \A i \in Instances : Heartbeat.inst # i
      BY ConstantsAssumption DEF Heartbeat, ToCoord
    <3>3. QED
      BY <1>2, <1>c, <2>1, <3>1, <3>2, SentAboutOthers DEF SendHeartbeat, SameFor
  <2>3. Nothing(c) => Nothing(c)'
    BY <2>1, <2>2 DEF Nothing
  <2>4. QED
    BY <2>1, <2>3 DEF LinkInv
<1>3. CASE HeartbeatReceive(c)
  <2>1. /\ hpc'[c] = "hb_read" /\ registered' = c /\ hpc[c] = "recv"
        /\ UNCHANGED <<wstatus, status, todo, link, wconn, draining>>
    BY <1>3, <1>c, <1>t DEF HeartbeatReceive, Receives, RegisterWorker, Goto, dbVars, wkVars
  <2>2. QED
    BY <1>c, <2>1 DEF LinkInv
<1>4. CASE HeartbeatRead(c)
  <2>1. /\ hpc'[c] = "hb_commit" /\ prior'[c] = wstatus /\ hpc[c] = "hb_read"
        /\ UNCHANGED <<wstatus, status, registered, todo, link, wconn, draining>>
    BY <1>4, <1>c, <1>t DEF HeartbeatRead, Goto, dbVars, wkVars
  <2>2. QED
    BY <2>1 DEF LinkInv
<1>5. CASE HeartbeatCommit(c)
  <2>1. /\ hpc[c] = "hb_commit" /\ prior[c] = wstatus /\ wstatus' = "online"
        /\ hpc'[c] = IF prior[c] = "online" THEN "recv" ELSE "rec_select"
        /\ UNCHANGED <<status, registered, todo, link, wconn, draining>>
    BY <1>5, <1>c, <1>t DEF HeartbeatCommit, Goto, LinkInv, wkVars
  <2>2. QED
    BY <1>t, <2>1 DEF LinkInv
<1>6. CASE ReconcileSelect(c)
  <2>1. {<<i, activeRun[i]>> : i \in {j \in Instances : Reconcilable(j)}} = {}
    BY <1>6 DEF ReconcileSelect, LinkInv, Reconcilable
  <2>2. /\ hpc[c] = "rec_select" /\ hpc'[c] = "rec_send" /\ todo'[c] = {}
        /\ UNCHANGED <<wstatus, status, registered, link, wconn, draining>>
    BY <1>6, <1>c, <1>t, <2>1 DEF ReconcileSelect, Goto, dbVars, wkVars
  <2>3. QED
    BY <2>2 DEF LinkInv
<1>7. CASE ReconcileDone(c)
  <2>1. /\ hpc[c] = "rec_send" /\ hpc'[c] = "recv"
        /\ UNCHANGED <<wstatus, status, registered, todo, link, wconn, draining>>
    BY <1>7, <1>c, <1>t DEF ReconcileDone, Goto, dbVars, wkVars
  <2>2. wstatus = "online"
    BY <2>1 DEF LinkInv
  <2>3. QED
    BY <2>1, <2>2 DEF LinkInv
<1>8. ASSUME NEW i \in Instances, InstanceStarted(c, i) \/ InstanceStopped(c, i) \/ InstanceError(c, i)
      PROVE  LinkInv(c)'
  <2>1. registered # NoConn
    BY <1>8, NothingHappens
  <2>2. /\ hpc[c] = "recv"
        /\ UNCHANGED <<wstatus, registered, hpc, prior, todo, link, wconn, draining>>
    BY <1>8 DEF InstanceStarted, InstanceStopped, InstanceError, Receives, hVars, wkVars
  <2>3. wstatus # "offline"
    BY <2>1, <2>2 DEF LinkInv
  <2>4. QED
    BY <2>1, <2>2, <2>3 DEF LinkInv
<1>9. QED
  BY <1>1, <1>2, <1>3, <1>4, <1>5, <1>6, <1>7, <1>8, NeverLost DEF HandlerStep

LEMMA OthersKeepLink ==
  ASSUME NEW c, OneConnection(c), TypeOK, Targeted, LinkInv(c),
         \/ WorkerStep
         \/ \E i \in Instances : TickFails(i)
         \/ \E u \in Requests : RequestStep(u)
         \/ \E u \in Requests, i \in Instances :
              StartCheck(u, i) \/ StopCommit(u, i) \/ RedeployRead(u, i)
  PROVE  LinkInv(c)'
<1>t. status \in [Instances -> InstanceStatus]
  BY DEF TypeOK
<1>1. registered # NoConn
  BY NothingHappens
<1>2. ASSUME UNCHANGED <<wstatus, registered, hpc, prior, todo, link, wconn, draining>>,
             \A i \in Instances : status'[i] = "running" => status[i] = "running"
      PROVE  LinkInv(c)'
  BY <1>1, <1>2 DEF LinkInv
<1>3. CASE WorkerStep
  <2>1. UNCHANGED <<wstatus, status, registered, hpc, prior, todo, link, wconn, draining>>
    BY <1>3 DEF WorkerStep, IgnoreDuplicateStart, BringUp, StopInstance, MayDrain, OneConnection,
       dbVars, hVars, wkVars
  <2>2. QED
    BY <1>2, <2>1
<1>4. ASSUME NEW i \in Instances, TickFails(i) PROVE LinkInv(c)'
  BY <1>2, <1>4 DEF TickFails, dbVars, hVars
<1>5. ASSUME NEW u \in Requests, RequestStep(u) PROVE LinkInv(c)'
  <2>1. req[u].inst \in Instances
    BY <1>5, RequestMoves DEF Targeted
  <2>2. UNCHANGED <<wstatus, registered, hpc, prior, todo, link, wconn, draining>>
    BY <1>5 DEF RequestStep, PreStartChecksFail, StartSend, StartSchedule, StartCommit, StopSend,
       StopUnschedule, RedeployStop, RedeployUnschedule, RedeploySendStop, RedeploySend,
       RedeployCommit, dbVars, hVars, wkVars
  <2>3. \/ UNCHANGED status
        \/ \E s \in {"error", "starting", "stopping"} : status' = [status EXCEPT ![req[u].inst] = s]
    <3>1. CASE PreStartChecksFail(u) \/ StartSchedule(u) \/ StopSend(u) \/ StopUnschedule(u)
               \/ RedeployStop(u) \/ RedeployUnschedule(u) \/ RedeploySendStop(u)
      BY <3>1 DEF PreStartChecksFail, StartSchedule, StopSend, StopUnschedule, RedeployStop,
         RedeployUnschedule, RedeploySendStop, dbVars
    <3>2. CASE StartSend(u) \/ RedeploySend(u)
      BY <3>2 DEF StartSend, RedeploySend, SendStart, StartError
    <3>3. ASSUME NEW r \in Runs, StartCommit(u, r) \/ RedeployCommit(u, r)
          PROVE  status' = [status EXCEPT ![req[u].inst] = "starting"]
      BY <3>3 DEF StartCommit, RedeployCommit, NewRun
    <3>4. QED
      BY <1>5, <3>1, <3>2, <3>3 DEF RequestStep
  <2>4. QED
    BY <1>2, <1>t, <2>1, <2>2, <2>3
<1>6. ASSUME NEW u \in Requests, NEW i \in Instances,
             StartCheck(u, i) \/ StopCommit(u, i) \/ RedeployRead(u, i)
      PROVE  LinkInv(c)'
  <2>1. UNCHANGED <<wstatus, registered, hpc, prior, todo, link, wconn, draining>>
    BY <1>6 DEF StartCheck, StopCommit, RedeployRead, dbVars, hVars, wkVars
  <2>2. UNCHANGED status \/ status' = [status EXCEPT ![i] = "stopping"]
    BY <1>6 DEF StartCheck, StopCommit, RedeployRead, dbVars
  <2>3. QED
    BY <1>2, <1>t, <2>1, <2>2
<1>7. QED
  BY <1>3, <1>4, <1>5, <1>6

(* The sockets and runs that requests hold, and the runs that starts name. *)
LEMMA PickedStep ==
  ASSUME NEW c, OneConnection(c), TypeOK, Targeted, LinkInv(c), PickedInv(c),
         \/ \E u \in Requests : RequestStep(u)
         \/ \E u \in Requests, i \in Instances :
              StartCheck(u, i) \/ StopCommit(u, i) \/ RedeployRead(u, i)
  PROVE  PickedInv(c)'
<1>t. req \in [Requests -> Request]
  BY DEF TypeOK
<1>r. registered = c
  BY NothingHappens, NeverLost
<1>1. ASSUME NEW u \in Requests,
             \A v \in Requests : v # u => req'[v] = req[v],
             \/ req'[u].pc \in {"idle", "re_begin"}
             \/ req'[u].conn = c /\ (req'[u].pc \in {"send", "re_send", "sched"} => req'[u].run \in Runs)
      PROVE  PickedInv(c)'
  BY <1>1 DEF PickedInv
<1>2. ASSUME NEW u \in Requests, RequestStep(u) PROVE PickedInv(c)'
  <2>1. \A v \in Requests : v # u => req'[v] = req[v]
    BY <1>t, <1>2, RequestMoves
  <2>2. req[u].pc \notin {"idle", "re_begin"} => req[u].conn = c
    BY DEF PickedInv
  <2>3. CASE Done(u)
    BY <1>1, <1>t, <2>1, <2>3 DEF Done, IdleReq
  <2>4. CASE StopSend(u) \/ RedeployUnschedule(u) \/ RedeploySendStop(u)
    <3>1. req'[u].conn = req[u].conn /\ req'[u].pc \in {"stop_unsched", "re_stop", "re_sleep"}
      BY <1>t, <2>4 DEF StopSend, RedeployUnschedule, RedeploySendStop, Step, Request
    <3>2. req[u].pc \notin {"idle", "re_begin"}
      BY <2>4 DEF StopSend, RedeployUnschedule, RedeploySendStop
    <3>3. QED
      BY <1>1, <2>1, <2>2, <3>1, <3>2
  <2>5. CASE RedeployStop(u)
    <3>1. req'[u].conn = c /\ req'[u].pc = "re_unsched"
      BY <1>t, <1>r, <2>5 DEF RedeployStop, Request
    <3>2. QED
      BY <1>1, <2>1, <3>1
  <2>6. ASSUME NEW r \in Runs, StartCommit(u, r) \/ RedeployCommit(u, r) PROVE PickedInv(c)'
    <3>1. req'[u].conn = req[u].conn /\ req'[u].run = r /\ req[u].pc \notin {"idle", "re_begin"}
      BY <1>t, <2>6 DEF StartCommit, RedeployCommit, Request
    <3>2. QED
      BY <1>1, <2>1, <2>2, <3>1
  <2>7. CASE (StartSend(u) \/ RedeploySend(u)) /\ Step(u, "sched")
    <3>1. req'[u].conn = req[u].conn /\ req'[u].run = req[u].run
          /\ req[u].pc \in {"send", "re_send"}
      BY <1>t, <2>7 DEF StartSend, RedeploySend, Step, Request
    <3>2. req[u].run \in Runs
      BY <3>1 DEF PickedInv
    <3>3. QED
      BY <1>1, <2>1, <2>2, <3>1, <3>2
  <2>8. CASE StartSend(u) \/ RedeploySend(u)
    BY <2>3, <2>7, <2>8 DEF StartSend, RedeploySend, SendStart, StartError
  <2>9. CASE PreStartChecksFail(u) \/ StartSchedule(u) \/ StopUnschedule(u)
    BY <2>3, <2>9 DEF PreStartChecksFail, StartSchedule, StopUnschedule
  <2>10. QED
    BY <1>2, <2>4, <2>5, <2>6, <2>8, <2>9 DEF RequestStep
<1>3. ASSUME NEW u \in Requests, NEW i \in Instances,
             StartCheck(u, i) \/ StopCommit(u, i) \/ RedeployRead(u, i)
      PROVE  PickedInv(c)'
  <2>1. /\ \A v \in Requests : v # u => req'[v] = req[v]
        /\ \/ req'[u].pc = "re_begin"
           \/ req'[u].conn = c /\ req'[u].pc \in {"commit", "stop_send"}
    BY <1>t, <1>r, <1>3 DEF StartCheck, StopCommit, RedeployRead
  <2>2. QED
    BY <1>1, <2>1
<1>4. QED
  BY <1>2, <1>3

LEMMA NamedStep ==
  ASSUME NEW c, OneConnection(c), TypeOK, Targeted, LinkInv(c), PickedInv(c), NamedInv(c), [Next]_vars
  PROVE  NamedInv(c)'
<1>c. c \in Conns /\ toWorker[c] \in Seq(ToWorker) /\ NoRun \notin Runs
  BY ConstantsAssumption DEF OneConnection, TypeOK
<1>1. ASSUME UNCHANGED toWorker PROVE NamedInv(c)'
  BY <1>1 DEF NamedInv
<1>2. ASSUME NEW m \in ToWorker, m.type = "start" => m.run # NoRun, Deliver(c, m)
      PROVE  NamedInv(c)'
  <2>1. toWorker'[c] = Append(toWorker[c], m)
    BY <1>2, <1>c DEF TypeOK, Deliver
  <2>2. \A k \in 1..Len(toWorker'[c]) :
          toWorker'[c][k] = m \/ (k \in 1..Len(toWorker[c]) /\ toWorker'[c][k] = toWorker[c][k])
    BY <1>c, <2>1
  <2>3. QED
    BY <1>2, <2>2 DEF NamedInv
<1>3. ASSUME NEW m \in ToWorker, Reads(m) PROVE NamedInv(c)'
  <2>w. wconn = c
    BY <1>3, NeverLost DEF Reads
  <2>e. toWorker[c] # <<>>
    BY <1>3, <2>w DEF Reads
  <2>1. toWorker'[c] = Tail(toWorker[c])
    BY <1>3, <1>c, <2>w DEF TypeOK, Reads
  <2>2. \A k \in 1..Len(toWorker'[c]) :
          k + 1 \in 1..Len(toWorker[c]) /\ toWorker'[c][k] = toWorker[c][k + 1]
    BY <1>c, <2>e, <2>1, TailShape
  <2>3. QED
    BY <2>2 DEF NamedInv
<1>4. ASSUME NEW u \in Requests, RequestStep(u) PROVE NamedInv(c)'
  <2>r. registered = c /\ req[u].inst \in Instances /\ req[u].pc # "idle"
    BY <1>4, NothingHappens, NeverLost, RequestMoves DEF Targeted
  <2>1. CASE StartSend(u) \/ RedeploySend(u)
    <3>1. req[u].conn = c /\ req[u].run \in Runs
      BY <2>1 DEF StartSend, RedeploySend, PickedInv
    <3>2. UNCHANGED toWorker \/ Deliver(c, StartMsg(req[u].inst, req[u].run))
      BY <2>1, <2>r, <3>1 DEF StartSend, RedeploySend, SendStart, Vanish
    <3>3. /\ StartMsg(req[u].inst, req[u].run) \in ToWorker
          /\ StartMsg(req[u].inst, req[u].run).run # NoRun
      BY <1>c, <2>r, <3>1 DEF StartMsg, ToWorker
    <3>4. QED
      BY <1>1, <1>2, <3>2, <3>3
  <2>2. CASE StopSend(u) \/ RedeploySendStop(u)
    <3>1. req[u].conn = c
      BY <2>2 DEF StopSend, RedeploySendStop, PickedInv
    <3>2. UNCHANGED toWorker \/ Deliver(c, StopMsg(req[u].inst))
      BY <2>2, <3>1 DEF StopSend, RedeploySendStop, SendStop
    <3>3. StopMsg(req[u].inst) \in ToWorker /\ StopMsg(req[u].inst).type = "stop"
      BY <2>r DEF StopMsg, ToWorker
    <3>4. QED
      BY <1>1, <1>2, <3>2, <3>3
  <2>3. CASE ~(StartSend(u) \/ RedeploySend(u) \/ StopSend(u) \/ RedeploySendStop(u))
    <3>1. UNCHANGED toWorker
      BY <1>4, <2>3 DEF RequestStep, PreStartChecksFail, StartSchedule, StartCommit, StopUnschedule,
         RedeployStop, RedeployUnschedule, RedeployCommit
    <3>2. QED
      BY <1>1, <3>1
  <2>4. QED
    BY <2>1, <2>2, <2>3
<1>5. CASE WorkerStep
  BY <1>3, <1>5 DEF WorkerStep, IgnoreDuplicateStart, BringUp, StopInstance
<1>6. CASE Connect(c) \/ SendHeartbeat \/ HandlerStep(c)
  <2>1. UNCHANGED toWorker
    BY <1>6, NeverLost DEF Connect, SendHeartbeat, HandlerStep, HeartbeatReceive, HeartbeatRead,
       HeartbeatCommit, ReconcileSelect, ReconcileDone, InstanceStarted, InstanceStopped, InstanceError
  <2>2. QED
    BY <1>1, <2>1
<1>7. ASSUME NEW i \in Instances, TickFails(i) PROVE NamedInv(c)'
  BY <1>1, <1>7 DEF TickFails
<1>8. ASSUME NEW u \in Requests, NEW i \in Instances,
             StartCheck(u, i) \/ StopCommit(u, i) \/ RedeployRead(u, i)
      PROVE  NamedInv(c)'
  BY <1>1, <1>8 DEF StartCheck, StopCommit, RedeployRead
<1>9. CASE UNCHANGED vars
  BY <1>1, <1>9 DEF vars
<1>10. QED
  BY <1>4, <1>5, <1>6, <1>7, <1>8, <1>9, NeverLost DEF Next, OneConnection

(* The first step of a request changes a status to stopping, at most. *)
LEMMA FirstStepsKeep ==
  ASSUME NEW c, OneConnection(c), TypeOK, NEW u \in Requests, NEW j \in Instances,
         StartCheck(u, j) \/ StopCommit(u, j) \/ RedeployRead(u, j), NEW i \in Instances
  PROVE  Kept(c, i)
<1>1. c \in Conns /\ status \in [Instances -> InstanceStatus]
  BY DEF OneConnection, TypeOK
<1>2. /\ UNCHANGED <<toCoord, toWorker, runtime, zombie, sched>>
      /\ status'[i] = status[i] \/ status'[i] = "stopping"
  BY <1>1 DEF StartCheck, StopCommit, RedeployRead, dbVars, wkVars
<1>3. KeptEvents(c, i) /\ KeptWorker(c, i)
  BY <1>1, <1>2, EventsUnchanged, SameWorker
<1>4. QED
  BY <1>2, <1>3, FirstPhases DEF Kept

(* The inductive invariant of StatusIsTrue. *)
StatusInv(c) == LinkInv(c) /\ PickedInv(c) /\ NamedInv(c) /\ \A i \in Instances : Sound(c, i)

LEMMA StatusStep ==
  ASSUME NEW c, OneConnection(c), TypeOK, Targeted, Separate, StatusInv(c), [Next]_vars
  PROVE  StatusInv(c)'
<1>c. c \in Conns /\ Conns = {c} /\ LinkInv(c) /\ PickedInv(c) /\ NamedInv(c)
      /\ \A i \in Instances : Sound(c, i)
  BY DEF OneConnection, StatusInv
<1>1. NamedInv(c)'
  BY <1>c, NamedStep
<1>2. CASE UNCHANGED vars
  <2>1. LinkInv(c)' /\ PickedInv(c)'
    BY <1>c, <1>2 DEF LinkInv, Nothing, PickedInv, vars, dbVars, hVars, wkVars
  <2>2. ASSUME NEW i \in Instances PROVE Sound(c, i)'
    <3>1. UNCHANGED <<status, toCoord, toWorker, runtime, zombie, sched, req>>
      BY <1>2 DEF vars, dbVars, wkVars
    <3>2. Kept(c, i)
      BY <1>c, <3>1, EventsUnchanged, SameRequests, SameWorker DEF Kept
    <3>3. QED
      BY <1>c, <3>2, KeptIsSound
  <2>3. QED
    BY <1>1, <2>1, <2>2 DEF StatusInv
<1>3. CASE Connect(c) \/ SendHeartbeat \/ HandlerStep(c)
  <2>1. LinkInv(c)'
    BY <1>c, <1>3, HandlersKeepLink
  <2>2. UNCHANGED req
    <3>1. UNCHANGED req \/ req' = [u \in Requests |-> IdleReq]
      BY <1>c, <1>3, OthersLeaveRequests
    <3>2. QED
      BY <1>3, NeverLost, <1>c DEF Connect, SendHeartbeat, HandlerStep, HeartbeatReceive, HeartbeatRead,
         HeartbeatCommit, ReconcileSelect, ReconcileDone, InstanceStarted, InstanceStopped, InstanceError
  <2>3. PickedInv(c)'
    BY <1>c, <2>2 DEF PickedInv
  <2>4. \A i \in Instances : Sound(c, i)'
    BY <1>c, <1>3, HandlersKeep, KeptIsSound
  <2>5. QED
    BY <1>1, <2>1, <2>3, <2>4 DEF StatusInv
<1>4. CASE WorkerStep \/ \E i \in Instances : TickFails(i)
  <2>1. LinkInv(c)'
    BY <1>c, <1>4, OthersKeepLink
  <2>2. PickedInv(c)'
    BY <1>c, <1>4 DEF PickedInv, WorkerStep, IgnoreDuplicateStart, BringUp, StopInstance, TickFails
  <2>3. \A m \in ToWorker : Reads(m) /\ m.type = "start" => m.run # NoRun
    <3> SUFFICES ASSUME NEW m \in ToWorker, Reads(m), m.type = "start" PROVE m.run # NoRun
      OBVIOUS
    <3>1. toWorker[c] \in Seq(ToWorker) /\ toWorker[c] # <<>> /\ m = Head(toWorker[c])
      BY <1>c, NeverLost DEF Reads, TypeOK
    <3>2. 1 \in 1..Len(toWorker[c]) /\ m = toWorker[c][1]
      BY <3>1
    <3>3. QED
      BY <1>c, <3>2 DEF NamedInv
  <2>4. \/ \E m \in ToWorker : /\ m.type = "start" => m.run # NoRun
                               /\ IgnoreDuplicateStart(m) \/ BringUp(m) \/ StopInstance(m)
        \/ \E j \in Instances : TickFails(j)
    BY <1>4, <2>3 DEF WorkerStep, IgnoreDuplicateStart, BringUp, StopInstance
  <2>5. \A i \in Instances : Sound(c, i)'
    BY <1>c, <2>4, WorkerIsSound
  <2>6. QED
    BY <1>1, <2>1, <2>2, <2>5 DEF StatusInv
<1>5. ASSUME NEW u \in Requests, RequestStep(u) PROVE StatusInv(c)'
  <2>1. LinkInv(c)' /\ PickedInv(c)'
    BY <1>c, <1>5, OthersKeepLink, PickedStep
  <2>2. ASSUME NEW i \in Instances PROVE Sound(c, i)'
    <3>1. CASE i = req[u].inst
      BY <1>c, <1>5, <3>1, OwnRequestIsSound
    <3>2. CASE i # req[u].inst
      BY <1>c, <1>5, <3>2, RequestsLeaveOthers, KeptIsSound
    <3>3. QED
      BY <3>1, <3>2
  <2>3. QED
    BY <1>1, <2>1, <2>2 DEF StatusInv
<1>6. ASSUME NEW u \in Requests, NEW j \in Instances,
             StartCheck(u, j) \/ StopCommit(u, j) \/ RedeployRead(u, j)
      PROVE  StatusInv(c)'
  <2>1. LinkInv(c)' /\ PickedInv(c)'
    BY <1>c, <1>6, OthersKeepLink, PickedStep
  <2>2. \A i \in Instances : Sound(c, i)'
    BY <1>c, <1>6, FirstStepsKeep, KeptIsSound
  <2>3. QED
    BY <1>1, <2>1, <2>2 DEF StatusInv
<1>7. QED
  BY <1>c, <1>2, <1>3, <1>4, <1>5, <1>6, NeverLost DEF Next

LEMMA StatusInit ==
  ASSUME NEW c, OneConnection(c), Init
  PROVE  StatusInv(c) /\ Separate
<1>c. c \in Conns /\ \A i \in Instances : activeRun[i] = NoRun
  BY DEF OneConnection, Init
<1>1. \A u \in Requests : req[u] = IdleReq
  BY DEF Init
<1>2. /\ wstatus = "offline" /\ registered = NoConn /\ hpc[c] = "none" /\ todo[c] = {}
      /\ link[c] = "unused" /\ wconn = NoConn /\ draining = {} /\ zombie = {}
      /\ toCoord[c] = <<>> /\ toWorker[c] = <<>>
      /\ \A i \in Instances : status[i] = "stopped" /\ runtime[i] = NoRun /\ sched[i] = NoRun
  BY <1>c DEF Init, OneConnection
<1>3. \A i \in Instances : /\ NoneOf(toCoord[c], i) /\ NoneOf(toWorker[c], i)
                           /\ \A t : ~Holds(toWorker[c], i, t) /\ ~EndsIn(toWorker[c], i, t)
                                     /\ ~EndsIn(toCoord[c], i, t)
  BY <1>2 DEF NoneOf, Holds, EndsIn
<1>4. LinkInv(c)
  BY <1>1, <1>2, <1>3 DEF LinkInv, Nothing, IdleReq
<1>5. PickedInv(c) /\ NamedInv(c) /\ Separate
  BY <1>1, <1>2 DEF PickedInv, NamedInv, Separate, IdleReq
<1>6. ASSUME NEW i \in Instances PROVE Sound(c, i)
  <2>1. \A pc \in Phases : ~At(i, pc)
    BY <1>1 DEF At, Phases, IdleReq
  <2>2. ~Becomes(c, i, "started") /\ ~Becomes(c, i, "error")
    BY <1>2, <1>3 DEF Becomes, Told
  <2>3. EventsAreTrue(c, i) /\ TicksFollow(c, i)
    BY <1>2, <1>3, <2>2 DEF EventsAreTrue, TicksFollow
  <2>4. RequestsKnow(c, i)
    BY <1>2, <1>3, <2>1 DEF RequestsKnow, Phases
  <2>5. QED
    BY <2>3, <2>4 DEF Sound
<1>7. QED
  BY <1>4, <1>5, <1>6 DEF StatusInv

LEMMA StatusAtRest ==
  ASSUME NEW c, OneConnection(c), TypeOK, StatusInv(c)
  PROVE  StatusIsTrue
<1> SUFFICES ASSUME Quiet, NEW i \in Instances
             PROVE  /\ status[i] = "running" => Healthy(i) /\ sched[i] # NoRun
                    /\ status[i] = "stopped" => runtime[i] = NoRun /\ sched[i] = NoRun
                    /\ status[i] = "error" => ~Healthy(i)
  BY DEF StatusIsTrue
<1>1. wconn = c /\ Sound(c, i)
  BY NeverLost DEF Quiet, StatusInv
<1>2. NoneOf(toCoord[c], i) /\ NoneOf(toWorker[c], i) /\ ~Holds(toWorker[c], i, "stop")
  BY <1>1 DEF Quiet, NoneOf, Holds
<1>3. \A pc \in Phases : ~At(i, pc)
  BY DEF Quiet, At, Phases, IdleReq
<1>4. \A t \in Events : status[i] = Told(t) => Becomes(c, i, t)
  BY <1>2 DEF Becomes
<1>5. /\ status[i] = "running" => Becomes(c, i, "started")
      /\ status[i] = "stopped" => Becomes(c, i, "stopped")
      /\ status[i] = "error" => Becomes(c, i, "error")
  BY <1>4 DEF Told, Events
<1>6. ~MayLackTicks(i) /\ ~At(i, "stop_unsched")
  BY <1>3 DEF MayLackTicks, Phases
<1>7. QED
  BY <1>1, <1>2, <1>5, <1>6 DEF Sound, EventsAreTrue, TicksFollow

(* Where the connection lasts and requests for one deployment do not       *)
(* overlap, what a person sees is true as soon as nothing is under way,    *)
(* for any number of deployments, requests and runs, with failures,        *)
(* redeploys, and accounts and manifests that cannot be loaded.            *)
THEOREM RestingStatusIsTrue ==
  ASSUME NEW c, OneConnection(c)
  PROVE  Spec => []StatusIsTrue
<1> DEFINE IInv == TypeOK /\ Targeted /\ Separate /\ StatusInv(c)
<1>1. Init => IInv
  BY TypeInit, StatusInit
<1>2. IInv /\ [Next]_vars => IInv'
  <2> SUFFICES ASSUME IInv, [Next]_vars PROVE IInv'
    OBVIOUS
  <2>1. TypeOK' /\ Targeted'
    BY TypeStep
  <2>2. Separate'
    BY StayApart DEF OneConnection
  <2>3. StatusInv(c)'
    BY StatusStep
  <2>4. QED
    BY <2>1, <2>2, <2>3
<1>3. IInv => StatusIsTrue
  BY StatusAtRest
<1> HIDE DEF IInv
<1>4. QED
  BY <1>1, <1>2, <1>3, PTL DEF Spec

=============================================================================
