---------------------------- MODULE ControlPlane ----------------------------
(***************************************************************************)
(* The control plane between the coordinator and one worker: the worker's  *)
(* WebSocket connections, heartbeats and the stale-worker sweep, the       *)
(* reconcile that re-sends start_instance, the deployments' rows, runs and *)
(* tick-scheduler entries, and the HTTP requests that start, stop and      *)
(* redeploy them.                                                          *)
(*                                                                         *)
(* Every row, socket and scheduler entry is keyed by the worker's id, so   *)
(* workers do not interact here and one worker is enough.  Coroutines are  *)
(* cut at the awaits where another coroutine can change what they read;    *)
(* the SELECT and COMMIT of a lifecycle message are one step.              *)
(***************************************************************************)
EXTENDS Naturals, Sequences, FiniteSets

CONSTANTS
  Instances,      \* deployments assigned to the worker
  WasRunning,     \* the runs, or NoRun, of which the database may say that they are running
  Runs,           \* ids of AlgorithmRun rows (a bound on how many are created)
  Conns,          \* ids of WebSocket connections (a bound on reconnects)
  Requests,       \* HTTP requests that can be in progress at a time
  NoInst, NoRun, NoConn,
  MaxStalls,      \* bound: how often a connected worker looks stale
  BadCredentials, \* deployments whose account credentials do not decrypt
  BadManifest,    \* deployments whose quilt.yaml cannot be loaded
  ReconnectWhen,  \* how far the old socket's handler is when the worker returns
  MayCrash,       \* the coordinator may be killed and started again
  Redeploys,      \* the operator uses redeploy
  OneAtATime,     \* requests for one deployment do not overlap
  Failures,       \* bring_up or five ticks in a row may fail
  QueuedTicks     \* a runtime may be stopped with five or more ticks queued

ASSUME ConstantsAssumption ==
  /\ NoInst \notin Instances /\ NoRun \notin Runs /\ NoConn \notin Conns
  /\ WasRunning \subseteq Runs \cup {NoRun}
  /\ MaxStalls \in Nat
  /\ BadCredentials \subseteq Instances /\ BadManifest \subseteq Instances
  /\ ReconnectWhen \in {"handled", "noticed", "anytime"}
  /\ {MayCrash, Redeploys, OneAtATime, Failures, QueuedTicks} \subseteq BOOLEAN

VARIABLES
  \* Database rows
  wstatus,     \* Worker.status
  status,      \* AlgorithmInstance.status
  activeRun,   \* AlgorithmInstance.active_run_id
  runStatus,   \* AlgorithmRun.status ("none": no such row)
  \* Coordinator memory
  registered,  \* ConnectionManager.worker_connections[worker]
  sched,       \* TickScheduler._instances: the run whose ticks are produced
  hpc,         \* where the receive loop of each socket is suspended
  prior,       \* prior_status in the heartbeat handler
  todo, cur,   \* running_insts in the reconcile, and the one in hand
  req,         \* the HTTP requests in progress
  \* Network
  link, toCoord, toWorker,
  \* Worker
  wconn,       \* connection of the current WorkerAgent
  runtime,     \* WorkerAgent._running_instances: the run of each runtime
  zombie,      \* runtimes that gave up after five failures
  draining,    \* instances with ticks queued for a runtime already stopped
  stalls       \* spurious sweeps so far

dbVars   == <<wstatus, status, activeRun, runStatus>>
hVars    == <<hpc, prior, todo, cur>>
wkVars   == <<wconn, runtime, zombie, draining>>
vars == <<dbVars, registered, sched, hVars, req, link, toCoord, toWorker, wkVars, stalls>>

InstanceStatus == {"stopped", "starting", "running", "stopping", "error"}
RunStatus      == {"none", "running", "stopped", "error"}
HandlerPC == {"none", "recv", "hb_read", "hb_commit", "rec_select", "rec_send", "rec_sched",
              "disc_read", "disc_commit", "disc_drop", "closed"}
RequestPC == {"idle", "commit", "send", "sched", "stop_send", "stop_unsched",
              "re_begin", "re_unsched", "re_stop", "re_sleep", "re_send"}
ToCoord  == [type: {"heartbeat", "started", "stopped", "error"}, inst: Instances \cup {NoInst}]
ToWorker == [type: {"start", "stop"}, inst: Instances, run: Runs \cup {NoRun}]
Request  == [pc: RequestPC, inst: Instances \cup {NoInst},
             conn: Conns \cup {NoConn}, run: Runs \cup {NoRun}]
Heartbeat  == [type |-> "heartbeat", inst |-> NoInst]
Event(t, i) == [type |-> t, inst |-> i]
StartMsg(i, r) == [type |-> "start", inst |-> i, run |-> r]
StopMsg(i) == [type |-> "stop", inst |-> i, run |-> NoRun]
IdleReq == [pc |-> "idle", inst |-> NoInst, conn |-> NoConn, run |-> NoRun]
NoPair == <<NoInst, NoRun>>

TypeOK ==
  /\ wstatus \in {"online", "offline"}
  /\ status \in [Instances -> InstanceStatus]
  /\ activeRun \in [Instances -> Runs \cup {NoRun}]
  /\ runStatus \in [Instances -> [Runs -> RunStatus]]
  /\ registered \in Conns \cup {NoConn}
  /\ sched \in [Instances -> Runs \cup {NoRun}]
  /\ hpc \in [Conns -> HandlerPC]
  /\ prior \in [Conns -> {"online", "offline"}]
  /\ todo \in [Conns -> SUBSET (Instances \X Runs)]
  /\ cur \in [Conns -> (Instances \X Runs) \cup {NoPair}]
  /\ req \in [Requests -> Request]
  /\ link \in [Conns -> {"unused", "open", "lost"}]
  /\ toCoord \in [Conns -> Seq(ToCoord)]
  /\ toWorker \in [Conns -> Seq(ToWorker)]
  /\ wconn \in Conns \cup {NoConn}
  /\ runtime \in [Instances -> Runs \cup {NoRun}]
  /\ zombie \subseteq Instances
  /\ draining \subseteq Instances
  /\ stalls \in 0..MaxStalls

(* The coordinator starts on the rows the last one left; a worker row may  *)
(* still say online, which nothing resets, if that one was killed.         *)
Init ==
  /\ wstatus \in (IF MayCrash THEN {"online", "offline"} ELSE {"offline"})
  /\ activeRun \in [Instances -> WasRunning]
  /\ status = [i \in Instances |-> IF activeRun[i] = NoRun THEN "stopped" ELSE "running"]
  /\ runStatus = [i \in Instances |-> [r \in Runs |-> IF r = activeRun[i] THEN "running" ELSE "none"]]
  /\ registered = NoConn
  /\ sched = [i \in Instances |-> NoRun]
  /\ hpc = [c \in Conns |-> "none"]
  /\ prior = [c \in Conns |-> "offline"]
  /\ todo = [c \in Conns |-> {}]
  /\ cur = [c \in Conns |-> NoPair]
  /\ req = [u \in Requests |-> IdleReq]
  /\ link = [c \in Conns |-> "unused"]
  /\ toCoord = [c \in Conns |-> <<>>]
  /\ toWorker = [c \in Conns |-> <<>>]
  /\ wconn = NoConn
  /\ runtime = [i \in Instances |-> NoRun]
  /\ zombie = {} /\ draining = {}
  /\ stalls = 0

-----------------------------------------------------------------------------
(* Sockets.  A send on an open socket is delivered in order; on a lost one *)
(* it raises, or vanishes while the coordinator has not noticed the loss.  *)
Deliver(c, m) == link[c] = "open" /\ toWorker' = [toWorker EXCEPT ![c] = Append(@, m)]
Vanish(c) == link[c] = "lost" /\ hpc[c] # "closed" /\ UNCHANGED toWorker
Raise(c)  == link[c] = "lost" /\ UNCHANGED toWorker

(* What the worker's agent sends goes to the socket it was made with. *)
WorkerSend(m) == toCoord' = [toCoord EXCEPT ![wconn] = Append(@, m)]

(* The worker's next connection may be accepted while the handler of the   *)
(* previous one is still busy, unless the environment rules it out.        *)
OldHandlersAllow ==
  \A c \in Conns : hpc[c] \in
    CASE ReconnectWhen = "handled" -> {"none", "closed"}
      [] ReconnectWhen = "noticed" -> {"none", "disc_read", "disc_commit", "disc_drop", "closed"}
      [] OTHER -> HandlerPC

(* run_worker: a new WorkerAgent, with no instances, for every connection. *)
Connect(c) ==
  /\ wconn = NoConn /\ link[c] = "unused"
  /\ OldHandlersAllow
  /\ wconn' = c
  /\ link' = [link EXCEPT ![c] = "open"]
  /\ hpc' = [hpc EXCEPT ![c] = "recv"]
  /\ UNCHANGED <<dbVars, registered, sched, prior, todo, cur, req, toCoord, toWorker,
                 runtime, zombie, draining, stalls>>

(* heartbeat_loop; at most one unread heartbeat per socket (a bound). *)
SendHeartbeat ==
  /\ wconn # NoConn
  /\ \A k \in 1..Len(toCoord[wconn]) : toCoord[wconn][k] # Heartbeat
  /\ WorkerSend(Heartbeat)
  /\ UNCHANGED <<dbVars, registered, sched, hVars, req, link, toWorker, wkVars, stalls>>

(* A connection is lost only while there is another to come (a bound). *)
MoreConns == \E c \in Conns : link[c] = "unused"

(* The connection breaks or the worker dies: its agent is gone, and with   *)
(* it every runtime; frames not yet read by the worker are lost.           *)
Lose ==
  /\ wconn # NoConn /\ MoreConns
  /\ link' = [link EXCEPT ![wconn] = "lost"]
  /\ toWorker' = [toWorker EXCEPT ![wconn] = <<>>]
  /\ wconn' = NoConn
  /\ runtime' = [i \in Instances |-> NoRun]
  /\ zombie' = {} /\ draining' = {}
  /\ UNCHANGED <<dbVars, registered, sched, hVars, req, toCoord, stalls>>

-----------------------------------------------------------------------------
(* Worker: the receive loop handles one message at a time, in order.       *)
(* Mutant: every message is dispatched as a task of its own.               *)
ReadsInAnyOrder(m) ==
  /\ wconn # NoConn
  /\ \E k \in 1..Len(toWorker[wconn]) :
       /\ m = toWorker[wconn][k]
       /\ toWorker' = [toWorker EXCEPT ![wconn] = SubSeq(@, 1, k - 1) \o SubSeq(@, k + 1, Len(@))]

Reads(m) ==
  /\ wconn # NoConn /\ toWorker[wconn] # <<>>
  /\ m = Head(toWorker[wconn])
  /\ toWorker' = [toWorker EXCEPT ![wconn] = Tail(@)]

(* Ticks already chained for a runtime that is taken away still run on it; *)
(* five of them make it report instance_error again.                       *)
MayDrain(i) ==
  \/ UNCHANGED draining
  \/ QueuedTicks /\ runtime[i] # NoRun /\ draining' = draining \cup {i}

Healthy(i) == runtime[i] # NoRun /\ i \notin zombie

(* _handle_start_instance: a healthy runtime makes it a duplicate. *)
IgnoreDuplicateStart(m) ==
  /\ m.type = "start" /\ Reads(m)
  /\ Healthy(m.inst)
  /\ UNCHANGED <<dbVars, registered, sched, hVars, req, link, toCoord, wkVars, stalls>>

BringUp(m) ==
  /\ m.type = "start" /\ Reads(m)
  /\ ~Healthy(m.inst)
  /\ MayDrain(m.inst)
  /\ zombie' = zombie \ {m.inst}
  /\ \/ /\ runtime' = [runtime EXCEPT ![m.inst] = m.run]
        /\ WorkerSend(Event("started", m.inst))
     \/ /\ Failures
        /\ runtime' = [runtime EXCEPT ![m.inst] = NoRun]
        /\ WorkerSend(Event("error", m.inst))
  /\ UNCHANGED <<dbVars, registered, sched, hVars, req, link, wconn, stalls>>

(* _handle_stop_instance answers even for an instance it does not know.    *)
(* Mutant: only for one it runs.                                           *)
AnswerIfKnown(i) ==
  IF runtime[i] # NoRun THEN WorkerSend(Event("stopped", i)) ELSE UNCHANGED toCoord
AnswerStop(i) == WorkerSend(Event("stopped", i))

StopInstance(m) ==
  /\ m.type = "stop" /\ Reads(m)
  /\ MayDrain(m.inst)
  /\ runtime' = [runtime EXCEPT ![m.inst] = NoRun]
  /\ zombie' = zombie \ {m.inst}
  /\ AnswerStop(m.inst)
  /\ UNCHANGED <<dbVars, registered, sched, hVars, req, link, wconn, stalls>>

(* on_tick_batch_entry: the fifth failure in a row reports instance_error  *)
(* and shuts the runtime down, but leaves it in _running_instances, where  *)
(* every further tick reports again (at most one unread report: a bound).  *)
(* Mutant: it reports but goes on.                                         *)
GiveUp(i) == zombie' = zombie \cup {i}

TickFails(i) ==
  /\ Failures
  /\ runtime[i] # NoRun
  /\ i \in zombie => /\ sched[i] # NoRun
                     /\ \A k \in 1..Len(toCoord[wconn]) : toCoord[wconn][k] # Event("error", i)
  /\ GiveUp(i)
  /\ WorkerSend(Event("error", i))
  /\ UNCHANGED <<dbVars, registered, sched, hVars, req, link, toWorker, wconn, runtime,
                 draining, stalls>>

(* The same counter on a runtime that was stopped with ticks queued. *)
LateTicksFail(i) ==
  /\ i \in draining /\ wconn # NoConn
  /\ draining' = draining \ {i}
  /\ WorkerSend(Event("error", i))
  /\ UNCHANGED <<dbVars, registered, sched, hVars, req, link, toWorker, wconn, runtime,
                 zombie, stalls>>

-----------------------------------------------------------------------------
(* Coordinator: worker_websocket reads one message at a time per socket.   *)
(* After a loss the frames already received may still be handled.          *)
Receives(c, m) ==
  /\ hpc[c] = "recv" /\ toCoord[c] # <<>>
  /\ m = Head(toCoord[c])
  /\ toCoord' = [toCoord EXCEPT ![c] = Tail(@)]

Goto(c, pc) == hpc' = [hpc EXCEPT ![c] = pc]

(* Heartbeat: register the socket, read the row, write it, and reconcile   *)
(* when the row did not say online.  Mutant: the socket is registered only *)
(* for a worker that was offline.                                          *)
RegisterIfOffline(c) == registered' = IF wstatus = "online" THEN registered ELSE c
RegisterWorker(c) == registered' = c

HeartbeatReceive(c) ==
  /\ Receives(c, Heartbeat)
  /\ RegisterWorker(c)
  /\ Goto(c, "hb_read")
  /\ UNCHANGED <<dbVars, sched, prior, todo, cur, req, link, toWorker, wkVars, stalls>>

HeartbeatRead(c) ==
  /\ hpc[c] = "hb_read"
  /\ prior' = [prior EXCEPT ![c] = wstatus]
  /\ Goto(c, "hb_commit")
  /\ UNCHANGED <<dbVars, registered, sched, todo, cur, req, link, toCoord, toWorker, wkVars, stalls>>

(* The ORM writes the status column only when its value changed. *)
HeartbeatCommit(c) ==
  /\ hpc[c] = "hb_commit"
  /\ wstatus' = IF prior[c] = "online" THEN wstatus ELSE "online"
  /\ Goto(c, IF prior[c] = "online" THEN "recv" ELSE "rec_select")
  /\ UNCHANGED <<status, activeRun, runStatus, registered, sched, prior, todo, cur, req, link,
                 toCoord, toWorker, wkVars, stalls>>

(* _reconcile_worker_instances: one SELECT, then per instance a send and a *)
(* scheduler start, with awaits in between.                                *)
Reconcilable(i) ==
  status[i] = "running" /\ activeRun[i] # NoRun /\ i \notin BadCredentials \cup BadManifest

ReconcileSelect(c) ==
  /\ hpc[c] = "rec_select"
  /\ todo' = [todo EXCEPT ![c] = {<<i, activeRun[i]>> : i \in {j \in Instances : Reconcilable(j)}}]
  /\ Goto(c, "rec_send")
  /\ UNCHANGED <<dbVars, registered, sched, prior, cur, req, link, toCoord, toWorker, wkVars, stalls>>

ReconcileSend(c) ==
  /\ hpc[c] = "rec_send"
  /\ \E p \in todo[c] :
       \/ /\ Deliver(c, StartMsg(p[1], p[2])) \/ Vanish(c)
          /\ cur' = [cur EXCEPT ![c] = p]
          /\ todo' = [todo EXCEPT ![c] = @ \ {p}]
          /\ Goto(c, "rec_sched")
       \/ /\ Raise(c)
          /\ todo' = [todo EXCEPT ![c] = {}]
          /\ Goto(c, "recv")
          /\ UNCHANGED cur
  /\ UNCHANGED <<dbVars, registered, sched, prior, req, link, toCoord, wkVars, stalls>>

(* Mutant: the ticks are thought to flow still. *)
ScheduleNothing(i, r) == UNCHANGED sched
Schedule(i, r) == sched' = [sched EXCEPT ![i] = r]

ReconcileSchedule(c) ==
  /\ hpc[c] = "rec_sched"
  /\ Schedule(cur[c][1], cur[c][2])
  /\ cur' = [cur EXCEPT ![c] = NoPair]
  /\ Goto(c, "rec_send")
  /\ UNCHANGED <<dbVars, registered, prior, todo, req, link, toCoord, toWorker, wkVars, stalls>>

ReconcileDone(c) ==
  /\ hpc[c] = "rec_send" /\ todo[c] = {}
  /\ Goto(c, "recv")
  /\ UNCHANGED <<dbVars, registered, sched, prior, todo, cur, req, link, toCoord, toWorker,
                 wkVars, stalls>>

(* Lifecycle messages name the instance but not the run. *)
InstanceStarted(c, i) ==
  /\ Receives(c, Event("started", i))
  /\ status' = [status EXCEPT ![i] = "running"]
  /\ UNCHANGED <<wstatus, activeRun, runStatus, registered, sched, hVars, req, link, toWorker,
                 wkVars, stalls>>

EndRun(i, s) ==
  runStatus' = IF activeRun[i] = NoRun THEN runStatus
               ELSE [runStatus EXCEPT ![i][activeRun[i]] = s]

InstanceStopped(c, i) ==
  /\ Receives(c, Event("stopped", i))
  /\ status' = [status EXCEPT ![i] = "stopped"]
  /\ EndRun(i, "stopped")
  /\ activeRun' = [activeRun EXCEPT ![i] = NoRun]
  /\ UNCHANGED <<wstatus, registered, sched, hVars, req, link, toWorker, wkVars, stalls>>

(* Mutant: the status is not one the deployment routes know. *)
UnknownErrorStatus == "failed"
ErrorStatus == "error"

InstanceError(c, i) ==
  /\ Receives(c, Event("error", i))
  /\ status' = [status EXCEPT ![i] = ErrorStatus]
  /\ EndRun(i, "error")
  /\ UNCHANGED <<wstatus, activeRun, registered, sched, hVars, req, link, toWorker, wkVars, stalls>>

(* handle_worker_disconnect: a socket that is not the registered one       *)
(* changes nothing; the registered one takes the worker down.              *)
Notice(c) ==
  /\ hpc[c] = "recv" /\ link[c] = "lost"
  /\ toCoord' = [toCoord EXCEPT ![c] = <<>>]
  /\ registered' = IF registered = c THEN NoConn ELSE registered
  /\ Goto(c, IF registered = c THEN "disc_read" ELSE "closed")
  /\ UNCHANGED <<dbVars, sched, prior, todo, cur, req, link, toWorker, wkVars, stalls>>

DisconnectRead(c) ==
  /\ hpc[c] = "disc_read"
  /\ Goto(c, IF wstatus = "offline" THEN "disc_drop" ELSE "disc_commit")
  /\ UNCHANGED <<dbVars, registered, sched, prior, todo, cur, req, link, toCoord, toWorker,
                 wkVars, stalls>>

(* Mutant: going offline is left to the sweep. *)
LeaveToSweep == UNCHANGED wstatus
MarkOffline == wstatus' = "offline"

DisconnectCommit(c) ==
  /\ hpc[c] = "disc_commit"
  /\ MarkOffline
  /\ Goto(c, "disc_drop")
  /\ UNCHANGED <<status, activeRun, runStatus, registered, sched, prior, todo, cur, req, link,
                 toCoord, toWorker, wkVars, stalls>>

(* TickScheduler.drop_worker takes every instance of the worker, whichever *)
(* connection scheduled it.                                                *)
DropWorker(c) ==
  /\ hpc[c] = "disc_drop"
  /\ sched' = [i \in Instances |-> NoRun]
  /\ Goto(c, "closed")
  /\ UNCHANGED <<dbVars, registered, prior, todo, cur, req, link, toCoord, toWorker, wkVars, stalls>>

(* sweep_stale_workers: heartbeats come every 30 s and go stale after 60,  *)
(* so a connected worker looks stale only if the coordinator stalls.       *)
Sweep ==
  /\ wstatus = "online"
  /\ wstatus' = "offline"
  /\ \/ wconn = NoConn /\ UNCHANGED stalls
     \/ wconn # NoConn /\ stalls < MaxStalls /\ stalls' = stalls + 1
  /\ UNCHANGED <<status, activeRun, runStatus, registered, sched, hVars, req, link, toCoord,
                 toWorker, wkVars>>

(* The coordinator is killed: its memory is gone, its rows stay as they    *)
(* were; the worker's connection breaks.                                   *)
Crash ==
  /\ MayCrash /\ MoreConns
  /\ registered' = NoConn
  /\ sched' = [i \in Instances |-> NoRun]
  /\ hpc' = [c \in Conns |-> IF hpc[c] = "none" THEN "none" ELSE "closed"]
  /\ todo' = [c \in Conns |-> {}]
  /\ cur' = [c \in Conns |-> NoPair]
  /\ req' = [u \in Requests |-> IdleReq]
  /\ link' = [c \in Conns |-> IF link[c] = "unused" THEN "unused" ELSE "lost"]
  /\ toCoord' = [c \in Conns |-> <<>>]
  /\ toWorker' = [c \in Conns |-> <<>>]
  /\ wconn' = NoConn
  /\ runtime' = [i \in Instances |-> NoRun]
  /\ zombie' = {} /\ draining' = {}
  /\ UNCHANGED <<dbVars, prior, stalls>>

-----------------------------------------------------------------------------
(* HTTP requests. *)
May(u, i) ==
  /\ req[u] = IdleReq
  /\ OneAtATime => \A v \in Requests : req[v].inst # i

Step(u, pc) == req' = [req EXCEPT ![u].pc = pc]
Done(u) == req' = [req EXCEPT ![u] = IdleReq]

(* start_deployment: status and socket are checked before the pre-start    *)
(* checks; the run is created after them, without a second look.  Mutant:  *)
(* only a running deployment refuses.                                      *)
StartableUnlessRunning(i) == status[i] # "running"
Startable(i) == status[i] \in {"stopped", "error"}

StartCheck(u, i) ==
  /\ May(u, i) /\ Startable(i)
  /\ registered # NoConn
  /\ req' = [req EXCEPT ![u] = [pc |-> "commit", inst |-> i, conn |-> registered, run |-> NoRun]]
  /\ UNCHANGED <<dbVars, registered, sched, hVars, link, toCoord, toWorker, wkVars, stalls>>

PreStartChecksFail(u) ==
  /\ req[u].pc = "commit"
  /\ Done(u)
  /\ UNCHANGED <<dbVars, registered, sched, hVars, link, toCoord, toWorker, wkVars, stalls>>

NewRun(i, r) ==
  /\ runStatus[i][r] = "none"
  /\ runStatus' = [runStatus EXCEPT ![i][r] = "running"]
  /\ status' = [status EXCEPT ![i] = "starting"]
  /\ activeRun' = [activeRun EXCEPT ![i] = r]

StartCommit(u, r) ==
  /\ req[u].pc = "commit"
  /\ NewRun(req[u].inst, r)
  /\ req' = [req EXCEPT ![u].pc = "send", ![u].run = r]
  /\ UNCHANGED <<wstatus, registered, sched, hVars, link, toCoord, toWorker, wkVars, stalls>>

(* The run and the deployment are marked error and the request ends. *)
StartError(u) ==
  /\ status' = [status EXCEPT ![req[u].inst] = "error"]
  /\ runStatus' = [runStatus EXCEPT ![req[u].inst][req[u].run] = "error"]
  /\ Done(u)

(* Send start_instance on socket c: bad credentials or a failed send are   *)
(* recorded; a manifest that does not load raises out of the handler.      *)
SendStart(u, c) ==
  LET i == req[u].inst IN
  \/ /\ i \in BadCredentials \/ (i \notin BadManifest /\ (c = NoConn \/ (c # NoConn /\ Raise(c))))
     /\ StartError(u)
     /\ UNCHANGED toWorker
  \/ /\ i \in BadManifest \ BadCredentials
     /\ Done(u)
     /\ UNCHANGED <<status, runStatus, toWorker>>
  \/ /\ i \notin BadCredentials \cup BadManifest
     /\ c # NoConn
     /\ Deliver(c, StartMsg(i, req[u].run)) \/ Vanish(c)
     /\ Step(u, "sched")
     /\ UNCHANGED <<status, runStatus>>

StartSend(u) ==
  /\ req[u].pc = "send"
  /\ SendStart(u, req[u].conn)
  /\ UNCHANGED <<wstatus, activeRun, registered, sched, hVars, link, toCoord, wkVars, stalls>>

StartSchedule(u) ==
  /\ req[u].pc = "sched"
  /\ Schedule(req[u].inst, req[u].run)
  /\ Done(u)
  /\ UNCHANGED <<dbVars, registered, hVars, link, toCoord, toWorker, wkVars, stalls>>

(* stop_deployment: the send is best effort. *)
Stoppable(i) == status[i] \in {"running", "starting"}

StopCommit(u, i) ==
  /\ May(u, i) /\ Stoppable(i)
  /\ status' = [status EXCEPT ![i] = "stopping"]
  /\ req' = [req EXCEPT ![u] = [pc |-> "stop_send", inst |-> i, conn |-> registered, run |-> NoRun]]
  /\ UNCHANGED <<wstatus, activeRun, runStatus, registered, sched, hVars, link, toCoord, toWorker,
                 wkVars, stalls>>

SendStop(u) ==
  LET c == req[u].conn IN
  IF c # NoConn /\ link[c] = "open" THEN Deliver(c, StopMsg(req[u].inst)) ELSE UNCHANGED toWorker

StopSend(u) ==
  /\ req[u].pc = "stop_send"
  /\ SendStop(u)
  /\ Step(u, "stop_unsched")
  /\ UNCHANGED <<dbVars, registered, sched, hVars, link, toCoord, wkVars, stalls>>

(* Mutant: the entry is left to the worker's disconnect. *)
Unschedule(i) == sched' = [sched EXCEPT ![i] = NoRun]

StopUnschedule(u) ==
  /\ req[u].pc = "stop_unsched"
  /\ Unschedule(req[u].inst)
  /\ Done(u)
  /\ UNCHANGED <<dbVars, registered, hVars, link, toCoord, toWorker, wkVars, stalls>>

(* redeploy of a running deployment: stop, wait one second, start a new    *)
(* run.  The status is read with the row; nothing waits for                *)
(* instance_stopped.                                                       *)
RedeployRead(u, i) ==
  /\ Redeploys
  /\ May(u, i) /\ Stoppable(i)
  /\ req' = [req EXCEPT ![u] = [pc |-> "re_begin", inst |-> i, conn |-> NoConn, run |-> NoRun]]
  /\ UNCHANGED <<dbVars, registered, sched, hVars, link, toCoord, toWorker, wkVars, stalls>>

RedeployStop(u) ==
  /\ req[u].pc = "re_begin"
  /\ status' = [status EXCEPT ![req[u].inst] = "stopping"]
  /\ req' = [req EXCEPT ![u].pc = "re_unsched", ![u].conn = registered]
  /\ UNCHANGED <<wstatus, activeRun, runStatus, registered, sched, hVars, link, toCoord, toWorker,
                 wkVars, stalls>>

RedeployUnschedule(u) ==
  /\ req[u].pc = "re_unsched"
  /\ Unschedule(req[u].inst)
  /\ Step(u, "re_stop")
  /\ UNCHANGED <<dbVars, registered, hVars, link, toCoord, toWorker, wkVars, stalls>>

RedeploySendStop(u) ==
  /\ req[u].pc = "re_stop"
  /\ SendStop(u)
  /\ Step(u, "re_sleep")
  /\ UNCHANGED <<dbVars, registered, sched, hVars, link, toCoord, wkVars, stalls>>

RedeployCommit(u, r) ==
  /\ req[u].pc = "re_sleep"
  /\ NewRun(req[u].inst, r)
  /\ req' = [req EXCEPT ![u].pc = "re_send", ![u].run = r]
  /\ UNCHANGED <<wstatus, registered, sched, hVars, link, toCoord, toWorker, wkVars, stalls>>

(* The pre-start checks may fail here too; the socket is fetched again. *)
RedeploySend(u) ==
  /\ req[u].pc = "re_send"
  /\ \/ StartError(u) /\ UNCHANGED toWorker
     \/ SendStart(u, registered)
  /\ UNCHANGED <<wstatus, activeRun, registered, sched, hVars, link, toCoord, wkVars, stalls>>

-----------------------------------------------------------------------------
HandlerStep(c) ==
  \/ HeartbeatReceive(c) \/ HeartbeatRead(c) \/ HeartbeatCommit(c)
  \/ ReconcileSelect(c) \/ ReconcileSend(c) \/ ReconcileSchedule(c) \/ ReconcileDone(c)
  \/ \E i \in Instances : InstanceStarted(c, i) \/ InstanceStopped(c, i) \/ InstanceError(c, i)
  \/ Notice(c) \/ DisconnectRead(c) \/ DisconnectCommit(c) \/ DropWorker(c)

WorkerStep ==
  \E m \in ToWorker : IgnoreDuplicateStart(m) \/ BringUp(m) \/ StopInstance(m)

RequestStep(u) ==
  \/ PreStartChecksFail(u) \/ StartSend(u) \/ StartSchedule(u)
  \/ \E r \in Runs : StartCommit(u, r)
  \/ StopSend(u) \/ StopUnschedule(u)
  \/ RedeployStop(u) \/ RedeployUnschedule(u) \/ RedeploySendStop(u) \/ RedeploySend(u)
  \/ \E r \in Runs : RedeployCommit(u, r)

Next ==
  \/ \E c \in Conns : Connect(c) \/ HandlerStep(c)
  \/ SendHeartbeat \/ Lose \/ WorkerStep
  \/ \E i \in Instances : TickFails(i) \/ LateTicksFail(i)
  \/ Sweep \/ Crash
  \/ \E u \in Requests : RequestStep(u)
  \/ \E u \in Requests, i \in Instances : StartCheck(u, i) \/ StopCommit(u, i) \/ RedeployRead(u, i)

(* The event loop of either process runs every coroutine that is ready,    *)
(* the worker retries its connection forever and heartbeats on a timer.    *)
Fairness ==
  /\ \A c \in Conns : WF_vars(HandlerStep(c))
  /\ WF_vars(\E c \in Conns : Connect(c))
  /\ WF_vars(SendHeartbeat)
  /\ WF_vars(WorkerStep)
  /\ \A u \in Requests : WF_vars(RequestStep(u))

Spec == Init /\ [][Next]_vars /\ Fairness

-----------------------------------------------------------------------------
(* A run row that says running is the deployment's active run: no run is   *)
(* left behind that nobody will ever close.                                *)
NoOrphanRun ==
  \A i \in Instances, r \in Runs : runStatus[i][r] = "running" => activeRun[i] = r

(* A worker that stays connected ends up registered under that connection  *)
(* and online, whatever the handlers of its earlier sockets, the sweep and *)
(* a coordinator crash do meanwhile.                                       *)
RegistrationRecovers ==
  \A c \in Conns :
    <>[](wconn = c) => <>[](registered = c /\ wstatus = "online")

(* A deployment that stays running on a worker that stays connected ends   *)
(* up with a runtime there.                                                *)
Rehydrated ==
  \A i \in Instances, c \in Conns :
    <>[](wconn = c /\ status[i] = "running" /\ activeRun[i] # NoRun
         /\ i \notin BadCredentials \cup BadManifest)
      => <>[](runtime[i] # NoRun)

(* ... and with a tick scheduler entry. *)
TicksResume ==
  \A i \in Instances, c \in Conns :
    <>[](wconn = c /\ status[i] = "running" /\ activeRun[i] # NoRun
         /\ i \notin BadCredentials \cup BadManifest)
      => <>[](sched[i] # NoRun)

(* Nothing is in flight that concerns a deployment. *)
Quiet ==
  /\ \A u \in Requests : req[u] = IdleReq
  /\ wconn # NoConn /\ hpc[wconn] = "recv" /\ toWorker[wconn] = <<>>
  /\ \A i \in Instances, k \in 1..Len(toCoord[wconn]) : toCoord[wconn][k].inst # i
  /\ draining = {}

(* When everything has been delivered, the status a person sees is true: a *)
(* running deployment has a healthy runtime and gets ticks, a stopped one  *)
(* has neither a runtime nor a scheduler entry, and nobody trades for a    *)
(* failed one.                                                             *)
StatusIsTrue ==
  Quiet => \A i \in Instances :
    /\ status[i] = "running" => Healthy(i) /\ sched[i] # NoRun
    /\ status[i] = "stopped" => runtime[i] = NoRun /\ sched[i] = NoRun
    /\ status[i] = "error"   => ~Healthy(i)

(* A stop is answered: the deployment does not stay in stopping. *)
StopCompletes ==
  \A i \in Instances : status[i] = "stopping" ~> status[i] # "stopping"
=============================================================================
