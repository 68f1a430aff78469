---------------------------- MODULE TickDelivery ----------------------------
(***************************************************************************)
(* How ticks get from the feed to a worker: the contexts that subscribe    *)
(* for the instances, the worker's outbound queue and its drain loop, and  *)
(* the calls that start, stop and drop them.                               *)
(*                                                                         *)
(* One worker.  The calls suspend where they await a cancelled interval    *)
(* loop; the model lets others run there for every trigger.  ctx.start()   *)
(* and the enqueueing of ticks have no suspension.                         *)
(***************************************************************************)
EXTENDS Integers, Sequences, SequencesExt

CONSTANTS
  Instances,
  Callers,      \* calls of the scheduler at a time (a bound)
  MaxContexts,  \* contexts ever made (a bound)
  MaxEvents     \* bars, events and intervals (a bound)

VARIABLES
  context,      \* [inst, trigger, live] of each context
  registered,   \* _instances: the context of an instance, 0 for none
  call,         \* [pc, inst, trigger, left] of each caller
  now,          \* bars, events and intervals so far
  out,          \* _worker_outbound: [queue, batch]
  online,       \* has the worker a connection?
  delivered,    \* ticks that the worker got
  overlapped    \* history: instances for which two calls were under way

vars == <<context, registered, call, now, out, online, delivered, overlapped>>

Contexts == DOMAIN context
NoCall   == [pc |-> "idle", inst |-> 0, trigger |-> "", left |-> {}]
NoOut    == [queue |-> <<>>, batch |-> <<>>]

Init ==
  /\ context = <<>> /\ registered = [i \in Instances |-> 0] /\ call = [k \in Callers |-> NoCall]
  /\ now = 0 /\ out = NoOut /\ online = TRUE /\ delivered = <<>> /\ overlapped = {}

-----------------------------------------------------------------------------
(* stop_instance pops the context, unsubscribes it and cancels its loop. *)

Live(c) == context[c].live

Unsubscribed(i) ==
  IF registered[i] = 0 THEN context ELSE [context EXCEPT ![registered[i]].live = FALSE]

Pop(i) == context' = Unsubscribed(i) /\ registered' = [registered EXCEPT ![i] = 0]

Busy(i) == \E k \in Callers : call[k].pc # "idle" /\ (call[k].inst = i \/ i \in call[k].left)
Touches(S) == overlapped' = overlapped \cup {i \in S : Busy(i)}
Calls(k, c) == call' = [call EXCEPT ![k] = c]

(* Mutant: the context that is registered goes on. *)
KeepsOld(i)  == UNCHANGED <<context, registered>>
StopsOld(i)  == Pop(i)

StartInstance(k, i, trigger) ==
  /\ call[k].pc = "idle" /\ Len(context) < MaxContexts /\ StopsOld(i) /\ Touches({i})
  /\ Calls(k, [NoCall EXCEPT !.pc = "start", !.inst = i, !.trigger = trigger])
  /\ UNCHANGED <<now, out, online, delivered>>

(* An unknown trigger raises once the old context is gone.  The context is  *)
(* registered over whatever another call put there.                         *)
StartContext(k) ==
  /\ call[k].pc = "start" /\ Calls(k, NoCall)
  /\ IF call[k].trigger = "unknown" \/ Len(context) = MaxContexts THEN UNCHANGED <<context, registered>>
     ELSE /\ context' = Append(context, [inst |-> call[k].inst, trigger |-> call[k].trigger, live |-> TRUE])
          /\ registered' = [registered EXCEPT ![call[k].inst] = Len(context')]
  /\ UNCHANGED <<now, out, online, delivered, overlapped>>

StopInstance(k, i) ==
  /\ call[k].pc = "idle" /\ Pop(i) /\ Touches({i})
  /\ Calls(k, [NoCall EXCEPT !.pc = "stop", !.inst = i])
  /\ UNCHANGED <<now, out, online, delivered>>

Stopped(k) ==
  /\ call[k].pc = "stop" /\ Calls(k, NoCall)
  /\ UNCHANGED <<context, registered, now, out, online, delivered, overlapped>>

(* drop_worker: the instances as they are when it begins, then the queue. *)
DropWorker(k) ==
  /\ call[k].pc = "idle" /\ ~online
  /\ LET on == {i \in Instances : registered[i] # 0} IN
     Calls(k, [NoCall EXCEPT !.pc = "drop", !.left = on]) /\ Touches(on)
  /\ UNCHANGED <<context, registered, now, out, online, delivered>>

DropInstance(k, i) ==
  /\ call[k].pc = "drop" /\ i \in call[k].left /\ Pop(i)
  /\ Calls(k, [call[k] EXCEPT !.left = @ \ {i}])
  /\ UNCHANGED <<now, out, online, delivered, overlapped>>

DropOutbound(k) ==
  /\ call[k].pc = "drop" /\ call[k].left = {} /\ out' = NoOut /\ Calls(k, NoCall)
  /\ UNCHANGED <<context, registered, now, online, delivered, overlapped>>

-----------------------------------------------------------------------------
(* Ticks *)

(* A queue that was dropped is made again, and its drain loop started. *)
Enqueue(ticks) == out' = [out EXCEPT !.queue = @ \o ticks]

Tick(c) == [context |-> c, at |-> now + 1]

(* A bar or an event calls a snapshot of the subscribers. *)
Dispatch ==
  /\ now < MaxEvents /\ now' = now + 1
  /\ \E order \in SetToSeqs({c \in Contexts : Live(c) /\ context[c].trigger = "bar"}) :
       order # <<>> /\ Enqueue([n \in DOMAIN order |-> Tick(order[n])])
  /\ UNCHANGED <<context, registered, call, online, delivered, overlapped>>

IntervalLoop(c) ==
  /\ now < MaxEvents /\ now' = now + 1
  /\ Live(c) /\ context[c].trigger = "interval" /\ Enqueue(<<Tick(c)>>)
  /\ UNCHANGED <<context, registered, call, online, delivered, overlapped>>

(* The first tick, and what comes until the deadline. *)
Coalesce ==
  /\ out.queue # <<>>
  /\ out' = [out EXCEPT !.queue = Tail(@), !.batch = Append(@, Head(out.queue))]
  /\ UNCHANGED <<context, registered, call, now, online, delivered, overlapped>>

(* Mutant: a batch that could not be sent is queued again. *)
Requeued == [out EXCEPT !.batch = <<>>, !.queue = @ \o out.batch]
Dropped  == [out EXCEPT !.batch = <<>>]

(* The deadline: the batch is sent, or fails and is dropped. *)
SendBatch ==
  /\ out.batch # <<>>
  /\ \/ online /\ delivered' = delivered \o out.batch /\ out' = [out EXCEPT !.batch = <<>>]
     \/ out' = Dropped /\ UNCHANGED delivered
  /\ UNCHANGED <<context, registered, call, now, online, overlapped>>

Connection ==
  /\ online' = ~online
  /\ UNCHANGED <<context, registered, call, now, out, delivered, overlapped>>

Next ==
  \/ Dispatch \/ Coalesce \/ SendBatch \/ Connection
  \/ \E c \in Contexts : IntervalLoop(c)
  \/ \E k \in Callers :
       \/ StartContext(k) \/ Stopped(k) \/ DropWorker(k) \/ DropOutbound(k)
       \/ \E i \in Instances : StopInstance(k, i) \/ DropInstance(k, i)
       \/ \E i \in Instances, t \in {"bar", "interval", "unknown"} : StartInstance(k, i, t)

Spec == Init /\ [][Next]_vars

-----------------------------------------------------------------------------
TypeOK ==
  /\ registered \in [Instances -> 0..MaxContexts] /\ now \in 0..MaxEvents
  /\ \A k \in Callers : call[k].pc \in {"idle", "start", "stop", "drop"} /\ call[k].left \subseteq Instances
  /\ overlapped \subseteq Instances

(* What is registered ticks, and nothing else does, unless two calls for    *)
(* the instance overlapped.                                                 *)
OnlyRegisteredTick ==
  /\ \A i \in Instances : registered[i] # 0 => Live(registered[i]) /\ context[registered[i]].inst = i
  /\ \A c \in Contexts : Live(c) => registered[context[c].inst] = c \/ context[c].inst \in overlapped

(* A context's ticks arrive in their order, and none twice. *)
TicksArriveInOrder ==
  \A i, j \in DOMAIN delivered :
    i < j /\ delivered[i].context = delivered[j].context => delivered[i].at < delivered[j].at
=============================================================================
