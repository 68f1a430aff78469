----------------------------- MODULE LiveFeeds -----------------------------
(***************************************************************************)
(* Live market-data subscriptions: the rows and consumers that say which   *)
(* symbols are wanted (lifecycle.py, routes/live_subscriptions.py) and the *)
(* streams and flush tasks that serve them (live_feed_aggregator.py).      *)
(*                                                                         *)
(* Everything runs on one event loop, cut at the awaits that matter: the   *)
(* adapter lookup of start_subscription, the wait for a cancelled flush    *)
(* task in stop_subscription, and the reads that precede a write.  One     *)
(* asset class, so a stream key is its owner: an account or a provider.    *)
(***************************************************************************)
EXTENDS Naturals, FiniteSets, Sequences, SequencesExt

CONSTANTS
  Owners, Symbols, Brokers,
  BrokerOf,    \* the broker (or provider) of each owner
  Providers,   \* owners that are providers: their rows and calls carry no account_id
  Surgical,    \* owners whose handles implement add_symbols and remove_symbols
  Cap,         \* stream_config(...).cap
  Instances, AccountOf, AssetOf,  \* deployments, the account and the asset of each
  Calls,       \* concurrent requests and deployment starts or stops (a bound)
  Rows, Conns, Handles, Tasks,    \* identities (bounds)
  None

Keys      == Brokers \X Symbols
Key(o, s) == <<BrokerOf[o], s>>
Consumers == Instances \cup {"manual"}
Sub       == [owner: Owners, sym: Symbols, consumers: SUBSET Consumers, status: {"running", "error"}]

Call == [op: {"idle", "create", "prestart", "poststop", "unsubscribe", "boot"},
         pc: {"idle", "insert", "start", "open", "restart", "mark", "stop", "stopping"},
         owner: Owners \cup {None}, sym: Symbols \cup {None}, who: Consumers \cup {None},
         row: Rows \cup {None}, key: Keys \cup {None}, conn: Conns \cup {None},
         old: Handles \cup {None}]
Task       == [key: Keys, pc: {"new", "wait", "db"}, own: BOOLEAN]
Connection == [syms: SUBSET Symbols, handle: Handles \cup {None}]
Handle     == [owner: Owners, syms: SUBSET Symbols]

ConstantsAssumption ==
  /\ BrokerOf \in [Owners -> Brokers] /\ Surgical \subseteq Owners /\ Providers \subseteq Owners
  /\ Cap \in Nat \ {0} /\ IsFiniteSet(Rows)
  /\ AccountOf \in [Instances -> Owners] /\ AssetOf \in [Instances -> Symbols]
  /\ \A S \in {Owners, Symbols, Instances, Calls, Rows, Conns, Handles, Tasks} : None \notin S
  /\ None \notin Sub /\ None \notin Task /\ None \notin Handle

VARIABLES
  row,      \* LiveSubscription rows with their SubscriptionConsumer rows
  lock,     \* the request whose open transaction holds SQLite's write lock
  call,     \* where each request is suspended
  running,  \* deployments that passed their pre-start checks
  phase,    \* of the coordinator process
  todo,     \* rows start() has still to resume
  states,   \* _states: its keys (broker, symbol), in insertion order
  tracked,  \* _tasks: key -> flush task
  task,     \* every flush task alive, tracked or not
  streams,  \* _streams: owner -> connection
  conn,     \* _StreamConn objects
  handle    \* stream handles: the symbols an open one carries

db   == <<row, lock, running>>
agg  == <<states, tracked, task, streams, conn, handle>>
vars == <<row, lock, call, running, phase, todo, states, tracked, task, streams, conn, handle>>

Idle == [op |-> "idle", pc |-> "idle", owner |-> None, sym |-> None, who |-> None,
         row |-> None, key |-> None, conn |-> None, old |-> None]

TypeOK ==
  /\ row \in [Rows -> Sub \cup {None}]
  /\ lock \in Calls \cup {None} /\ running \subseteq Instances
  /\ call \in [Calls -> Call]
  /\ phase \in {"up", "booting", "failed", "stopping", "stopped", "down"} /\ todo \subseteq Rows
  /\ states \in Seq(Keys) /\ IsInjective(states)
  /\ tracked \in [Keys -> Tasks \cup {None}]
  /\ task \in [Tasks -> Task \cup {None}]
  /\ streams \in [Owners -> Conns \cup {None}]
  /\ conn \in [Conns -> Connection] /\ handle \in [Handles -> Handle \cup {None}]

(* No row, or one written by an older version, without consumer rows.      *)
Init ==
  /\ \/ row = [r \in Rows |-> None]
     \/ \E r \in Rows, o \in Owners, s \in Symbols :
          row = [q \in Rows |-> IF q = r THEN [owner |-> o, sym |-> s, consumers |-> {}, status |-> "running"]
                                         ELSE None]
  /\ lock = None /\ running = {}
  /\ call = [c \in Calls |-> Idle]
  /\ phase = "down" /\ todo = {}
  /\ states = <<>> /\ tracked = [k \in Keys |-> None] /\ task = [t \in Tasks |-> None]
  /\ streams = [o \in Owners |-> None] /\ conn = [x \in Conns |-> [syms |-> {}, handle |-> None]]
  /\ handle = [h \in Handles |-> None]

-----------------------------------------------------------------------------
(* Identities are reused once nothing refers to them. *)
FreeConns   == {x \in Conns : (\A o \in Owners : streams[o] # x) /\ (\A c \in Calls : call[c].conn # x)}
FreeHandles == {h \in Handles : handle[h] = None /\ \A c \in Calls : call[c].old # h}
FreeTasks   == {t \in Tasks : task[t] = None /\ \A k \in Keys : tracked[k] # t}
FreeRows    == {r \in Rows : row[r] = None}
Fresh(S)    == CHOOSE x \in S : TRUE

RowsOf(o, s) == {r \in Rows : row[r] # None /\ row[r].owner = o /\ row[r].sym = s}
(* Mutant: the state is made anew for every call.                          *)
NeverHere(k) == FALSE
Here(k)      == \E i \in DOMAIN states : states[i] = k
CanWrite(c)  == lock \in {None, c}
Goes(c, pc)  == call' = [call EXCEPT ![c].pc = pc]
Ends(c)      == call' = [call EXCEPT ![c] = Idle]
(* What a symbol-and-account query finds; without an account, the rows of every provider. *)
Matching(o, s) == IF o \in Providers THEN UNION {RowsOf(p, s) : p \in Providers} ELSE RowsOf(o, s)

-----------------------------------------------------------------------------
(* create_sub checks for a duplicate, then inserts the row with its manual *)
(* consumer and commits before it starts the stream.                       *)
Begins(c, op, pc, o, s, w) ==
  /\ phase = "up" /\ call[c] = Idle
  /\ call' = [call EXCEPT ![c] = [Idle EXCEPT !.op = op, !.pc = pc, !.owner = o, !.sym = s, !.who = w]]

CreateSub(c) ==
  /\ \E o \in Owners, s \in Symbols : RowsOf(o, s) = {} /\ Begins(c, "create", "insert", o, s, "manual")
  /\ UNCHANGED <<row, lock, running, phase, todo>> /\ UNCHANGED agg

(* pre_start_checks looks the row up, which raises when there are two.     *)
PreStartChecks(c) ==
  /\ \E i \in Instances \ running :
       LET rs == RowsOf(AccountOf[i], AssetOf[i]) IN
       /\ Cardinality(rs) < 2 /\ \A d \in Calls : call[d].who # i
       /\ phase = "up" /\ call[c] = Idle
       /\ call' = [call EXCEPT ![c] = [Idle EXCEPT !.op = "prestart", !.pc = "insert", !.owner = AccountOf[i],
                    !.sym = AssetOf[i], !.who = i, !.row = IF rs = {} THEN None ELSE Fresh(rs)]]
  /\ UNCHANGED <<row, lock, running, phase, todo>> /\ UNCHANGED agg

(* The consumer of a row deleted since the lookup is an orphan: nothing    *)
(* enforces the foreign key.                                               *)
InsertConsumer(c) ==
  LET k == call[c] IN
  /\ k.pc = "insert" /\ CanWrite(c)
  /\ \/ /\ k.row = None /\ FreeRows # {}
        /\ row' = [row EXCEPT ![Fresh(FreeRows)] =
                     [owner |-> k.owner, sym |-> k.sym, consumers |-> {k.who}, status |-> "running"]]
     \/ /\ k.row # None
        /\ row' = IF row[k.row] = None THEN row ELSE [row EXCEPT ![k.row].consumers = @ \cup {k.who}]
  /\ running' = IF k.op = "prestart" THEN running \cup {k.who} ELSE running
  /\ call' = [call EXCEPT ![c].pc = "start", ![c].row = None, ![c].who = None]
  /\ UNCHANGED <<lock, phase, todo>> /\ UNCHANGED agg

(* post_stop_actions: one transaction drops the deployment's consumer and  *)
(* the row nobody is left on, then the stream is asked to stop.            *)
PostStopActions(c) ==
  /\ \E i \in running :
       LET rs == RowsOf(AccountOf[i], AssetOf[i])  left == row[Fresh(rs)].consumers \ {i} IN
       /\ CanWrite(c) /\ \A d \in Calls : call[d].who # i
       /\ running' = running \ {i}
       /\ IF Cardinality(rs) = 1
          THEN /\ row' = [row EXCEPT ![Fresh(rs)] = IF left = {} THEN None ELSE [@ EXCEPT !.consumers = left]]
               /\ IF left = {} THEN Begins(c, "poststop", "stop", AccountOf[i], AssetOf[i], i)
                               ELSE phase = "up" /\ call[c] = Idle /\ UNCHANGED call
          ELSE phase = "up" /\ call[c] = Idle /\ UNCHANGED <<row, call>>
  /\ UNCHANGED <<lock, phase, todo>> /\ UNCHANGED agg

(* unsubscribe drops the manual consumer; when nobody is left it stops the *)
(* stream with its transaction open, and only then deletes the row.  The   *)
(* row without consumers that delete_sub accepts goes the same way.        *)
Unsubscribe(c) ==
  /\ CanWrite(c)
  /\ \E r \in Rows :
       /\ row[r] # None /\ phase = "up" /\ call[c] = Idle
       /\ IF row[r].consumers \subseteq {"manual"}
          THEN /\ call' = [call EXCEPT ![c] = [Idle EXCEPT !.op = "unsubscribe", !.pc = "stop",
                             !.owner = row[r].owner, !.sym = row[r].sym, !.row = r]]
               /\ lock' = c /\ UNCHANGED row
          ELSE /\ row' = [row EXCEPT ![r].consumers = @ \ {"manual"}]
               /\ UNCHANGED <<call, lock>>
  /\ UNCHANGED <<running, phase, todo>> /\ UNCHANGED agg

-----------------------------------------------------------------------------
(* start_subscription, up to its first await.  The state is made first;    *)
(* a stream at its cap raises; an open stream takes the symbol at once     *)
(* when its handle can.  create_task(_run) replaces the task of the key,   *)
(* whatever it is.                                                         *)
NewTask(k) ==
  /\ FreeTasks # {}
  /\ task' = [task EXCEPT ![Fresh(FreeTasks)] = [key |-> k, pc |-> "new", own |-> FALSE]]
  /\ tracked' = [tracked EXCEPT ![k] = Fresh(FreeTasks)]

(* Mutant: an open stream is taken to be flushed already.                  *)
AlreadyFlushed(k) == UNCHANGED <<task, tracked>>
JoinTask(k)       == NewTask(k)

AtCap(o) == Cardinality(conn[streams[o]].syms) >= Cap

(* Only start() lets the exception of a stream at its cap escape.          *)
Raises(c) == Ends(c) /\ phase' = IF call[c].op = "boot" THEN "failed" ELSE phase

StartSubscription(c) ==
  LET o == call[c].owner  s == call[c].sym  x == streams[o] IN
  /\ call[c].pc = "start"
  /\ states' = IF Here(Key(o, s)) THEN states ELSE Append(states, Key(o, s))
  /\ \/ /\ x = None
        /\ Goes(c, "open") /\ UNCHANGED <<tracked, task, conn, handle, phase>>
     \/ /\ x # None /\ AtCap(o)
        /\ Raises(c) /\ UNCHANGED <<tracked, task, conn, handle>>
     \/ /\ x # None /\ ~AtCap(o) /\ s \notin conn[x].syms /\ o \notin Surgical
        /\ call' = [call EXCEPT ![c].pc = "restart", ![c].conn = x, ![c].old = conn[x].handle]
        /\ UNCHANGED <<tracked, task, conn, handle, phase>>
     \/ /\ x # None /\ ~AtCap(o) /\ (s \in conn[x].syms \/ o \in Surgical)
        /\ conn' = [conn EXCEPT ![x].syms = @ \cup {s}]
        /\ handle' = [handle EXCEPT ![conn[x].handle].syms = @ \cup {s}]
        /\ JoinTask(Key(o, s)) /\ Goes(c, "mark") /\ UNCHANGED phase
  /\ UNCHANGED <<row, lock, running, todo, streams>>

(* After the adapter lookup: no adapter, a stream that cannot be opened,   *)
(* or one that replaces whatever was opened for the owner meanwhile.       *)
OpenStream(c) ==
  LET o == call[c].owner  s == call[c].sym  rs == Matching(o, s) IN
  /\ call[c].pc = "open"
  /\ \/ /\ CanWrite(c) /\ Cardinality(rs) < 2
        /\ row' = [r \in Rows |-> IF r \in rs THEN [row[r] EXCEPT !.status = "error"] ELSE row[r]]
        /\ UNCHANGED <<streams, conn, handle>>
     \/ UNCHANGED <<row, streams, conn, handle>>
     \/ /\ FreeConns # {} /\ FreeHandles # {}
        /\ LET x == Fresh(FreeConns)  h == Fresh(FreeHandles) IN
             /\ handle' = [handle EXCEPT ![h] = [owner |-> o, syms |-> {s}]]
             /\ conn' = [conn EXCEPT ![x] = [syms |-> {s}, handle |-> h]]
             /\ streams' = [streams EXCEPT ![o] = x]
        /\ UNCHANGED row
  /\ NewTask(Key(o, s)) /\ Goes(c, "mark")
  /\ UNCHANGED <<lock, running, phase, todo, states>>

(* A handle that cannot add symbols is replaced by one that carries them   *)
(* all, and closed; when the new one cannot be opened the call returns.    *)
(* Mutant: the connection keeps the handle that is about to be closed.     *)
KeepsHandle(x, syms, h) == [conn EXCEPT ![x].syms = syms]
Rehandled(x, syms, h)   == [conn EXCEPT ![x] = [syms |-> syms, handle |-> h]]

RestartStream(c) ==
  LET o == call[c].owner  s == call[c].sym  x == call[c].conn  syms == conn[x].syms \cup {s} IN
  /\ call[c].pc = "restart"
  /\ \/ Ends(c) /\ UNCHANGED <<conn, handle, tracked, task>>
     \/ /\ FreeHandles # {}
        /\ LET h == Fresh(FreeHandles) IN
             /\ handle' = [handle EXCEPT ![h] = [owner |-> o, syms |-> syms], ![call[c].old] = None]
             /\ conn' = Rehandled(x, syms, h)
        /\ NewTask(Key(o, s))
        /\ call' = [call EXCEPT ![c].pc = "mark", ![c].conn = None, ![c].old = None]
  /\ UNCHANGED <<row, lock, running, phase, todo, states, streams>>

(* _mark_subscription_running, when the owner has a stream.                *)
MarkRunning(c) ==
  LET o == call[c].owner  rs == Matching(o, call[c].sym) IN
  /\ call[c].pc = "mark"
  /\ \/ streams[o] = None /\ Ends(c) /\ UNCHANGED <<row, phase>>
     \/ streams[o] # None /\ Cardinality(rs) > 1 /\ Raises(c) /\ UNCHANGED row
     \/ /\ streams[o] # None /\ Cardinality(rs) < 2 /\ CanWrite(c) /\ Ends(c)
        /\ row' = [r \in Rows |-> IF r \in rs THEN [row[r] EXCEPT !.status = "running"] ELSE row[r]]
        /\ UNCHANGED phase
  /\ UNCHANGED <<lock, running, todo>> /\ UNCHANGED agg

-----------------------------------------------------------------------------
(* stop_subscription takes the oldest state of that symbol, whoever's it   *)
(* is (FirstOf), cancels its task and waits for it.  Without a state it    *)
(* returns.                                                                *)
FinishRequest(c) ==
  /\ Ends(c)
  /\ lock' = IF lock = c THEN None ELSE lock
  /\ row' = IF call[c].row = None THEN row ELSE [row EXCEPT ![call[c].row] = None]

FirstOf(s) == {i \in DOMAIN states : states[i][2] = s /\ \A j \in 1..i - 1 : states[j][2] # s}

StopSubscription(c) ==
  /\ call[c].pc = "stop"
  /\ IF FirstOf(call[c].sym) = {}
     THEN FinishRequest(c) /\ UNCHANGED <<task, tracked>>
     ELSE \E i \in FirstOf(call[c].sym) :
          LET k == states[i] IN
          /\ call' = [call EXCEPT ![c].pc = "stopping", ![c].key = k]
          /\ tracked' = [tracked EXCEPT ![k] = None]
          /\ task' = IF tracked[k] = None THEN task ELSE [task EXCEPT ![tracked[k]] = None]
          /\ UNCHANGED <<row, lock>>
  /\ UNCHANGED <<running, phase, todo, states, streams, conn, handle>>

(* The owner's stream, or without an account any provider's.               *)
Carried(o) == IF streams[o] = None THEN {} ELSE conn[streams[o]].syms
Carrying(o, s) == {p \in IF o \in Providers THEN Providers ELSE {o} : s \in Carried(p)}
Disown(k) == [t \in Tasks |-> IF task[t] # None /\ task[t].key = k THEN [task[t] EXCEPT !.own = FALSE] ELSE task[t]]

(* Mutant: the symbol leaves the connection's set only.                    *)
NotCarried(h, s)   == [handle EXCEPT ![h].syms = @ \ {s}]

(* A handle that cannot remove symbols raises: the symbol is off the       *)
(* connection's set, and nothing is closed.                                *)
LeaveStream(p, s) ==
  LET x == streams[p]  left == conn[x].syms \ {s} IN
  /\ conn' = [conn EXCEPT ![x].syms = left]
  /\ IF p \notin Surgical THEN UNCHANGED <<handle, streams>>
     ELSE IF left = {} THEN /\ handle' = [handle EXCEPT ![conn[x].handle] = None]
                            /\ streams' = [streams EXCEPT ![p] = None]
     ELSE handle' = NotCarried(conn[x].handle, s) /\ UNCHANGED streams

FinishStop(c) ==
  LET o == call[c].owner  s == call[c].sym  k == call[c].key IN
  /\ call[c].pc = "stopping"
  /\ states' = IF Here(k) THEN RemoveAt(states, CHOOSE i \in DOMAIN states : states[i] = k) ELSE states
  /\ task' = Disown(k)
  /\ IF Carrying(o, s) = {} THEN UNCHANGED <<streams, conn, handle>>
     ELSE \E p \in Carrying(o, s) : LeaveStream(p, s)
  /\ FinishRequest(c)
  /\ UNCHANGED <<running, phase, todo, tracked>>

-----------------------------------------------------------------------------
(* _run: its first step takes the state, a KeyError if it is gone; then it *)
(* wakes, flushes, and once a minute updates the row.                      *)
FlushTask(t) ==
  /\ task[t] # None /\ phase \in {"up", "booting", "stopping"}
  /\ \/ /\ task[t].pc = "new"
        /\ task' = [task EXCEPT ![t] = IF Here(@.key) THEN [@ EXCEPT !.pc = "wait", !.own = TRUE] ELSE None]
     \/ /\ task[t].pc = "wait" /\ phase # "stopping" /\ task' = [task EXCEPT ![t].pc = "db"]
     \/ /\ task[t].pc = "wait" /\ phase = "stopping" /\ task' = [task EXCEPT ![t] = None]
     \/ /\ task[t].pc = "db" /\ task' = [task EXCEPT ![t].pc = "wait"]
  /\ UNCHANGED <<row, lock, call, running, phase, todo, states, tracked, streams, conn, handle>>

-----------------------------------------------------------------------------
(* The lifespan: start() resumes, one after the other, every row that has  *)
(* a consumer or is still marked running; stop() waits for the tasks it    *)
(* tracks, then closes and forgets everything.                             *)
Resumable == {r \in Rows : row[r] # None /\ (row[r].consumers # {} \/ row[r].status = "running")}

Boot ==
  /\ phase = "down"
  /\ phase' = "booting" /\ todo' = Resumable
  /\ UNCHANGED <<call>> /\ UNCHANGED db /\ UNCHANGED agg

ResumeNext ==
  /\ phase = "booting" /\ \A c \in Calls : call[c] = Idle
  /\ \/ /\ todo = {} /\ phase' = "up" /\ UNCHANGED <<todo, call>>
     \/ \E r \in todo, c \in Calls :
          /\ todo' = todo \ {r} /\ UNCHANGED phase
          /\ call' = [call EXCEPT ![c] = [Idle EXCEPT !.op = "boot", !.pc = "start",
                                           !.owner = row[r].owner, !.sym = row[r].sym]]
  /\ UNCHANGED db /\ UNCHANGED agg

Forget ==
  /\ states' = <<>> /\ tracked' = [k \in Keys |-> None]
  /\ streams' = [o \in Owners |-> None]
  /\ conn' = [x \in Conns |-> [syms |-> {}, handle |-> None]]

BeginStop ==
  /\ phase = "up" /\ \A c \in Calls : call[c] = Idle
  /\ phase' = "stopping"
  /\ UNCHANGED <<call, todo>> /\ UNCHANGED db /\ UNCHANGED agg

EndStop ==
  /\ phase = "stopping" /\ {k \in Keys : tracked[k] # None} \subseteq {k \in Keys : task[tracked[k]] = None}
  /\ phase' = "stopped" /\ Forget
  /\ handle' = [h \in Handles |-> IF \E o \in Owners : streams[o] # None /\ conn[streams[o]].handle = h
                                  THEN None ELSE handle[h]]
  /\ UNCHANGED <<row, lock, running, call, todo, task>>

(* The process ends: killed at any point, or after it has stopped or       *)
(* failed to start.  An open transaction is rolled back.                   *)
Exit ==
  /\ phase' = "down" /\ Forget
  /\ task' = [t \in Tasks |-> None] /\ handle' = [h \in Handles |-> None]
  /\ call' = [c \in Calls |-> Idle] /\ lock' = None /\ todo' = {}
  /\ UNCHANGED <<row, running>>

Next ==
  \/ \E c \in Calls :
       \/ CreateSub(c) \/ PreStartChecks(c) \/ InsertConsumer(c) \/ PostStopActions(c) \/ Unsubscribe(c)
       \/ StartSubscription(c) \/ OpenStream(c) \/ RestartStream(c) \/ MarkRunning(c)
       \/ StopSubscription(c) \/ FinishStop(c)
  \/ \E t \in Tasks : FlushTask(t)
  \/ Boot \/ ResumeNext \/ BeginStop \/ EndStop \/ Exit

Spec == Init /\ [][Next]_vars

-----------------------------------------------------------------------------
(* Properties. *)

(* A connection the aggregator knows has an open handle of its own owner   *)
(* that carries every symbol of the connection, however starts, restarts   *)
(* and stops of the same stream overlap.                                   *)
TrackedStreamOpen ==
  \A o \in Owners : streams[o] # None =>
    LET x == conn[streams[o]] IN
    /\ x.handle # None /\ handle[x.handle] # None
    /\ handle[x.handle].owner = o /\ x.syms \subseteq handle[x.handle].syms

(* Ticks that are delivered and kept are written: a streamed symbol with a *)
(* state has a flush task on that state once the calls on it are over,     *)
(* whatever tasks were replaced or cancelled on the way.                   *)
StreamedIsFlushed ==
  phase = "up" => \A o \in Owners, s \in Symbols :
    (/\ Here(Key(o, s)) /\ s \in Carried(o)
     /\ \A c \in Calls : call[c].sym # s) =>
       \E t \in Tasks : task[t] # None /\ task[t].key = Key(o, s) /\ (task[t].own \/ task[t].pc = "new")

(* live_feed_aggregator.py:7-8, "Symbols are added/removed from the        *)
(* connection's subscribe set as subscriptions come and go": between       *)
(* requests, a stream carries only symbols that have a subscription.       *)
StreamsFollowSubscriptions ==
  (phase = "up" /\ \A c \in Calls : call[c] = Idle) =>
    \A h \in Handles : handle[h] # None => \A s \in handle[h].syms : RowsOf(handle[h].owner, s) # {}

=============================================================================
