------------------------------ MODULE Dashboard ------------------------------
(***************************************************************************)
(* The dashboards' side of the WebSocket: who is connected and subscribed, *)
(* the two broadcasts, and the tracking of an account's value that starts  *)
(* with its first subscriber.                                              *)
(*                                                                         *)
(* A socket is used once.  The first send on a connection that is gone     *)
(* raises WebSocketDisconnect and closes the application's side; another   *)
(* send or receive then raises RuntimeError, which the loop of             *)
(* dashboard_websocket does not catch.                                     *)
(***************************************************************************)
EXTENDS Integers, Sequences, SequencesExt

CONSTANTS
  Sockets,
  Topics      \* "account" and perhaps "summary"

VARIABLES
  socket,     \* "new", "open", "gone" (at the other end) or "closed" (on this side too)
  handler,    \* [pc, kind, topic] of each socket's loop
  connected,  \* dashboard_connections
  subscribed, \* subscriptions: the sockets of a topic
  tracked,    \* PortfolioTracker._subscribers
  begins,     \* is a task of _init_account_tracking scheduled?
  polling,    \* what _tracking_tasks has: "none", "load", "poll", "sleep" or "dead"
  failed,     \* history: did the tracking fail, or find no account?
  cast,       \* broadcast_to_dashboards: [at, bad, all, heard, left]; at 0 when idle
  push        \* broadcast_to_target for the account: the sockets it still has to send to

castVars  == <<cast, push>>
trackVars == <<tracked, begins, polling, failed>>
vars == <<socket, handler, connected, subscribed, trackVars, castVars>>

NoLoop == [pc |-> "none", kind |-> "", topic |-> ""]
NoCast == [at |-> 0, bad |-> {}, all |-> {}, heard |-> {}, left |-> FALSE]

Init ==
  /\ socket = [s \in Sockets |-> "new"] /\ handler = [s \in Sockets |-> NoLoop]
  /\ connected = <<>> /\ subscribed = [t \in Topics |-> {}]
  /\ tracked = {} /\ begins = FALSE /\ polling = "none" /\ failed = FALSE
  /\ cast = NoCast /\ push = {}

-----------------------------------------------------------------------------
(* Connections *)

(* accept() may find that the connection is gone already. *)
ConnectDashboard(s) ==
  /\ socket[s] = "new"
  /\ \/ /\ socket' = [socket EXCEPT ![s] = "open"] /\ connected' = Append(connected, s)
        /\ handler' = [handler EXCEPT ![s].pc = "receive"]
     \/ socket' = [socket EXCEPT ![s] = "closed"] /\ UNCHANGED <<connected, handler>>
  /\ UNCHANGED <<subscribed, trackVars, castVars>>

Leaves(s) ==
  /\ socket[s] = "open" /\ socket' = [socket EXCEPT ![s] = "gone"]
  /\ UNCHANGED <<handler, connected, subscribed, trackVars, castVars>>

WithoutSubs(S) == [t \in Topics |-> subscribed[t] \ S]
Without(S)     == SelectSeq(connected, LAMBDA s : s \notin S)

(* disconnect_dashboard, called by the socket's own loop.  The tracker is   *)
(* not told.                                                                *)
Disconnect(s) ==
  /\ subscribed' = WithoutSubs({s}) /\ connected' = Without({s})
  /\ cast' = [cast EXCEPT !.left = @ \/ Contains(connected, s)]
  /\ socket' = [socket EXCEPT ![s] = "closed"] /\ handler' = [handler EXCEPT ![s] = NoLoop]
  /\ UNCHANGED <<trackVars, push>>

ReceiveDisconnect(s) == handler[s].pc = "receive" /\ socket[s] = "gone" /\ Disconnect(s)

(* The loop ends without disconnect_dashboard. *)
LoopRaises(s) ==
  /\ handler[s].pc = "receive" /\ socket[s] = "closed"
  /\ handler' = [handler EXCEPT ![s] = NoLoop]
  /\ UNCHANGED <<socket, connected, subscribed, trackVars, castVars>>

-----------------------------------------------------------------------------
(* Messages; one that came before the other end left is still handled.      *)

Subscribe(s, t) ==
  /\ handler[s].pc = "receive" /\ subscribed' = [subscribed EXCEPT ![t] = @ \cup {s}]
  /\ handler' = [handler EXCEPT ![s] = [pc |-> "reply", kind |-> "subscribe", topic |-> t]]
  /\ UNCHANGED <<socket, connected, trackVars, castVars>>

Unsubscribe(s, t) ==
  /\ handler[s].pc = "receive" /\ subscribed' = [subscribed EXCEPT ![t] = @ \ {s}]
  /\ handler' = [handler EXCEPT ![s] = [pc |-> "reply", kind |-> "unsubscribe", topic |-> t]]
  /\ UNCHANGED <<socket, connected, trackVars, castVars>>

Tracks(t)   == tracked' = tracked \cup {t} /\ begins' = (begins \/ t = "account")
Untracks(t) == tracked' = tracked \ {t} /\ UNCHANGED begins

Reply(s) ==
  /\ handler[s].pc = "reply" /\ socket[s] = "open"
  /\ IF handler[s].kind = "subscribe" THEN Tracks(handler[s].topic) ELSE Untracks(handler[s].topic)
  /\ handler' = [handler EXCEPT ![s] = [NoLoop EXCEPT !.pc = "receive"]]
  /\ UNCHANGED <<socket, connected, subscribed, polling, failed, castVars>>

ReplyFails(s) ==
  /\ handler[s].pc = "reply"
  /\ \/ socket[s] = "gone" /\ Disconnect(s)
     \/ /\ socket[s] = "closed" /\ handler' = [handler EXCEPT ![s] = NoLoop]
        /\ UNCHANGED <<socket, connected, subscribed, trackVars, castVars>>

-----------------------------------------------------------------------------
(* broadcast_to_dashboards walks the list itself, by position, while others *)
(* change it, and disconnects those that failed when it is through.         *)

Broadcast ==
  /\ cast = NoCast /\ connected # <<>>
  /\ cast' = [NoCast EXCEPT !.at = 1, !.all = ToSet(connected)]
  /\ UNCHANGED <<socket, handler, connected, subscribed, trackVars, push>>

Closes(s) == socket' = [socket EXCEPT ![s] = "closed"]

(* Mutant: a socket that fails is taken off the list at once. *)
AtOnce(s)     == connected' = Without({s})
Afterwards(s) == UNCHANGED connected

CastSend ==
  /\ cast.at \in DOMAIN connected
  /\ LET s == connected[cast.at] IN
     \/ /\ socket[s] = "open" /\ UNCHANGED <<socket, connected>>
        /\ cast' = [cast EXCEPT !.at = @ + 1, !.heard = @ \cup {s}]
     \/ /\ socket[s] # "open" /\ Closes(s) /\ Afterwards(s)
        /\ cast' = [cast EXCEPT !.at = @ + 1, !.bad = @ \cup {s}]
  /\ UNCHANGED <<handler, subscribed, trackVars, push>>

Through == cast.at > Len(connected)

CastEnds ==
  /\ cast.at > 0 /\ Through /\ cast' = NoCast
  /\ subscribed' = WithoutSubs(cast.bad) /\ connected' = Without(cast.bad)
  /\ UNCHANGED <<socket, handler, trackVars, push>>

(* broadcast_to_target walks a copy. *)
PushSend ==
  /\ push # {}
  /\ \E s \in push :
       /\ push' = push \ {s}
       /\ IF socket[s] = "open" THEN UNCHANGED <<socket, subscribed>>
          ELSE Closes(s) /\ subscribed' = [subscribed EXCEPT !["account"] = @ \ {s}]
  /\ UNCHANGED <<handler, connected, trackVars, cast>>

-----------------------------------------------------------------------------
(* _init_account_tracking and its loop *)

InitTracking ==
  /\ begins /\ begins' = FALSE
  /\ IF polling = "none" THEN polling' = "load" /\ failed' = FALSE ELSE UNCHANGED <<polling, failed>>
  /\ UNCHANGED <<socket, handler, connected, subscribed, tracked, castVars>>

Wanted == tracked # {}

LoadAccount ==
  /\ polling = "load"
  /\ \/ polling' = (IF Wanted THEN "poll" ELSE "none") /\ UNCHANGED failed
     \/ polling' = "none" /\ failed' = TRUE       \* no such account, or an error
  /\ UNCHANGED <<socket, handler, connected, subscribed, tracked, begins, castVars>>

(* The broker answers; a price that comes within a second of the last push  *)
(* is not pushed.                                                           *)
Poll ==
  /\ polling = "poll" /\ polling' = "sleep" /\ push = {}
  /\ \/ /\ "account" \in tracked
        /\ push' = subscribed["account"]
     \/ UNCHANGED push
  /\ UNCHANGED <<socket, handler, connected, subscribed, tracked, begins, failed, cast>>

(* Mutant: a loop that ends leaves its entry. *)
KeepsEntry == IF Wanted THEN "poll" ELSE "dead"
Forgotten  == IF Wanted THEN "poll" ELSE "none"

PollAgain ==
  /\ polling = "sleep" /\ push = {} /\ polling' = Forgotten
  /\ UNCHANGED <<socket, handler, connected, subscribed, tracked, begins, failed, castVars>>

Next ==
  \/ Broadcast \/ CastSend \/ CastEnds \/ PushSend \/ InitTracking \/ LoadAccount \/ Poll \/ PollAgain
  \/ \E s \in Sockets :
       \/ ConnectDashboard(s) \/ Leaves(s) \/ ReceiveDisconnect(s) \/ LoopRaises(s)
       \/ Reply(s) \/ ReplyFails(s)
       \/ \E t \in Topics : Subscribe(s, t) \/ Unsubscribe(s, t)

Spec == Init /\ [][Next]_vars

-----------------------------------------------------------------------------
TypeOK ==
  /\ ToSet(connected) \subseteq Sockets /\ tracked \subseteq Topics
  /\ \A s \in Sockets : /\ socket[s] \in {"new", "open", "gone", "closed"}
                        /\ handler[s].pc \in {"none", "receive", "reply"}
  /\ polling \in {"none", "load", "poll", "sleep", "dead"}

(* A broadcast that is through was heard by everyone who is still there,    *)
(* unless a dashboard left while it was under way: the next one in the list *)
(* is then skipped.                                                         *)
EveryoneHears ==
  cast.at > 0 /\ Through /\ ~cast.left =>
    \A s \in cast.all : socket[s] = "open" => s \in cast.heard

(* An account that is tracked is polled, or is about to be, or failed.      *)
TrackedIsPolled == "account" \in tracked => begins \/ polling \in {"load", "poll", "sleep"} \/ failed

(* Who is connected and has nothing to receive has a loop. *)
ConnectedHasLoop == \A s \in ToSet(connected) : handler[s].pc # "none" \/ socket[s] = "closed"

(* Not so: a dashboard that unsubscribes ends the tracking for the others. *)
SubscribedIsTracked == \A s \in subscribed["account"] : handler[s].pc = "receive" => "account" \in tracked

(* Not so: a dashboard that leaves without a word is tracked for ever. *)
TrackedIsWatched == \A t \in tracked : subscribed[t] # {}
=============================================================================
