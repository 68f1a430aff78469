------------------------------ MODULE Positions ------------------------------
(***************************************************************************)
(* Positions that are opened and closed by hand: the routes that send      *)
(* orders to the broker leg by leg or as one ticket, and the rows they     *)
(* write once the broker has answered; and the comparison of the rows with *)
(* the broker's holdings.  The coordinator may die between the two.        *)
(*                                                                         *)
(* Every leg buys 1 of a symbol of its own; prices and fees are left out.  *)
(* An order the broker accepts counts as filled: the adapters report a     *)
(* price of 0 for one that is still pending, and the routes ask only       *)
(* whether there is a price.  A partial close is never accepted: it is     *)
(* compared with remaining_quantity, which every position has at 0.        *)
(***************************************************************************)
EXTENDS Integers, FiniteSets

CONSTANTS
  Legs,       \* the legs of every position
  Requests    \* requests to the routes; a position is named by its open_position

VARIABLES
  status,     \* of the position that a request opened: "none", "open" or "closed"
  legs,       \* and its legs
  orders,     \* history: accepted orders [req, leg]
  trades,     \* TradeLog rows [req, leg, position]
  request     \* [pc, kind, way, target, todo, done, rejected] of each request

vars == <<status, legs, orders, trades, request>>

Idle == [pc |-> "idle", kind |-> "open", way |-> "legs", target |-> "none",
         todo |-> {}, done |-> {}, rejected |-> {}]

Init ==
  /\ status = [p \in Requests |-> "none"] /\ legs = [p \in Requests |-> {}]
  /\ orders = {} /\ trades = {} /\ request = [r \in Requests |-> Idle]

Begin(r, kind, target, todo) ==
  /\ request[r].pc = "idle"
  /\ \E way \in {"legs"} \cup {w \in {"ticket"} : Cardinality(todo) > 1} :
       request' = [request EXCEPT ![r] =
         [Idle EXCEPT !.pc = "send", !.kind = kind, !.way = way, !.target = target, !.todo = todo]]
  /\ UNCHANGED <<status, legs, orders, trades>>

OpenPosition(r)          == Begin(r, "open", r, Legs)
ClosePositionById(r, p)  == status[p] = "open" /\ Begin(r, "close", p, legs[p])
ClosePosition(r, l)      == Begin(r, "symbol", l, {l})

-----------------------------------------------------------------------------
(* The broker answers *)

Sent(r, accepted, refused) ==
  /\ request' = [request EXCEPT ![r].todo = @ \ (accepted \cup refused),
                                ![r].done = @ \cup accepted, ![r].rejected = @ \cup refused]
  /\ orders' = orders \cup {[req |-> r, leg |-> l] : l \in accepted}
  /\ UNCHANGED <<status, legs, trades>>

Sending(r, way) == request[r].pc = "send" /\ request[r].way = way /\ request[r].todo # {}

SubmitOrder(r, l) ==
  /\ Sending(r, "legs") /\ l \in request[r].todo
  /\ Sent(r, {l}, {}) \/ Sent(r, {}, {l})

SubmitMultilegOrder(r) ==
  /\ Sending(r, "ticket")
  /\ Sent(r, request[r].todo, {}) \/ Sent(r, {}, request[r].todo)

(* The process dies: orders that were accepted are known to nobody. *)
Crash ==
  /\ \E r \in Requests : request[r].pc = "send"
  /\ request' = [r \in Requests |->
       IF request[r].pc = "send" THEN [request[r] EXCEPT !.pc = "lost"] ELSE request[r]]
  /\ UNCHANGED <<status, legs, orders, trades>>

-----------------------------------------------------------------------------
(* The rows *)

Answered(r, kind) ==
  /\ request[r].pc = "send" /\ request[r].todo = {} /\ request[r].kind = kind
  /\ request' = [request EXCEPT ![r].pc = "answered"]
  /\ UNCHANGED orders

(* Mutant: a row for every leg that was asked for. *)
AllLegs(r) == request[r].done \cup request[r].rejected
Filled(r)  == request[r].done
Log(r, p)  == trades' = trades \cup {[req |-> r, leg |-> l, position |-> p] : l \in Filled(r)}

OpenRows(r) ==
  /\ Answered(r, "open")
  /\ IF request[r].done = {} THEN UNCHANGED <<status, legs, trades>>
     ELSE /\ status' = [status EXCEPT ![r] = "open"]
          /\ legs' = [legs EXCEPT ![r] = request[r].done]
          /\ Log(r, r)

(* A position that was closed in part stays open, with all its legs. *)
CloseRows(r) ==
  /\ Answered(r, "close")
  /\ Log(r, request[r].target)
  /\ status' = IF request[r].rejected = {} THEN [status EXCEPT ![request[r].target] = "closed"] ELSE status
  /\ UNCHANGED legs

(* Whatever open position has the symbol among its legs is closed. *)
Matching(l) == {p \in Requests : status[p] = "open" /\ l \in legs[p]}

CloseRowsOfSymbol(r) ==
  /\ Answered(r, "symbol")
  /\ IF request[r].done = {} THEN UNCHANGED <<status, trades>>
     ELSE LET hit == Matching(request[r].target) IN
          /\ status' = [p \in Requests |-> IF p \in hit THEN "closed" ELSE status[p]]
          /\ trades' = trades \cup {[req |-> r, leg |-> request[r].target, position |-> p] : p \in hit}
  /\ UNCHANGED legs

Next ==
  \/ Crash
  \/ \E r \in Requests :
       \/ OpenPosition(r) \/ SubmitMultilegOrder(r) \/ OpenRows(r) \/ CloseRows(r) \/ CloseRowsOfSymbol(r)
       \/ \E p \in Requests : ClosePositionById(r, p)
       \/ \E l \in Legs : ClosePosition(r, l) \/ SubmitOrder(r, l)

Spec == Init /\ [][Next]_vars

-----------------------------------------------------------------------------
(* PositionReconciler.reconcile.  Of several rows with a symbol it looks at *)
(* the first, and the rows come in no order.                                *)

Opens(o)   == request[o.req].kind = "open"
Held(l)    == Cardinality({o \in orders : o.leg = l /\ Opens(o)})
              - Cardinality({o \in orders : o.leg = l /\ ~Opens(o)})
Found(l)   == CHOOSE p \in Matching(l) : TRUE
AtBroker   == {l \in Legs : Held(l) # 0}
Untracked  == {l \in AtBroker : Matching(l) = {}}
Mismatched == {l \in AtBroker \ Untracked : Held(l) # 1}
Stale      == {p \in Requests : status[p] = "open"} \ {Found(l) : l \in AtBroker \ Untracked}

-----------------------------------------------------------------------------
TypeOK ==
  /\ status \in [Requests -> {"none", "open", "closed"}] /\ legs \in [Requests -> SUBSET Legs]
  /\ \A r \in Requests : request[r].pc \in {"idle", "send", "lost", "answered"}

OrdersOf(r) == {o.leg : o \in {x \in orders : x.req = r}}
TradesOf(r) == {t.leg : t \in {x \in trades : x.req = r}}

(* Once an open or a close by id is answered, the trade log has the orders  *)
(* that the broker accepted for it, and no others.                          *)
OrdersAreBooked ==
  \A r \in Requests :
    request[r].pc = "answered" /\ request[r].kind # "symbol" => TradesOf(r) = OrdersOf(r)

(* A closed position had a closing order accepted for every leg by one      *)
(* request, unless it was closed by symbol.                                 *)
ClosedMeansOrdered ==
  \A p \in Requests : status[p] = "closed" =>
    \E r \in Requests :
      \/ request[r].kind = "close" /\ request[r].target = p /\ OrdersOf(r) = legs[p]
      \/ request[r].kind = "symbol" /\ request[r].target \in legs[p] /\ OrdersOf(r) # {}

(* Where no request was lost, refused in part, repeated or by symbol, and   *)
(* no two open positions share a symbol, there is nothing to reconcile.     *)
Repeated(r) ==
  \E q \in Requests \ {r} : /\ request[q].kind = "close" /\ request[r].kind = "close"
                            /\ request[q].target = request[r].target /\ request[q].pc # "idle"
Quiet ==
  /\ \A r \in Requests : /\ request[r].pc \in {"idle", "answered"} /\ request[r].kind # "symbol"
                         /\ request[r].done = {} \/ request[r].rejected = {}
                         /\ ~Repeated(r)
  /\ \A l \in Legs : Cardinality(Matching(l)) <= 1

ReconcilesWhenQuiet == Quiet => Untracked = {} /\ Mismatched = {} /\ Stale = {}
=============================================================================
