----------------------------- MODULE BrokerHistory -----------------------------
(***************************************************************************)
(* How a sync gets an account's history from its broker: get_transactions  *)
(* of Tradier, one call for every 30 days, and of Alpaca, page after page; *)
(* the mapping of the broker's events to transactions; and the rows that a *)
(* sync inserts, by the transactions' ids.                                 *)
(*                                                                         *)
(* Alpaca's events have an id of their own.  Tradier's do not: the adapter *)
(* makes one of type, date, amount, symbol, quantity and price, so that    *)
(* two equal events have the same.                                         *)
(***************************************************************************)
EXTENDS Integers, Sequences, SequencesExt

CONSTANTS
  Days,        \* the history is 1..Days
  MaxEvents,
  Ids,         \* Tradier's synthetic ids
  Window,      \* days of a call to Tradier
  Limit,       \* events that Tradier returns for a call
  PageSize     \* events of Alpaca's page

ConstantsAssumption == {Days, Window, Limit, PageSize} \subseteq Nat \ {0}

VARIABLES
  broker,      \* "tradier" or "alpaca"
  events,      \* the broker's events, in order: [day, kind, id]
  pc,          \* of the sync: "idle", "fetch", "write" or "done"
  cursor,      \* Tradier: the day the next window starts on
  token,       \* Alpaca: the last event of the last page
  end,         \* the last day that was asked for
  seen,        \* history: how many events there were when the fetch began
  out,         \* what get_transactions returns: positions in events
  rows         \* rows [event, id] of TradeLog and AccountCashFlow

vars == <<broker, events, pc, cursor, token, end, seen, out, rows>>

Today == IF events = <<>> THEN 1 ELSE events[Len(events)].day

Init ==
  /\ broker \in {"tradier", "alpaca"} /\ events = <<>> /\ pc = "idle"
  /\ cursor = 1 /\ token = 0 /\ end = 0 /\ seen = 0 /\ out = <<>> /\ rows = {}

(* "other" stands for the types that both mappings skip: splits, mergers. *)
Happens ==
  /\ Len(events) < MaxEvents
  /\ \E d \in Today..Days, k \in {"fill", "flow", "other"} :
       \E i \in (IF broker = "tradier" THEN Ids ELSE {Len(events) + 1}) :
         events' = Append(events, [day |-> d, kind |-> k, id |-> <<d, k, i>>])
  /\ UNCHANGED <<broker, pc, cursor, token, end, seen, out, rows>>

Begin ==
  /\ pc = "idle" /\ pc' = "fetch" /\ cursor' = 1 /\ token' = 0 /\ out' = <<>>
  /\ end' = Today /\ seen' = Len(events)
  /\ UNCHANGED <<broker, events, rows>>

-----------------------------------------------------------------------------
(* _map_tradier_event, _map_alpaca_activity: what is not a fill, a          *)
(* dividend, interest, a fee or a transfer is no transaction.               *)
Mapped(e) == events[e].kind # "other"

Positions   == [e \in DOMAIN events |-> e]
In(d1, d2)  == SelectSeq(Positions, LAMBDA e : events[e].day \in d1..d2)
FirstOf(s, n) == SubSeq(s, 1, IF Len(s) < n THEN Len(s) ELSE n)
AddTo(items)  == out' = out \o SelectSeq(items, Mapped)

WindowEnd == IF cursor + Window - 1 < end THEN cursor + Window - 1 ELSE end

(* Mutant: the next window starts on the day the last one ended on. *)
SameDay == IF WindowEnd = end THEN end + 1 ELSE WindowEnd
NextDay == WindowEnd + 1

TradierWindow ==
  /\ broker = "tradier" /\ pc = "fetch"
  /\ AddTo(FirstOf(In(cursor, WindowEnd), Limit))
  /\ cursor' = NextDay /\ pc' = (IF NextDay > end THEN "write" ELSE "fetch")
  /\ UNCHANGED <<broker, events, token, end, seen, rows>>

(* A page that is not full is the last one, and so is an empty one. *)
AlpacaPage ==
  /\ broker = "alpaca" /\ pc = "fetch"
  /\ LET items == FirstOf(SubSeq(Positions, token + 1, Len(events)), PageSize) IN
     /\ AddTo(items)
     /\ token' = token + Len(items)
     /\ pc' = IF Len(items) < PageSize THEN "write" ELSE "fetch"
  /\ UNCHANGED <<broker, events, cursor, end, seen, rows>>

(* The client raises, and with it the sync. *)
FetchFails ==
  /\ pc = "fetch" /\ pc' = "idle"
  /\ UNCHANGED <<broker, events, cursor, token, end, seen, out, rows>>

-----------------------------------------------------------------------------
(* The loops over the transactions.  The route adds every id that it        *)
(* inserts to the known ones; the periodic sync does not.                   *)

Known       == {r.id : r \in rows}
NewIn(s)    == SelectSeq(s, LAMBDA e : events[e].id \notin Known)
FirstTwin(s, i) == \A j \in 1..i - 1 : events[s[j]].id # events[s[i]].id
Insert(s, kept) == rows' = rows \cup {[event |-> s[i], id |-> events[s[i]].id] : i \in kept}

RouteWrites ==
  /\ pc = "write" /\ pc' = "done"
  /\ Insert(NewIn(out), {i \in DOMAIN NewIn(out) : FirstTwin(NewIn(out), i)})
  /\ UNCHANGED <<broker, events, cursor, token, end, seen, out>>

PeriodicWrites ==
  /\ pc = "write" /\ pc' = "done"
  /\ Insert(NewIn(out), DOMAIN NewIn(out))
  /\ UNCHANGED <<broker, events, cursor, token, end, seen, out>>

Again ==
  /\ pc = "done" /\ pc' = "idle"
  /\ UNCHANGED <<broker, events, cursor, token, end, seen, out, rows>>

Next == \/ Happens \/ Begin \/ TradierWindow \/ AlpacaPage \/ FetchFails
        \/ RouteWrites \/ PeriodicWrites \/ Again

Spec == Init /\ [][Next]_vars

-----------------------------------------------------------------------------
TypeOK ==
  /\ pc \in {"idle", "fetch", "write", "done"} /\ out \in Seq(DOMAIN events)
  /\ token \in 0..MaxEvents /\ cursor \in 1..Days + 1 /\ {r.event : r \in rows} \subseteq DOMAIN events

(* Tradier's answer is cut off where a window has more than Limit events. *)
Start(e)    == events[e].day - ((events[e].day - 1) % Window)
Overfull(e) == broker = "tradier" /\ Len(In(Start(e), Start(e) + Window - 1)) > Limit

(* A fetch returns every transaction that was there when it began, once,    *)
(* unless a window of Tradier overflows; whatever happens between calls.    *)
FetchIsWhole ==
  pc \in {"write", "done"} =>
    /\ IsInjective(out)
    /\ \A e \in 1..seen : Mapped(e) /\ ~Overfull(e) => e \in Range(out)

(* Every transaction that a sync was given has a row, or an equal one has;  *)
(* with an id of its own, it has one row.  Two fills of a day that are      *)
(* equal are one row or two, depending on which sync comes first.           *)
RowsCover ==
  /\ pc = "done" => \A e \in Range(out) : events[e].id \in Known
  /\ broker = "alpaca" /\ pc = "done" => Range(out) \subseteq {r.event : r \in rows}
=============================================================================
