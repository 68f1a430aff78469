--------------------------- MODULE BacktestEngine ---------------------------
(***************************************************************************)
(* One run of backtest_engine_v2.py: a discovery pass that only warms the  *)
(* context up, then a replay over the union of the symbols' bars.  At each *)
(* bar the algorithm ticks, the pending legs are tried, expired options    *)
(* are settled.  A leg is an order that a signal asked for; an equity      *)
(* fills on its own bar, an option on the quote of the bar.                *)
(* Slippage, fees by venue, the mark to market and the chain's repricing   *)
(* only move prices and are left out; the fee of a fill is one number.     *)
(***************************************************************************)
EXTENDS Integers, Sequences, SequencesExt, FiniteSetsExt

CONSTANTS
  LastBar,     \* the clock has bars 0..LastBar
  BarsPerDay,
  Equities,    \* a sequence: the order of the frames in ctx._bars
  Options,     \* options on Equities[1]
  Markets,     \* what the data may be: [bars, quote], see ConstantsAssumption
  Kinds,       \* the legs an algorithm may ask for
  MaxLegs, InitialCash, Fee, Multiplier, Strike,
  LastDay,     \* an option expires after this day
  None

Symbols == ToSet(Equities) \cup Options
Sides   == {"buy", "sell"}
Tifs    == {"DAY", "GTC", "IOC"}
Types   == {"market", "limit", "stop", "stop_limit"}
Reasons == {"filled", "power", "no_position", "margin", "day_expired", "no_price", "no_fill",
            "cancelled", "contract_expired", "end"}

ConstantsAssumption ==
  /\ {LastBar, MaxLegs, InitialCash, Fee, Strike, LastDay} \subseteq Nat
  /\ {BarsPerDay, Multiplier} \subseteq Nat \ {0}
  /\ Kinds \subseteq [sym : Symbols, side : Sides, type : Types, tif : Tifs, qty : 1..2, limit : Nat, stop : Nat]
  /\ \A k \in Kinds : k.type = "stop_limit" => [k EXCEPT !.tif = "DAY"] \in Kinds
  /\ \A m \in Markets :
       /\ \A s \in ToSet(Equities) : DOMAIN m.bars[s] \subseteq 0..LastBar
       /\ DOMAIN m.bars[Equities[1]] = 0..LastBar /\ DOMAIN m.quote = 0..LastBar

VARIABLES market, phase, bar, legs, pending, todo, cash, held, cost, realized, openFees,
          cancelAll, answers, priced
vars == <<market, phase, bar, legs, pending, todo, cash, held, cost, realized, openFees,
          cancelAll, answers, priced>>
account == <<cash, held, cost, realized, openFees>>

Order == [leg : 1..MaxLegs, kind : Kinds, due : 0..(LastBar + 1), born : 0..LastBar,
          triggered : BOOLEAN, tried : BOOLEAN]
Fill  == [kind : Kinds, born : 0..LastBar, at : 0..LastBar, row : 0..LastBar, price : Nat]

TypeOK ==
  /\ market \in Markets /\ phase \in {"discovery", "tick", "fill", "settle", "over", "failed"}
  /\ bar \in 0..(LastBar + 1) /\ legs \in 0..MaxLegs
  /\ pending \subseteq Order /\ todo \subseteq Order
  /\ {cash, realized, openFees} \subseteq Int
  /\ held \in [Symbols -> Int] /\ cost \in [Symbols -> Int]
  /\ cancelAll \in BOOLEAN
  /\ answers \in [1..MaxLegs -> Seq(Reasons)]
  /\ \A l \in 1..MaxLegs : priced[l] = None \/ priced[l] \in Fill

Init ==
  /\ market \in Markets /\ phase = "discovery" /\ bar = 0 /\ legs = 0
  /\ pending = {} /\ todo = {}
  /\ cash = InitialCash /\ held = [s \in Symbols |-> 0] /\ cost = [s \in Symbols |-> 0]
  /\ realized = 0 /\ openFees = 0 /\ cancelAll = FALSE
  /\ answers = [l \in 1..MaxLegs |-> <<>>] /\ priced = [l \in 1..MaxLegs |-> None]

-----------------------------------------------------------------------------
Day(b) == b \div BarsPerDay

(* The bar of a symbol that has elapsed last; before its first one, the     *)
(* clock's row, which another symbol may have contributed.                  *)
OwnBars(s, b) == IF s \in Options THEN {} ELSE {t \in DOMAIN market.bars[s] : t <= b}
FillIndex(s, b) == IF OwnBars(s, b) = {} THEN b ELSE Max(OwnBars(s, b))
ClockRow(b) == LET e == SelectInSeq(Equities, LAMBDA s : b \in DOMAIN market.bars[s]) IN market.bars[Equities[e]][b]
FillBar(s, b) == IF OwnBars(s, b) = {} THEN ClockRow(b) ELSE market.bars[s][FillIndex(s, b)]

(* What the leg would cost at this bar, or None.  A limit wants a strict    *)
(* cross; a stop that was triggered is a market order.                      *)
Crosses(k, row) == IF k.side = "buy" THEN row.low < k.limit ELSE row.high > k.limit
Within(k, price) == IF k.side = "buy" THEN price <= k.limit ELSE price >= k.limit
MarketPrice(k) == IF k.sym \in Options THEN market.quote[bar] ELSE FillBar(k.sym, bar).open
LimitPrice(k) ==
  IF k.sym \in Options
  THEN IF market.quote[bar] # None /\ Within(k, market.quote[bar]) THEN market.quote[bar] ELSE None
  ELSE IF Crosses(k, FillBar(k.sym, bar)) THEN k.limit ELSE None
AtMarket(o) == o.kind.type = "market" \/ o.triggered
Price(o) ==
  IF AtMarket(o) THEN MarketPrice(o.kind) ELSE IF o.kind.type = "limit" THEN LimitPrice(o.kind) ELSE None

Triggers(o) ==
  /\ o.kind.type \in {"stop", "stop_limit"} /\ ~o.triggered
  /\ FillBar(o.kind.sym, bar).low <= o.kind.stop /\ o.kind.stop <= FillBar(o.kind.sym, bar).high

Size(s) == IF s \in Options THEN Multiplier ELSE 1
Notional(k, price) == price * k.qty * Size(k.sym)
Short(k) == k.qty - Max({held[k.sym], 0})

(* Buying power in strict-cash mode, as the reason to refuse or None. *)
Refusal(k, price) ==
  CASE k.side = "buy" /\ Notional(k, price) + Fee > cash             -> "power"
    [] k.side = "sell" /\ k.sym \notin Options /\ k.qty > held[k.sym] -> "no_position"
    [] k.side = "sell" /\ k.sym \in Options /\ Short(k) > 0
         /\ Strike * Multiplier * Short(k) > cash + Notional(k, price) - Fee -> "margin"
    [] OTHER -> None

(* _apply_fill for a signed quantity; cost is the average price times the   *)
(* quantity, so that it stays whole.                                        *)
OldBasis(k, rest, price) == rest * (cost[k.sym] \div Max({held[k.sym], -held[k.sym]}))   \* Mutant: the old average price is kept.
NewBasis(k, rest, price) == rest * price
Signed(k) == IF k.side = "buy" THEN k.qty ELSE -k.qty
ApplyFill(k, price) ==
  LET h == held[k.sym]
      abs == Max({h, -h})
      opens == h * Signed(k) >= 0
      closed == Min({k.qty, abs})
      rest == k.qty - closed
      gain == IF h > 0 THEN price * closed - (cost[k.sym] * closed) \div abs
                       ELSE (cost[k.sym] * closed) \div abs - price * closed
  IN  /\ held' = [held EXCEPT ![k.sym] = h + Signed(k)]
      /\ cash' = cash - Signed(k) * price * Size(k.sym) - Fee
      /\ IF opens
           THEN /\ cost' = [cost EXCEPT ![k.sym] = @ + k.qty * price]
                /\ openFees' = openFees + Fee /\ UNCHANGED realized
           ELSE /\ cost' = [cost EXCEPT ![k.sym] = IF rest > 0 THEN NewBasis(k, rest, price) ELSE @ - (@ * closed) \div abs]
                /\ realized' = realized + gain * Size(k.sym) - Fee /\ UNCHANGED openFees

-----------------------------------------------------------------------------
(* Pass 1: on_start and one on_tick; what it raises is absorbed, what it    *)
(* asked to cancel is not reset for the replay.                             *)
Discovery ==
  /\ phase = "discovery" /\ phase' = "tick"
  /\ cancelAll' \in BOOLEAN
  /\ UNCHANGED <<market, bar, legs, pending, todo, account, answers, priced>>

(* The algorithm's tick: one leg more, the wish to cancel, or an exception. *)
SameBar(b) == b   \* Mutant: the bar of the signal itself.
DueAt(b) == b + 1
Emit ==
  /\ phase = "tick" /\ bar <= LastBar /\ legs < MaxLegs
  /\ \E k \in Kinds :
       pending' = pending \cup {[leg |-> legs + 1, kind |-> k, due |-> DueAt(bar), born |-> bar,
                                triggered |-> FALSE, tried |-> FALSE]}
  /\ legs' = legs + 1
  /\ UNCHANGED <<market, phase, bar, todo, account, cancelAll, answers, priced>>

CancelAllOrders ==
  /\ phase = "tick" /\ bar <= LastBar /\ ~cancelAll /\ cancelAll' = TRUE
  /\ UNCHANGED <<market, phase, bar, legs, pending, todo, account, answers, priced>>

Raise ==
  /\ phase = "tick" /\ bar <= LastBar /\ phase' = "failed"
  /\ UNCHANGED <<market, bar, legs, pending, todo, account, cancelAll, answers, priced>>

Ticked ==
  /\ phase = "tick" /\ bar <= LastBar /\ phase' = "fill"
  /\ todo' = pending /\ pending' = {}
  /\ UNCHANGED <<market, bar, legs, account, cancelAll, answers, priced>>

Answer(o, reason) == answers' = [answers EXCEPT ![o.leg] = Append(@, reason)]
FillOf(o, price) == [kind |-> o.kind, born |-> o.born, at |-> bar, row |-> FillIndex(o.kind.sym, bar), price |-> price]
Later(o, trig) == pending' = pending \cup {[o EXCEPT !.due = bar + 1, !.tried = TRUE, !.triggered = trig]}

(* A stop-limit leg that triggers is replaced by a new one, which has the   *)
(* default time in force.                                                   *)
Triggered(o) == IF o.kind.type = "stop_limit" THEN [o EXCEPT !.kind.tif = "DAY"] ELSE o

(* One leg of those pending when the bar began.  The engine only appends to *)
(* its list and drops from it, so the list is in the order of the legs: it  *)
(* is a set here, whose least leg comes first.                              *)
IsFirst(o, os) == o \in os /\ \A other \in os : o.leg <= other.leg
Expired(o) == o.kind.tif = "DAY" /\ o.tried /\ Day(bar) > Day(o.born)
Try ==
  /\ phase = "fill"
  /\ \E o \in todo :
       LET k == o.kind  price == Price(o) IN
       /\ IsFirst(o, todo) /\ todo' = todo \ {o}
       /\ \/ /\ o.due > bar
             /\ pending' = pending \cup {o} /\ UNCHANGED <<account, answers, priced>>
          \/ /\ o.due <= bar /\ Expired(o)
             /\ Answer(o, "day_expired") /\ UNCHANGED <<pending, account, priced>>
          \/ /\ o.due <= bar /\ ~Expired(o) /\ price # None
             /\ IF Refusal(k, price) = None
                  THEN /\ ApplyFill(k, price) /\ Answer(o, "filled")
                       /\ priced' = [priced EXCEPT ![o.leg] = FillOf(o, price)]
                  ELSE Answer(o, Refusal(k, price)) /\ UNCHANGED <<account, priced>>
             /\ UNCHANGED pending
          \/ /\ o.due <= bar /\ ~Expired(o) /\ price = None
             /\ CASE Triggers(o)           -> Later(Triggered(o), TRUE) /\ UNCHANGED answers
                  [] ~Triggers(o) /\ k.sym \in Options -> Answer(o, "no_price") /\ UNCHANGED pending
                  [] ~Triggers(o) /\ k.sym \notin Options /\ k.tif = "IOC" -> Answer(o, "no_fill") /\ UNCHANGED pending
                  [] OTHER                 -> Later(o, o.triggered) /\ UNCHANGED answers
             /\ UNCHANGED <<account, priced>>
  /\ UNCHANGED <<market, phase, bar, legs, cancelAll>>

(* The legs left are cancelled if the algorithm asked for it.  Mutant: they *)
(* stay on the list.                                                        *)
Left == pending
Cleared == {}
Rejected(os, reason) == [l \in 1..MaxLegs |-> IF \E o \in os : o.leg = l THEN Append(answers[l], reason) ELSE answers[l]]
Cancel ==
  /\ phase = "fill" /\ todo = {} /\ phase' = "settle"
  /\ cancelAll' = FALSE
  /\ IF cancelAll THEN pending' = Cleared /\ answers' = Rejected(pending, "cancelled")
                  ELSE UNCHANGED <<pending, answers>>
  /\ UNCHANGED <<market, bar, legs, todo, account, priced>>

(* Expired contracts settle at their intrinsic value, and the legs that     *)
(* wait for one are refused.                                                *)
Over == Day(bar) > LastDay
Intrinsic == Max({0, FillBar(Equities[1], bar).close - Strike})
Worth(s) == Intrinsic * held[s] * Multiplier
Gained(s) == IF held[s] >= 0 THEN Worth(s) - cost[s] * Multiplier ELSE Worth(s) + cost[s] * Multiplier
Dead == {o \in pending : Over /\ o.kind.sym \in Options}
Settle ==
  /\ phase = "settle" /\ phase' = "tick" /\ bar' = bar + 1
  /\ IF Over
       THEN /\ cash' = cash + MapThenSumSet(Worth, Options)
            /\ realized' = realized + MapThenSumSet(Gained, Options)
            /\ held' = [s \in Symbols |-> IF s \in Options THEN 0 ELSE held[s]]
            /\ cost' = [s \in Symbols |-> IF s \in Options THEN 0 ELSE cost[s]]
            /\ UNCHANGED openFees
       ELSE UNCHANGED account
  /\ pending' = pending \ Dead
  /\ answers' = Rejected(Dead, "contract_expired")
  /\ UNCHANGED <<market, legs, todo, cancelAll, priced>>

(* The clock has ended: on_stop, what is left is refused, on_complete. *)
Complete ==
  /\ phase = "tick" /\ bar = LastBar + 1 /\ phase' = "over"
  /\ answers' = Rejected(pending, "end") /\ pending' = {}
  /\ UNCHANGED <<market, bar, legs, todo, account, cancelAll, priced>>

Next == Discovery \/ Emit \/ CancelAllOrders \/ Raise \/ Ticked \/ Try \/ Cancel \/ Settle \/ Complete
Spec == Init /\ [][Next]_vars

-----------------------------------------------------------------------------
(* Every leg is answered at most once, and exactly once when the run        *)
(* completes: it was filled or its rejection was reported.                  *)
LegsAnsweredOnce ==
  \A l \in 1..MaxLegs : /\ Len(answers[l]) <= 1
                        /\ phase = "over" /\ l <= legs => answers[l] # <<>>

(* The books balance through adding, closing, crossing zero and expiry:     *)
(* cash and the basis of what is held are the initial cash, the realized    *)
(* gains and the fees of what was opened.  No equity is ever short.         *)
Basis(s) == (IF held[s] < 0 THEN -cost[s] ELSE cost[s]) * Size(s)
BooksBalance ==
  /\ cash + MapThenSumSet(Basis, Symbols) = InitialCash + realized - openFees
  /\ \A s \in ToSet(Equities) : held[s] >= 0

(* backtest_engine_v2.py:4, "No same-bar fills (signal at bar T -> fill at   *)
(* T+1 at earliest)": a fill has the price of a bar stamped after the one   *)
(* its signal came from ...                                                 *)
PricedAfterSignal(f) == f.row > f.born
NoSameBarFills == \A l \in 1..MaxLegs : priced[l] # None => PricedAfterSignal(priced[l])

(* ... at least when its symbol has had such a bar.                         *)
Fresh(f) == f.kind.sym \in Options \/ \E t \in DOMAIN market.bars[f.kind.sym] : f.born < t /\ t <= f.at
NoStaleFills == \A l \in 1..MaxLegs : priced[l] # None /\ Fresh(priced[l]) => PricedAfterSignal(priced[l])

(* backtest_engine_v2.py:10, "Stop / stop-limit: trigger then market/limit  *)
(* on +2 bars": a stop-limit order fills within its limit.                  *)
StopLimitKeepsLimit ==
  \A l \in 1..MaxLegs : priced[l] # None /\ priced[l].kind.type = "stop_limit" =>
    Within(priced[l].kind, priced[l].price)
=============================================================================
