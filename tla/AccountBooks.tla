----------------------------- MODULE AccountBooks -----------------------------
(***************************************************************************)
(* What initial_backfill computes from the broker's transactions: the      *)
(* replay into a ledger of positions and cash, the ledger carried forward  *)
(* over the days without transactions, the cash calibrated backwards from  *)
(* the broker's balance, and the equity curve.                             *)
(*                                                                         *)
(* One action is one iteration of replay_transactions.  Average costs are  *)
(* left out, and a position of quantity 0 stands for none.                 *)
(***************************************************************************)
EXTENDS Integers, Sequences, SequencesExt, FiniteSetsExt

CONSTANTS
  Symbols,
  Mult,        \* contract multiplier of a symbol
  Expiry,      \* the day an option expires on; a later day than Days for others
  Days,        \* the calendar is 1..Days
  Weekend,     \* days that forward_fill_ledger skips
  MaxTxns,
  Quantities,
  Flows        \* amounts of cash flows, signed as the adapters sign them

VARIABLES
  txns,        \* the transactions so far: [day, symbol, quantity, change]
  positions,   \* quantity of each symbol
  cash,
  ledger,      \* positions at the end of each day that had a transaction
  cashByDate   \* and cash

vars == <<txns, positions, cash, ledger, cashByDate>>

Flat    == [s \in Symbols |-> 0]
Trading == 1..Days \ Weekend
LastDay == IF txns = <<>> THEN 1 ELSE txns[Len(txns)].day

Init == txns = <<>> /\ positions = Flat /\ cash = 0 /\ ledger = <<>> /\ cashByDate = <<>>

(* A function with one more point, or another value at a point. *)
With(f, d, v) == [x \in DOMAIN f \cup {d} |-> IF x = d THEN v ELSE f[x]]

Unexpired(held, d) == [s \in Symbols |-> IF Expiry[s] < d THEN 0 ELSE held[s]]

(* The end of an iteration: expired options go, and the day is written. *)
Snapshot(d, held, c) ==
  /\ positions' = Unexpired(held, d) /\ cash' = c
  /\ ledger' = With(ledger, d, positions') /\ cashByDate' = With(cashByDate, d, c)

(* Selling what is not held opens a short position. *)
Fill(d, s, signed) ==
  /\ d <= Expiry[s] /\ ~\E i \in DOMAIN txns : txns[i].symbol = s /\ txns[i].quantity = 0
  /\ txns' = Append(txns, [day |-> d, symbol |-> s, quantity |-> signed, flow |-> 0])
  /\ Snapshot(d, [positions EXCEPT ![s] = @ + signed], cash - signed * Mult[s])

(* The broker reports an expiration as a sale of quantity 0. *)
ExpireOption(d, s) ==
  /\ Expiry[s] <= Days /\ d >= Expiry[s]
  /\ txns' = Append(txns, [day |-> d, symbol |-> s, quantity |-> 0, flow |-> 0])
  /\ positions' = [positions EXCEPT ![s] = 0] /\ cash' = cash
  /\ ledger' = With(ledger, d, positions') /\ cashByDate' = With(cashByDate, d, cash)

(* A withdrawal's amount is negative, and is subtracted. *)
CashFlow(d, a) ==
  /\ txns' = Append(txns, [day |-> d, symbol |-> "", quantity |-> 0, flow |-> a])
  /\ Snapshot(d, positions, IF a > 0 THEN cash + a ELSE cash - a)

Next ==
  /\ Len(txns) < MaxTxns
  /\ \E d \in {t \in Trading : t >= LastDay} :
       \/ \E s \in Symbols, q \in Quantities : Fill(d, s, q) \/ Fill(d, s, -q)
       \/ \E s \in Symbols : ExpireOption(d, s)
       \/ \E a \in Flows : CashFlow(d, a)

Spec == Init /\ [][Next]_vars

-----------------------------------------------------------------------------
Earliest(S) == CHOOSE d \in S : \A e \in S : d <= e
Latest(S)   == CHOOSE d \in S : \A e \in S : e <= d
Before(S, d) == {e \in S : e <= d}

(* forward_fill_ledger: the last written day, less what expired since. *)
FilledLedger ==
  [d \in {t \in Trading : DOMAIN ledger # {} /\ t >= Earliest(DOMAIN ledger)} |->
     Unexpired(ledger[Latest(Before(DOMAIN ledger, d))], d)]

FilledCash == [d \in DOMAIN FilledLedger |-> cashByDate[Latest(Before(DOMAIN ledger, d))]]

(* What a transaction changes, as calibrate_cash_backwards sees it. *)
Delta(t)  == IF t.symbol = "" THEN t.flow ELSE -(t.quantity * Mult[t.symbol])
DeltaOf(d) == FoldSeq(LAMBDA t, acc : acc + (IF t.day = d THEN Delta(t) ELSE 0), 0, txns)

(* Mutant: a day is given the balance that the day began with. *)
UndoneFrom(d) == {e \in DOMAIN cashByDate : e >= d}
Undone(d) == {e \in DOMAIN cashByDate : e > d}

(* Backwards from the broker's balance; a negative minimum becomes 0. *)
Walked(actual) == [d \in DOMAIN cashByDate |-> actual - MapThenSumSet(DeltaOf, Undone(d))]

Calibrated(actual) ==
  LET w == Walked(actual)
      least == Earliest({w[d] : d \in DOMAIN w})
  IN  IF least < 0 THEN [d \in DOMAIN w |-> w[d] - least] ELSE w

(* materialize_equity: a price that is missing is the last one known. *)
PositionsValue(d, price) == MapThenSumSet(LAMBDA s : FilledLedger[d][s] * price[s] * Mult[s], Symbols)
Equity(d, price)         == PositionsValue(d, price) + FilledCash[d]

-----------------------------------------------------------------------------
TypeOK ==
  /\ positions \in [Symbols -> Int] /\ cash \in Int
  /\ DOMAIN ledger = DOMAIN cashByDate /\ DOMAIN ledger = {txns[i].day : i \in DOMAIN txns}

(* The fills of a symbol up to a day that no expiration has ended. *)
NetOf(s, d) ==
  IF Expiry[s] < d \/ \E i \in DOMAIN txns : txns[i].symbol = s /\ txns[i].quantity = 0 /\ txns[i].day <= d
  THEN 0
  ELSE FoldSeq(LAMBDA t, acc : acc + (IF t.symbol = s /\ t.day <= d THEN t.quantity ELSE 0), 0, txns)

(* On every day of the curve each position is the sum of its fills. *)
LedgerIsNet == \A d \in DOMAIN FilledLedger, s \in Symbols : FilledLedger[d][s] = NetOf(s, d)

(* Calibrated backwards, the cash changes from day to day as the forward    *)
(* replay says, and ends at the broker's balance unless it was lifted.      *)
CashAgrees ==
  txns # <<>> =>
    LET c == Calibrated(cash) IN
    /\ \A d, e \in DOMAIN c : c[d] - c[e] = cashByDate[d] - cashByDate[e]
    /\ c[LastDay] = cash \/ \E d \in DOMAIN c : c[d] = 0

(* At the price of its fills, what an account is worth is what flowed in    *)
(* and the value that expired with its options.                             *)
EquityIsInflow ==
  \A d \in DOMAIN FilledLedger :
    LET upTo(s) == FoldSeq(LAMBDA t, acc : acc + (IF t.symbol = s /\ t.day <= d THEN t.quantity ELSE 0), 0, txns)
    IN  Equity(d, [s \in Symbols |-> 1]) =
          FoldSeq(LAMBDA t, acc : acc + (IF t.day <= d THEN t.flow ELSE 0), 0, txns)
          - MapThenSumSet(LAMBDA s : Mult[s] * (upTo(s) - NetOf(s, d)), Symbols)

(* An amount is signed: a positive one is cash in, a negative one cash out. *)
AmountsAreSigned == cash = FoldSeq(LAMBDA t, acc : acc + Delta(t), 0, txns)
=============================================================================
