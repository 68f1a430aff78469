------------------------------ MODULE LiveBars ------------------------------
(***************************************************************************)
(* One symbol of live_feed_aggregator.py while it is subscribed: trades    *)
(* arrive on the stream's thread, in no particular order, and are buffered *)
(* and built into one-minute bars under the state's lock; the flush task,  *)
(* on the event loop, writes the ticks and the bars and dispatches the     *)
(* bars.  The thread may run between any two locked sections of the task.  *)
(* A trade is an identity with a minute; prices and sizes are left out,    *)
(* and the events without a size are dropped before they reach the state.  *)
(***************************************************************************)
EXTENDS Naturals, Sequences, SequencesExt

CONSTANTS
  Trades,    \* trades that may be delivered (a bound)
  Minutes,   \* minutes 1..Minutes (a bound)
  NoBar

ConstantsAssumption == Minutes \in Nat /\ NoBar \notin [minute: Nat, trades: Seq(Trades)]

VARIABLES
  now,        \* minute of the coordinator's clock
  minuteOf,   \* minute of each delivered trade, 0 before
  buffer,     \* state.trades
  bar,        \* state.bar
  pending,    \* state.pending_bars
  pc,         \* where the flush task is between two of its locked sections
  file,       \* the day's tick file: its rows, and whether it can be read
  preserved,  \* rows of the damaged files that were put aside
  bars,       \* the bar file: the trades of each minute's row
  dispatched  \* bars handed to the subscribers, in order

vars == <<now, minuteOf, buffer, bar, pending, pc, file, preserved, bars, dispatched>>

Bar       == [minute: 1..Minutes, trades: Seq(Trades)]
Delivered == {t \in Trades : minuteOf[t] # 0}

TypeOK ==
  /\ now \in 1..Minutes + 1 /\ minuteOf \in [Trades -> 0..Minutes]
  /\ buffer \in Seq(Trades)
  /\ bar \in Bar \cup {NoBar} /\ pending \in Seq(Bar)
  /\ pc \in {"sleep", "ticks", "bars"}
  /\ file \in [rows: SUBSET Trades, damaged: BOOLEAN] /\ preserved \subseteq Trades
  /\ bars \in [1..Minutes -> Seq(Trades)] /\ dispatched \in Seq(Bar)

Init ==
  /\ now = 1 /\ minuteOf = [t \in Trades |-> 0]
  /\ buffer = <<>> /\ bar = NoBar /\ pending = <<>> /\ pc = "sleep"
  /\ file = [rows |-> {}, damaged |-> FALSE] /\ preserved = {}
  /\ bars = [m \in 1..Minutes |-> <<>>] /\ dispatched = <<>>

-----------------------------------------------------------------------------
(* _BarBuilder.take_closed: the bar of an earlier minute is handed over.   *)
Closed(m) == bar # NoBar /\ bar.minute < m

(* _BarBuilder.add on what take_closed left.  A trade of a minute before   *)
(* the open bar's is dropped; with no bar open it opens its own.           *)
(* Mutants: the late trade is added to the open bar, or replaces it.    *)
AddLate(b, t, m) ==
  IF b = NoBar THEN [minute |-> m, trades |-> <<t>>] ELSE [b EXCEPT !.trades = Append(@, t)]
Add(b, t, m) ==
  IF b = NoBar THEN [minute |-> m, trades |-> <<t>>]
  ELSE IF m < b.minute THEN b
  ELSE [b EXCEPT !.trades = Append(@, t)]

OnTrade(t) ==
  /\ t \notin Delivered
  /\ \E m \in 1..Minutes :
       /\ m <= now + 1                    \* the exchange's clock may be ahead
       /\ minuteOf' = [minuteOf EXCEPT ![t] = m]
       /\ buffer' = Append(buffer, t)
       /\ IF Closed(m) THEN pending' = Append(pending, bar) /\ bar' = Add(NoBar, t, m)
                       ELSE bar' = Add(bar, t, m) /\ UNCHANGED pending
  /\ UNCHANGED <<now, pc, file, preserved, bars, dispatched>>

-----------------------------------------------------------------------------
(* _flush_bar: the row replaces the one of its minute, unless the save     *)
(* raises; it is dispatched in any case.                                   *)
Saved(bs, b) == [bs EXCEPT ![b.minute] = b.trades]

(* A wake of _run: the bar the clock has closed goes first.                *)
TakeClosed ==
  /\ pc = "sleep" /\ pc' = "ticks"
  /\ IF Closed(now)
     THEN /\ bar' = NoBar
          /\ bars' \in {bars, Saved(bars, bar)}
          /\ dispatched' = Append(dispatched, bar)
     ELSE UNCHANGED <<bar, bars, dispatched>>
  /\ UNCHANGED <<now, minuteOf, buffer, pending, file, preserved>>

(* _append_parquet: a file that cannot be parsed is put aside, one that    *)
(* cannot be read for another reason, or a write that fails, loses the     *)
(* batch and leaves the file.  Mutant: a damaged file is just replaced.    *)
Overwrites(rows) == preserved
SetsAside(rows)  == preserved \cup rows

FlushTicks ==
  /\ pc = "ticks" /\ pc' = "bars"
  /\ buffer' = <<>>
  /\ \/ UNCHANGED <<file, preserved>>
     \/ /\ buffer # <<>> /\ ~file.damaged
        /\ file' = [file EXCEPT !.rows = @ \cup ToSet(buffer)] /\ UNCHANGED preserved
     \/ /\ buffer # <<>> /\ file.damaged
        /\ file' = [rows |-> ToSet(buffer), damaged |-> FALSE]
        /\ preserved' = SetsAside(file.rows)
  /\ UNCHANGED <<now, minuteOf, bar, pending, bars, dispatched>>

(* The bars the stream's thread has closed follow; their deque is copied   *)
(* and emptied under the lock.  Any save may raise: the last that did not  *)
(* says what the row of its minute holds.                                  *)
FlushPending ==
  /\ pc = "bars" /\ pc' = "sleep"
  /\ pending' = <<>>
  /\ \E last \in [1..Minutes -> {0} \cup DOMAIN pending] :
       /\ \A m \in 1..Minutes : last[m] # 0 => pending[last[m]].minute = m
       /\ bars' = [m \in 1..Minutes |-> IF last[m] = 0 THEN bars[m] ELSE pending[last[m]].trades]
  /\ dispatched' = dispatched \o pending
  /\ UNCHANGED <<now, minuteOf, buffer, bar, file, preserved>>

Minute ==
  /\ now <= Minutes /\ now' = now + 1
  /\ UNCHANGED <<minuteOf, buffer, bar, pending, pc, file, preserved, bars, dispatched>>

(* Another program, or a crash of an older version, leaves a broken file.  *)
Damage ==
  /\ ~file.damaged /\ file.rows # {} /\ preserved = {}
  /\ file' = [file EXCEPT !.damaged = TRUE]
  /\ UNCHANGED <<now, minuteOf, buffer, bar, pending, pc, preserved, bars, dispatched>>

Next == (\E t \in Trades : OnTrade(t)) \/ TakeClosed \/ FlushTicks \/ FlushPending \/ Minute \/ Damage

Spec == Init /\ [][Next]_vars

-----------------------------------------------------------------------------
(* Every bar, open, waiting or dispatched. *)
AllBars == dispatched \o pending \o (IF bar = NoBar THEN <<>> ELSE <<bar>>)

(* However thread and task interleave and however late trades come, a      *)
(* trade is counted in one bar at most, once, and only in its minute's.    *)
CountedOnce ==
  /\ \A i \in DOMAIN AllBars : \A j \in DOMAIN AllBars[i].trades : minuteOf[AllBars[i].trades[j]] = AllBars[i].minute
  /\ \A i, k \in DOMAIN AllBars : \A j \in DOMAIN AllBars[i].trades, l \in DOMAIN AllBars[k].trades :
       AllBars[i].trades[j] = AllBars[k].trades[l] => i = k /\ j = l

(* A trade that entered a bar is dispatched with it or still waits to be:  *)
(* no late trade, swap of the open bar or copy of the queue loses it.      *)
Barred == UNION {ToSet(AllBars[i].trades) : i \in DOMAIN AllBars}
BarsAreKept == [][Barred \subseteq Barred']_vars

(* Ticks that were written are never lost to a later flush, damaged file   *)
(* or not ("Keep the damaged file for recovery").                          *)
WrittenTicksKept == [][file.rows \cup preserved \subseteq file'.rows \cup preserved']_vars

=============================================================================
