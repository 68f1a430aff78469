------------------------------ MODULE TickView ------------------------------
(***************************************************************************)
(* What an algorithm is shown in a backtest: the bars, dataset rows, files *)
(* and option chains of BacktestTickContext in the discovery pass, which   *)
(* is one tick at the first time, and in the replay from that time on,     *)
(* while downloads, dataset jobs and scrapers write the files.             *)
(*                                                                         *)
(* One symbol, one dataset, one file.  A bar is its start, which is also   *)
(* its price; a contract's bars start with the symbol's.                   *)
(***************************************************************************)
EXTENDS Integers, FiniteSets, FiniteSetsExt

CONSTANTS
  First, End,     \* the times of the ticks
  Starts,         \* of the bars of the range, the last one after End
  Duration,       \* of a bar
  Lags,           \* of dataset requests
  Known,          \* rows a dataset job may write: [event, known]
  Listed, Wanted, \* expirations that have contracts, and that are asked for
  Nearby,         \* how far the nearest expiration may be
  MaxAsks         \* requests of the algorithm (a bound)

ConstantsAssumption ==
  /\ {First, End, Duration, Nearby, MaxAsks} \cup Starts \cup Lags \cup Listed \cup Wanted \subseteq Nat
  /\ \A r \in Known : r.event <= r.known

VARIABLES
  pass, now,
  disk, rows, version,  \* the market file's bars, the dataset's rows, the custom file
  bars,                 \* _bars of the symbol, {} for none
  dataset,              \* _dataset_cache: the file's rows, if it was read
  custom,               \* _custom_data_cache: the version, 0 for none
  chain,                \* _option_chain_cache: [exp, asOf] by expiration asked for, or None
  ref,                  \* _ref_price and _ref_time, or None
  shown                 \* history: what was answered

vars == <<pass, now, disk, rows, version, bars, dataset, custom, chain, ref, shown>>

None   == [exp |-> -1]
Unread == [read |-> FALSE, rows |-> {}]

TypeOK ==
  /\ pass \in {"warm", "discovery", "replay"} /\ now \in First..End
  /\ disk \in {{}, Starts} /\ bars \in {{}, Starts} /\ rows \subseteq Known
  /\ dataset.rows \subseteq Known
  /\ custom <= version /\ Cardinality(shown) <= MaxAsks
  /\ \A e \in Wanted : chain[e] = None \/ chain[e].exp \in Listed

Init ==
  /\ pass = "warm" /\ now = First /\ disk \in {{}, Starts} /\ bars \in {{}, disk}
  /\ rows = {} /\ version = 0 /\ dataset = Unread /\ custom = 0
  /\ chain = [e \in Wanted |-> None] /\ ref = None /\ shown = {}

World == <<disk, rows, version>>
Caches == <<bars, dataset, custom, chain, ref>>

(* A dataset job, a scraper. *)
RowArrives ==
  /\ \E r \in Known \ rows : rows' = rows \cup {r}
  /\ UNCHANGED <<pass, now, disk, version, Caches, shown>>
FileReplaced ==
  /\ version < 2 /\ version' = version + 1
  /\ UNCHANGED <<pass, now, disk, rows, Caches, shown>>

-----------------------------------------------------------------------------
(* run: the chains of an options algorithm are built before, as of the end  *)
(* of the range; then one tick of the discovery, reset_for_replay, and the  *)
(* ticks of the replay.                                                     *)

LastStart(t) == LET S == {b \in Starts : b <= t} IN IF S = {} THEN -1 ELSE Max(S)
Warmed == [e \in Wanted |-> IF e \in Listed THEN [exp |-> e, asOf |-> LastStart(End)] ELSE None]

Warms ==
  /\ pass = "warm" /\ pass' = "discovery" /\ chain' \in {chain, Warmed}
  /\ UNCHANGED <<now, World, bars, dataset, custom, ref, shown>>

(* Mutant: the reset empties the cache of the datasets too. *)
Emptied == Unread
Kept    == dataset

ResetForReplay ==
  /\ pass = "discovery" /\ pass' = "replay" /\ dataset' = Kept
  /\ UNCHANGED <<now, World, bars, custom, chain, ref, shown>>

SetSimTime ==
  /\ pass = "replay" /\ now < End /\ now' = now + 1
  /\ UNCHANGED <<pass, World, Caches, shown>>

-----------------------------------------------------------------------------
Ticking == pass # "warm" /\ Cardinality(shown) < MaxAsks
(* An answer is a set: of bars, of rows, or of one chain or file. *)
Shows(what, arg, answer) ==
  shown' = shown \cup {[pass |-> pass, now |-> now, what |-> what, arg |-> arg, answer |-> answer]}

(* market_data: from the cache, the file, or a download, which fails or     *)
(* brings the whole range; then the bars that have closed.  Mutant: the     *)
(* bars that have begun.                                                    *)
Begun(t)  == {b \in bars' : b <= t}
Closed(t) == {b \in bars' : b + Duration <= t}

MarketData ==
  /\ Ticking
  /\ disk' \in IF bars \cup disk = {} THEN {disk, Starts} ELSE {disk}
  /\ bars' = IF bars # {} THEN bars ELSE disk'
  /\ Shows(IF bars' = {} THEN "no bars" ELSE "bars", 0, Closed(now))
  /\ UNCHANGED <<pass, now, rows, version, dataset, custom, chain, ref>>

(* dataset: the file as it is at the first request, and no file as empty.   *)
Dataset(lag) ==
  /\ Ticking
  /\ dataset' = IF dataset.read THEN dataset ELSE [read |-> TRUE, rows |-> rows]
  /\ Shows("dataset", lag, {r \in dataset'.rows : r.known <= now - lag})
  /\ UNCHANGED <<pass, now, World, bars, custom, chain, ref>>

(* data: the file that is found first, whenever it was written. *)
Data ==
  /\ Ticking /\ version > 0
  /\ custom' = IF custom = 0 THEN version ELSE custom
  /\ Shows("file", 0, {custom'})
  /\ UNCHANGED <<pass, now, World, bars, dataset, chain, ref>>

-----------------------------------------------------------------------------
(* option_chain: the one that was cached for the expiration, or a new one   *)
(* as of now, or that of the nearest expiration, which is then cached for   *)
(* the one that was asked for.                                              *)
Far(e, x) == IF e < x THEN x - e ELSE e - x
Nearest(e) == CHOOSE x \in Listed : \A y \in Listed : Far(e, x) < Far(e, y) \/ (Far(e, x) = Far(e, y) /\ x <= y)

Found(e) ==
  IF chain[e] # None THEN chain[e]
  ELSE IF LastStart(now) = -1 \/ Listed = {} \/ Far(e, Nearest(e)) > Nearby THEN None
  ELSE [exp |-> IF e \in Listed THEN e ELSE Nearest(e), asOf |-> LastStart(now)]

(* _get_underlying_price, and _reprice_chain: nothing is repriced if the    *)
(* price and the day are those of the call before.                          *)
Underlying == LET S == {b \in bars : b <= now} IN IF S = {} THEN -1 ELSE Max(S)
Day(t) == t \div Duration
Before(c) == IF ref = None THEN [exp |-> 0, price |-> c.asOf, time |-> now] ELSE ref
Moved(c) == Underlying # Before(c).price \/ Day(now) # Day(Before(c).time)

(* Mutant: repriced, and the cached chain is replaced. *)
InPlace(e, c) == [chain EXCEPT ![e] = IF Underlying # -1 /\ Moved(c) THEN [c EXCEPT !.asOf = Underlying] ELSE c]
Cached(e, c)  == [chain EXCEPT ![e] = c]

OptionChain(e) ==
  LET c == Found(e) IN
  /\ Ticking /\ chain' = IF c = None THEN chain ELSE Cached(e, c)
  /\ ref' = IF c = None \/ Underlying = -1 THEN ref
            ELSE IF Moved(c) THEN [exp |-> 0, price |-> Underlying, time |-> now] ELSE Before(c)
  /\ Shows("chain", e, IF c = None THEN {}
                       ELSE {[exp   |-> IF chain[e] # None THEN e ELSE c.exp, of |-> c.exp, asOf |-> c.asOf,
                              price |-> IF Underlying # -1 /\ Moved(c) THEN Underlying ELSE c.asOf]})
  /\ UNCHANGED <<pass, now, World, bars, dataset, custom>>

Next ==
  \/ RowArrives \/ FileReplaced \/ Warms \/ ResetForReplay \/ SetSimTime
  \/ MarketData \/ (\E lag \in Lags : Dataset(lag)) \/ Data \/ (\E e \in Wanted : OptionChain(e))

Spec == Init /\ [][Next]_vars

-----------------------------------------------------------------------------
Answers(what) == {a \in shown : a.what = what}
Views == Answers("bars") \cup Answers("dataset")

(* The replay is shown what the discovery was, whatever jobs and scrapers   *)
(* write between the two: bars that were found, the rows, the file.         *)
PassesAgree ==
  \A a, b \in Views \cup Answers("file") :
    a.what = b.what /\ a.arg = b.arg /\ a.now = b.now => a.answer = b.answer

(* What was shown is shown later, and nothing that came to be known since,  *)
(* nor a bar that had not closed, is shown before its time.                 *)
HistoryOnlyGrows ==
  /\ \A a, b \in Views :
       a.what = b.what /\ a.arg = b.arg /\ a.now <= b.now => a.answer \subseteq b.answer
  /\ \A a \in Answers("bars") : \A x \in a.answer : x + Duration <= a.now
  /\ \A a \in Answers("dataset") : \A r \in a.answer : r.known + a.arg <= a.now

(* The contracts of a chain are those of the same day at every request.     *)
ChainsAgree ==
  \A a, b \in Answers("chain") :
    a.arg = b.arg => \A x \in a.answer, y \in b.answer : x.asOf = y.asOf /\ x.of = y.of

(* Not so: a chain that was built before the run is as of its end.          *)
ChainIsPast == \A a \in Answers("chain") : \A x \in a.answer : x.asOf <= a.now

(* Not so: the price of the underlying is that of a bar that has begun.     *)
PriceIsClosed == \A a \in Answers("chain") : \A x \in a.answer : x.price + Duration <= a.now

(* Not so: the second request of a tick gets the chain as it was built.     *)
TickHasOneChain ==
  \A a, b \in Answers("chain") :
    a.pass = b.pass /\ a.arg = b.arg /\ a.now = b.now => \A x \in a.answer, y \in b.answer : x.price = y.price

(* Not so: from the cache, the nearest expiration's contracts are labelled  *)
(* with the one that was asked for.                                         *)
ExpirationIsTrue == \A a \in Answers("chain") : \A x \in a.answer : x.exp = x.of
=============================================================================
