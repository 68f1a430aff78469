---------------------------- MODULE MCMarketData ----------------------------
(***************************************************************************)
(* The market-data parts of the coordinator.  The modules share no         *)
(* variable, so no step of one can change what a property of another sees: *)
(* a behaviour moves one part, and the instance has the sum of the parts'  *)
(* states.                                                                 *)
(***************************************************************************)
EXTENDS Downloads
CONSTANTS d1, d2, d3, p1, p2, None, Trades, Minutes
OneSlowProvider == [d \in DownloadIds |-> IF d = d3 THEN p2 ELSE p1]
Permits1 == [p \in Providers |-> 1]
Symbols2 == [d \in DownloadIds |-> IF d = d1 THEN 2 ELSE 1]

VARIABLES
  part,                                                    \* which part moves
  row, lock, call, running, phase, todo,                   \* LiveFeeds
  states, tracked, flushTask, streams, conn, handle,
  now, minuteOf, buffer, bar, pending, pc,                 \* LiveBars
  file, preserved, bars, dispatched

feedVars == <<row, lock, call, running, phase, todo, states, tracked, flushTask, streams, conn, handle>>
barVars  == <<now, minuteOf, buffer, bar, pending, pc, file, preserved, bars, dispatched>>

(* Two requests at a time for one symbol, with a handle that must reopen;   *)
(* requests and deployments one at a time for two symbols, with a handle    *)
(* that can add and remove symbols.                                         *)
Overlapping == INSTANCE LiveFeeds WITH
  task <- flushTask, Owners <- {"o1"}, Symbols <- {"s1"}, Brokers <- {"b1", "b2"},
  BrokerOf <- [o \in {"o1"} |-> "b1"], Providers <- {}, Surgical <- {}, Cap <- 2,
  Instances <- {}, AccountOf <- <<>>, AssetOf <- <<>>, Calls <- {"c1", "c2"}, Rows <- {"r1", "r2"},
  Conns <- {"x1", "x2"}, Handles <- {"h1", "h2"}, Tasks <- {"t1", "t2"}
OneByOne == INSTANCE LiveFeeds WITH
  task <- flushTask, Owners <- {"o1"}, Symbols <- {"s1", "s2"}, Brokers <- {"b1", "b2"},
  BrokerOf <- [o \in {"o1"} |-> "b1"], Providers <- {}, Surgical <- {"o1"}, Cap <- 2,
  Instances <- {"i1"}, AccountOf <- [i \in {"i1"} |-> "o1"], AssetOf <- [i \in {"i1"} |-> "s1"],
  Calls <- {"c1"}, Rows <- {"r1", "r2"}, Conns <- {"x1", "x2"}, Handles <- {"h1", "h2"},
  Tasks <- {"t1", "t2"}

Bars == INSTANCE LiveBars WITH NoBar <- None

ASSUME PartsAssumption ==
  Overlapping!ConstantsAssumption /\ OneByOne!ConstantsAssumption /\ Bars!ConstantsAssumption

MCInit ==
  /\ Init /\ Bars!Init
  /\ \/ part \in {"downloads", "bars"} /\ Overlapping!Init /\ row = [r \in {"r1", "r2"} |-> None]
     \/ part = "overlapping" /\ Overlapping!Init
     \/ part = "one by one" /\ OneByOne!Init

MCNext ==
  /\ UNCHANGED part
  /\ \/ part = "downloads"   /\ Next             /\ UNCHANGED <<feedVars, barVars>>
     \/ part = "overlapping" /\ Overlapping!Next /\ UNCHANGED <<vars, barVars>>
     \/ part = "one by one"  /\ OneByOne!Next    /\ UNCHANGED <<vars, barVars>>
     \/ part = "bars"        /\ Bars!Next        /\ UNCHANGED <<vars, feedVars>>

(* No step of a download is enabled before one is created, so Fairness says *)
(* nothing of the other parts.                                              *)
MCSpec == MCInit /\ [][MCNext]_<<part, vars, feedVars, barVars>> /\ Fairness

-----------------------------------------------------------------------------
(* Every part's variables have their types. *)
MCTypeOK ==
  /\ TypeOK
  /\ IF part = "one by one" THEN OneByOne!TypeOK ELSE Overlapping!TypeOK
  /\ Bars!TypeOK

(* Downloads: a row that says queued or running has somebody left who ends  *)
(* it, and a download that finished was announced to the listeners.         *)
DownloadsEnd == SomebodyEndsIt /\ FinishedIsAnnounced

(* LiveFeeds: an open handle carries what its connection says, however the  *)
(* starts and stops of a stream overlap; while requests do not overlap, no  *)
(* stream carries a symbol without a subscription, and what is streamed is  *)
(* flushed.                                                                 *)
FeedsAreRight ==
  IF part = "one by one"
  THEN /\ OneByOne!TrackedStreamOpen
       /\ OneByOne!StreamsFollowSubscriptions /\ OneByOne!StreamedIsFlushed
  ELSE Overlapping!TrackedStreamOpen

(* LiveBars: each trade counts once, in its minute's bar; a trade in a bar  *)
(* reaches the subscribers; a written tick is kept.                         *)
CountedOnce   == Bars!CountedOnce
TradesAreKept == Bars!BarsAreKept /\ Bars!WrittenTicksKept
=============================================================================
