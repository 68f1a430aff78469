------------------------------- MODULE MCJobs -------------------------------
(***************************************************************************)
(* The jobs the coordinator runs in the background: research jobs,         *)
(* backtest runs, and the engine a backtest run drives.  They share no     *)
(* variable, so a behaviour moves one part (as in MCMarketData).           *)
(***************************************************************************)
EXTENDS ResearchJobs, TLC
CONSTANTS
  None,
  QueueSize, MaxChunks, Deps, WriterFails,                  \* BacktestRuns
  LastBar, BarsPerDay, Equities, Options, Markets, Kinds,   \* BacktestEngine
  MaxLegs, InitialCash, Fee, Multiplier, Strike, LastDay

VARIABLES
  part,
  deleting, serving, row, progress, stage, deps, engine, buffered, produced, queue,
  writer, error, written, files, report, algorithm,         \* BacktestRuns
  market, phase, bar, legs, pending, todo, cash, held, cost, realized, openFees,
  cancelAll, answers, priced                                \* BacktestEngine

runVars    == <<deleting, serving, row, progress, stage, deps, engine, buffered, produced, queue,
                writer, error, written, files, report, algorithm>>
engineVars == <<market, phase, bar, legs, pending, todo, cash, held, cost, realized, openFees,
                cancelAll, answers, priced>>

Backtest == INSTANCE BacktestRuns WITH up <- serving, task <- stage
Engine   == INSTANCE BacktestEngine

ASSUME PartsAssumption == Backtest!ConstantsAssumption /\ Engine!ConstantsAssumption

(* The values of the run.  A day of three bars and one more.  S has every   *)
(* bar, T two of them; the call C on S expires with the first day.  S rises *)
(* or falls.                                                                *)
Shares == <<"S", "T">>
Row(o, l, h, c) == [open |-> o, low |-> l, high |-> h, close |-> c]
Rising  == 0 :> Row(2, 2, 2, 2) @@ 1 :> Row(2, 1, 3, 2) @@ 2 :> Row(4, 2, 4, 4) @@ 3 :> Row(4, 4, 5, 5)
Falling == 0 :> Row(4, 4, 4, 4) @@ 1 :> Row(4, 3, 5, 4) @@ 2 :> Row(2, 1, 3, 2) @@ 3 :> Row(1, 1, 2, 1)
Data == {[bars  |-> ("S" :> prices @@ "T" :> (1 :> Row(2, 2, 2, 2) @@ 3 :> Row(4, 3, 4, 4))),
          quote |-> (0 :> None @@ 1 :> 1 @@ 2 :> 2 @@ 3 :> None)] : prices \in {Rising, Falling}}
Leg(s, side, type, tif, qty) ==
  [sym |-> s, side |-> side, type |-> type, tif |-> tif, qty |-> qty, limit |-> 3, stop |-> 2]
Asked ==
  {Leg(s, side, "market", "IOC", 1) : s \in {"S", "T"}, side \in {"buy", "sell"}}
  \cup {Leg("S", "buy", "limit", "GTC", 1), Leg("S", "sell", "limit", "IOC", 1)}
  \cup {Leg("S", "buy", "stop", "GTC", 1), Leg("S", "buy", "stop_limit", "DAY", 1)}
  \cup {Leg("C", side, "market", "DAY", qty) : side \in {"buy", "sell"}, qty \in 1..2}

MCInit == Init /\ Backtest!Init /\ Engine!Init /\ part \in {"jobs", "backtest", "engine"}

MCNext ==
  /\ UNCHANGED part
  /\ \/ part = "jobs"     /\ Next          /\ UNCHANGED <<runVars, engineVars>>
     \/ part = "backtest" /\ Backtest!Next /\ UNCHANGED <<vars, engineVars>>
     \/ part = "engine"   /\ Engine!Next   /\ UNCHANGED <<vars, runVars>>

MCSpec == MCInit /\ [][MCNext]_<<part, vars, runVars, engineVars>> /\ Fairness

-----------------------------------------------------------------------------
(* Every part's variables have their types. *)
MCTypeOK == TypeOK /\ Backtest!TypeOK /\ Engine!TypeOK

(* BacktestRuns: a completed run reports everything its engine produced;    *)
(* a live row has a task that will end it.                                  *)
RunsEndWhole == Backtest!CompletedIsWhole /\ Backtest!LiveHasTask

(* BacktestEngine: every leg is answered once, and nothing fills at the     *)
(* price of the bar its signal came from when there is a later one.         *)
LegsAreRight == Engine!LegsAnsweredOnce /\ Engine!NoStaleFills

(* BacktestEngine: cash, positions, cost basis and realized gains agree     *)
(* with the fills that were reported.                                       *)
BooksBalance == Engine!BooksBalance

(* backtest_engine_v2.py:4, "No same-bar fills (signal at bar T -> fill at   *)
(* T+1 at earliest)".                                                       *)
NoSameBarFills == Engine!NoSameBarFills

(* backtest_engine_v2.py:10, "Stop / stop-limit: trigger then market/limit  *)
(* on +2 bars".                                                             *)
StopLimitKeepsLimit == Engine!StopLimitKeepsLimit
=============================================================================
