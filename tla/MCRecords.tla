----------------------------- MODULE MCRecords ------------------------------
(***************************************************************************)
(* The parts of the system whose properties are about the records they     *)
(* keep: no fairness is needed.  A behaviour moves one part: Packages, which *)
(* has its own variables, or one that has those below for itself.          *)
(***************************************************************************)
EXTENDS Packages

(* The rows of the dataset of the backtests' view: when each became known. *)
KnownRows == {[event |-> 0, known |-> 1], [event |-> 2, known |-> 4]}

VARIABLES
  part,
  v1, v2, v3, v4, v5, v6, v7, v8, v9, v10, v11, v12, v13, v14, v15, v16, v17

slots == <<v1, v2, v3, v4, v5, v6, v7, v8, v9, v10, v11, v12, v13, v14, v15, v16, v17>>

(* The slots from the n-th on, which a part with fewer variables leaves at 0. *)
From17 == <<v17>>
From16 == <<v16, From17>>
From15 == <<v15, From16>>
From14 == <<v14, From15>>
From13 == <<v13, From14>>
From12 == <<v12, From13>>
From11 == <<v11, From12>>
From10 == <<v10, From11>>
From9 == <<v9, From10>>
From8 == <<v8, From9>>
From7 == <<v7, From8>>
From6 == <<v6, From7>>

Blank17 == v17 = 0
Blank16 == v16 = 0 /\ Blank17
Blank15 == v15 = 0 /\ Blank16
Blank14 == v14 = 0 /\ Blank15
Blank13 == v13 = 0 /\ Blank14
Blank12 == v12 = 0 /\ Blank13
Blank11 == v11 = 0 /\ Blank12
Blank10 == v10 = 0 /\ Blank11
Blank9 == v9 = 0 /\ Blank10
Blank8 == v8 = 0 /\ Blank9
Blank7 == v7 = 0 /\ Blank8
Blank6 == v6 = 0 /\ Blank7
Blank1 == v1 = 0 /\ v2 = 0 /\ v3 = 0 /\ v4 = 0 /\ v5 = 0 /\ Blank6

Scraper == INSTANCE Scrapers WITH
  up <- v1, crashes <- v2, record <- v3, login <- v4, catchUp <- v5, run <- v6, child <- v7,
  session <- v8, helper <- v9, auth <- v10, attempts <- v11, success <- v12, caught <- v13,
  Runs <- {"r1", "r2"}, MaxAttempts <- 1, MaxCrashes <- 1, MaxStarts <- 2,
  MayUninstall <- FALSE, MayRaise <- FALSE

Pages == INSTANCE LoginPages WITH
  alive <- v1, opened <- v2, order <- v3, active <- v4, cast <- v5, wait <- v6, sync <- v7,
  dirty <- v8, emitter <- v9, switches <- v10, report <- v11, done <- v12,
  Tabs <- 3, MaxSwitches <- 1, Waiters <- 5

Profile == INSTANCE ProfileLock WITH
  pc <- v1, tries <- v2, record <- v3, prober <- v4, probes <- v5, browser <- v6,
  failed <- v7, met <- v8, blocked <- v9, during <- v10, told <- v11,
  Processes <- {"s", "l", "t"}, Nobody <- "none", Tries <- 2, MaxProbes <- 1

Synced == INSTANCE Accounts WITH
  account <- v1, day <- v2, dateOf <- v3, posted <- v4, late <- v5, manual <- v6,
  synced <- v7, sync <- v8, overlapped <- v9, backfill <- v10, download <- v11,
  equity <- v12, covered <- v13, close <- v14,
  MaxEvents <- 2, Days <- 1, Syncers <- {"periodic", "route"}, Backfills <- {},
  DailyClose <- FALSE, MayDeleteDownload <- FALSE

Closed == INSTANCE Accounts WITH
  account <- v1, day <- v2, dateOf <- v3, posted <- v4, late <- v5, manual <- v6,
  synced <- v7, sync <- v8, overlapped <- v9, backfill <- v10, download <- v11,
  equity <- v12, covered <- v13, close <- v14,
  MaxEvents <- 1, Days <- 3, Syncers <- {}, Backfills <- {"b1", "b2"},
  DailyClose <- TRUE, MayDeleteDownload <- TRUE

Books == INSTANCE AccountBooks WITH
  txns <- v1, positions <- v2, cash <- v3, ledger <- v4, cashByDate <- v5,
  Symbols <- {"eq", "opt"}, Mult <- [eq |-> 1, opt |-> 2], Expiry <- [eq |-> 9, opt |-> 2],
  Days <- 4, Weekend <- {3}, MaxTxns <- 3, Quantities <- {1, 2}, Flows <- {1}

ByHand == INSTANCE Positions WITH
  status <- v1, legs <- v2, orders <- v3, trades <- v4, request <- v5,
  Legs <- {"l1", "l2"}, Requests <- {"q1", "q2", "q3"}

Streams == INSTANCE StreamHandles WITH
  kind <- v1, wanted <- v2, carried <- v3, thread <- v4, response <- v5, stop <- v6,
  fired <- v7, refused <- v8, raced <- v9, broken <- v10, changes <- v11, bars <- v12,
  emitted <- v13,
  Symbols <- {"a", "b"}, MaxChanges <- 2, MaxBars <- 4

History == INSTANCE BrokerHistory WITH
  broker <- v1, events <- v2, pc <- v3, cursor <- v4, token <- v5, end <- v6, seen <- v7,
  out <- v8, rows <- v9,
  Days <- 3, MaxEvents <- 4, Ids <- {1}, Window <- 2, Limit <- 2, PageSize <- 2

Delivery == INSTANCE TickDelivery WITH
  context <- v1, registered <- v2, call <- v3, now <- v4, out <- v5, online <- v6,
  delivered <- v7, overlapped <- v8,
  Instances <- {1}, Callers <- {"k1", "k2"}, MaxContexts <- 2, MaxEvents <- 3

Dash == INSTANCE Dashboard WITH
  socket <- v1, handler <- v2, connected <- v3, subscribed <- v4, tracked <- v5,
  begins <- v6, polling <- v7, failed <- v8, cast <- v9, push <- v10,
  Sockets <- {"s1", "s2"}, Topics <- {"account"}

Samples == INSTANCE LiveSamples WITH
  running <- v1, run <- v2, ended <- v3, samples <- v4, malformed <- v5, buffer <- v6,
  file <- v7, writer <- v8, finalizer <- v9, report <- v10, missed <- v11, lost <- v12,
  crashes <- v13,
  Runs <- 2, MaxSamples <- 3, BufferSize <- 2, MaxCrashes <- 1

Trial == INSTANCE Trials WITH
  kind <- v1, job <- v2, task <- v3, queue <- v4, run <- v5, runIds <- v6, progress <- v7,
  chosen <- v8,
  Trials <- 2, Folds <- 2, Parallelism <- 1, Metrics <- {-1, 1}

Window == INSTANCE Windows WITH
  request <- v1, train <- v2, folds <- v3, cursor <- v4, joined <- v5,
  Days <- {8, 11}, Groups <- {4, 5}, Purges <- {0, 1}, Embargoes <- {0, 1}, Lengths <- {1, 2, 3}

Dataset == INSTANCE Datasets WITH
  window <- v1, usage <- v2, gate <- v3, served <- v4, file <- v5, row <- v6, task <- v7,
  history <- v8,
  Jobs <- {"j1"}, Limit <- 2, MaxWindows <- 2, MaxServed <- 2, MaxCrashes <- 1

View == INSTANCE TickView WITH
  pass <- v1, now <- v2, disk <- v3, rows <- v4, version <- v5, bars <- v6, dataset <- v7,
  custom <- v8, chain <- v9, ref <- v10, shown <- v11,
  First <- 2, End <- 4, Starts <- {0, 2, 4, 6}, Duration <- 2, Lags <- {0, 1}, Known <- KnownRows,
  Listed <- {10}, Wanted <- {10, 11}, Nearby <- 1, MaxAsks <- 2

Buffer == INSTANCE BarBuffer WITH
  closed <- v1, saved <- v2, pushing <- v3, starts <- v4, inbox <- v5, connected <- v6,
  phase <- v7, cache <- v8, runs <- v9, buffer <- v10, pushed <- v11,
  MaxBars <- 4, Keeps <- 3, TTL <- 2, MaxStarts <- 2

Gap == INSTANCE Gaps WITH
  minutes <- v1, dailies <- v2, request <- v3, windows <- v4, failed <- v5, skipped <- v6,
  Days <- 7, Weekend <- {3, 4}, Threshold <- 3

Fetch == INSTANCE PageFetch WITH
  now <- v1, last <- v2, pc <- v3, page <- v4, attempt <- v5, wake <- v6, view <- v7,
  file <- v8, saved <- v9, partial <- v10, crowded <- v11, abreast <- v12, torn <- v13,
  Callers <- {"a", "b"}, NumPages <- 2, Interval <- 2, RetryAfter <- 1, MaxRetries <- 2, MaxNow <- 5

Snaps == INSTANCE Snapshots WITH
  disk <- v1, saving <- v2, index <- v3, value <- v4, pending <- v5, worker <- v6,
  prewarm <- v7, told <- v8, crossed <- v9, overtaken <- v10,
  MaxChanges <- 3, MayPrewarm <- TRUE

Setup == INSTANCE Lifespan WITH
  mode <- v1, step <- v2, boots <- v3, schema <- v4, rows <- v5, work <- v6, jobs <- v7,
  loops <- v8, stop <- v9, hasty <- v10, up <- v11, settings <- v12, wired <- v13,
  changed <- v14,
  MaxBoots <- 2, Kinds <- {}, Jobs <- {"scraper"}, Loops <- {"retention"},
  Keys <- {"polygon_api_key", "polygon_concurrency", "fmp_api_key"}, MayBeLocked <- TRUE

Life == INSTANCE Lifespan WITH
  mode <- v1, step <- v2, boots <- v3, schema <- v4, rows <- v5, work <- v6, jobs <- v7,
  loops <- v8, stop <- v9, hasty <- v10, up <- v11, settings <- v12, wired <- v13,
  changed <- v14,
  MaxBoots <- 2, Kinds <- {"download", "dataset", "run", "job"}, Jobs <- {"goal", "account"},
  Loops <- {"finalizer", "health"}, Keys <- {}, MayBeLocked <- FALSE

Daemon == INSTANCE CoordProcess WITH
  proc <- v1, children <- v2, pidFile <- v3, spawned <- v4, pc <- v5, pid <- v6,
  restarts <- v7, said <- v8, overlapped <- v9, untold <- v10, served <- v11,
  Commands <- {"k1", "k2"}, MaxSpawns <- 3

(* A deployment whose on_stop may raise, beside that of the run of ticks.   *)
OnStop == INSTANCE TickExecution WITH
  status <- v1, persisted <- v2, sent <- v3, runs <- v4, link <- v5, toWorker <- v6,
  toCoord <- v7, running <- v8, bringUp <- v9, runner <- v10, memory <- v11, fails <- v12,
  tail <- v13, task <- v14, pending <- v15, saved <- v16, gaveUp <- v17,
  MaxTicks <- 2, MaxRuntimes <- 2, MaxSignals <- 2, MaxLegs <- 1, MaxFailures <- 2,
  Raises <- {"on_stop"}, Timeouts <- FALSE, Losses <- TRUE

ASSUME PartsAssumption ==
  /\ Scraper!ConstantsAssumption /\ Pages!ConstantsAssumption /\ Profile!ConstantsAssumption
  /\ Synced!ConstantsAssumption /\ Closed!ConstantsAssumption /\ History!ConstantsAssumption
  /\ Samples!ConstantsAssumption /\ Trial!ConstantsAssumption /\ Window!ConstantsAssumption /\ Dataset!ConstantsAssumption
  /\ View!ConstantsAssumption /\ Fetch!ConstantsAssumption /\ Daemon!ConstantsAssumption
  /\ OnStop!ConstantsAssumption

MCInit ==
  /\ Init
  /\ \/ part = "packages"  /\ Blank1
     \/ part = "scraper"   /\ Scraper!Init   /\ Blank14
     \/ part = "pages"     /\ Pages!Init     /\ Blank13
     \/ part = "profile"   /\ Profile!Init   /\ Blank12
     \/ part = "synced"    /\ Synced!Init /\ Blank15
     \/ part = "closed"    /\ Closed!Init /\ Blank15
     \/ part = "books"     /\ Books!Init     /\ Blank6
     \/ part = "positions" /\ ByHand!Init    /\ Blank6
     \/ part = "streams"   /\ Streams!Init   /\ Blank14
     \/ part = "history"   /\ History!Init   /\ Blank10
     \/ part = "ticks"     /\ Delivery!Init  /\ Blank9
     \/ part = "on_stop"   /\ OnStop!Init
     \/ part = "dashboard" /\ Dash!Init      /\ Blank11
     \/ part = "samples"   /\ Samples!Init   /\ Blank14
     \/ part = "trials"    /\ Trial!Init     /\ Blank9
     \/ part = "windows"   /\ Window!Init    /\ Blank6
     \/ part = "datasets"  /\ Dataset!Init   /\ Blank9
     \/ part = "view"      /\ View!Init      /\ Blank12
     \/ part = "buffer"    /\ Buffer!Init    /\ Blank12
     \/ part = "gaps"      /\ Gap!Init       /\ Blank7
     \/ part = "fetch"     /\ Fetch!Init     /\ Blank14
     \/ part = "snapshots" /\ Snaps!Init     /\ Blank11
     \/ part = "setup"     /\ Setup!Init /\ Blank15
     \/ part = "life"      /\ Life!Init /\ Blank15
     \/ part = "daemon"    /\ Daemon!Init    /\ Blank12

MCNext ==
  /\ UNCHANGED part
  /\ \/ part = "packages" /\ Next /\ UNCHANGED slots
     \/ /\ UNCHANGED vars
        /\ \/ part = "scraper"   /\ Scraper!Next   /\ UNCHANGED From14
           \/ part = "pages"     /\ Pages!Next     /\ UNCHANGED From13
           \/ part = "profile"   /\ Profile!Next   /\ UNCHANGED From12
           \/ part = "synced"    /\ Synced!Next /\ UNCHANGED From15
           \/ part = "closed"    /\ Closed!Next /\ UNCHANGED From15
           \/ part = "books"     /\ Books!Next     /\ UNCHANGED From6
           \/ part = "positions" /\ ByHand!Next    /\ UNCHANGED From6
           \/ part = "streams"   /\ Streams!Next   /\ UNCHANGED From14
           \/ part = "history"   /\ History!Next   /\ UNCHANGED From10
           \/ part = "ticks"     /\ Delivery!Next  /\ UNCHANGED From9
           \/ part = "on_stop"   /\ OnStop!Next
           \/ part = "dashboard" /\ Dash!Next      /\ UNCHANGED From11
           \/ part = "samples"   /\ Samples!Next   /\ UNCHANGED From14
           \/ part = "trials"    /\ Trial!Next     /\ UNCHANGED From9
           \/ part = "windows"   /\ Window!Next    /\ UNCHANGED From6
           \/ part = "datasets"  /\ Dataset!Next   /\ UNCHANGED From9
           \/ part = "view"      /\ View!Next      /\ UNCHANGED From12
           \/ part = "buffer"    /\ Buffer!Next    /\ UNCHANGED From12
           \/ part = "gaps"      /\ Gap!Next       /\ UNCHANGED From7
           \/ part = "fetch"     /\ Fetch!Next     /\ UNCHANGED From14
           \/ part = "snapshots" /\ Snaps!Next     /\ UNCHANGED From11
           \/ part = "setup"     /\ Setup!Next /\ UNCHANGED From15
           \/ part = "life"      /\ Life!Next /\ UNCHANGED From15
           \/ part = "daemon"    /\ Daemon!Next    /\ UNCHANGED From12

MCSpec == MCInit /\ [][MCNext]_<<part, vars, slots>>

-----------------------------------------------------------------------------
(* Every part's variables have their types. *)
MCTypeOK ==
  /\ TypeOK
  /\ part = "scraper"   => Scraper!TypeOK
  /\ part = "pages"     => Pages!TypeOK
  /\ part = "profile"   => Profile!TypeOK
  /\ part = "synced"    => Synced!TypeOK
  /\ part = "closed"    => Closed!TypeOK
  /\ part = "books"     => Books!TypeOK
  /\ part = "positions" => ByHand!TypeOK
  /\ part = "streams"   => Streams!TypeOK
  /\ part = "history"   => History!TypeOK
  /\ part = "ticks"     => Delivery!TypeOK
  /\ part = "on_stop"   => OnStop!TypeOK
  /\ part = "dashboard" => Dash!TypeOK
  /\ part = "samples"   => Samples!TypeOK
  /\ part = "trials"    => Trial!TypeOK
  /\ part = "windows"   => Window!TypeOK
  /\ part = "datasets"  => Dataset!TypeOK
  /\ part = "view"      => View!TypeOK
  /\ part = "buffer"    => Buffer!TypeOK
  /\ part = "gaps"      => Gap!TypeOK
  /\ part = "fetch"     => Fetch!TypeOK
  /\ part = "snapshots" => Snaps!TypeOK
  /\ part = "setup"     => Setup!TypeOK
  /\ part = "life"      => Life!TypeOK
  /\ part = "daemon"    => Daemon!TypeOK

(* Scrapers: one run at a time and none beside a login; the flag covers the *)
(* session; the catch-ups of a day are bounded; a claimed slot has a run.   *)
(* LoginPages: the screencast follows the last of the tabs that opened and  *)
(* closed meanwhile, and the list of tabs that was last told is the list.   *)
(* ProfileLock: two browsers share a profile only when one was left behind, *)
(* the lock file names its holder, and a probe refuses nobody.              *)
ScrapersAreRight ==
  /\ part = "scraper" => /\ Scraper!RunsExclude /\ Scraper!FlagCoversSession
                         /\ Scraper!CatchUpsBounded /\ Scraper!SlotMeansRunning
  /\ part = "pages" => Pages!CastFollows /\ Pages!ReportSettles
  /\ part = "profile" => /\ Profile!BrowsersExclude /\ Profile!RecordIsHolder
                         /\ Profile!RefusedByHolder /\ Profile!ToldOfHolder

(* Accounts: overlapping syncs give a transaction one row; every day of a   *)
(* backfill has a row of equity.  BrokerHistory: windows and pages give     *)
(* every transaction once, and every one that was fetched gets a row.       *)
(* AccountBooks: the filled ledger is what the fills leave on a day, the    *)
(* cash walked back from the broker's is the cash of that day, and equity   *)
(* at constant prices changes by what came in and went out.  Positions:     *)
(* what was ordered by a request that was answered is in the trade log, a   *)
(* closed position had its order, and after requests that did not overlap   *)
(* or close twice the reconciliation finds nothing.                         *)
AccountsAreWhole ==
  /\ part = "synced" => Synced!SyncedOnce
  /\ part = "closed" => Closed!CurveIsWhole
  /\ part = "history" => History!FetchIsWhole /\ History!RowsCover
  /\ part = "books" => Books!LedgerIsNet /\ Books!CashAgrees /\ Books!EquityIsInflow
  /\ part = "positions" => /\ ByHand!OrdersAreBooked /\ ByHand!ClosedMeansOrdered
                           /\ ByHand!ReconcilesWhenQuiet

(* StreamHandles: a connection carries what was wanted, no thread ends      *)
(* without a word, and a bar that is polled again is passed on once.        *)
(* TickDelivery: only the registered context of an instance ticks, and its  *)
(* ticks arrive in order and once.  TickExecution: an on_stop that raises   *)
(* leaves a second runner behind, and the ticks are run in their order all  *)
(* the same.  BarBuffer: a bar that is pushed to a worker that runs is in   *)
(* its buffer, and history is never put behind it twice.                    *)
BarsAndTicksArrive ==
  /\ part = "streams" => Streams!CarriesWanted /\ Streams!EndIsKnown /\ Streams!BarsOnce
  /\ part = "ticks" => Delivery!OnlyRegisteredTick /\ Delivery!TicksArriveInOrder
  /\ part = "on_stop" => OnStop!TicksInOrder
  /\ part = "buffer" => Buffer!PushedAreKept /\ Buffer!BacksOnce

(* Dashboard: a broadcast reaches every socket that stays, an account that  *)
(* is tracked is polled, and a socket in the list has its receive loop.     *)
(* LiveSamples: a sample is kept once and in order from the buffer to the   *)
(* file, and a report has every sample that came before its flush.          *)
NewsReachesPeople ==
  /\ part = "dashboard" => Dash!EveryoneHears /\ Dash!TrackedIsPolled /\ Dash!ConnectedHasLoop
  /\ part = "samples" => Samples!SamplesAreKept /\ Samples!ReportCovers

(* Trials: a completed sweep has a result of every candidate, the trials    *)
(* under way are never more than allowed, and the winner of a sweep is its  *)
(* best.  Windows: the groups cut the days, the training windows keep clear *)
(* of the test groups, every path uses each test group once, and the folds  *)
(* roll on.  TickView: both passes of a backtest are shown the same, and    *)
(* the bars of a tick only grow.                                            *)
ResearchIsSound ==
  /\ part = "trials" => /\ Trial!CompletedIsWhole /\ Trial!AtMostParallel
                        /\ Trial!ProgressIsTrue /\ Trial!WinnerIsBest
  /\ part = "windows" => /\ Window!GroupsCutTheDays /\ Window!RunIsLongest
                         /\ Window!TrainAvoidsTest /\ Window!PathsUseEachTestOnce
                         /\ Window!FoldsRollOn
  /\ part = "view" => View!PassesAgree /\ View!HistoryOnlyGrows /\ View!ChainsAgree

(* Datasets: an observation stays in the file however the pages arrive, the *)
(* provider is never asked more than the quota of a day, and a completed    *)
(* job has everything it was asked for.  Gaps: the gaps of a window are the *)
(* days no run covers, and filling them leaves short holes only.            *)
(* PageFetch: requests of one task are paced, and what a task saved stays   *)
(* in the file.                                                             *)
(* Snapshots: no invalidation is forgotten, and what is shown once nothing  *)
(* is computed is not older than the last change that was told.             *)
DataIsAccountedFor ==
  /\ part = "datasets" => /\ Dataset!ObservationsStay /\ Dataset!QuotaIsKept
                          /\ Dataset!CompletedHasAll
  /\ part = "gaps" => Gap!GapsAreTheRest /\ Gap!FilledUpToHoles
  /\ part = "fetch" => Fetch!Paced /\ Fetch!PagesStay /\ Fetch!EndIsTrue
  /\ part = "snapshots" => /\ Snaps!StaleIsDrained /\ Snaps!StorageIsFresh
                           /\ Snaps!CoverageIsFresh

(* Lifespan: a recovery closes no row that this process works on, and none  *)
(* of an earlier one is left when requests are served; the loops and the    *)
(* scheduled jobs have returned their sessions when the engine is disposed  *)
(* of; the providers are those that were configured at the start.           *)
(* CoordProcess: between commands that ran alone, the file of the process   *)
(* id names the coordinator that serves, and a stop has ended it.           *)
LifeIsOrderly ==
  /\ part = "life" => Life!LiveHasRow /\ Life!OrphansGone /\ Life!SessionsReturned
  /\ part = "setup" => Setup!SessionsReturned /\ Setup!SettingsApply
  /\ part = "daemon" => /\ Daemon!FileNamesServer /\ Daemon!StoppedIsDead
                        /\ Daemon!StartedServes
=============================================================================
