------------------------------ MODULE Lifespan ------------------------------
(***************************************************************************)
(* The life of a coordinator process (coordinator/main.py lifespan): the   *)
(* steps that build it, in the order of the source, the background work    *)
(* that may already move between them, the orderly shutdown, and a kill at *)
(* any time.  A row of work (a download, a dataset job, a backtest run, a  *)
(* research job) outlives the process; the task that works on it does not. *)
(***************************************************************************)
EXTENDS Naturals, Sequences

CONSTANTS
  MaxBoots,     \* how often the process is started
  Kinds,        \* kinds of rows of work, of {"download", "dataset", "run", "job"}
  Jobs,         \* cron jobs, of {"scraper", "account", "goal"}
  Loops,        \* background loops, of {"finalizer", "health", "retention"}
  Keys,         \* settings, of the keys of Needs
  MayBeLocked   \* another process may hold the database while columns are added

VARIABLES
  mode,         \* "down", "starting", "serving" or "stopping"
  step,         \* which step of the startup or of the shutdown is next
  boots,        \* how often the process was started
  schema,       \* "old" or "new": whether the tables have every column
  rows,         \* whose rows of a kind say that they are worked on, of {"old", "own"}
  work,         \* whether a task of this process works on a row of a kind
  jobs,         \* "none", "registered", "running" or "unwinding"
  loops,        \* "none", "busy", "asleep" or "ended"
  stop,         \* the event periodic_stop
  hasty,        \* the jobs under way were cancelled instead of waited for
  up,           \* the services that run
  settings,     \* "unset", "good", or "bad": encrypted with another key
  wired,        \* the providers that were built
  changed       \* a setting was changed since the process started

vars == <<mode, step, boots, schema, rows, work, jobs, loops, stop, hasty, up,
          settings, wired, changed>>

(* Mutant: the goals' job is registered before the recovery. *)
GoalsFirst ==
  <<"migrate", "scheduler", "scrapers", "providers", "goals", "downloads", "datasets",
    "feeds", "finalizer", "snapshots", "runs", "jobs", "accounts", "loops">>
StartupOrder ==
  <<"migrate", "scheduler", "scrapers", "providers", "downloads", "datasets", "feeds",
    "finalizer", "snapshots", "runs", "jobs", "accounts", "goals", "loops">>

ShutdownOrder ==
  <<"logins", "pause", "executor", "loops", "ticks", "feeds", "research", "engine">>

(* What each provider is built from; "fast" are the limits of the paid tier. *)
Needs == [polygon |-> {"polygon_api_key"},
          fast    |-> {"polygon_api_key", "polygon_concurrency"},
          theta   |-> {"theta_data_username", "theta_data_password"},
          fmp     |-> {"fmp_api_key"}]

Readable(key) == key \in Keys /\ settings[key] = "good"
(* Mutant: one of the settings of a provider is enough. *)
EitherKey(providers) == {p \in providers : \E key \in Needs[p] : Readable(key)}
Configured(providers) == {p \in providers : \A key \in Needs[p] : Readable(key)}

Secret(key) == key # "polygon_concurrency"

Stored == /\ settings \in [Keys -> {"unset", "good", "bad"}]
          /\ \A key \in Keys : settings[key] = "bad" => Secret(key)

NoneOf(S, what) == [x \in S |-> what]

Init ==
  /\ mode = "down" /\ step = 0 /\ boots = 0 /\ schema = "old"
  /\ rows \in [Kinds -> {{}, {"old"}}]
  /\ work = NoneOf(Kinds, FALSE) /\ jobs = NoneOf(Jobs, "none") /\ loops = NoneOf(Loops, "none")
  /\ stop = FALSE /\ hasty = FALSE /\ up = {} /\ wired = {} /\ changed = FALSE
  /\ Stored

(***************************************************************************)
(* Starting.                                                               *)
(***************************************************************************)

Start ==
  /\ mode = "down" /\ boots < MaxBoots
  /\ mode' = "starting" /\ step' = 1 /\ boots' = boots + 1
  /\ jobs' = NoneOf(Jobs, "none") /\ loops' = NoneOf(Loops, "none")
  /\ stop' = FALSE /\ hasty' = FALSE /\ up' = {"engine"} /\ wired' = {} /\ changed' = FALSE
  /\ UNCHANGED <<schema, rows, work, settings>>

(* The next step of the startup is s, and after the last one requests are served. *)
Builds(s) ==
  /\ mode = "starting" /\ StartupOrder[step] = s
  /\ IF step = Len(StartupOrder) THEN mode' = "serving" /\ step' = 1
                                 ELSE mode' = mode /\ step' = step + 1
  /\ UNCHANGED <<boots, stop, hasty, settings, changed>>

(* A column that cannot be added is taken for one that is there. *)
Migrate ==
  /\ Builds("migrate")
  /\ schema' = "new" \/ (MayBeLocked /\ schema' = schema)
  /\ UNCHANGED <<rows, work, jobs, loops, up, wired>>

StartScheduler ==
  /\ Builds("scheduler") /\ up' = up \cup {"scheduler"}
  /\ UNCHANGED <<schema, rows, work, jobs, loops, wired>>

Registered(names) ==
  jobs' = [j \in Jobs |-> IF j \in names THEN "registered" ELSE jobs[j]]

RegisterScrapers ==
  /\ Builds("scrapers") /\ Registered({"scraper"}) /\ up' = up \cup {"logins"}
  /\ UNCHANGED <<schema, rows, work, loops, wired>>

WireProviders ==
  /\ Builds("providers") /\ wired' = wired \cup Configured({"polygon", "fast", "theta"})
  /\ UNCHANGED <<schema, rows, work, jobs, loops, up>>

(* Every such row is taken for an orphan of an earlier process: it is failed, *)
(* or (a dataset's) put back to queued, which nothing runs.                  *)
Closed(k) == rows' = [x \in Kinds |-> IF x = k THEN {} ELSE rows[x]]

RecoverDownloads ==
  /\ Builds("downloads") /\ Closed("download")
  /\ UNCHANGED <<schema, work, jobs, loops, up, wired>>

WireDatasets ==
  /\ Builds("datasets") /\ Closed("dataset") /\ wired' = wired \cup Configured({"fmp"})
  /\ UNCHANGED <<schema, work, jobs, loops, up>>

StartFeeds ==
  /\ Builds("feeds") /\ up' = up \cup {"feeds"}
  /\ UNCHANGED <<schema, rows, work, jobs, loops, wired>>

LoopsBegin(names) ==
  loops' = [l \in Loops |-> IF l \in names THEN "busy" ELSE loops[l]]

StartFinalizer ==
  /\ Builds("finalizer") /\ LoopsBegin({"finalizer"}) /\ up' = up \cup {"ticks"}
  /\ UNCHANGED <<schema, rows, work, jobs, wired>>

WireSnapshots ==
  /\ Builds("snapshots") /\ up' = up \cup {"snapshots"}
  /\ UNCHANGED <<schema, rows, work, jobs, loops, wired>>

RecoverRuns ==
  /\ Builds("runs") /\ Closed("run")
  /\ UNCHANGED <<schema, work, jobs, loops, up, wired>>

RecoverJobs ==
  /\ Builds("jobs") /\ Closed("job") /\ up' = up \cup {"research"}
  /\ UNCHANGED <<schema, work, jobs, loops, wired>>

RegisterAccounts ==
  /\ Builds("accounts") /\ Registered({"account"})
  /\ UNCHANGED <<schema, rows, work, loops, up, wired>>

RegisterGoals ==
  /\ Builds("goals") /\ Registered({"goal"})
  /\ UNCHANGED <<schema, rows, work, loops, up, wired>>

StartLoops ==
  /\ Builds("loops") /\ LoopsBegin({"health", "retention"})
  /\ UNCHANGED <<schema, rows, work, jobs, up, wired>>

Startup ==
  \/ Start \/ Migrate \/ StartScheduler \/ RegisterScrapers \/ WireProviders
  \/ RecoverDownloads \/ WireDatasets \/ StartFeeds \/ StartFinalizer \/ WireSnapshots
  \/ RecoverRuns \/ RecoverJobs \/ RegisterAccounts \/ RegisterGoals \/ StartLoops

(***************************************************************************)
(* The work.                                                               *)
(***************************************************************************)

Undertakes(k) ==
  /\ rows' = [rows EXCEPT ![k] = @ \cup {"own"}]
  /\ work' = [work EXCEPT ![k] = TRUE]

Request(k) ==
  /\ mode = "serving" /\ ~work[k] /\ Undertakes(k)
  /\ UNCHANGED <<mode, step, boots, schema, jobs, loops, stop, hasty, up, settings, wired,
                 changed>>

Finish(k) ==
  /\ work[k]
  /\ work' = [work EXCEPT ![k] = FALSE] /\ rows' = [rows EXCEPT ![k] = @ \ {"own"}]
  /\ UNCHANGED <<mode, step, boots, schema, jobs, loops, stop, hasty, up, settings, wired,
                 changed>>

(* The scheduler starts a job that does not run; the goals' job starts downloads. *)
Fire(j) ==
  /\ jobs[j] = "registered" /\ "scheduler" \in up
  /\ jobs' = [jobs EXCEPT ![j] = "running"]
  /\ UNCHANGED <<mode, step, boots, schema, rows, work, loops, stop, hasty, up, settings,
                 wired, changed>>

TopUp ==
  /\ "goal" \in Jobs /\ jobs["goal"] = "running"
  /\ "download" \in Kinds /\ ~work["download"] /\ Undertakes("download")
  /\ UNCHANGED <<mode, step, boots, schema, jobs, loops, stop, hasty, up, settings, wired,
                 changed>>

Return(j) ==
  /\ jobs[j] \in {"running", "unwinding"}
  /\ jobs' = [jobs EXCEPT ![j] = "registered"]
  /\ UNCHANGED <<mode, step, boots, schema, rows, work, loops, stop, hasty, up, settings,
                 wired, changed>>

(* A loop sleeps after each round until its interval is over or it is told to stop. *)
LoopStep(l) ==
  /\ \/ loops[l] = "busy" /\ loops' = [loops EXCEPT ![l] = "asleep"]
     \/ loops[l] = "asleep" /\ loops' = [loops EXCEPT ![l] = IF stop THEN "ended" ELSE "busy"]
  /\ UNCHANGED <<mode, step, boots, schema, rows, work, jobs, stop, hasty, up, settings,
                 wired, changed>>

Stores(values) ==
  /\ mode = "serving"
  /\ settings' = values /\ changed' = TRUE
  /\ UNCHANGED <<mode, step, boots, schema, rows, work, jobs, loops, stop, hasty, up, wired>>

(* The two of ThetaData are set, and deleted, together. *)
Together(key) ==
  IF key \in Needs["theta"] THEN Needs["theta"] \cap Keys ELSE {key}

PutSetting(key) ==
  Stores([k \in Keys |-> IF k \in Together(key) THEN "good" ELSE settings[k]])

DeleteSetting(key) ==
  Stores([k \in Keys |-> IF k \in Together(key) THEN "unset" ELSE settings[k]])

Working ==
  \/ \E k \in Kinds : Request(k) \/ Finish(k)
  \/ \E j \in Jobs : Fire(j) \/ Return(j)
  \/ TopUp
  \/ \E l \in Loops : LoopStep(l)
  \/ \E key \in Keys : PutSetting(key) \/ DeleteSetting(key)

(***************************************************************************)
(* Stopping.                                                               *)
(***************************************************************************)

Stop ==
  /\ mode = "serving" /\ mode' = "stopping" /\ step' = 1
  /\ UNCHANGED <<boots, schema, rows, work, jobs, loops, stop, hasty, up, settings, wired,
                 changed>>

Ends(s) ==
  /\ mode = "stopping" /\ ShutdownOrder[step] = s
  /\ UNCHANGED <<boots, schema, settings, wired, changed>>
Onward == mode' = mode /\ step' = step + 1

StopLogins ==
  /\ Ends("logins") /\ Onward /\ up' = up \ {"logins"}
  /\ UNCHANGED <<rows, work, jobs, loops, stop, hasty>>

PauseScheduler ==
  /\ Ends("pause") /\ Onward /\ stop' = TRUE /\ up' = up \ {"scheduler"}
  /\ UNCHANGED <<rows, work, jobs, loops, hasty>>

NoneRuns == \A j \in Jobs : jobs[j] # "running"

(* The jobs under way have 15 seconds, and are then cancelled. *)
StopExecutor ==
  /\ Ends("executor") /\ Onward
  /\ hasty' = ~NoneRuns
  /\ jobs' = [j \in Jobs |-> IF jobs[j] = "running" THEN "unwinding" ELSE jobs[j]]
  /\ UNCHANGED <<rows, work, loops, stop, up>>

(* Mutant: the shutdown goes on at once. *)
NotAwaited == TRUE
LoopsAreGathered == \A l \in Loops : loops[l] \in {"none", "ended"}

GatherLoops ==
  /\ Ends("loops") /\ Onward /\ LoopsAreGathered
  /\ UNCHANGED <<rows, work, jobs, loops, stop, hasty, up>>

StopTicks ==
  /\ Ends("ticks") /\ Onward /\ up' = up \ {"ticks"}
  /\ UNCHANGED <<rows, work, jobs, loops, stop, hasty>>

StopFeeds ==
  /\ Ends("feeds") /\ Onward /\ up' = up \ {"feeds"}
  /\ UNCHANGED <<rows, work, jobs, loops, stop, hasty>>

(* The tasks of the research jobs are cancelled and awaited; their rows may stay. *)
StopResearch ==
  /\ Ends("research") /\ Onward /\ up' = up \ {"research"}
  /\ work' = [k \in Kinds |-> work[k] /\ k # "job"]
  /\ UNCHANGED <<rows, jobs, loops, stop, hasty>>

Gone ==
  /\ mode' = "down" /\ step' = 0 /\ up' = {} /\ stop' = FALSE /\ hasty' = FALSE
  /\ rows' = [k \in Kinds |-> IF rows[k] = {} THEN {} ELSE {"old"}]
  /\ work' = NoneOf(Kinds, FALSE) /\ jobs' = NoneOf(Jobs, "none")
  /\ loops' = NoneOf(Loops, "none")

(* What still runs when the engine is disposed of ends with the process. *)
DisposeEngine == Ends("engine") /\ Gone

Kill == mode # "down" /\ Gone /\ UNCHANGED <<boots, schema, settings, wired, changed>>

Shutdown ==
  \/ Stop \/ StopLogins \/ PauseScheduler \/ StopExecutor \/ GatherLoops
  \/ StopTicks \/ StopFeeds \/ StopResearch \/ DisposeEngine \/ Kill

Next == Startup \/ Working \/ Shutdown

-----------------------------------------------------------------------------

TypeOK ==
  /\ mode \in {"down", "starting", "serving", "stopping"}
  /\ step \in 0..Len(StartupOrder) /\ boots \in 0..MaxBoots /\ schema \in {"old", "new"}
  /\ rows \in [Kinds -> SUBSET {"old", "own"}] /\ work \in [Kinds -> BOOLEAN]
  /\ jobs \in [Jobs -> {"none", "registered", "running", "unwinding"}]
  /\ loops \in [Loops -> {"none", "busy", "asleep", "ended"}]
  /\ stop \in BOOLEAN /\ hasty \in BOOLEAN /\ changed \in BOOLEAN
  /\ up \subseteq {"engine", "scheduler", "logins", "feeds", "ticks", "snapshots", "research"}
  /\ settings \in [Keys -> {"unset", "good", "bad"}] /\ wired \subseteq DOMAIN Needs

(* No recovery takes the work of its own process for an orphan: the row of a  *)
(* task that works says so ("no tasks have been registered yet",        *)
(* backtest_runner.py:187).                                                   *)
LiveHasRow == \A k \in Kinds : work[k] => "own" \in rows[k]

(* Once requests are served, no row is left to a process that is gone.        *)
OrphansGone == mode = "serving" => \A k \in Kinds : "old" \notin rows[k]

(* When the engine is disposed of, no loop and no research job runs, and a    *)
(* scheduled job only if it did not end in the time it was given.             *)
SessionsReturned ==
  (mode = "stopping" /\ ShutdownOrder[step] = "engine") =>
    /\ LoopsAreGathered
    /\ "job" \in Kinds => ~work["job"]
    /\ \A j \in Jobs : jobs[j] \in {"none", "registered"} \/ (hasty /\ jobs[j] = "unwinding")

(* A process that serves and whose settings nobody changed has the providers  *)
(* that are configured.                                                       *)
SettingsApply == (mode = "serving" /\ ~changed) => wired = Configured(DOMAIN Needs)

(* Not so: a change takes effect at the next start only; downloads, backtests *)
(* and dataset jobs still work when the engine is disposed of; a table may    *)
(* lack a column when requests are served.                                    *)
SettingsTakeEffect == mode = "serving" => wired = Configured(DOMAIN Needs)
WorkEndsFirst ==
  (mode = "stopping" /\ ShutdownOrder[step] = "engine") => \A k \in Kinds : ~work[k]
SchemaIsWhole == mode = "serving" => schema = "new"

=============================================================================
