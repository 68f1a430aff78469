------------------------------- MODULE Trials -------------------------------
(***************************************************************************)
(* What a research job runs: a sweep, a TPE sweep, a walk-forward, a CPCV  *)
(* over fixed parameters or one that selects them per split.  A job is a   *)
(* row of rounds.  A round is spread over tasks behind a semaphore, or is  *)
(* one backtest awaited by the job itself; a CPCV split is a task with two *)
(* backtests, of training and of test.  An error or a cancellation ends    *)
(* the job and not the tasks it has created: those go on by themselves.    *)
(***************************************************************************)
EXTENDS Integers, Sequences, FiniteSets

CONSTANTS
  Trials,       \* tasks of a round
  Folds,        \* of a walk-forward, and the trials of a TPE sweep
  Parallelism,
  Metrics       \* values of the objective

ConstantsAssumption == {Trials, Folds, Parallelism} \subseteq Nat \ {0} /\ Metrics \subseteq Int

VARIABLES
  kind,
  job,        \* [pc, round]
  task,       \* of the round: none, waiting, running, ended, raised or taken
  queue,      \* the tasks that are over, as as_completed gives them
  run,        \* [round, trial, leg] -> the BacktestRun: its status and its metric
  runIds,     \* the runs the round has collected
  progress,   \* the row's progress: [done, ids]
  chosen      \* the trial that won a round

vars == <<kind, job, task, queue, run, runIds, progress, chosen>>

Kinds  == {"sweep", "tpe", "walk", "fixed", "select"}
Tasks  == 1..Trials
Rounds == 1..2 * Folds
Cells  == [round : Rounds, trial : Tasks, leg : 1..2]
Cell(t, l) == [round |-> job.round, trial |-> t, leg |-> l]
NoRun   == [status |-> "absent", metric |-> 0]
NoTasks == [t \in Tasks |-> "none"]

(* A walk-forward trains in one round and tests alone in the next. *)
Alone(r) == kind = "tpe" \/ (kind = "walk" /\ r % 2 = 0)
LastRound == CASE kind = "tpe" -> Folds [] kind = "walk" -> 2 * Folds [] OTHER -> 1
Legs    == IF kind = "select" THEN 2 ELSE 1
Working == job.pc \in {"next", "spread", "alone"}

Init ==
  /\ kind \in Kinds /\ job = [pc |-> "next", round |-> 1]
  /\ task = NoTasks /\ queue = <<>> /\ run = [c \in Cells |-> NoRun]
  /\ runIds = <<>> /\ progress = [done |-> 0, ids |-> {}] /\ chosen = [r \in Rounds |-> 0]

-----------------------------------------------------------------------------
(* The tasks. *)

Spread ==
  /\ job.pc = "next" /\ ~Alone(job.round)
  /\ job' = [job EXCEPT !.pc = "spread"] /\ task' = [t \in Tasks |-> "waiting"]
  /\ runIds' = <<>>
  /\ UNCHANGED <<kind, queue, run, progress, chosen>>

(* _run_one_backtest: the row is committed and the runner is called. *)
Launch(c) == run' = [run EXCEPT ![c].status = "running"]

(* Mutant: the tasks do not wait for each other. *)
AnyNumber == TRUE
Admits    == Cardinality({t \in Tasks : task[t] = "running"}) < Parallelism

(* The commit may fail. *)
TaskStarts(t) ==
  /\ task[t] = "waiting" /\ Admits
  /\ \/ task' = [task EXCEPT ![t] = "running"] /\ Launch(Cell(t, 1)) /\ UNCHANGED queue
     \/ task' = [task EXCEPT ![t] = "raised"] /\ queue' = Append(queue, t) /\ UNCHANGED run
  /\ UNCHANGED <<kind, job, runIds, progress, chosen>>

(* The runner records success or failure; it does not raise. *)
Ends(c) ==
  \/ \E m \in Metrics : run' = [run EXCEPT ![c] = [status |-> "completed", metric |-> m]]
  \/ run' = [run EXCEPT ![c].status = "failed"]

(* The refresh of the row raises once the job's session is closed.  A split *)
(* goes on with its test groups; the mutant does not.                       *)
OnlyTrains(t) == FALSE
GoesOn(t) == Legs = 2 /\ run[Cell(t, 2)].status = "absent" /\ Working

BacktestEnds(t) ==
  /\ task[t] = "running"
  /\ \E l \in 1..2 : run[Cell(t, l)].status = "running" /\ Ends(Cell(t, l))
  /\ IF GoesOn(t) THEN UNCHANGED <<task, queue>>
     ELSE /\ task' = [task EXCEPT ![t] = IF Working THEN "ended" ELSE "raised"]
          /\ queue' = Append(queue, t)
  /\ UNCHANGED <<kind, job, runIds, progress, chosen>>

TestGroups(t) ==
  /\ task[t] = "running" /\ \A l \in 1..2 : run[Cell(t, l)].status # "running"
  /\ \/ Launch(Cell(t, 2)) /\ UNCHANGED <<task, queue>>
     \/ task' = [task EXCEPT ![t] = "raised"] /\ queue' = Append(queue, t) /\ UNCHANGED run
  /\ UNCHANGED <<kind, job, runIds, progress, chosen>>

-----------------------------------------------------------------------------
(* The job. *)

(* The manager's callback is a coroutine.  CPCV does not await it, and a    *)
(* walk-forward does not pass it to its sweeps.                             *)
Progressed(done, ids) == [done |-> done, ids |-> ids]

(* Mutant: it tells of the tasks that were created. *)
AllCreated(ids) == {Cell(t, 1) : t \in Tasks}
Told(ids)       == {ids[i] : i \in DOMAIN ids}

Take ==
  /\ job.pc = "spread" /\ queue # <<>>
  /\ queue' = Tail(queue)
  /\ IF task[Head(queue)] = "raised"
     THEN job' = [job EXCEPT !.pc = "failed"] /\ UNCHANGED <<task, runIds, progress>>
     ELSE /\ task' = [task EXCEPT ![Head(queue)] = "taken"]
          /\ runIds' = runIds \o [l \in 1..Legs |-> Cell(Head(queue), l)]
          /\ progress' = IF kind = "sweep" THEN Progressed(Len(runIds'), Told(runIds')) ELSE progress
          /\ UNCHANGED job
  /\ UNCHANGED <<kind, run, chosen>>

(* _select_winner takes the first of the best, in the order of their ends,  *)
(* of the runs with a value; _pick_best_train_config takes one of the best  *)
(* in the database's order, and a run without a value counts as 0.          *)
Value(i)    == IF run[runIds[i]].status = "completed" THEN run[runIds[i]].metric ELSE 0
Candidates  == {i \in DOMAIN runIds : kind = "walk" \/ run[runIds[i]].status = "completed"}

(* Mutant: a trial that failed is a candidate of every sweep. *)
AnyEnded == DOMAIN runIds
Judged   == Candidates
Best     == {i \in Judged : \A j \in Judged : Value(i) >= Value(j)}
Winners  == {i \in Best : kind = "walk" \/ \A j \in Best : i <= j}

(* Mutant: the round is over when the first task is. *)
AnyTaken == \E t \in Tasks : task[t] = "taken"
AllTaken == \A t \in Tasks : task[t] = "taken"

NextRound == IF job.round = LastRound THEN [job EXCEPT !.pc = "completed"]
             ELSE [pc |-> "next", round |-> job.round + 1]

(* A CPCV refuses to sum up over a segment without an equity curve; the     *)
(* mutant leaves it out.                                                    *)
Segments == {Cell(t, Legs) : t \in Tasks}
LeftOut  == FALSE
Refused  == kind \in {"fixed", "select"} /\ \E c \in Segments : run[c].status # "completed"

RoundEnds ==
  /\ job.pc = "spread" /\ AllTaken
  /\ job' = IF Refused THEN [job EXCEPT !.pc = "failed"] ELSE NextRound
  /\ task' = NoTasks /\ queue' = <<>>
  /\ IF Winners = {} \/ kind \in {"fixed", "select"} THEN UNCHANGED chosen
     ELSE \E i \in Winners : chosen' = [chosen EXCEPT ![job.round] = runIds[i].trial]
  /\ UNCHANGED <<kind, run, runIds, progress>>

AloneStarts ==
  /\ job.pc = "next" /\ Alone(job.round)
  /\ job' = [job EXCEPT !.pc = "alone"]
  /\ Launch(Cell(1, 1))
  /\ UNCHANGED <<kind, task, queue, runIds, progress, chosen>>

AloneEnds ==
  /\ job.pc = "alone" /\ Ends(Cell(1, 1))
  /\ job' = NextRound
  /\ progress' = Progressed(job.round, {c \in Cells : Alone(c.round) /\ run[c].status # "absent"})
  /\ UNCHANGED <<kind, task, queue, runIds, chosen>>

(* cancel_job: CancelledError where the job waits.  The tasks are not told;  *)
(* a backtest that the job awaits itself is torn down with its row as it is. *)
Cancel ==
  /\ Working
  /\ job' = [job EXCEPT !.pc = "cancelled"]
  /\ run' = [c \in Cells |-> IF job.pc = "alone" /\ run[c].status = "running"
                             THEN [run[c] EXCEPT !.status = "torn"] ELSE run[c]]
  /\ UNCHANGED <<kind, task, queue, runIds, progress, chosen>>

Next ==
  \/ Spread \/ Take \/ RoundEnds \/ AloneStarts \/ AloneEnds \/ Cancel
  \/ \E t \in Tasks : TaskStarts(t) \/ BacktestEnds(t) \/ TestGroups(t)

Spec == Init /\ [][Next]_vars

-----------------------------------------------------------------------------
Over(c) == run[c].status \in {"completed", "failed"}

TypeOK ==
  /\ kind \in Kinds /\ job.round \in Rounds
  /\ job.pc \in {"next", "spread", "alone", "completed", "failed", "cancelled"}
  /\ \A t \in Tasks : task[t] \in {"none", "waiting", "running", "ended", "raised", "taken"}
  /\ \A c \in Cells : run[c].status \in {"absent", "running", "completed", "failed", "torn"}
  /\ progress.ids \subseteq Cells /\ chosen \in [Rounds -> 0..Trials]

(* A job that is completed ran all of its backtests to their ends, a CPCV's *)
(* tests with success, and no round begins before those before it are over. *)
CompletedIsWhole ==
  \A c \in Cells :
    /\ (c.round < job.round \/ job.pc = "completed") /\ c.round <= LastRound
       /\ c.leg <= Legs /\ (Alone(c.round) => c.trial = 1) => Over(c)
    /\ c.round > job.round => run[c].status = "absent"
    /\ job.pc = "completed" /\ kind \in {"fixed", "select"} /\ c \in Segments => run[c].status = "completed"

(* Not more backtests run at once than the job may have. *)
AtMostParallel == Cardinality({c \in Cells : run[c].status = "running"}) <= Parallelism

(* The progress tells of backtests that are over, each of them once. *)
ProgressIsTrue ==
  /\ \A c \in progress.ids : Over(c)
  /\ progress.done = (IF kind = "walk" THEN 2 ELSE 1) * Cardinality(progress.ids)

(* The winner of a sweep completed and none that completed is better; none  *)
(* is better than that of a walk-forward's training.                        *)
WinnerIsBest ==
  \A r \in Rounds : chosen[r] # 0 =>
    LET w == [round |-> r, trial |-> chosen[r], leg |-> 1] IN
    /\ kind = "sweep" => run[w].status = "completed"
    /\ \A t \in Tasks : run[[w EXCEPT !.trial = t]].status = "completed" =>
         run[[w EXCEPT !.trial = t]].metric <= IF run[w].status = "completed" THEN run[w].metric ELSE 0

(* Not so: a trial that failed wins the training of a walk-forward when all *)
(* others lost.                                                             *)
WinnerCompleted ==
  \A r \in Rounds : chosen[r] # 0 => run[[round |-> r, trial |-> chosen[r], leg |-> 1]].status = "completed"

(* Not so: the tasks of a job that was cancelled or failed go on. *)
StoppedIsQuiet == ~Working => \A c \in Cells : run[c].status # "running"
=============================================================================
