---------------------------- MODULE BacktestRuns ----------------------------
(***************************************************************************)
(* One backtest run of backtest_runner.py: its row, the task that carries  *)
(* it through its stages, the engine in an executor thread, and the thread *)
(* of backtest_writer.py that takes the engine's chunks from a bounded     *)
(* queue.  A route may delete the run at any await; the coordinator may    *)
(* die and start again.  What the engine computes is BacktestEngine.       *)
(***************************************************************************)
EXTENDS Naturals, Sequences

CONSTANTS
  QueueSize,   \* 8 in the code
  MaxChunks,   \* bound: chunks the engine produces
  Deps,        \* bound: downloads the run waits for
  WriterFails  \* whether a write may raise

ConstantsAssumption ==
  {QueueSize, MaxChunks, Deps} \subseteq Nat /\ QueueSize > 0 /\ WriterFails \in BOOLEAN

VARIABLES deleting, up, row, progress, task, deps, engine, buffered, produced, queue,
          writer, error, written, files, report, algorithm
vars == <<deleting, up, row, progress, task, deps, engine, buffered, produced, queue,
          writer, error, written, files, report, algorithm>>
threads == <<engine, buffered, produced, queue, writer, error, written>>

Live     == {"queued", "downloading_data", "running"}
Statuses == Live \cup {"none", "completed", "failed", "deleted"}
Steps == {"none", "begin", "deps", "wait", "start", "prepare", "engine", "put", "join", "check",
          "benchmark", "finalize", "complete", "fail"}

TypeOK ==
  /\ {up, deleting} \subseteq BOOLEAN /\ algorithm \in BOOLEAN /\ error \in BOOLEAN
  /\ row \in Statuses /\ progress \in {"none", "some", "all"} /\ task \in Steps
  /\ deps \in 0..Deps /\ {produced, written} \subseteq 0..MaxChunks
  /\ engine \in {"none", "run", "miss", "complete", "raise", "done", "raised"} /\ buffered \in BOOLEAN
  /\ queue \in Seq({"chunk", "end"}) /\ Len(queue) <= QueueSize
  /\ writer \in {"none", "wait", "drain", "ended"}
  /\ files \in {"none", "open", "closed"} /\ report \in {"none", "part", "whole"}

Init ==
  /\ up = TRUE /\ deleting = FALSE /\ row = "none" /\ progress = "none" /\ task = "none" /\ deps = 0
  /\ engine = "none" /\ buffered = FALSE /\ produced = 0 /\ queue = <<>>
  /\ writer = "none" /\ error = FALSE /\ written = 0 /\ files = "none" /\ report = "none"
  /\ algorithm = TRUE

Exists == row \notin {"none", "deleted"}

(* put(None) and join() block the event loop: no other coroutine runs. *)
LoopFree == up /\ task \notin {"put", "join"}

-----------------------------------------------------------------------------
(* The routes: the row is committed before the runner is dispatched. *)
CreateRun ==
  /\ LoopFree /\ row = "none" /\ algorithm
  /\ row' = "queued" /\ task' = "begin"
  /\ UNCHANGED <<deleting, up, progress, deps, threads, files, report, algorithm>>

(* The directory goes first, the row when the request's session commits. *)
DeleteRun ==
  /\ LoopFree /\ Exists /\ ~deleting /\ deleting' = TRUE /\ files' = "none"
  /\ UNCHANGED <<up, row, progress, task, deps, threads, report, algorithm>>
DeleteCommits ==
  /\ LoopFree /\ deleting /\ deleting' = FALSE /\ row' = "deleted"
  /\ UNCHANGED <<up, progress, task, deps, threads, files, report, algorithm>>

DeleteAlgorithm ==
  /\ LoopFree /\ algorithm /\ algorithm' = FALSE
  /\ UNCHANGED <<deleting, up, row, progress, task, deps, threads, files, report>>

-----------------------------------------------------------------------------
(* The task.  Begin is outside the try block; every later step goes to      *)
(* "fail" when it raises, as it does when the row is gone.                  *)
Begin ==
  /\ up /\ task = "begin"
  /\ IF Exists /\ algorithm THEN row' = "downloading_data" /\ task' = "deps"
                            ELSE task' = "none" /\ UNCHANGED row
  /\ UNCHANGED <<deleting, up, progress, deps, threads, files, report, algorithm>>

Goto(s) == task' = s
Raises == Goto("fail")

(* Stage 1: coverage of the next dependency, and its download. *)
EnsureCoverage ==
  /\ up /\ task = "deps"
  /\ \/ deps < Deps /\ Exists /\ deps' = deps + 1 /\ Goto("wait")
     \/ UNCHANGED deps /\ Goto("start")
     \/ UNCHANGED deps /\ Raises              \* manifest, custom data, the row, the provider
  /\ UNCHANGED <<deleting, up, row, progress, threads, files, report, algorithm>>

WaitForDownload ==
  /\ up /\ task = "wait" /\ (Goto("deps") \/ Raises)
  /\ UNCHANGED <<deleting, up, row, progress, deps, threads, files, report, algorithm>>

(* Stage 2: running, then bars, context, algorithm and threads. *)
StartRunning ==
  /\ up /\ task = "start"
  /\ IF Exists THEN row' = "running" /\ Goto("prepare") ELSE UNCHANGED row /\ Raises
  /\ UNCHANGED <<deleting, up, progress, deps, threads, files, report, algorithm>>

Prepare ==
  /\ up /\ task = "prepare"
  /\ \/ Raises /\ UNCHANGED <<threads, files>>
     \/ /\ Goto("engine") /\ engine' = "run" /\ writer' = "wait" /\ files' = "open"
        /\ queue' = <<>> /\ UNCHANGED <<buffered, produced, error, written>>
  /\ UNCHANGED <<deleting, up, row, progress, deps, report, algorithm>>

ProgressPump ==
  /\ up /\ task = "engine" /\ Exists /\ progress' = "some"
  /\ UNCHANGED <<deleting, up, row, task, deps, threads, files, report, algorithm>>

(* The engine has returned: the sentinel is put, blocking, then the writer  *)
(* is joined for 30 s; the engine's exception, a writer that is still alive *)
(* and the writer's error each fail the run.                                *)
EngineReturned ==
  /\ up /\ task = "engine" /\ engine \in {"done", "raised"} /\ Goto("put")
  /\ UNCHANGED <<deleting, up, row, progress, deps, threads, files, report, algorithm>>

PutEnd ==
  /\ up /\ task = "put" /\ Len(queue) < QueueSize
  /\ queue' = Append(queue, "end") /\ Goto("join")
  /\ UNCHANGED <<deleting, up, row, progress, deps, engine, buffered, produced, writer, error, written, files, report, algorithm>>

Join ==   \* the writer has ended, or 30 s are over
  /\ up /\ task = "join" /\ Goto("check")
  /\ UNCHANGED <<deleting, up, row, progress, deps, threads, files, report, algorithm>>

(* Mutant: the writer's error is not looked at. *)
NotRaised  == engine = "done" /\ writer = "ended"
WriterFine == engine = "done" /\ writer = "ended" /\ ~error
CheckWriter ==
  /\ up /\ task = "check"
  /\ IF WriterFine THEN Goto("benchmark") ELSE Raises
  /\ UNCHANGED <<deleting, up, row, progress, deps, threads, files, report, algorithm>>

Benchmark ==   \* its download may fail the run
  /\ up /\ task = "benchmark" /\ ((Exists /\ Goto("finalize")) \/ Raises)
  /\ UNCHANGED <<deleting, up, row, progress, deps, threads, files, report, algorithm>>

Whole == written = produced /\ files = "closed"
FinalizeRun ==
  /\ up /\ task = "finalize"
  /\ \/ files # "none" /\ Exists /\ Goto("complete") /\ report' = IF Whole THEN "whole" ELSE "part"
     \/ files = "none" /\ Goto("complete") /\ UNCHANGED report
     \/ Raises /\ UNCHANGED report
  /\ UNCHANGED <<deleting, up, row, progress, deps, threads, files, algorithm>>

Complete ==
  /\ up /\ task = "complete"
  /\ IF Exists THEN row' = "completed" /\ progress' = "all" /\ Goto("none")
               ELSE Raises /\ UNCHANGED <<row, progress>>
  /\ UNCHANGED <<deleting, up, deps, threads, files, report, algorithm>>

Fail ==
  /\ up /\ task = "fail" /\ Goto("none")
  /\ row' = IF Exists THEN "failed" ELSE row
  /\ UNCHANGED <<deleting, up, progress, deps, threads, files, report, algorithm>>

-----------------------------------------------------------------------------
(* The engine's thread: equity points and fills gather in the observer's    *)
(* buffer; a day's rollover, the end and an error flush it.  A bar that is  *)
(* missing is downloaded by the event loop, for 120 s at most.              *)
OnEquityPoint ==
  /\ up /\ engine = "run" /\ ~buffered /\ produced < MaxChunks /\ buffered' = TRUE
  /\ UNCHANGED <<deleting, up, row, progress, task, deps, engine, produced, queue, writer, error, written, files, report, algorithm>>

FlushChunk ==
  /\ up /\ engine \in {"run", "complete", "raise"} /\ buffered /\ Len(queue) < QueueSize
  /\ buffered' = FALSE /\ produced' = produced + 1 /\ queue' = Append(queue, "chunk")
  /\ UNCHANGED <<deleting, up, row, progress, task, deps, engine, writer, error, written, files, report, algorithm>>

OnMiss ==
  /\ up /\ engine \in {"run", "miss"} /\ engine' = IF engine = "run" THEN "miss" ELSE "run"
  /\ UNCHANGED <<deleting, up, row, progress, task, deps, buffered, produced, queue, writer, error, written, files, report, algorithm>>

EngineEnds ==
  /\ up /\ engine = "run" /\ engine' \in {"complete", "raise"}
  /\ UNCHANGED <<deleting, up, row, progress, task, deps, buffered, produced, queue, writer, error, written, files, report, algorithm>>

EngineReturns ==
  /\ up /\ engine \in {"complete", "raise"} /\ ~buffered
  /\ engine' = IF engine = "complete" THEN "done" ELSE "raised"
  /\ UNCHANGED <<deleting, up, row, progress, task, deps, buffered, produced, queue, writer, error, written, files, report, algorithm>>

-----------------------------------------------------------------------------
(* The writer's thread: it writes until the sentinel; an error makes it     *)
(* drain what is queued, once, and end.  Both ways close the files.         *)
CloseFiles == writer' = "ended" /\ files' = IF files = "open" THEN "closed" ELSE files

TakeChunk ==
  /\ up /\ writer = "wait" /\ queue # <<>> /\ queue' = Tail(queue)
  /\ \/ Head(queue) = "end" /\ CloseFiles /\ UNCHANGED <<error, written>>
     \/ Head(queue) = "chunk" /\ written' = written + 1 /\ UNCHANGED <<writer, error, files>>
     \/ /\ Head(queue) = "chunk" /\ WriterFails
        /\ error' = TRUE /\ writer' = "drain" /\ UNCHANGED <<written, files>>
  /\ UNCHANGED <<deleting, up, row, progress, task, deps, engine, buffered, produced, report, algorithm>>

Drain ==
  /\ up /\ writer = "drain"
  /\ IF queue = <<>> THEN CloseFiles /\ UNCHANGED queue
     ELSE /\ queue' = Tail(queue)
          /\ IF Head(queue) = "end" THEN CloseFiles ELSE UNCHANGED <<writer, files>>
  /\ UNCHANGED <<deleting, up, row, progress, task, deps, engine, buffered, produced, error, written, report, algorithm>>

-----------------------------------------------------------------------------
Crash ==
  /\ up /\ up' = FALSE /\ deleting' = FALSE /\ task' = "none" /\ engine' = "none" /\ writer' = "none"
  /\ buffered' = FALSE /\ produced' = 0 /\ queue' = <<>> /\ error' = FALSE /\ written' = 0 /\ deps' = 0
  /\ UNCHANGED <<row, progress, files, report, algorithm>>

(* Mutant: a run that was downloading is left to go on. *)
OrphanedUnlessDownloading == Live \ {"downloading_data"}
Orphaned == Live
RecoverOrphanedRuns ==
  /\ ~up /\ up' = TRUE
  /\ row' = IF row \in Orphaned THEN "failed" ELSE row
  /\ UNCHANGED <<deleting, progress, task, deps, threads, files, report, algorithm>>

Next ==
  \/ CreateRun \/ DeleteRun \/ DeleteCommits \/ DeleteAlgorithm
  \/ Begin \/ EnsureCoverage \/ WaitForDownload \/ StartRunning \/ Prepare \/ ProgressPump
  \/ EngineReturned \/ PutEnd \/ Join \/ CheckWriter \/ Benchmark \/ FinalizeRun \/ Complete \/ Fail
  \/ OnEquityPoint \/ FlushChunk \/ OnMiss \/ EngineEnds \/ EngineReturns
  \/ TakeChunk \/ Drain \/ Crash \/ RecoverOrphanedRuns
Spec == Init /\ [][Next]_vars

-----------------------------------------------------------------------------
(* A run that is shown as completed reports everything the engine produced: *)
(* no chunk was lost to the writer's error, its drain or the join's limit.  *)
CompletedIsWhole == row = "completed" /\ files # "none" => report = "whole"

(* A live row has a task that will end it, or a start of the coordinator    *)
(* ahead; the runner's first read is outside its try block, so a run whose  *)
(* algorithm was deleted before it stays queued.                                      *)
LiveHasTask == up /\ row \in Live => task # "none" \/ (row = "queued" /\ ~algorithm)

(* backtest_writer.py:183, "Drain remaining items so the producer doesn't   *)
(* block forever": whoever finds the queue full has a writer that takes     *)
(* from it.                                                                 *)
BlockedHasWriter ==
  Len(queue) = QueueSize /\ (buffered \/ task = "put") => writer # "ended"
=============================================================================
