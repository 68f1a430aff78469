----------------------------- MODULE LiveSamples -----------------------------
(***************************************************************************)
(* Equity samples of a deployment, from the worker's message to the report *)
(* of the finalizer: the sink's buffers and its lock, the file of each     *)
(* run, which is rewritten as a whole in a thread, and the tick of the     *)
(* finalizer.  Trades take the same way to a file of their own.            *)
(***************************************************************************)
EXTENDS Integers, Sequences, SequencesExt

CONSTANTS
  Runs,         \* runs of the deployment are 1..Runs
  MaxSamples,
  BufferSize,   \* buffer_size
  MaxCrashes    \* a bound

ConstantsAssumption == {Runs, BufferSize} \subseteq Nat \ {0} /\ {MaxSamples, MaxCrashes} \subseteq Nat

VARIABLES
  running,      \* is the deployment's status "running"?
  run,          \* its newest run
  ended,        \* runs that have a stopped_at
  samples,      \* samples so far: the run of each
  malformed,    \* those that have no portfolio_value
  buffer,       \* _equity_buf of each run
  file,         \* [state, rows] of each run: "none", "whole" or "torn"
  writer,       \* [pc, run, rows, existing] of the flush of each owner
  finalizer,    \* [pc, due]
  report,       \* rows of the report: samples, and 0 for a gap
  missed,       \* history: samples that the last report should have had
  lost,         \* history: samples that a crash or a flush that raised has lost
  crashes

fileVars == <<file, writer>>
vars == <<running, run, ended, samples, malformed, buffer, fileVars, finalizer, report,
          missed, lost, crashes>>

Owners   == {"handler", "finalizer"}
NoWriter == [pc |-> "none", run |-> 1, rows |-> <<>>, existing |-> <<>>]
Idle     == [pc |-> "idle", due |-> {}]

Init ==
  /\ running = TRUE /\ run = 1 /\ ended = {} /\ samples = <<>> /\ malformed = {}
  /\ buffer = [r \in 1..Runs |-> <<>>] /\ file = [r \in 1..Runs |-> [state |-> "none", rows |-> <<>>]]
  /\ writer = [o \in Owners |-> NoWriter] /\ finalizer = Idle
  /\ report = <<>> /\ missed = {} /\ lost = {} /\ crashes = 0

deploymentVars == <<running, run, ended>>
historyVars    == <<missed, crashes>>

-----------------------------------------------------------------------------
(* The deployment *)

Stop ==
  /\ running /\ running' = FALSE /\ ended' = ended \cup {run}
  /\ UNCHANGED <<run, samples, malformed, buffer, fileVars, finalizer, report, lost, historyVars>>

Start ==
  /\ ~running /\ run < Runs /\ running' = TRUE /\ run' = run + 1
  /\ UNCHANGED <<ended, samples, malformed, buffer, fileVars, finalizer, report, lost, historyVars>>

-----------------------------------------------------------------------------
(* The sink.  The finalizer holds the lock while it flushes, the handler    *)
(* from a full buffer to the end of the write.                              *)

Flushing(o) == IF o = "handler" THEN writer[o].pc # "none" ELSE finalizer.pc \in {"flush", "again"}

(* Mutant: the sink has no lock. *)
NoLock(o)   == TRUE
LockFree(o) == \A p \in Owners \ {o} : ~Flushing(p)

Raises(o) == IF o = "handler" THEN UNCHANGED finalizer ELSE finalizer' = Idle

(* A buffer is taken before its rows are converted. *)
Take(o, r, rows) ==
  /\ buffer' = [buffer EXCEPT ![r] = <<>>]
  /\ IF ToSet(rows) \cap malformed' = {}
     THEN /\ writer' = [writer EXCEPT ![o] = [NoWriter EXCEPT !.pc = "read", !.run = r, !.rows = rows]]
          /\ UNCHANGED <<finalizer, lost>>
     ELSE lost' = lost \cup ToSet(rows) /\ UNCHANGED writer /\ Raises(o)

AddSample ==
  /\ ~Flushing("handler") /\ LockFree("handler") /\ Len(samples) < MaxSamples
  /\ samples' = Append(samples, run)
  /\ \/ malformed' = malformed \cup {Len(samples')}
     \/ UNCHANGED malformed
  /\ LET rows == Append(buffer[run], Len(samples')) IN
     IF Len(rows) >= BufferSize THEN Take("handler", run, rows)
     ELSE buffer' = [buffer EXCEPT ![run] = rows] /\ UNCHANGED <<writer, finalizer, lost>>
  /\ UNCHANGED <<deploymentVars, file, report, historyVars>>

Flush(r) ==
  /\ Flushing("finalizer") /\ writer["finalizer"].pc = "none" /\ buffer[r] # <<>>
  /\ UNCHANGED malformed /\ Take("finalizer", r, buffer[r])
  /\ UNCHANGED <<deploymentVars, samples, file, report, historyVars>>

(* _append_parquet: what is there is read, and the whole is written. *)
ReadExisting(o) ==
  /\ writer[o].pc = "read"
  /\ LET r == writer[o].run IN
     IF file[r].state = "torn"
     THEN /\ writer' = [writer EXCEPT ![o] = NoWriter] /\ lost' = lost \cup ToSet(writer[o].rows)
          /\ Raises(o) /\ UNCHANGED file
     ELSE /\ writer' = [writer EXCEPT ![o].pc = "write", ![o].existing = file[r].rows]
          /\ file' = [file EXCEPT ![r].state = "torn"]
          /\ UNCHANGED <<finalizer, lost>>
  /\ UNCHANGED <<deploymentVars, samples, malformed, buffer, report, historyVars>>

WriteTable(o) ==
  /\ writer[o].pc = "write"
  /\ file' = [file EXCEPT ![writer[o].run] = [state |-> "whole", rows |-> writer[o].existing \o writer[o].rows]]
  /\ writer' = [writer EXCEPT ![o] = NoWriter]
  /\ UNCHANGED <<deploymentVars, samples, malformed, buffer, finalizer, report, lost, historyVars>>

-----------------------------------------------------------------------------
(* LiveFinalizer._tick: the running deployments, a flush, and for each a    *)
(* second flush and its report.                                             *)

Finalizes(f) == finalizer' = f
RestOf == <<deploymentVars, samples, malformed, buffer, fileVars, lost>>

Tick ==
  /\ finalizer.pc = "idle" /\ LockFree("finalizer")
  /\ Finalizes([pc |-> "flush", due |-> IF running THEN {1} ELSE {}])
  /\ UNCHANGED <<RestOf, report, historyVars>>

Flushed(pc) == finalizer.pc = pc /\ writer["finalizer"].pc = "none" /\ \A r \in 1..Runs : buffer[r] = <<>>

TickFlushed ==
  /\ Flushed("flush")
  /\ Finalizes(IF finalizer.due = {} THEN Idle ELSE [pc |-> "one", due |-> {}])
  /\ UNCHANGED <<RestOf, report, historyVars>>

(* Mutant: finalize_one relies on the flush of the tick. *)
GoesOn     == "read"
FlushesToo == "again"

FinalizeOne ==
  /\ finalizer.pc = "one" /\ LockFree("finalizer")
  /\ Finalizes([pc |-> FlushesToo, due |-> DOMAIN samples])
  /\ UNCHANGED <<RestOf, report, historyVars>>

OneFlushed ==
  /\ Flushed("again") /\ Finalizes([finalizer EXCEPT !.pc = "read"])
  /\ UNCHANGED <<RestOf, report, historyVars>>

HasFile == SelectSeq([r \in 1..run |-> r], LAMBDA r : file[r].state # "none")

(* A gap comes between two runs, unless the first one has no stopped_at. *)
Stitched ==
  FoldLeft(LAMBDA acc, i : acc \o (IF i > 1 /\ HasFile[i - 1] \in ended THEN <<0>> ELSE <<>>)
                               \o file[HasFile[i]].rows,
           <<>>, [i \in DOMAIN HasFile |-> i])

(* The files are read on the event loop; a torn one raises. *)
Report ==
  /\ finalizer.pc = "read" /\ Finalizes(Idle)
  /\ IF Stitched = <<>> \/ \E r \in 1..run : file[r].state = "torn" THEN UNCHANGED <<report, missed>>
     ELSE report' = Stitched /\ missed' = finalizer.due \ (ToSet(report') \cup lost)
  /\ UNCHANGED <<RestOf, crashes>>

-----------------------------------------------------------------------------
(* A crash, and just so an orderly shutdown, which does not flush.  The     *)
(* deployment goes on.                                                      *)
Crash ==
  /\ crashes < MaxCrashes /\ crashes' = crashes + 1
  /\ buffer' = [r \in 1..Runs |-> <<>>] /\ writer' = [o \in Owners |-> NoWriter]
  /\ lost' = lost \cup UNION {ToSet(buffer[r]) : r \in 1..Runs}
                  \cup UNION {ToSet(writer[o].rows) : o \in Owners}
                  \cup UNION {ToSet(file[r].rows) : r \in {q \in 1..Runs : file[q].state = "torn"}}
  /\ finalizer' = Idle
  /\ UNCHANGED <<deploymentVars, samples, malformed, file, report, missed>>

Next ==
  \/ Stop \/ Start \/ AddSample \/ Tick \/ TickFlushed \/ FinalizeOne \/ OneFlushed \/ Report \/ Crash
  \/ \E o \in Owners : ReadExisting(o) \/ WriteTable(o)
  \/ \E r \in 1..Runs : Flush(r)

Spec == Init /\ [][Next]_vars

-----------------------------------------------------------------------------
TypeOK ==
  /\ run \in 1..Runs /\ ended \subseteq 1..Runs /\ samples \in Seq(1..Runs)
  /\ malformed \cup lost \cup missed \subseteq DOMAIN samples
  /\ \A r \in 1..Runs : file[r].state \in {"none", "whole", "torn"}
  /\ \A o \in Owners : writer[o].pc \in {"none", "read", "write"}
  /\ finalizer.pc \in {"idle", "flush", "one", "again", "read"}

Kept(r) ==
  file[r].rows \o FlattenSeq([i \in 1..2 |-> LET o == <<"handler", "finalizer">>[i] IN
                                IF writer[o].run = r THEN writer[o].rows ELSE <<>>]) \o buffer[r]

(* Every sample is on its run's file, on its way there or in the buffer,    *)
(* once and in order, unless a crash or a flush that raised has lost it.    *)
SamplesAreKept ==
  \A r \in 1..Runs :
    /\ {n \in DOMAIN samples : samples[n] = r} \subseteq ToSet(Kept(r)) \cup lost
    /\ \A i, j \in DOMAIN Kept(r) : i < j => Kept(r)[i] < Kept(r)[j]

(* A report has every sample that came before its flush; its rows are in    *)
(* order.                                                                   *)
ReportCovers ==
  /\ missed = {}
  /\ \A i, j \in DOMAIN report : i < j /\ report[i] # 0 /\ report[j] # 0 => report[i] < report[j]

(* Not so: the last samples of a deployment that stopped get no report. *)
StoppedIsReported ==
  ~running /\ finalizer = Idle /\ writer["handler"] = NoWriter /\ (\A r \in 1..Runs : buffer[r] = <<>>) =>
    DOMAIN samples \subseteq ToSet(report) \cup lost

(* Not so: a crash in a write makes the run's file useless for good. *)
FilesHeal == \A r \in 1..Runs : file[r].state = "torn" => \E o \in Owners : writer[o].pc = "write"
=============================================================================
