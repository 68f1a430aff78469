----------------------------- MODULE BarBuffer ------------------------------
(***************************************************************************)
(* The rolling buffer of a deployment's bars on its worker: filled once    *)
(* when the deployment is brought up, from the coordinator or from the     *)
(* client's cache, then appended to by the bars that are pushed.           *)
(*                                                                         *)
(* One deployment, one symbol, bars 1, 2, ...  A worker handles its        *)
(* messages one after the other, and bringing up is one message; the tasks *)
(* of the ticks of a deployment are in the order of their messages.        *)
(***************************************************************************)
EXTENDS Naturals, Sequences, SequencesExt

CONSTANTS
  MaxBars,    \* bars that close (a bound)
  Keeps,      \* history_bars of the dependency
  TTL,        \* of the client's cache, in bars
  MaxStarts   \* starts and connections (a bound)

VARIABLES
  closed,     \* bars so far
  saved,      \* those of them that are in the file
  pushing,    \* is the deployment's context registered?
  starts,
  inbox,      \* messages that the worker has not handled, <<>> without a connection
  connected,
  phase,      \* the message under way: "idle", "fetching" or "fetched"
  cache,      \* of the data client: [at, bars]
  runs,       \* is there a runtime?
  buffer,
  pushed      \* history: bars that were sent since the last start that brought up

vars == <<closed, saved, pushing, starts, inbox, connected, phase, cache, runs, buffer, pushed>>

Start == 0

TypeOK ==
  /\ closed \in 0..MaxBars /\ saved \subseteq 1..closed /\ starts \in 0..MaxStarts
  /\ {pushing, connected, runs} \subseteq BOOLEAN
  /\ inbox \in Seq(0..closed) /\ phase \in {"idle", "fetching", "fetched"}
  /\ cache \in [at : 0..MaxBars + TTL, bars : Seq(1..closed)]
  /\ buffer \in Seq(1..closed) /\ Len(buffer) <= Keeps /\ pushed \in Seq(1..closed)

Init ==
  /\ closed = 0 /\ saved = {} /\ pushing = FALSE /\ starts = 0 /\ inbox = <<>> /\ connected = TRUE
  /\ phase = "idle" /\ cache = [at |-> 0, bars |-> <<>>] /\ runs = FALSE /\ buffer = <<>> /\ pushed = <<>>

Coordinator == <<closed, saved, pushing, starts>>
Worker      == <<phase, cache, runs, buffer>>

LatestOf(s, n) == IF Len(s) <= n THEN s ELSE SubSeq(s, Len(s) - n + 1, Len(s))

-----------------------------------------------------------------------------
(* _flush_bar: the save may fail, the push goes to a worker that is there.  *)
BarCloses ==
  /\ closed < MaxBars /\ closed' = closed + 1
  /\ saved' \in {saved, saved \cup {closed'}}
  /\ IF pushing /\ connected THEN inbox' = Append(inbox, closed') /\ pushed' = Append(pushed, closed')
                             ELSE UNCHANGED <<inbox, pushed>>
  /\ UNCHANGED <<pushing, starts, connected, Worker>>

(* A start of the deployment, or the reconcile of a worker that registered, *)
(* is sent, and then the context is registered.                             *)
SendsStart ==
  /\ connected /\ starts < MaxStarts /\ starts' = starts + 1 /\ inbox' = Append(inbox, Start)
  /\ UNCHANGED <<closed, saved, pushing, connected, Worker, pushed>>

Registers ==
  /\ starts > 0 /\ ~pushing /\ pushing' = TRUE
  /\ UNCHANGED <<closed, saved, starts, inbox, connected, Worker, pushed>>

(* The worker's connection ends, and the next one has a new agent without   *)
(* deployments; the data client and its cache stay.  drop_worker ends the   *)
(* contexts.                                                                *)
Disconnects ==
  /\ connected /\ connected' = FALSE /\ pushing' = FALSE
  /\ inbox' = <<>> /\ phase' = "idle" /\ runs' = FALSE /\ buffer' = <<>> /\ pushed' = <<>>
  /\ UNCHANGED <<closed, saved, starts, cache>>

Connects ==
  /\ ~connected /\ starts < MaxStarts /\ connected' = TRUE
  /\ UNCHANGED <<Coordinator, inbox, Worker, pushed>>

-----------------------------------------------------------------------------
Handled == inbox' = Tail(inbox)
Messages(m) == phase = "idle" /\ inbox # <<>> /\ Head(inbox) = m

(* A start while there is a runtime is a duplicate. *)
IgnoresStart ==
  /\ Messages(Start) /\ runs /\ Handled
  /\ UNCHANGED <<Coordinator, connected, Worker, pushed>>

(* Mutant: the messages that come while it is brought up are handled, and   *)
(* find no runtime.                                                         *)
InBackground == Handled /\ phase' = "idle" /\ runs' = FALSE
InTurn       == UNCHANGED inbox /\ phase' = "fetching" /\ UNCHANGED runs

(* bring_up: a new buffer.  The bars pushed from here on are those that     *)
(* were sent after the start.                                               *)
BringsUp ==
  /\ Messages(Start) /\ ~runs /\ InTurn
  /\ buffer' = <<>> /\ pushed' = SelectSeq(Tail(inbox), LAMBDA m : m # Start)
  /\ UNCHANGED <<Coordinator, connected, cache>>

(* get_market_data: an answer that is young enough, or a new one, which is  *)
(* what the file has at some moment of the request.                         *)
Fresh == cache.at > 0 /\ closed - cache.at < TTL
FileBars == SetToSortSeq(saved, <)

Fetches ==
  /\ phase = "fetching" /\ phase' = "fetched"
  /\ cache' = IF Fresh THEN cache ELSE [at |-> closed, bars |-> FileBars]
  /\ UNCHANGED <<Coordinator, inbox, connected, runs, buffer, pushed>>

(* The bars are appended, or the request failed; the deployment runs.       *)
Backfilled ==
  /\ phase = "fetched" /\ phase' = "idle" /\ runs' = TRUE /\ Handled
  /\ buffer' \in {<<>>, LatestOf(cache.bars, Keeps)}
  /\ UNCHANGED <<Coordinator, connected, cache, pushed>>

(* A pushed bar, with no runtime and with one: ingest appends whatever      *)
(* comes.  Mutants: it is put in front; no bar is let go.                   *)
IgnoresBar ==
  /\ phase = "idle" /\ inbox # <<>> /\ Head(inbox) # Start /\ ~runs /\ Handled
  /\ UNCHANGED <<Coordinator, connected, Worker, pushed>>

AtFront(b) == LatestOf(<<b>> \o buffer, Keeps)
Untrimmed(b) == Append(buffer, b)
Ingested(b) == LatestOf(Append(buffer, b), Keeps)

IngestsBar ==
  /\ phase = "idle" /\ inbox # <<>> /\ Head(inbox) # Start /\ runs /\ Handled
  /\ buffer' = Ingested(Head(inbox))
  /\ UNCHANGED <<Coordinator, connected, phase, cache, runs, pushed>>

Next ==
  \/ BarCloses \/ SendsStart \/ Registers \/ Disconnects \/ Connects
  \/ IgnoresStart \/ BringsUp \/ Fetches \/ Backfilled \/ IgnoresBar \/ IngestsBar

Spec == Init /\ [][Next]_vars

-----------------------------------------------------------------------------
BarsOf(s) == SelectSeq(s, LAMBDA m : m # Start)

(* Every bar that was sent after the start that brought the deployment up   *)
(* is in the buffer's end or still to be handled, in the order it was sent. *)
PushedAreKept ==
  runs => LET done == SubSeq(pushed, 1, Len(pushed) - Len(BarsOf(inbox)))
              n    == IF Len(done) < Keeps THEN Len(done) ELSE Keeps
          IN /\ IsSuffix(BarsOf(inbox), pushed)
             /\ IsSuffix(LatestOf(done, n), buffer)

(* The buffer goes back in time once at most, where the backfill ends.      *)
BacksOnce ==
  \A i, j \in 1..Len(buffer) - 1 : buffer[i + 1] <= buffer[i] /\ buffer[j + 1] <= buffer[j] => i = j

(* Not so: bars that were saved and sent before the backfill was read are   *)
(* in it and pushed.                                                        *)
NoRepeats == \A i, j \in DOMAIN buffer : buffer[i] = buffer[j] => i = j

(* Not so: bars between a cached backfill, or the registration of the       *)
(* context, and the first that is pushed are missing.                       *)
NoGaps == \A i \in 1..Len(buffer) - 1 : buffer[i + 1] <= buffer[i] + 1
=============================================================================
