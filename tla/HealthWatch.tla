----------------------------- MODULE HealthWatch -----------------------------
(***************************************************************************)
(* The health watch: checks and commits of agents that may overlap, die or *)
(* be late, over one state file behind a lock.  A check reads the lines of *)
(* the coordinator's log that are new, offers the signatures that nobody   *)
(* has claimed, and reports the conditions it saw before it took the lock; *)
(* the commit records the tasks that were filed and the report.            *)
(***************************************************************************)
EXTENDS Integers, Sequences, FiniteSets, SequencesExt

CONSTANTS
  Errors,        \* errors that may come, each once
  Conditions,    \* such as a worker that is offline
  Scans,         \* checks so far, a bound
  MaxClock,      \* a bound
  RemindAfter,   \* REMIND_SECONDS
  ClaimFor,      \* CLAIM_SECONDS
  KeepScans,     \* KEEP_SCANS
  MaxFilings,    \* MAX_FILINGS
  MaxScanLines   \* MAX_SCAN_BYTES

ConstantsAssumption ==
  {Scans, MaxClock, RemindAfter, ClaimFor, KeepScans, MaxFilings, MaxScanLines} \subseteq Nat \ {0}

VARIABLES
  clock,
  present,    \* the conditions as they are
  log,        \* complete lines of coord.log: [error, part], part "head" or "tail"
  state,      \* state.json: [offset, alerts, known, pending, scans]
  scan,       \* each check: [pc, at, saw, offered, filed, told]
  tasks,      \* history: the signatures that got a task, with the scan that filed it
  history     \* [reoffered, skipped, rejected, committed]

vars == <<clock, present, log, state, scan, tasks, history>>

Parts      == {"head", "tail", "both"}
Signatures == Errors \X Parts
Ids        == 1..Scans
Never      == -1
NoClaim    == [scan |-> 0, at |-> 0]
Unseen     == [scan |-> Never, at |-> 0]
NoScan     == [pc |-> "none", at |-> 0, saw |-> {}, offered |-> {}, filed |-> {}, told |-> {}]

Init ==
  /\ clock = 1 /\ present = {} /\ log = <<>> /\ tasks = {}
  /\ state = [offset |-> 0, alerts |-> [c \in Conditions |-> Never], known |-> {},
              pending |-> [s \in Signatures |-> Unseen], scans |-> {}]
  /\ scan = [i \in Ids |-> NoScan]
  /\ history = [reoffered |-> {}, skipped |-> 0, rejected |-> {}, committed |-> {}]

Passes ==
  /\ clock < MaxClock /\ clock' = clock + 1
  /\ UNCHANGED <<present, log, state, scan, tasks, history>>

Changes ==
  /\ \E c \in Conditions : present' = (present \cup {c}) \ (present \cap {c})
  /\ UNCHANGED <<clock, log, state, scan, tasks, history>>

(* A line of an error is complete: its head, and some time later its        *)
(* traceback.                                                               *)
Logs(e) ==
  /\ log' = Append(log, [error |-> e, part |->
               IF \E i \in DOMAIN log : log[i] = [error |-> e, part |-> "head"] THEN "tail" ELSE "head"])
  /\ \A i \in DOMAIN log : log[i].error # e \/ (i = Len(log) /\ log[i].part = "head")
  /\ UNCHANGED <<clock, present, state, scan, tasks, history>>

-----------------------------------------------------------------------------
(* cmd_check *)

(* The probes and the clock, before the lock. *)
Probe(i) ==
  /\ scan[i].pc = "none" /\ \A j \in 1..i - 1 : scan[j].pc # "none"
  /\ scan' = [scan EXCEPT ![i] = [NoScan EXCEPT !.pc = "probed", !.at = clock, !.saw = present]]
  /\ UNCHANGED <<clock, present, log, state, tasks, history>>

(* read_new_bytes: the oldest lines are skipped if there are too many. *)
Unread  == Len(log) - state.offset
Skipped == IF Unread > MaxScanLines THEN Unread - MaxScanLines ELSE 0
Text    == SubSeq(log, state.offset + Skipped + 1, Len(log))

(* error_blocks: a record goes to the next one; a traceback without its     *)
(* record is one of its own.                                                *)
Blocks ==
  {<<Text[n].error, "both">> : n \in {k \in DOMAIN Text : Text[k].part = "head" /\ k < Len(Text)}}
  \cup {<<Text[n].error, Text[n].part>> :
          n \in {k \in DOMAIN Text : \/ Text[k].part = "head" /\ k = Len(Text)
                                     \/ Text[k].part = "tail" /\ k = 1}}

Claimed(entry) == entry.scan > 0
Expired(i, entry) == scan[i].at - entry.at >= ClaimFor

(* Mutant: a claim does not keep a signature from the next check. *)
AnyPending(i, p) == {s \in Signatures : p[s] # Unseen}
Available(i, p) == {s \in Signatures : p[s] # Unseen /\ (~Claimed(p[s]) \/ Expired(i, p[s]))}

(* decide *)
New(i)    == {c \in scan[i].saw : state.alerts[c] = Never}
Remind(i) == {c \in scan[i].saw : state.alerts[c] # Never /\ scan[i].at - state.alerts[c] >= RemindAfter}
After(i)  == [c \in Conditions |-> IF c \in New(i) \cup Remind(i) THEN scan[i].at
                                   ELSE IF c \in scan[i].saw THEN state.alerts[c] ELSE Never]

(* Mutant: the report counts as told before it is committed. *)
TellsAtOnce(i) == After(i)
KeepsAlerts(i) == state.alerts

(* The scans that are kept are the newest by the time of their probes. *)
Kept(all) == {x \in all : Cardinality({y \in all : y.at > x.at \/ (y.at = x.at /\ y.id > x.id)}) < KeepScans}

(* Mutant: a signature is noted only if its traceback was read with it. *)
OnlyWhole(blocks) == {s \in blocks : s[2] = "both"}
Noted(blocks)     == blocks

Check(i) ==
  /\ scan[i].pc = "probed"
  /\ LET p == [s \in Signatures |-> IF s \in Noted(Blocks) \ state.known /\ state.pending[s] = Unseen
                                    THEN NoClaim ELSE state.pending[s]] IN
     \E offered \in SUBSET Available(i, p) :
       /\ Cardinality(offered) = (LET n == Cardinality(Available(i, p)) IN IF n < MaxFilings THEN n ELSE MaxFilings)
       /\ state' = [offset |-> Len(log), alerts |-> KeepsAlerts(i), known |-> state.known,
                    pending |-> [s \in Signatures |-> IF s \in offered THEN [scan |-> i, at |-> scan[i].at] ELSE p[s]],
                    scans |-> Kept(state.scans \cup {[id |-> i, at |-> scan[i].at, after |-> After(i)]})]
       /\ scan' = [scan EXCEPT ![i].pc = "reported", ![i].offered = offered, ![i].told = New(i) \cup Remind(i)]
       /\ history' = [history EXCEPT !.reoffered = @ \cup {s \in offered : Claimed(p[s]) /\ Expired(i, p[s])},
                                     !.skipped = @ + Skipped]
  /\ UNCHANGED <<clock, present, log, tasks>>

-----------------------------------------------------------------------------
(* The agent.  It may die at any time: then it does nothing more. *)

File(i, s) ==
  /\ scan[i].pc = "reported" /\ s \in scan[i].offered \ scan[i].filed
  /\ tasks' = tasks \cup {[signature |-> s, scan |-> i]}
  /\ scan' = [scan EXCEPT ![i].filed = @ \cup {s}]
  /\ UNCHANGED <<clock, present, log, state, history>>

(* cmd_commit.  It writes all or nothing. *)
Accepted(i) ==
  /\ \E x \in state.scans : x.id = i
  /\ \A s \in scan[i].filed : state.pending[s] # Unseen

Release(i, entry) == IF entry.scan = i THEN NoClaim ELSE entry

Commit(i) ==
  /\ scan[i].pc = "reported"
  /\ scan' = [scan EXCEPT ![i].pc = "done"]
  /\ IF Accepted(i)
     THEN /\ state' = [state EXCEPT
               !.known = @ \cup scan[i].filed,
               !.pending = [s \in Signatures |-> IF s \in scan[i].filed THEN Unseen ELSE Release(i, @[s])],
               !.alerts = (CHOOSE x \in state.scans : x.id = i).after,
               !.scans = {x \in @ : x.id # i}]
          /\ history' = [history EXCEPT !.committed = @ \cup {i}]
     ELSE /\ history' = [history EXCEPT !.rejected = @ \cup {[scan |-> i, age |-> clock - scan[i].at]}]
          /\ UNCHANGED state
  /\ UNCHANGED <<clock, present, log, tasks>>

Next ==
  \/ Passes \/ Changes
  \/ \E e \in Errors : Logs(e)
  \/ \E i \in Ids : Probe(i) \/ Check(i) \/ Commit(i)
  \/ \E i \in Ids, s \in Signatures : File(i, s)

Spec == Init /\ [][Next]_vars

-----------------------------------------------------------------------------
TypeOK ==
  /\ clock \in 1..MaxClock /\ present \subseteq Conditions
  /\ state.offset \in 0..Len(log) /\ state.known \subseteq Signatures
  /\ \A c \in Conditions : state.alerts[c] \in {Never} \cup 1..MaxClock
  /\ \A s \in Signatures : state.pending[s].scan \in {Never} \cup 0..Scans
  /\ \A i \in Ids : scan[i].pc \in {"none", "probed", "reported", "done"} /\ scan[i].filed \subseteq scan[i].offered

(* An error whose line was read has a signature that is known or waits,     *)
(* unless lines were skipped; none is both.                                 *)
ErrorsAreKept ==
  /\ \A n \in 1..state.offset : history.skipped > 0 \/
       \E s \in {log[n].error} \X Parts : s \in state.known \/ state.pending[s] # Unseen
  /\ \A s \in state.known : state.pending[s] = Unseen

(* A signature gets two tasks only if its claim ran out in between. *)
FiledOnce ==
  \A t, u \in tasks : t.signature = u.signature /\ t.scan # u.scan => t.signature \in history.reoffered

(* A commit is refused only if it is late, if newer checks pushed its scan  *)
(* out, or if the late commit of an earlier check had filed one of its      *)
(* signatures too: then all of it is lost, the report included.             *)
PromptCommitTaken ==
  \A r \in history.rejected :
    \/ r.age >= ClaimFor
    \/ Cardinality({j \in Ids \ {r.scan} : scan[j].pc \in {"reported", "done"}}) >= KeepScans
    \/ scan[r.scan].filed \cap history.reoffered # {}

(* A condition counts as told since a time only if a check of that time     *)
(* that was committed told it.                                              *)
AlertsWereTold ==
  \A c \in Conditions : state.alerts[c] # Never =>
    \E i \in history.committed : c \in scan[i].told /\ scan[i].at = state.alerts[c]

(* Not so: an error whose traceback is written between two checks gets two  *)
(* signatures.                                                              *)
OneSignature ==
  \A t, u \in tasks : t.signature[1] = u.signature[1] => t.signature = u.signature

(* Not so: a commit of an older check after one of a newer one forgets what *)
(* the newer one told.                                                      *)
NotToldTwice ==
  \A i, j \in Ids : i < j /\ i \in history.committed =>
    \A c \in scan[i].told \cap scan[j].told :
      \/ scan[j].at - scan[i].at >= RemindAfter
      \/ \E k \in Ids : k > i /\ k <= j /\ c \notin scan[k].saw
=============================================================================
