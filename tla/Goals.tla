------------------------------- MODULE Goals -------------------------------
(***************************************************************************)
(* An options data goal of goal_processor.py: the periodic tick discovers  *)
(* the contracts of every expiration, then keeps downloads in flight until *)
(* all are on disk or answered "no data"; each finished download calls     *)
(* on_download_complete, which tops the lane up as well.  The tick and the *)
(* listeners are cut at their awaits; downloads themselves are Downloads'  *)
(* subject and only end here, as data, as "no data" or with an error.      *)
(***************************************************************************)
EXTENDS Naturals, FiniteSets, FiniteSetsExt

CONSTANTS
  Expirations,  \* 1..Expirations
  Symbols,      \* 1..Symbols, in discovery order
  Foreign,      \* files of the provider's directory that are no contract of the goal
  Batch,        \* DISCOVERY_BATCH
  Concurrency,  \* of the provider
  Listeners,    \* concurrent completion listeners (a bound)
  Settings,     \* [expOf, errors]: see setting
  MaxCopies     \* downloads of one symbol in flight (a bound)

Contracts == 1..Symbols
Actors    == {"tick"} \cup Listeners

ConstantsAssumption ==
  /\ Expirations \in Nat /\ Symbols \in Nat
  /\ Settings \subseteq [expOf : [1..Symbols -> 0..Expirations], errors : Nat]
  /\ Foreign \cap (1..Symbols) = {} /\ "tick" \notin Listeners /\ {Batch, Concurrency} \subseteq Nat \ {0}
  /\ MaxCopies \in Nat

VARIABLES
  status, phase, found, terminal,  \* the DataGoal row
  actor,     \* where each enqueuing coroutine is suspended, and what it has read
  scanned,   \* expirations the running tick has scanned or skips
  inFlight,  \* queued or running downloads of each contract
  disk,      \* parquet files of the provider
  cache,     \* _disk_cache[provider]
  cooling,   \* contracts inside the backoff of a transient failure
  ended,     \* finished downloads whose listener has not started
  errors,    \* transient errors so far
  answer,    \* what the provider has for each contract
  setting    \* the expiration of each contract, 0: outside the goal's window, and
             \* how many transient errors there may be (a bound); it never changes

goal == <<status, phase, found, terminal>>
vars == <<status, phase, found, terminal, actor, scanned, inFlight, disk, cache, cooling, ended, errors, answer>>

ExpOf     == setting.expOf
MaxErrors == setting.errors

Idle == [pc |-> "idle", terminal |-> {}, slot |-> 0, busy |-> {}, plan |-> {}]

TypeOK ==
  /\ setting \in Settings
  /\ status \in {"active", "paused", "completed", "deleted"}
  /\ phase \in {"discovering", "downloading", "completed"}
  /\ found \subseteq Contracts /\ terminal \subseteq Contracts
  /\ actor \in [Actors -> [pc: {"idle", "scan", "query", "plan", "create", "recount", "write", "row"},
                           terminal: SUBSET Contracts, slot: Nat,
                           busy: SUBSET Contracts, plan: SUBSET Contracts]]
  /\ scanned \subseteq 1..Expirations
  /\ inFlight \in [Contracts -> 0..MaxCopies]
  /\ disk \subseteq Contracts \cup Foreign /\ cache \subseteq disk /\ cooling \subseteq Contracts
  /\ ended \subseteq Contracts \X {"data", "nodata", "error"}
  /\ errors \in 0..MaxErrors /\ answer \in [Contracts -> {"data", "nodata"}]

Init ==
  /\ setting \in Settings
  /\ status = "active" /\ phase = "discovering" /\ found = {} /\ terminal = {}
  /\ actor = [a \in Actors |-> Idle] /\ scanned = {}
  /\ inFlight = [s \in Contracts |-> 0]
  /\ disk = Foreign /\ cache = {} /\ cooling = {}
  /\ ended = {} /\ errors = 0
  /\ answer \in [Contracts -> {"data", "nodata"}]

Set(a, r) == actor' = [actor EXCEPT ![a] = r]

-----------------------------------------------------------------------------
(* tick: the goals are read once.  Expirations that have contracts are not *)
(* scanned again.  Mutant: the contracts of earlier ticks are forgotten.   *)
Refreshed == {cache, disk}   \* by a scan of the directory, when older than its TTL

Tick ==
  /\ actor["tick"].pc = "idle" /\ status = "active" /\ phase # "completed"
  /\ IF phase = "discovering"
     THEN /\ Set("tick", [Idle EXCEPT !.pc = "scan", !.plan = found])
          /\ scanned' = {ExpOf[s] : s \in found} /\ UNCHANGED cache
     ELSE /\ Set("tick", [Idle EXCEPT !.pc = "query", !.terminal = terminal])
          /\ cache' \in Refreshed
          /\ UNCHANGED scanned
  /\ UNCHANGED <<status, phase, found, terminal, inFlight, disk, cooling, ended, errors, answer>>

(* _discover_options: one expiration is asked for and its contracts are    *)
(* committed, until DISCOVERY_BATCH is reached, all are scanned, the       *)
(* provider raises, or the goal was paused or deleted meanwhile.           *)
Rest == (1..Expirations) \ scanned
Spent(n) == n >= Batch

Scanning == actor["tick"].pc = "scan" /\ Rest # {} /\ ~Spent(actor["tick"].slot)

ScanExpiration ==
  LET me == actor["tick"]  e == Min(Rest)  new == me.plan \cup {s \in Contracts : ExpOf[s] = e} IN
  /\ Scanning /\ status # "deleted"
  /\ found' = new /\ scanned' = scanned \cup {e}
  /\ Set("tick", IF status = "active" THEN [me EXCEPT !.plan = new, !.slot = @ + 1] ELSE Idle)
  /\ UNCHANGED <<status, phase, terminal, inFlight, disk, cache, cooling, ended, errors, answer>>

ScanRaises ==
  /\ Scanning /\ (status = "deleted" \/ errors < MaxErrors)
  /\ Set("tick", Idle)
  /\ errors' = IF status = "deleted" THEN errors ELSE errors + 1
  /\ UNCHANGED goal /\ UNCHANGED <<scanned, inFlight, disk, cache, cooling, ended, answer>>

EndScan ==
  /\ actor["tick"].pc = "scan" /\ (Rest = {} \/ Spent(actor["tick"].slot))
  /\ phase' = IF Rest = {} /\ status # "deleted" THEN "downloading" ELSE phase
  /\ Set("tick", Idle)
  /\ UNCHANGED <<status, found, terminal, scanned, inFlight, disk, cache, cooling, ended, errors, answer>>

-----------------------------------------------------------------------------
(* _enqueue_for_goal: the in-flight rows are read, then the failures, then *)
(* one download after the other is created; each of these is an await.     *)
InFlight == {s \in found : inFlight[s] > 0}
First(S, n) == {s \in S : Cardinality({t \in S : t <= s}) <= n}
Done(a) == IF a = "tick" THEN [actor[a] EXCEPT !.pc = "recount"] ELSE Idle

Query(a) ==
  LET cap == Concurrency + 1  n == Cardinality(InFlight) IN
  /\ actor[a].pc = "query"
  /\ Set(a, IF found = {} \/ n >= cap THEN Done(a)
            ELSE [actor[a] EXCEPT !.pc = "plan", !.slot = cap - n, !.busy = InFlight])
  /\ UNCHANGED goal /\ UNCHANGED <<scanned, inFlight, disk, cache, cooling, ended, errors, answer>>

(* Mutant: what the provider has answered "no data" for is asked again.    *)
Eligible(a) == found \ (cache \cup actor[a].busy \cup cooling \cup actor[a].terminal)

Plan(a) ==
  /\ actor[a].pc = "plan"
  /\ Set(a, IF Eligible(a) = {} THEN Done(a)
            ELSE [actor[a] EXCEPT !.pc = "create", !.plan = First(Eligible(a), actor[a].slot)])
  /\ UNCHANGED goal /\ UNCHANGED <<scanned, inFlight, disk, cache, cooling, ended, errors, answer>>

Create(a) ==
  LET s == Min(actor[a].plan)  rest == actor[a].plan \ {s} IN
  /\ actor[a].pc = "create" /\ inFlight[s] < MaxCopies
  /\ inFlight' = [inFlight EXCEPT ![s] = @ + 1]
  /\ Set(a, IF rest = {} THEN Done(a) ELSE [actor[a] EXCEPT !.plan = rest])
  /\ UNCHANGED goal /\ UNCHANGED <<scanned, disk, cache, cooling, ended, errors, answer>>

(* _download_options, after the enqueue: the in-flight rows are read again *)
(* and the row is written.  Its criterion counts every file of the         *)
(* provider; terminal symbols are those the tick began with.               *)
Recount ==
  /\ actor["tick"].pc = "recount"
  /\ Set("tick", [actor["tick"] EXCEPT !.pc = "write", !.busy = InFlight])
  /\ UNCHANGED goal /\ UNCHANGED <<scanned, inFlight, disk, cache, cooling, ended, errors, answer>>

(* Mutants: one contract too many is forgiven; only files count.           *)
OneMayMiss == Cardinality(found) <= Cardinality(cache) + Cardinality(actor["tick"].terminal) + 1
AllOnDisk == Cardinality(found) <= Cardinality(cache)
Enough    == Cardinality(found) <= Cardinality(cache) + Cardinality(actor["tick"].terminal)

WriteGoal ==
  /\ actor["tick"].pc = "write"
  /\ IF Enough /\ actor["tick"].busy = {} /\ status # "deleted"
     THEN status' = "completed" /\ phase' = "completed"
     ELSE UNCHANGED <<status, phase>>
  /\ Set("tick", Idle)
  /\ UNCHANGED <<found, terminal, scanned, inFlight, disk, cache, cooling, ended, errors, answer>>

-----------------------------------------------------------------------------
(* A download ends.  An error puts its symbol into the backoff of its      *)
(* failures, which a success resets and time ends.                         *)
EndDownload(s) ==
  /\ inFlight[s] > 0
  /\ inFlight' = [inFlight EXCEPT ![s] = @ - 1]
  /\ \/ /\ answer[s] = "data"
        /\ disk' = disk \cup {s} /\ cooling' = cooling \ {s} /\ UNCHANGED errors
        /\ ended' = ended \cup {<<s, "data">>}
     \/ /\ answer[s] = "nodata"
        /\ ended' = ended \cup {<<s, "nodata">>} /\ cooling' = cooling \ {s} /\ UNCHANGED <<disk, errors>>
     \/ /\ errors < MaxErrors /\ errors' = errors + 1
        /\ ended' = ended \cup {<<s, "error">>} /\ cooling' = cooling \cup {s} /\ UNCHANGED disk
  /\ UNCHANGED goal /\ UNCHANGED <<actor, scanned, cache, answer>>

BackoffEnds(s) ==
  /\ s \in cooling /\ cooling' = cooling \ {s}
  /\ UNCHANGED goal /\ UNCHANGED <<actor, scanned, inFlight, disk, cache, ended, errors, answer>>

(* on_download_complete: the cache learns of the file, the row is read;    *)
(* the read and the write of the terminal symbols are two steps.           *)
(* Mutant: a failed download counts as a file.                             *)
LearnsAll(s) == cache \cup {s}
Learned(s)   == IF s \in disk THEN cache \cup {s} ELSE cache
Owning == phase = "downloading" /\ status \in {"active", "paused"}

OnDownloadComplete(l) ==
  /\ actor[l] = Idle
  /\ \E d \in ended :
       /\ ended' = ended \ {d}
       /\ cache' = Learned(d[1])
       /\ Set(l, IF Owning /\ d[1] \in found
                 THEN [Idle EXCEPT !.pc = "row", !.terminal = IF d[2] = "nodata" THEN terminal \cup {d[1]} ELSE terminal,
                                   !.busy = IF d[2] = "nodata" THEN {d[1]} ELSE {}]
                 ELSE Idle)
  /\ UNCHANGED goal /\ UNCHANGED <<scanned, inFlight, disk, cooling, errors, answer>>

WriteTerminal(l) ==
  /\ actor[l].pc = "row"
  /\ terminal' = IF actor[l].busy # {} /\ status # "deleted" THEN actor[l].terminal ELSE terminal
  /\ Set(l, IF status = "active" THEN [actor[l] EXCEPT !.pc = "query", !.busy = {}] ELSE Idle)
  /\ UNCHANGED <<status, phase, found, scanned, inFlight, disk, cache, cooling, ended, errors, answer>>

-----------------------------------------------------------------------------
(* The routes. *)
Pause  == status \in {"active", "completed"} /\ status' = "paused"
Resume == status \in {"paused", "completed"} /\ status' = "active"
Delete == status # "deleted" /\ status' = "deleted"

Request ==
  /\ Pause \/ Resume \/ Delete
  /\ UNCHANGED <<phase, found, terminal, actor, scanned, inFlight, disk, cache, cooling, ended, errors, answer>>

Next ==
  /\ UNCHANGED setting
  /\ \/ Tick \/ ScanExpiration \/ ScanRaises \/ EndScan \/ Recount \/ WriteGoal \/ Request
     \/ \E a \in Actors : Query(a) \/ Plan(a) \/ Create(a)
     \/ \E s \in Contracts : EndDownload(s) \/ BackoffEnds(s)
     \/ \E l \in Listeners : OnDownloadComplete(l) \/ WriteTerminal(l)

(* The scheduler ticks, coroutines go on, downloads end and time passes;   *)
(* nobody has to make a request.                                           *)
Fairness ==
  /\ WF_vars(Tick) /\ WF_vars(ScanExpiration \/ ScanRaises) /\ WF_vars(EndScan) /\ WF_vars(Recount) /\ WF_vars(WriteGoal)
  /\ \A a \in Actors : WF_vars(Query(a)) /\ WF_vars(Plan(a)) /\ WF_vars(Create(a))
  /\ \A s \in Contracts : WF_vars(EndDownload(s)) /\ WF_vars(BackoffEnds(s))
  /\ \A l \in Listeners : WF_vars(OnDownloadComplete(l)) /\ WF_vars(WriteTerminal(l))

Spec == Init /\ [][Next]_<<setting, vars>> /\ Fairness

-----------------------------------------------------------------------------
(* A goal that nobody pauses or deletes is completed: whatever the races   *)
(* between tick and listeners, no contract is forgotten, and those without *)
(* data end the waiting too.                                               *)
GoalCompletes == (status = "active" /\ phase = "downloading") ~> (status # "active")

(* goal_processor.py:219-221, "every discovered symbol is either on disk   *)
(* or has been authoritatively answered "no data" by the provider".        *)
CompletedMeansCovered ==
  phase = "completed" => \A s \in found : s \in disk \/ s \in terminal

=============================================================================
