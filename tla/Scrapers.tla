------------------------------ MODULE Scrapers ------------------------------
(***************************************************************************)
(* One scraper with a browser profile: its record, its row and its runs in *)
(* scraper_registry.py, the login session seen from there, and the two     *)
(* kinds of process that want the profile's lock.  A run is cut at its     *)
(* awaits; a crash of the coordinator leaves its processes running.        *)
(* Nothing is stale by itself: the day does not change, the database works.*)
(***************************************************************************)
EXTENDS Naturals, FiniteSets

CONSTANTS
  Runs,          \* calls of run() at a time (a bound)
  MaxAttempts,   \* MAX_ATTEMPTS_PER_DAY
  MaxCrashes,    \* a bound
  MaxStarts,     \* where the model stops counting attempts (a bound)
  MayUninstall,  \* the package is removed and installed again
  MayRaise       \* ScraperEngine.run_scraper may raise

ConstantsAssumption ==
  {MaxAttempts, MaxCrashes, MaxStarts} \subseteq Nat /\ {MayUninstall, MayRaise} \subseteq BOOLEAN

VARIABLES
  up, crashes,
  record,    \* the ScraperRecord: registered?  last_status = "running"?
  login,     \* the name is in _logins
  catchUp,   \* the task of _maybe_catch_up: none, about to read the row, about to run
  run,       \* calls of run(): where suspended, for whom, on the current record?, result
  child,     \* their processes, by what they do with the profile's lock
  session,   \* the login session: none, its helper is open, verified, confirming
  helper,    \* the helper process
  auth, attempts, success,  \* the row: auth_state, attempts_today, last_success after the base fire
  caught     \* catch-up scrapes that were spawned

row  == <<auth, attempts, success>>
vars == <<up, crashes, record, login, catchUp, run, child, session, helper, row, caught>>

Triggers == {"schedule", "catch_up", "manual", "login_confirm"}
Results  == {"none", "ok", "auth_required", "profile_busy", "error"}
NoRun == [pc |-> "idle", trigger |-> "manual", own |-> FALSE, result |-> "none"]
NoRecord == [there |-> FALSE, running |-> FALSE]
Fresh    == [there |-> TRUE, running |-> FALSE]

TypeOK ==
  /\ up \in BOOLEAN /\ crashes \in 0..MaxCrashes
  /\ record \in [there: BOOLEAN, running: BOOLEAN] /\ (record.running => record.there)
  /\ login \in BOOLEAN /\ catchUp \in {"none", "check", "run"}
  /\ run \in [Runs -> [pc: {"idle", "auth", "start", "spawn", "scrape", "finish", "mark"},
                       trigger: Triggers, own: BOOLEAN, result: Results]]
  /\ child \in [Runs -> {"none", "waiting", "inside"}]
  /\ session \in {"none", "open", "verified", "confirm", "confirming"}
  /\ helper \in {"none", "waiting", "inside"}
  /\ auth \in {"ok", "needs_login"} /\ attempts \in 0..MaxStarts /\ success \in BOOLEAN
  /\ caught \in 0..MaxStarts

Init ==
  /\ up = TRUE /\ crashes = 0 /\ record = Fresh /\ login = FALSE /\ catchUp = "check"
  /\ run = [r \in Runs |-> NoRun] /\ child = [r \in Runs |-> "none"]
  /\ session = "none" /\ helper = "none"
  /\ auth = "ok" /\ attempts = 0 /\ success = FALSE /\ caught = 0

Locked == helper = "inside" \/ \E r \in Runs : child[r] = "inside"

-----------------------------------------------------------------------------
(* run: the checks and the claim of the slot are one step.  A catch-up     *)
(* that is refused is over; a refused confirmation ends its session.       *)
(* Mutant: the login flag is not looked at.                                *)
FlagIgnored(t) == record.there /\ ~record.running
Allowed(t) == record.there /\ (login => t = "login_confirm") /\ ~record.running

Asked(t) ==
  CASE t = "catch_up"      -> catchUp = "run"
    [] t = "login_confirm" -> session = "confirm"
    [] OTHER               -> record.there

Run(r, t) ==
  /\ up /\ run[r] = NoRun /\ child[r] = "none" /\ Asked(t)
  /\ IF Allowed(t)
     THEN /\ record' = [record EXCEPT !.running = TRUE]
          /\ run' = [run EXCEPT ![r] = [pc |-> "auth", trigger |-> t, own |-> TRUE, result |-> "none"]]
     ELSE /\ t \in {"catch_up", "login_confirm"} /\ UNCHANGED <<record, run>>
  /\ catchUp' = IF t = "catch_up" THEN "none" ELSE catchUp
  /\ session' = IF t # "login_confirm" THEN session ELSE IF Allowed(t) THEN "confirming" ELSE "none"
  /\ login' = (login /\ ~(t = "login_confirm" /\ ~Allowed(t)))
  /\ UNCHANGED <<up, crashes, child, helper, row, caught>>

(* Mutant: the slot is not given back.                                     *)
KeepsSlot(r) == UNCHANGED record
Release(r)   == record' = IF run[r].own THEN [record EXCEPT !.running = FALSE] ELSE record

Paused(r) == auth = "needs_login" /\ run[r].trigger \in {"schedule", "catch_up"}

ReadAuth(r) ==
  /\ run[r].pc = "auth"
  /\ IF Paused(r) THEN Release(r) /\ run' = [run EXCEPT ![r] = NoRun]
     ELSE run' = [run EXCEPT ![r].pc = "start"] /\ UNCHANGED record
  /\ UNCHANGED <<up, crashes, login, catchUp, child, session, helper, row, caught>>

(* _record_attempt_start.  Mutants: the attempt is not counted, or twice.  *)
Upto(n)   == IF n < MaxStarts THEN n ELSE MaxStarts
Uncounted == attempts
Counted   == Upto(attempts + 1)

RecordAttemptStart(r) ==
  /\ run[r].pc = "start"
  /\ attempts' = Counted /\ run' = [run EXCEPT ![r].pc = "spawn"]
  /\ UNCHANGED <<up, crashes, record, login, catchUp, child, session, helper, auth, success, caught>>

(* ScraperEngine.run_scraper.  What it raises leaves run() as it is.       *)
Spawn(r) ==
  /\ run[r].pc = "spawn"
  /\ \/ /\ child' = [child EXCEPT ![r] = "waiting"] /\ run' = [run EXCEPT ![r].pc = "scrape"]
        /\ caught' = IF run[r].trigger = "catch_up" THEN Upto(caught + 1) ELSE caught
        /\ UNCHANGED <<login, session>>
     \/ /\ MayRaise /\ run' = [run EXCEPT ![r] = NoRun] /\ UNCHANGED <<child, caught>>
        /\ login' = (login /\ run[r].trigger # "login_confirm")
        /\ session' = IF run[r].trigger = "login_confirm" THEN "none" ELSE session
  /\ UNCHANGED <<up, crashes, record, catchUp, helper, row>>

(* scraper_runner.main in the child: it takes the lock, or gives up when   *)
(* another process keeps it, and ends with a result file.                  *)
ChildEnters(r) ==
  /\ child[r] = "waiting" /\ ~Locked /\ child' = [child EXCEPT ![r] = "inside"]
  /\ UNCHANGED <<up, crashes, record, login, catchUp, run, session, helper, row, caught>>

ChildExits(r) ==
  /\ child[r] # "none" /\ (child[r] = "waiting" => Locked)
  /\ child' = [child EXCEPT ![r] = "none"]
  /\ \E res \in IF child[r] = "waiting" THEN {"profile_busy"} ELSE {"ok", "auth_required", "error"} :
       run' = [run EXCEPT ![r].result = IF run[r].pc = "scrape" THEN res ELSE "none"]
  /\ UNCHANGED <<up, crashes, record, login, catchUp, session, helper, row, caught>>

(* Back in run: the slot is released at once, then the row is written.     *)
Return(r) ==
  /\ run[r].pc = "scrape" /\ run[r].result # "none"
  /\ Release(r) /\ run' = [run EXCEPT ![r].pc = "finish"]
  /\ UNCHANGED <<up, crashes, login, catchUp, child, session, helper, row, caught>>

RecordAttemptFinish(r) ==
  /\ run[r].pc = "finish" /\ run' = [run EXCEPT ![r].pc = "mark"]
  /\ success' = (success \/ run[r].result = "ok")
  /\ UNCHANGED <<up, crashes, record, login, catchUp, child, session, helper, auth, attempts, caught>>

(* _mark_needs_login and _mark_login_ok; run returns, and the session that *)
(* asked for a confirmation ends with its result.                          *)
EndsLogin(r) == run[r].trigger = "login_confirm"

NewAuth(result) ==
  CASE result = "auth_required" -> "needs_login" [] result = "ok" -> "ok" [] OTHER -> auth

Mark(r) ==
  LET confirm == EndsLogin(r) IN
  /\ run[r].pc = "mark" /\ run' = [run EXCEPT ![r] = NoRun]
  /\ auth' = NewAuth(run[r].result)
  /\ session' = IF confirm THEN "none" ELSE session
  /\ login' = (login /\ ~confirm)
  /\ UNCHANGED <<up, crashes, record, catchUp, child, helper, attempts, success, caught>>

-----------------------------------------------------------------------------
(* _maybe_catch_up, begun by the registration at boot.                     *)
Missed == ~success   \* the base fire of the day is past

MaybeCatchUp ==
  /\ up /\ catchUp = "check"
  /\ catchUp' = IF record.there /\ auth = "ok" /\ attempts < MaxAttempts /\ Missed THEN "run" ELSE "none"
  /\ UNCHANGED <<up, crashes, record, login, run, child, session, helper, row, caught>>

(* LoginSessionManager.start, begin_login included: nothing starts beside  *)
(* a scrape or while a process has the profile.                            *)
StartLogin ==
  /\ up /\ record.there /\ session = "none" /\ ~record.running /\ ~Locked /\ helper = "none"
  /\ login' = TRUE /\ session' = "open" /\ helper' = "waiting"
  /\ UNCHANGED <<up, crashes, record, catchUp, run, child, row, caught>>

HelperEnters ==
  /\ helper = "waiting" /\ ~Locked /\ helper' = "inside"
  /\ UNCHANGED <<up, crashes, record, login, catchUp, run, child, session, row, caught>>

(* The helper is gone: the session is verified, goes to its confirmation   *)
(* because the browser was closed, or ends.  A crash leaves it without.    *)
(* Mutant: the flag ends with the helper.                                  *)
FlagAfter(s)         == login /\ s # "none"

HelperExits ==
  /\ helper # "none" /\ (helper = "waiting" => Locked)
  /\ helper' = "none"
  /\ session' \in IF session # "open" THEN {session}
                  ELSE IF helper = "waiting" THEN {"none"} ELSE {"none", "verified", "confirm"}
  /\ login' = FlagAfter(session')
  /\ UNCHANGED <<up, crashes, record, catchUp, run, child, row, caught>>

MarkLoginVerified ==
  /\ session = "verified" /\ auth' = "ok" /\ session' = "confirm"
  /\ UNCHANGED <<up, crashes, record, login, catchUp, run, child, helper, attempts, success, caught>>

-----------------------------------------------------------------------------
(* uninstall_scraper asks neither for a run nor for a login.  A record of  *)
(* a reinstalled scraper is a new object.                                  *)
Uninstall ==
  /\ MayUninstall /\ up /\ record.there /\ record' = NoRecord
  /\ run' = [r \in Runs |-> [run[r] EXCEPT !.own = FALSE]]
  /\ UNCHANGED <<up, crashes, login, catchUp, child, session, helper, row, caught>>

Install ==
  /\ MayUninstall /\ up /\ ~record.there /\ record' = Fresh
  /\ UNCHANGED <<up, crashes, login, catchUp, run, child, session, helper, row, caught>>

Crash ==
  /\ up /\ crashes < MaxCrashes /\ up' = FALSE /\ crashes' = crashes + 1
  /\ record' = NoRecord /\ login' = FALSE /\ catchUp' = "none" /\ session' = "none"
  /\ run' = [r \in Runs |-> NoRun]
  /\ UNCHANGED <<child, helper, row, caught>>

DiscoverAndRegister ==
  /\ ~up /\ up' = TRUE /\ record' = Fresh /\ catchUp' = "check"
  /\ UNCHANGED <<crashes, login, run, child, session, helper, row, caught>>

Next ==
  \/ \E r \in Runs, t \in Triggers : Run(r, t)
  \/ \E r \in Runs : ReadAuth(r) \/ RecordAttemptStart(r) \/ Spawn(r) \/ ChildEnters(r) \/ ChildExits(r)
                       \/ Return(r) \/ RecordAttemptFinish(r) \/ Mark(r)
  \/ MaybeCatchUp \/ StartLogin \/ HelperEnters \/ HelperExits \/ MarkLoginVerified
  \/ Uninstall \/ Install \/ Crash \/ DiscoverAndRegister

Spec == Init /\ [][Next]_vars

-----------------------------------------------------------------------------
Holding == {r \in Runs : run[r].pc \in {"auth", "start", "spawn", "scrape"}}

(* scraper_registry.py:499-500: "a run and a login session can never both  *)
(* start" -- at most one run has the slot, and none while a login's        *)
(* browser is open.                                                        *)
RunsExclude ==
  /\ Cardinality(Holding) <= 1
  /\ session \in {"open", "verified", "confirm"} => Holding = {}

(* scraper_login.py:650-652: the flag covers the session, its confirmation *)
(* scrape included, and no session loses it to another one's end.          *)
FlagCoversSession == login <=> session # "none"

(* scraper_registry.py:653-655: the catch-ups of a day are bounded, however*)
(* often the coordinator crashes in the middle of one and boots again.     *)
CatchUpsBounded == caught <= MaxAttempts

(* scraper_registry.py:501: begin_login is refused "while a scrape is in   *)
(* flight" -- the slot is only taken by a run in progress.                 *)
SlotMeansRunning == record.running => \E r \in Runs : run[r] # NoRun /\ run[r].own

=============================================================================
