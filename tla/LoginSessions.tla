--------------------------- MODULE LoginSessions ---------------------------
(***************************************************************************)
(* A login session: its manager in coordinator/services/scraper_login.py   *)
(* (reader, watchdog, stop sequence, lifecycle, confirmation, viewers and  *)
(* shutdown) and its helper process in sdk/scraper_login.py with its       *)
(* browser.  Helper and manager are two processes joined by two pipes; the *)
(* helper may hang, die or leave its browser behind at any moment.         *)
(***************************************************************************)
EXTENDS Naturals, Sequences

CONSTANTS MaxChecks  \* "Check now" requests (a bound)

ASSUME ConstantsAssumption == MaxChecks \in Nat

VARIABLES
  state, stop,       \* LoginSession.state and stop_state
  verified, closed,  \* LoginSession.verified and closed_reason
  life,              \* where _lifecycle is
  stopper,           \* where _stop_helper is
  shutdown,          \* where LoginSessionManager.shutdown is
  events, commands,  \* the helper's stdout and stdin
  helper, done,      \* what the helper does, and its close reason
  browser, checks,   \* the browser; checks asked for
  viewer             \* one viewer's mailbox: queued states, the end, what it has read

sess == <<state, stop, verified, closed>>
proc == <<helper, done, browser>>
vars == <<sess, life, stopper, shutdown, events, commands, proc, checks, viewer>>

Refused   == {"cancelled", "timed_out", "failed"}
Confirmed == {"succeeded", "confirm_failed"}
Terminal  == Refused \cup Confirmed
Waiting   == {"starting", "waiting_for_user", "checking"}
States    == Waiting \cup Terminal \cup {"verified", "browser_closed", "confirming"}
Reasons   == {"none", "verified", "cancelled", "timeout", "browser_closed", "error"}

TypeOK ==
  /\ state \in States
  /\ stop \in {"none"} \cup Refused /\ verified \in BOOLEAN /\ closed \in Reasons
  /\ life \in {"none", "spawning", "wait", "drain", "finish", "mark", "scrape", "over"}
  /\ stopper \in {"none", "cancel", "term", "kill", "over"}
  /\ shutdown \in {"none", "stops", "lifecycles", "over"}
  /\ events \in Seq(Waiting \cup {"ready", "signed_in"} \cup Reasons)
  /\ commands \in Seq({"check", "cancel"}) /\ Len(commands) <= MaxChecks + 1
  /\ helper \in {"none", "launch", "ready", "checking", "hung", "gone"} /\ done \in Reasons
  /\ browser \in {"none", "open", "left"} /\ checks \in 0..MaxChecks
  /\ viewer \in [on: BOOLEAN, queue: Seq(States), ended: BOOLEAN, seen: {"none"} \cup States]
  /\ (viewer.seen \in Terminal => state = viewer.seen)

Init ==
  /\ state = "starting" /\ stop = "none" /\ verified = FALSE /\ closed = "none"
  /\ life = "none" /\ stopper = "none" /\ shutdown = "none"
  /\ events = <<>> /\ commands = <<>> /\ helper = "none" /\ done = "none" /\ browser = "none" /\ checks = 0
  /\ viewer = [on |-> FALSE, queue |-> <<>>, ended |-> FALSE, seen |-> "none"]

Ended == state \in Terminal

(* _set_state, _end and their posts to the viewers; nothing follows an end.*)
(* Mutant: an end is not posted behind queued messages.                    *)
SetState(s) ==
  /\ state' = IF Ended THEN state ELSE s
  /\ viewer' = IF Ended \/ ~viewer.on THEN viewer
               ELSE IF s \in Terminal THEN [viewer EXCEPT !.ended = TRUE]
               ELSE [viewer EXCEPT !.queue = Append(@, s)]

-----------------------------------------------------------------------------
(* LoginSessionManager.start: the session is put in the table, ...         *)
Begin ==
  /\ life = "none" /\ shutdown = "none" /\ life' = "spawning"
  /\ UNCHANGED <<sess, stopper, shutdown, events, commands, proc, checks, viewer>>

(* ... and the helper is spawned, or could not be.  A stop that was asked for    *)
(* meanwhile begins now.                                                   *)
Spawned ==
  /\ life = "spawning"
  /\ \/ /\ helper' = "launch" /\ life' = "wait" /\ UNCHANGED <<state, viewer>>
        /\ stopper' = IF stop = "none" THEN "none" ELSE "cancel"
     \/ SetState("failed") /\ life' = "over" /\ UNCHANGED <<helper, stopper>>
  /\ UNCHANGED <<stop, verified, closed, shutdown, events, commands, done, browser, checks>>

(* _request_stop: the first state asked for stays, and one stop sequence   *)
(* runs.  Mutant: each request begins it again.                            *)
RequestAgain(s) ==
  /\ stop' = IF stop = "none" THEN s ELSE stop
  /\ stopper' = IF life # "spawning" THEN "cancel" ELSE stopper
RequestStop(s) ==
  /\ stop' = IF stop = "none" THEN s ELSE stop
  /\ stopper' = IF stopper = "none" /\ life # "spawning" THEN "cancel" ELSE stopper

Cancel ==
  /\ life # "none" /\ ~Ended /\ state # "confirming" /\ stop = "none" /\ RequestStop("cancelled")
  /\ UNCHANGED <<state, verified, closed, life, shutdown, events, commands, proc, checks, viewer>>

Check ==
  /\ ~Ended /\ stop = "none" /\ helper \notin {"none", "gone"} /\ checks < MaxChecks
  /\ checks' = checks + 1 /\ commands' = Append(commands, "check")
  /\ UNCHANGED <<sess, life, stopper, shutdown, events, proc, viewer>>

(* _watchdog: the time limit at any moment, or a helper that went silent.  *)
Watchdog(s) ==
  /\ life = "wait" /\ helper # "gone" /\ stop = "none" /\ (s = "failed" => helper = "hung") /\ RequestStop(s)
  /\ UNCHANGED <<state, verified, closed, life, shutdown, events, commands, proc, checks, viewer>>

(* _stop_helper: cancel, then SIGTERM, then SIGKILL, each after a wait.    *)
StopHelper ==
  /\ stopper \in {"cancel", "term", "kill"}
  /\ stopper' = IF helper = "gone" THEN "over" ELSE [cancel |-> "term", term |-> "kill", kill |-> "over"][stopper]
  /\ commands' = IF stopper = "cancel" /\ helper # "gone" THEN Append(commands, "cancel") ELSE commands
  /\ \/ helper # "gone" /\ stopper = "term" /\ helper # "hung" /\ done = "none" /\ done' = "cancelled" /\ UNCHANGED helper
     \/ helper # "gone" /\ stopper = "kill" /\ helper' = "gone" /\ UNCHANGED done
     \/ (helper = "gone" \/ stopper = "cancel" \/ (stopper = "term" /\ (helper = "hung" \/ done # "none"))) /\ UNCHANGED <<helper, done>>
  /\ browser' = IF helper' = "gone" /\ browser = "open" THEN "left" ELSE browser
  /\ UNCHANGED <<sess, life, shutdown, events, checks, viewer>>

(* _on_event, for the reader.                                              *)
ReadEvent ==
  /\ events # <<>> /\ life \in {"wait", "drain"} /\ events' = Tail(events)
  /\ LET e == Head(events) IN
       CASE e = "ready" -> /\ IF state = "starting" /\ stop = "none" THEN SetState("waiting_for_user") ELSE UNCHANGED <<state, viewer>>
                           /\ UNCHANGED <<verified, closed>>
         [] e \in Waiting -> /\ IF state \in Waiting /\ stop = "none" THEN SetState(e) ELSE UNCHANGED <<state, viewer>>
                             /\ UNCHANGED <<verified, closed>>
         [] e = "signed_in" -> verified' = TRUE /\ SetState("verified") /\ UNCHANGED closed
         [] OTHER -> closed' = e /\ UNCHANGED <<state, viewer, verified>>
  /\ UNCHANGED <<stop, life, stopper, shutdown, commands, proc, checks>>

-----------------------------------------------------------------------------
(* _lifecycle.  Mutants: the helper's last lines are not waited for; its   *)
(* browser is not looked for.                                              *)
NotDrained == TRUE
Drained    == events = <<>>
LeavesIt   == browser
Reaped     == IF browser = "left" THEN "none" ELSE browser

Exited ==
  /\ life = "wait" /\ helper = "gone" /\ life' = "drain"
  /\ UNCHANGED <<sess, stopper, shutdown, events, commands, proc, checks, viewer>>

ReapStragglers ==
  /\ life = "drain" /\ Drained /\ life' = "finish" /\ browser' = Reaped
  /\ UNCHANGED <<sess, stopper, shutdown, events, commands, helper, done, checks, viewer>>

Outcome ==
  IF verified THEN "verified" ELSE IF stop # "none" THEN stop
  ELSE CASE closed = "browser_closed" -> "browser_closed" [] closed = "cancelled" -> "cancelled"
         [] closed = "timeout" -> "timed_out" [] OTHER -> "failed"

Finish ==
  /\ life = "finish" /\ SetState(Outcome)
  /\ life' = IF Outcome \in {"verified", "browser_closed"} THEN "mark" ELSE "over"
  /\ UNCHANGED <<stop, verified, closed, stopper, shutdown, events, commands, proc, checks>>

(* _confirm: a verified login is marked, then the one scrape runs.         *)
Confirm ==
  /\ life = "mark"
  /\ IF shutdown # "none" THEN SetState("cancelled") /\ life' = "over"
                          ELSE SetState("confirming") /\ life' = "scrape"
  /\ UNCHANGED <<stop, verified, closed, stopper, shutdown, events, commands, proc, checks>>

Scraped ==
  /\ life = "scrape" /\ life' = "over" /\ \E s \in Confirmed : SetState(s)
  /\ UNCHANGED <<stop, verified, closed, stopper, shutdown, events, commands, proc, checks>>

(* shutdown, once the server has answered its last request: the helpers    *)
(* are stopped, then the lifecycles get some time and are cancelled.       *)
ShutDown ==
  /\ shutdown = "none" /\ life # "spawning"
  /\ IF life # "none" /\ ~Ended /\ state # "confirming" THEN RequestStop("cancelled") ELSE UNCHANGED <<stop, stopper>>
  /\ shutdown' = "stops"
  /\ UNCHANGED <<state, verified, closed, life, events, commands, proc, checks, viewer>>

(* Mutant: the stops are asked for and not awaited.                        *)
StopsAsked == TRUE
StopsDone  == stopper \in {"none", "over"}

Stopped ==
  /\ shutdown = "stops" /\ StopsDone /\ shutdown' = "lifecycles"
  /\ UNCHANGED <<sess, life, stopper, events, commands, proc, checks, viewer>>

LifecyclesDone ==
  /\ shutdown = "lifecycles" /\ shutdown' = "over" /\ life' = IF life = "none" THEN life ELSE "over"
  /\ IF life \in {"none", "over"} THEN UNCHANGED <<state, viewer>> ELSE SetState("failed")
  /\ UNCHANGED <<stop, verified, closed, stopper, events, commands, proc, checks>>

-----------------------------------------------------------------------------
(* The viewer.  attach_viewer queues the session first.                    *)
Attach ==
  /\ life # "none" /\ ~viewer.on /\ ~Ended /\ viewer' = [viewer EXCEPT !.on = TRUE, !.queue = <<state>>]
  /\ UNCHANGED <<sess, life, stopper, shutdown, events, commands, proc, checks>>

NextMessage == IF viewer.queue # <<>> THEN Head(viewer.queue) ELSE state

Send ==
  /\ viewer.on /\ (viewer.queue # <<>> \/ (viewer.ended /\ viewer.seen # state))
  /\ viewer' = [viewer EXCEPT !.seen = NextMessage, !.queue = IF @ # <<>> THEN Tail(@) ELSE @]
  /\ UNCHANGED <<sess, life, stopper, shutdown, events, commands, proc, checks>>

-----------------------------------------------------------------------------
(* The helper.  _run_with_profile and _drive: the browser comes up, or the *)
(* profile is busy or the launch fails.                                    *)
Says(s) == events' = events \o s

Launch ==
  /\ helper = "launch" /\ done = "none"
  /\ \/ helper' = "ready" /\ browser' = "open" /\ Says(<<"ready", "waiting_for_user">>) /\ UNCHANGED done
     \/ done' = "error" /\ UNCHANGED <<helper, browser, events>>
  /\ UNCHANGED <<sess, life, stopper, shutdown, commands, checks, viewer>>

(* handle_command, _timeout_watch, the browser's own close event.          *)
Obey ==
  /\ helper \in {"launch", "ready", "checking"} /\ commands # <<>> /\ commands' = Tail(commands)
  /\ IF Head(commands) = "cancel"
     THEN done' = (IF done = "none" THEN "cancelled" ELSE done) /\ UNCHANGED <<helper, events>>
     ELSE IF helper = "ready" /\ done = "none"
          THEN helper' = "checking" /\ Says(<<"checking">>) /\ UNCHANGED done
          ELSE UNCHANGED <<helper, done, events>>
  /\ UNCHANGED <<sess, life, stopper, shutdown, browser, checks, viewer>>

FinishHelper(reason) ==
  /\ done = "none" /\ helper \in {"launch", "ready", "checking"}
  /\ reason = "browser_closed" => browser = "open"
  /\ done' = reason /\ browser' = IF reason = "browser_closed" THEN "none" ELSE browser
  /\ UNCHANGED <<sess, life, stopper, shutdown, events, commands, helper, checks, viewer>>

(* _passive_check_loop and _active_check.                                  *)
SeesSignIn ==
  /\ done = "none" /\ helper \in {"ready", "checking"}
  /\ done' = "verified" /\ Says(<<"signed_in">>)
  /\ UNCHANGED <<sess, life, stopper, shutdown, commands, helper, browser, checks, viewer>>

NotSignedIn ==
  /\ done = "none" /\ helper = "checking" /\ helper' = "ready" /\ Says(<<"waiting_for_user">>)
  /\ UNCHANGED <<sess, life, stopper, shutdown, commands, done, browser, checks, viewer>>

(* _close_context, then the closed event; the browser may not close in     *)
(* time.                                                                   *)
CloseAndExit ==
  /\ done # "none" /\ helper \in {"launch", "ready", "checking"}
  /\ helper' = "gone" /\ Says(<<done>>)
  /\ browser' \in IF browser = "open" THEN {"none", "left"} ELSE {browser}
  /\ UNCHANGED <<sess, life, stopper, shutdown, commands, done, checks, viewer>>

Fails ==
  /\ helper \in {"launch", "ready", "checking"} /\ helper' \in {"hung", "gone"}
  /\ browser' = IF browser = "open" /\ helper' = "gone" THEN "left" ELSE browser
  /\ UNCHANGED <<sess, life, stopper, shutdown, events, commands, done, checks, viewer>>

Helper ==
  \/ Launch \/ Obey \/ SeesSignIn \/ NotSignedIn \/ CloseAndExit
  \/ \E reason \in {"timeout", "browser_closed", "cancelled"} : FinishHelper(reason)

Next ==
  \/ Begin \/ Spawned \/ Cancel \/ Check \/ StopHelper \/ ReadEvent \/ Exited \/ ReapStragglers \/ Finish \/ Confirm
  \/ Scraped \/ ShutDown \/ Stopped \/ LifecyclesDone \/ Attach \/ Send \/ Helper \/ Fails
  \/ \E s \in {"failed", "timed_out"} : Watchdog(s)

(* The manager's tasks go on, the watchdog's time comes, the confirmation  *)
(* scrape ends, a viewer reads.  The helper need not do anything.          *)
Fairness ==
  /\ WF_vars(Spawned) /\ WF_vars(Watchdog("timed_out")) /\ WF_vars(StopHelper) /\ WF_vars(ReadEvent)
  /\ WF_vars(Exited) /\ WF_vars(ReapStragglers) /\ WF_vars(Finish) /\ WF_vars(Confirm) /\ WF_vars(Scraped)
  /\ WF_vars(Stopped) /\ WF_vars(LifecyclesDone) /\ WF_vars(Send)

Spec == Init /\ [][Next]_vars /\ Fairness

-----------------------------------------------------------------------------
(* The session keeps the promises of LoginOutcome; a sign-in counts from   *)
(* the moment its line is in the pipe.                                     *)
SignedIn == verified \/ (\E i \in DOMAIN events : events[i] = "signed_in")
Promise == INSTANCE LoginOutcome WITH
  phase    <- IF Ended \/ state = "confirming" THEN state ELSE IF life = "none" THEN "none" ELSE "open",
  signedIn <- SignedIn,
  closing  <- shutdown # "none"
KeepsPromise == Promise!Spec

(* scraper_login.py:885-891: no browser of the login is left on the        *)
(* profile when the confirmation scrape runs.                              *)
ScrapesAlone == state = "confirming" => browser = "none"

(* When shutdown returns, no helper is left running.                       *)
ShutdownLeavesNoHelper == shutdown = "over" => helper \in {"none", "gone"}

(* Every viewer that stays learns how the session ended.                   *)
ViewerLearnsTheEnd == (viewer.on /\ Ended) ~> (viewer.seen = state)
=============================================================================
