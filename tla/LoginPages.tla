----------------------------- MODULE LoginPages -----------------------------
(***************************************************************************)
(* The tabs of a login browser in sdk/scraper_login.py: PageTracker, the   *)
(* screencast that is to show the active tab, and the list of tabs that is *)
(* reported.  The browser closes and opens tabs before the helper hears of *)
(* it; a screencast takes several awaits to move.                          *)
(***************************************************************************)
EXTENDS Naturals, SequencesExt

CONSTANTS
  Tabs,     \* tabs ever opened (a bound)
  MaxSwitches,  \* a bound
  Waiters   \* calls of _sync_screencast that wait for the lock at a time (a bound)

ConstantsAssumption == Tabs \in Nat \ {0} /\ {Waiters, MaxSwitches} \subseteq Nat

VARIABLES
  alive,    \* tabs the browser has
  opened,   \* tabs opened so far
  order,    \* PageTracker._order
  active,   \* PageTracker.active, 0 for none
  cast,     \* _cdp_page_id, 0 for none
  wait,     \* calls of _sync_screencast that have not got the lock
  sync,     \* where the call that has it is, and for which tab
  dirty, emitter,  \* _pages_dirty, and where _pages_emitter is with what it has read
  switches, \* tabs the person switched to (bounded)
  report,   \* the last list of tabs sent: their order and the active one
  done      \* finish() was called

browser == <<alive, opened>>
tracker == <<order, active>>
vars == <<browser, tracker, cast, wait, sync, dirty, emitter, report, switches, done>>

None == [ids |-> <<>>, active |-> 0]

TypeOK ==
  /\ alive \subseteq 1..opened /\ opened \in 1..Tabs
  /\ IsInjective(order) /\ Range(order) \subseteq 1..opened /\ cast \in 0..opened
  /\ active \in {0} \cup Range(order) /\ (active = 0 <=> order = <<>>)
  /\ wait \in 0..Waiters /\ sync \in [pc: {"idle", "look", "attach", "start"}, tab: 0..Tabs]
  /\ switches \in 0..MaxSwitches /\ dirty \in BOOLEAN /\ done \in BOOLEAN
  /\ emitter.pc \in {"wait", "sleep", "read"} /\ {report.active, emitter.active} \subseteq 0..opened

(* _drive has tracked the first tab, is ready and syncs the screencast.    *)
Init ==
  /\ alive = {1} /\ opened = 1 /\ order = <<1>> /\ active = 1 /\ cast = 0 /\ wait = 1
  /\ sync = [pc |-> "idle", tab |-> 0] /\ dirty = TRUE /\ emitter = [pc |-> "wait", ids |-> <<>>, active |-> 0]
  /\ report = None /\ switches = 0 /\ done = FALSE

-----------------------------------------------------------------------------
(* A tab opens (a popup, mostly) and is active at once; the active one     *)
(* closing hands over to the latest still open.                            *)
Opened(t) == order' = Append(order, t) /\ active' = t
(* Mutant: the first tab takes over, open or not.                          *)
LatestTab(rest) == IF rest = <<>> THEN 0 ELSE Last(rest)
Closed(t) ==
  LET rest == Remove(order, t) IN
  order' = rest /\ active' = IF active = t THEN LatestTab(rest) ELSE active

ActiveChanged == wait < Waiters /\ wait' = wait + 1 /\ dirty' = TRUE

OnNewPage ==
  /\ ~done /\ opened < Tabs /\ opened' = opened + 1 /\ alive' = alive \cup {opened'}
  /\ Opened(opened') /\ ActiveChanged
  /\ UNCHANGED <<cast, sync, emitter, report, switches, done>>

TabGoes(t) ==
  /\ t \in alive /\ alive' = alive \ {t}
  /\ UNCHANGED <<opened, tracker, cast, wait, sync, dirty, emitter, report, switches, done>>

OnPageClosed(t) ==
  /\ t \in Range(order) \ alive /\ Closed(t)
  /\ IF order' = <<>> THEN done' = TRUE /\ UNCHANGED <<wait, dirty>>
     ELSE IF active = t THEN ActiveChanged /\ UNCHANGED done
     ELSE dirty' = TRUE /\ UNCHANGED <<wait, done>>
  /\ UNCHANGED <<browser, cast, sync, emitter, report, switches>>

SwitchPage(t) ==
  /\ ~done /\ t \in Range(order) \ {active} /\ active' = t /\ ActiveChanged
  /\ switches < MaxSwitches /\ switches' = switches + 1
  /\ UNCHANGED <<browser, order, cast, sync, emitter, report, done>>

Finish ==
  /\ ~done /\ done' = TRUE
  /\ UNCHANGED <<browser, tracker, cast, wait, sync, dirty, emitter, report, switches>>

-----------------------------------------------------------------------------
(* _sync_screencast, under its lock: while the active tab is not the one   *)
(* shown, the old screencast stops, a session is attached to the tab, and  *)
(* started.  Either fails when the tab is gone.  Mutant: a screencast that *)
(* runs is taken for the right one.                                        *)
Running == cast # 0
Current == cast = active

TakeLock ==
  /\ sync.pc = "idle" /\ wait > 0 /\ wait' = wait - 1 /\ sync' = [pc |-> "look", tab |-> 0]
  /\ UNCHANGED <<browser, tracker, cast, dirty, emitter, report, switches, done>>

Look ==
  /\ sync.pc = "look"
  /\ IF done \/ Current THEN sync' = [pc |-> "idle", tab |-> 0] /\ UNCHANGED cast
     ELSE /\ cast' = 0
          /\ sync' = IF active = 0 THEN [pc |-> "idle", tab |-> 0] ELSE [pc |-> "attach", tab |-> active]
  /\ UNCHANGED <<browser, tracker, wait, dirty, emitter, report, switches, done>>

Attach ==
  /\ sync.pc = "attach"
  /\ IF sync.tab \in alive THEN cast' = sync.tab /\ sync' = [sync EXCEPT !.pc = "start"]
                           ELSE cast' = 0 /\ sync' = [pc |-> "idle", tab |-> 0]
  /\ UNCHANGED <<browser, tracker, wait, dirty, emitter, report, switches, done>>

Start ==
  /\ sync.pc = "start"
  /\ IF sync.tab \in alive THEN sync' = [pc |-> "look", tab |-> 0] /\ UNCHANGED cast
                           ELSE cast' = 0 /\ sync' = [pc |-> "idle", tab |-> 0]
  /\ UNCHANGED <<browser, tracker, wait, dirty, emitter, report, switches, done>>

-----------------------------------------------------------------------------
(* _pages_emitter: after a change and a pause the event is cleared, the    *)
(* tabs are read one title after the other, and the list is sent.  Mutant: *)
(* the event is cleared when the list is sent.                             *)
ClearedLate(pc) == dirty /\ pc # "read"
Cleared(pc)     == dirty /\ pc # "sleep"

Emit ==
  /\ dirty' = Cleared(emitter.pc)
  /\ CASE emitter.pc = "wait"  -> dirty /\ emitter' = [emitter EXCEPT !.pc = "sleep"] /\ UNCHANGED report
       [] emitter.pc = "sleep" -> emitter' = [pc |-> "read", ids |-> order, active |-> active] /\ UNCHANGED report
       [] OTHER -> /\ emitter' = [pc |-> "wait", ids |-> <<>>, active |-> 0]
                   /\ \E t \in {emitter.active, active} : report' = [ids |-> emitter.ids, active |-> t]
  /\ UNCHANGED <<browser, tracker, cast, wait, sync, switches, done>>

Next ==
  \/ OnNewPage \/ Finish \/ TakeLock \/ Look \/ Attach \/ Start \/ Emit
  \/ \E t \in 1..Tabs : TabGoes(t) \/ OnPageClosed(t) \/ SwitchPage(t)

Spec == Init /\ [][Next]_vars

-----------------------------------------------------------------------------
(* When no call of _sync_screencast is left, the screencast shows the      *)
(* active tab, however tabs opened and closed while it moved.              *)
CastFollows == ~done /\ wait = 0 /\ sync.pc = "idle" /\ active \in alive => cast = active

(* When nothing is left to send, the viewers have the list of tabs as it   *)
(* is, however tabs changed while it was being read.                        *)
ReportSettles ==
  ~done /\ ~dirty /\ emitter.pc = "wait" => report = [ids |-> order, active |-> active]
=============================================================================
