--------------------------- MODULE SessionsProofs ---------------------------
(***************************************************************************)
(* Proofs about the parts of MCSessions: a login session, for any number   *)
(* of checks, keeps its promises (names without a prefix are those of      *)
(* LoginSessions); a data goal that is completed is covered, for any       *)
(* numbers of contracts, expirations and listeners and any settings; a     *)
(* worker's machine runs what it was told to; and the health watch keeps,  *)
(* files and tells what it saw, for any number of overlapping checks.      *)
(***************************************************************************)
EXTENDS MCSessions, FiniteSetTheorems, WellFoundedInduction, TLAPS

EventKinds == Waiting \cup {"ready", "signed_in"} \cup Reasons
Before     == Waiting \cup {"verified"}   \* states until the lifecycle finishes

(* Each check puts one command into the pipe, and the one stop sequence    *)
(* puts one more.                                                          *)
CommandsInv ==
  /\ Len(commands) <= checks + 1
  /\ stopper \in {"none", "cancel"} => Len(commands) <= checks

(* A viewer is shown no end but the session's.                             *)
ViewerInv ==
  /\ viewer.queue \in Seq(States \ Terminal)
  /\ viewer.ended => Ended
  /\ viewer.seen \in Terminal => state = viewer.seen

(* What the lifecycle knows at each of its points.                         *)
LifeInv ==
  /\ life \in {"none", "spawning"} => state = "starting" /\ helper = "none" /\ stopper = "none" /\ ~verified
  /\ helper = "none" => events = <<>> /\ browser = "none"
  /\ life = "wait" => state \in Before /\ helper # "none"
  /\ life \in {"drain", "finish", "mark", "scrape"} => helper = "gone"
  /\ life \in {"drain", "finish"} => state \in Before
  /\ life \in {"finish", "mark", "scrape"} => events = <<>> /\ browser = "none"
  /\ life = "mark" => state \in {"verified", "browser_closed"}
  /\ life = "scrape" => state = "confirming"
  /\ life = "over" => Ended /\ helper \in {"none", "gone"}
  /\ helper = "gone" => browser # "open"

(* A stop sequence ends with the helper, and shutdown waits for it.        *)
StopInv ==
  /\ stopper = "over" => helper = "gone"
  /\ shutdown # "none" => life # "spawning" /\ (stopper = "none" => helper \in {"none", "gone"})
  /\ shutdown \in {"lifecycles", "over"} => helper \in {"none", "gone"}

ViewerStates ==
  [on: BOOLEAN, queue: Seq(States \ Terminal), ended: BOOLEAN, seen: {"none"} \cup States]

LoginInv == TypeOK /\ CommandsInv /\ ViewerInv /\ LifeInv /\ StopInv

-----------------------------------------------------------------------------
LEMMA LoginInit == Init => LoginInv
<1> USE ConstantsAssumption DEF Init, Waiting, Terminal, Refused, Confirmed, States, Reasons, Before, Ended
<1>1. ASSUME Init PROVE TypeOK
  <2>1. /\ <<>> \in Seq(States) /\ events \in Seq(Waiting \cup {"ready", "signed_in"} \cup Reasons)
        /\ commands \in Seq({"check", "cancel"}) /\ Len(commands) = 0
    BY <1>1
  <2>2. viewer \in [on: BOOLEAN, queue: Seq(States), ended: BOOLEAN, seen: {"none"} \cup States] /\ viewer.seen = "none"
    BY <1>1, <2>1
  <2>3. /\ state \in States /\ stop \in {"none"} \cup Refused /\ verified \in BOOLEAN /\ closed \in Reasons
        /\ done \in Reasons
    BY <1>1
  <2>4. checks \in 0..MaxChecks /\ Len(commands) <= MaxChecks + 1
    BY <1>1, <2>1
  <2>5. viewer.seen \notin Terminal
    BY <2>2
  <2> HIDE DEF Waiting, Terminal, Refused, Confirmed, States, Reasons
  <2> QED
    BY <1>1, <2>1, <2>2, <2>3, <2>4, <2>5 DEF TypeOK
<1>2. Init => CommandsInv /\ ViewerInv /\ LifeInv /\ StopInv
  BY DEF CommandsInv, ViewerInv, LifeInv, StopInv
<1> QED
  BY <1>1, <1>2 DEF LoginInv

(* The state tells where the lifecycle is. *)
LEMMA EndedIsOver == TypeOK /\ LifeInv => (Ended => life = "over") /\ (state = "confirming" => life = "scrape")
<1> SUFFICES ASSUME TypeOK, LifeInv PROVE (Ended => life = "over") /\ (state = "confirming" => life = "scrape")
  OBVIOUS
<1>1. life \in {"none", "spawning", "wait", "drain", "finish", "mark", "scrape", "over"}
  BY DEF TypeOK
<1>2. /\ life \in {"none", "spawning", "wait", "drain", "finish"} => state \in Before
      /\ life = "mark" => state \in {"verified", "browser_closed"}
      /\ life = "scrape" => state = "confirming"
      /\ life = "over" => state \in Terminal
  BY DEF LifeInv, Before, Waiting, Ended
<1> QED
  BY <1>1, <1>2 DEF Ended, Terminal, Refused, Confirmed, Before, Waiting

(* The messages queued for a viewer are no ends. *)
LEMMA ViewerTyped == TypeOK /\ ViewerInv => viewer \in ViewerStates
BY DEF TypeOK, ViewerInv, ViewerStates

(* The helper says what it can say. *)
LEMMA EventsAfter ==
  ASSUME events \in Seq(EventKinds), NEW s \in Seq(EventKinds), Says(s)
  PROVE  events' \in Seq(EventKinds)
BY DEF Says

(* A state that is set reaches the viewer, unless the session has ended.   *)
LEMMA SetStateStep ==
  ASSUME TypeOK, ViewerInv, NEW s \in States, SetState(s)
  PROVE  /\ state' = IF Ended THEN state ELSE s
         /\ state' \in States /\ viewer' \in ViewerStates /\ ViewerInv'
<1>1. state' = (IF Ended THEN state ELSE s) /\ state' \in States
  BY DEF SetState, TypeOK
<1>2. viewer \in ViewerStates
  BY ViewerTyped
<1>3. CASE Ended \/ ~viewer.on
  <2>1. viewer' = viewer /\ (Ended => state' = state)
    BY <1>1, <1>3 DEF SetState
  <2> QED
    BY <1>1, <1>2, <2>1 DEF ViewerInv, Ended
<1>4. CASE ~Ended /\ viewer.on /\ s \in Terminal
  <2>1. viewer' = [viewer EXCEPT !.ended = TRUE]
    BY <1>4 DEF SetState
  <2> QED
    BY <1>1, <1>2, <1>4, <2>1 DEF ViewerInv, ViewerStates, Ended
<1>5. CASE ~Ended /\ viewer.on /\ s \notin Terminal
  <2> DEFINE q == Append(viewer.queue, s)
  <2>1. viewer' = [viewer EXCEPT !.queue = q]
    BY <1>5 DEF SetState
  <2>2. q \in Seq(States \ Terminal)
    BY <1>2, <1>5 DEF ViewerStates
  <2> HIDE DEF q
  <2> QED
    BY <1>1, <1>2, <1>5, <2>1, <2>2 DEF ViewerInv, ViewerStates, Ended
<1> QED
  BY <1>3, <1>4, <1>5, <1>1

LEMMA LoginStep == LoginInv /\ [Next]_vars => LoginInv'
<1> SUFFICES ASSUME LoginInv, [Next]_vars PROVE LoginInv'
  OBVIOUS
<1> USE ConstantsAssumption DEF LoginInv, Waiting, Terminal, Refused, Confirmed, States, Reasons, Before, Ended, sess, proc
<1>1. ASSUME Begin PROVE LoginInv'
  <2> USE <1>1 DEF Begin
  <2>1. TypeOK'
    BY DEF TypeOK
  <2>2. CommandsInv'
    BY DEF TypeOK, CommandsInv
  <2>3. ViewerInv'
    BY DEF TypeOK, ViewerInv
  <2>4. LifeInv'
    BY DEF TypeOK, LifeInv
  <2>5. StopInv'
    BY DEF TypeOK, StopInv, LifeInv
  <2> QED
    BY <2>1, <2>2, <2>3, <2>4, <2>5
<1>2. ASSUME Spawned PROVE LoginInv'
  <2> USE <1>2 DEF Spawned
  <2>v. state' \in States /\ viewer' \in ViewerStates /\ ViewerInv' /\ state' \in {state, "failed"} /\ (life' # "over" => state' = state) /\ (life' = "over" => state' = "failed")
    <3>1. CASE SetState("failed") /\ life' = "over"
      BY <3>1, SetStateStep DEF TypeOK, LifeInv, ViewerInv
    <3>2. CASE life' = "wait" /\ UNCHANGED <<state, viewer>>
      BY <3>2 DEF TypeOK, ViewerInv, ViewerStates
    <3> QED
      BY <3>1, <3>2
  <2>1. TypeOK'
    BY <2>v DEF TypeOK, ViewerInv, ViewerStates, EventKinds
  <2>2. CommandsInv'
    BY DEF TypeOK, CommandsInv, LifeInv
  <2>3. ViewerInv'
    BY <2>v
  <2>4. LifeInv'
    BY <2>v DEF TypeOK, LifeInv, StopInv
  <2>5. StopInv'
    BY DEF TypeOK, StopInv, LifeInv
  <2> QED
    BY <2>1, <2>2, <2>3, <2>4, <2>5
<1>3. ASSUME Cancel PROVE LoginInv'
  <2> USE <1>3 DEF Cancel, RequestStop
  <2>1. TypeOK'
    BY DEF TypeOK
  <2>2. CommandsInv'
    BY DEF TypeOK, CommandsInv
  <2>3. ViewerInv'
    BY DEF TypeOK, ViewerInv
  <2>4. LifeInv'
    BY DEF TypeOK, LifeInv
  <2>5. StopInv'
    BY DEF TypeOK, StopInv, LifeInv
  <2> QED
    BY <2>1, <2>2, <2>3, <2>4, <2>5
<1>4. ASSUME Check PROVE LoginInv'
  <2> USE <1>4 DEF Check
  <2>1. TypeOK'
    BY DEF TypeOK, CommandsInv
  <2>2. CommandsInv'
    BY DEF TypeOK, CommandsInv
  <2>3. ViewerInv'
    BY DEF TypeOK, ViewerInv
  <2>4. LifeInv'
    BY DEF TypeOK, LifeInv
  <2>5. StopInv'
    BY DEF TypeOK, StopInv, LifeInv
  <2> QED
    BY <2>1, <2>2, <2>3, <2>4, <2>5
<1>5. ASSUME StopHelper PROVE LoginInv'
  <2> USE <1>5 DEF StopHelper
  <2>1. TypeOK'
    BY DEF TypeOK, CommandsInv
  <2>2. CommandsInv'
    BY DEF TypeOK, CommandsInv
  <2>3. ViewerInv'
    BY DEF TypeOK, ViewerInv
  <2>4. LifeInv'
    BY DEF TypeOK, LifeInv, StopInv
  <2>5. StopInv'
    BY DEF TypeOK, StopInv, LifeInv
  <2> QED
    BY <2>1, <2>2, <2>3, <2>4, <2>5
<1>6. ASSUME ReadEvent PROVE LoginInv'
  <2> USE <1>6 DEF ReadEvent
  <2>v. state' \in States /\ viewer' \in ViewerStates /\ ViewerInv' /\ state' \in Before
    <3>1. state \in Before
      BY DEF LifeInv
    <3>2. \/ UNCHANGED <<state, viewer>>
          \/ \E e \in Before : SetState(e)
      BY DEF TypeOK
    <3>3. CASE UNCHANGED <<state, viewer>>
      BY <3>1, <3>3 DEF TypeOK, ViewerInv, ViewerStates
    <3>4. ASSUME NEW e \in Before, SetState(e) PROVE state' = e /\ viewer' \in ViewerStates /\ ViewerInv'
      BY <3>1, <3>4, SetStateStep
    <3> QED
      BY <3>2, <3>3, <3>4
  <2>e. events' \in Seq(EventKinds) /\ closed' \in Reasons /\ verified' \in BOOLEAN
    <3>1. events \in Seq(EventKinds) /\ Head(events) \in EventKinds
      BY DEF TypeOK, EventKinds
    <3>2. events' \in Seq(EventKinds)
      BY <3>1
    <3>3. closed' \in Reasons /\ verified' \in BOOLEAN
      BY <3>1 DEF TypeOK, EventKinds
    <3> QED
      BY <3>2, <3>3
  <2>1. TypeOK'
    BY <2>v, <2>e DEF TypeOK, ViewerInv, ViewerStates, EventKinds
  <2>2. CommandsInv'
    BY DEF TypeOK, CommandsInv
  <2>3. ViewerInv'
    BY <2>v
  <2>4. LifeInv'
    BY <2>v, <2>e DEF TypeOK, LifeInv
  <2>5. StopInv'
    BY DEF TypeOK, StopInv, LifeInv
  <2> QED
    BY <2>1, <2>2, <2>3, <2>4, <2>5
<1>7. ASSUME Exited PROVE LoginInv'
  <2> USE <1>7 DEF Exited
  <2>1. TypeOK'
    BY DEF TypeOK
  <2>2. CommandsInv'
    BY DEF TypeOK, CommandsInv
  <2>3. ViewerInv'
    BY DEF TypeOK, ViewerInv
  <2>4. LifeInv'
    BY DEF TypeOK, LifeInv
  <2>5. StopInv'
    BY DEF TypeOK, StopInv, LifeInv
  <2> QED
    BY <2>1, <2>2, <2>3, <2>4, <2>5
<1>8. ASSUME ReapStragglers PROVE LoginInv'
  <2> USE <1>8 DEF ReapStragglers, Drained, Reaped
  <2>1. TypeOK'
    BY DEF TypeOK
  <2>2. CommandsInv'
    BY DEF TypeOK, CommandsInv
  <2>3. ViewerInv'
    BY DEF TypeOK, ViewerInv
  <2>4. LifeInv'
    BY DEF TypeOK, LifeInv
  <2>5. StopInv'
    BY DEF TypeOK, StopInv, LifeInv
  <2> QED
    BY <2>1, <2>2, <2>3, <2>4, <2>5
<1>9. ASSUME Finish PROVE LoginInv'
  <2> USE <1>9 DEF Finish, Outcome
  <2>v. state' \in States /\ viewer' \in ViewerStates /\ ViewerInv' /\ state' = Outcome
    <3>1. Outcome \in States /\ SetState(Outcome) /\ ~Ended
      BY DEF TypeOK, LifeInv
    <3> QED
      BY <3>1, SetStateStep
  <2>1. TypeOK'
    BY <2>v DEF TypeOK, ViewerInv, ViewerStates, EventKinds
  <2>2. CommandsInv'
    BY DEF TypeOK, CommandsInv
  <2>3. ViewerInv'
    BY <2>v
  <2>4. LifeInv'
    BY <2>v DEF TypeOK, LifeInv
  <2>5. StopInv'
    BY DEF TypeOK, StopInv, LifeInv
  <2> QED
    BY <2>1, <2>2, <2>3, <2>4, <2>5
<1>10. ASSUME Confirm PROVE LoginInv'
  <2> USE <1>10 DEF Confirm
  <2>v. state' \in States /\ viewer' \in ViewerStates /\ ViewerInv' /\ state' = IF shutdown # "none" THEN "cancelled" ELSE "confirming"
    <3>1. ~Ended
      BY DEF LifeInv
    <3>2. CASE SetState("cancelled") /\ shutdown # "none"
      BY <3>1, <3>2, SetStateStep
    <3>3. CASE SetState("confirming") /\ shutdown = "none"
      BY <3>1, <3>3, SetStateStep
    <3> QED
      BY <3>2, <3>3
  <2>1. TypeOK'
    BY <2>v DEF TypeOK, ViewerInv, ViewerStates, EventKinds
  <2>2. CommandsInv'
    BY DEF TypeOK, CommandsInv
  <2>3. ViewerInv'
    BY <2>v
  <2>4. LifeInv'
    BY <2>v DEF TypeOK, LifeInv
  <2>5. StopInv'
    BY DEF TypeOK, StopInv, LifeInv
  <2> QED
    BY <2>1, <2>2, <2>3, <2>4, <2>5
<1>11. ASSUME Scraped PROVE LoginInv'
  <2> USE <1>11 DEF Scraped
  <2>v. state' \in States /\ viewer' \in ViewerStates /\ ViewerInv' /\ state' \in Confirmed
    <3>1. ~Ended /\ \E s \in Confirmed : SetState(s)
      BY DEF LifeInv
    <3> QED
      BY <3>1, SetStateStep
  <2>1. TypeOK'
    BY <2>v DEF TypeOK, ViewerInv, ViewerStates, EventKinds
  <2>2. CommandsInv'
    BY DEF TypeOK, CommandsInv
  <2>3. ViewerInv'
    BY <2>v
  <2>4. LifeInv'
    BY <2>v DEF TypeOK, LifeInv
  <2>5. StopInv'
    BY DEF TypeOK, StopInv, LifeInv
  <2> QED
    BY <2>1, <2>2, <2>3, <2>4, <2>5
<1>12. ASSUME ShutDown PROVE LoginInv'
  <2> USE <1>12 DEF ShutDown, RequestStop
  <2>1. TypeOK'
    BY DEF TypeOK
  <2>2. CommandsInv'
    BY DEF TypeOK, CommandsInv
  <2>3. ViewerInv'
    BY DEF TypeOK, ViewerInv
  <2>4. LifeInv'
    BY DEF TypeOK, LifeInv, StopInv
  <2>5. StopInv'
    <3>1. CASE life # "none" /\ ~Ended /\ state # "confirming"
      BY <3>1 DEF StopInv
    <3>2. CASE ~(life # "none" /\ ~Ended /\ state # "confirming")
      <4>1. UNCHANGED <<stop, stopper, life, helper>> /\ life # "spawning"
        BY <3>2
      <4>2. helper \in {"none", "gone"}
        BY <3>2, EndedIsOver DEF LifeInv
      <4> QED
        BY <4>1, <4>2 DEF StopInv
    <3> QED
      BY <3>1, <3>2
  <2> QED
    BY <2>1, <2>2, <2>3, <2>4, <2>5
<1>13. ASSUME Stopped PROVE LoginInv'
  <2> USE <1>13 DEF Stopped, StopsDone
  <2>1. TypeOK'
    BY DEF TypeOK
  <2>2. CommandsInv'
    BY DEF TypeOK, CommandsInv
  <2>3. ViewerInv'
    BY DEF TypeOK, ViewerInv
  <2>4. LifeInv'
    BY DEF TypeOK, LifeInv
  <2>5. StopInv'
    BY DEF TypeOK, StopInv, LifeInv
  <2> QED
    BY <2>1, <2>2, <2>3, <2>4, <2>5
<1>14. ASSUME LifecyclesDone PROVE LoginInv'
  <2> USE <1>14 DEF LifecyclesDone
  <2>v. state' \in States /\ viewer' \in ViewerStates /\ ViewerInv' /\ (life \in {"none", "over"} => state' = state) /\ (Ended => state' = state) /\ (life \notin {"none", "over"} => Ended')
    <3>1. CASE SetState("failed") /\ life \notin {"none", "over"}
      BY <3>1, SetStateStep DEF LifeInv
    <3>2. CASE life \in {"none", "over"} /\ UNCHANGED <<state, viewer>>
      BY <3>2 DEF TypeOK, ViewerInv, ViewerStates
    <3> QED
      BY <3>1, <3>2
  <2>1. TypeOK'
    BY <2>v DEF TypeOK, ViewerInv, ViewerStates, EventKinds
  <2>2. CommandsInv'
    BY DEF TypeOK, CommandsInv
  <2>3. ViewerInv'
    BY <2>v
  <2>4. LifeInv'
    BY <2>v DEF TypeOK, LifeInv, StopInv
  <2>5. StopInv'
    BY DEF TypeOK, StopInv, LifeInv
  <2> QED
    BY <2>1, <2>2, <2>3, <2>4, <2>5
<1>15. ASSUME Attach PROVE LoginInv'
  <2> USE <1>15 DEF Attach
  <2>v. viewer' \in ViewerStates /\ ViewerInv'
    <3>1. <<state>> \in Seq(States \ Terminal) /\ viewer' = [viewer EXCEPT !.on = TRUE, !.queue = <<state>>]
      BY DEF TypeOK
    <3>2. \A q \in Seq(States \ Terminal) : [viewer EXCEPT !.on = TRUE, !.queue = q] \in ViewerStates
      BY ViewerTyped DEF ViewerStates
    <3> QED
      BY <3>1, <3>2, ViewerTyped DEF ViewerStates, ViewerInv
  <2>1. TypeOK'
    BY <2>v DEF TypeOK, ViewerInv, ViewerStates, EventKinds
  <2>2. CommandsInv'
    BY DEF TypeOK, CommandsInv
  <2>3. ViewerInv'
    BY <2>v
  <2>4. LifeInv'
    BY <2>v DEF TypeOK, LifeInv
  <2>5. StopInv'
    BY DEF TypeOK, StopInv, LifeInv
  <2> QED
    BY <2>1, <2>2, <2>3, <2>4, <2>5
<1>16. ASSUME Send PROVE LoginInv'
  <2> USE <1>16 DEF Send, NextMessage
  <2>v. viewer' \in ViewerStates /\ ViewerInv'
    <3> DEFINE q == IF viewer.queue # <<>> THEN Tail(viewer.queue) ELSE viewer.queue
    <3>1. /\ viewer \in ViewerStates /\ q \in Seq(States \ Terminal) /\ NextMessage \in States
          /\ NextMessage \in Terminal => NextMessage = state
      BY ViewerTyped DEF TypeOK, ViewerInv
    <3>2. viewer' = [viewer EXCEPT !.seen = NextMessage, !.queue = q]
      OBVIOUS
    <3> HIDE DEF q, NextMessage
    <3> QED
      BY <3>1, <3>2 DEF ViewerInv, ViewerStates
  <2>1. TypeOK'
    BY <2>v DEF TypeOK, ViewerInv, ViewerStates, EventKinds
  <2>2. CommandsInv'
    BY DEF TypeOK, CommandsInv
  <2>3. ViewerInv'
    BY <2>v
  <2>4. LifeInv'
    BY <2>v DEF TypeOK, LifeInv
  <2>5. StopInv'
    BY DEF TypeOK, StopInv, LifeInv
  <2> QED
    BY <2>1, <2>2, <2>3, <2>4, <2>5
<1>17. ASSUME Launch PROVE LoginInv'
  <2> USE <1>17 DEF Launch
  <2>e. events' \in Seq(EventKinds)
    <3>1. <<"ready", "waiting_for_user">> \in Seq(EventKinds) /\ events \in Seq(EventKinds)
      BY DEF TypeOK, EventKinds
    <3> QED
      BY <3>1, EventsAfter
  <2>1. TypeOK'
    BY <2>e DEF TypeOK, ViewerInv, ViewerStates, EventKinds
  <2>2. CommandsInv'
    BY DEF TypeOK, CommandsInv
  <2>3. ViewerInv'
    BY DEF TypeOK, ViewerInv
  <2>4. LifeInv'
    BY <2>e DEF TypeOK, LifeInv
  <2>5. StopInv'
    BY DEF TypeOK, StopInv, LifeInv
  <2> QED
    BY <2>1, <2>2, <2>3, <2>4, <2>5
<1>18. ASSUME Obey PROVE LoginInv'
  <2> USE <1>18 DEF Obey
  <2>e. events' \in Seq(EventKinds)
    <3>1. <<"checking">> \in Seq(EventKinds) /\ events \in Seq(EventKinds)
      BY DEF TypeOK, EventKinds
    <3> QED
      BY <3>1, EventsAfter
  <2>1. TypeOK'
    BY <2>e DEF TypeOK, CommandsInv, ViewerInv, ViewerStates, EventKinds
  <2>2. CommandsInv'
    BY DEF TypeOK, CommandsInv
  <2>3. ViewerInv'
    BY DEF TypeOK, ViewerInv
  <2>4. LifeInv'
    BY <2>e DEF TypeOK, LifeInv
  <2>5. StopInv'
    BY DEF TypeOK, StopInv, LifeInv
  <2> QED
    BY <2>1, <2>2, <2>3, <2>4, <2>5
<1>19. ASSUME SeesSignIn PROVE LoginInv'
  <2> USE <1>19 DEF SeesSignIn
  <2>e. events' \in Seq(EventKinds)
    <3>1. <<"signed_in">> \in Seq(EventKinds) /\ events \in Seq(EventKinds)
      BY DEF TypeOK, EventKinds
    <3> QED
      BY <3>1, EventsAfter
  <2>1. TypeOK'
    BY <2>e DEF TypeOK, ViewerInv, ViewerStates, EventKinds
  <2>2. CommandsInv'
    BY DEF TypeOK, CommandsInv
  <2>3. ViewerInv'
    BY DEF TypeOK, ViewerInv
  <2>4. LifeInv'
    BY <2>e DEF TypeOK, LifeInv
  <2>5. StopInv'
    BY DEF TypeOK, StopInv, LifeInv
  <2> QED
    BY <2>1, <2>2, <2>3, <2>4, <2>5
<1>20. ASSUME NotSignedIn PROVE LoginInv'
  <2> USE <1>20 DEF NotSignedIn
  <2>e. events' \in Seq(EventKinds)
    <3>1. <<"waiting_for_user">> \in Seq(EventKinds) /\ events \in Seq(EventKinds)
      BY DEF TypeOK, EventKinds
    <3> QED
      BY <3>1, EventsAfter
  <2>1. TypeOK'
    BY <2>e DEF TypeOK, ViewerInv, ViewerStates, EventKinds
  <2>2. CommandsInv'
    BY DEF TypeOK, CommandsInv
  <2>3. ViewerInv'
    BY DEF TypeOK, ViewerInv
  <2>4. LifeInv'
    BY <2>e DEF TypeOK, LifeInv
  <2>5. StopInv'
    BY DEF TypeOK, StopInv, LifeInv
  <2> QED
    BY <2>1, <2>2, <2>3, <2>4, <2>5
<1>21. ASSUME CloseAndExit PROVE LoginInv'
  <2> USE <1>21 DEF CloseAndExit
  <2>e. events' \in Seq(EventKinds)
    <3>1. <<done>> \in Seq(EventKinds) /\ events \in Seq(EventKinds)
      BY DEF TypeOK, EventKinds
    <3> QED
      BY <3>1, EventsAfter
  <2>1. TypeOK'
    BY <2>e DEF TypeOK, ViewerInv, ViewerStates, EventKinds
  <2>2. CommandsInv'
    BY DEF TypeOK, CommandsInv
  <2>3. ViewerInv'
    BY DEF TypeOK, ViewerInv
  <2>4. LifeInv'
    BY <2>e DEF TypeOK, LifeInv
  <2>5. StopInv'
    BY DEF TypeOK, StopInv, LifeInv
  <2> QED
    BY <2>1, <2>2, <2>3, <2>4, <2>5
<1>22. ASSUME Fails PROVE LoginInv'
  <2> USE <1>22 DEF Fails
  <2>1. TypeOK'
    BY DEF TypeOK
  <2>2. CommandsInv'
    BY DEF TypeOK, CommandsInv
  <2>3. ViewerInv'
    BY DEF TypeOK, ViewerInv
  <2>4. LifeInv'
    BY DEF TypeOK, LifeInv
  <2>5. StopInv'
    BY DEF TypeOK, StopInv, LifeInv
  <2> QED
    BY <2>1, <2>2, <2>3, <2>4, <2>5
<1>23. ASSUME NEW reason \in {"timeout", "browser_closed", "cancelled"}, FinishHelper(reason) PROVE LoginInv'
  <2> USE <1>23 DEF FinishHelper
  <2>1. TypeOK'
    BY DEF TypeOK
  <2>2. CommandsInv'
    BY DEF TypeOK, CommandsInv
  <2>3. ViewerInv'
    BY DEF TypeOK, ViewerInv
  <2>4. LifeInv'
    BY DEF TypeOK, LifeInv
  <2>5. StopInv'
    BY DEF TypeOK, StopInv, LifeInv
  <2> QED
    BY <2>1, <2>2, <2>3, <2>4, <2>5
<1>24. ASSUME NEW s \in {"failed", "timed_out"}, Watchdog(s) PROVE LoginInv'
  <2> USE <1>24 DEF Watchdog, RequestStop
  <2>1. TypeOK'
    BY DEF TypeOK
  <2>2. CommandsInv'
    BY DEF TypeOK, CommandsInv
  <2>3. ViewerInv'
    BY DEF TypeOK, ViewerInv
  <2>4. LifeInv'
    BY DEF TypeOK, LifeInv
  <2>5. StopInv'
    BY DEF TypeOK, StopInv, LifeInv
  <2> QED
    BY <2>1, <2>2, <2>3, <2>4, <2>5
<1>25. ASSUME UNCHANGED vars PROVE LoginInv'
  BY <1>25 DEF vars, TypeOK, CommandsInv, ViewerInv, LifeInv, StopInv
<1> QED
  BY <1>1, <1>2, <1>3, <1>4, <1>5, <1>6, <1>7, <1>8, <1>9, <1>10, <1>11, <1>12, <1>13, <1>14, <1>15, <1>16, <1>17, <1>18, <1>19, <1>20, <1>21, <1>22, <1>23, <1>24, <1>25 DEF Next, Helper

-----------------------------------------------------------------------------
(* The promise, in the terms of the session. *)
Phase   == IF Ended \/ state = "confirming" THEN state ELSE IF life = "none" THEN "none" ELSE "open"
Closing == shutdown # "none"

PromiseMoves ==
  \/ Phase' = Phase /\ SignedIn' = SignedIn /\ Closing' = Closing
  \/ Phase = "none" /\ Phase' = "open" /\ SignedIn' = SignedIn /\ Closing' = Closing
  \/ Phase = "open" /\ SignedIn' /\ Phase' = Phase /\ Closing' = Closing
  \/ Phase = "open" /\ Phase' = "confirming" /\ SignedIn' = SignedIn /\ Closing' = Closing
  \/ Closing' /\ Phase' = Phase /\ SignedIn' = SignedIn
  \/ /\ SignedIn' = SignedIn /\ Closing' = Closing
     /\ \/ Phase = "open" /\ (SignedIn => Closing) /\ Phase' \in Refused
        \/ Phase = "confirming" /\ Phase' \in Confirmed
        \/ Phase # "none" /\ Phase \notin Terminal /\ Closing /\ Phase' = "failed"

LEMMA PromiseOf == PromiseMoves => [Promise!Next]_(Promise!vars)
BY DEF PromiseMoves, Phase, Closing, Terminal, Promise!Next, Promise!vars, Promise!Begin, Promise!SignIn, Promise!Confirm,
   Promise!Close, Promise!End, Promise!Over

(* A line in the pipe is a sign-in, or is not. *)
LEMMA SaysOther ==
  ASSUME events \in Seq(EventKinds), NEW e \in EventKinds \ {"signed_in"}, NEW f \in EventKinds \ {"signed_in"},
         Says(<<e>>) \/ Says(<<e, f>>), UNCHANGED verified
  PROVE  SignedIn' = SignedIn
<1> DEFINE n == Len(events)
<1>1. n \in Nat /\ DOMAIN events = 1..n
  OBVIOUS
<1>2. CASE Says(<<e>>)
  <2>1. events' = events \o <<e>>
    BY <1>2 DEF Says
  <2>2. DOMAIN events' = 1..(n + 1) /\ events'[n + 1] = e /\ \A i \in 1..n : events'[i] = events[i]
    BY <2>1
  <2> HIDE DEF n
  <2> QED
    BY <1>1, <2>2 DEF SignedIn
<1>3. CASE Says(<<e, f>>)
  <2>1. events' = events \o <<e, f>>
    BY <1>3 DEF Says
  <2>2. /\ DOMAIN events' = 1..(n + 2) /\ events'[n + 1] = e /\ events'[n + 2] = f
        /\ \A i \in 1..n : events'[i] = events[i]
    BY <2>1
  <2> HIDE DEF n
  <2>3. \A i \in 1..(n + 2) : i \in 1..n \/ i = n + 1 \/ i = n + 2
    BY <1>1
  <2> QED
    BY <1>1, <2>2, <2>3 DEF SignedIn
<1> QED
  BY <1>2, <1>3

LEMMA ReadsLine ==
  ASSUME events \in Seq(EventKinds), events # <<>>, events' = Tail(events)
  PROVE  (\E i \in DOMAIN events : events[i] = "signed_in") <=>
         (Head(events) = "signed_in" \/ (\E i \in DOMAIN events' : events'[i] = "signed_in"))
<1> DEFINE n == Len(events)
<1>1. n \in Nat \ {0} /\ DOMAIN events = 1..n /\ Head(events) = events[1]
  OBVIOUS
<1>2. DOMAIN events' = 1..(n - 1) /\ \A i \in 1..(n - 1) : events'[i] = events[i + 1]
  OBVIOUS
<1> HIDE DEF n
<1>3. \A i \in 1..n : i = 1 \/ (i - 1 \in 1..(n - 1) /\ (i - 1) + 1 = i)
  BY <1>1
<1>4. ASSUME NEW i \in 1..n, events[i] = "signed_in", i # 1 PROVE \E j \in DOMAIN events' : events'[j] = "signed_in"
  BY <1>2, <1>3, <1>4
<1>5. ASSUME NEW j \in DOMAIN events', events'[j] = "signed_in" PROVE \E i \in DOMAIN events : events[i] = "signed_in"
  <2>1. j + 1 \in 1..n /\ events[j + 1] = "signed_in"
    BY <1>1, <1>2, <1>5
  <2> QED
    BY <1>1, <2>1
<1>6. 1 \in DOMAIN events
  BY <1>1
<1> QED
  BY <1>1, <1>4, <1>5, <1>6

LEMMA PromiseStep == LoginInv /\ [Next]_vars => PromiseMoves
<1> SUFFICES ASSUME LoginInv, [Next]_vars PROVE PromiseMoves
  OBVIOUS
<1>0. /\ TypeOK /\ LifeInv /\ StopInv /\ events \in Seq(EventKinds) /\ verified \in BOOLEAN
      /\ (Ended => life = "over") /\ (state = "confirming" => life = "scrape")
      /\ LoginInv' /\ (Ended' => life' = "over") /\ (state' = "confirming" => life' = "scrape")
  <2>1. LoginInv'
    BY LoginStep
  <2>2. TypeOK /\ LifeInv /\ TypeOK' /\ LifeInv'
    BY <2>1 DEF LoginInv
  <2>3. (Ended' => life' = "over") /\ (state' = "confirming" => life' = "scrape")
    <3>1. (TypeOK /\ LifeInv => (Ended => life = "over") /\ (state = "confirming" => life = "scrape"))'
      BY EndedIsOver, PTL
    <3> QED
      BY <2>2, <3>1
  <2> QED
    BY <2>1, <2>2, <2>3, EndedIsOver DEF LoginInv, TypeOK, EventKinds
<1>1. ASSUME Begin PROVE PromiseMoves
  BY <1>0, <1>1 DEF Begin, PromiseMoves, Phase, Closing, SignedIn, LifeInv, Ended, Terminal, Refused, Confirmed, sess, proc
<1>2. ASSUME Spawned PROVE PromiseMoves
  <2>1. ~Ended /\ state = "starting" /\ SignedIn = FALSE /\ life = "spawning" /\ UNCHANGED <<events, verified, shutdown>>
    BY <1>0, <1>2 DEF Spawned, LifeInv, SignedIn, Ended, Terminal, Refused, Confirmed
  <2>2. (state' = state /\ life' = "wait") \/ state' = "failed"
    BY <1>2, <2>1 DEF Spawned, SetState
  <2> QED
    BY <2>1, <2>2 DEF PromiseMoves, Phase, Closing, SignedIn, Ended, Terminal, Refused, Confirmed
<1>3. ASSUME \/ Cancel \/ Check \/ StopHelper \/ Exited \/ ReapStragglers \/ Stopped \/ Attach \/ Send \/ Fails \/ UNCHANGED vars
             \/ (\E reason \in {"timeout", "browser_closed", "cancelled"} : FinishHelper(reason))
             \/ (\E s \in {"failed", "timed_out"} : Watchdog(s))
      PROVE  PromiseMoves
  <2>1. UNCHANGED <<state, verified, events>> /\ (life = "none" <=> life' = "none") /\ (shutdown = "none" <=> shutdown' = "none")
    BY <1>3 DEF Cancel, Check, StopHelper, Exited, ReapStragglers, Stopped, Attach, Send, Fails, FinishHelper, Watchdog, vars, sess, proc
  <2> QED
    BY <2>1 DEF PromiseMoves, Phase, Closing, SignedIn, Ended
<1>4. ASSUME Launch \/ Obey \/ NotSignedIn \/ CloseAndExit PROVE PromiseMoves
  <2>1. UNCHANGED <<state, verified, life, shutdown>>
    BY <1>4 DEF Launch, Obey, NotSignedIn, CloseAndExit, sess
  <2>2. \/ events' = events
        \/ \E e, f \in EventKinds \ {"signed_in"} : Says(<<e>>) \/ Says(<<e, f>>)
    <3>1. {"ready", "waiting_for_user", "checking", done} \subseteq EventKinds \ {"signed_in"}
      BY <1>0 DEF TypeOK, EventKinds, Waiting, Reasons
    <3>2. CASE Launch
      BY <3>1, <3>2 DEF Launch
    <3>3. CASE Obey
      BY <3>1, <3>3 DEF Obey
    <3>4. CASE NotSignedIn
      BY <3>1, <3>4 DEF NotSignedIn
    <3>5. CASE CloseAndExit
      BY <3>1, <3>5 DEF CloseAndExit
    <3> QED
      BY <1>4, <3>2, <3>3, <3>4, <3>5
  <2>3. SignedIn' = SignedIn
    BY <1>0, <2>1, <2>2, SaysOther DEF SignedIn
  <2> QED
    BY <2>1, <2>3 DEF PromiseMoves, Phase, Closing, Ended
<1>5. ASSUME SeesSignIn PROVE PromiseMoves
  <2>1. UNCHANGED <<state, verified, life, shutdown>> /\ events' = events \o <<"signed_in">> /\ helper \in {"ready", "checking"}
    BY <1>5 DEF SeesSignIn, sess, Says
  <2>2. SignedIn'
    <3>1. events'[Len(events) + 1] = "signed_in" /\ Len(events) + 1 \in DOMAIN events'
      BY <1>0, <2>1
    <3> QED
      BY <3>1 DEF SignedIn
  <2>3. life = "wait"
    BY <1>0, <2>1 DEF TypeOK, LifeInv
  <2>4. Phase = "open"
    BY <1>0, <2>3 DEF Phase
  <2> QED
    BY <2>1, <2>2, <2>4 DEF PromiseMoves, Phase, Closing, Ended
<1>6. ASSUME ReadEvent PROVE PromiseMoves
  <2>1. events # <<>> /\ life \in {"wait", "drain"} /\ events' = Tail(events) /\ UNCHANGED <<life, shutdown>>
    BY <1>6 DEF ReadEvent
  <2>2. (Head(events) = "signed_in" => verified' = TRUE) /\ (Head(events) # "signed_in" => verified' = verified)
    BY <1>6 DEF ReadEvent, Waiting
  <2>3. SignedIn' = SignedIn
    BY <1>0, <2>1, <2>2, ReadsLine DEF SignedIn, LoginInv, TypeOK
  <2>4. Phase = "open" /\ Phase' = "open"
    BY <1>0, <2>1 DEF Phase
  <2> QED
    BY <2>1, <2>3, <2>4 DEF PromiseMoves, Closing
<1>7. ASSUME Finish PROVE PromiseMoves
  <2>1. UNCHANGED <<verified, events, shutdown>> /\ life = "finish" /\ events = <<>> /\ ~Ended
        /\ state' = Outcome /\ (life' = "mark" <=> Outcome \in {"verified", "browser_closed"}) /\ life' \in {"mark", "over"}
    BY <1>0, <1>7 DEF Finish, SetState, LifeInv
  <2>2. Phase = "open" /\ SignedIn' = SignedIn /\ (SignedIn => verified)
    BY <1>0, <2>1 DEF Phase, SignedIn
  <2>3. Outcome \in {"verified", "browser_closed"} \/ (Outcome \in Refused /\ ~verified)
    BY <1>0 DEF Outcome, TypeOK, Refused
  <2>4. CASE Outcome \in {"verified", "browser_closed"}
    <3>1. Phase' = "open"
      BY <1>0, <2>1, <2>4 DEF Phase
    <3> QED
      BY <2>1, <2>2, <3>1 DEF PromiseMoves, Closing
  <2>5. CASE Outcome \in Refused /\ ~verified
    <3>1. Phase' \in Refused
      BY <2>1, <2>5 DEF Phase, Ended, Terminal
    <3> QED
      BY <2>1, <2>2, <2>5, <3>1 DEF PromiseMoves, Closing
  <2> QED
    BY <2>3, <2>4, <2>5
<1>8. ASSUME Confirm PROVE PromiseMoves
  <2>1. UNCHANGED <<verified, events, shutdown>> /\ life = "mark" /\ ~Ended
        /\ state' = IF shutdown # "none" THEN "cancelled" ELSE "confirming"
    BY <1>0, <1>8 DEF Confirm, SetState
  <2>2. Phase = "open" /\ SignedIn' = SignedIn
    BY <1>0, <2>1 DEF Phase, SignedIn
  <2>3. Phase' = state'
    BY <2>1 DEF Phase, Ended, Terminal, Refused
  <2> QED
    BY <2>1, <2>2, <2>3 DEF PromiseMoves, Closing, Refused
<1>9. ASSUME Scraped PROVE PromiseMoves
  <2>1. UNCHANGED <<verified, events, shutdown>> /\ life = "scrape" /\ ~Ended /\ state = "confirming" /\ state' \in Confirmed
    BY <1>0, <1>9 DEF Scraped, SetState, LifeInv
  <2>2. Phase = "confirming" /\ Phase' \in Confirmed /\ SignedIn' = SignedIn
    BY <2>1 DEF Phase, SignedIn, Ended, Terminal
  <2> QED
    BY <2>1, <2>2 DEF PromiseMoves, Closing
<1>10. ASSUME ShutDown PROVE PromiseMoves
  <2>1. UNCHANGED <<state, verified, events, life>> /\ shutdown' = "stops"
    BY <1>10 DEF ShutDown
  <2> QED
    BY <2>1 DEF PromiseMoves, Phase, Closing, SignedIn, Ended
<1>11. ASSUME LifecyclesDone PROVE PromiseMoves
  <2>1. UNCHANGED <<verified, events>> /\ shutdown = "lifecycles" /\ shutdown' = "over" /\ life' = IF life = "none" THEN life ELSE "over"
    BY <1>11 DEF LifecyclesDone
  <2>2. CASE life \in {"none", "over"}
    BY <1>11, <2>1, <2>2 DEF LifecyclesDone, PromiseMoves, Phase, Closing, SignedIn, Ended
  <2>3. CASE life \notin {"none", "over"}
    <3>1. ~Ended /\ state' = "failed"
      BY <1>0, <1>11, <2>3 DEF LifecyclesDone, SetState
    <3>2. Phase # "none" /\ Phase \notin Terminal /\ Phase' = "failed"
      BY <2>3, <3>1 DEF Phase, Ended, Terminal, Refused, Confirmed
    <3> QED
      BY <2>1, <3>2 DEF PromiseMoves, Closing, SignedIn
  <2> QED
    BY <2>2, <2>3
<1> QED
  BY <1>1, <1>2, <1>3, <1>4, <1>5, <1>6, <1>7, <1>8, <1>9, <1>10, <1>11 DEF Next, Helper

LEMMA PromiseInit == Init => Promise!Init
BY DEF Init, Promise!Init, SignedIn, Ended, Terminal, Refused, Confirmed

-----------------------------------------------------------------------------
(* A goal's coroutines, rows and files *)

ActorStates ==
  [pc: {"idle", "scan", "query", "plan", "create", "recount", "write", "row"},
   terminal: SUBSET Goal!Contracts, slot: Nat, busy: SUBSET Goal!Contracts, plan: SUBSET Goal!Contracts]

(* The goal's contracts for which the provider has, or has not, data.      *)
WithData(F)    == {s \in F : answer[s] = "data"}
WithoutData(F) == {s \in F : answer[s] = "nodata"}

(* What the rows and files say of the goal's contracts F. *)
RowsInv ==
  /\ \A s \in found : Goal!ExpOf[s] # 0
  /\ \A s \in Goal!Contracts : inFlight[s] > 0 => s \in found
  /\ disk \subseteq WithData(found) \cup Foreign
  /\ terminal \subseteq WithoutData(found)
  /\ \A d \in ended : d[1] \in found /\ (d[2] = "nodata" => answer[d[1]] = "nodata")

(* What coroutine a, suspended with the record r, has read, when the       *)
(* contracts are F and those without data N.                               *)
ActorInv(a, r, F, N) ==
  /\ r.terminal \subseteq N
  /\ r.pc = "scan" => a = "tick" /\ r.plan = F
  /\ r.pc = "plan" => r.slot > 0
  /\ r.pc = "create" => r.plan # {} /\ r.plan \subseteq F

ActorsInv == \A a \in Goal!Actors : ActorInv(a, actor[a], found, WithoutData(found))

(* goal_processor.py:219-221: a completed goal has every contract on disk, *)
(* or the provider has no data for it.                                     *)
CompletedMeansAnswered ==
  phase = "completed" => \A s \in found : s \in disk \/ answer[s] = "nodata"

PhaseInv ==
  /\ actor["tick"].pc = "scan" => phase = "discovering"
  /\ actor["tick"].pc \in {"query", "plan", "create", "recount", "write"} => phase = "downloading"

(* With one listener, the row's terminal symbols only grow. *)
TerminalGrows ==
  /\ actor["tick"].terminal \subseteq terminal
  /\ \A l \in Listeners : actor[l].pc = "row" => terminal \subseteq actor[l].terminal

GoalInv   == Goal!TypeOK /\ RowsInv /\ ActorsInv /\ PhaseInv /\ (Foreign = {} => CompletedMeansAnswered)
CoveredInv == GoalInv /\ TerminalGrows /\ Goal!CompletedMeansCovered

-----------------------------------------------------------------------------
(* The instance has the operators of the library. *)
LEMMA GoalCardinality == \A S : Goal!Cardinality(S) = Cardinality(S)
BY DEF Goal!Cardinality, Cardinality

LEMMA SettingInv ==
  ASSUME Goal!ConstantsAssumption, Goal!TypeOK
  PROVE  Goal!ExpOf \in [1..Symbols -> 0..Expirations] /\ Goal!MaxErrors \in Nat
BY DEF Goal!ConstantsAssumption, Goal!TypeOK, Goal!ExpOf, Goal!MaxErrors

(* The first of a set of contracts is in it. *)
LEMMA MinOf ==
  ASSUME NEW S \in SUBSET Nat, S # {}
  PROVE  Goal!Min(S) \in S /\ \A t \in S : Goal!Min(S) <= t
<1>1. PICK m \in S : \A t \in S : ~(<<t, m>> \in OpToRel(<, Nat))
  BY NatLessThanWellFounded, WFMin
<1>2. \A t \in S : ~(t < m)
  BY <1>1, Zenon DEF OpToRel
<1>3. \A t \in S : m <= t
  BY <1>2
<1> QED
  BY <1>3 DEF Goal!Min

LEMMA ContractsFinite == Goal!ConstantsAssumption => IsFiniteSet(Goal!Contracts)
BY FS_Interval DEF Goal!ConstantsAssumption, Goal!Contracts

(* There is always a first contract to download. *)
LEMMA FirstOf ==
  ASSUME Goal!ConstantsAssumption, NEW S \in SUBSET Goal!Contracts, NEW n \in Nat \ {0}
  PROVE  Goal!First(S, n) \subseteq S /\ (S # {} => Goal!First(S, n) # {})
<1>1. Goal!First(S, n) \subseteq S
  BY GoalCardinality DEF Goal!First
<1>2. ASSUME S # {} PROVE Goal!First(S, n) # {}
  <2>0. S \in SUBSET Nat
    BY DEF Goal!Contracts
  <2>1. PICK m \in S : \A t \in S : m <= t
    BY <2>0, <1>2, MinOf
  <2>2. \A t \in S : t <= m <=> t = m
    BY <2>0, <2>1
  <2>3. {t \in S : t <= m} = {m}
    BY <2>2, Zenon
  <2>4. Cardinality({t \in S : t <= m}) <= n
    BY <2>3, FS_Singleton
  <2> QED
    BY GoalCardinality, <2>1, <2>4 DEF Goal!First
<1> QED
  BY <1>1, <1>2

(* A goal that has enough has all of it. *)
LEMMA EnoughIsAll ==
  ASSUME Goal!ConstantsAssumption, GoalInv, Foreign = {}, Goal!Enough
  PROVE  found = cache \cup actor["tick"].terminal
<1> DEFINE T == actor["tick"].terminal
<1>1. IsFiniteSet(found) /\ cache \in SUBSET found /\ T \in SUBSET found /\ cache \cap T = {}
  <2>1. "tick" \in Goal!Actors
    BY DEF Goal!Actors
  <2>2. found \in SUBSET Goal!Contracts /\ cache \subseteq disk
    BY DEF GoalInv, Goal!TypeOK
  <2>3. T \subseteq WithoutData(found)
    BY <2>1 DEF GoalInv, ActorsInv, ActorInv
  <2>4. cache \subseteq WithData(found)
    BY <2>2 DEF GoalInv, RowsInv
  <2> QED
    BY <2>2, <2>3, <2>4, ContractsFinite, FS_Subset DEF WithData, WithoutData
<1>2. IsFiniteSet(cache) /\ IsFiniteSet(T) /\ cache \cup T \in SUBSET found
  BY <1>1, FS_Subset
<1>3. Cardinality(cache \cup T) = Cardinality(cache) + Cardinality(T)
  <2>1. Cardinality(cache \cup T) = Cardinality(cache) + Cardinality(T) - Cardinality(cache \cap T)
    BY <1>2, FS_Union
  <2>2. Cardinality(cache \cap T) = 0
    BY <1>1, FS_EmptySet
  <2>3. Cardinality(cache) \in Nat /\ Cardinality(T) \in Nat
    BY <1>2, FS_CardinalityType
  <2> HIDE DEF T
  <2> QED
    BY <2>1, <2>2, <2>3
<1>4. Cardinality(found) \in Nat /\ Cardinality(cache \cup T) \in Nat /\ Cardinality(cache \cup T) <= Cardinality(found)
  BY <1>1, <1>2, FS_Subset, FS_CardinalityType
<1>5. Cardinality(found) = Cardinality(cache \cup T)
  BY GoalCardinality, <1>3, <1>4 DEF Goal!Enough
<1> QED
  BY <1>1, <1>2, <1>5, FS_Subset

(* A coroutine goes on with the record r. *)
LEMMA SetActor ==
  ASSUME Goal!TypeOK, NEW a \in Goal!Actors, NEW r \in ActorStates, Goal!Set(a, r)
  PROVE  /\ actor' \in [Goal!Actors -> ActorStates]
         /\ actor'[a] = r
         /\ \A b \in Goal!Actors : b # a => actor'[b] = actor[b]
BY DEF Goal!TypeOK, Goal!Set, ActorStates

LEMMA ActorsStep ==
  ASSUME GoalInv, NEW a \in Goal!Actors, NEW r \in ActorStates, Goal!Set(a, r),
         UNCHANGED <<found, answer>>, ActorInv(a, r, found, WithoutData(found))
  PROVE  ActorsInv' /\ actor' \in [Goal!Actors -> ActorStates]
<1>1. actor' \in [Goal!Actors -> ActorStates] /\ actor'[a] = r /\ \A b \in Goal!Actors : b # a => actor'[b] = actor[b]
  BY SetActor DEF GoalInv
<1>2. found' = found /\ WithoutData(found)' = WithoutData(found)
  BY DEF WithoutData
<1>3. ASSUME NEW b \in Goal!Actors PROVE ActorInv(b, actor'[b], found, WithoutData(found))
  BY <1>1 DEF GoalInv, ActorsInv
<1> QED
  BY <1>1, <1>2, <1>3 DEF ActorsInv

-----------------------------------------------------------------------------
LEMMA GoalInit == Goal!ConstantsAssumption /\ Goal!Init => CoveredInv
<1> SUFFICES ASSUME Goal!ConstantsAssumption, Goal!Init PROVE CoveredInv
  OBVIOUS
<1>1. \A a \in Goal!Actors : actor[a] = Goal!Idle
  BY DEF Goal!Init
<1>2. Goal!TypeOK
  BY DEF Goal!ConstantsAssumption, Goal!Init, Goal!TypeOK, Goal!MaxErrors, Goal!Idle, Goal!Contracts
<1>3. RowsInv
  BY DEF Goal!Init, RowsInv, WithData, WithoutData
<1>4. ActorsInv
  BY <1>1 DEF ActorsInv, ActorInv, Goal!Idle
<1>5. PhaseInv /\ TerminalGrows
  BY <1>1 DEF Goal!Init, PhaseInv, TerminalGrows, Goal!Idle, Goal!Actors
<1>6. CompletedMeansAnswered /\ Goal!CompletedMeansCovered
  BY DEF Goal!Init, CompletedMeansAnswered, Goal!CompletedMeansCovered
<1> QED
  BY <1>2, <1>3, <1>4, <1>5, <1>6 DEF CoveredInv, GoalInv

LEMMA GoalStep == Goal!ConstantsAssumption /\ GoalInv /\ [Goal!Next]_goalVars => GoalInv'
<1> SUFFICES ASSUME Goal!ConstantsAssumption, GoalInv, [Goal!Next]_goalVars PROVE GoalInv'
  OBVIOUS
<1>a. /\ "tick" \in Goal!Actors /\ "tick" \notin Listeners /\ \A l \in Listeners : l \in Goal!Actors
      /\ Goal!Idle \in ActorStates /\ \A a \in Goal!Actors : ActorInv(a, Goal!Idle, found, WithoutData(found))
  BY DEF Goal!Actors, Goal!ConstantsAssumption, Goal!Idle, ActorStates, ActorInv
<1>b. /\ Goal!TypeOK /\ RowsInv /\ ActorsInv /\ PhaseInv /\ (Foreign = {} => CompletedMeansAnswered)
      /\ actor \in [Goal!Actors -> ActorStates] /\ \A a \in Goal!Actors : ActorInv(a, actor[a], found, WithoutData(found))
      /\ setting' = setting /\ Goal!ExpOf' = Goal!ExpOf /\ Goal!MaxErrors' = Goal!MaxErrors
      /\ Goal!ExpOf \in [1..Symbols -> 0..Expirations] /\ Goal!MaxErrors \in Nat
  BY SettingInv DEF GoalInv, Goal!TypeOK, ActorStates, ActorsInv, Goal!Next, goalVars, Goal!ExpOf, Goal!MaxErrors
<1>1. ASSUME Goal!Tick PROVE GoalInv'
  <2> DEFINE r == IF phase = "discovering" THEN [Goal!Idle EXCEPT !.pc = "scan", !.plan = found]
                 ELSE [Goal!Idle EXCEPT !.pc = "query", !.terminal = terminal]
  <2>1. r \in ActorStates
    BY <1>b DEF Goal!TypeOK, ActorStates, Goal!Idle
  <2>2. ActorInv("tick", r, found, WithoutData(found))
    BY <1>b DEF ActorInv, RowsInv, Goal!Idle
  <2>3. Goal!Set("tick", r) /\ "tick" \in Goal!Actors
    BY <1>a, <1>1 DEF Goal!Tick
  <2>4. UNCHANGED <<status, phase, found, terminal, inFlight, disk, cooling, ended, errors, answer>>
    BY <1>1 DEF Goal!Tick
  <2>5. /\ r.pc = "scan" => phase' = "discovering"
        /\ r.pc \in {"query", "plan", "create", "recount", "write"} => phase' = "downloading"
    BY <1>a, <1>b, <1>1, <2>4 DEF Goal!Tick, PhaseInv, ActorStates, Goal!TypeOK, Goal!Idle, Goal!Done
  <2> HIDE DEF r
  <2>6. /\ ActorsInv' /\ actor' \in [Goal!Actors -> ActorStates]
        /\ actor'["tick"] = r /\ \A b \in Goal!Actors : b # "tick" => actor'[b] = actor[b]
    BY <1>b, <2>1, <2>2, <2>3, <2>4, ActorsStep, SetActor
  <2>7. Goal!TypeOK'
    <3>1. scanned' \subseteq 1..Expirations /\ cache' \subseteq disk
      BY <1>a, <1>b, <1>1 DEF Goal!Tick, Goal!TypeOK, RowsInv, ActorStates, ActorInv, Goal!Refreshed, Goal!ConstantsAssumption, Goal!Contracts
    <3> QED
      BY <1>b, <2>4, <2>6, <3>1 DEF Goal!TypeOK, ActorStates
  <2>8. RowsInv'
    BY <1>b, <2>4 DEF RowsInv, WithData, WithoutData
  <2>9. PhaseInv'
    BY <1>a, <1>b, <2>4, <2>5, <2>6 DEF PhaseInv
  <2>10. Foreign = {} => CompletedMeansAnswered'
    BY <1>b, <2>4 DEF CompletedMeansAnswered
  <2> QED
    BY <2>6, <2>7, <2>8, <2>9, <2>10 DEF GoalInv
<1>2. ASSUME Goal!ScanRaises PROVE GoalInv'
  <2> DEFINE r == Goal!Idle
  <2>1. r \in ActorStates
    BY <1>a
  <2>2. ActorInv("tick", r, found, WithoutData(found))
    BY <1>a
  <2>3. Goal!Set("tick", r) /\ "tick" \in Goal!Actors
    BY <1>a, <1>2 DEF Goal!ScanRaises, Goal!Scanning, Goal!goal
  <2>4. UNCHANGED <<status, phase, found, terminal, scanned, inFlight, disk, cache, cooling, ended, answer>>
    BY <1>2 DEF Goal!ScanRaises, Goal!Scanning, Goal!goal
  <2>5. /\ r.pc = "scan" => phase' = "discovering"
        /\ r.pc \in {"query", "plan", "create", "recount", "write"} => phase' = "downloading"
    BY <1>a, <1>b, <1>2, <2>4 DEF Goal!ScanRaises, PhaseInv, ActorStates, Goal!TypeOK, Goal!Idle, Goal!Done
  <2> HIDE DEF r
  <2>6. /\ ActorsInv' /\ actor' \in [Goal!Actors -> ActorStates]
        /\ actor'["tick"] = r /\ \A b \in Goal!Actors : b # "tick" => actor'[b] = actor[b]
    BY <1>b, <2>1, <2>2, <2>3, <2>4, ActorsStep, SetActor
  <2>7. Goal!TypeOK'
    <3>1. errors' \in 0..Goal!MaxErrors
      BY <1>a, <1>b, <1>2 DEF Goal!ScanRaises, Goal!TypeOK, RowsInv, ActorStates, ActorInv, Goal!ConstantsAssumption
    <3> QED
      BY <1>b, <2>4, <2>6, <3>1 DEF Goal!TypeOK, ActorStates
  <2>8. RowsInv'
    BY <1>b, <2>4 DEF RowsInv, WithData, WithoutData
  <2>9. PhaseInv'
    BY <1>a, <1>b, <2>4, <2>5, <2>6 DEF PhaseInv
  <2>10. Foreign = {} => CompletedMeansAnswered'
    BY <1>b, <2>4 DEF CompletedMeansAnswered
  <2> QED
    BY <2>6, <2>7, <2>8, <2>9, <2>10 DEF GoalInv
<1>3. ASSUME Goal!EndScan PROVE GoalInv'
  <2> DEFINE r == Goal!Idle
  <2>1. r \in ActorStates
    BY <1>a
  <2>2. ActorInv("tick", r, found, WithoutData(found))
    BY <1>a
  <2>3. Goal!Set("tick", r) /\ "tick" \in Goal!Actors
    BY <1>a, <1>3 DEF Goal!EndScan
  <2>4. UNCHANGED <<status, found, terminal, scanned, inFlight, disk, cache, cooling, ended, errors, answer>>
    BY <1>3 DEF Goal!EndScan
  <2>5. /\ r.pc = "scan" => phase' = "discovering"
        /\ r.pc \in {"query", "plan", "create", "recount", "write"} => phase' = "downloading"
    BY <1>a, <1>b, <1>3, <2>4 DEF Goal!EndScan, PhaseInv, ActorStates, Goal!TypeOK, Goal!Idle, Goal!Done
  <2> HIDE DEF r
  <2>6. /\ ActorsInv' /\ actor' \in [Goal!Actors -> ActorStates]
        /\ actor'["tick"] = r /\ \A b \in Goal!Actors : b # "tick" => actor'[b] = actor[b]
    BY <1>b, <2>1, <2>2, <2>3, <2>4, ActorsStep, SetActor
  <2>7. Goal!TypeOK'
    <3>1. phase' \in {"discovering", "downloading", "completed"}
      BY <1>a, <1>b, <1>3 DEF Goal!EndScan, Goal!TypeOK, RowsInv, ActorStates, ActorInv
    <3> QED
      BY <1>b, <2>4, <2>6, <3>1 DEF Goal!TypeOK, ActorStates
  <2>8. RowsInv'
    BY <1>b, <2>4 DEF RowsInv, WithData, WithoutData
  <2>9. PhaseInv'
    BY <1>a, <1>b, <2>4, <2>5, <2>6 DEF PhaseInv
  <2>10. Foreign = {} => CompletedMeansAnswered'
    BY <1>b, <1>3, <2>4 DEF CompletedMeansAnswered, Goal!EndScan
  <2> QED
    BY <2>6, <2>7, <2>8, <2>9, <2>10 DEF GoalInv
<1>4. ASSUME Goal!Recount PROVE GoalInv'
  <2> DEFINE r == [actor["tick"] EXCEPT !.pc = "write", !.busy = Goal!InFlight]
  <2>1. r \in ActorStates
    BY <1>a, <1>b DEF ActorStates, Goal!InFlight, Goal!TypeOK
  <2>2. ActorInv("tick", r, found, WithoutData(found))
    BY <1>a, <1>b DEF ActorInv, ActorStates
  <2>3. Goal!Set("tick", r) /\ "tick" \in Goal!Actors
    BY <1>a, <1>4 DEF Goal!Recount, Goal!goal, Goal!InFlight
  <2>4. UNCHANGED <<status, phase, found, terminal, scanned, inFlight, disk, cache, cooling, ended, errors, answer>>
    BY <1>4 DEF Goal!Recount, Goal!goal, Goal!InFlight
  <2>5. /\ r.pc = "scan" => phase' = "discovering"
        /\ r.pc \in {"query", "plan", "create", "recount", "write"} => phase' = "downloading"
    BY <1>a, <1>b, <1>4, <2>4 DEF Goal!Recount, PhaseInv, ActorStates, Goal!TypeOK, Goal!Idle, Goal!Done
  <2> HIDE DEF r
  <2>6. /\ ActorsInv' /\ actor' \in [Goal!Actors -> ActorStates]
        /\ actor'["tick"] = r /\ \A b \in Goal!Actors : b # "tick" => actor'[b] = actor[b]
    BY <1>b, <2>1, <2>2, <2>3, <2>4, ActorsStep, SetActor
  <2>7. Goal!TypeOK'
    BY <1>b, <2>4, <2>6 DEF Goal!TypeOK, ActorStates
  <2>8. RowsInv'
    BY <1>b, <2>4 DEF RowsInv, WithData, WithoutData
  <2>9. PhaseInv'
    BY <1>a, <1>b, <2>4, <2>5, <2>6 DEF PhaseInv
  <2>10. Foreign = {} => CompletedMeansAnswered'
    BY <1>b, <2>4 DEF CompletedMeansAnswered
  <2> QED
    BY <2>6, <2>7, <2>8, <2>9, <2>10 DEF GoalInv
<1>5. ASSUME Goal!WriteGoal PROVE GoalInv'
  <2> DEFINE r == Goal!Idle
  <2>1. r \in ActorStates
    BY <1>a
  <2>2. ActorInv("tick", r, found, WithoutData(found))
    BY <1>a
  <2>3. Goal!Set("tick", r) /\ "tick" \in Goal!Actors
    BY <1>a, <1>5 DEF Goal!WriteGoal
  <2>4. UNCHANGED <<found, terminal, scanned, inFlight, disk, cache, cooling, ended, errors, answer>>
    BY <1>5 DEF Goal!WriteGoal
  <2>5. /\ r.pc = "scan" => phase' = "discovering"
        /\ r.pc \in {"query", "plan", "create", "recount", "write"} => phase' = "downloading"
    BY <1>a, <1>b, <1>5, <2>4 DEF Goal!WriteGoal, PhaseInv, ActorStates, Goal!TypeOK, Goal!Idle, Goal!Done
  <2> HIDE DEF r
  <2>6. /\ ActorsInv' /\ actor' \in [Goal!Actors -> ActorStates]
        /\ actor'["tick"] = r /\ \A b \in Goal!Actors : b # "tick" => actor'[b] = actor[b]
    BY <1>b, <2>1, <2>2, <2>3, <2>4, ActorsStep, SetActor
  <2>7. Goal!TypeOK'
    <3>1. status' \in {"active", "paused", "completed", "deleted"} /\ phase' \in {"discovering", "downloading", "completed"}
      BY <1>a, <1>b, <1>5 DEF Goal!WriteGoal, Goal!TypeOK, RowsInv, ActorStates, ActorInv
    <3> QED
      BY <1>b, <2>4, <2>6, <3>1 DEF Goal!TypeOK, ActorStates
  <2>8. RowsInv'
    BY <1>b, <2>4 DEF RowsInv, WithData, WithoutData
  <2>9. PhaseInv'
    BY <1>a, <1>b, <2>4, <2>5, <2>6 DEF PhaseInv
  <2>10. Foreign = {} => CompletedMeansAnswered'
    <3>1. phase' = "completed" => phase = "completed" \/ Goal!Enough
      BY <1>5 DEF Goal!WriteGoal
    <3>2. Foreign = {} /\ Goal!Enough => \A s \in found : s \in disk \/ answer[s] = "nodata"
      BY <1>a, <1>b, EnoughIsAll DEF Goal!TypeOK, ActorInv, WithoutData
    <3> QED
      BY <1>b, <2>4, <3>1, <3>2 DEF CompletedMeansAnswered
  <2> QED
    BY <2>6, <2>7, <2>8, <2>9, <2>10 DEF GoalInv
<1>6. ASSUME NEW a \in Goal!Actors, Goal!Query(a) PROVE GoalInv'
  <2> DEFINE r == IF found = {} \/ Cardinality(Goal!InFlight) >= Concurrency + 1 THEN Goal!Done(a)
                 ELSE [actor[a] EXCEPT !.pc = "plan", !.slot = (Concurrency + 1) - Cardinality(Goal!InFlight), !.busy = Goal!InFlight]
  <2>0. Goal!Done(a) \in ActorStates /\ ActorInv(a, Goal!Done(a), found, WithoutData(found)) /\ Cardinality(Goal!InFlight) \in Nat
    <3>1. IsFiniteSet(Goal!InFlight)
      BY <1>b, ContractsFinite, FS_Subset DEF Goal!InFlight, Goal!TypeOK
    <3> QED
      BY <1>a, <1>b, <3>1, FS_CardinalityType DEF Goal!Done, ActorStates, ActorInv
  <2>n. ~(Cardinality(Goal!InFlight) >= Concurrency + 1) => (Concurrency + 1) - Cardinality(Goal!InFlight) \in Nat \ {0}
    BY <2>0 DEF Goal!ConstantsAssumption
  <2>i. Goal!InFlight \in SUBSET Goal!Contracts
    BY <1>b DEF Goal!InFlight, Goal!TypeOK
  <2>1. r \in ActorStates
    BY <1>b, <2>0, <2>n, <2>i DEF ActorStates
  <2>2. ActorInv(a, r, found, WithoutData(found))
    BY <1>b, <2>0, <2>n DEF ActorInv, ActorStates
  <2>3. Goal!Set(a, r) /\ a \in Goal!Actors
    BY GoalCardinality, <1>a, <1>6 DEF Goal!Query, Goal!goal
  <2>4. UNCHANGED <<status, phase, found, terminal, scanned, inFlight, disk, cache, cooling, ended, errors, answer>>
    BY GoalCardinality, <1>6 DEF Goal!Query, Goal!goal
  <2>5. a = "tick" => /\ r.pc = "scan" => phase' = "discovering"
                      /\ r.pc \in {"query", "plan", "create", "recount", "write"} => phase' = "downloading"
    BY GoalCardinality, <1>a, <1>b, <1>6, <2>4 DEF Goal!Query, PhaseInv, ActorStates, Goal!TypeOK, Goal!Idle, Goal!Done
  <2> HIDE DEF r
  <2>6. /\ ActorsInv' /\ actor' \in [Goal!Actors -> ActorStates]
        /\ actor'[a] = r /\ \A b \in Goal!Actors : b # a => actor'[b] = actor[b]
    BY <1>b, <2>1, <2>2, <2>3, <2>4, ActorsStep, SetActor
  <2>7. Goal!TypeOK'
    BY <1>b, <2>4, <2>6 DEF Goal!TypeOK, ActorStates
  <2>8. RowsInv'
    BY <1>b, <2>4 DEF RowsInv, WithData, WithoutData
  <2>9. PhaseInv'
    BY <1>a, <1>b, <2>4, <2>5, <2>6 DEF PhaseInv
  <2>10. Foreign = {} => CompletedMeansAnswered'
    BY <1>b, <2>4 DEF CompletedMeansAnswered
  <2> QED
    BY <2>6, <2>7, <2>8, <2>9, <2>10 DEF GoalInv
<1>7. ASSUME NEW a \in Goal!Actors, Goal!Plan(a) PROVE GoalInv'
  <2> DEFINE r == IF Goal!Eligible(a) = {} THEN Goal!Done(a)
                 ELSE [actor[a] EXCEPT !.pc = "create", !.plan = Goal!First(Goal!Eligible(a), actor[a].slot)]
  <2>0. Goal!Done(a) \in ActorStates /\ ActorInv(a, Goal!Done(a), found, WithoutData(found)) /\ Goal!Eligible(a) \in SUBSET Goal!Contracts
    BY <1>a, <1>b, <1>7 DEF Goal!Done, ActorStates, ActorInv, Goal!Eligible, Goal!TypeOK
  <2>f. Goal!First(Goal!Eligible(a), actor[a].slot) \subseteq Goal!Eligible(a) /\ (Goal!Eligible(a) # {} => Goal!First(Goal!Eligible(a), actor[a].slot) # {})
    <3>1. actor[a].slot \in Nat \ {0}
      BY <1>b, <1>7 DEF ActorInv, ActorStates, Goal!Plan
    <3> QED
      BY <2>0, <3>1, FirstOf
  <2>1. r \in ActorStates
    BY <1>b, <2>0, <2>f DEF ActorStates
  <2>2. ActorInv(a, r, found, WithoutData(found))
    BY <1>b, <2>0, <2>f DEF ActorInv, ActorStates, Goal!Eligible
  <2>3. Goal!Set(a, r) /\ a \in Goal!Actors
    BY <1>a, <1>7 DEF Goal!Plan, Goal!goal
  <2>4. UNCHANGED <<status, phase, found, terminal, scanned, inFlight, disk, cache, cooling, ended, errors, answer>>
    BY <1>7 DEF Goal!Plan, Goal!goal
  <2>5. a = "tick" => /\ r.pc = "scan" => phase' = "discovering"
                      /\ r.pc \in {"query", "plan", "create", "recount", "write"} => phase' = "downloading"
    BY <1>a, <1>b, <1>7, <2>4 DEF Goal!Plan, PhaseInv, ActorStates, Goal!TypeOK, Goal!Idle, Goal!Done
  <2> HIDE DEF r
  <2>6. /\ ActorsInv' /\ actor' \in [Goal!Actors -> ActorStates]
        /\ actor'[a] = r /\ \A b \in Goal!Actors : b # a => actor'[b] = actor[b]
    BY <1>b, <2>1, <2>2, <2>3, <2>4, ActorsStep, SetActor
  <2>7. Goal!TypeOK'
    BY <1>b, <2>4, <2>6 DEF Goal!TypeOK, ActorStates
  <2>8. RowsInv'
    BY <1>b, <2>4 DEF RowsInv, WithData, WithoutData
  <2>9. PhaseInv'
    BY <1>a, <1>b, <2>4, <2>5, <2>6 DEF PhaseInv
  <2>10. Foreign = {} => CompletedMeansAnswered'
    BY <1>b, <2>4 DEF CompletedMeansAnswered
  <2> QED
    BY <2>6, <2>7, <2>8, <2>9, <2>10 DEF GoalInv
<1>8. ASSUME NEW a \in Goal!Actors, Goal!Create(a) PROVE GoalInv'
  <2> DEFINE r == IF actor[a].plan \ {Goal!Min(actor[a].plan)} = {} THEN Goal!Done(a)
                 ELSE [actor[a] EXCEPT !.plan = actor[a].plan \ {Goal!Min(actor[a].plan)}]
  <2>0. /\ Goal!Done(a) \in ActorStates /\ ActorInv(a, Goal!Done(a), found, WithoutData(found))
        /\ Goal!Min(actor[a].plan) \in actor[a].plan /\ actor[a].plan \subseteq found
    <3>1. actor[a].plan \in SUBSET Nat /\ actor[a].plan # {} /\ actor[a].plan \subseteq found
      BY <1>b, <1>8 DEF ActorInv, ActorStates, Goal!Create, Goal!Contracts
    <3> QED
      BY <1>a, <1>b, <3>1, MinOf DEF Goal!Done, ActorStates, ActorInv
  <2>1. r \in ActorStates
    BY <1>b, <2>0 DEF ActorStates
  <2>2. ActorInv(a, r, found, WithoutData(found))
    BY <1>b, <1>8, <2>0 DEF ActorInv, ActorStates, Goal!Create
  <2>3. Goal!Set(a, r) /\ a \in Goal!Actors
    BY <1>a, <1>8 DEF Goal!Create, Goal!goal
  <2>4. UNCHANGED <<status, phase, found, terminal, scanned, disk, cache, cooling, ended, errors, answer>>
    BY <1>8 DEF Goal!Create, Goal!goal
  <2>5. a = "tick" => /\ r.pc = "scan" => phase' = "discovering"
                      /\ r.pc \in {"query", "plan", "create", "recount", "write"} => phase' = "downloading"
    BY <1>a, <1>b, <1>8, <2>4 DEF Goal!Create, PhaseInv, ActorStates, Goal!TypeOK, Goal!Idle, Goal!Done
  <2> HIDE DEF r
  <2>6. /\ ActorsInv' /\ actor' \in [Goal!Actors -> ActorStates]
        /\ actor'[a] = r /\ \A b \in Goal!Actors : b # a => actor'[b] = actor[b]
    BY <1>b, <2>1, <2>2, <2>3, <2>4, ActorsStep, SetActor
  <2>7. Goal!TypeOK'
    <3>1. inFlight' \in [Goal!Contracts -> 0..MaxCopies]
      BY SMTT(30), <1>a, <1>b, <1>8, <2>0 DEF Goal!Create, Goal!TypeOK, RowsInv, ActorStates, ActorInv, Goal!ConstantsAssumption
    <3> QED
      BY <1>b, <2>4, <2>6, <3>1 DEF Goal!TypeOK, ActorStates
  <2>8. RowsInv'
    BY <1>a, <1>b, <1>8, <2>4, <2>0 DEF Goal!Create, Goal!TypeOK, RowsInv, ActorInv, WithData, WithoutData
  <2>9. PhaseInv'
    BY <1>a, <1>b, <2>4, <2>5, <2>6 DEF PhaseInv
  <2>10. Foreign = {} => CompletedMeansAnswered'
    BY <1>b, <2>4 DEF CompletedMeansAnswered
  <2> QED
    BY <2>6, <2>7, <2>8, <2>9, <2>10 DEF GoalInv
<1>9. ASSUME NEW l \in Listeners, Goal!WriteTerminal(l) PROVE GoalInv'
  <2> DEFINE r == IF status = "active" THEN [actor[l] EXCEPT !.pc = "query", !.busy = {}] ELSE Goal!Idle
  <2>1. r \in ActorStates
    BY <1>a, <1>b DEF ActorStates
  <2>2. ActorInv(l, r, found, WithoutData(found))
    BY <1>a, <1>b DEF ActorInv, ActorStates
  <2>3. Goal!Set(l, r) /\ l \in Goal!Actors
    BY <1>a, <1>9 DEF Goal!WriteTerminal
  <2>4. UNCHANGED <<status, phase, found, scanned, inFlight, disk, cache, cooling, ended, errors, answer>>
    BY <1>9 DEF Goal!WriteTerminal
  <2>5. UNCHANGED phase /\ actor'["tick"] = actor["tick"]
    BY <1>a, <1>b, <2>3, <2>4 DEF ActorStates, Goal!Set
  <2> HIDE DEF r
  <2>6. /\ ActorsInv' /\ actor' \in [Goal!Actors -> ActorStates]
        /\ actor'[l] = r /\ \A b \in Goal!Actors : b # l => actor'[b] = actor[b]
    BY <1>b, <2>1, <2>2, <2>3, <2>4, ActorsStep, SetActor
  <2>7. Goal!TypeOK'
    <3>1. terminal' \subseteq Goal!Contracts
      BY <1>a, <1>b, <1>9 DEF Goal!WriteTerminal, Goal!TypeOK, RowsInv, ActorStates, ActorInv
    <3> QED
      BY <1>b, <2>4, <2>6, <3>1 DEF Goal!TypeOK, ActorStates
  <2>8. RowsInv'
    BY <1>a, <1>b, <1>9, <2>4 DEF Goal!WriteTerminal, Goal!TypeOK, RowsInv, ActorInv, WithData, WithoutData
  <2>9. PhaseInv'
    BY <1>a, <1>b, <2>4, <2>5, <2>6 DEF PhaseInv
  <2>10. Foreign = {} => CompletedMeansAnswered'
    BY <1>b, <2>4 DEF CompletedMeansAnswered
  <2> QED
    BY <2>6, <2>7, <2>8, <2>9, <2>10 DEF GoalInv
<1>10. ASSUME Goal!ScanExpiration PROVE GoalInv'
  <2> DEFINE me  == actor["tick"]
             e   == Goal!Min(Goal!Rest)
             new == me.plan \cup {s \in Goal!Contracts : Goal!ExpOf[s] = e}
             r   == IF status = "active" THEN [me EXCEPT !.plan = new, !.slot = @ + 1] ELSE Goal!Idle
  <2>1. e \in 1..Expirations
    BY <1>10, MinOf DEF Goal!ScanExpiration, Goal!Scanning, Goal!Rest
  <2>2. found \subseteq new /\ new \subseteq Goal!Contracts /\ me.plan = found /\ \A s \in new : Goal!ExpOf[s] # 0
    BY <1>a, <1>b, <1>10, <2>1 DEF Goal!ScanExpiration, Goal!Scanning, ActorInv, Goal!TypeOK, RowsInv
  <2>s. Goal!Set("tick", r)
    BY <1>10, Zenon DEF Goal!ScanExpiration
  <2>3. r \in ActorStates
    <3>1. me \in ActorStates /\ new \in SUBSET Goal!Contracts
      BY <1>a, <1>b, <2>2
    <3> HIDE DEF me, new
    <3>2. me.slot + 1 \in Nat
      BY <3>1 DEF ActorStates
    <3>3. [me EXCEPT !.plan = new, !.slot = me.slot + 1] \in ActorStates
      BY <3>1, <3>2 DEF ActorStates
    <3> QED
      BY <1>a, <3>3
  <2>4. /\ actor' \in [Goal!Actors -> ActorStates] /\ actor'["tick"] = r
        /\ \A b \in Goal!Actors : b # "tick" => actor'[b] = actor[b]
    BY <1>a, <1>b, <2>3, <2>s, SetActor
  <2>5. /\ UNCHANGED <<status, phase, terminal, inFlight, disk, cache, cooling, ended, errors, answer>>
        /\ found' = new /\ scanned' = scanned \cup {e} /\ me.pc = "scan"
    BY <1>10 DEF Goal!ScanExpiration, Goal!Scanning
  <2>6. (r.terminal \subseteq me.terminal /\ r.pc = "scan" /\ r.plan = new) \/ r = Goal!Idle
    BY <1>a, <1>b, <2>5 DEF ActorStates, Goal!Idle
  <2> HIDE DEF r, new, e
  <2>7. Goal!TypeOK'
    BY <1>b, <2>1, <2>2, <2>4, <2>5 DEF Goal!TypeOK, ActorStates
  <2>8. RowsInv'
    BY <1>b, <2>2, <2>5 DEF RowsInv, WithData, WithoutData
  <2>9. WithoutData(found) \subseteq WithoutData(new) /\ WithoutData(found)' = WithoutData(new)
    BY <2>2, <2>5 DEF WithoutData
  <2>10. ASSUME NEW b \in Goal!Actors PROVE ActorInv(b, actor'[b], new, WithoutData(new))
    <3>1. CASE b = "tick"
      BY <1>a, <1>b, <2>4, <2>6, <2>9, <3>1 DEF ActorInv, Goal!Idle
    <3>2. CASE b # "tick"
      BY <1>b, <2>2, <2>4, <2>9, <3>2 DEF ActorInv
    <3> QED
      BY <3>1, <3>2
  <2>11. ActorsInv'
    BY <2>5, <2>9, <2>10 DEF ActorsInv
  <2>12. phase = "discovering"
    BY <1>b, <2>5 DEF PhaseInv
  <2>13. PhaseInv' /\ CompletedMeansAnswered'
    BY <2>4, <2>5, <2>6, <2>12 DEF PhaseInv, CompletedMeansAnswered, Goal!Idle
  <2> QED
    BY <2>7, <2>8, <2>11, <2>13 DEF GoalInv
<1>11. ASSUME NEW l \in Listeners, Goal!OnDownloadComplete(l) PROVE GoalInv'
  <2>1. PICK d \in ended :
          /\ ended' = ended \ {d} /\ cache' = Goal!Learned(d[1])
          /\ Goal!Set(l, IF Goal!Owning /\ d[1] \in found
                    THEN [Goal!Idle EXCEPT !.pc = "row", !.terminal = IF d[2] = "nodata" THEN terminal \cup {d[1]} ELSE terminal,
                                      !.busy = IF d[2] = "nodata" THEN {d[1]} ELSE {}]
                    ELSE Goal!Idle)
    BY <1>11 DEF Goal!OnDownloadComplete
  <2> DEFINE T == IF d[2] = "nodata" THEN terminal \cup {d[1]} ELSE terminal
             B == IF d[2] = "nodata" THEN {d[1]} ELSE {}
             r == IF Goal!Owning /\ d[1] \in found THEN [Goal!Idle EXCEPT !.pc = "row", !.terminal = T, !.busy = B] ELSE Goal!Idle
  <2>2. d[1] \in found /\ T \subseteq WithoutData(found) /\ B \subseteq WithoutData(found) /\ found \subseteq Goal!Contracts
    BY <1>b DEF RowsInv, WithoutData, Goal!TypeOK
  <2>3. UNCHANGED <<status, phase, found, terminal, scanned, inFlight, disk, cooling, errors, answer>> /\ Goal!Set(l, r)
    BY <1>11, <2>1 DEF Goal!OnDownloadComplete, Goal!goal
  <2> HIDE DEF T, B
  <2>4. r \in ActorStates
    BY <1>a, <2>2 DEF ActorStates, WithoutData, Goal!Idle
  <2>5. ActorInv(l, r, found, WithoutData(found))
    BY <1>a, <2>2 DEF ActorInv, Goal!Idle
  <2> HIDE DEF r
  <2>6. /\ ActorsInv' /\ actor' \in [Goal!Actors -> ActorStates]
        /\ actor'[l] = r /\ \A b \in Goal!Actors : b # l => actor'[b] = actor[b]
    BY <1>a, <1>b, <2>3, <2>4, <2>5, ActorsStep, SetActor
  <2>7. Goal!TypeOK'
    BY <1>b, <2>1, <2>3, <2>6 DEF Goal!TypeOK, ActorStates, Goal!Learned
  <2>8. RowsInv'
    BY <1>b, <2>1, <2>3 DEF RowsInv, WithData, WithoutData
  <2>9. PhaseInv' /\ (Foreign = {} => CompletedMeansAnswered')
    BY <1>a, <1>b, <2>3, <2>6 DEF PhaseInv, CompletedMeansAnswered
  <2> QED
    BY <2>6, <2>7, <2>8, <2>9 DEF GoalInv
<1>12. ASSUME NEW s \in Goal!Contracts, Goal!EndDownload(s) PROVE GoalInv'
  <2>1. UNCHANGED <<status, phase, found, terminal, actor, scanned, cache, answer>>
    BY <1>12 DEF Goal!EndDownload, Goal!goal
  <2>2. s \in found /\ (s \in disk' => s \in disk \/ answer[s] = "data") /\ disk' \subseteq disk \cup {s} /\ disk \subseteq disk'
    BY <1>b, <1>12 DEF Goal!EndDownload, RowsInv
  <2>3. /\ inFlight' \in [Goal!Contracts -> 0..MaxCopies] /\ cooling' \subseteq Goal!Contracts /\ errors' \in 0..Goal!MaxErrors
        /\ \A t \in Goal!Contracts : inFlight'[t] > 0 => inFlight[t] > 0
    BY <1>b, <1>12 DEF Goal!EndDownload, Goal!TypeOK, Goal!ConstantsAssumption
  <2>4. PICK e \in {"data", "nodata", "error"} : ended' = ended \cup {<<s, e>>} /\ (e = "nodata" => answer[s] = "nodata")
    BY <1>12 DEF Goal!EndDownload
  <2>5. ended' \subseteq Goal!Contracts \X {"data", "nodata", "error"}
    BY <1>b, <2>4 DEF Goal!TypeOK
  <2>6. Goal!TypeOK'
    BY <1>b, <2>1, <2>2, <2>3, <2>5 DEF Goal!TypeOK
  <2>7. RowsInv'
    BY <1>b, <2>1, <2>2, <2>3, <2>4 DEF RowsInv, Goal!TypeOK, WithData, WithoutData
  <2>8. ActorsInv' /\ PhaseInv' /\ (Foreign = {} => CompletedMeansAnswered')
    BY <1>b, <2>1, <2>2 DEF ActorsInv, PhaseInv, CompletedMeansAnswered, WithoutData
  <2> QED
    BY <2>6, <2>7, <2>8 DEF GoalInv
<1>13. ASSUME NEW s \in Goal!Contracts, Goal!BackoffEnds(s) PROVE GoalInv'
  <2>1. UNCHANGED <<status, phase, found, terminal, actor, scanned, inFlight, disk, cache, ended, errors, answer>> /\ cooling' \subseteq cooling
    BY <1>13 DEF Goal!BackoffEnds, Goal!goal
  <2> QED
    BY <1>b, <2>1 DEF GoalInv, Goal!TypeOK, RowsInv, ActorsInv, PhaseInv, CompletedMeansAnswered, WithData, WithoutData
<1>14. ASSUME Goal!Request PROVE GoalInv'
  <2>1. UNCHANGED <<phase, found, terminal, actor, scanned, inFlight, disk, cache, cooling, ended, errors, answer>>
    BY <1>14 DEF Goal!Request
  <2>2. status' \in {"active", "paused", "completed", "deleted"}
    BY <1>14 DEF Goal!Request, Goal!Pause, Goal!Resume, Goal!Delete
  <2> QED
    BY <1>b, <2>1, <2>2 DEF GoalInv, Goal!TypeOK, RowsInv, ActorsInv, PhaseInv, CompletedMeansAnswered, WithData, WithoutData
<1>15. ASSUME UNCHANGED Goal!vars PROVE GoalInv'
  BY <1>b, <1>15 DEF Goal!vars, GoalInv, Goal!TypeOK, RowsInv, ActorsInv, PhaseInv, CompletedMeansAnswered, WithData, WithoutData
<1> QED
  BY <1>1, <1>2, <1>3, <1>4, <1>5, <1>6, <1>7, <1>8, <1>9, <1>10, <1>11, <1>12, <1>13, <1>14, <1>15 DEF Goal!Next, goalVars, Goal!vars

(* A completed goal is covered by files and recorded answers, as long as   *)
(* one listener writes the row: then what the tick has read of the row's   *)
(* symbols is still there when it completes the goal.                      *)


-----------------------------------------------------------------------------
(* A completed goal is covered by files and recorded answers as long as    *)
(* one listener at a time writes the row: then the symbols that the tick   *)
(* has read from the row are still there when it completes the goal.       *)
LEMMA CoveredStep ==
  ASSUME Goal!ConstantsAssumption, Foreign = {}, NEW h, Listeners \subseteq {h}, CoveredInv, [Goal!Next]_goalVars
  PROVE  CoveredInv'
<1>a. /\ Goal!TypeOK /\ GoalInv /\ GoalInv' /\ TerminalGrows /\ Goal!CompletedMeansCovered
      /\ actor \in [Goal!Actors -> ActorStates] /\ "tick" \in Goal!Actors /\ \A l \in Listeners : l = h /\ l # "tick" /\ l \in Goal!Actors
  BY GoalStep DEF CoveredInv, GoalInv, Goal!TypeOK, ActorStates, Goal!Actors, Goal!ConstantsAssumption
<1>1. ASSUME Goal!WriteGoal PROVE CoveredInv'
  <2>1. UNCHANGED <<found, terminal, disk>> /\ Goal!Set("tick", Goal!Idle) /\ (phase' = "completed" => phase = "completed" \/ Goal!Enough)
    BY <1>1 DEF Goal!WriteGoal
  <2>2. Goal!Enough => \A s \in found : s \in disk \/ s \in terminal
    BY <1>a, EnoughIsAll DEF Goal!TypeOK, TerminalGrows
  <2>3. Goal!CompletedMeansCovered'
    BY <1>a, <2>1, <2>2 DEF Goal!CompletedMeansCovered
  <2>4. TerminalGrows'
    BY <1>a, <2>1 DEF TerminalGrows, Goal!Set, Goal!Idle
  <2> QED
    BY <1>a, <2>3, <2>4 DEF CoveredInv
<1>2. ASSUME NEW l \in Listeners, Goal!WriteTerminal(l) PROVE CoveredInv'
  <2>1. UNCHANGED <<phase, found, disk>> /\ terminal' \in {terminal, actor[l].terminal} /\ terminal \subseteq actor[l].terminal
    BY <1>a, <1>2 DEF Goal!WriteTerminal, TerminalGrows
  <2>2. actor'["tick"] = actor["tick"] /\ actor'[l].pc # "row"
    BY <1>a, <1>2 DEF Goal!WriteTerminal, Goal!Set, ActorStates, Goal!Idle
  <2>3. Goal!CompletedMeansCovered'
    BY <1>a, <2>1 DEF Goal!CompletedMeansCovered
  <2>4. TerminalGrows'
    BY <1>a, <2>1, <2>2 DEF TerminalGrows
  <2> QED
    BY <1>a, <2>3, <2>4 DEF CoveredInv
<1>3. ASSUME NEW l \in Listeners, Goal!OnDownloadComplete(l) PROVE CoveredInv'
  <2>1. UNCHANGED <<phase, found, terminal, disk>>
    BY <1>3 DEF Goal!OnDownloadComplete, Goal!goal
  <2>2. PICK r : Goal!Set(l, r) /\ (r.pc = "row" => terminal \subseteq r.terminal)
    <3>1. PICK d \in ended :
            Goal!Set(l, IF Goal!Owning /\ d[1] \in found
                   THEN [Goal!Idle EXCEPT !.pc = "row", !.terminal = IF d[2] = "nodata" THEN terminal \cup {d[1]} ELSE terminal,
                                     !.busy = IF d[2] = "nodata" THEN {d[1]} ELSE {}]
                   ELSE Goal!Idle)
      BY <1>3 DEF Goal!OnDownloadComplete
    <3> DEFINE T == IF d[2] = "nodata" THEN terminal \cup {d[1]} ELSE terminal
               B == IF d[2] = "nodata" THEN {d[1]} ELSE {}
               r == IF Goal!Owning /\ d[1] \in found THEN [Goal!Idle EXCEPT !.pc = "row", !.terminal = T, !.busy = B] ELSE Goal!Idle
    <3>2. Goal!Set(l, r) /\ terminal \subseteq T
      BY <3>1
    <3> HIDE DEF T, B
    <3>3. r.pc = "row" => r.terminal = T
      BY DEF Goal!Idle
    <3> HIDE DEF r
    <3> QED
      BY <3>2, <3>3
  <2>3. actor'["tick"] = actor["tick"] /\ actor'[l] = r
    BY <1>a, <2>2 DEF Goal!Set
  <2>4. Goal!CompletedMeansCovered' /\ TerminalGrows'
    BY <1>a, <2>1, <2>2, <2>3 DEF Goal!CompletedMeansCovered, TerminalGrows
  <2> QED
    BY <1>a, <2>4 DEF CoveredInv
<1>4. ASSUME Goal!ScanExpiration PROVE CoveredInv'
  <2>1. UNCHANGED <<phase, terminal>> /\ actor["tick"].pc = "scan"
    BY <1>4 DEF Goal!ScanExpiration, Goal!Scanning
  <2>2. phase = "discovering"
    BY <1>a, <2>1 DEF GoalInv, PhaseInv
  <2>3. actor'["tick"].terminal \subseteq actor["tick"].terminal /\ \A l \in Listeners : actor'[l] = actor[l]
    BY <1>a, <1>4 DEF Goal!ScanExpiration, Goal!Set, ActorStates, Goal!Idle
  <2>4. Goal!CompletedMeansCovered' /\ TerminalGrows'
    BY <1>a, <2>1, <2>2, <2>3 DEF Goal!CompletedMeansCovered, TerminalGrows
  <2> QED
    BY <1>a, <2>4 DEF CoveredInv
<1>5. ASSUME NEW a \in Goal!Actors, Goal!Query(a) \/ Goal!Plan(a) \/ Goal!Create(a) PROVE CoveredInv'
  <2>1. UNCHANGED <<phase, found, terminal, disk>>
    BY GoalCardinality, <1>5 DEF Goal!Query, Goal!Plan, Goal!Create, Goal!goal
  <2>2. PICK r : Goal!Set(a, r) /\ r.terminal \subseteq actor[a].terminal /\ r.pc # "row"
    <3>0. actor[a] \in ActorStates /\ Goal!Done(a).terminal \subseteq actor[a].terminal /\ Goal!Done(a).pc # "row"
      BY <1>a DEF Goal!Done, ActorStates, Goal!Idle
    <3>2. CASE Goal!Query(a)
      <4> DEFINE R == [actor[a] EXCEPT !.pc = "plan", !.slot = (Concurrency + 1) - Cardinality(Goal!InFlight), !.busy = Goal!InFlight]
      <4>1. Goal!Set(a, Goal!Done(a)) \/ Goal!Set(a, R)
        BY GoalCardinality, <3>2 DEF Goal!Query
      <4>2. R.terminal = actor[a].terminal /\ R.pc # "row"
        BY <3>0 DEF ActorStates
      <4> HIDE DEF R
      <4> QED
        BY <3>0, <4>1, <4>2
    <3>3. CASE Goal!Plan(a)
      <4> DEFINE R == [actor[a] EXCEPT !.pc = "create", !.plan = Goal!First(Goal!Eligible(a), actor[a].slot)]
      <4>1. Goal!Set(a, Goal!Done(a)) \/ Goal!Set(a, R)
        BY <3>3 DEF Goal!Plan
      <4>2. R.terminal = actor[a].terminal /\ R.pc # "row"
        BY <3>0 DEF ActorStates
      <4> HIDE DEF R
      <4> QED
        BY <3>0, <4>1, <4>2
    <3>4. CASE Goal!Create(a)
      <4> DEFINE R == [actor[a] EXCEPT !.plan = actor[a].plan \ {Goal!Min(actor[a].plan)}]
      <4>1. Goal!Set(a, Goal!Done(a)) \/ Goal!Set(a, R)
        BY <3>4 DEF Goal!Create
      <4>2. R.terminal = actor[a].terminal /\ R.pc # "row"
        BY <3>0, <3>4 DEF ActorStates, Goal!Create
      <4> HIDE DEF R
      <4> QED
        BY <3>0, <4>1, <4>2
    <3> QED
      BY <1>5, <3>2, <3>3, <3>4
  <2>3. actor'[a] = r /\ \A b \in Goal!Actors : b # a => actor'[b] = actor[b]
    BY <1>a, <2>2 DEF Goal!Set
  <2>4. Goal!CompletedMeansCovered' /\ TerminalGrows'
    BY <1>a, <2>1, <2>2, <2>3 DEF Goal!CompletedMeansCovered, TerminalGrows
  <2> QED
    BY <1>a, <2>4 DEF CoveredInv
<1>6. ASSUME Goal!Tick \/ Goal!ScanRaises \/ Goal!EndScan \/ Goal!Recount PROVE CoveredInv'
  <2>1. UNCHANGED <<found, terminal, disk>> /\ (phase' = "completed" => phase = "completed")
    BY <1>6 DEF Goal!Tick, Goal!ScanRaises, Goal!EndScan, Goal!Recount, Goal!goal
  <2>2. actor'["tick"].terminal \subseteq terminal /\ \A l \in Listeners : actor'[l] = actor[l]
    <3>1. PICK r : Goal!Set("tick", r) /\ r.terminal \subseteq terminal
      <4>1. \/ Goal!Set("tick", Goal!Idle) \/ Goal!Set("tick", [Goal!Idle EXCEPT !.pc = "scan", !.plan = found])
            \/ Goal!Set("tick", [Goal!Idle EXCEPT !.pc = "query", !.terminal = terminal])
            \/ Goal!Set("tick", [actor["tick"] EXCEPT !.pc = "write", !.busy = Goal!InFlight])
        BY <1>6 DEF Goal!Tick, Goal!ScanRaises, Goal!EndScan, Goal!Recount
      <4>2. /\ Goal!Idle.terminal = {} /\ [Goal!Idle EXCEPT !.pc = "scan", !.plan = found].terminal = {}
            /\ [Goal!Idle EXCEPT !.pc = "query", !.terminal = terminal].terminal = terminal
            /\ [actor["tick"] EXCEPT !.pc = "write", !.busy = Goal!InFlight].terminal \subseteq terminal
        BY <1>a DEF Goal!Idle, ActorStates, TerminalGrows
      <4> QED
        BY <4>1, <4>2
    <3> QED
      BY <1>a, <3>1 DEF Goal!Set
  <2>3. Goal!CompletedMeansCovered' /\ TerminalGrows'
    BY <1>a, <2>1, <2>2 DEF Goal!CompletedMeansCovered, TerminalGrows
  <2> QED
    BY <1>a, <2>3 DEF CoveredInv
<1>7. ASSUME \/ Goal!Request \/ UNCHANGED Goal!vars \/ \E s \in Goal!Contracts : Goal!EndDownload(s) \/ Goal!BackoffEnds(s)
      PROVE  CoveredInv'
  <2>1. UNCHANGED <<phase, found, terminal, actor>> /\ disk \subseteq disk'
    BY <1>7 DEF Goal!Request, Goal!vars, Goal!EndDownload, Goal!BackoffEnds, Goal!goal
  <2> QED
    BY <1>a, <2>1 DEF CoveredInv, Goal!CompletedMeansCovered, TerminalGrows
<1> QED
  BY <1>1, <1>2, <1>3, <1>4, <1>5, <1>6, <1>7 DEF Goal!Next, goalVars, Goal!vars

-----------------------------------------------------------------------------
(* The machine of a worker: names with the prefix Nodes! are WorkerNodes's. *)
NodeTypes ==
  /\ worker \in [state : {"none", "row", "deleted"}, token : 0..MaxTokens, install : {"pending", "claimed"},
                 status : {"offline", "online"}]
  /\ node \in [stage : {"bare", "running", "updating", "exiting", "down"}, token : 0..MaxTokens, disk : 0..MaxVersions,
               loaded : 0..MaxVersions, stuck : BOOLEAN]
  /\ command \in 0..MaxTokens /\ version \in 0..MaxVersions /\ beat \in 0..MaxBeats

(* What a machine that runs, or is about to be updated, has loaded. *)
LoadedInv == node.stage \in {"running", "updating"} /\ node.disk # 0 /\ ~node.stuck => node.loaded = node.disk

NodeInv == NodeTypes /\ Nodes!ClaimedCanFetch /\ LoadedInv

LEMMA NodeInit == Nodes!Init => NodeInv
BY NodesAssumption
DEF Nodes!ConstantsAssumption, Nodes!Init, NodeInv, NodeTypes, Nodes!Bare, Nodes!Row, Nodes!ClaimedCanFetch,
    LoadedInv

LEMMA NodeStep == NodeInv /\ [Nodes!Next]_nodeVars => NodeInv'
<1> SUFFICES ASSUME NodeInv, [Nodes!Next]_nodeVars PROVE NodeInv'
  OBVIOUS
<1> DEFINE Claimed == worker.state = "row" /\ worker.install = "claimed" => node.token # 0 /\ worker.token = node.token
<1>0. (NodeInv <=> NodeTypes /\ Claimed /\ LoadedInv) /\ (NodeInv' <=> NodeTypes' /\ Claimed' /\ LoadedInv')
  BY DEF NodeInv, Nodes!ClaimedCanFetch, Nodes!Authorised, Nodes!Row
<1>c. MaxTokens \in Nat /\ MaxVersions \in Nat /\ MaxBeats \in Nat /\ MaxTokens > 0
  BY NodesAssumption DEF Nodes!ConstantsAssumption
<1> USE <1>0, <1>c DEF NodeTypes, LoadedInv, Nodes!Authorised, Nodes!Row
<1>2. ASSUME \/ Nodes!Release \/ Nodes!CreateInstance \/ Nodes!DeleteInstance \/ Nodes!CountInstances \/ Nodes!WorkerInstallCommand \/ Nodes!PollWorker
             \/ Nodes!PollsEnd \/ UNCHANGED nodeVars
      PROVE  NodeInv'
  <2>1. UNCHANGED <<worker, node, beat>> /\ command' \in {command, worker.token}
    BY ONLY <1>2
    DEF Nodes!Release, Nodes!CreateInstance, Nodes!DeleteInstance, Nodes!CountInstances,
        Nodes!WorkerInstallCommand, Nodes!PollWorker, Nodes!PollsEnd, nodeVars
  <2>3. version' = version \/ (version < MaxVersions /\ version' = version + 1)
    <3>1. CASE Nodes!Release
      BY <3>1 DEF Nodes!Release
    <3>2. ASSUME ~Nodes!Release PROVE version' = version
      BY ONLY <1>2, <3>2
      DEF Nodes!CreateInstance, Nodes!DeleteInstance, Nodes!CountInstances, Nodes!WorkerInstallCommand,
          Nodes!PollWorker, Nodes!PollsEnd, nodeVars
    <3> QED
      BY <3>1, <3>2
  <2>2. command' \in 0..MaxTokens /\ version' \in 0..MaxVersions /\ beat' \in 0..MaxBeats
    BY <2>1, <2>3
  <2> QED
    BY <2>1, <2>2
<1>3. CASE Nodes!CreateWorker \/ Nodes!RegenerateInstallToken \/ Nodes!DeleteWorker \/ Nodes!ClaimWorker \/ Nodes!Heartbeat \/ Nodes!GoesOffline
  <2>a. UNCHANGED <<node, command, version>>
    BY ONLY <1>3
    DEF Nodes!CreateWorker, Nodes!RegenerateInstallToken, Nodes!DeleteWorker, Nodes!ClaimWorker,
        Nodes!Heartbeat, Nodes!GoesOffline
  <2>b. beat' = beat \/ (beat < MaxBeats /\ beat' = beat + 1)
    <3>1. CASE Nodes!Heartbeat
      BY <3>1 DEF Nodes!Heartbeat
    <3>2. ASSUME ~Nodes!Heartbeat PROVE beat' = beat
      BY ONLY <1>3, <3>2
      DEF Nodes!CreateWorker, Nodes!RegenerateInstallToken, Nodes!DeleteWorker, Nodes!ClaimWorker,
          Nodes!GoesOffline
    <3> QED
      BY <3>1, <3>2
  <2>1. UNCHANGED <<node, command, version>> /\ beat' \in 0..MaxBeats
    BY <2>a, <2>b
  <2>2. CASE Nodes!CreateWorker
    BY <2>1, <2>2 DEF Nodes!CreateWorker
  <2>3. CASE Nodes!RegenerateInstallToken
    <3>1. worker' = [worker EXCEPT !.token = @ + 1, !.install = "pending"]
      BY <2>3 DEF Nodes!RegenerateInstallToken, Nodes!Regenerated
    <3>2. worker.token + 1 \in 0..MaxTokens /\ worker' = [worker EXCEPT !.token = worker.token + 1, !.install = "pending"]
      BY <2>3, <3>1 DEF Nodes!RegenerateInstallToken
    <3>3. worker' = [state |-> worker.state, token |-> worker.token + 1, install |-> "pending", status |-> worker.status]
      BY <3>2
    <3>4. worker'.install = "pending" /\ NodeTypes'
      BY <2>1, <3>2, <3>3
    <3> QED
      BY <2>1, <3>4
  <2>4. CASE Nodes!DeleteWorker \/ Nodes!ClaimWorker \/ Nodes!Heartbeat \/ Nodes!GoesOffline
    BY <2>1, <2>4 DEF Nodes!DeleteWorker, Nodes!ClaimWorker, Nodes!Heartbeat, Nodes!GoesOffline
  <2> QED
    BY <1>3, <2>2, <2>3, <2>4
<1>4. CASE Nodes!Install
  BY <1>4 DEF Nodes!Install, Nodes!Bare
<1>5. CASE Nodes!Dies \/ Nodes!Restarts \/ Nodes!Exit \/ Nodes!StaysUp \/ Nodes!SendUpdate
  BY ZenonT(40), <1>5 DEF Nodes!Dies, Nodes!Restarts, Nodes!Exit, Nodes!ExitsNow, Nodes!StaysUp, Nodes!SendUpdate
<1>6. CASE Nodes!GitPull \/ Nodes!TarballUpdate
  <2>1. node' = [node EXCEPT !.disk = version, !.stage = "exiting"] /\ UNCHANGED <<worker, command, version, beat>>
    BY <1>6 DEF Nodes!GitPull, Nodes!TarballUpdate, Nodes!Fetched, Nodes!Updated
  <2>2. node'.token = node.token /\ node'.stage = "exiting" /\ NodeTypes'
    BY <2>1
  <2> QED
    BY <2>1, <2>2
<1>7. CASE Nodes!TarballBreaks \/ Nodes!NothingUpdates
  <2>1. /\ node.stage = "updating" /\ UNCHANGED <<worker, command, version, beat>>
        /\ node' \in {[node EXCEPT !.stage = "running", !.disk = 0], [node EXCEPT !.stage = "running"]}
    BY <1>7 DEF Nodes!TarballBreaks, Nodes!NothingUpdates, Nodes!Fetched
  <2>2. CASE node' = [node EXCEPT !.stage = "running", !.disk = 0]
    <3>0. node' = [stage |-> "running", token |-> node.token, disk |-> 0, loaded |-> node.loaded, stuck |-> node.stuck]
      BY <2>2
    <3>1. node'.disk = 0 /\ node'.token = node.token /\ NodeTypes'
      BY <2>1, <3>0
    <3> QED
      BY <2>1, <3>1
  <2>3. CASE node' = [node EXCEPT !.stage = "running"]
    BY <2>1, <2>3
  <2> QED
    BY <2>1, <2>2, <2>3
<1> QED
  BY <1>2, <1>3, <1>4, <1>5, <1>6, <1>7 DEF Nodes!Next

LEMMA NodesRight == NodeInv => Nodes!TypeOK /\ Nodes!ClaimedCanFetch /\ Nodes!LoadedIsDisk
BY DEF Nodes!TypeOK, NodeTypes, NodeInv, LoadedInv, Nodes!LoadedIsDisk

-----------------------------------------------------------------------------
(* The agents of the health watch: the prefix is Watch!. *)
LEMMA WatchCardinality == \A S : Watch!Cardinality(S) = Cardinality(S)
BY DEF Watch!Cardinality, Cardinality

Lines  == [error : Errors, part : {"head", "tail"}]
Alerts == [Conditions -> {Watch!Never} \cup 1..MaxClock]
Claims == [scan : {Watch!Never} \cup 0..Scans, at : 0..MaxClock]
Checks == [pc : {"none", "probed", "reported", "done"}, at : 0..MaxClock, saw : SUBSET Conditions,
           offered : SUBSET Watch!Signatures, filed : SUBSET Watch!Signatures, told : SUBSET Conditions]

WatchTypes ==
  /\ clock \in 1..MaxClock /\ present \subseteq Conditions /\ log \in Seq(Lines)
  /\ stored \in [offset : Nat, alerts : Alerts, known : SUBSET Watch!Signatures, pending : [Watch!Signatures -> Claims],
                scans : SUBSET [id : Watch!Ids, at : 0..MaxClock, after : Alerts]]
  /\ stored.offset <= Len(log)
  /\ scan \in [Watch!Ids -> Checks]
  /\ tasks \subseteq [signature : Watch!Signatures, scan : Watch!Ids]
  /\ history \in [reoffered : SUBSET Watch!Signatures, skipped : Nat, rejected : SUBSET [scan : Watch!Ids, age : Int],
                  committed : SUBSET Watch!Ids]
  /\ \A i \in Watch!Ids : /\ scan[i].filed \subseteq scan[i].offered
                          /\ scan[i].pc # "none" => scan[i].at >= 1
                          /\ scan[i].pc \in {"none", "probed"} => scan[i].offered = {}

(* A traceback follows its record. *)
LogInv == \A n \in DOMAIN log : log[n].part = "tail" => n > 1 /\ log[n - 1] = [error |-> log[n].error, part |-> "head"]

(* The agent of a check has filed a signature, or may still file it. *)
Holds(i, s) == s \in scan[i].filed \/ (scan[i].pc = "reported" /\ s \in scan[i].offered)

(* One agent holds a signature that was not offered again, and the claim is *)
(* that agent's until its commit makes the signature known.                *)
FiledInv ==
  /\ \A t \in tasks : t.signature \in scan[t.scan].filed
  /\ \A s \in Watch!Signatures \ history.reoffered, i \in Watch!Ids : Holds(i, s) =>
       /\ \A j \in Watch!Ids : Holds(j, s) => j = i
       /\ stored.pending[s].scan = i \/ (s \in stored.known /\ scan[i].pc = "done")

(* The reports that wait for their commit; one that is missing was pushed   *)
(* out by enough others.                                                   *)
Others(i) == {j \in Watch!Ids \ {i} : scan[j].pc \in {"reported", "done"}}
ScansInv ==
  /\ IsFiniteSet(stored.scans)
  /\ \A x \in stored.scans : scan[x.id].pc \in {"reported", "done"}
  /\ \A x, y \in stored.scans : x.id = y.id => x = y
  /\ \A i \in Watch!Ids : scan[i].pc = "reported" /\ (\A x \in stored.scans : x.id # i) => Cardinality(Others(i)) >= KeepScans
  /\ \A r \in history.rejected : scan[r.scan].pc = "done"

ToldBy(i, c, at)   == c \in scan[i].told /\ scan[i].at = at
ToldThen(i, c, at) == c \in scan'[i].told /\ scan'[i].at = at

(* What a report would make the alerts was told by its own check or by one  *)
(* that was committed.                                                     *)
ToldInv ==
  /\ \A i \in history.committed : scan[i].pc = "done"
  /\ \A x \in stored.scans, c \in Conditions : x.after[c] # Watch!Never =>
       \E i \in history.committed \cup {x.id} : ToldBy(i, c, x.after[c])

WatchInv == WatchTypes /\ LogInv /\ Watch!ErrorsAreKept /\ FiledInv /\ ScansInv /\ Watch!PromptCommitTaken /\ ToldInv /\ Watch!AlertsWereTold

LEMMA WatchConstants ==
  /\ Scans \in Nat \ {0} /\ MaxClock \in Nat \ {0} /\ KeepScans \in Nat /\ ClaimFor \in Nat /\ MaxScanLines \in Nat \ {0}
  /\ Watch!Ids = 1..Scans /\ Watch!NoScan \in Checks /\ Watch!Unseen \in Claims /\ Watch!NoClaim \in Claims /\ Watch!Unseen.scan = -1 /\ Watch!NoClaim.scan = 0
BY WatchAssumption
DEF Watch!ConstantsAssumption, Watch!Ids, Watch!NoScan, Checks, Watch!Unseen, Watch!NoClaim, Claims, Watch!Never

LEMMA WatchInit == Watch!Init => WatchInv
<1> SUFFICES ASSUME Watch!Init PROVE WatchInv
  OBVIOUS
<1>1. WatchTypes
  BY WatchConstants DEF Watch!Init, WatchTypes, Alerts, Checks, Watch!NoScan
<1>2. \A i \in Watch!Ids : scan[i].pc = "none" /\ scan[i].filed = {} /\ scan[i].offered = {}
  BY DEF Watch!Init, Watch!NoScan
<1>3. LogInv /\ FiledInv /\ ScansInv /\ ToldInv
  BY <1>2, FS_EmptySet DEF Watch!Init, LogInv, FiledInv, Holds, ScansInv, ToldInv
<1>4. Watch!ErrorsAreKept /\ Watch!PromptCommitTaken /\ Watch!AlertsWereTold
  BY DEF Watch!Init, Watch!ErrorsAreKept, Watch!PromptCommitTaken, Watch!AlertsWereTold, Watch!Never
<1> QED
  BY <1>1, <1>3, <1>4 DEF WatchInv

-----------------------------------------------------------------------------
(* What a check does. *)
Offer(i, p, offered) ==
  /\ offered \subseteq Watch!Available(i, p)
  /\ stored'.offset = Len(log) /\ stored'.alerts = stored.alerts /\ stored'.known = stored.known
  /\ stored'.pending = [s \in Watch!Signatures |-> IF s \in offered THEN [scan |-> i, at |-> scan[i].at] ELSE p[s]]
  /\ stored'.scans = Watch!Kept(stored.scans \cup {[id |-> i, at |-> scan[i].at, after |-> Watch!After(i)]})
  /\ scan'[i] = [pc |-> "reported", at |-> scan[i].at, saw |-> scan[i].saw, offered |-> offered,
                 filed |-> scan[i].filed, told |-> Watch!New(i) \cup Watch!Remind(i)]
  /\ \A j \in Watch!Ids \ {i} : scan'[j] = scan[j]
  /\ history'.reoffered = history.reoffered \cup {s \in offered : Watch!Claimed(p[s]) /\ Watch!Expired(i, p[s])}
  /\ history'.skipped = history.skipped + Watch!Skipped
  /\ history'.rejected = history.rejected /\ history'.committed = history.committed

Pend(s) == IF s \in Watch!Blocks \ stored.known /\ stored.pending[s] = Watch!Unseen THEN Watch!NoClaim ELSE stored.pending[s]
Pends == [s \in Watch!Signatures |-> Pend(s)]

LEMMA CheckOffers ==
  ASSUME WatchTypes, NEW i \in Watch!Ids, Watch!Check(i)
  PROVE  /\ scan[i].pc = "probed" /\ UNCHANGED <<clock, present, log, tasks>>
         /\ \E offered \in SUBSET Watch!Signatures : Offer(i, Pends, offered)
         /\ stored' = [offset |-> stored'.offset, alerts |-> stored'.alerts, known |-> stored'.known,
                      pending |-> stored'.pending, scans |-> stored'.scans]
         /\ scan' = [scan EXCEPT ![i] = scan'[i]]
         /\ history' = [history EXCEPT !.reoffered = history'.reoffered, !.skipped = history'.skipped]
<1>1. PICK offered \in SUBSET Watch!Available(i, Pends) :
       /\ stored' = [offset |-> Len(log), alerts |-> Watch!KeepsAlerts(i), known |-> stored.known,
                    pending |-> [s \in Watch!Signatures |-> IF s \in offered THEN [scan |-> i, at |-> scan[i].at] ELSE Pends[s]],
                    scans |-> Watch!Kept(stored.scans \cup {[id |-> i, at |-> scan[i].at, after |-> Watch!After(i)]})]
       /\ scan' = [scan EXCEPT ![i].pc = "reported", ![i].offered = offered, ![i].told = Watch!New(i) \cup Watch!Remind(i)]
       /\ history' = [history EXCEPT !.reoffered = @ \cup {s \in offered : Watch!Claimed(Pends[s]) /\ Watch!Expired(i, Pends[s])},
                                     !.skipped = @ + Watch!Skipped]
  BY DEF Watch!Check, Watch!Noted, Pends, Pend
<1>2. scan[i] \in Checks
  BY DEF WatchTypes
<1>3. scan' = [scan EXCEPT ![i] = [scan[i] EXCEPT !.pc = "reported", !.offered = offered, !.told = Watch!New(i) \cup Watch!Remind(i)]]
  BY <1>1 DEF WatchTypes
<1>4. /\ scan'[i] = [scan[i] EXCEPT !.pc = "reported", !.offered = offered, !.told = Watch!New(i) \cup Watch!Remind(i)]
      /\ \A j \in Watch!Ids \ {i} : scan'[j] = scan[j]
  BY <1>3 DEF WatchTypes
<1>5. scan'[i] = [pc |-> "reported", at |-> scan[i].at, saw |-> scan[i].saw, offered |-> offered,
                 filed |-> scan[i].filed, told |-> Watch!New(i) \cup Watch!Remind(i)]
  BY <1>2, <1>4 DEF Checks
<1>6. /\ history'.reoffered = history.reoffered \cup {s \in offered : Watch!Claimed(Pends[s]) /\ Watch!Expired(i, Pends[s])}
      /\ history'.skipped = history.skipped + Watch!Skipped
      /\ history'.rejected = history.rejected /\ history'.committed = history.committed
  BY <1>1 DEF WatchTypes
<1>7. offered \in SUBSET Watch!Signatures
  BY <1>1 DEF Watch!Available
<1>8. Offer(i, Pends, offered)
  BY <1>1, <1>4, <1>5, <1>6 DEF Offer, Watch!KeepsAlerts
<1>9. history' = [history EXCEPT !.reoffered = history'.reoffered, !.skipped = history'.skipped]
  BY <1>1, <1>6 DEF WatchTypes
<1> QED
  BY ZenonT(40), <1>1, <1>4, <1>5, <1>7, <1>8, <1>9 DEF Watch!Check, WatchTypes

(* What a commit does. *)
Takes(i, x) ==
  /\ x \in stored.scans /\ x.id = i /\ \A s \in scan[i].filed : stored.pending[s] # Watch!Unseen
  /\ stored' = [offset |-> stored.offset, alerts |-> x.after, known |-> stored.known \cup scan[i].filed,
               pending |-> [s \in Watch!Signatures |-> IF s \in scan[i].filed THEN Watch!Unseen ELSE Watch!Release(i, stored.pending[s])],
               scans |-> {y \in stored.scans : y.id # i}]
  /\ history' = [history EXCEPT !.committed = history.committed \cup {i}]

Rejects(i) ==
  /\ (\A x \in stored.scans : x.id # i) \/ (\E s \in scan[i].filed : stored.pending[s] = Watch!Unseen)
  /\ UNCHANGED stored
  /\ history' = [history EXCEPT !.rejected = history.rejected \cup {[scan |-> i, age |-> clock - scan[i].at]}]

LEMMA CommitTakes ==
  ASSUME WatchTypes, NEW i \in Watch!Ids, Watch!Commit(i)
  PROVE  /\ scan[i].pc = "reported" /\ UNCHANGED <<clock, present, log, tasks>>
         /\ scan' = [scan EXCEPT ![i] = [scan[i] EXCEPT !.pc = "done"]]
         /\ Rejects(i) \/ \E x \in stored.scans : Takes(i, x)
<1>1. /\ scan[i].pc = "reported" /\ UNCHANGED <<clock, present, log, tasks>>
      /\ scan' = [scan EXCEPT ![i] = [scan[i] EXCEPT !.pc = "done"]]
  BY DEF Watch!Commit, WatchTypes
<1>2. CASE Watch!Accepted(i)
  <2> DEFINE x == CHOOSE x \in stored.scans : x.id = i
  <2>1. x \in stored.scans /\ x.id = i
    BY <1>2 DEF Watch!Accepted
  <2>2. stored' = [stored EXCEPT
               !.known = stored.known \cup scan[i].filed,
               !.pending = [s \in Watch!Signatures |-> IF s \in scan[i].filed THEN Watch!Unseen ELSE Watch!Release(i, stored.pending[s])],
               !.alerts = x.after,
               !.scans = {y \in stored.scans : y.id # i}]
    BY <1>2 DEF Watch!Commit, WatchTypes
  <2> HIDE DEF x
  <2>3. stored' = [offset |-> stored.offset, alerts |-> x.after, known |-> stored.known \cup scan[i].filed,
               pending |-> [s \in Watch!Signatures |-> IF s \in scan[i].filed THEN Watch!Unseen ELSE Watch!Release(i, stored.pending[s])],
               scans |-> {y \in stored.scans : y.id # i}]
    BY <2>2 DEF WatchTypes
  <2>4. history' = [history EXCEPT !.committed = history.committed \cup {i}]
    BY <1>2 DEF Watch!Commit, WatchTypes
  <2> QED
    BY <1>1, <1>2, <2>1, <2>3, <2>4 DEF Takes, Watch!Accepted
<1>3. CASE ~Watch!Accepted(i)
  BY <1>1, <1>3 DEF Watch!Commit, Watch!Accepted, Rejects, WatchTypes
<1> QED
  BY <1>1, <1>2, <1>3

(* What File does. *)
LEMMA FileDoes ==
  ASSUME WatchTypes, NEW i \in Watch!Ids, NEW s \in Watch!Signatures, Watch!File(i, s)
  PROVE  /\ scan[i].pc = "reported" /\ s \in scan[i].offered /\ UNCHANGED <<clock, present, log, stored, history>>
         /\ tasks' = tasks \cup {[signature |-> s, scan |-> i]}
         /\ scan' = [scan EXCEPT ![i] = [scan[i] EXCEPT !.filed = scan[i].filed \cup {s}]]
BY DEF Watch!File, WatchTypes

Probed == [Watch!NoScan EXCEPT !.pc = "probed", !.at = clock, !.saw = present]

LEMMA ProbeDoes ==
  ASSUME WatchTypes, NEW i \in Watch!Ids, Watch!Probe(i)
  PROVE  /\ scan[i].pc = "none" /\ UNCHANGED <<clock, present, log, stored, tasks, history>>
         /\ scan' = [scan EXCEPT ![i] = Probed]
BY DEF Watch!Probe, Probed

(* A step that changes one check. *)
ScanShape ==
  \A i \in Watch!Ids : /\ scan[i].filed \subseteq scan[i].offered
                       /\ scan[i].pc # "none" => scan[i].at >= 1
                       /\ scan[i].pc \in {"none", "probed"} => scan[i].offered = {}

LEMMA OneCheck ==
  ASSUME WatchTypes, NEW i \in Watch!Ids, NEW r \in Checks, scan' = [scan EXCEPT ![i] = r], r.filed \subseteq r.offered,
         r.pc # "none" => r.at >= 1, r.pc \in {"none", "probed"} => r.offered = {}
  PROVE  /\ scan' \in [Watch!Ids -> Checks] /\ ScanShape' /\ scan'[i] = r /\ \A j \in Watch!Ids \ {i} : scan'[j] = scan[j]
<1>1. scan' \in [Watch!Ids -> Checks] /\ scan'[i] = r /\ \A j \in Watch!Ids \ {i} : scan'[j] = scan[j]
  BY DEF WatchTypes
<1> QED
  BY <1>1 DEF ScanShape, WatchTypes

-----------------------------------------------------------------------------
LEMMA WatchTypeStep == WatchTypes /\ [Watch!Next]_watchVars => WatchTypes'
<1> SUFFICES ASSUME WatchTypes, [Watch!Next]_watchVars PROVE WatchTypes'
  OBVIOUS
<1>0. clock \in 1..MaxClock /\ Scans \in Nat \ {0} /\ MaxClock \in Nat \ {0}
  BY WatchConstants DEF WatchTypes
<1>1. CASE Watch!Passes \/ Watch!Changes \/ UNCHANGED watchVars
  BY <1>0, <1>1 DEF Watch!Passes, Watch!Changes, watchVars, WatchTypes
<1>2. ASSUME NEW e \in Errors, Watch!Logs(e) PROVE WatchTypes'
  <2>1. PICK l \in Lines : log' = Append(log, l)
    BY <1>2 DEF Watch!Logs, Lines
  <2>2. log' \in Seq(Lines) /\ stored.offset <= Len(log')
    BY <2>1 DEF WatchTypes
  <2> QED
    BY <1>2, <2>2 DEF Watch!Logs, WatchTypes
<1>3. ASSUME NEW i \in Watch!Ids, Watch!Probe(i) PROVE WatchTypes'
  <2>1. Probed \in Checks /\ Probed.filed = {} /\ Probed.offered = {} /\ Probed.pc = "probed" /\ Probed.at = clock
    <3>1. Watch!NoScan \in Checks /\ Watch!NoScan.filed = {} /\ Watch!NoScan.offered = {}
      BY WatchConstants DEF Watch!NoScan
    <3>2. clock \in 0..MaxClock /\ present \in SUBSET Conditions
      BY <1>0 DEF WatchTypes
    <3> QED
      BY <3>1, <3>2 DEF Probed, Checks
  <2>2. scan' \in [Watch!Ids -> Checks] /\ ScanShape'
    BY <1>0, <1>3, <2>1, ProbeDoes, OneCheck
  <2> QED
    BY <1>3, <2>2, ProbeDoes DEF WatchTypes, ScanShape
<1>4. ASSUME NEW i \in Watch!Ids, Watch!Check(i) PROVE WatchTypes'
  <2>1. PICK offered \in SUBSET Watch!Signatures : Offer(i, Pends, offered)
    BY <1>4, CheckOffers
  <2>2. scan[i] \in Checks /\ scan[i].at \in 1..MaxClock
    BY <1>4, CheckOffers DEF WatchTypes, Checks
  <2>3. Pends \in [Watch!Signatures -> Claims]
    BY WatchConstants DEF Pends, Pend, WatchTypes
  <2>4. [scan |-> i, at |-> scan[i].at] \in Claims
    BY <2>2, WatchConstants DEF Claims
  <2>5. Watch!After(i) \in Alerts
    BY <2>2 DEF Watch!After, Alerts, WatchTypes
  <2>6. stored'.scans \subseteq [id : Watch!Ids, at : 0..MaxClock, after : Alerts]
    BY <2>1, <2>2, <2>5 DEF Offer, Watch!Kept, WatchTypes
  <2>7. stored' \in [offset : Nat, alerts : Alerts, known : SUBSET Watch!Signatures, pending : [Watch!Signatures -> Claims],
                    scans : SUBSET [id : Watch!Ids, at : 0..MaxClock, after : Alerts]] /\ stored'.offset <= Len(log)
    <3>1. stored'.pending \in [Watch!Signatures -> Claims]
      BY <2>1, <2>3, <2>4 DEF Offer
    <3>2. Len(log) \in Nat /\ Len(log) <= Len(log)
      BY DEF WatchTypes
    <3>3. stored'.offset \in Nat /\ stored'.offset <= Len(log) /\ stored'.alerts \in Alerts /\ stored'.known \subseteq Watch!Signatures
      BY <2>1, <3>2 DEF Offer, WatchTypes
    <3>4. stored' = [offset |-> stored'.offset, alerts |-> stored'.alerts, known |-> stored'.known,
                      pending |-> stored'.pending, scans |-> stored'.scans]
      BY <1>4, CheckOffers
    <3> QED
      BY <2>6, <3>1, <3>3, <3>4
  <2>8. Watch!New(i) \cup Watch!Remind(i) \subseteq Conditions
    BY <2>2 DEF Watch!New, Watch!Remind, Checks
  <2>9. scan'[i] \in Checks
    BY <2>1, <2>2, <2>8 DEF Offer, Checks
  <2>10. scan' \in [Watch!Ids -> Checks]
    BY <1>4, <2>9, CheckOffers DEF WatchTypes
  <2>11. history'.skipped \in Nat
    <3>1. Watch!Skipped \in Nat
      BY WatchConstants DEF Watch!Skipped, Watch!Unread, WatchTypes
    <3> QED
      BY <2>1, <3>1 DEF Offer, WatchTypes
  <2>12. history' \in [reoffered : SUBSET Watch!Signatures, skipped : Nat, rejected : SUBSET [scan : Watch!Ids, age : Int],
                  committed : SUBSET Watch!Ids]
    BY <1>4, <2>1, <2>11, CheckOffers DEF Offer, WatchTypes
  <2>13. scan[i].filed = {}
    BY <1>4, CheckOffers DEF WatchTypes
  <2>14. ScanShape'
    <3>1. scan' = [scan EXCEPT ![i] = scan'[i]]
      BY <1>4, CheckOffers
    <3>2. scan'[i].filed = {} /\ scan'[i].pc = "reported" /\ scan'[i].at = scan[i].at
      BY <2>1, <2>13 DEF Offer
    <3> HIDE DEF WatchTypes
    <3> QED
      BY <2>2, <2>9, <3>1, <3>2, OneCheck
  <2> QED
    BY <1>4, <2>7, <2>10, <2>12, <2>14, CheckOffers DEF WatchTypes, ScanShape
<1>5. ASSUME NEW i \in Watch!Ids, Watch!Commit(i) PROVE WatchTypes'
  <2>1. /\ UNCHANGED <<clock, present, log, tasks>> /\ scan[i] \in Checks /\ scan[i].pc = "reported"
        /\ scan' = [scan EXCEPT ![i] = [scan[i] EXCEPT !.pc = "done"]]
    BY <1>5, CommitTakes DEF WatchTypes
  <2>2. [scan[i] EXCEPT !.pc = "done"] \in Checks
    BY <2>1 DEF Checks
  <2>3. scan' \in [Watch!Ids -> Checks] /\ scan'[i] = [scan[i] EXCEPT !.pc = "done"]
    BY <2>1, <2>2 DEF WatchTypes
  <2>4. CASE Rejects(i)
    <3>1. [scan |-> i, age |-> clock - scan[i].at] \in [scan : Watch!Ids, age : Int]
      BY <1>0, <2>1 DEF Checks
    <3>2. history' \in [reoffered : SUBSET Watch!Signatures, skipped : Nat, rejected : SUBSET [scan : Watch!Ids, age : Int],
                  committed : SUBSET Watch!Ids]
      BY <2>4, <3>1 DEF Rejects, WatchTypes
    <3> QED
      BY ZenonT(40), <2>1, <2>3, <2>4, <3>2 DEF Rejects, WatchTypes, Checks
  <2>5. ASSUME NEW x \in stored.scans, Takes(i, x) PROVE WatchTypes'
    <3>1. x.after \in Alerts /\ scan[i].filed \subseteq Watch!Signatures
      BY <2>1 DEF WatchTypes, Checks
    <3>2. [s \in Watch!Signatures |-> IF s \in scan[i].filed THEN Watch!Unseen ELSE Watch!Release(i, stored.pending[s])] \in [Watch!Signatures -> Claims]
      BY WatchConstants DEF WatchTypes, Watch!Release
    <3>3. stored' \in [offset : Nat, alerts : Alerts, known : SUBSET Watch!Signatures, pending : [Watch!Signatures -> Claims],
                      scans : SUBSET [id : Watch!Ids, at : 0..MaxClock, after : Alerts]] /\ stored'.offset = stored.offset
      BY <2>5, <3>1, <3>2 DEF Takes, WatchTypes
    <3>4. history' \in [reoffered : SUBSET Watch!Signatures, skipped : Nat, rejected : SUBSET [scan : Watch!Ids, age : Int],
                  committed : SUBSET Watch!Ids]
      BY <2>5 DEF Takes, WatchTypes
    <3> QED
      BY <2>1, <2>3, <3>3, <3>4 DEF WatchTypes, Checks
  <2> QED
    BY <1>5, <2>4, <2>5, CommitTakes
<1>6. ASSUME NEW i \in Watch!Ids, NEW s \in Watch!Signatures, Watch!File(i, s) PROVE WatchTypes'
  <2>1. scan[i] \in Checks
    BY DEF WatchTypes
  <2>2. [scan[i] EXCEPT !.filed = scan[i].filed \cup {s}] \in Checks
    BY <2>1 DEF Checks
  <2> DEFINE r == [scan[i] EXCEPT !.filed = scan[i].filed \cup {s}]
  <2>3. /\ scan' = [scan EXCEPT ![i] = r] /\ tasks' = tasks \cup {[signature |-> s, scan |-> i]}
        /\ UNCHANGED <<clock, present, log, stored, history>> /\ scan[i].pc = "reported" /\ s \in scan[i].offered
    BY <1>6, FileDoes
  <2>4. r.filed \subseteq r.offered /\ r.pc = "reported" /\ r.at >= 1
    BY <2>1, <2>3 DEF WatchTypes, Checks
  <2>5. scan' \in [Watch!Ids -> Checks] /\ ScanShape'
    <3> HIDE DEF r
    <3> QED
      BY <2>2, <2>3, <2>4, OneCheck DEF r
  <2>6. tasks' \subseteq [signature : Watch!Signatures, scan : Watch!Ids]
    BY <2>3 DEF WatchTypes
  <2> HIDE DEF r
  <2> QED
    BY <2>3, <2>5, <2>6 DEF WatchTypes, ScanShape
<1> QED
  BY <1>1, <1>2, <1>3, <1>4, <1>5, <1>6 DEF Watch!Next

-----------------------------------------------------------------------------
LEMMA LogStep == WatchTypes /\ LogInv /\ [Watch!Next]_watchVars => LogInv'
<1> SUFFICES ASSUME WatchTypes, LogInv, [Watch!Next]_watchVars PROVE LogInv'
  OBVIOUS
<1>1. CASE UNCHANGED log
  BY <1>1 DEF LogInv
<1>2. ASSUME NEW e \in Errors, Watch!Logs(e) PROVE LogInv'
  <2> DEFINE l == [error |-> e, part |->
               IF \E i \in DOMAIN log : log[i] = [error |-> e, part |-> "head"] THEN "tail" ELSE "head"]
  <2>1. log' = Append(log, l) /\ log \in Seq(Lines) /\ Len(log) \in Nat /\ DOMAIN log = 1..Len(log)
    BY <1>2 DEF Watch!Logs, WatchTypes
  <2>2. \A i \in DOMAIN log : log[i].error # e \/ (i = Len(log) /\ log[i].part = "head")
    BY <1>2 DEF Watch!Logs
  <2>3. l.error = e /\ (l.part = "tail" => \E i \in DOMAIN log : log[i] = [error |-> e, part |-> "head"])
    OBVIOUS
  <2> HIDE DEF l
  <2>4. Len(log') = Len(log) + 1 /\ log'[Len(log) + 1] = l /\ \A n \in DOMAIN log : log'[n] = log[n]
    BY <2>1
  <2>5. l.part = "tail" => Len(log) >= 1 /\ log[Len(log)] = [error |-> e, part |-> "head"]
    BY <2>1, <2>2, <2>3
  <2> SUFFICES ASSUME NEW n \in DOMAIN log', log'[n].part = "tail"
               PROVE  n > 1 /\ log'[n - 1] = [error |-> log'[n].error, part |-> "head"]
    BY DEF LogInv
  <2>6. DOMAIN log' = 1..Len(log) + 1
    BY <2>1
  <2>7. CASE n = Len(log) + 1
    <3>1. l.part = "tail" /\ l.error = e /\ log'[n] = l /\ n - 1 = Len(log) /\ n - 1 \in DOMAIN log
      BY <2>1, <2>3, <2>4, <2>5, <2>7
    <3> QED
      BY <2>1, <2>4, <2>5, <3>1
  <2>8. CASE n \in DOMAIN log
    BY <2>1, <2>4, <2>8 DEF LogInv
  <2> QED
    BY <2>1, <2>6, <2>7, <2>8
<1> QED
  BY <1>1, <1>2
  DEF Watch!Next, Watch!Passes, Watch!Changes, Watch!Probe, Watch!Check, Watch!Commit, Watch!File, watchVars

(* Of what a check reads every line is in a block. *)
LEMMA LinesInBlocks ==
  ASSUME WatchTypes, LogInv, Watch!Skipped = 0, NEW n \in stored.offset + 1 .. Len(log)
  PROVE  \E s \in {log[n].error} \X Watch!Parts : s \in Watch!Blocks
<1> DEFINE k == n - stored.offset
<1>1. /\ Watch!Text \in Seq(Lines) /\ Len(Watch!Text) = Len(log) - stored.offset /\ k \in DOMAIN Watch!Text
      /\ \A m \in DOMAIN Watch!Text : Watch!Text[m] = log[m + stored.offset]
  BY SMTT(30) DEF Watch!Text, WatchTypes
<1>2. k + stored.offset = n /\ n \in DOMAIN log /\ k \in Nat \ {0} /\ k <= Len(Watch!Text) /\ DOMAIN Watch!Text = 1..Len(Watch!Text)
  BY <1>1 DEF WatchTypes
<1>3. log[n] \in Lines /\ Watch!Text[k] = log[n]
  BY <1>1, <1>2 DEF WatchTypes
<1> HIDE DEF k
<1>4. CASE log[n].part = "head" /\ k < Len(Watch!Text)
  <2>1. Watch!Text[k].part = "head" /\ k \in DOMAIN Watch!Text
    BY <1>1, <1>3, <1>4
  <2>2. <<Watch!Text[k].error, "both">> \in Watch!Blocks
    BY <1>4, <2>1 DEF Watch!Blocks
  <2> QED
    BY <1>3, <2>2 DEF Watch!Parts
<1>5. CASE log[n].part = "head" /\ k = Len(Watch!Text)
  BY <1>1, <1>3, <1>5 DEF Watch!Blocks, Watch!Parts
<1>6. CASE log[n].part = "tail" /\ k = 1
  BY ZenonT(40), <1>1, <1>3, <1>6 DEF Watch!Blocks, Watch!Parts
<1>7. CASE log[n].part = "tail" /\ k > 1
  <2>1. log[n - 1] = [error |-> log[n].error, part |-> "head"] /\ k - 1 \in DOMAIN Watch!Text /\ k - 1 < Len(Watch!Text)
    BY <1>2, <1>7 DEF LogInv
  <2>2. Watch!Text[k - 1] = log[n - 1]
    BY <1>1, <1>2, <2>1 DEF WatchTypes
  <2>3. <<Watch!Text[k - 1].error, "both">> \in Watch!Blocks
    BY <2>1, <2>2 DEF Watch!Blocks
  <2> QED
    BY <2>1, <2>2, <2>3 DEF Watch!Parts
<1>8. log[n].part \in {"head", "tail"}
  BY <1>3 DEF Lines
<1>9. Len(Watch!Text) \in Nat
  BY <1>1
<1>10. (k < Len(Watch!Text) \/ k = Len(Watch!Text)) /\ (k = 1 \/ k > 1)
  <2> DEFINE l == Len(Watch!Text)
  <2>1. k \in Nat \ {0} /\ l \in Nat /\ k <= l
    BY <1>2, <1>9
  <2> HIDE DEF l
  <2>2. (k < l \/ k = l) /\ (k = 1 \/ k > 1)
    BY <2>1
  <2> QED
    BY <2>2 DEF l
<1> QED
  BY <1>4, <1>5, <1>6, <1>7, <1>8, <1>10

LEMMA BlocksTyped == WatchTypes => Watch!Blocks \subseteq Watch!Signatures
<1> SUFFICES ASSUME WatchTypes PROVE Watch!Blocks \subseteq Watch!Signatures
  OBVIOUS
<1>1. Watch!Text \in Seq(Lines)
  BY SMTT(30), WatchConstants DEF Watch!Text, Watch!Skipped, Watch!Unread, WatchTypes
<1>2. \A n \in DOMAIN Watch!Text : Watch!Text[n] \in Lines
  BY <1>1
<1> QED
  BY <1>2 DEF Watch!Blocks, Lines, Watch!Signatures, Watch!Parts

LEMMA ErrorsStep == WatchTypes /\ LogInv /\ Watch!ErrorsAreKept /\ [Watch!Next]_watchVars => Watch!ErrorsAreKept'
<1> SUFFICES ASSUME WatchTypes, LogInv, Watch!ErrorsAreKept, [Watch!Next]_watchVars PROVE Watch!ErrorsAreKept'
  OBVIOUS
<1>1. ASSUME UNCHANGED stored, UNCHANGED history.skipped, \A n \in 1..stored.offset : log'[n] = log[n]
      PROVE  Watch!ErrorsAreKept'
  BY <1>1 DEF Watch!ErrorsAreKept
<1>2. CASE Watch!Passes \/ Watch!Changes \/ UNCHANGED watchVars
  BY <1>1, <1>2 DEF Watch!Passes, Watch!Changes, watchVars
<1>3. ASSUME NEW e \in Errors, Watch!Logs(e) PROVE Watch!ErrorsAreKept'
  <2>1. PICK l \in Lines : log' = Append(log, l)
    BY <1>3 DEF Watch!Logs, Lines
  <2>2. \A n \in 1..stored.offset : log'[n] = log[n]
    BY <2>1 DEF WatchTypes
  <2> QED
    BY <1>1, <1>3, <2>2 DEF Watch!Logs
<1>4. ASSUME NEW i \in Watch!Ids, Watch!Probe(i) PROVE Watch!ErrorsAreKept'
  BY <1>1, <1>4 DEF Watch!Probe
<1>5. ASSUME NEW i \in Watch!Ids, NEW s \in Watch!Signatures, Watch!File(i, s) PROVE Watch!ErrorsAreKept'
  BY <1>1, <1>5 DEF Watch!File
<1>6. ASSUME NEW i \in Watch!Ids, Watch!Check(i) PROVE Watch!ErrorsAreKept'
  <2>1. PICK offered \in SUBSET Watch!Signatures : Offer(i, Pends, offered)
    BY <1>6, CheckOffers
  <2>2. i # -1 /\ Watch!Skipped \in Nat /\ history.skipped \in Nat /\ Len(log) \in Nat /\ stored.offset \in 0..Len(log)
    BY WatchConstants DEF Watch!Skipped, Watch!Unread, WatchTypes
  <2>3. UNCHANGED log /\ stored'.offset = Len(log) /\ stored'.known = stored.known /\ history'.skipped = history.skipped + Watch!Skipped
    BY <1>6, <2>1, CheckOffers DEF Offer
  <2>4. \A s \in Watch!Signatures : stored'.pending[s] = IF s \in offered THEN [scan |-> i, at |-> scan[i].at] ELSE Pend(s)
    BY <2>1 DEF Offer, Pends
  <2>5. \A s \in Watch!Signatures : s \in Watch!Blocks \/ stored.pending[s] # Watch!Unseen => s \in stored.known \/ stored'.pending[s] # Watch!Unseen
    BY <2>2, <2>4, WatchConstants DEF Pend
  <2>6. ASSUME NEW n \in 1..Len(log), history'.skipped = 0
        PROVE  \E s \in {log[n].error} \X Watch!Parts : s \in stored.known \/ stored'.pending[s] # Watch!Unseen
    <3>1. history.skipped = 0 /\ Watch!Skipped = 0
      BY <2>2, <2>3, <2>6
    <3>2. log[n].error \in Errors
      <4>1. log \in Seq(Lines) /\ n \in DOMAIN log
        BY DEF WatchTypes
      <4>2. log[n] \in Lines
        BY <4>1
      <4> QED
        BY <4>2 DEF Lines
    <3>3. CASE n \in 1..stored.offset
      <4>1. PICK s \in {log[n].error} \X Watch!Parts : s \in stored.known \/ stored.pending[s] # Watch!Unseen
        BY <3>1, <3>3 DEF Watch!ErrorsAreKept
      <4>2. s \in Watch!Signatures
        BY <3>2 DEF Watch!Signatures
      <4> QED
        BY <2>5, <4>1, <4>2
    <3>4. CASE n \in stored.offset + 1 .. Len(log)
      <4>1. PICK s \in {log[n].error} \X Watch!Parts : s \in Watch!Blocks
        BY <3>1, <3>4, LinesInBlocks
      <4>2. s \in Watch!Signatures
        BY <4>1, BlocksTyped
      <4> QED
        BY <2>5, <4>1, <4>2
    <3> QED
      BY <2>2, <3>3, <3>4
  <2>7. ASSUME NEW s \in stored.known PROVE stored'.pending[s] = Watch!Unseen
    <3>1. s \in Watch!Signatures /\ stored.pending[s] = Watch!Unseen
      BY DEF WatchTypes, Watch!ErrorsAreKept
    <3>2. Pends[s] = Watch!Unseen
      BY <3>1 DEF Pends, Pend
    <3>3. s \notin offered
      BY <2>1, <3>2 DEF Offer, Watch!Available
    <3> QED
      BY <2>4, <3>1, <3>2, <3>3 DEF Pends
  <2>8. history'.skipped > 0 \/ history'.skipped = 0
    BY <2>2, <2>3
  <2> QED
    BY <2>3, <2>6, <2>7, <2>8 DEF Watch!ErrorsAreKept
<1>7. ASSUME NEW i \in Watch!Ids, Watch!Commit(i) PROVE Watch!ErrorsAreKept'
  <2>1. UNCHANGED log /\ scan[i].filed \subseteq Watch!Signatures
    BY <1>7, CommitTakes DEF WatchTypes, Checks
  <2>2. CASE Rejects(i)
    BY <1>1, <2>1, <2>2 DEF Rejects, WatchTypes
  <2>3. ASSUME NEW x \in stored.scans, Takes(i, x) PROVE Watch!ErrorsAreKept'
    <3>1. /\ stored'.offset = stored.offset /\ stored'.known = stored.known \cup scan[i].filed
          /\ \A s \in Watch!Signatures : stored'.pending[s] = IF s \in scan[i].filed THEN Watch!Unseen ELSE Watch!Release(i, stored.pending[s])
          /\ history'.skipped = history.skipped
      BY <2>3 DEF Takes, WatchTypes
    <3>2. \A s \in Watch!Signatures : Watch!Release(i, stored.pending[s]) = Watch!Unseen <=> stored.pending[s] = Watch!Unseen
      BY WatchConstants DEF Watch!Release
    <3>3. ASSUME NEW n \in 1..stored.offset, ~(history.skipped > 0)
          PROVE  \E s \in {log[n].error} \X Watch!Parts : s \in stored'.known \/ stored'.pending[s] # Watch!Unseen
      <4>1. PICK s \in {log[n].error} \X Watch!Parts : s \in stored.known \/ stored.pending[s] # Watch!Unseen
        BY <3>3 DEF Watch!ErrorsAreKept
      <4>2. log[n].error \in Errors
        <5>1. log \in Seq(Lines) /\ n \in DOMAIN log
          BY DEF WatchTypes
        <5>2. log[n] \in Lines
          BY <5>1
        <5> QED
          BY <5>2 DEF Lines
      <4>3. s \in Watch!Signatures
        BY <4>2 DEF Watch!Signatures
      <4> QED
        BY <3>1, <3>2, <4>1, <4>3
    <3>4. ASSUME NEW s \in stored'.known PROVE stored'.pending[s] = Watch!Unseen
      BY <2>1, <3>1, <3>2 DEF WatchTypes, Watch!ErrorsAreKept
    <3> QED
      BY <2>1, <3>1, <3>3, <3>4 DEF Watch!ErrorsAreKept
  <2> QED
    BY <1>7, <2>2, <2>3, CommitTakes
<1> QED
  BY <1>2, <1>3, <1>4, <1>5, <1>6, <1>7 DEF Watch!Next

-----------------------------------------------------------------------------
LEMMA FiledStep == WatchTypes /\ Watch!ErrorsAreKept /\ FiledInv /\ [Watch!Next]_watchVars => FiledInv'
<1> SUFFICES ASSUME WatchTypes, Watch!ErrorsAreKept, FiledInv, [Watch!Next]_watchVars PROVE FiledInv'
  OBVIOUS
<1>0. ASSUME UNCHANGED <<scan, tasks, history>>, UNCHANGED stored PROVE FiledInv'
  BY <1>0 DEF FiledInv, Holds
<1>1. CASE Watch!Passes \/ Watch!Changes \/ UNCHANGED watchVars \/ \E e \in Errors : Watch!Logs(e)
  BY <1>0, <1>1 DEF Watch!Passes, Watch!Changes, watchVars, Watch!Logs
<1>2. ASSUME NEW i \in Watch!Ids, Watch!Probe(i) PROVE FiledInv'
  <2>1. Probed \in Checks /\ Probed.filed = {} /\ Probed.pc = "probed"
    <3>1. Watch!NoScan \in Checks /\ Watch!NoScan.filed = {}
      BY WatchConstants DEF Watch!NoScan
    <3>2. clock \in 0..MaxClock /\ present \in SUBSET Conditions
      BY WatchConstants DEF WatchTypes
    <3> QED
      BY <3>1, <3>2 DEF Probed, Checks
  <2>2. scan'[i] = Probed /\ \A j \in Watch!Ids \ {i} : scan'[j] = scan[j]
    BY <1>2, ProbeDoes DEF WatchTypes
  <2>3. scan[i].filed = {} /\ scan[i].pc = "none"
    BY <1>2, ProbeDoes DEF WatchTypes
  <2>4. \A j \in Watch!Ids, s \in Watch!Signatures : (Holds(j, s)' <=> Holds(j, s)) /\ (scan'[j].pc = "done" <=> scan[j].pc = "done")
    BY <2>1, <2>2, <2>3 DEF Holds
  <2>5. \A j \in Watch!Ids : scan'[j].filed = scan[j].filed
    BY <2>1, <2>2, <2>3
  <2>6. UNCHANGED <<stored, tasks, history>>
    BY <1>2, ProbeDoes
  <2>7. \A t \in tasks : t.scan \in Watch!Ids
    BY DEF WatchTypes
  <2>8. \A t \in tasks' : t.signature \in scan'[t.scan].filed
    BY <2>5, <2>6, <2>7 DEF FiledInv
  <2> QED
    BY <2>4, <2>6, <2>8 DEF FiledInv
<1>3. ASSUME NEW i \in Watch!Ids, NEW s \in Watch!Signatures, Watch!File(i, s) PROVE FiledInv'
  <2>a. /\ scan[i].pc = "reported" /\ s \in scan[i].offered /\ UNCHANGED <<stored, history>>
        /\ tasks' = tasks \cup {[signature |-> s, scan |-> i]}
        /\ scan' = [scan EXCEPT ![i] = [scan[i] EXCEPT !.filed = scan[i].filed \cup {s}]]
    BY <1>3, FileDoes
  <2>1. /\ scan[i].pc = "reported" /\ s \in scan[i].offered /\ UNCHANGED <<stored, history>>
        /\ tasks' = tasks \cup {[signature |-> s, scan |-> i]}
        /\ scan'[i] = [scan[i] EXCEPT !.filed = scan[i].filed \cup {s}] /\ \A j \in Watch!Ids \ {i} : scan'[j] = scan[j]
    BY <2>a DEF WatchTypes
  <2>2. /\ scan'[i].filed = scan[i].filed \cup {s} /\ scan'[i].pc = "reported" /\ scan'[i].offered = scan[i].offered
    BY <2>1 DEF WatchTypes, Checks
  <2>3. \A j \in Watch!Ids, q \in Watch!Signatures : (Holds(j, q)' <=> Holds(j, q)) /\ (scan'[j].pc = scan[j].pc)
    BY <2>1, <2>2 DEF Holds
  <2>4. \A t \in tasks' : t.signature \in scan'[t.scan].filed
    <3> SUFFICES ASSUME NEW t \in tasks' PROVE t.signature \in scan'[t.scan].filed
      OBVIOUS
    <3>1. CASE t \in tasks
      BY <2>1, <2>2, <3>1 DEF FiledInv, WatchTypes
    <3>2. CASE t = [signature |-> s, scan |-> i]
      BY <2>2, <3>2
    <3> QED
      BY <2>1, <3>1, <3>2
  <2> QED
    BY <2>1, <2>3, <2>4 DEF FiledInv
<1>4. ASSUME NEW i \in Watch!Ids, Watch!Check(i) PROVE FiledInv'
  <2>1. PICK offered \in SUBSET Watch!Signatures : Offer(i, Pends, offered)
    BY <1>4, CheckOffers
  <2>a. scan[i].pc = "probed" /\ UNCHANGED tasks
    BY <1>4, CheckOffers
  <2>b. /\ scan'[i].pc = "reported" /\ scan'[i].offered = offered
        /\ scan'[i].filed = scan[i].filed /\ \A j \in Watch!Ids \ {i} : scan'[j] = scan[j]
    BY <2>1 DEF Offer
  <2>2. /\ scan[i].pc = "probed" /\ UNCHANGED tasks /\ scan'[i].pc = "reported" /\ scan'[i].offered = offered
        /\ scan'[i].filed = scan[i].filed /\ \A j \in Watch!Ids \ {i} : scan'[j] = scan[j]
    BY <2>a, <2>b
  <2>3. scan[i].filed = {}
    BY <2>2 DEF WatchTypes
  <2>4. \A t \in tasks' : t.signature \in scan'[t.scan].filed
    BY <2>2 DEF FiledInv, WatchTypes
  <2>5. stored'.known = stored.known /\ \A s \in Watch!Signatures :
          stored'.pending[s] = IF s \in offered THEN [scan |-> i, at |-> scan[i].at] ELSE Pends[s]
    BY <2>1 DEF Offer
  <2>6. ASSUME NEW s \in Watch!Signatures \ history'.reoffered, NEW j \in Watch!Ids, Holds(j, s)'
        PROVE  /\ \A k \in Watch!Ids : Holds(k, s)' => k = j
               /\ stored'.pending[s].scan = j \/ (s \in stored'.known /\ scan'[j].pc = "done")
    <3>1. s \notin history.reoffered
      BY <2>1, <2>6 DEF Offer
    <3>2. \A k \in Watch!Ids : Holds(k, s)' <=> (k # i /\ Holds(k, s)) \/ (k = i /\ s \in offered)
      BY <2>2, <2>3 DEF Holds
    <3>3. CASE s \in offered
      <4>1. Pends[s] # Watch!Unseen /\ ~Watch!Claimed(Pends[s])
        BY <2>1, <2>6, <3>3 DEF Offer, Watch!Available
      <4>2. ~(stored.pending[s].scan > 0)
        BY <4>1 DEF Pends, Pend, Watch!Claimed, Watch!Unseen, Watch!Never
      <4>3. s \notin stored.known
        BY <4>1 DEF Watch!ErrorsAreKept, Pends, Pend
      <4>4. \A k \in Watch!Ids : ~Holds(k, s)
        BY <3>1, <4>2, <4>3, WatchConstants DEF FiledInv
      <4>5. j = i /\ stored'.pending[s] = [scan |-> i, at |-> scan[i].at]
        BY <2>5, <2>6, <3>2, <3>3, <4>4
      <4> QED
        BY <3>2, <4>4, <4>5
    <3>4. CASE s \notin offered
      <4>1. j # i /\ Holds(j, s) /\ \A k \in Watch!Ids : Holds(k, s)' => Holds(k, s)
        BY <2>6, <3>2, <3>4
      <4>2. stored.pending[s].scan = j \/ (s \in stored.known /\ scan[j].pc = "done")
        BY <3>1, <4>1 DEF FiledInv
      <4>3. Pends[s] = stored.pending[s]
        BY <4>2, WatchConstants DEF Pends, Pend
      <4> QED
        BY <2>2, <2>5, <3>1, <3>4, <4>1, <4>2, <4>3 DEF FiledInv
    <3> QED
      BY <3>3, <3>4
  <2> QED
    BY <2>4, <2>6 DEF FiledInv
<1>5. ASSUME NEW i \in Watch!Ids, Watch!Commit(i) PROVE FiledInv'
  <2>1. /\ scan[i] \in Checks /\ scan[i].pc = "reported" /\ UNCHANGED tasks
        /\ scan'[i] = [scan[i] EXCEPT !.pc = "done"] /\ \A j \in Watch!Ids \ {i} : scan'[j] = scan[j]
    BY <1>5, CommitTakes DEF WatchTypes
  <2>2. scan'[i].pc = "done" /\ scan'[i].filed = scan[i].filed
    BY <2>1 DEF Checks
  <2>3. \A t \in tasks' : t.signature \in scan'[t.scan].filed
    BY <2>1, <2>2 DEF FiledInv, WatchTypes
  <2>4. \A k \in Watch!Ids, s \in Watch!Signatures : Holds(k, s)' <=> Holds(k, s) /\ (k = i => s \in scan[i].filed)
    BY <2>1, <2>2 DEF Holds
  <2>5. CASE Rejects(i)
    <3>1. UNCHANGED stored /\ history'.reoffered = history.reoffered
      BY <2>5 DEF Rejects, WatchTypes
    <3>2. \A s \in Watch!Signatures \ history.reoffered : Holds(i, s) => stored.pending[s].scan = i
      BY <2>1 DEF FiledInv
    <3> QED
      BY <2>1, <2>3, <2>4, <3>1, <3>2 DEF FiledInv
  <2>6. ASSUME NEW x \in stored.scans, Takes(i, x) PROVE FiledInv'
    <3>1. /\ stored'.known = stored.known \cup scan[i].filed /\ history'.reoffered = history.reoffered
          /\ \A s \in Watch!Signatures : stored'.pending[s] = IF s \in scan[i].filed THEN Watch!Unseen ELSE Watch!Release(i, stored.pending[s])
      BY <2>6 DEF Takes, WatchTypes
    <3>2. ASSUME NEW s \in Watch!Signatures \ history'.reoffered, NEW j \in Watch!Ids, Holds(j, s)'
          PROVE  /\ \A k \in Watch!Ids : Holds(k, s)' => k = j
                 /\ stored'.pending[s].scan = j \/ (s \in stored'.known /\ scan'[j].pc = "done")
      <4>1. Holds(j, s) /\ \A k \in Watch!Ids : Holds(k, s)' => k = j
        BY <2>4, <3>1, <3>2 DEF FiledInv
      <4>2. CASE j = i
        BY <2>2, <2>4, <3>1, <3>2, <4>1, <4>2
      <4>3. CASE j # i
        <5>1. s \notin scan[i].filed
          BY <3>1, <4>1, <4>3 DEF FiledInv, Holds
        <5>2. stored.pending[s].scan = j \/ (s \in stored.known /\ scan[j].pc = "done")
          BY <3>1, <4>1 DEF FiledInv
        <5>3. stored'.pending[s] = Watch!Release(i, stored.pending[s])
          BY <3>1, <5>1
        <5>4. stored.pending[s].scan = j => stored'.pending[s].scan = j
          BY <4>3, <5>3 DEF Watch!Release
        <5> QED
          BY <2>1, <3>1, <4>1, <4>3, <5>2, <5>4
      <4> QED
        BY <4>2, <4>3
    <3> QED
      BY <2>3, <3>2 DEF FiledInv
  <2> QED
    BY <1>5, <2>5, <2>6, CommitTakes
<1> QED
  BY <1>1, <1>2, <1>3, <1>4, <1>5 DEF Watch!Next

-----------------------------------------------------------------------------
LEMMA IdsFinite == IsFiniteSet(Watch!Ids)
BY WatchConstants, FS_Interval

LEMMA OthersFinite ==
  \A i \in Watch!Ids : /\ IsFiniteSet(Others(i)) /\ Cardinality(Others(i)) \in Nat
                       /\ IsFiniteSet(Others(i)') /\ Cardinality(Others(i)') \in Nat
<1>1. IsFiniteSet(Watch!Ids)
  BY IdsFinite
<1> QED
  BY <1>1, FS_Subset, FS_CardinalityType DEF Others

(* No check goes back. *)
LEMMA OthersGrow ==
  ASSUME \A j \in Watch!Ids : scan[j].pc \in {"reported", "done"} => scan'[j].pc \in {"reported", "done"}, NEW i \in Watch!Ids
  PROVE  Cardinality(Others(i)) <= Cardinality(Others(i)')
<1>1. IsFiniteSet(Watch!Ids)
  BY IdsFinite
<1>2. Others(i) \subseteq Others(i)' /\ Others(i)' \subseteq Watch!Ids
  BY DEF Others
<1> QED
  BY <1>1, <1>2, FS_Subset

(* A report that a check pushes out has enough newer ones. *)
LEMMA PushedOut ==
  ASSUME WatchTypes, ScansInv, NEW i \in Watch!Ids, Watch!Check(i), NEW x \in stored.scans \cup {[id |-> i, at |-> scan[i].at, after |-> Watch!After(i)]},
         x \notin stored'.scans
  PROVE  Cardinality(Others(x.id)') >= KeepScans
<1> DEFINE new == [id |-> i, at |-> scan[i].at, after |-> Watch!After(i)]
           all == stored.scans \cup {new}
           newer == {y \in all : y.at > x.at \/ (y.at = x.at /\ y.id > x.id)}
           ids == [y \in newer |-> y.id]
<1>a. PICK offered \in SUBSET Watch!Signatures : Offer(i, Pends, offered)
  BY CheckOffers
<1>b. scan[i].pc = "probed"
  BY CheckOffers
<1>c. scan'[i].pc = "reported" /\ (\A j \in Watch!Ids \ {i} : scan'[j] = scan[j]) /\ stored'.scans = Watch!Kept(all)
  BY <1>a DEF Offer
<1>1. scan[i].pc = "probed" /\ scan'[i].pc = "reported" /\ (\A j \in Watch!Ids \ {i} : scan'[j] = scan[j]) /\ stored'.scans = Watch!Kept(all)
  BY <1>b, <1>c
<1>2. ~(Cardinality(newer) < KeepScans)
  BY <1>1, WatchCardinality DEF Watch!Kept
<1>3. \A y \in all : y.id \in Watch!Ids /\ scan'[y.id].pc \in {"reported", "done"} /\ \A z \in all : y.id = z.id => y = z
  BY <1>1 DEF ScansInv, WatchTypes
<1>4. IsFiniteSet(newer) /\ IsFiniteSet(Others(x.id)')
  <2>1. IsFiniteSet(all)
    BY FS_AddElement DEF ScansInv
  <2>2. IsFiniteSet(Watch!Ids)
    BY IdsFinite
  <2> QED
    BY <2>1, <2>2, FS_Subset DEF Others
<1>5. \A y \in newer : y.id \in Others(x.id)'
  <2> SUFFICES ASSUME NEW y \in newer PROVE y.id \in Others(x.id)'
    OBVIOUS
  <2>1. y.at \in Int /\ x.at \in Int /\ y.id \in Int /\ x.id \in Int
    BY SMTT(30), WatchConstants DEF WatchTypes, Checks
  <2>2. y # x
    BY <2>1
  <2> QED
    BY <1>3, <2>2 DEF Others
<1>6. ids \in [newer -> Others(x.id)']
  BY <1>5
<1>7. ~(Cardinality(Others(x.id)') < Cardinality(newer))
  <2> HIDE DEF newer, all
  <2> SUFFICES ASSUME Cardinality(Others(x.id)') < Cardinality(newer) PROVE FALSE
    OBVIOUS
  <2>1. PICK y, z \in newer : y # z /\ ids[y] = ids[z]
    <3> HIDE DEF ids
    <3> QED
      BY <1>4, <1>6, FS_PigeonHole
  <2> QED
    BY <1>3, <2>1 DEF newer
<1>8. Cardinality(newer) \in Nat /\ Cardinality(Others(x.id)') \in Nat /\ KeepScans \in Nat
  BY <1>4, WatchConstants, FS_CardinalityType
<1> HIDE DEF newer
<1> QED
  BY <1>2, <1>7, <1>8

LEMMA ScansStep == WatchTypes /\ ScansInv /\ [Watch!Next]_watchVars => ScansInv'
<1> SUFFICES ASSUME WatchTypes, ScansInv, [Watch!Next]_watchVars PROVE ScansInv'
  OBVIOUS
<1>0. /\ KeepScans \in Nat
      /\ \A i \in Watch!Ids : Cardinality(Others(i)) \in Nat /\ Cardinality(Others(i)') \in Nat
  BY WatchConstants, OthersFinite
<1>1. ASSUME UNCHANGED <<stored, history>>, \A j \in Watch!Ids : scan'[j].pc = scan[j].pc \/ (scan[j].pc = "none" /\ scan'[j].pc = "probed")
      PROVE  ScansInv'
  <2>1. \A j \in Watch!Ids : (scan'[j].pc = "reported" <=> scan[j].pc = "reported") /\ (scan'[j].pc = "done" <=> scan[j].pc = "done")
    BY <1>1
  <2>2. \A i \in Watch!Ids : Others(i)' = Others(i)
    BY <2>1 DEF Others
  <2>3. (\A x \in stored.scans : x.id \in Watch!Ids) /\ \A r \in history.rejected : r.scan \in Watch!Ids
    BY DEF WatchTypes
  <2> QED
    BY <1>1, <2>1, <2>2, <2>3 DEF ScansInv
<1>2. CASE Watch!Passes \/ Watch!Changes \/ UNCHANGED watchVars \/ \E e \in Errors : Watch!Logs(e)
  BY <1>1, <1>2 DEF Watch!Passes, Watch!Changes, watchVars, Watch!Logs
<1>3. ASSUME NEW i \in Watch!Ids, Watch!Probe(i) PROVE ScansInv'
  <2>1. Probed.pc = "probed"
    BY DEF Probed, Watch!NoScan
  <2>2. scan' = [scan EXCEPT ![i] = Probed] /\ scan[i].pc = "none" /\ UNCHANGED <<stored, history>>
    BY <1>3, ProbeDoes
  <2> QED
    BY <1>1, <2>1, <2>2 DEF WatchTypes
<1>4. ASSUME NEW i \in Watch!Ids, NEW s \in Watch!Signatures, Watch!File(i, s) PROVE ScansInv'
  <2>1. scan' = [scan EXCEPT ![i] = [scan[i] EXCEPT !.filed = scan[i].filed \cup {s}]] /\ UNCHANGED <<stored, history>>
    BY <1>4, FileDoes
  <2>2. [scan[i] EXCEPT !.filed = scan[i].filed \cup {s}].pc = scan[i].pc
    BY DEF WatchTypes, Checks
  <2> QED
    BY <1>1, <2>1, <2>2 DEF WatchTypes
<1>5. ASSUME NEW i \in Watch!Ids, Watch!Check(i) PROVE ScansInv'
  <2> DEFINE new == [id |-> i, at |-> scan[i].at, after |-> Watch!After(i)]
             all == stored.scans \cup {new}
  <2>a. PICK offered \in SUBSET Watch!Signatures : Offer(i, Pends, offered)
    BY <1>5, CheckOffers
  <2>b. scan[i].pc = "probed"
    BY <1>5, CheckOffers
  <2>c. scan'[i].pc = "reported" /\ (\A j \in Watch!Ids \ {i} : scan'[j] = scan[j]) /\ stored'.scans = Watch!Kept(all)
    BY <2>a DEF Offer
  <2>1. scan[i].pc = "probed" /\ scan'[i].pc = "reported" /\ (\A j \in Watch!Ids \ {i} : scan'[j] = scan[j]) /\ stored'.scans = Watch!Kept(all)
    BY <2>b, <2>c
  <2>2. history'.rejected = history.rejected
    BY <2>a DEF Offer
  <2>3. stored'.scans \subseteq all /\ IsFiniteSet(stored'.scans)
    <3>1. IsFiniteSet(all)
      BY FS_AddElement DEF ScansInv
    <3>2. stored'.scans \subseteq all
      BY <2>1 DEF Watch!Kept
    <3> QED
      BY <3>1, <3>2, FS_Subset
  <2>4. \A y \in all : y.id \in Watch!Ids /\ scan'[y.id].pc \in {"reported", "done"} /\ \A z \in all : y.id = z.id => y = z
    BY <2>1 DEF ScansInv, WatchTypes
  <2>5. ASSUME NEW j \in Watch!Ids, scan'[j].pc = "reported", \A x \in stored'.scans : x.id # j
        PROVE  Cardinality(Others(j)') >= KeepScans
    <3>1. CASE \A x \in all : x.id # j
      <4>1. j # i /\ scan[j].pc = "reported" /\ \A x \in stored.scans : x.id # j
        <5>1. new \in all /\ new.id = i
          OBVIOUS
        <5>2. j # i
          BY <3>1, <5>1
        <5> QED
          BY <2>1, <2>5, <3>1, <5>2
      <4>2. Cardinality(Others(j)) >= KeepScans
        BY <4>1 DEF ScansInv
      <4>3. Cardinality(Others(j)) <= Cardinality(Others(j)')
        BY <2>1, OthersGrow
      <4> QED
        BY <1>0, <4>2, <4>3
    <3>2. ASSUME NEW x \in all, x.id = j PROVE Cardinality(Others(j)') >= KeepScans
      <4>1. x \notin stored'.scans
        BY <2>5, <3>2
      <4> QED
        BY <1>5, <3>2, <4>1, PushedOut
    <3> QED
      BY <3>1, <3>2
  <2>6. \A r \in history'.rejected : scan'[r.scan].pc = "done"
    BY <2>1, <2>2 DEF ScansInv, WatchTypes
  <2> HIDE DEF all
  <2> QED
    BY <2>3, <2>4, <2>5, <2>6 DEF ScansInv
<1>6. ASSUME NEW i \in Watch!Ids, Watch!Commit(i) PROVE ScansInv'
  <2>1. scan[i].pc = "reported" /\ scan'[i].pc = "done" /\ \A j \in Watch!Ids \ {i} : scan'[j] = scan[j]
    <3>1. scan[i].pc = "reported" /\ scan[i] \in Checks /\ scan' = [scan EXCEPT ![i] = [scan[i] EXCEPT !.pc = "done"]]
      BY <1>6, CommitTakes DEF WatchTypes
    <3>2. [scan[i] EXCEPT !.pc = "done"].pc = "done"
      BY <3>1 DEF Checks
    <3> QED
      BY <3>1, <3>2 DEF WatchTypes
  <2>2. /\ stored'.scans \subseteq stored.scans /\ \A x \in stored.scans : x.id # i => x \in stored'.scans
        /\ history'.rejected \subseteq history.rejected \cup {[scan |-> i, age |-> clock - scan[i].at]}
    <3>1. CASE Rejects(i)
      BY <3>1 DEF Rejects, WatchTypes
    <3>2. ASSUME NEW x \in stored.scans, Takes(i, x)
          PROVE  stored'.scans = {y \in stored.scans : y.id # i} /\ history'.rejected = history.rejected
      BY <3>2 DEF Takes, WatchTypes
    <3> QED
      BY <1>6, <3>1, <3>2, CommitTakes
  <2>3. IsFiniteSet(stored'.scans)
    BY <2>2, FS_Subset DEF ScansInv
  <2>4. ASSUME NEW j \in Watch!Ids, scan'[j].pc = "reported", \A x \in stored'.scans : x.id # j
        PROVE  Cardinality(Others(j)') >= KeepScans
    <3>1. Cardinality(Others(j)) <= Cardinality(Others(j)')
      BY <2>1, OthersGrow
    <3>2. Cardinality(Others(j)) >= KeepScans
      BY <2>1, <2>2, <2>4 DEF ScansInv
    <3> QED
      BY <1>0, <3>1, <3>2
  <2>5. \A x \in stored'.scans : scan'[x.id].pc \in {"reported", "done"}
    BY <2>1, <2>2 DEF ScansInv, WatchTypes
  <2>6. \A r \in history'.rejected : scan'[r.scan].pc = "done"
    BY <2>1, <2>2 DEF ScansInv, WatchTypes
  <2> QED
    BY <2>2, <2>3, <2>4, <2>5, <2>6 DEF ScansInv
<1> QED
  BY <1>2, <1>3, <1>4, <1>5, <1>6 DEF Watch!Next

-----------------------------------------------------------------------------
(* What no step takes back. *)
Kepts ==
  /\ \A j \in Watch!Ids : scan[j].pc \in {"reported", "done"} =>
       /\ scan'[j].pc \in {"reported", "done"} /\ scan'[j].told = scan[j].told /\ scan'[j].at = scan[j].at
       /\ scan[j].pc = "done" => scan'[j] = scan[j]
  /\ history.reoffered \subseteq history'.reoffered /\ history.committed \subseteq history'.committed

LEMMA NothingBack == WatchTypes /\ [Watch!Next]_watchVars => Kepts
<1> SUFFICES ASSUME WatchTypes, [Watch!Next]_watchVars PROVE Kepts
  OBVIOUS
<1>1. CASE Watch!Passes \/ Watch!Changes \/ UNCHANGED watchVars \/ \E e \in Errors : Watch!Logs(e)
  BY <1>1 DEF Watch!Passes, Watch!Changes, watchVars, Watch!Logs, Kepts
<1>2. ASSUME NEW i \in Watch!Ids, Watch!Probe(i) PROVE Kepts
  BY <1>2, ProbeDoes DEF Kepts, WatchTypes
<1>3. ASSUME NEW i \in Watch!Ids, NEW s \in Watch!Signatures, Watch!File(i, s) PROVE Kepts
  <2>1. /\ scan[i].pc = "reported" /\ UNCHANGED history
        /\ scan' = [scan EXCEPT ![i] = [scan[i] EXCEPT !.filed = scan[i].filed \cup {s}]]
    BY <1>3, FileDoes
  <2>2. /\ scan'[i] = [scan[i] EXCEPT !.filed = scan[i].filed \cup {s}] /\ scan[i] \in Checks
        /\ \A j \in Watch!Ids \ {i} : scan'[j] = scan[j]
    BY <2>1 DEF WatchTypes
  <2>3. scan'[i].pc = scan[i].pc /\ scan'[i].told = scan[i].told /\ scan'[i].at = scan[i].at
    BY <2>2 DEF Checks
  <2> QED
    BY <2>1, <2>2, <2>3 DEF Kepts
<1>4. ASSUME NEW i \in Watch!Ids, Watch!Check(i) PROVE Kepts
  <2>1. scan[i].pc = "probed"
    BY <1>4, CheckOffers
  <2>2. PICK offered \in SUBSET Watch!Signatures : Offer(i, Pends, offered)
    BY <1>4, CheckOffers
  <2>3. /\ \A j \in Watch!Ids \ {i} : scan'[j] = scan[j]
        /\ history.reoffered \subseteq history'.reoffered /\ history.committed \subseteq history'.committed
    BY <2>2 DEF Offer
  <2> QED
    BY <2>1, <2>3 DEF Kepts
<1>5. ASSUME NEW i \in Watch!Ids, Watch!Commit(i) PROVE Kepts
  <2>1. scan[i].pc = "reported" /\ scan' = [scan EXCEPT ![i] = [scan[i] EXCEPT !.pc = "done"]] /\ scan[i] \in Checks
    BY <1>5, CommitTakes DEF WatchTypes
  <2>2. scan'[i] = [scan[i] EXCEPT !.pc = "done"] /\ \A j \in Watch!Ids \ {i} : scan'[j] = scan[j]
    BY <2>1 DEF WatchTypes
  <2>3. scan'[i].pc = "done" /\ scan'[i].told = scan[i].told /\ scan'[i].at = scan[i].at
    BY <2>1, <2>2 DEF Checks
  <2>4. history.reoffered \subseteq history'.reoffered /\ history.committed \subseteq history'.committed
    <3>1. CASE Rejects(i)
      BY <3>1 DEF Rejects, WatchTypes
    <3>2. ASSUME NEW x \in stored.scans, Takes(i, x) PROVE history'.reoffered = history.reoffered /\ history.committed \subseteq history'.committed
      BY <3>2 DEF Takes, WatchTypes
    <3> QED
      BY <1>5, <3>1, <3>2, CommitTakes
  <2> QED
    BY <2>1, <2>2, <2>3, <2>4 DEF Kepts
<1> QED
  BY <1>1, <1>2, <1>3, <1>4, <1>5 DEF Watch!Next

(* Only a commit that is refused adds to the refused ones. *)
LEMMA RefusedByCommit ==
  ASSUME WatchTypes, [Watch!Next]_watchVars, NEW r \in history'.rejected, r \notin history.rejected
  PROVE  \E i \in Watch!Ids : Watch!Commit(i) /\ Rejects(i) /\ r.scan = i
<1>1. CASE Watch!Passes \/ Watch!Changes \/ UNCHANGED watchVars \/ \E e \in Errors : Watch!Logs(e)
  BY <1>1 DEF Watch!Passes, Watch!Changes, watchVars, Watch!Logs
<1>2. ASSUME NEW i \in Watch!Ids, Watch!Probe(i) PROVE FALSE
  BY <1>2, ProbeDoes
<1>3. ASSUME NEW i \in Watch!Ids, NEW s \in Watch!Signatures, Watch!File(i, s) PROVE FALSE
  BY <1>3, FileDoes
<1>4. ASSUME NEW i \in Watch!Ids, Watch!Check(i) PROVE FALSE
  BY <1>4, CheckOffers DEF Offer
<1>5. ASSUME NEW i \in Watch!Ids, Watch!Commit(i) PROVE Rejects(i) /\ r.scan = i
  <2>1. ASSUME NEW x \in stored.scans, Takes(i, x) PROVE FALSE
    BY <2>1 DEF Takes, WatchTypes
  <2>2. Rejects(i)
    BY <1>5, <2>1, CommitTakes
  <2> QED
    BY <2>2 DEF Rejects, WatchTypes
<1> QED
  BY <1>1, <1>2, <1>3, <1>4, <1>5 DEF Watch!Next

LEMMA PromptStep == WatchTypes /\ FiledInv /\ ScansInv /\ Watch!PromptCommitTaken /\ [Watch!Next]_watchVars => Watch!PromptCommitTaken'
<1> SUFFICES ASSUME WatchTypes, FiledInv, ScansInv, Watch!PromptCommitTaken, [Watch!Next]_watchVars, NEW r \in history'.rejected
             PROVE  r.age >= ClaimFor \/ Cardinality(Others(r.scan)') >= KeepScans
                      \/ scan'[r.scan].filed \cap history'.reoffered # {}
  BY WatchCardinality DEF Watch!PromptCommitTaken, Others
<1>1. Kepts
  BY NothingBack
<1>2. \A i \in Watch!Ids : Cardinality(Others(i)) <= Cardinality(Others(i)')
  BY <1>1, OthersGrow DEF Kepts
<1>3. KeepScans \in Nat /\ \A i \in Watch!Ids : Cardinality(Others(i)) \in Nat /\ Cardinality(Others(i)') \in Nat
  BY WatchConstants, OthersFinite
<1>4. CASE r \in history.rejected
  <2>1. r.scan \in Watch!Ids /\ scan[r.scan].pc = "done"
    BY <1>4 DEF WatchTypes, ScansInv
  <2>2. scan'[r.scan] = scan[r.scan] /\ history.reoffered \subseteq history'.reoffered
    BY <1>1, <2>1 DEF Kepts
  <2>3. r.age >= ClaimFor \/ Cardinality(Others(r.scan)) >= KeepScans \/ scan[r.scan].filed \cap history.reoffered # {}
    BY <1>4, WatchCardinality DEF Watch!PromptCommitTaken, Others
  <2>4. Cardinality(Others(r.scan)) >= KeepScans => Cardinality(Others(r.scan)') >= KeepScans
    BY <1>2, <1>3, <2>1
  <2> QED
    BY <2>2, <2>3, <2>4
<1>5. CASE r \notin history.rejected
  <2>1. PICK i \in Watch!Ids : Watch!Commit(i) /\ Rejects(i) /\ r.scan = i
    BY <1>5, RefusedByCommit
  <2>2. scan[i].pc = "reported"
    BY <2>1, CommitTakes
  <2>3. CASE \A x \in stored.scans : x.id # i
    <3>1. Cardinality(Others(i)) >= KeepScans
      BY <2>2, <2>3 DEF ScansInv
    <3> QED
      BY <1>2, <1>3, <2>1, <3>1
  <2>4. ASSUME NEW s \in scan[i].filed, stored.pending[s] = Watch!Unseen PROVE scan'[i].filed \cap history'.reoffered # {}
    <3>1. s \in Watch!Signatures
      BY DEF WatchTypes, Checks
    <3>2. stored.pending[s].scan # i
      BY <2>4, WatchConstants
    <3>3. s \in history.reoffered
      BY <2>2, <3>1, <3>2 DEF FiledInv, Holds
    <3>4. scan'[i].filed = scan[i].filed
      <4>1. scan[i] \in Checks /\ scan' = [scan EXCEPT ![i] = [scan[i] EXCEPT !.pc = "done"]]
        BY <2>1, CommitTakes DEF WatchTypes
      <4>2. scan'[i] = [scan[i] EXCEPT !.pc = "done"]
        BY <4>1 DEF WatchTypes
      <4> QED
        BY <4>1, <4>2 DEF Checks
    <3> QED
      BY <1>1, <3>3, <3>4 DEF Kepts
  <2> QED
    BY <2>1, <2>3, <2>4 DEF Rejects
<1> QED
  BY <1>4, <1>5

-----------------------------------------------------------------------------
(* What a step does with the reports and the alerts. *)
LEMMA AlertsByCommit ==
  ASSUME WatchTypes, [Watch!Next]_watchVars
  PROVE  \/ UNCHANGED <<stored, history>>
         \/ \E i \in Watch!Ids : Watch!Check(i) \/ (Watch!Commit(i) /\ Rejects(i)) \/ \E x \in stored.scans : Watch!Commit(i) /\ Takes(i, x)
<1>1. CASE Watch!Passes \/ Watch!Changes \/ UNCHANGED watchVars \/ \E e \in Errors : Watch!Logs(e)
  BY <1>1 DEF Watch!Passes, Watch!Changes, watchVars, Watch!Logs
<1>2. ASSUME NEW i \in Watch!Ids, Watch!Probe(i) PROVE UNCHANGED <<stored, history>>
  BY <1>2, ProbeDoes
<1>3. ASSUME NEW i \in Watch!Ids, NEW s \in Watch!Signatures, Watch!File(i, s) PROVE UNCHANGED <<stored, history>>
  BY <1>3, FileDoes
<1>4. ASSUME NEW i \in Watch!Ids, Watch!Commit(i) PROVE Rejects(i) \/ \E x \in stored.scans : Takes(i, x)
  BY <1>4, CommitTakes
<1> QED
  BY <1>1, <1>2, <1>3, <1>4 DEF Watch!Next

LEMMA ToldStep == WatchTypes /\ ScansInv /\ ToldInv /\ Watch!AlertsWereTold /\ [Watch!Next]_watchVars => ToldInv' /\ Watch!AlertsWereTold'
<1> SUFFICES ASSUME WatchTypes, ScansInv, ToldInv, Watch!AlertsWereTold, [Watch!Next]_watchVars PROVE ToldInv' /\ Watch!AlertsWereTold'
  OBVIOUS
<1>1. Kepts
  BY NothingBack
<1>2. \A i \in Watch!Ids : scan[i].pc \in {"reported", "done"} =>
        \A c \in Conditions, at \in Int : ToldBy(i, c, at) => ToldThen(i, c, at)
  BY <1>1 DEF Kepts, ToldBy, ToldThen
<1>3. /\ history.committed \subseteq Watch!Ids /\ \A i \in history.committed : scan[i].pc = "done" /\ scan'[i].pc = "done"
  BY <1>1 DEF Kepts, ToldInv, WatchTypes
<1>4. \A c \in Conditions : stored.alerts[c] \in Int /\ \A x \in stored.scans : x.after[c] \in Int
  BY WatchConstants DEF WatchTypes, Alerts, Watch!Never
<1>5. \A c \in Conditions : stored.alerts[c] # Watch!Never => \E i \in history.committed : ToldThen(i, c, stored.alerts[c])
  BY <1>2, <1>3, <1>4 DEF Watch!AlertsWereTold, ToldBy, ToldThen
<1>6. ASSUME NEW x \in stored.scans, NEW c \in Conditions, x.after[c] # Watch!Never
      PROVE  \E i \in history.committed \cup {x.id} : ToldThen(i, c, x.after[c])
  <2>1. PICK i \in history.committed \cup {x.id} : ToldBy(i, c, x.after[c])
    BY <1>6 DEF ToldInv
  <2>2. i \in Watch!Ids /\ scan[i].pc \in {"reported", "done"}
    BY <1>3 DEF ScansInv, WatchTypes
  <2> QED
    BY <1>2, <1>4, <2>1, <2>2
<1>7. ASSUME stored'.alerts = stored.alerts PROVE Watch!AlertsWereTold'
  BY <1>1, <1>5, <1>7 DEF Watch!AlertsWereTold, ToldThen, Kepts
<1>8. ASSUME stored'.scans \subseteq stored.scans, history'.committed = history.committed PROVE ToldInv'
  BY <1>3, <1>6, <1>8 DEF ToldInv, ToldBy, ToldThen
<1>9. CASE UNCHANGED <<stored, history>>
  BY <1>7, <1>8, <1>9
<1>10. ASSUME NEW i \in Watch!Ids, Watch!Check(i) PROVE ToldInv' /\ Watch!AlertsWereTold'
  <2>1. PICK offered \in SUBSET Watch!Signatures : Offer(i, Pends, offered)
    BY <1>10, CheckOffers
  <2>2. stored'.alerts = stored.alerts /\ history'.committed = history.committed
    BY <2>1 DEF Offer
  <2>3. stored'.scans \subseteq stored.scans \cup {[id |-> i, at |-> scan[i].at, after |-> Watch!After(i)]}
    BY <2>1 DEF Offer, Watch!Kept
  <2>4. scan'[i].told = Watch!New(i) \cup Watch!Remind(i) /\ scan'[i].at = scan[i].at
    BY <2>1 DEF Offer
  <2>5. ASSUME NEW c \in Conditions, Watch!After(i)[c] # Watch!Never
        PROVE  \E j \in history.committed \cup {i} : ToldThen(j, c, Watch!After(i)[c])
    <3>1. CASE c \in Watch!New(i) \cup Watch!Remind(i)
      BY <2>4, <3>1 DEF Watch!After, ToldThen
    <3>2. CASE c \notin Watch!New(i) \cup Watch!Remind(i)
      <4>1. Watch!After(i)[c] = stored.alerts[c]
        BY <2>5, <3>2 DEF Watch!After
      <4> QED
        BY <1>5, <2>5, <4>1
    <3> QED
      BY <3>1, <3>2
  <2>6. ToldInv'
    BY <1>3, <1>6, <2>2, <2>3, <2>5 DEF ToldInv, ToldBy, ToldThen
  <2> QED
    BY <1>7, <2>2, <2>6
<1>11. ASSUME NEW i \in Watch!Ids, Watch!Commit(i), Rejects(i) PROVE ToldInv' /\ Watch!AlertsWereTold'
  <2>1. UNCHANGED stored /\ history'.committed = history.committed
    BY <1>11 DEF Rejects, WatchTypes
  <2> QED
    BY <1>7, <1>8, <2>1
<1>12. ASSUME NEW i \in Watch!Ids, NEW x \in stored.scans, Watch!Commit(i), Takes(i, x) PROVE ToldInv' /\ Watch!AlertsWereTold'
  <2>1. /\ stored'.alerts = x.after /\ stored'.scans \subseteq stored.scans /\ x.id = i
        /\ history'.committed = history.committed \cup {i}
    BY <1>12 DEF Takes, WatchTypes
  <2>2. scan'[i].pc = "done"
    <3>1. scan[i] \in Checks /\ scan' = [scan EXCEPT ![i] = [scan[i] EXCEPT !.pc = "done"]]
      BY <1>12, CommitTakes DEF WatchTypes
    <3> QED
      BY <3>1 DEF Checks, WatchTypes
  <2>3. ToldInv'
    <3>1. \A j \in history'.committed : scan'[j].pc = "done"
      BY <1>3, <2>1, <2>2
    <3>2. \A y \in stored'.scans, c \in Conditions : y.after[c] # Watch!Never =>
            \E j \in history'.committed \cup {y.id} : ToldThen(j, c, y.after[c])
      BY <1>6, <2>1
    <3> QED
      BY <3>1, <3>2 DEF ToldInv, ToldBy, ToldThen
  <2>4. Watch!AlertsWereTold'
    <3>1. \A c \in Conditions : stored'.alerts[c] # Watch!Never => \E j \in history'.committed : ToldThen(j, c, stored'.alerts[c])
      BY <1>6, <2>1
    <3> QED
      BY <3>1 DEF Watch!AlertsWereTold, ToldBy, ToldThen
  <2> QED
    BY <2>3, <2>4
<1> QED
  BY <1>9, <1>10, <1>11, <1>12, AlertsByCommit

-----------------------------------------------------------------------------
LEMMA WatchStep == WatchInv /\ [Watch!Next]_watchVars => WatchInv'
<1> SUFFICES ASSUME WatchInv, [Watch!Next]_watchVars PROVE WatchInv'
  OBVIOUS
<1>1. WatchTypes' /\ LogInv' /\ Watch!ErrorsAreKept'
  BY WatchTypeStep, LogStep, ErrorsStep DEF WatchInv
<1>2. FiledInv' /\ ScansInv'
  BY FiledStep, ScansStep DEF WatchInv
<1>3. Watch!PromptCommitTaken' /\ ToldInv' /\ Watch!AlertsWereTold'
  BY PromptStep, ToldStep DEF WatchInv
<1> QED
  BY <1>1, <1>2, <1>3 DEF WatchInv

LEMMA WatchRight == WatchInv => Watch!TypeOK /\ Watch!ErrorsAreKept /\ Watch!FiledOnce /\ Watch!PromptCommitTaken /\ Watch!AlertsWereTold
<1> SUFFICES ASSUME WatchInv PROVE Watch!TypeOK /\ Watch!FiledOnce
  BY DEF WatchInv
<1>1. Watch!TypeOK
  BY WatchConstants DEF WatchInv, WatchTypes, Watch!TypeOK, Alerts, Claims, Checks
<1>2. Watch!FiledOnce
  <2> SUFFICES ASSUME NEW t \in tasks, NEW u \in tasks, t.signature = u.signature, t.signature \notin history.reoffered
               PROVE  t.scan = u.scan
    BY DEF Watch!FiledOnce
  <2>1. t.signature \in Watch!Signatures /\ t.scan \in Watch!Ids /\ u.scan \in Watch!Ids
    BY DEF WatchInv, WatchTypes
  <2>2. Holds(t.scan, t.signature) /\ Holds(u.scan, t.signature)
    BY DEF WatchInv, FiledInv, Holds
  <2> QED
    BY <2>1, <2>2 DEF WatchInv, FiledInv
<1> QED
  BY <1>1, <1>2

-----------------------------------------------------------------------------
(* The invariants of the parts, side by side. *)
PartsInv ==
  /\ part \in {"session", "goal", "node", "watch"} /\ LoginInv /\ NodeInv /\ WatchInv
  /\ part # "goal" => NoGoal
  /\ part = "goal" => GoalInv

CoveredPartsInv == PartsInv /\ (part = "goal" => CoveredInv)

LEMMA PartsInit == MCInit => PartsInv /\ (part = "goal" => CoveredInv)
BY LoginInit, GoalInit, NodeInit, WatchInit, GoalAssumption DEF MCInit, PartsInv, CoveredInv

LEMMA PartsStep == PartsInv /\ [MCNext]_<<part, vars, goalVars, nodeVars, watchVars>> => PartsInv'
<1> SUFFICES ASSUME PartsInv, [MCNext]_<<part, vars, goalVars, nodeVars, watchVars>> PROVE PartsInv'
  OBVIOUS
<1>1. UNCHANGED part /\ [Next]_vars /\ [Nodes!Next]_nodeVars /\ [Watch!Next]_watchVars
  BY DEF MCNext
<1>2. LoginInv' /\ NodeInv' /\ WatchInv'
  BY <1>1, LoginStep, NodeStep, WatchStep DEF PartsInv
<1>3. part # "goal" => NoGoal'
  BY DEF PartsInv, MCNext, NoGoal, goalVars
<1>4. part = "goal" => GoalInv'
  BY GoalAssumption, GoalStep DEF PartsInv, MCNext
<1> QED
  BY <1>1, <1>2, <1>3, <1>4 DEF PartsInv

LEMMA CoveredPartsStep ==
  ASSUME NEW h, Listeners \subseteq {h}, Foreign = {}, CoveredPartsInv, [MCNext]_<<part, vars, goalVars, nodeVars, watchVars>>
  PROVE  CoveredPartsInv'
<1>1. UNCHANGED part /\ PartsInv'
  BY PartsStep DEF CoveredPartsInv, MCNext
<1>2. part = "goal" => CoveredInv'
  BY GoalAssumption, CoveredStep DEF CoveredPartsInv, MCNext
<1> QED
  BY <1>1, <1>2 DEF CoveredPartsInv

-----------------------------------------------------------------------------
(* The variables of the login session, the goal, the worker's machine and  *)
(* the health watch keep their types, for every bound and any number of    *)
(* checks, contracts, expirations, listeners and scans; the                *)
(* pipe to the helper never holds more than the checks asked for and the   *)
(* one cancel of the one stop sequence.                                    *)
THEOREM SessionTypes == MCSpec => []MCTypeOK
<1>1. MCInit => PartsInv
  BY PartsInit
<1>2. PartsInv => MCTypeOK
  <2>1. AnySetting \in Settings
    BY GoalAssumption DEF AnySetting
  <2>2. part # "goal" /\ NoGoal => Goal!TypeOK
    BY <2>1, GoalAssumption
    DEF NoGoal, Goal!TypeOK, Goal!Idle, Goal!Contracts, Goal!Actors, Goal!ConstantsAssumption, Goal!MaxErrors
  <2> QED
    BY <2>2, NodesRight, WatchRight DEF PartsInv, MCTypeOK, LoginInv, GoalInv
<1> QED
  BY <1>1, <1>2, PartsStep, PTL DEF MCSpec

(* scraper_login.py:885-891 and shutdown: the confirmation scrape runs     *)
(* only after the helper and its browser are gone, and a coordinator that  *)
(* has shut its sessions down leaves no helper behind.                     *)
THEOREM HelpersAreGone == MCSpec => []HelpersEnd
<1>1. MCInit => PartsInv
  BY PartsInit
<1>2. PartsInv => HelpersEnd
  BY EndedIsOver DEF PartsInv, LoginInv, LifeInv, StopInv, HelpersEnd, ScrapesAlone, ShutdownLeavesNoHelper
<1> QED
  BY <1>1, <1>2, PartsStep, PTL DEF MCSpec

(* Every step of a login session is a step of LoginOutcome or none of its  *)
(* steps: a reported sign-in is never ended without its confirmation       *)
(* unless the coordinator closes, and an outcome is final.  (That every    *)
(* session has an outcome is liveness, and the run's.)                     *)
THEOREM SessionsImplementOutcome == MCSpec => Promise!Init /\ [][Promise!Next]_(Promise!vars)
<1>1. MCInit => PartsInv /\ Promise!Init
  BY PartsInit, PromiseInit DEF MCInit
<1>2. PartsInv /\ [MCNext]_<<part, vars, goalVars, nodeVars, watchVars>> => [Promise!Next]_(Promise!vars)
  BY PromiseStep, PromiseOf DEF PartsInv, MCNext
<1> QED
  BY <1>1, <1>2, PartsStep, PTL DEF MCSpec

(* Whatever the races between the tick and any number of listeners, each   *)
(* contract of a completed goal is on disk or the provider has no data for *)
(* it, provided the provider's directory holds the goal's contracts only.  *)
THEOREM CompletedGoalsAnswered ==
  ASSUME Foreign = {}
  PROVE  MCSpec => []CompletedMeansAnswered
<1>1. MCInit => PartsInv
  BY PartsInit
<1>2. PartsInv => CompletedMeansAnswered
  BY DEF PartsInv, GoalInv, CompletedMeansAnswered, NoGoal
<1> QED
  BY <1>1, <1>2, PartsStep, PTL DEF MCSpec

(* goal_processor.py:219-221: a completed goal has every contract on disk  *)
(* or recorded as answered "no data", as long as one completion listener   *)
(* at a time writes the row and the provider's directory holds the goal's  *)
(* contracts only.                                                         *)
THEOREM CompletedGoalsCovered ==
  ASSUME NEW h, Listeners \subseteq {h}, Foreign = {}
  PROVE  MCSpec => []CompletedMeansCovered
<1>1. MCInit => CoveredPartsInv
  BY PartsInit DEF CoveredPartsInv
<1>2. CoveredPartsInv /\ [MCNext]_<<part, vars, goalVars, nodeVars, watchVars>> => CoveredPartsInv'
  BY CoveredPartsStep
<1>3. CoveredPartsInv => CompletedMeansCovered
  BY DEF CoveredPartsInv, PartsInv, CoveredInv, CompletedMeansCovered, Goal!CompletedMeansCovered, NoGoal
<1> QED
  BY <1>1, <1>2, <1>3, PTL DEF MCSpec

(* routes/workers.py: a worker that is claimed has the token it was given, *)
(* so it can fetch its packages, whatever the order of new tokens, claims, *)
(* deletions and reinstalls; and a worker that runs has loaded what its    *)
(* last update put on its disk.                                            *)
THEOREM WorkersStayCurrent == MCSpec => []WorkersAreCurrent
<1>1. MCInit => PartsInv
  BY PartsInit
<1>2. PartsInv => WorkersAreCurrent
  BY NodesRight DEF PartsInv, WorkersAreCurrent
<1> QED
  BY <1>1, <1>2, PartsStep, PTL DEF MCSpec

(* The health watch, for any number of overlapping checks whose agents may *)
(* be late or never commit: an error that was read is known or waits, a    *)
(* signature has two tasks only if its claim ran out, a commit is refused  *)
(* only for one of the three reasons, and an alert that stands was told by *)
(* a check that was committed.                                             *)
THEOREM HealthWatchTells == MCSpec => []HealthIsTold
<1>1. MCInit => PartsInv
  BY PartsInit
<1>2. PartsInv => HealthIsTold
  BY WatchRight DEF PartsInv, HealthIsTold
<1> QED
  BY <1>1, <1>2, PartsStep, PTL DEF MCSpec
=============================================================================
