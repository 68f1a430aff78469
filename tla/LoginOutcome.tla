---------------------------- MODULE LoginOutcome ----------------------------
(***************************************************************************)
(* What a login session promises: it is open until it is confirmed by one  *)
(* scrape or ended; a sign-in that the helper has reported is always       *)
(* confirmed, unless the coordinator closes; an outcome is final, and      *)
(* every session has one.                                                  *)
(***************************************************************************)
CONSTANTS Refused, Confirmed  \* outcomes without and with a confirmation scrape
VARIABLES phase, signedIn, closing

vars == <<phase, signedIn, closing>>
Over == phase \in Refused \cup Confirmed

Init == phase = "none" /\ signedIn = FALSE /\ closing = FALSE

Begin   == phase = "none" /\ phase' = "open" /\ UNCHANGED <<signedIn, closing>>
SignIn  == phase = "open" /\ signedIn' = TRUE /\ UNCHANGED <<phase, closing>>
Confirm == phase = "open" /\ phase' = "confirming" /\ UNCHANGED <<signedIn, closing>>
Close   == closing' = TRUE /\ UNCHANGED <<phase, signedIn>>

End ==
  /\ \/ phase = "open" /\ (signedIn => closing) /\ phase' \in Refused
     \/ phase = "confirming" /\ phase' \in Confirmed
     \/ phase # "none" /\ ~Over /\ closing /\ phase' = "failed"
  /\ UNCHANGED <<signedIn, closing>>

Next == Begin \/ SignIn \/ Confirm \/ Close \/ End
Spec == Init /\ [][Next]_vars /\ WF_vars(End \/ Confirm)
=============================================================================
