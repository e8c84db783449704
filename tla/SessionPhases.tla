--------------------------- MODULE SessionPhases ---------------------------
(***************************************************************************)
(* What the session controller promises its caller, in the terms of        *)
(* dtrace_status(): a session is first NONE (not started), becomes OKAY or *)
(* EXITED when dtrace_go succeeds, may go from OKAY to EXITED when a       *)
(* clause executes exit(), and becomes STOPPED from either, at which point *)
(* the END clause has run.  No phase is ever left for an earlier one.      *)
(***************************************************************************)
VARIABLES phase, endRan

Phases == {"none", "okay", "exited", "stopped"}

TypeOK == phase \in Phases /\ endRan \in BOOLEAN

Init == phase = "none" /\ endRan = FALSE

Begin ==
  /\ phase = "none"
  /\ phase' \in {"okay", "exited"}
  /\ UNCHANGED endRan

Exit ==
  /\ phase = "okay"
  /\ phase' = "exited"
  /\ UNCHANGED endRan

End ==
  /\ phase \in {"okay", "exited"}
  /\ phase' = "stopped"
  /\ endRan' = TRUE

Next == Begin \/ Exit \/ End

Spec == Init /\ [][Next]_<<phase, endRan>>
=============================================================================
