------------------------------ MODULE Outcome ------------------------------
(***************************************************************************)
(* What a run of a media creator promises about the drive it was given.    *)
(* The drive is as it was, or something in between, or what was asked for; *)
(* the run ends with one result, and says "success" only in front of a     *)
(* complete drive and "planned" only in front of an untouched one.         *)
(***************************************************************************)
VARIABLES
  stage,   \* "old", "partial" or "complete"
  result   \* "none" while the run goes on

Init == stage = "old" /\ result = "none"

(* The drive is written; it never gets its old content back. *)
Write ==
  /\ result = "none"
  /\ stage' \in {"partial", "complete"}
  /\ UNCHANGED result

Succeed == result = "none" /\ stage = "complete" /\ result' = "success" /\ UNCHANGED stage
Planned == result = "none" /\ stage = "old" /\ result' = "planned" /\ UNCHANGED stage
GiveUp  == /\ result = "none"
           /\ stage' \in {stage, "partial", "complete"}
           /\ result' = "failure"

Next == Write \/ Succeed \/ Planned \/ GiveUp

Spec == Init /\ [][Next]_<<stage, result>>
=============================================================================
