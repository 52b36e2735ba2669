--------------------------- MODULE InspectionSpec ---------------------------
(***************************************************************************)
(* The inspection of one artifact as the handlers see it: two steps whose  *)
(* outcomes are those of InspectionContract.                               *)
(***************************************************************************)
EXTENDS InspectionContract

VARIABLES permissive, stage, pending, result, verdict

vars == <<permissive, stage, pending, result, verdict>>

Init ==
  /\ permissive \in BOOLEAN
  /\ stage = "request"
  /\ pending = FALSE
  /\ result = "Unknown"
  /\ verdict = "none"

\* runRequestInspection
RequestInspection ==
  /\ stage = "request"
  /\ \E o \in RequestOutcomes(permissive) :
       /\ pending' = o.pending
       /\ verdict' = o.verdict
       /\ stage' = IF o.verdict = "ok" THEN "upstream" ELSE "refused"
  /\ UNCHANGED <<permissive, result>>

\* runResponseInspection, with or without a readable data file
ResponseInspection ==
  /\ stage = "upstream"
  /\ stage' = "complete"
  /\ \E opened \in BOOLEAN : \E o \in ResponseOutcomes(pending, permissive, opened) :
       /\ result' = o.result
       /\ verdict' = o.verdict
  /\ UNCHANGED <<permissive, pending>>

Next == RequestInspection \/ ResponseInspection

Spec == Init /\ [][Next]_vars
=============================================================================
