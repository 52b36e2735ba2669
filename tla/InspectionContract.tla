------------------------- MODULE InspectionContract -------------------------
(***************************************************************************)
(* What an inspection promises to the rest of the service, whatever the    *)
(* inspectors look at: the opinions that the handlers of service/handlers.go *)
(* act on.  FetchService is built on these two sets of outcomes, and       *)
(* Inspection, which runs the inspectors one by one, implements them.      *)
(***************************************************************************)

\* runRequestInspection: whether the artifact's request is pending
\* (RequestPending) and what is replied. An inspector error refuses the
\* request under either policy, a request nobody holds pending only when the
\* session is strict.
RequestOutcomes(permissive) ==
  {o \in [pending : BOOLEAN, verdict : {"ok", "error"}] :
     /\ o.pending => o.verdict = "ok"
     /\ o.verdict = "ok" => o.pending \/ permissive}

\* A bug: the artifact keeps an opinion that evaluation should have settled.
ResponseOutcomesPending(pending, permissive, opened) ==
  [result : {"Approved", "Pending", "Rejected"}, verdict : {"ok", "error"}]

\* runResponseInspection: the artifact's result and what is replied. An
\* inspector error, or a data file that cannot be opened, rejects the artifact
\* under either policy.
ResponseOutcomes(pending, permissive, opened) ==
  {o \in [result : {"Approved", "Rejected"}, verdict : {"ok", "error"}] :
     /\ o.result = "Approved" => opened /\ pending /\ o.verdict = "ok"
     /\ o.verdict = "ok" => opened /\ (o.result = "Approved" \/ permissive)}
=============================================================================
