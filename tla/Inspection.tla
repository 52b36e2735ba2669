----------------------------- MODULE Inspection -----------------------------
(***************************************************************************)
(* The inspection of one artifact: every registered inspector is asked for *)
(* its opinion on the request, in the order of registration, and later on  *)
(* the content; the opinions decide whether the artifact is approved.      *)
(*                                                                         *)
(* The format inspectors are numbered in that order, 1 .. N, and followed  *)
(* by the default inspector. What each of them says about the artifact at  *)
(* hand is fixed from the start, in `says'; what this module is about is   *)
(* who is asked, in which order, and how the answers are put together.     *)
(***************************************************************************)
EXTENDS Naturals, InspectionContract

CONSTANT N    \* number of format inspectors

ASSUME NAssumption == N \in Nat

Default == N + 1

Formats == 1 .. N

Insps == 1 .. Default

\* What an inspector may do: leave no opinion, leave one, or return an error.
RequestSays == {"None", "Unknown", "Pending", "Rejected", "error"}
ArtifactSays == {"None", "Unknown", "Approved", "Rejected", "error"}

VARIABLES
  permissive,   \* the session's policy
  says,         \* what each format inspector has to say
  stage,        \* where the download is
  next,         \* the inspector whose turn it is
  req,          \* Artifact.RequestInspection, by inspector
  resp,         \* Artifact.ResponseInspection, by inspector
  owner,        \* the inspector whose metadata the artifact has, or 0
  result,       \* Artifact.Result
  verdict       \* what the inspection replied last

vars == <<permissive, says, stage, next, req, resp, owner, result, verdict>>

Stages == {"request", "upstream", "response", "complete", "refused"}

\* The variables of the model range over the values the program gives them.
TypeOK ==
  /\ permissive \in BOOLEAN
  /\ says \in [Formats -> [request : RequestSays, artifact : ArtifactSays]]
  /\ stage \in Stages
  /\ next \in 1 .. Default + 1
  /\ req \in [Insps -> RequestSays \ {"error"}]
  /\ resp \in [Insps -> ArtifactSays \ {"error"}]
  /\ owner \in Insps \cup {0}
  /\ result \in {"Unknown", "Rejected", "Approved"}
  /\ verdict \in {"none", "ok", "error"}

-----------------------------------------------------------------------------
(* metadata/artifact.go: what the opinions add up to                       *)

RequestRejected == \E j \in Insps : req[j] = "Rejected"

RequestPending == ~RequestRejected /\ \E j \in Insps : req[j] = "Pending"

ResponseRejected == \E j \in Insps : resp[j] = "Rejected"

\* A bug: one approval outweighs any rejection.
ResponseApprovedAny == \E j \in Insps : resp[j] = "Approved"

ResponseApproved == ~ResponseRejected /\ \E j \in Insps : resp[j] = "Approved"

\* A bug: what the inspectors thought of the request is forgotten.
ApprovedResponse == ResponseApproved

Approved == RequestPending /\ ResponseApproved

\* SetResponseApproved, SetResponseRejected and SetResponseUnknown: an opinion
\* may come with metadata, and metadata that comes with an approval is only
\* replaced by that of another approval.
SetArtifactMetadata(j, opinion) ==
  owner' \in {owner} \cup
    IF opinion = "Approved" \/ ~\E h \in Insps : resp[h] = "Approved" THEN {j} ELSE {}

-----------------------------------------------------------------------------
(* RunRequestInspectors and evaluateRequestInspection                      *)

\* A format inspector looks at the request; an error ends the inspection.
InspectRequest ==
  LET said == says[next].request
  IN  /\ stage = "request"
      /\ next \in Formats
      /\ \/ /\ said = "error"
            /\ req' = [req EXCEPT ![next] = "Rejected"]
            /\ stage' = "refused"
            /\ verdict' = "error"
            /\ UNCHANGED next
         \/ /\ said # "error"
            /\ req' = [req EXCEPT ![next] = said]
            /\ next' = next + 1
            /\ UNCHANGED <<stage, verdict>>
      /\ UNCHANGED <<permissive, says, resp, owner, result>>

DefaultInspectRequest ==
  /\ stage = "request"
  /\ next = Default
  /\ req' = [req EXCEPT ![Default] =
               IF ~RequestRejected /\ ~RequestPending THEN "Unknown" ELSE @]
  /\ next' = next + 1
  /\ UNCHANGED <<permissive, says, stage, resp, owner, result, verdict>>

EvaluateRequestInspection ==
  /\ stage = "request"
  /\ next = Default + 1
  /\ \/ /\ ~RequestPending /\ ~permissive
        /\ stage' = "refused" /\ verdict' = "error"
     \/ /\ RequestPending \/ permissive
        /\ stage' = "upstream" /\ verdict' = "ok"
  /\ next' = 1
  /\ UNCHANGED <<permissive, says, req, resp, owner, result>>

-----------------------------------------------------------------------------
(* RunArtifactInspectors and evaluateResponseInspection                    *)

\* The content is there and its type can be detected.
OpenArtifactFile ==
  /\ stage = "upstream"
  /\ stage' = "response"
  /\ UNCHANGED <<permissive, says, next, req, resp, owner, result, verdict>>

\* A bug: every inspector runs, whatever it said about the request.
SkipNone(j) == FALSE

\* Unless permissive, only inspectors with pending opinions run.
Skip(j) == ~permissive /\ req[j] # "Pending"

\* Opening, type detection or seeking fails.
ArtifactFileError ==
  /\ \/ stage = "upstream"
     \/ stage = "response" /\ next \in Insps /\ (next = Default \/ ~Skip(next))
  /\ stage' = "complete"
  /\ result' = "Rejected"
  /\ verdict' = "error"
  /\ UNCHANGED <<permissive, says, next, req, resp, owner>>

SkipInspector ==
  /\ stage = "response"
  /\ next \in Formats
  /\ Skip(next)
  /\ next' = next + 1
  /\ UNCHANGED <<permissive, says, stage, req, resp, owner, result, verdict>>

\* A format inspector looks at the content; an error ends the inspection.
InspectArtifact ==
  LET said == says[next].artifact
  IN  /\ stage = "response"
      /\ next \in Formats
      /\ ~Skip(next)
      /\ \/ /\ said = "error"
            /\ resp' = [resp EXCEPT ![next] = "Rejected"]
            /\ stage' = "complete"
            /\ result' = "Rejected"
            /\ verdict' = "error"
            /\ UNCHANGED <<next, owner>>
         \/ /\ said # "error"
            /\ resp' = [resp EXCEPT ![next] = said]
            /\ IF said = "None" THEN UNCHANGED owner ELSE SetArtifactMetadata(next, said)
            /\ next' = next + 1
            /\ UNCHANGED <<stage, result, verdict>>
      /\ UNCHANGED <<permissive, says, req>>

DefaultInspectArtifact ==
  /\ stage = "response"
  /\ next = Default
  /\ resp' = [resp EXCEPT ![Default] =
                IF ~ResponseRejected /\ ~ResponseApproved THEN "Unknown" ELSE @]
  /\ next' = next + 1
  /\ UNCHANGED <<permissive, says, stage, req, owner, result, verdict>>

EvaluateResponseInspection ==
  /\ stage = "response"
  /\ next = Default + 1
  /\ stage' = "complete"
  /\ result' = IF Approved THEN "Approved" ELSE "Rejected"
  /\ verdict' = IF Approved \/ permissive THEN "ok" ELSE "error"
  /\ UNCHANGED <<permissive, says, next, req, resp, owner>>

-----------------------------------------------------------------------------

Init ==
  /\ permissive \in BOOLEAN
  /\ says \in [Formats -> [request : RequestSays, artifact : ArtifactSays]]
  /\ stage = "request"
  /\ next = 1
  /\ req = [j \in Insps |-> "None"]
  /\ resp = [j \in Insps |-> "None"]
  /\ owner = 0
  /\ result = "Unknown"
  /\ verdict = "none"

Next ==
  \/ InspectRequest
  \/ DefaultInspectRequest
  \/ EvaluateRequestInspection
  \/ OpenArtifactFile
  \/ ArtifactFileError
  \/ SkipInspector
  \/ InspectArtifact
  \/ DefaultInspectArtifact
  \/ EvaluateResponseInspection

Spec == Init /\ [][Next]_vars
-----------------------------------------------------------------------------
(* Correctness                                                             *)

\* What a strict session decides, said directly: nobody turns the request
\* down, somebody claims it, and among the inspectors that claimed it nobody
\* turns the content down and somebody approves it.
StrictlyApproved ==
  LET claimed == {j \in Formats : says[j].request = "Pending"}
  IN  /\ \A j \in Formats : says[j].request \notin {"Rejected", "error"}
      /\ \A j \in claimed : says[j].artifact \notin {"Rejected", "error"}
      /\ \E j \in claimed : says[j].artifact = "Approved"

\* Only content that meets that definition is approved in a strict session,
\* so the approval comes from an inspector that claimed the request.
StrictApproval ==
  ~permissive /\ result = "Approved" => StrictlyApproved

\* Content that meets the definition is refused only because its file could
\* not be read: no other inspector can spoil the verdict.
StrictRefusal ==
  ~permissive /\ stage = "complete" /\ next = Default + 1 /\ StrictlyApproved =>
    result = "Approved" /\ verdict = "ok"

-----------------------------------------------------------------------------
(* The inspection implements its contract                                  *)

\* The request's opinions count once the request inspection is over.
Contract == INSTANCE InspectionSpec
  WITH pending <- stage \notin {"request", "refused"} /\ RequestPending,
       stage <- IF stage = "response" THEN "upstream" ELSE stage

ImplementsContract == Contract!Spec
=============================================================================
