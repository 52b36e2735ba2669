--------------------------- MODULE DownloadProofs ---------------------------
(***************************************************************************)
(* Proofs about FileDownload, for content of any size, and about           *)
(* Inspection, for any number of inspectors, whatever they say of the      *)
(* artifact.                                                               *)
(***************************************************************************)
EXTENDS FileDownload, Inspection, TLAPS

-----------------------------------------------------------------------------
(* FileDownload: a download that is not switched to background gives its   *)
(* client the whole approved content, and nothing is sent before the       *)
(* verdict.                                                                *)

\* The pipe: what is read was written, what is written was approved, and the
\* writing side closes when the goroutine ends.
PipeInv ==
  /\ read <= piped
  /\ writer <=> goroutine # "over"
  /\ goroutine \notin {"pipe", "over"} => piped = 0
  /\ piped > 0 => rch = "ok"
  /\ goroutine \in {"open", "pipe"} => rch = "ok"
  /\ goroutine = "over" => piped = 0 \/ piped = Blocks \/ copyError
  /\ copyError => goroutine = "over" /\ rch = "ok"

\* The outcome that the goroutine reported, or that the handler acted upon: an
\* error excludes any data, and success all that could cut the data short,
\* except that io.Copy fails.
Failed == piped = 0 /\ goroutine \in {"check", "over"}

Succeeded ==
  /\ rch = "ok"
  /\ goroutine \in {"pipe", "over"}
  /\ goroutine = "over" => piped = Blocks \/ copyError

OutcomeInv ==
  /\ dch \in {"rejected", "error"} => Failed
  /\ dch = "ok" => Succeeded
  /\ client \in {"403", "500"} => Failed
  /\ handler = "serving" /\ ~bgDownload => Succeeded
  /\ client \in {"body", "eof", "broken", "gone"} => handler = "serving"
  /\ bgDownload => handler = "serving"
  /\ WholeContent

DownloadInv == DownloadTypeOK /\ PipeInv /\ OutcomeInv

-----------------------------------------------------------------------------

LEMMA InitDownloadInv == DownloadInit => DownloadInv
<1> SUFFICES ASSUME DownloadInit
             PROVE  DownloadInv
  OBVIOUS
<1> USE BlocksAssumption DEF DownloadInit
<1>1. DownloadTypeOK
  <2>1. piped \in 0 .. Blocks /\ read \in 0 .. Blocks
    OBVIOUS
  <2> QED
    BY <2>1, Zenon DEF DownloadTypeOK, Outcomes, GoroutineStates
<1>2. PipeInv
  BY DEF PipeInv
<1>3. OutcomeInv
  BY DEF OutcomeInv, Failed, Succeeded, WholeContent
<1> QED
  BY <1>1, <1>2, <1>3 DEF DownloadInv

\* The goroutine's own steps.
LEMMA GoroutineInv ==
  ASSUME DownloadInv, LocalDownload \/ Goroutine \/ InspectionTimeout
  PROVE  DownloadInv'
<1> USE BlocksAssumption
    DEF DownloadInv, DownloadTypeOK, PipeInv, OutcomeInv, Outcomes, GoroutineStates, Failed, Succeeded,
        WholeContent
<1>1. CASE LocalDownload
  BY <1>1 DEF LocalDownload
<1>2. CASE ReceiveReply
  BY <1>2 DEF ReceiveReply
<1>3. CASE InspectionTimeout
  BY <1>3 DEF InspectionTimeout
<1>4. CASE OpenAsset
  BY <1>4 DEF OpenAsset
<1>5. CASE PipeAsset
  <2>1. piped' = piped \/ (piped < Blocks /\ piped' = piped + 1)
    BY <1>5, Zenon DEF PipeAsset
  <2>2. DownloadTypeOK'
    <3>1. piped' \in 0 .. Blocks
      BY <2>1
    <3>2. goroutine' \in GoroutineStates /\ writer' \in BOOLEAN
      BY <1>5, Zenon DEF PipeAsset
    <3> QED
      BY <1>5, <3>1, <3>2 DEF PipeAsset
  <2>3. PipeInv'
    <3>1. read' <= piped'
      BY <1>5, <2>1 DEF PipeAsset
    <3>2. writer' <=> goroutine' # "over"
      BY <1>5, Zenon DEF PipeAsset
    <3>3. copyError' => goroutine' = "over" /\ rch' = "ok"
      <4>1. goroutine = "pipe" /\ rch = "ok" /\ ~copyError
        BY <1>5, Zenon DEF PipeAsset
      <4> QED
        BY <1>5, <4>1, Zenon DEF PipeAsset
    <3>5. goroutine' = "over" => piped' = Blocks \/ copyError'
      <4>1. goroutine # "over"
        BY <1>5 DEF PipeAsset
      <4> QED
        BY <1>5, <4>1, Zenon DEF PipeAsset
    <3>4. goroutine' \in {"pipe", "over"} /\ rch' = "ok"
      BY <1>5, Zenon DEF PipeAsset
    <3> QED
      BY <3>1, <3>2, <3>3, <3>4, <3>5
  <2>4. OutcomeInv'
    BY <1>5 DEF PipeAsset
  <2> QED
    BY <2>2, <2>3, <2>4
<1>6. CASE ReportError
  BY <1>6 DEF ReportError
<1>7. CASE CheckBackground
  <2>1. DownloadTypeOK'
    BY <1>7 DEF CheckBackground
  <2>2. PipeInv'
    BY <1>7 DEF CheckBackground
  <2>3. OutcomeInv'
    BY <1>7 DEF CheckBackground
  <2> QED
    BY <2>1, <2>2, <2>3
<1> QED
  BY <1>1, <1>2, <1>3, <1>4, <1>5, <1>6, <1>7 DEF Goroutine

\* The steps of the others.
LEMMA OthersInv ==
  ASSUME DownloadInv, Handler \/ Inspection \/ BgTimeout \/ Read \/ Disconnect
  PROVE  DownloadInv'
<1> USE BlocksAssumption
    DEF DownloadInv, DownloadTypeOK, PipeInv, OutcomeInv, Outcomes, GoroutineStates, Failed, Succeeded,
        WholeContent
<1>1. CASE ReceiveOutcome
  BY <1>1 DEF ReceiveOutcome
<1>2. CASE SwitchToBackground
  BY <1>2 DEF SwitchToBackground
<1>3. CASE Inspection
  BY <1>3 DEF Inspection
<1>4. CASE BgTimeout
  BY <1>4 DEF BgTimeout
<1>5. CASE Read
  <2>1. DownloadTypeOK'
    <3>1. read' \in 0 .. Blocks
      BY <1>5 DEF Read
    <3>2. client' \in {"waiting", "403", "500", "body", "eof", "broken", "gone"} /\ reader' \in BOOLEAN
      BY <1>5, Zenon DEF Read
    <3> QED
      BY <1>5, <3>1, <3>2 DEF Read
  <2>2. PipeInv'
    BY <1>5 DEF Read
  <2>3. OutcomeInv'
    BY <1>5 DEF Read
  <2> QED
    BY <2>1, <2>2, <2>3
<1>6. CASE Disconnect
  BY <1>6 DEF Disconnect
<1> QED
  BY <1>1, <1>2, <1>3, <1>4, <1>5, <1>6 DEF Handler

\* The inductive invariant holds in every state of every download.
THEOREM DownloadInvariance == DownloadSpec => []DownloadInv
<1>1. DownloadInit => DownloadInv
  BY InitDownloadInv
<1>2. DownloadInv /\ [DownloadNext]_downloadVars => DownloadInv'
  <2> SUFFICES ASSUME DownloadInv, [DownloadNext]_downloadVars
               PROVE  DownloadInv'
    OBVIOUS
  <2>1. CASE DownloadNext
    BY <2>1, GoroutineInv, OthersInv DEF DownloadNext
  <2>2. CASE UNCHANGED downloadVars
    BY <2>2
    DEF downloadVars, DownloadInv, DownloadTypeOK, PipeInv, OutcomeInv, Failed, Succeeded,
        WholeContent
  <2> QED
    BY <2>1, <2>2
<1> QED
  BY <1>1, <1>2, PTL DEF DownloadSpec

\* A body that ends is the whole content, and the inspection approved it, unless
\* it is empty after a switch to background or io.Copy failed.
THEOREM WholeContentHolds == DownloadSpec => []WholeContent
<1>1. DownloadInv => WholeContent
  BY DEF DownloadInv, OutcomeInv, Succeeded, WholeContent
<1> QED
  BY <1>1, DownloadInvariance, PTL

\* Nothing is sent before the verdict, nor ever to a client that got an error.
THEOREM NothingEarlyHolds == DownloadSpec => []NothingEarly
<1>1. DownloadInv => NothingEarly
  BY DEF DownloadInv, DownloadTypeOK, PipeInv, OutcomeInv, Failed, NothingEarly
<1> QED
  BY <1>1, DownloadInvariance, PTL

-----------------------------------------------------------------------------
(* Inspection                                                              *)

\* The request is decided on and was let through.
Passed == stage \in {"upstream", "response", "complete"}

\* The request opinions are those of the inspectors asked so far.
RequestInv ==
  /\ \A j \in Formats : Passed \/ (stage = "request" /\ j < next) => req[j] = says[j].request
  /\ \A j \in Formats : stage = "request" /\ j >= next => req[j] = "None"
  /\ req[Default] \in {"None", "Unknown"}
  /\ Passed => RequestPending \/ permissive

\* The content opinions are those of the inspectors asked so far, and nobody
\* is asked before the request is decided on.
ResponseInv ==
  /\ \A j \in Formats : stage = "response" /\ j < next =>
                          resp[j] = IF Skip(j) THEN "None" ELSE says[j].artifact
  /\ \A j \in Formats : stage = "response" /\ j >= next => resp[j] = "None"
  /\ stage \in {"request", "upstream"} => resp = [j \in Insps |-> "None"]
  /\ stage = "upstream" => next = 1
  /\ resp[Default] \in {"None", "Unknown"}

\* Results appear at the end.
ResultInv ==
  /\ stage # "complete" => result = "Unknown"
  /\ stage = "request" => verdict = "none"
  /\ StrictApproval
  /\ StrictRefusal

Inv == TypeOK /\ RequestInv /\ ResponseInv /\ ResultInv

-----------------------------------------------------------------------------

LEMMA Constants == /\ N \in Nat /\ Default \in Nat /\ Default = N + 1
                   /\ Default \in Insps /\ Default \notin Formats
                   /\ \A j : j \in Insps <=> j \in Formats \/ j = Default
                   /\ \A j \in Insps : j \in Nat /\ j >= 1 /\ j <= Default
                   /\ \A j \in Formats : j \in Nat /\ j >= 1 /\ j <= N
BY NAssumption DEF Default, Insps, Formats

LEMMA InitInv == Init => Inv
<1>. SUFFICES ASSUME Init PROVE Inv
  OBVIOUS
<1>1. TypeOK
  BY Constants DEF Init, TypeOK, Stages, RequestSays, ArtifactSays
<1>2. RequestInv /\ ResponseInv /\ ResultInv
  BY Constants DEF Init, RequestInv, ResponseInv, ResultInv, Passed, Insps, StrictApproval, StrictRefusal
<1>. QED
  BY <1>1, <1>2 DEF Inv

LEMMA NextType ==
  ASSUME TypeOK, Next
  PROVE  TypeOK'
<1>. USE DEF TypeOK
<1>1. next \in Formats => /\ next \in Insps /\ next + 1 \in 1 .. Default + 1
                          /\ says[next].request \in RequestSays
                          /\ says[next].artifact \in ArtifactSays
  BY Constants DEF Insps, Formats
<1>2. CASE InspectRequest
  BY <1>1, <1>2 DEF InspectRequest, RequestSays, Stages
<1>3. CASE DefaultInspectRequest
  BY <1>3, Constants DEF DefaultInspectRequest, RequestSays
<1>4. CASE EvaluateRequestInspection
  BY <1>4, Constants DEF EvaluateRequestInspection, Stages
<1>5. CASE OpenArtifactFile \/ ArtifactFileError
  BY <1>5 DEF OpenArtifactFile, ArtifactFileError, Stages
<1>6. CASE SkipInspector
  BY <1>1, <1>6 DEF SkipInspector
<1>7. CASE InspectArtifact
  BY <1>1, <1>7 DEF InspectArtifact, ArtifactSays, Stages, SetArtifactMetadata
<1>8. CASE DefaultInspectArtifact
  BY <1>8, Constants DEF DefaultInspectArtifact, ArtifactSays
<1>9. CASE EvaluateResponseInspection
  BY <1>9 DEF EvaluateResponseInspection, Stages
<1>. QED
  BY <1>2, <1>3, <1>4, <1>5, <1>6, <1>7, <1>8, <1>9 DEF Next

\* What the opinions add up to, in terms of what the inspectors say.
LEMMA ApprovedStrictly ==
  ASSUME Inv, stage = "response", next = Default + 1, ~permissive, Approved
  PROVE  StrictlyApproved
<1>1. \A j \in Formats : req[j] = says[j].request
  BY DEF Inv, RequestInv, Passed
<1>2. \A j \in Formats : resp[j] = IF Skip(j) THEN "None" ELSE says[j].artifact
  BY Constants DEF Inv, ResponseInv
<1>3. /\ \A j \in Insps : req[j] # "Rejected" /\ resp[j] # "Rejected"
      /\ \E j \in Insps : resp[j] = "Approved"
  BY DEF Approved, RequestPending, RequestRejected, ResponseApproved, ResponseRejected
<1>4. PICK a \in Formats : resp[a] = "Approved"
  BY <1>3, Constants DEF Inv, ResponseInv
<1>5. \A j \in Formats : says[j].request \notin {"Rejected", "error"}
  BY <1>1, <1>3, Constants DEF Inv, TypeOK
<1>6. \A j \in Formats : says[j].request = "Pending" => resp[j] = says[j].artifact
  BY <1>1, <1>2 DEF Skip
<1>7. \A j \in Formats : resp[j] \notin {"Rejected", "error"}
  BY <1>3, Constants DEF Inv, TypeOK
<1>8. says[a].request = "Pending" /\ says[a].artifact = "Approved"
  BY <1>1, <1>2, <1>4 DEF Skip
<1>. QED
  BY <1>5, <1>6, <1>7, <1>8 DEF StrictlyApproved

\* The converse.
LEMMA StrictlyApprovedApproved ==
  ASSUME Inv, stage = "response", next = Default + 1, ~permissive, StrictlyApproved
  PROVE  Approved
<1>1. \A j \in Formats : req[j] = says[j].request
  BY DEF Inv, RequestInv, Passed
<1>2. \A j \in Formats : resp[j] = IF Skip(j) THEN "None" ELSE says[j].artifact
  BY Constants DEF Inv, ResponseInv
<1>3. PICK a \in Formats : says[a].request = "Pending" /\ says[a].artifact = "Approved"
  BY DEF StrictlyApproved
<1>4. \A j \in Insps : req[j] # "Rejected"
  BY <1>1, Constants DEF StrictlyApproved, Inv, RequestInv
<1>5. \A j \in Insps : resp[j] # "Rejected"
  BY <1>1, <1>2, Constants DEF StrictlyApproved, Inv, ResponseInv, Skip
<1>6. a \in Insps /\ req[a] = "Pending" /\ resp[a] = "Approved"
  BY <1>1, <1>2, <1>3, Constants DEF Skip
<1>. QED
  BY <1>4, <1>5, <1>6
     DEF Approved, RequestPending, RequestRejected, ResponseApproved, ResponseRejected

LEMMA NextInv ==
  ASSUME Inv, Next
  PROVE  Inv'
<1>1. TypeOK /\ TypeOK'
  BY NextType DEF Inv
<1>. USE DEF Inv, StrictApproval, StrictRefusal
<1>2. next \in Nat
  BY <1>1, Constants DEF TypeOK
<1>3. CASE InspectRequest
  <2>1. RequestInv'
    BY <1>1, <1>2, <1>3, Constants DEF InspectRequest, RequestInv, Passed, TypeOK
  <2>2. ResponseInv'
    BY <1>3, Constants DEF InspectRequest, ResponseInv
  <2>3. ResultInv'
    BY <1>3 DEF InspectRequest, ResultInv, StrictlyApproved
  <2>. QED
    BY <1>1, <2>1, <2>2, <2>3
<1>4. CASE DefaultInspectRequest
  <2>1. RequestInv'
    BY <1>1, <1>2, <1>4, Constants DEF DefaultInspectRequest, RequestInv, Passed, TypeOK
  <2>2. ResponseInv' /\ ResultInv'
    BY <1>4 DEF DefaultInspectRequest, ResponseInv, ResultInv, StrictlyApproved
  <2>. QED
    BY <1>1, <2>1, <2>2
<1>5. CASE EvaluateRequestInspection
  <2>1. RequestInv'
    BY <1>1, <1>5, Constants
       DEF EvaluateRequestInspection, RequestInv, Passed, RequestPending, RequestRejected
  <2>2. ResponseInv' /\ ResultInv'
    BY <1>5 DEF EvaluateRequestInspection, ResponseInv, ResultInv, StrictlyApproved
  <2>. QED
    BY <1>1, <2>1, <2>2
<1>6. CASE OpenArtifactFile
  <2>1. RequestInv' /\ ResultInv'
    BY <1>6 DEF OpenArtifactFile, RequestInv, Passed, RequestPending, RequestRejected,
                ResultInv, StrictlyApproved
  <2>2. ResponseInv'
    BY <1>6, Constants DEF OpenArtifactFile, ResponseInv
  <2>. QED
    BY <1>1, <2>1, <2>2
<1>7. CASE ArtifactFileError
  <2>1. next # Default + 1
    BY <1>7, Constants DEF ArtifactFileError, ResponseInv
  <2>. QED
    BY <1>1, <1>7, <2>1 DEF ArtifactFileError, RequestInv, Passed, RequestPending,
       RequestRejected, ResponseInv, ResultInv
<1>8. CASE SkipInspector
  <2>1. RequestInv' /\ ResultInv'
    BY <1>8 DEF SkipInspector, RequestInv, Passed, RequestPending, RequestRejected,
                ResultInv, StrictlyApproved
  <2>2. ResponseInv'
    BY <1>1, <1>2, <1>8, Constants DEF SkipInspector, ResponseInv, Skip
  <2>. QED
    BY <1>1, <2>1, <2>2
<1>9. CASE InspectArtifact
  <2>1. RequestInv' /\ ResultInv'
    BY <1>9, Constants DEF InspectArtifact, RequestInv, Passed, RequestPending, RequestRejected,
                ResultInv, StrictlyApproved
  <2>2. ResponseInv'
    BY <1>1, <1>2, <1>9, Constants DEF InspectArtifact, ResponseInv, Skip, TypeOK
  <2>. QED
    BY <1>1, <2>1, <2>2
<1>10. CASE DefaultInspectArtifact
  <2>1. RequestInv' /\ ResultInv'
    BY <1>10 DEF DefaultInspectArtifact, RequestInv, Passed, RequestPending, RequestRejected,
                 ResultInv, StrictlyApproved
  <2>2. ResponseInv'
    BY <1>1, <1>2, <1>10, Constants DEF DefaultInspectArtifact, ResponseInv, Skip, TypeOK
  <2>. QED
    BY <1>1, <2>1, <2>2
<1>11. CASE EvaluateResponseInspection
  <2>1. RequestInv' /\ ResponseInv'
    BY <1>11 DEF EvaluateResponseInspection, RequestInv, Passed, RequestPending,
                 RequestRejected, ResponseInv
  <2>2. ~permissive => (Approved <=> StrictlyApproved)
    BY <1>11, ApprovedStrictly, StrictlyApprovedApproved DEF EvaluateResponseInspection
  <2>3. ResultInv'
    BY <1>11, <2>2 DEF EvaluateResponseInspection, ResultInv, StrictlyApproved
  <2>. QED
    BY <1>1, <2>1, <2>3
<1>. QED
  BY <1>3, <1>4, <1>5, <1>6, <1>7, <1>8, <1>9, <1>10, <1>11 DEF Next

LEMMA StutterInv ==
  ASSUME Inv, UNCHANGED vars
  PROVE  Inv'
BY DEF vars, Inv, TypeOK, RequestInv, ResponseInv, ResultInv, Passed, RequestPending,
       RequestRejected, Skip, StrictlyApproved, StrictApproval, StrictRefusal

\* Inv holds throughout every inspection.
THEOREM Invariance == Spec => []Inv
<1>1. Inv /\ [Next]_vars => Inv'
  BY NextInv, StutterInv
<1>. QED
  BY InitInv, <1>1, PTL DEF Spec

\* Only content that some inspector claimed and approved, and that no
\* inspector turned down, is approved in a strict session.
THEOREM StrictApprovalHolds == Spec => []StrictApproval
<1>1. Inv => StrictApproval
  BY DEF Inv, ResultInv
<1>. QED
  BY <1>1, Invariance, PTL

\* And all such content is approved, unless its file cannot be read.
THEOREM StrictRefusalHolds == Spec => []StrictRefusal
<1>1. Inv => StrictRefusal
  BY DEF Inv, ResultInv
<1>. QED
  BY <1>1, Invariance, PTL

-----------------------------------------------------------------------------
(* Refinement                                                              *)

\* Each inspector's step is a step of the contract or invisible to it.
LEMMA ContractStep ==
  ASSUME Inv, Next
  PROVE  [Contract!Next]_(Contract!vars)
<1>. USE DEF Contract!vars
<1>1. UNCHANGED req => RequestPending' = RequestPending
  BY DEF RequestPending, RequestRejected
<1>2. CASE InspectRequest
  <2>1. CASE stage' = "refused"
    <3>1. [pending |-> FALSE, verdict |-> "error"] \in Contract!RequestOutcomes(permissive)
      BY DEF Contract!RequestOutcomes
    <3>. QED
      BY <1>2, <2>1, <3>1 DEF InspectRequest, Contract!Next, Contract!RequestInspection
  <2>2. CASE stage' # "refused"
    BY <1>2, <2>2 DEF InspectRequest
  <2>. QED
    BY <2>1, <2>2
<1>3. CASE DefaultInspectRequest
  BY <1>3 DEF DefaultInspectRequest
<1>4. CASE EvaluateRequestInspection
  <2>1. CASE stage' = "refused"
    <3>1. [pending |-> FALSE, verdict |-> "error"] \in Contract!RequestOutcomes(permissive)
      BY DEF Contract!RequestOutcomes
    <3>. QED
      BY <1>4, <2>1, <3>1 DEF EvaluateRequestInspection, Contract!Next, Contract!RequestInspection
  <2>2. CASE stage' # "refused"
    <3>1. /\ stage = "request" /\ stage' = "upstream" /\ verdict' = "ok"
          /\ UNCHANGED <<permissive, result, req>> /\ (RequestPending \/ permissive)
      BY <1>4, <2>2 DEF EvaluateRequestInspection
    <3>2. CASE RequestPending
      <4>1. [pending |-> TRUE, verdict |-> "ok"] \in Contract!RequestOutcomes(permissive)
        BY DEF Contract!RequestOutcomes
      <4>2. (stage \notin {"request", "refused"} /\ RequestPending)' = TRUE
        BY <1>1, <3>1, <3>2
      <4>. QED
        BY <3>1, <4>1, <4>2 DEF Contract!Next, Contract!RequestInspection
    <3>3. CASE ~RequestPending
      <4>1. [pending |-> FALSE, verdict |-> "ok"] \in Contract!RequestOutcomes(permissive)
        BY <3>1, <3>3 DEF Contract!RequestOutcomes
      <4>2. (stage \notin {"request", "refused"} /\ RequestPending)' = FALSE
        BY <1>1, <3>1, <3>3
      <4>. QED
        BY <3>1, <4>1, <4>2 DEF Contract!Next, Contract!RequestInspection
    <3>. QED
      BY <3>2, <3>3
  <2>. QED
    BY <2>1, <2>2
<1>5. CASE OpenArtifactFile \/ SkipInspector \/ DefaultInspectArtifact
  BY <1>1, <1>5 DEF OpenArtifactFile, SkipInspector, DefaultInspectArtifact
\* A step that ends the inspection of the content.
<1>6. ASSUME stage \in {"upstream", "response"}, stage' = "complete",
             UNCHANGED <<permissive, req>>, NEW opened \in BOOLEAN,
             [result |-> result', verdict |-> verdict']
               \in Contract!ResponseOutcomes(stage \notin {"request", "refused"} /\ RequestPending,
                                             permissive, opened)
      PROVE  Contract!Next
  <2>1. (stage \notin {"request", "refused"} /\ RequestPending)'
          = (stage \notin {"request", "refused"} /\ RequestPending)
    BY <1>1, <1>6
  <2>. QED
    BY <1>6, <2>1 DEF Contract!Next, Contract!ResponseInspection
<1>7. ASSUME NEW p
      PROVE  [result |-> "Rejected", verdict |-> "error"]
               \in Contract!ResponseOutcomes(p, permissive, FALSE)
  BY DEF Contract!ResponseOutcomes
<1>8. CASE ArtifactFileError
  BY <1>6, <1>7, <1>8 DEF ArtifactFileError
<1>9. CASE InspectArtifact
  <2>1. CASE stage' = "complete"
    BY <1>6, <1>7, <1>9, <2>1 DEF InspectArtifact
  <2>2. CASE stage' # "complete"
    BY <1>1, <1>9, <2>2 DEF InspectArtifact
  <2>. QED
    BY <2>1, <2>2
<1>10. CASE EvaluateResponseInspection
  <2>1. /\ stage = "response" /\ stage' = "complete" /\ UNCHANGED <<permissive, req>>
        /\ result' = IF Approved THEN "Approved" ELSE "Rejected"
        /\ verdict' = IF Approved \/ permissive THEN "ok" ELSE "error"
    BY <1>10 DEF EvaluateResponseInspection
  <2>2. Approved => stage \notin {"request", "refused"} /\ RequestPending
    BY <2>1 DEF Approved
  <2>3. [result |-> result', verdict |-> verdict']
          \in Contract!ResponseOutcomes(stage \notin {"request", "refused"} /\ RequestPending,
                                        permissive, TRUE)
    BY <2>1, <2>2 DEF Contract!ResponseOutcomes
  <2>. QED
    BY <1>6, <2>1, <2>3
<1>. QED
  BY <1>2, <1>3, <1>4, <1>5, <1>8, <1>9, <1>10 DEF Next

\* Running the inspectors one by one implements the two-step contract that the
\* model of the service is built on.
THEOREM Refinement == Spec => ImplementsContract
<1>1. Init => Contract!Init
  BY DEF Init, Contract!Init
<1>2. Inv /\ [Next]_vars => [Contract!Next]_(Contract!vars)
  <2>1. UNCHANGED vars => UNCHANGED Contract!vars
    BY DEF vars, Contract!vars, RequestPending, RequestRejected
  <2>. QED
    BY <2>1, ContractStep
<1>. QED
  BY <1>1, <1>2, Invariance, PTL DEF Spec, ImplementsContract, Contract!Spec
=============================================================================
