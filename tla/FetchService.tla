---------------------------- MODULE FetchService ----------------------------
(***************************************************************************)
(* The core of the fetch service: build sessions, the dispatcher that      *)
(* serialises every message about them, the downloads that pass through    *)
(* the proxy on behalf of a session, the session timers and the file       *)
(* spool.                                                                  *)
(*                                                                         *)
(* service.dispatcher receives one message at a time and each handler runs *)
(* to completion before the next receive, so a handler is one action here. *)
(* What handlers leave to goroutines (running the inspectors, removing     *)
(* files, watching a timer) and what the proxy does on its own are actions *)
(* of their own and interleave with the handlers.                          *)
(*                                                                         *)
(* Handlers that only read (GetServiceStatus, SessionReport, the fetchctl  *)
(* operations version and list-artifacts) change nothing and are not       *)
(* actions; a refused message (unknown session, wrong token, invalid       *)
(* secrets) changes nothing either.                                        *)
(***************************************************************************)
EXTENDS Naturals, InspectionContract

CONSTANTS
  Ids,             \* session IDs; one that was never used stands for a new UUID
  FetchctlIds,     \* the IDs an administrator asks for with fetchctl
  Digests,         \* sha256 digests, that is, artifact contents
  Downloads,       \* HTTP requests proxied for the clients
  NoDownload,      \* "no artifact recorded under this digest"
  NoDigest,        \* digest of a download whose body was not read yet
  NoId,            \* "the channel ExpiredSessionID is empty"
  PermissiveMode,  \* the --permissive-mode command line option
  MaxSessions,     \* bound: sessions created in a run
  MaxFaults        \* bound: file system errors in a run

ASSUME IdsAssumption ==
  /\ FetchctlIds \subseteq Ids
  /\ NoId \notin Ids

ASSUME DownloadsAssumption ==
  /\ NoDownload \notin Downloads
  /\ NoDigest \notin Digests

ASSUME BoundsAssumption ==
  /\ PermissiveMode \in BOOLEAN
  /\ MaxSessions \in Nat
  /\ MaxFaults \in Nat

VARIABLES
  sessions,   \* the session map: ID -> the active session, 0 if there is none
  created,    \* Service.totalSessions
  S,          \* the *Session objects created so far, numbered in that order
  expired,    \* the channel ExpiredSessionID, whose capacity is one
  tunnels,    \* sessions whose clients hold an authenticated proxy connection
  dl,         \* the downloads and the *Artifact object each of them carries
  spool,      \* files under the spool directory and temporary files
  deleting,   \* IDs with a running RemoveResources goroutine
  removed,    \* IDs that RemoveResources was ever called for (history only)
  faults      \* file system errors so far

vars == <<sessions, created, S, expired, tunnels, dl, spool, deleting, removed, faults>>

Sess == 1 .. MaxSessions

\* Where the timer of a session and the goroutine watching it are: the
\* goroutine selects on a running timer ("armed") or on a stopped one
\* ("stopped"), holds the expired ID it wants to send ("fired"), or is over.
TimerStates == {"armed", "stopped", "fired", "over"}

Session ==
  [id : Ids, permissive : BOOLEAN, revoked : BOOLEAN, timer : TimerStates,
   A : [Digests -> Downloads \cup {NoDownload}],  \* Session.A
   log : SUBSET Downloads]                        \* Artifact.Downloads, all of A

\* The steps of a download. "request", "response" and "complete" have a
\* message waiting for the dispatcher; "delivered", "refused" and "passed"
\* are final.
Steps == {"idle", "request", "reqInspect", "upstream", "download", "response",
          "inspect", "complete", "replied", "delivered", "refused", "passed"}

Final == {"delivered", "refused", "passed"}

Opinions == {"Unknown", "Rejected", "Approved"}

Download ==
  [step : Steps,
   conn : Sess \cup {0},            \* session the connection authenticated with
   by : Sess \cup {0},              \* *Session the handler passed to the goroutine
   digest : Digests \cup {NoDigest},
   pending : BOOLEAN,               \* Artifact.RequestPending()
   result : Opinions,               \* Artifact.Result
   verdict : {"none", "ok", "error"}, \* what the inspection replies
   timedOut : BOOLEAN]              \* the proxy stopped waiting for that reply

Spool ==
  [assets : SUBSET Ids,             \* session directories that have assets/
   data : SUBSET (Ids \X Digests),  \* assets/<digest>.data
   meta : SUBSET (Ids \X Digests),  \* assets/<digest>.json
   json : SUBSET Ids,               \* session.json
   cache : SUBSET Ids,              \* cache/
   temp : SUBSET Downloads]         \* temporary files outside the spool

\* The variables of the model range over the values the program gives them.
TypeOK ==
  /\ sessions \in [Ids -> Sess \cup {0}]
  /\ created \in 0 .. MaxSessions
  /\ S \in [1 .. created -> Session]
  /\ expired \in Ids \cup {NoId}
  /\ tunnels \subseteq Sess
  /\ dl \in [Downloads -> Download]
  /\ spool \in Spool
  /\ deleting \subseteq Ids
  /\ removed \subseteq Ids
  /\ faults \in 0 .. MaxFaults

-----------------------------------------------------------------------------
(* session.go, artifact.go: the session map and the session object         *)

\* GetSession: the active session with this ID, or 0.
GetSession(i) == sessions[i]

Active(k) == k \in 1 .. created /\ GetSession(S[k].id) = k

UsedIds == {S[k].id : k \in 1 .. created}

\* A bug: only the IDs of active sessions are avoided.
MakeSessionIDActive == {i \in Ids \ FetchctlIds : GetSession(i) = 0}

\* makeSessionID returns an ID that no session ever had.
MakeSessionID == Ids \ (UsedIds \cup FetchctlIds)

HasArtifact(k, g) == S[k].A[g] # NoDownload

ArtifactResult(k, g) ==
  IF HasArtifact(k, g) THEN dl[S[k].A[g]].result ELSE "Rejected"

\* A bug: a later inspection of the same content replaces the artifact.
RecordLatest(k, d) ==
  S' = [S EXCEPT ![k].A[dl[d].digest] = d,
                 ![k].log = @ \cup {d}]

\* A bug: AddDownload is only called along with AddArtifact.
RecordFirst(k, d) ==
  S' = IF HasArtifact(k, dl[d].digest) THEN S
       ELSE [S EXCEPT ![k].A[dl[d].digest] = d,
                      ![k].log = @ \cup {d}]

\* AddArtifact, then AddDownload: the first artifact recorded under a digest
\* stays, later downloads of the same content are appended to it.
Record(k, d) ==
  S' = [S EXCEPT ![k].A[dl[d].digest] = IF HasArtifact(k, dl[d].digest) THEN @ ELSE d,
                 ![k].log = @ \cup {d}]

\* time.Timer.Stop: a stopped timer never fires, one that fired stays so.
StopTimer(t) == IF t = "armed" THEN "stopped" ELSE t

\* sessionTimer.Cancel: the goroutine ends unless it is past its select.
CancelTimer(t) == IF t = "fired" THEN "fired" ELSE "over"

NewSession(i, permissive) ==
  [id |-> i, permissive |-> permissive, revoked |-> FALSE, timer |-> "armed",
   A |-> [g \in Digests |-> NoDownload], log |-> {}]

\* NewWithID: register the session and start its timer.
NewWithID(i, permissive) ==
  /\ created < MaxSessions
  /\ created' = created + 1
  /\ S' = [k \in 1 .. created + 1 |->
             IF k = created + 1 THEN NewSession(i, permissive) ELSE S[k]]
  /\ sessions' = [sessions EXCEPT ![i] = created + 1]
  /\ UNCHANGED <<expired, tunnels, dl, spool, deleting, removed, faults>>

Recorded(k) == {g \in Digests : HasArtifact(k, g)}

\* RemoveResources when it succeeds: os.RemoveAll of the session directory.
RemoveResources(sp, i) ==
  [sp EXCEPT !.assets = @ \ {i},
             !.data = {f \in @ : f[1] # i},
             !.meta = {f \in @ : f[1] # i},
             !.json = @ \ {i},
             !.cache = @ \ {i}]

\* What may be left of the session directory while os.RemoveAll works through
\* it, and after it failed: an entry that cannot be removed does not stop it.
PartlyRemoved(sp, i) ==
  LET Own(F) == {f \in F : f[1] = i}
      Rest(F) == {F \ R : R \in SUBSET Own(F)}
  IN  {p \in [assets : {sp.assets, sp.assets \ {i}}, data : Rest(sp.data), meta : Rest(sp.meta),
              json : {sp.json, sp.json \ {i}}, cache : {sp.cache, sp.cache \ {i}},
              temp : {sp.temp}] :
         i \in p.assets \/ Own(p.data) \cup Own(p.meta) = {}}

\* RemoveResources returns when everything is gone or with an error.
RemoveOutcomes(sp, i, n) ==
  {[sp |-> RemoveResources(sp, i), faults |-> n]}
  \cup
  (IF n < MaxFaults
     THEN {[sp |-> p, faults |-> n + 1] : p \in PartlyRemoved(sp, i)}
     ELSE {})

SaveMetadata(sp, i, G) == [sp EXCEPT !.meta = @ \cup ({i} \X G)]

SaveSessionMetadata(sp, i) == [sp EXCEPT !.json = @ \cup {i}]

RemoveCache(sp, i) == [sp EXCEPT !.cache = @ \ {i}]

\* What Finish(k) may do to the files before it succeeds or returns an error.
\* SaveMetadata fails by itself when assets/ is gone, and any of the writes
\* may fail with a file system error: then Finish returns at once.
FinishOutcomes(k) ==
  LET i == S[k].id
      all == SaveMetadata(spool, i, Recorded(k))
      done == SaveSessionMetadata(all, i)
      canSave == Recorded(k) = {} \/ i \in spool.assets
      fails == {SaveMetadata(spool, i, G) : G \in SUBSET Recorded(k)} \cup {all, done}
  IN  (IF canSave
         THEN {[ok |-> TRUE, sp |-> RemoveCache(done, i), faults |-> faults]}
         ELSE {[ok |-> FALSE, sp |-> spool, faults |-> faults]})
      \cup
      (IF canSave /\ faults < MaxFaults
         THEN {[ok |-> FALSE, sp |-> sp, faults |-> faults + 1] : sp \in fails}
         ELSE {})

\* The effect of Finish on the session: Discard on success, otherwise only
\* the timer was stopped.
FinishSession(k, ok) ==
  /\ S' = [S EXCEPT ![k].timer = IF ok THEN CancelTimer(@) ELSE StopTimer(@)]
  /\ sessions' = [sessions EXCEPT ![S[k].id] = IF ok THEN 0 ELSE @]

-----------------------------------------------------------------------------
(* Session operations handled by the dispatcher                            *)

HandleCreateSession(permissive) ==
  /\ permissive => PermissiveMode
  /\ \E i \in MakeSessionID : NewWithID(i, permissive)

\* fetchctl asks for an ID of its own; an active one is replaced by a new ID.
FetchCtlCreateSession(i, permissive) ==
  /\ permissive => PermissiveMode
  /\ \/ GetSession(i) = 0 /\ NewWithID(i, permissive)
     \/ GetSession(i) # 0 /\ \E j \in MakeSessionID : NewWithID(j, permissive)

\* CheckAuth succeeds for the token of the active session. A CONNECT tunnel
\* stays open for as long as the client likes and is not checked again.
CheckAuth(k) ==
  /\ Active(k)
  /\ ~S[k].revoked
  /\ tunnels' = tunnels \cup {k}
  /\ UNCHANGED <<sessions, created, S, expired, dl, spool, deleting, removed, faults>>

\* A bug: a session whose token is revoked does not expire any more.
HandleRevokeTokenStops(k) ==
  /\ Active(k)
  /\ S' = [S EXCEPT ![k].revoked = TRUE, ![k].timer = StopTimer(@)]
  /\ UNCHANGED <<sessions, created, expired, tunnels, dl, spool, deleting, removed, faults>>

HandleRevokeToken(k) ==
  /\ Active(k)
  /\ S' = [S EXCEPT ![k].revoked = TRUE]
  /\ UNCHANGED <<sessions, created, expired, tunnels, dl, spool, deleting, removed, faults>>

HandleEndSession(k) ==
  /\ Active(k)
  /\ \E out \in FinishOutcomes(k) :
       /\ FinishSession(k, out.ok)
       /\ spool' = out.sp
       /\ faults' = out.faults
  /\ UNCHANGED <<created, expired, tunnels, dl, deleting, removed>>

\* Refused while the session is active; otherwise a goroutine removes the files.
\* An ID that no session ever had has no files.
HandleDeleteResources(i) ==
  /\ i \in UsedIds
  /\ GetSession(i) = 0
  /\ deleting' = deleting \cup {i}
  /\ removed' = removed \cup {i}
  /\ UNCHANGED <<sessions, created, S, expired, tunnels, dl, spool, faults>>

\* The goroutine removes one entry after the other, next to everything else ...
DeleteSome(i) ==
  /\ i \in deleting
  /\ spool' \in PartlyRemoved(spool, i) \ {spool}
  /\ UNCHANGED <<sessions, created, S, expired, tunnels, dl, deleting, removed, faults>>

\* ... and returns.  It also fails when a new session with the same ID puts files
\* there meanwhile.  The error goes to the controller, nothing is tried again.
DeleteFiles(i) ==
  /\ i \in deleting
  /\ deleting' = deleting \ {i}
  /\ \/ \E out \in RemoveOutcomes(spool, i, faults) : spool' = out.sp /\ faults' = out.faults
     \/ /\ GetSession(i) # 0
        /\ spool' \in PartlyRemoved(spool, i)
        /\ UNCHANGED faults
  /\ UNCHANGED <<sessions, created, S, expired, tunnels, dl, removed>>

-----------------------------------------------------------------------------
(* timer.go and the expiry branch of the dispatcher                        *)

TimerFires(k) ==
  /\ k \in 1 .. created
  /\ S[k].timer = "armed"
  /\ S' = [S EXCEPT ![k].timer = "fired"]
  /\ UNCHANGED <<sessions, created, expired, tunnels, dl, spool, deleting, removed, faults>>

TimerSends(k) ==
  /\ k \in 1 .. created
  /\ S[k].timer = "fired"
  /\ expired = NoId
  /\ expired' = S[k].id
  /\ S' = [S EXCEPT ![k].timer = "over"]
  /\ UNCHANGED <<sessions, created, tunnels, dl, spool, deleting, removed, faults>>

\* The files are removed whether or not Finish succeeded; both errors are only
\* logged.
HandleExpiredSession ==
  /\ expired # NoId
  /\ expired' = NoId
  /\ LET k == GetSession(expired)
     IN  \/ k = 0 /\ UNCHANGED <<sessions, S, spool, removed, faults>>
         \/ /\ k # 0
            /\ removed' = removed \cup {expired}
            /\ \E out \in FinishOutcomes(k) :
                 /\ FinishSession(k, out.ok)
                 /\ \E rest \in RemoveOutcomes(out.sp, expired, out.faults) :
                      spool' = rest.sp /\ faults' = rest.faults
  /\ UNCHANGED <<created, tunnels, dl, deleting>>

-----------------------------------------------------------------------------
(* A download: proxy.go, file.go and the inspection handlers               *)

SessionOf(d) == GetSession(S[dl[d].conn].id)

Goto(d, step) == dl' = [dl EXCEPT ![d].step = step]

\* The result and the reply of an inspection that is over.
Reply(d, verdict) == dl' = [dl EXCEPT ![d].step = "replied", ![d].verdict = verdict]

\* processRequest: a request on an authenticated connection is sent to the
\* dispatcher for inspection, whatever became of the session meanwhile.
ProcessRequest(d, k) ==
  /\ dl[d].step = "idle"
  /\ k \in tunnels
  /\ dl' = [dl EXCEPT ![d].step = "request", ![d].conn = k]
  /\ UNCHANGED <<sessions, created, S, expired, tunnels, spool, deleting, removed, faults>>

HandleRequestInspection(d) ==
  /\ dl[d].step = "request"
  /\ dl' = [dl EXCEPT ![d].step = IF SessionOf(d) = 0 THEN "refused" ELSE "reqInspect",
                      ![d].by = SessionOf(d)]
  /\ UNCHANGED <<sessions, created, S, expired, tunnels, spool, deleting, removed, faults>>

\* runRequestInspection in its goroutine, for the session the handler saw.
RunRequestInspection(d) ==
  /\ dl[d].step = "reqInspect"
  /\ \E o \in RequestOutcomes(S[dl[d].by].permissive) :
       dl' = [dl EXCEPT ![d].pending = o.pending,
                        ![d].step = IF o.verdict = "ok" THEN "upstream" ELSE "refused"]
  /\ UNCHANGED <<sessions, created, S, expired, tunnels, spool, deleting, removed, faults>>

\* The rest of processRequest (secrets), the round trip (ACL) and the start
\* of processResponse. A response other than 200 goes to the client as it is.
RoundTrip(d) ==
  /\ dl[d].step = "upstream"
  /\ \/ /\ \E step \in {"refused", "passed"} : Goto(d, step)
        /\ UNCHANGED spool
     \/ /\ Goto(d, "download")
        /\ spool' = [spool EXCEPT !.temp = @ \cup {d}]
  /\ UNCHANGED <<sessions, created, S, expired, tunnels, deleting, removed, faults>>

\* localDownload reads the body to the temporary file. When it fails,
\* processResponse removes the file unless the download is in background.
LocalDownload(d) ==
  /\ dl[d].step = "download"
  /\ \/ /\ \E g \in Digests :
             dl' = [dl EXCEPT ![d].step = "response", ![d].digest = g]
        /\ UNCHANGED spool
     \/ /\ Goto(d, "refused")
        /\ spool' \in {spool, [spool EXCEPT !.temp = @ \ {d}]}
  /\ UNCHANGED <<sessions, created, S, expired, tunnels, deleting, removed, faults>>

\* SaveData moves the temporary file unless the spool has the content; when
\* an error stops it the temporary file is removed all the same.
SaveData(d) ==
  LET i == S[dl[d].conn].id
      sp == [spool EXCEPT !.temp = @ \ {d}]
      dir == [sp EXCEPT !.assets = @ \cup {i}]
  IN  \/ /\ spool' = [dir EXCEPT !.data = @ \cup {<<i, dl[d].digest>>}]
         /\ dl' = [dl EXCEPT ![d].step = "inspect", ![d].by = SessionOf(d)]
         /\ UNCHANGED faults
      \/ /\ faults < MaxFaults
         /\ faults' = faults + 1
         /\ spool' \in {sp, dir}
         /\ dl' = [dl EXCEPT ![d].step = "replied", ![d].verdict = "error",
                             ![d].by = SessionOf(d)]

\* A bug: content that was inspected before is taken for good.
ReusedVerdictUnchecked(k, g) == "ok"

\* The reply for content that the session has a result for.
ReusedVerdict(k, g) ==
  IF ~S[k].permissive /\ ArtifactResult(k, g) = "Rejected" THEN "error" ELSE "ok"

\* The three ways of handleResponseInspection: no such session, content that
\* was already inspected, content to inspect.
HandleResponseInspection(d) ==
  LET k == SessionOf(d)
      g == dl[d].digest
  IN  /\ dl[d].step = "response"
      /\ \/ /\ k = 0
            /\ Reply(d, "error")
            /\ spool' = [spool EXCEPT !.temp = @ \ {d}]
            /\ UNCHANGED <<S, faults>>
         \/ /\ k # 0
            /\ HasArtifact(k, g)
            /\ S' = [S EXCEPT ![k].log = @ \cup {d}]
            /\ spool' = [spool EXCEPT !.temp = @ \ {d}]
            /\ dl' = [dl EXCEPT ![d].step = "replied",
                                ![d].by = k,
                                ![d].verdict = ReusedVerdict(k, g)]
            /\ UNCHANGED faults
         \/ /\ k # 0
            /\ ~HasArtifact(k, g)
            /\ SaveData(d)
            /\ UNCHANGED S
      /\ UNCHANGED <<sessions, created, expired, tunnels, deleting, removed>>

\* runResponseInspection in its goroutine, for the session the handler saw.
\* Some inspectors unpack into the cache directory.
RunResponseInspection(d) ==
  LET i == S[dl[d].conn].id
      opened == <<i, dl[d].digest>> \in spool.data
  IN  /\ dl[d].step = "inspect"
      /\ \E o \in ResponseOutcomes(dl[d].pending, S[dl[d].by].permissive, opened) :
           dl' = [dl EXCEPT ![d].step = "complete",
                            ![d].result = o.result,
                            ![d].verdict = o.verdict]
      /\ spool' \in {spool} \cup IF opened THEN {[spool EXCEPT !.cache = @ \cup {i}]} ELSE {}
      /\ UNCHANGED <<sessions, created, S, expired, tunnels, deleting, removed, faults>>

\* A bug: the artifact goes to the session that the inspection started for.
HandleCompleteInspectionStale(d) ==
  /\ dl[d].step = "complete"
  /\ Record(dl[d].by, d)
  /\ Goto(d, "replied")
  /\ UNCHANGED <<sessions, created, expired, tunnels, spool, deleting, removed, faults>>

\* A bug: nothing is replied when the session is gone.
HandleCompleteInspectionSilent(d) ==
  /\ dl[d].step = "complete"
  /\ SessionOf(d) # 0
  /\ Record(SessionOf(d), d)
  /\ Goto(d, "replied")
  /\ UNCHANGED <<sessions, created, expired, tunnels, spool, deleting, removed, faults>>

\* The session is looked up again: it may be another one, or gone.
HandleCompleteInspection(d) ==
  /\ dl[d].step = "complete"
  /\ \/ /\ SessionOf(d) = 0
        /\ Reply(d, "error")
        /\ UNCHANGED S
     \/ /\ SessionOf(d) # 0
        /\ Record(SessionOf(d), d)
        /\ Goto(d, "replied")
  /\ UNCHANGED <<sessions, created, expired, tunnels, spool, deleting, removed, faults>>

\* The download goroutine waits for the reply for a limited time only.
InspectionTimeout(d) ==
  /\ dl[d].step \in {"inspect", "complete", "replied"}
  /\ ~dl[d].timedOut
  /\ dl' = [dl EXCEPT ![d].timedOut = TRUE]
  /\ UNCHANGED <<sessions, created, S, expired, tunnels, spool, deleting, removed, faults>>

\* The reply reaches the download goroutine, which pipes the asset file. After
\* a timeout the client was refused already and nobody reads the reply.
PipeAsset(d) ==
  /\ dl[d].step = "replied"
  /\ Goto(d, IF /\ ~dl[d].timedOut
                /\ dl[d].verdict = "ok"
                /\ <<S[dl[d].conn].id, dl[d].digest>> \in spool.data
             THEN "delivered" ELSE "refused")
  /\ UNCHANGED <<sessions, created, S, expired, tunnels, spool, deleting, removed, faults>>

-----------------------------------------------------------------------------

Init ==
  /\ sessions = [i \in Ids |-> 0]
  /\ created = 0
  /\ S = <<>>
  /\ expired = NoId
  /\ tunnels = {}
  /\ dl = [d \in Downloads |->
             [step |-> "idle", conn |-> 0, by |-> 0, digest |-> NoDigest,
              pending |-> FALSE, result |-> "Unknown", verdict |-> "none",
              timedOut |-> FALSE]]
  /\ spool = [assets |-> {}, data |-> {}, meta |-> {}, json |-> {},
              cache |-> {}, temp |-> {}]
  /\ deleting = {}
  /\ removed = {}
  /\ faults = 0

DownloadStep(d) ==
  \/ HandleRequestInspection(d)
  \/ RunRequestInspection(d)
  \/ RoundTrip(d)
  \/ LocalDownload(d)
  \/ HandleResponseInspection(d)
  \/ RunResponseInspection(d)
  \/ HandleCompleteInspection(d)
  \/ PipeAsset(d)

Next ==
  \/ \E permissive \in BOOLEAN :
       \/ HandleCreateSession(permissive)
       \/ \E i \in FetchctlIds : FetchCtlCreateSession(i, permissive)
  \/ \E k \in Sess :
       \/ CheckAuth(k)
       \/ HandleRevokeToken(k)
       \/ HandleEndSession(k)
       \/ TimerFires(k)
       \/ TimerSends(k)
  \/ \E i \in Ids : HandleDeleteResources(i) \/ DeleteSome(i) \/ DeleteFiles(i)
  \/ HandleExpiredSession
  \/ \E d \in Downloads :
       \/ \E k \in Sess : ProcessRequest(d, k)
       \/ DownloadStep(d)
       \/ InspectionTimeout(d)

Spec == Init /\ [][Next]_vars

(***************************************************************************)
(* A started timer fires. The runtime runs every goroutine that can run,   *)
(* select chooses at random among the ready cases and senders to a channel *)
(* are served in order, so no message to the dispatcher waits for ever.    *)
(* Upstream servers are assumed to end their responses, one way or the     *)
(* other, and inspectors to return. Nothing is assumed of the clients, of  *)
(* the controller or of fetchctl.                                          *)
(***************************************************************************)
Fairness ==
  /\ \A d \in Downloads : WF_vars(DownloadStep(d))
  /\ \A k \in Sess : WF_vars(TimerFires(k)) /\ WF_vars(TimerSends(k))
  /\ WF_vars(HandleExpiredSession)

FairSpec == Spec /\ Fairness
-----------------------------------------------------------------------------
(* Correctness                                                             *)

\* The inspection of download e approved the content of download d for the
\* session ID that d is made with.
ApprovesFor(e, d) ==
  /\ dl[e].result = "Approved"
  /\ dl[e].digest = dl[d].digest
  /\ S[dl[e].conn].id = S[dl[d].conn].id

\* Content reaches the client of a strict session only if a complete
\* inspection under the same session ID approved that very content: either
\* this download's own one or the one whose result handleResponseInspection
\* reuses.
StrictDelivery ==
  \A d \in Downloads :
    dl[d].step = "delivered" /\ ~S[dl[d].by].permissive =>
      \E e \in Downloads : ApprovesFor(e, d)

\* Nothing is delivered behind the report's back: a delivered download is in
\* the records of a session with the ID the client used, under its digest.
DeliveredRecorded ==
  \A d \in Downloads :
    dl[d].step = "delivered" =>
      \E k \in 1 .. created : /\ S[k].id = S[dl[d].conn].id
                              /\ d \in S[k].log
                              /\ HasArtifact(k, dl[d].digest)

\* Once a verdict about some content is in a session's records it stays the
\* same, whatever inspections of the same content complete later.
VerdictStable ==
  [][\A k \in 1 .. created, g \in Digests :
       HasArtifact(k, g) =>
         /\ S'[k].A[g] = S[k].A[g]
         /\ dl'[S[k].A[g]].result = dl[S[k].A[g]].result]_vars

\* Sessions are isolated: a session's records only list downloads of the
\* clients that authenticated with that session's token.
RecordedInOwnSession ==
  \A k \in 1 .. created : \A d \in S[k].log : dl[d].conn = k

\* A session that is over has left a complete report, whatever writes failed
\* on the way and whoever used its ID before or after: session.json, and the
\* metadata and the data of every artifact on record.  The exception are IDs
\* whose files RemoveResources was told to remove: those may be gone, or partly
\* gone when it is still at work or failed.
FinishedReport ==
  \A k \in 1 .. created :
    ~Active(k) /\ S[k].id \notin removed =>
      /\ S[k].id \in spool.json
      /\ \A g \in Recorded(k) : <<S[k].id, g>> \in spool.meta \cap spool.data

\* The report of a strict session says "Approved" of whatever content that
\* session delivered: only permissive sessions accept rejected artifacts.
ReportMatchesDelivery ==
  \A k \in 1 .. created : \A d \in S[k].log :
    ~S[k].permissive /\ dl[d].step = "delivered" =>
      ArtifactResult(k, dl[d].digest) = "Approved"

\* Every session ends, if only because its timer expires: however many timers
\* queue for the one place of ExpiredSessionID, and whichever sessions ended
\* before their ID is received.  This needs Finish to succeed: a file system
\* error, or a RemoveResources that is still at work on the files of an ended
\* session with the same ID, leaves the session active with its timer stopped.
SessionsEnd ==
  \A k \in Sess : Active(k) ~> ~Active(k)

\* Every request a client makes is answered.
DownloadsEnd ==
  \A d \in Downloads : dl[d].step # "idle" ~> dl[d].step \in Final
=============================================================================
