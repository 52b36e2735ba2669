------------------------- MODULE FetchServiceProofs -------------------------
(***************************************************************************)
(* Proofs about FetchService for any number of sessions, downloads,        *)
(* digests and faults.                                                     *)
(***************************************************************************)
EXTENDS FetchService, TLAPS

\* Steps before the inspection of the content is over, and after its reply.
Early == {"idle", "request", "reqInspect", "upstream", "download", "response", "inspect"}
After == {"replied", "delivered", "refused"}

\* An entry of the session map is a created session with that ID.
MapInv ==
  \A i \in Ids : sessions[i] # 0 =>
    /\ sessions[i] \in 1 .. created
    /\ S[sessions[i]].id = i

\* A download refers to created sessions: once it left "idle" to the one its
\* connection belongs to, once a handler accepted it to one with the same ID.
RefInv(d) ==
  /\ dl[d].conn \in 0 .. created
  /\ dl[d].by \in 0 .. created
  /\ dl[d].step # "idle" => dl[d].conn # 0
  /\ dl[d].by # 0 => dl[d].conn # 0 /\ S[dl[d].by].id = S[dl[d].conn].id
  /\ dl[d].step \in {"idle", "request"} => dl[d].by = 0
  /\ dl[d].step \notin {"idle", "request", "refused"} => dl[d].by # 0
  /\ dl[d].step \in {"response", "inspect", "complete"} => dl[d].digest \in Digests

\* Results and verdicts appear when the inspection is over.
ResultInv(d) ==
  /\ dl[d].step \in Early => dl[d].result = "Unknown" /\ dl[d].verdict = "none"
  /\ dl[d].step = "complete" => dl[d].result # "Unknown"
  /\ dl[d].step = "delivered" => dl[d].verdict = "ok"

\* A favourable reply is backed by an approval unless the session is
\* permissive, and by a record once the inspection is complete.
VerdictInv(d) ==
  dl[d].verdict = "ok" =>
    /\ dl[d].by # 0
    /\ S[dl[d].by].permissive \/ \E e \in Downloads : ApprovesFor(e, d)
    /\ dl[d].step # "complete" =>
         \E k \in 1 .. created : /\ S[k].id = S[dl[d].conn].id
                                 /\ d \in S[k].log

DownloadInv(d) == RefInv(d) /\ ResultInv(d) /\ VerdictInv(d)

\* What a session recorded: the artifact under a digest has that digest and is
\* past its inspection, and every logged download has its artifact.
LogInv(k) ==
  \A d \in S[k].log :
    /\ dl[d].step \in After
    /\ S[dl[d].conn].id = S[k].id
    /\ dl[d].digest \in Digests
    /\ HasArtifact(k, dl[d].digest)

ArtifactInv(k) ==
  \A g \in Digests : HasArtifact(k, g) =>
    /\ S[k].A[g] \in S[k].log
    /\ dl[S[k].A[g]].digest = g
    /\ dl[S[k].A[g]].result # "Unknown"

Inv ==
  /\ TypeOK
  /\ MapInv
  /\ tunnels \subseteq 1 .. created
  /\ \A d \in Downloads : DownloadInv(d)
  /\ \A k \in 1 .. created : LogInv(k) /\ ArtifactInv(k)

-----------------------------------------------------------------------------
(* Which changes keep the invariant                                        *)

\* A step of download d that records nothing keeps the invariant if d itself
\* stays correct and keeps what the records and other downloads refer to.
LEMMA DownloadFrame ==
  ASSUME Inv, TypeOK', NEW d \in Downloads,
         UNCHANGED <<sessions, created, S, tunnels>>,
         \A e \in Downloads : e # d => dl'[e] = dl[e],
         dl[d].step \in After => dl'[d].step \in After,
         dl[d].step # "idle" => dl'[d].conn = dl[d].conn,
         dl[d].step # "download" => dl'[d].digest = dl[d].digest,
         dl[d].step # "inspect" => dl'[d].result = dl[d].result,
         DownloadInv(d)'
  PROVE  Inv'
<1>1. MapInv' /\ tunnels' \subseteq 1 .. created'
  BY DEF Inv, MapInv
<1>2. ASSUME NEW e \in Downloads, e # d
      PROVE  DownloadInv(e)'
  <2>1. DownloadInv(e) /\ DownloadInv(d)
    BY DEF Inv
  <2>2. RefInv(e)' /\ ResultInv(e)'
    BY <1>2, <2>1 DEF DownloadInv, RefInv, ResultInv
  <2>3. ASSUME NEW f \in Downloads, ApprovesFor(f, e)
        PROVE  ApprovesFor(f, e)'
    <3>1. dl[f].step \notin Early /\ dl[f].conn # 0
      BY <2>3 DEF Inv, DownloadInv, ResultInv, RefInv, ApprovesFor, Early
    <3>. QED
      BY <1>2, <2>3, <3>1 DEF ApprovesFor, Early
  <2>4. VerdictInv(e)'
    BY <1>2, <2>1, <2>3 DEF DownloadInv, VerdictInv
  <2>. QED
    BY <2>2, <2>4 DEF DownloadInv
<1>3. ASSUME NEW k \in 1 .. created
      PROVE  LogInv(k)' /\ ArtifactInv(k)'
  <2>1. LogInv(k) /\ ArtifactInv(k)
    BY DEF Inv
  <2>2. \A e \in S[k].log : e \in Downloads
    BY DEF Inv, TypeOK, Session
  <2>3. LogInv(k)'
    BY <2>1, <2>2 DEF LogInv, HasArtifact, After
  <2>4. ArtifactInv(k)'
    BY <2>1, <2>2 DEF LogInv, ArtifactInv, HasArtifact, After
  <2>. QED
    BY <2>3, <2>4
<1>. QED
  BY <1>1, <1>2, <1>3 DEF Inv

\* A step that keeps the downloads and, of every session, what the invariant
\* is about keeps the invariant.
LEMMA SessionFrame ==
  ASSUME Inv, TypeOK', MapInv', tunnels' \subseteq 1 .. created', UNCHANGED dl,
         created <= created',
         \A k \in 1 .. created : /\ S'[k].id = S[k].id
                                 /\ S'[k].permissive = S[k].permissive
                                 /\ S'[k].A = S[k].A
                                 /\ S'[k].log = S[k].log,
         \A k \in 1 .. created' : k \notin 1 .. created =>
                                    S'[k].log = {} /\ \A g \in Digests : S'[k].A[g] = NoDownload
  PROVE  Inv'
<1>. USE DEF Inv
<1>0. created \in Nat /\ created' \in Nat
  BY DEF TypeOK
<1>1. ASSUME NEW d \in Downloads
      PROVE  DownloadInv(d)'
  <2>1. DownloadInv(d)
    OBVIOUS
  <2>2. RefInv(d)' /\ ResultInv(d)'
    BY <1>0, <2>1 DEF DownloadInv, RefInv, ResultInv
  <2>3. ASSUME NEW e \in Downloads, dl[d].conn # 0, ApprovesFor(e, d)
        PROVE  ApprovesFor(e, d)'
    <3>1. dl[e].conn \in 1 .. created /\ dl[d].conn \in 1 .. created
      BY <1>0, <2>3 DEF DownloadInv, ResultInv, RefInv, ApprovesFor, Early
    <3>. QED
      BY <2>3, <3>1 DEF ApprovesFor
  <2>4. VerdictInv(d)'
    BY <1>0, <2>1, <2>3 DEF DownloadInv, VerdictInv, RefInv
  <2>. QED
    BY <2>2, <2>4 DEF DownloadInv
<1>2. ASSUME NEW k \in 1 .. created'
      PROVE  LogInv(k)' /\ ArtifactInv(k)'
  <2>1. CASE k \in 1 .. created
    <3>1. LogInv(k) /\ ArtifactInv(k)
      BY <2>1
    <3>2. \A d \in S[k].log : d \in Downloads /\ dl[d].conn \in 1 .. created
      BY <1>0, <2>1, <3>1 DEF TypeOK, Session, LogInv, DownloadInv, RefInv, After
    <3>. QED
      BY <2>1, <3>1, <3>2 DEF LogInv, ArtifactInv, HasArtifact
  <2>2. CASE k \notin 1 .. created
    BY <2>2 DEF LogInv, ArtifactInv, HasArtifact
  <2>. QED
    BY <2>1, <2>2
<1>. QED
  BY <1>1, <1>2
\* Recording download d in the session k that its ID names keeps the
\* invariant: the first artifact of a digest stays, the log grows by d.
LEMMA RecordFrame ==
  ASSUME Inv, TypeOK', NEW d \in Downloads, NEW k \in 1 .. created, NEW g \in Digests,
         UNCHANGED <<sessions, created, tunnels>>,
         g = dl[d].digest,
         S[k].id = S[dl[d].conn].id,
         dl[d].step \in {"response", "complete"},
         HasArtifact(k, g) \/ dl[d].result # "Unknown",
         \A e \in Downloads : e # d => dl'[e] = dl[e],
         dl'[d].step = "replied",
         dl'[d].conn = dl[d].conn,
         dl'[d].digest = g,
         dl'[d].result = dl[d].result,
         dl'[d].by \in 1 .. created,
         S[dl'[d].by].id = S[k].id,
         dl'[d].verdict = "ok" => \/ S[dl'[d].by].permissive
                                 \/ \E e \in Downloads : ApprovesFor(e, d),
         \A j \in 1 .. created : j # k => S'[j] = S[j],
         S'[k].id = S[k].id,
         S'[k].permissive = S[k].permissive,
         S'[k].log = S[k].log \cup {d},
         \A h \in Digests : S'[k].A[h] = IF h = g /\ ~HasArtifact(k, g) THEN d ELSE S[k].A[h]
  PROVE  Inv'
<1>0. created \in Nat /\ created' = created
  BY DEF Inv, TypeOK
<1>a. \A j \in 1 .. created : /\ S'[j].id = S[j].id
                              /\ S'[j].permissive = S[j].permissive
                              /\ S[j].log \subseteq S'[j].log
  OBVIOUS
<1>c. \A e \in Downloads : /\ dl'[e].conn = dl[e].conn
                            /\ dl'[e].digest = dl[e].digest
                            /\ dl'[e].result = dl[e].result
  OBVIOUS
<1>b. dl[d].conn \in 1 .. created
  BY <1>0 DEF Inv, DownloadInv, RefInv
<1>1. MapInv' /\ tunnels' \subseteq 1 .. created'
  BY <1>0, <1>a DEF Inv, MapInv
<1>2. ASSUME NEW e \in Downloads, NEW f \in Downloads, dl[e].conn # 0, ApprovesFor(f, e)
      PROVE  ApprovesFor(f, e)'
  <2>1. dl[f].conn \in 1 .. created /\ dl[e].conn \in 1 .. created
    BY <1>0, <1>2 DEF Inv, DownloadInv, ResultInv, RefInv, ApprovesFor, Early
  <2>2. /\ S'[dl[f].conn].id = S[dl[f].conn].id
        /\ S'[dl[e].conn].id = S[dl[e].conn].id
    BY <1>a, <2>1
  <2>3. /\ dl'[f].conn = dl[f].conn /\ dl'[e].conn = dl[e].conn
        /\ dl'[f].digest = dl[f].digest /\ dl'[e].digest = dl[e].digest
        /\ dl'[f].result = dl[f].result
    BY <1>c
  <2>4. /\ dl[f].result = "Approved" /\ dl[f].digest = dl[e].digest
        /\ S[dl[f].conn].id = S[dl[e].conn].id
    BY <1>2 DEF ApprovesFor
  <2>. QED
    BY <2>2, <2>3, <2>4, Zenon DEF ApprovesFor
<1>3. DownloadInv(d)'
  <2>1. RefInv(d)'
    BY <1>0, <1>a, <1>b DEF RefInv
  <2>2. ResultInv(d)'
    BY DEF ResultInv, Early
  <2>3. d \in S'[k].log /\ S'[k].id = S'[dl'[d].conn].id
    BY <1>a, <1>b
  <2>4. VerdictInv(d)'
    BY <1>0, <1>a, <1>b, <1>2, <2>3 DEF VerdictInv
  <2>. QED
    BY <2>1, <2>2, <2>4 DEF DownloadInv
<1>4. ASSUME NEW e \in Downloads, e # d
      PROVE  DownloadInv(e)'
  <2>1. DownloadInv(e)
    BY DEF Inv
  <2>a. dl'[e] = dl[e]
    BY <1>4
  <2>b. ResultInv(e)'
    BY <2>1, <2>a DEF DownloadInv, ResultInv
  <2>2. RefInv(e)'
    BY <1>0, <1>a, <2>1, <2>a DEF DownloadInv, RefInv
  <2>3. VerdictInv(e)'
    BY <1>0, <1>a, <1>2, <1>4, <2>1 DEF DownloadInv, RefInv, VerdictInv
  <2>. QED
    BY <2>2, <2>b, <2>3 DEF DownloadInv
<1>5. ASSUME NEW j \in 1 .. created
      PROVE  LogInv(j)' /\ ArtifactInv(j)'
  <2>1. LogInv(j) /\ ArtifactInv(j) /\ LogInv(k)
    BY DEF Inv
  <2>2. ASSUME NEW e \in S[j].log
        PROVE  e \in Downloads /\ e # d /\ dl[e].conn \in 1 .. created
    <3>1. e \in Downloads
      BY DEF Inv, TypeOK, Session
    <3>2. dl[e].step \in After
      BY <2>1 DEF LogInv
    <3>. QED
      BY <1>0, <3>1, <3>2 DEF Inv, DownloadInv, RefInv, After
  <2>3. LogInv(j)'
    <3>1. ASSUME NEW e \in S'[j].log
          PROVE  /\ dl'[e].step \in After
                 /\ S'[dl'[e].conn].id = S'[j].id
                 /\ dl'[e].digest \in Digests
                 /\ S'[j].A[dl'[e].digest] # NoDownload
      <4>1. CASE e \in S[j].log
        BY <1>a, <2>1, <2>2, <4>1, DownloadsAssumption DEF LogInv, HasArtifact
      <4>2. CASE e \notin S[j].log
        <5>1. e = d /\ j = k
          BY <3>1, <4>2
        <5>. QED
          BY <1>a, <1>b, <5>1, DownloadsAssumption DEF After, HasArtifact
      <4>. QED
        BY <4>1, <4>2
    <3>. QED
      BY <3>1 DEF LogInv, HasArtifact
  <2>4. ArtifactInv(j)'
    <3>1. ASSUME NEW h \in Digests, S'[j].A[h] # NoDownload
          PROVE  /\ S'[j].A[h] \in S'[j].log
                 /\ dl'[S'[j].A[h]].digest = h
                 /\ dl'[S'[j].A[h]].result # "Unknown"
      <4>1. CASE S'[j].A[h] = S[j].A[h]
        <5>1. S[j].A[h] \in S[j].log
          BY <2>1, <3>1, <4>1 DEF ArtifactInv, HasArtifact
        <5>. QED
          BY <1>a, <2>1, <2>2, <3>1, <4>1, <5>1 DEF ArtifactInv, HasArtifact
      <4>2. CASE S'[j].A[h] # S[j].A[h]
        BY <4>2
      <4>. QED
        BY <4>1, <4>2
    <3>. QED
      BY <3>1 DEF ArtifactInv, HasArtifact
  <2>. QED
    BY <2>3, <2>4
<1>. QED
  BY <1>0, <1>1, <1>3, <1>4, <1>5 DEF Inv
-----------------------------------------------------------------------------
(* Downloads                                                               *)

\* The session a download's ID names now is a created one with that ID.
LEMMA SessionOfDownload ==
  ASSUME Inv, NEW d \in Downloads, dl[d].step # "idle"
  PROVE  /\ created \in Nat
         /\ dl[d].conn \in 1 .. created
         /\ S[dl[d].conn] \in Session
         /\ S[dl[d].conn].id \in Ids
         /\ SessionOf(d) \in 0 .. created
         /\ SessionOf(d) \in Sess \cup {0}
         /\ SessionOf(d) # 0 => S[SessionOf(d)].id = S[dl[d].conn].id
<1>1. created \in Nat /\ dl[d].conn \in 1 .. created
  BY DEF Inv, TypeOK, DownloadInv, RefInv
<1>2. S[dl[d].conn] \in Session /\ S[dl[d].conn].id \in Ids
  BY <1>1 DEF Inv, TypeOK, Session
<1>. QED
  BY <1>1, <1>2 DEF SessionOf, GetSession, Inv, MapInv, TypeOK

\* Replacing the record of one download.
LEMMA Update ==
  ASSUME Inv, NEW d \in Downloads, NEW r \in Download, dl' = [dl EXCEPT ![d] = r]
  PROVE  /\ dl' \in [Downloads -> Download]
         /\ dl'[d] = r
         /\ \A e \in Downloads : e # d => dl'[e] = dl[e]
BY DEF Inv, TypeOK

\* A step that replaces the record of download d by r and records nothing.
LEMMA DownloadUpdate ==
  ASSUME Inv, NEW d \in Downloads, NEW r \in Download, dl' = [dl EXCEPT ![d] = r],
         UNCHANGED <<sessions, created, S, expired, tunnels, deleting, removed>>,
         spool' \in Spool, faults' \in 0 .. MaxFaults,
         dl[d].step \in After => r.step \in After,
         dl[d].step # "idle" => r.conn = dl[d].conn,
         dl[d].step # "download" => r.digest = dl[d].digest,
         dl[d].step # "inspect" => r.result = dl[d].result,
         DownloadInv(d)'
  PROVE  Inv'
<1>1. dl' \in [Downloads -> Download] /\ dl'[d] = r /\ \A e \in Downloads : e # d => dl'[e] = dl[e]
  BY Update
<1>2. TypeOK'
  BY <1>1 DEF Inv, TypeOK
<1>. QED
  BY <1>1, <1>2, DownloadFrame

LEMMA ProcessRequestInv ==
  ASSUME Inv, NEW d \in Downloads, NEW k \in Sess, ProcessRequest(d, k)
  PROVE  Inv'
<1>. DEFINE r == [dl[d] EXCEPT !.step = "request", !.conn = k]
<1>1. dl[d] \in Download /\ dl[d].step = "idle" /\ DownloadInv(d)
  BY DEF Inv, ProcessRequest, TypeOK
<1>2. r \in Download /\ dl' = [dl EXCEPT ![d] = r]
  BY <1>1 DEF ProcessRequest, Download, Steps
<1>3. /\ r.step = "request" /\ r.conn = k /\ r.by = dl[d].by /\ r.digest = dl[d].digest
      /\ r.result = dl[d].result /\ r.verdict = dl[d].verdict
  BY <1>1 DEF Download
<1>4. k \in 1 .. created /\ dl'[d] = r /\ created' = created /\ created \in Nat
  BY <1>2, Update DEF Inv, ProcessRequest, TypeOK
<1>5. DownloadInv(d)'
  BY <1>1, <1>3, <1>4 DEF DownloadInv, RefInv, ResultInv, VerdictInv, Early
<1>. QED
  BY <1>1, <1>2, <1>3, <1>5, DownloadUpdate DEF After, ProcessRequest, Inv, TypeOK

LEMMA RequestInspectionInv ==
  ASSUME Inv, NEW d \in Downloads, HandleRequestInspection(d)
  PROVE  Inv'
<1>. DEFINE r == [dl[d] EXCEPT !.step = IF SessionOf(d) = 0 THEN "refused" ELSE "reqInspect",
                               !.by = SessionOf(d)]
<1>1. dl[d] \in Download /\ dl[d].step = "request" /\ DownloadInv(d)
  BY DEF Inv, HandleRequestInspection, TypeOK
<1>a. SessionOf(d) \in Sess \cup {0}
  BY <1>1, SessionOfDownload
<1>2. r \in Download
  BY <1>1, <1>a DEF Download, Steps
<1>b. dl' = [dl EXCEPT ![d] = r]
  BY DEF HandleRequestInspection, Inv, TypeOK
<1>3. /\ r.step = IF SessionOf(d) = 0 THEN "refused" ELSE "reqInspect"
      /\ r.conn = dl[d].conn /\ r.by = SessionOf(d) /\ r.digest = dl[d].digest
      /\ r.result = dl[d].result /\ r.verdict = dl[d].verdict
  BY <1>1 DEF Download
<1>4. dl'[d] = r /\ UNCHANGED <<created, S>>
  BY <1>2, <1>b, Update DEF HandleRequestInspection
<1>5. DownloadInv(d)'
  <2>1. RefInv(d)'
    BY <1>1, <1>3, <1>4, SessionOfDownload DEF DownloadInv, RefInv
  <2>2. ResultInv(d)' /\ VerdictInv(d)'
    BY <1>1, <1>3, <1>4 DEF DownloadInv, ResultInv, VerdictInv, Early
  <2>. QED
    BY <2>1, <2>2 DEF DownloadInv
<1>. QED
  BY <1>1, <1>2, <1>b, <1>3, <1>5, DownloadUpdate DEF After, HandleRequestInspection, Inv, TypeOK

LEMMA RunRequestInspectionInv ==
  ASSUME Inv, NEW d \in Downloads, RunRequestInspection(d)
  PROVE  Inv'
<1>1. dl[d] \in Download /\ dl[d].step = "reqInspect" /\ DownloadInv(d)
  BY DEF Inv, RunRequestInspection, TypeOK
<1>a. PICK pending \in BOOLEAN, step \in {"refused", "upstream"} :
        dl' = [dl EXCEPT ![d].pending = pending, ![d].step = step]
  BY DEF RunRequestInspection, RequestOutcomes
<1>. DEFINE r == [dl[d] EXCEPT !.pending = pending, !.step = step]
<1>2. r \in Download
  BY <1>1 DEF Download, Steps
<1>b. dl' = [dl EXCEPT ![d] = r]
  BY <1>a DEF Inv, TypeOK
<1>3. /\ r.step = step
      /\ r.conn = dl[d].conn /\ r.by = dl[d].by /\ r.digest = dl[d].digest
      /\ r.result = dl[d].result /\ r.verdict = dl[d].verdict
  BY <1>1 DEF Download
<1>4. dl'[d] = r /\ UNCHANGED <<created, S>>
  BY <1>2, <1>b, Update DEF RunRequestInspection
<1>5. DownloadInv(d)'
  BY <1>1, <1>3, <1>4 DEF DownloadInv, RefInv, ResultInv, VerdictInv, Early
<1>. QED
  BY <1>1, <1>2, <1>b, <1>3, <1>5, DownloadUpdate DEF After, RunRequestInspection, Inv, TypeOK

\* Only the step changes.
LEMMA GotoInv ==
  ASSUME Inv, NEW d \in Downloads, NEW step \in {"download", "refused", "passed"},
         dl[d].step \in {"upstream", "download"}, Goto(d, step),
         spool' \in Spool,
         UNCHANGED <<sessions, created, S, expired, tunnels, deleting, removed, faults>>
  PROVE  Inv'
<1>1. dl[d] \in Download /\ DownloadInv(d)
  BY DEF Inv, TypeOK
<1>. DEFINE r == [dl[d] EXCEPT !.step = step]
<1>2. r \in Download
  BY <1>1 DEF Download, Steps
<1>b. dl' = [dl EXCEPT ![d] = r]
  BY DEF Goto, Inv, TypeOK
<1>3. /\ r.step = step
      /\ r.conn = dl[d].conn /\ r.by = dl[d].by /\ r.digest = dl[d].digest
      /\ r.result = dl[d].result /\ r.verdict = dl[d].verdict
  BY <1>1 DEF Download
<1>4. dl'[d] = r /\ UNCHANGED <<created, S>>
  BY <1>2, <1>b, Update
<1>5. DownloadInv(d)'
  BY <1>1, <1>3, <1>4 DEF DownloadInv, RefInv, ResultInv, VerdictInv, Early
<1>. QED
  BY <1>1, <1>2, <1>b, <1>3, <1>5, DownloadUpdate DEF After, Inv, TypeOK

\* Adding or removing a temporary file.
LEMMA TempType ==
  ASSUME Inv, NEW d \in Downloads
  PROVE  /\ [spool EXCEPT !.temp = @ \cup {d}] \in Spool
         /\ [spool EXCEPT !.temp = @ \ {d}] \in Spool
BY DEF Inv, TypeOK, Spool

LEMMA RoundTripInv ==
  ASSUME Inv, NEW d \in Downloads, RoundTrip(d)
  PROVE  Inv'
<1>1. spool' \in Spool
  BY TempType DEF RoundTrip, Inv, TypeOK
<1>. QED
  BY <1>1, GotoInv DEF RoundTrip

LEMMA LocalDownloadInv ==
  ASSUME Inv, NEW d \in Downloads, LocalDownload(d)
  PROVE  Inv'
<1>1. spool' \in Spool /\ dl[d].step = "download"
  BY TempType DEF LocalDownload, Inv, TypeOK
<1>2. CASE Goto(d, "refused")
  BY <1>1, <1>2, GotoInv DEF LocalDownload
<1>3. ASSUME NEW g \in Digests, dl' = [dl EXCEPT ![d].step = "response", ![d].digest = g]
      PROVE  Inv'
  <2>. DEFINE r == [dl[d] EXCEPT !.step = "response", !.digest = g]
  <2>1. dl[d] \in Download /\ DownloadInv(d)
    BY DEF Inv, TypeOK
  <2>2. r \in Download
    BY <2>1 DEF Download, Steps
  <2>b. dl' = [dl EXCEPT ![d] = r]
    BY <1>3 DEF Inv, TypeOK
  <2>3. /\ r.step = "response" /\ r.digest = g
        /\ r.conn = dl[d].conn /\ r.by = dl[d].by
        /\ r.result = dl[d].result /\ r.verdict = dl[d].verdict
    BY <2>1 DEF Download
  <2>4. dl'[d] = r /\ UNCHANGED <<created, S>>
    BY <2>2, <2>b, Update DEF LocalDownload
  <2>5. DownloadInv(d)'
    BY <1>1, <2>1, <2>3, <2>4 DEF DownloadInv, RefInv, ResultInv, VerdictInv, Early
  <2>. QED
    BY <1>1, <2>1, <2>2, <2>b, <2>3, <2>5, DownloadUpdate DEF After, LocalDownload, Inv, TypeOK
<1>. QED
  BY <1>2, <1>3 DEF LocalDownload

LEMMA RunResponseInspectionInv ==
  ASSUME Inv, NEW d \in Downloads, RunResponseInspection(d)
  PROVE  Inv'
<1>1. dl[d] \in Download /\ dl[d].step = "inspect" /\ DownloadInv(d)
  BY DEF Inv, RunResponseInspection, TypeOK
<1>a. PICK res \in {"Approved", "Rejected"}, verdict \in {"ok", "error"} :
        /\ dl' = [dl EXCEPT ![d].step = "complete",
                            ![d].result = res,
                            ![d].verdict = verdict]
        /\ verdict = "ok" => res = "Approved" \/ S[dl[d].by].permissive
  BY DEF RunResponseInspection, ResponseOutcomes
<1>. DEFINE r == [dl[d] EXCEPT !.step = "complete", !.result = res, !.verdict = verdict]
<1>2. r \in Download
  BY <1>1 DEF Download, Steps, Opinions
<1>b. dl' = [dl EXCEPT ![d] = r]
  BY <1>a DEF Inv, TypeOK
<1>3. /\ r.step = "complete" /\ r.result = res /\ r.verdict = verdict
      /\ r.conn = dl[d].conn /\ r.by = dl[d].by /\ r.digest = dl[d].digest
  BY <1>1 DEF Download
<1>4. dl'[d] = r /\ UNCHANGED <<created, S>>
  BY <1>2, <1>b, Update DEF RunResponseInspection
<1>5. DownloadInv(d)'
  <2>1. RefInv(d)' /\ ResultInv(d)'
    BY <1>1, <1>3, <1>4 DEF DownloadInv, RefInv, ResultInv, Early
  <2>2. res = "Approved" => ApprovesFor(d, d)'
    BY <1>3, <1>4 DEF ApprovesFor
  <2>a. dl'[d].by # 0 /\ dl'[d].step = "complete" /\ dl'[d].verdict = verdict
    BY <1>1, <1>3, <1>4 DEF DownloadInv, RefInv
  <2>b. verdict = "ok" => S'[dl'[d].by].permissive \/ \E e \in Downloads : ApprovesFor(e, d)'
    BY <1>a, <1>3, <1>4, <2>2
  <2>3. VerdictInv(d)'
    BY <2>a, <2>b DEF VerdictInv
  <2>. QED
    BY <2>1, <2>3 DEF DownloadInv
<1>6. spool' \in Spool
  <2>a. S[dl[d].conn].id \in Ids
    BY <1>1, SessionOfDownload
  <2>1. [spool EXCEPT !.cache = @ \cup {S[dl[d].conn].id}] \in Spool
    BY <2>a DEF Inv, TypeOK, Spool
  <2>. QED
    BY <2>1 DEF RunResponseInspection, Inv, TypeOK
<1>. QED
  BY <1>1, <1>2, <1>b, <1>3, <1>5, <1>6, DownloadUpdate DEF After, RunResponseInspection, Inv, TypeOK

LEMMA InspectionTimeoutInv ==
  ASSUME Inv, NEW d \in Downloads, InspectionTimeout(d)
  PROVE  Inv'
<1>1. dl[d] \in Download /\ DownloadInv(d)
  BY DEF Inv, TypeOK
<1>. DEFINE r == [dl[d] EXCEPT !.timedOut = TRUE]
<1>2. r \in Download
  BY <1>1 DEF Download
<1>b. dl' = [dl EXCEPT ![d] = r]
  BY DEF InspectionTimeout, Inv, TypeOK
<1>3. /\ r.step = dl[d].step /\ r.result = dl[d].result /\ r.verdict = dl[d].verdict
      /\ r.conn = dl[d].conn /\ r.by = dl[d].by /\ r.digest = dl[d].digest
  BY <1>1 DEF Download
<1>4. /\ dl'[d] = r /\ UNCHANGED <<created, S>>
      /\ \A e \in Downloads : e # d => dl'[e] = dl[e]
  BY <1>2, <1>b, Update DEF InspectionTimeout
<1>5. DownloadInv(d)'
  <2>1. RefInv(d)' /\ ResultInv(d)'
    BY <1>1, <1>3, <1>4 DEF DownloadInv, RefInv, ResultInv
  <2>2. \A e \in Downloads : ApprovesFor(e, d) => ApprovesFor(e, d)'
    BY <1>3, <1>4 DEF ApprovesFor
  <2>3. VerdictInv(d)'
    BY <1>1, <1>3, <1>4, <2>2 DEF DownloadInv, VerdictInv
  <2>. QED
    BY <2>1, <2>3 DEF DownloadInv
<1>. QED
  BY <1>2, <1>b, <1>3, <1>5, DownloadUpdate DEF InspectionTimeout, Inv, TypeOK

LEMMA PipeAssetInv ==
  ASSUME Inv, NEW d \in Downloads, PipeAsset(d)
  PROVE  Inv'
<1>1. dl[d] \in Download /\ dl[d].step = "replied" /\ DownloadInv(d)
  BY DEF Inv, TypeOK, PipeAsset
<1>a. PICK step \in {"delivered", "refused"} :
        /\ dl' = [dl EXCEPT ![d].step = step]
        /\ step = "delivered" => dl[d].verdict = "ok"
  BY DEF PipeAsset, Goto
<1>. DEFINE r == [dl[d] EXCEPT !.step = step]
<1>2. r \in Download
  BY <1>1 DEF Download, Steps
<1>b. dl' = [dl EXCEPT ![d] = r]
  BY <1>a DEF Inv, TypeOK
<1>3. /\ r.step = step /\ r.result = dl[d].result /\ r.verdict = dl[d].verdict
      /\ r.conn = dl[d].conn /\ r.by = dl[d].by /\ r.digest = dl[d].digest
  BY <1>1 DEF Download
<1>4. /\ dl'[d] = r /\ UNCHANGED <<created, S>>
      /\ \A e \in Downloads : e # d => dl'[e] = dl[e]
  BY <1>2, <1>b, Update DEF PipeAsset
<1>5. DownloadInv(d)'
  <2>1. RefInv(d)' /\ ResultInv(d)'
    BY <1>1, <1>a, <1>3, <1>4 DEF DownloadInv, RefInv, ResultInv, Early
  <2>2. \A e \in Downloads : ApprovesFor(e, d) => ApprovesFor(e, d)'
    BY <1>3, <1>4 DEF ApprovesFor
  <2>3. VerdictInv(d)'
    BY <1>1, <1>3, <1>4, <2>2 DEF DownloadInv, VerdictInv
  <2>. QED
    BY <2>1, <2>3 DEF DownloadInv
<1>. QED
  BY <1>1, <1>2, <1>b, <1>3, <1>5, DownloadUpdate DEF After, PipeAsset, Inv, TypeOK

\* The reply of an inspection that recorded nothing is an error.
LEMMA ErrorReplyInv ==
  ASSUME Inv, NEW d \in Downloads, dl[d].step \in {"response", "complete"},
         NEW k \in 1 .. created, S[k].id = S[dl[d].conn].id,
         dl' = [dl EXCEPT ![d].step = "replied", ![d].verdict = "error", ![d].by = k],
         spool' \in Spool, faults' \in 0 .. MaxFaults,
         UNCHANGED <<sessions, created, S, expired, tunnels, deleting, removed>>
  PROVE  Inv'
<1>1. dl[d] \in Download /\ DownloadInv(d)
  BY DEF Inv, TypeOK
<1>. DEFINE r == [dl[d] EXCEPT !.step = "replied", !.verdict = "error", !.by = k]
<1>a. k \in Sess /\ created \in Nat
  BY BoundsAssumption DEF Inv, TypeOK, Sess
<1>2. r \in Download
  BY <1>1, <1>a DEF Download, Steps
<1>b. dl' = [dl EXCEPT ![d] = r]
  BY DEF Inv, TypeOK
<1>3. /\ r.step = "replied" /\ r.result = dl[d].result /\ r.verdict = "error"
      /\ r.conn = dl[d].conn /\ r.by = k /\ r.digest = dl[d].digest
  BY <1>1 DEF Download
<1>4. dl'[d] = r
  BY <1>2, <1>b, Update
<1>5. DownloadInv(d)'
  <2>a. dl[d].conn \in 1 .. created /\ created' = created /\ S' = S
    BY SessionOfDownload
  <2>. HIDE DEF r
  <2>b. k # 0 /\ k \in 0 .. created /\ dl[d].conn # 0 /\ dl[d].conn \in 0 .. created
    BY <1>a, <2>a
  <2>1. RefInv(d)'
    BY <1>3, <1>4, <2>a, <2>b DEF RefInv
  <2>2. ResultInv(d)' /\ VerdictInv(d)'
    BY <1>3, <1>4 DEF ResultInv, VerdictInv, Early
  <2>. QED
    BY <2>1, <2>2 DEF DownloadInv
<1>. QED
  BY <1>1, <1>2, <1>b, <1>3, <1>5, DownloadUpdate DEF After

\* The same, for a session that is gone.
LEMMA NoSessionInv ==
  ASSUME Inv, NEW d \in Downloads, dl[d].step \in {"response", "complete"},
         Reply(d, "error"), spool' \in Spool,
         UNCHANGED <<sessions, created, S, expired, tunnels, deleting, removed, faults>>
  PROVE  Inv'
<1>1. dl[d].by \in 1 .. created /\ S[dl[d].by].id = S[dl[d].conn].id /\ dl[d] \in Download
  BY DEF Inv, TypeOK, DownloadInv, RefInv
<1>2. dl' = [dl EXCEPT ![d].step = "replied", ![d].verdict = "error", ![d].by = dl[d].by]
  <2>1. [dl[d] EXCEPT !.step = "replied", !.verdict = "error"]
          = [dl[d] EXCEPT !.step = "replied", !.verdict = "error", !.by = dl[d].by]
    BY <1>1 DEF Download
  <2>. QED
    BY <2>1 DEF Reply, Inv, TypeOK
<1>. QED
  BY <1>1, <1>2, ErrorReplyInv DEF Inv, TypeOK

LEMMA SaveDataInv ==
  ASSUME Inv, NEW d \in Downloads, dl[d].step = "response", SessionOf(d) # 0, SaveData(d),
         UNCHANGED <<sessions, created, S, expired, tunnels, deleting, removed>>
  PROVE  Inv'
<1>. DEFINE i == S[dl[d].conn].id
            sp == [spool EXCEPT !.temp = @ \ {d}]
            dir == [sp EXCEPT !.assets = @ \cup {i}]
            new == [dir EXCEPT !.data = @ \cup {<<i, dl[d].digest>>}]
<1>1. dl[d] \in Download /\ DownloadInv(d) /\ dl[d].digest \in Digests
  BY DEF Inv, TypeOK, DownloadInv, RefInv
<1>2. /\ i \in Ids /\ SessionOf(d) \in Sess /\ SessionOf(d) \in 1 .. created
      /\ S[SessionOf(d)].id = i /\ created \in Nat
  BY SessionOfDownload
<1>3. sp \in Spool
  BY TempType
<1>4. dir \in Spool
  BY <1>2, <1>3 DEF Spool
<1>5. new \in Spool
  <2>1. <<i, dl[d].digest>> \in Ids \X Digests
    BY <1>1, <1>2
  <2>. HIDE DEF dir
  <2>. QED
    BY <1>4, <2>1 DEF Spool
<1>6. CASE /\ faults < MaxFaults /\ faults' = faults + 1 /\ spool' \in {sp, dir}
           /\ dl' = [dl EXCEPT ![d].step = "replied", ![d].verdict = "error",
                               ![d].by = SessionOf(d)]
  <2>1. faults' \in 0 .. MaxFaults
    BY <1>6, BoundsAssumption DEF Inv, TypeOK
  <2>. QED
    BY <1>2, <1>3, <1>4, <1>6, <2>1, ErrorReplyInv
<1>7. CASE /\ spool' = new /\ faults' = faults
           /\ dl' = [dl EXCEPT ![d].step = "inspect", ![d].by = SessionOf(d)]
  <2>. DEFINE r == [dl[d] EXCEPT !.step = "inspect", !.by = SessionOf(d)]
  <2>1. r \in Download
    BY <1>1, <1>2 DEF Download, Steps
  <2>2. dl' = [dl EXCEPT ![d] = r]
    BY <1>7 DEF Inv, TypeOK
  <2>3. /\ r.step = "inspect" /\ r.result = dl[d].result /\ r.verdict = dl[d].verdict
        /\ r.conn = dl[d].conn /\ r.by = SessionOf(d) /\ r.digest = dl[d].digest
    BY <1>1 DEF Download
  <2>4. dl'[d] = r
    BY <2>1, <2>2, Update
  <2>a. RefInv(d)'
    BY <1>1, <1>2, <2>3, <2>4 DEF DownloadInv, RefInv
  <2>5. DownloadInv(d)'
    BY <1>1, <2>a, <2>3, <2>4 DEF DownloadInv, ResultInv, VerdictInv, Early
  <2>. QED
    BY <1>1, <1>5, <1>7, <2>1, <2>2, <2>3, <2>5, DownloadUpdate DEF After, Inv, TypeOK
<1>. QED
  BY <1>6, <1>7 DEF SaveData

\* Recording download d, in the terms of the actions that do it.
LEMMA RecordInv ==
  ASSUME Inv, NEW d \in Downloads, dl[d].step \in {"response", "complete"},
         SessionOf(d) # 0,
         HasArtifact(SessionOf(d), dl[d].digest) \/ dl[d].result # "Unknown",
         Record(SessionOf(d), d),
         NEW r \in Download, dl' = [dl EXCEPT ![d] = r],
         r.step = "replied", r.conn = dl[d].conn, r.digest = dl[d].digest,
         r.result = dl[d].result, r.by \in 1 .. created, S[r.by].id = S[dl[d].conn].id,
         r.verdict = "ok" => \/ S[r.by].permissive
                             \/ \E e \in Downloads : ApprovesFor(e, d),
         spool' \in Spool,
         UNCHANGED <<sessions, created, expired, tunnels, deleting, removed, faults>>
  PROVE  Inv'
<1>. DEFINE k == SessionOf(d)
            g == dl[d].digest
<1>1. k \in 1 .. created /\ S[k].id = S[dl[d].conn].id /\ g \in Digests
  BY SessionOfDownload DEF Inv, DownloadInv, RefInv
<1>2. dl' \in [Downloads -> Download] /\ dl'[d] = r /\ \A e \in Downloads : e # d => dl'[e] = dl[e]
  BY Update
<1>3. S \in [1 .. created -> Session] /\ S[k] \in Session
  BY <1>1 DEF Inv, TypeOK
<1>. DEFINE A == [S[k].A EXCEPT ![g] = IF HasArtifact(k, g) THEN @ ELSE d]
            s == [S[k] EXCEPT !.A = A, !.log = @ \cup {d}]
<1>4. A \in [Digests -> Downloads \cup {NoDownload}]
  BY <1>3 DEF Session
<1>5. s \in Session
  BY <1>3, <1>4 DEF Session
<1>6. S' = [S EXCEPT ![k] = s]
  BY <1>1, <1>3 DEF Record
<1>7. /\ s.id = S[k].id /\ s.permissive = S[k].permissive /\ s.A = A
      /\ s.log = S[k].log \cup {d}
  BY <1>3 DEF Session
<1>8. TypeOK'
  BY <1>2, <1>3, <1>5, <1>6 DEF Inv, TypeOK
<1>9. /\ S'[k] = s
      /\ \A j \in 1 .. created : j # k => S'[j] = S[j]
      /\ \A h \in Digests : A[h] = IF h = g /\ ~HasArtifact(k, g) THEN d ELSE S[k].A[h]
  BY <1>1, <1>3, <1>6 DEF Session
<1>. HIDE DEF k, g, A, s
<1>. QED
  BY <1>1, <1>2, <1>7, <1>8, <1>9, RecordFrame DEF k, g

LEMMA ResponseInspectionInv ==
  ASSUME Inv, NEW d \in Downloads, HandleResponseInspection(d)
  PROVE  Inv'
<1>. DEFINE k == SessionOf(d)
            g == dl[d].digest
<1>1. /\ dl[d] \in Download /\ dl[d].step = "response" /\ DownloadInv(d) /\ g \in Digests
      /\ UNCHANGED <<sessions, created, expired, tunnels, deleting, removed>>
  BY DEF Inv, TypeOK, HandleResponseInspection, DownloadInv, RefInv
<1>2. CASE /\ k = 0
           /\ Reply(d, "error")
           /\ spool' = [spool EXCEPT !.temp = @ \ {d}]
           /\ UNCHANGED <<S, faults>>
  BY <1>1, <1>2, TempType, NoSessionInv
<1>3. CASE /\ k # 0
           /\ ~HasArtifact(k, g)
           /\ SaveData(d)
           /\ UNCHANGED S
  BY <1>1, <1>3, SaveDataInv
<1>4. ASSUME k # 0, HasArtifact(k, g), UNCHANGED faults,
             S' = [S EXCEPT ![k].log = @ \cup {d}],
             spool' = [spool EXCEPT !.temp = @ \ {d}],
             NEW verdict,
             verdict = IF ~S[k].permissive /\ ArtifactResult(k, g) = "Rejected"
                         THEN "error" ELSE "ok",
             dl' = [dl EXCEPT ![d].step = "replied", ![d].by = k, ![d].verdict = verdict]
      PROVE  Inv'
  <2>. DEFINE r == [dl[d] EXCEPT !.step = "replied", !.by = k, !.verdict = verdict]
  <2>1. k \in Sess /\ k \in 1 .. created /\ S[k].id = S[dl[d].conn].id
    BY <1>1, <1>4, SessionOfDownload
  <2>2. r \in Download
    BY <1>1, <1>4, <2>1 DEF Download, Steps
  <2>3. dl' = [dl EXCEPT ![d] = r]
    BY <1>4 DEF Inv, TypeOK
  <2>4. /\ r.step = "replied" /\ r.result = dl[d].result /\ r.verdict = verdict
        /\ r.conn = dl[d].conn /\ r.by = k /\ r.digest = g
    BY <1>1 DEF Download
  <2>5. Record(k, d)
    <3>1. S \in [1 .. created -> Session] /\ S[k] \in Session
      BY <2>1 DEF Inv, TypeOK
    <3>2. [S[k].A EXCEPT ![g] = IF HasArtifact(k, g) THEN @ ELSE d] = S[k].A
      BY <1>1, <1>4, <3>1 DEF Session
    <3>3. [S[k] EXCEPT !.A = S[k].A, !.log = @ \cup {d}] = [S[k] EXCEPT !.log = @ \cup {d}]
      BY <3>1 DEF Session
    <3>. QED
      BY <1>4, <2>1, <3>1, <3>2, <3>3 DEF Record
  <2>6. verdict = "ok" => \/ S[k].permissive
                          \/ \E e \in Downloads : ApprovesFor(e, d)
    <3>. DEFINE e == S[k].A[g]
    <3>1. SUFFICES ASSUME verdict = "ok", ~S[k].permissive
                   PROVE  \E f \in Downloads : ApprovesFor(f, d)
      OBVIOUS
    <3>2. ArtifactInv(k) /\ LogInv(k) /\ S[k].log \subseteq Downloads
      BY <2>1 DEF Inv, TypeOK, Session
    <3>3. /\ e \in S[k].log /\ e \in Downloads
          /\ dl[e].digest = g /\ dl[e].result # "Unknown"
          /\ S[dl[e].conn].id = S[k].id
      BY <1>1, <1>4, <3>2 DEF ArtifactInv, LogInv
    <3>4. dl[e].result # "Rejected"
      BY <1>4, <3>1 DEF ArtifactResult
    <3>5. dl[e].result = "Approved"
      BY <3>3, <3>4 DEF Inv, TypeOK, Download, Opinions
    <3>6. ApprovesFor(e, d)
      BY <2>1, <3>3, <3>5 DEF ApprovesFor
    <3>. QED
      BY <3>3, <3>6
  <2>7. spool' \in Spool
    BY <1>4, TempType
  <2>8. /\ r.by \in 1 .. created /\ S[r.by].id = S[dl[d].conn].id
        /\ r.verdict = "ok" => S[r.by].permissive \/ \E e \in Downloads : ApprovesFor(e, d)
    BY <2>1, <2>4, <2>6
  <2>. HIDE DEF r
  <2>. QED
    BY <1>1, <1>4, <2>2, <2>3, <2>4, <2>5, <2>7, <2>8, RecordInv
<1>. QED
  BY <1>2, <1>3, <1>4 DEF HandleResponseInspection, ReusedVerdict

LEMMA CompleteInspectionInv ==
  ASSUME Inv, NEW d \in Downloads, HandleCompleteInspection(d)
  PROVE  Inv'
<1>1. /\ dl[d] \in Download /\ dl[d].step = "complete" /\ DownloadInv(d) /\ spool' \in Spool
      /\ UNCHANGED <<sessions, created, expired, tunnels, deleting, removed, faults>>
  BY DEF Inv, TypeOK, HandleCompleteInspection
<1>2. CASE /\ SessionOf(d) = 0
           /\ Reply(d, "error")
           /\ UNCHANGED S
  BY <1>1, <1>2, NoSessionInv
<1>3. CASE /\ SessionOf(d) # 0
           /\ Record(SessionOf(d), d)
           /\ Goto(d, "replied")
  <2>. DEFINE r == [dl[d] EXCEPT !.step = "replied"]
  <2>1. r \in Download
    BY <1>1 DEF Download, Steps
  <2>2. dl' = [dl EXCEPT ![d] = r]
    BY <1>3 DEF Goto, Inv, TypeOK
  <2>3. /\ r.step = "replied" /\ r.result = dl[d].result /\ r.verdict = dl[d].verdict
        /\ r.conn = dl[d].conn /\ r.by = dl[d].by /\ r.digest = dl[d].digest
    BY <1>1 DEF Download
  <2>4. /\ dl[d].by \in 1 .. created /\ S[dl[d].by].id = S[dl[d].conn].id
        /\ dl[d].result # "Unknown"
    BY <1>1 DEF DownloadInv, RefInv, ResultInv, Inv, TypeOK
  <2>5. dl[d].verdict = "ok" => S[dl[d].by].permissive \/ \E e \in Downloads : ApprovesFor(e, d)
    BY <1>1 DEF DownloadInv, VerdictInv
  <2>6. /\ r.by \in 1 .. created /\ S[r.by].id = S[dl[d].conn].id
        /\ r.verdict = "ok" => S[r.by].permissive \/ \E e \in Downloads : ApprovesFor(e, d)
    BY <2>3, <2>4, <2>5
  <2>. HIDE DEF r
  <2>. QED
    BY <1>1, <1>3, <2>1, <2>2, <2>3, <2>4, <2>6, RecordInv
<1>. QED
  BY <1>2, <1>3 DEF HandleCompleteInspection
-----------------------------------------------------------------------------
(* Sessions                                                                *)

\* Replacing the record of session k, when what the downloads refer to stays.
LEMMA SessionUpdate ==
  ASSUME Inv, NEW k \in 1 .. created, NEW s \in Session, S' = [S EXCEPT ![k] = s],
         s.id = S[k].id, s.permissive = S[k].permissive, s.A = S[k].A, s.log = S[k].log,
         \A i \in Ids : sessions'[i] \in {0, sessions[i]},
         sessions' \in [Ids -> Sess \cup {0}],
         UNCHANGED <<created, tunnels, dl>>,
         expired' \in Ids \cup {NoId}, spool' \in Spool, deleting' \subseteq Ids, removed' \subseteq Ids,
         faults' \in 0 .. MaxFaults
  PROVE  Inv'
<1>1. S \in [1 .. created -> Session] /\ created \in Nat
  BY DEF Inv, TypeOK
<1>2. S' \in [1 .. created -> Session] /\ S'[k] = s /\ \A j \in 1 .. created : j # k => S'[j] = S[j]
  BY <1>1
<1>3. TypeOK'
  BY <1>2 DEF Inv, TypeOK
<1>4. \A j \in 1 .. created : /\ S'[j].id = S[j].id
                              /\ S'[j].permissive = S[j].permissive
                              /\ S'[j].A = S[j].A
                              /\ S'[j].log = S[j].log
  BY <1>2
<1>5. MapInv'
  BY <1>4 DEF Inv, MapInv
<1>. QED
  BY <1>1, <1>3, <1>4, <1>5, SessionFrame DEF Inv

LEMMA NewWithIDInv ==
  ASSUME Inv, NEW i \in Ids, NEW permissive \in BOOLEAN, NewWithID(i, permissive)
  PROVE  Inv'
<1>. DEFINE s == NewSession(i, permissive)
            n == created + 1
<1>1. created \in Nat /\ n \in Nat /\ n \in Sess /\ n \in 0 .. MaxSessions /\ created' = n
  BY BoundsAssumption DEF Inv, TypeOK, NewWithID, Sess
<1>2. s \in Session /\ s.id = i /\ s.log = {} /\ \A g \in Digests : s.A[g] = NoDownload
  BY DEF NewSession, Session, TimerStates
<1>3. \A k \in 1 .. n : k # n => k \in 1 .. created
  BY <1>1
<1>4. S' = [k \in 1 .. n |-> IF k = n THEN s ELSE S[k]]
  BY DEF NewWithID
<1>. HIDE DEF s
<1>5. S' \in [1 .. n -> Session] /\ S'[n] = s /\ \A k \in 1 .. created : S'[k] = S[k]
  BY <1>1, <1>2, <1>3, <1>4 DEF Inv, TypeOK
<1>6. /\ sessions' = [sessions EXCEPT ![i] = n]
      /\ UNCHANGED <<expired, tunnels, dl, spool, deleting, removed, faults>>
  BY DEF NewWithID
<1>7. sessions' \in [Ids -> Sess \cup {0}]
  BY <1>1, <1>6 DEF Inv, TypeOK
<1>8. TypeOK'
  BY <1>1, <1>5, <1>6, <1>7 DEF Inv, TypeOK
<1>9. MapInv'
  <2>1. ASSUME NEW j \in Ids, sessions'[j] # 0
        PROVE  sessions'[j] \in 1 .. n /\ S'[sessions'[j]].id = j
    <3>1. CASE j = i
      BY <1>1, <1>2, <1>5, <1>6, <3>1 DEF Inv, TypeOK
    <3>2. CASE j # i
      <4>1. sessions'[j] = sessions[j] /\ sessions[j] \in 1 .. created /\ S[sessions[j]].id = j
        BY <1>6, <2>1, <3>2 DEF Inv, TypeOK, MapInv
      <4>. QED
        BY <1>1, <1>5, <4>1
    <3>. QED
      BY <3>1, <3>2
  <2>. QED
    BY <1>1, <2>1 DEF MapInv
<1>10. tunnels' \subseteq 1 .. created'
  BY <1>1, <1>6 DEF Inv
<1>. QED
  BY <1>1, <1>2, <1>3, <1>5, <1>6, <1>8, <1>9, <1>10, SessionFrame

LEMMA CreateSessionInv ==
  ASSUME Inv, NEW permissive \in BOOLEAN,
         \/ HandleCreateSession(permissive)
         \/ \E i \in FetchctlIds : FetchCtlCreateSession(i, permissive)
  PROVE  Inv'
<1>1. \E i \in Ids : NewWithID(i, permissive)
  BY IdsAssumption DEF HandleCreateSession, FetchCtlCreateSession, MakeSessionID
<1>. QED
  BY <1>1, NewWithIDInv

\* The spool operations keep the spool's type.
LEMMA SpoolTypes ==
  ASSUME NEW sp \in Spool, NEW i \in Ids, NEW G \in SUBSET Digests
  PROVE  /\ SaveMetadata(sp, i, G) \in Spool
         /\ SaveSessionMetadata(sp, i) \in Spool
         /\ RemoveCache(sp, i) \in Spool
         /\ RemoveResources(sp, i) \in Spool
<1>1. {i} \X G \subseteq Ids \X Digests
  OBVIOUS
<1>2. SaveMetadata(sp, i, G) \in Spool
  BY <1>1 DEF SaveMetadata, Spool
<1>3. SaveSessionMetadata(sp, i) \in Spool
  BY DEF SaveSessionMetadata, Spool
<1>4. RemoveCache(sp, i) \in Spool
  BY DEF RemoveCache, Spool
<1>5. RemoveResources(sp, i) \in Spool
  BY DEF RemoveResources, Spool
<1>. QED
  BY <1>2, <1>3, <1>4, <1>5

\* What a call of RemoveResources for i changed from spool sp to r is under i.
Beside(i, sp, r) ==
  \A h \in Ids : h # i =>
    /\ h \in sp.json => h \in r.json
    /\ h \in sp.assets => h \in r.assets
    /\ \A g \in Digests : /\ <<h, g>> \in sp.data => <<h, g>> \in r.data
                          /\ <<h, g>> \in sp.meta => <<h, g>> \in r.meta

\* Removing the files of an ID, wholly or partly, touches no other ID.
LEMMA PartlyFacts ==
  ASSUME NEW sp \in Spool, NEW i \in Ids, NEW p \in PartlyRemoved(sp, i)
  PROVE  p \in Spool /\ Beside(i, sp, p)
<1>1. /\ p.assets \in {sp.assets, sp.assets \ {i}}
      /\ p.data \in {sp.data \ R : R \in SUBSET {f \in sp.data : f[1] = i}}
      /\ p.meta \in {sp.meta \ R : R \in SUBSET {f \in sp.meta : f[1] = i}}
      /\ p.json \in {sp.json, sp.json \ {i}}
      /\ p.cache \in {sp.cache, sp.cache \ {i}} /\ p.temp = sp.temp
      /\ p = [assets |-> p.assets, data |-> p.data, meta |-> p.meta, json |-> p.json,
              cache |-> p.cache, temp |-> p.temp]
  BY DEF PartlyRemoved
<1>2. p \in Spool
  BY <1>1 DEF Spool
<1>3. Beside(i, sp, p)
  BY <1>1 DEF Beside
<1>. QED
  BY <1>2, <1>3

LEMMA RemovalFacts ==
  ASSUME NEW sp \in Spool, NEW i \in Ids
  PROVE  RemoveResources(sp, i) \in Spool /\ Beside(i, sp, RemoveResources(sp, i))
<1>. DEFINE r == RemoveResources(sp, i)
<1>1. /\ r \in Spool /\ r.json = sp.json \ {i} /\ r.assets = sp.assets \ {i}
      /\ r.data = {f \in sp.data : f[1] # i} /\ r.meta = {f \in sp.meta : f[1] # i}
  BY DEF RemoveResources, Spool
<1>. HIDE DEF r
<1>2. r \in Spool /\ Beside(i, sp, r)
  BY <1>1 DEF Beside
<1>. QED
  BY <1>2 DEF r

LEMMA RemoveTypes ==
  ASSUME NEW sp \in Spool, NEW i \in Ids, NEW n \in 0 .. MaxFaults,
         NEW out \in RemoveOutcomes(sp, i, n)
  PROVE  out.sp \in Spool /\ out.faults \in 0 .. MaxFaults /\ Beside(i, sp, out.sp)
<1>1. CASE out = [sp |-> RemoveResources(sp, i), faults |-> n]
  BY <1>1, RemovalFacts
<1>2. ASSUME n < MaxFaults, NEW p \in PartlyRemoved(sp, i), out = [sp |-> p, faults |-> n + 1]
      PROVE  out.sp \in Spool /\ out.faults \in 0 .. MaxFaults /\ Beside(i, sp, out.sp)
  <2>1. n + 1 \in 0 .. MaxFaults
    BY <1>2, BoundsAssumption
  <2>. QED
    BY <1>2, <2>1, PartlyFacts
<1>. QED
  BY <1>1, <1>2 DEF RemoveOutcomes

LEMMA FinishTypes ==
  ASSUME Inv, NEW k \in 1 .. created, NEW out \in FinishOutcomes(k)
  PROVE  out.ok \in BOOLEAN /\ out.sp \in Spool /\ out.faults \in 0 .. MaxFaults
<1>. DEFINE i == S[k].id
            all == SaveMetadata(spool, i, Recorded(k))
            done == SaveSessionMetadata(all, i)
            fails == {SaveMetadata(spool, i, G) : G \in SUBSET Recorded(k)} \cup {all, done}
<1>1. i \in Ids /\ spool \in Spool /\ faults \in 0 .. MaxFaults
  BY DEF Inv, TypeOK, Session
<1>2. Recorded(k) \in SUBSET Digests
  BY DEF Recorded
<1>3. all \in Spool
  BY <1>1, <1>2, SpoolTypes
<1>4. done \in Spool /\ RemoveCache(done, i) \in Spool
  <2>1. done \in Spool
    BY <1>1, <1>2, <1>3, SpoolTypes
  <2>. QED
    BY <1>1, <1>2, <2>1, SpoolTypes
<1>5. fails \subseteq Spool
  <2>1. \A G \in SUBSET Recorded(k) : SaveMetadata(spool, i, G) \in Spool
    BY <1>1, <1>2, SpoolTypes
  <2>. QED
    BY <1>3, <1>4, <2>1
<1>. HIDE DEF fails, done
<1>6. \/ out = [ok |-> TRUE, sp |-> RemoveCache(done, i), faults |-> faults]
      \/ out = [ok |-> FALSE, sp |-> spool, faults |-> faults]
      \/ faults < MaxFaults /\ \E sp \in fails : out = [ok |-> FALSE, sp |-> sp, faults |-> faults + 1]
  BY DEF FinishOutcomes, fails, done
<1>7. faults < MaxFaults => faults + 1 \in 0 .. MaxFaults
  BY <1>1, BoundsAssumption
<1>8. CASE out = [ok |-> TRUE, sp |-> RemoveCache(done, i), faults |-> faults]
  BY <1>1, <1>4, <1>8
<1>9. CASE out = [ok |-> FALSE, sp |-> spool, faults |-> faults]
  BY <1>1, <1>9
<1>10. ASSUME faults < MaxFaults, NEW sp \in fails,
              out = [ok |-> FALSE, sp |-> sp, faults |-> faults + 1]
       PROVE  out.ok \in BOOLEAN /\ out.sp \in Spool /\ out.faults \in 0 .. MaxFaults
  BY <1>5, <1>7, <1>10
<1>. QED
  BY <1>6, <1>8, <1>9, <1>10

LEMMA FinishInv ==
  ASSUME Inv, NEW k \in 1 .. created, NEW ok \in BOOLEAN, FinishSession(k, ok),
         UNCHANGED <<created, tunnels, dl>>,
         expired' \in Ids \cup {NoId}, spool' \in Spool, deleting' \subseteq Ids, removed' \subseteq Ids,
         faults' \in 0 .. MaxFaults
  PROVE  Inv'
<1>. DEFINE t == IF ok THEN CancelTimer(S[k].timer) ELSE StopTimer(S[k].timer)
            s == [S[k] EXCEPT !.timer = t]
<1>1. S[k] \in Session /\ S \in [1 .. created -> Session] /\ S[k].id \in Ids
  BY DEF Inv, TypeOK, Session
<1>2. t \in TimerStates
  BY <1>1 DEF Session, TimerStates, CancelTimer, StopTimer
<1>. HIDE DEF t
<1>3. s \in Session /\ s.id = S[k].id /\ s.permissive = S[k].permissive /\ s.A = S[k].A /\ s.log = S[k].log
  BY <1>1, <1>2 DEF Session
<1>4. S' = [S EXCEPT ![k] = s]
  BY <1>1 DEF FinishSession, t
<1>5. sessions' = [sessions EXCEPT ![S[k].id] = IF ok THEN 0 ELSE @]
  BY DEF FinishSession
<1>6. /\ sessions' \in [Ids -> Sess \cup {0}]
      /\ \A i \in Ids : sessions'[i] \in {0, sessions[i]}
  BY <1>1, <1>5 DEF Inv, TypeOK
<1>. HIDE DEF s
<1>. QED
  BY <1>3, <1>4, <1>6, SessionUpdate

LEMMA EndSessionInv ==
  ASSUME Inv, NEW k \in Sess, HandleEndSession(k)
  PROVE  Inv'
<1>1. k \in 1 .. created
  BY DEF HandleEndSession, Active
<1>2. PICK out \in FinishOutcomes(k) : FinishSession(k, out.ok) /\ spool' = out.sp /\ faults' = out.faults
  BY DEF HandleEndSession
<1>. QED
  BY <1>1, <1>2, FinishTypes, FinishInv DEF HandleEndSession, Inv, TypeOK

LEMMA ExpiredSessionInv ==
  ASSUME Inv, HandleExpiredSession
  PROVE  Inv'
<1>. DEFINE k == GetSession(expired)
<1>1. /\ expired \in Ids /\ expired' = NoId
      /\ UNCHANGED <<created, tunnels, dl, deleting>>
  BY DEF HandleExpiredSession, Inv, TypeOK
<1>2. CASE k = 0 /\ UNCHANGED <<sessions, S, spool, removed, faults>>
  <2>1. TypeOK' /\ MapInv' /\ created \in Nat
    BY <1>1, <1>2 DEF Inv, TypeOK, MapInv
  <2>. QED
    BY <1>1, <1>2, <2>1, SessionFrame DEF Inv
<1>3. ASSUME k # 0, NEW out \in FinishOutcomes(k), FinishSession(k, out.ok),
             NEW rest \in RemoveOutcomes(out.sp, expired, out.faults),
             removed' = removed \cup {expired}, spool' = rest.sp, faults' = rest.faults
      PROVE  Inv'
  <2>1. k \in 1 .. created
    BY <1>1, <1>3 DEF GetSession, Inv, MapInv
  <2>2. out.ok \in BOOLEAN /\ out.sp \in Spool /\ out.faults \in 0 .. MaxFaults
    BY <1>3, <2>1, FinishTypes
  <2>3. spool' \in Spool /\ faults' \in 0 .. MaxFaults
    BY <1>1, <1>3, <2>2, RemoveTypes
  <2>. QED
    BY <1>1, <1>3, <2>1, <2>2, <2>3, FinishInv DEF Inv, TypeOK
<1>. QED
  BY <1>2, <1>3 DEF HandleExpiredSession

\* Revoking a token and the steps of a timer.
LEMMA SessionFieldInv ==
  ASSUME Inv, NEW k \in Sess, HandleRevokeToken(k) \/ TimerFires(k) \/ TimerSends(k)
  PROVE  Inv'
<1>1. k \in 1 .. created /\ S[k] \in Session /\ S[k].id \in Ids
  BY DEF HandleRevokeToken, TimerFires, TimerSends, Active, Inv, TypeOK, Session
<1>2. PICK revoked \in BOOLEAN, timer \in TimerStates :
        S' = [S EXCEPT ![k] = [S[k] EXCEPT !.revoked = revoked, !.timer = timer]]
  <2>1. S \in [1 .. created -> Session]
    BY DEF Inv, TypeOK
  <2>2. /\ [S[k] EXCEPT !.revoked = TRUE] = [S[k] EXCEPT !.revoked = TRUE, !.timer = S[k].timer]
        /\ \A t : [S[k] EXCEPT !.timer = t] = [S[k] EXCEPT !.revoked = S[k].revoked, !.timer = t]
    BY <1>1 DEF Session
  <2>3. S[k].timer \in TimerStates /\ S[k].revoked \in BOOLEAN
    BY <1>1 DEF Session
  <2>4. CASE HandleRevokeToken(k)
    <3>1. S' = [S EXCEPT ![k] = [S[k] EXCEPT !.revoked = TRUE, !.timer = S[k].timer]]
      BY <1>1, <2>1, <2>2, <2>4 DEF HandleRevokeToken
    <3>. QED
      BY <2>3, <3>1
  <2>5. CASE TimerFires(k) \/ TimerSends(k)
    <3>1. PICK t \in {"fired", "over"} : S' = [S EXCEPT ![k].timer = t]
      BY <2>5 DEF TimerFires, TimerSends
    <3>2. S' = [S EXCEPT ![k] = [S[k] EXCEPT !.revoked = S[k].revoked, !.timer = t]]
      BY <1>1, <2>1, <2>2, <3>1
    <3>. QED
      BY <2>3, <3>2 DEF TimerStates
  <2>. QED
    BY <2>4, <2>5
<1>. DEFINE s == [S[k] EXCEPT !.revoked = revoked, !.timer = timer]
<1>3. s \in Session /\ s.id = S[k].id /\ s.permissive = S[k].permissive /\ s.A = S[k].A /\ s.log = S[k].log
  BY <1>1 DEF Session
<1>4. /\ UNCHANGED <<sessions, created, tunnels, dl, spool, deleting, removed, faults>>
      /\ expired' \in Ids \cup {NoId}
  BY <1>1 DEF HandleRevokeToken, TimerFires, TimerSends, Inv, TypeOK
<1>5. S' = [S EXCEPT ![k] = s]
  BY <1>2
<1>. HIDE DEF s
<1>. QED
  BY <1>1, <1>3, <1>4, <1>5, SessionUpdate DEF Inv, TypeOK

\* Opening a tunnel, removing files, and stuttering.
LEMMA OtherInv ==
  ASSUME Inv, \/ \E k \in Sess : CheckAuth(k)
              \/ \E i \in Ids : HandleDeleteResources(i) \/ DeleteSome(i) \/ DeleteFiles(i)
              \/ UNCHANGED vars
  PROVE  Inv'
<1>1. UNCHANGED <<sessions, created, S, dl, expired>> /\ created \in Nat
  BY DEF CheckAuth, HandleDeleteResources, DeleteSome, DeleteFiles, vars, Inv, TypeOK
<1>2. tunnels' \subseteq 1 .. created'
  BY <1>1 DEF CheckAuth, Active, HandleDeleteResources, DeleteSome, DeleteFiles, vars, Inv
<1>3. spool' \in Spool /\ deleting' \subseteq Ids /\ removed' \subseteq Ids /\ faults' \in 0 .. MaxFaults
  <2>0. spool \in Spool /\ deleting \subseteq Ids /\ removed \subseteq Ids /\ faults \in 0 .. MaxFaults
    BY DEF Inv, TypeOK
  <2>1. ASSUME NEW i \in Ids, DeleteFiles(i) \/ DeleteSome(i)
        PROVE  spool' \in Spool /\ faults' \in 0 .. MaxFaults
    <3>1. \/ \E out \in RemoveOutcomes(spool, i, faults) : spool' = out.sp /\ faults' = out.faults
          \/ spool' \in PartlyRemoved(spool, i) /\ faults' = faults
      BY <2>1 DEF DeleteFiles, DeleteSome
    <3>. QED
      BY <2>0, <3>1, RemoveTypes, PartlyFacts
  <2>2. ASSUME NEW i \in Ids, DeleteFiles(i) \/ DeleteSome(i)
        PROVE  deleting' \subseteq Ids /\ removed' = removed
    BY <2>0, <2>2 DEF DeleteFiles, DeleteSome
  <2>3. CASE ~ \E i \in Ids : DeleteFiles(i) \/ DeleteSome(i)
    BY <2>0, <2>3 DEF CheckAuth, HandleDeleteResources, vars
  <2>. QED
    BY <2>0, <2>1, <2>2, <2>3
<1>4. tunnels' \subseteq Sess
  BY <1>1, <1>2, BoundsAssumption DEF Inv, TypeOK, Sess
<1>5. TypeOK' /\ MapInv'
  BY <1>1, <1>3, <1>4 DEF Inv, TypeOK, MapInv
<1>. QED
  BY <1>1, <1>2, <1>5, SessionFrame

-----------------------------------------------------------------------------
(* The theorems                                                            *)

LEMMA InitInv ==
  ASSUME Init
  PROVE  Inv
<1>1. created = 0 /\ created \in 0 .. MaxSessions /\ 1 .. created = {}
  BY BoundsAssumption DEF Init
<1>2. S \in [1 .. created -> Session]
  BY <1>1 DEF Init
<1>3. TypeOK
  BY <1>1, <1>2, BoundsAssumption DEF Init, TypeOK, Download, Spool, Steps, Opinions
<1>4. MapInv /\ tunnels \subseteq 1 .. created
  BY DEF Init, MapInv
<1>5. \A d \in Downloads : DownloadInv(d)
  BY <1>1 DEF Init, DownloadInv, RefInv, ResultInv, VerdictInv, Early
<1>. QED
  BY <1>1, <1>3, <1>4, <1>5 DEF Inv

LEMMA NextInv ==
  ASSUME Inv, [Next]_vars
  PROVE  Inv'
<1>1. ASSUME NEW d \in Downloads, DownloadStep(d) PROVE Inv'
  BY <1>1, RequestInspectionInv, RunRequestInspectionInv, RoundTripInv, LocalDownloadInv,
     ResponseInspectionInv, RunResponseInspectionInv, CompleteInspectionInv, PipeAssetInv
     DEF DownloadStep
<1>. QED
  BY <1>1, ProcessRequestInv, InspectionTimeoutInv, CreateSessionInv, EndSessionInv,
     ExpiredSessionInv, SessionFieldInv, OtherInv DEF Next

\* Inv holds in every state of the service.
THEOREM Invariance == Spec => []Inv
<1>1. Init => Inv
  BY InitInv
<1>2. Inv /\ [Next]_vars => Inv'
  BY NextInv
<1>. QED
  BY <1>1, <1>2, PTL DEF Spec

\* Type correctness, for any number of sessions, downloads and faults.
THEOREM TypeCorrect == Spec => []TypeOK
<1>1. Inv => TypeOK
  BY DEF Inv
<1>. QED
  BY <1>1, Invariance, PTL

\* Content that a strict session delivers was approved by a complete
\* inspection under the same session ID.
THEOREM StrictDeliveryHolds == Spec => []StrictDelivery
<1>1. Inv => StrictDelivery
  BY DEF Inv, DownloadInv, ResultInv, VerdictInv, StrictDelivery
<1>. QED
  BY <1>1, Invariance, PTL

\* Whatever is delivered is in the records of a session with that ID.
THEOREM DeliveredRecordedHolds == Spec => []DeliveredRecorded
<1>1. ASSUME Inv PROVE DeliveredRecorded
  <2>1. SUFFICES ASSUME NEW d \in Downloads, dl[d].step = "delivered"
                 PROVE  \E k \in 1 .. created : /\ S[k].id = S[dl[d].conn].id
                                                /\ d \in S[k].log
                                                /\ HasArtifact(k, dl[d].digest)
    BY DEF DeliveredRecorded
  <2>2. PICK k \in 1 .. created : S[k].id = S[dl[d].conn].id /\ d \in S[k].log
    BY <1>1, <2>1 DEF Inv, DownloadInv, ResultInv, VerdictInv
  <2>. QED
    BY <1>1, <2>2 DEF Inv, LogInv
<1>. QED
  BY <1>1, Invariance, PTL

\* A step changes the result of a download only while it is being inspected.
LEMMA ResultFrame ==
  ASSUME Inv, [Next]_vars, NEW e \in Downloads, dl[e].step \in After
  PROVE  dl'[e].result = dl[e].result
<1>1. dl \in [Downloads -> Download] /\ dl[e] \in Download
  BY DEF Inv, TypeOK
<1>2. ASSUME NEW d \in Downloads, \/ \E k \in Sess : ProcessRequest(d, k)
                                  \/ DownloadStep(d)
                                  \/ InspectionTimeout(d)
      PROVE  dl'[e].result = dl[e].result
  <2>1. CASE e # d
    BY <1>1, <1>2, <2>1 DEF DownloadStep, ProcessRequest, HandleRequestInspection,
       RunRequestInspection, RoundTrip, LocalDownload, HandleResponseInspection, SaveData,
       RunResponseInspection, HandleCompleteInspection, PipeAsset, InspectionTimeout, Goto, Reply
  <2>2. CASE e = d
    <3>1. CASE \/ \E k \in Sess : ProcessRequest(d, k)
               \/ HandleRequestInspection(d) \/ RunRequestInspection(d) \/ RoundTrip(d)
               \/ LocalDownload(d) \/ HandleResponseInspection(d)
               \/ RunResponseInspection(d) \/ HandleCompleteInspection(d)
      BY <2>2, <3>1 DEF After, ProcessRequest, HandleRequestInspection, RunRequestInspection,
         RoundTrip, LocalDownload, HandleResponseInspection, RunResponseInspection,
         HandleCompleteInspection
    <3>2. CASE PipeAsset(d)
      BY <1>1, <2>2, <3>2 DEF PipeAsset, Goto, Download
    <3>3. CASE InspectionTimeout(d)
      BY <1>1, <2>2, <3>3 DEF InspectionTimeout, Download
    <3>. QED
      BY <1>2, <3>1, <3>2, <3>3 DEF DownloadStep
  <2>. QED
    BY <2>1, <2>2
<1>3. CASE UNCHANGED dl
  BY <1>3
<1>. QED
  BY <1>2, <1>3 DEF Next, vars, HandleCreateSession, FetchCtlCreateSession, NewWithID,
     CheckAuth, HandleRevokeToken, HandleEndSession, TimerFires, TimerSends,
     HandleDeleteResources, DeleteSome, DeleteFiles, HandleExpiredSession

\* A step never replaces an artifact that a session has on record.
LEMMA ArtifactFrame ==
  ASSUME Inv, [Next]_vars, NEW k \in 1 .. created, NEW g \in Digests, HasArtifact(k, g)
  PROVE  S'[k].A[g] = S[k].A[g]
<1>1. S \in [1 .. created -> Session] /\ S[k] \in Session /\ created \in Nat
  BY DEF Inv, TypeOK
<1>2. CASE UNCHANGED S
  BY <1>2
<1>3. ASSUME NEW d \in Downloads, HandleResponseInspection(d)
      PROVE  S'[k].A[g] = S[k].A[g]
  <2>1. UNCHANGED S \/ S' = [S EXCEPT ![SessionOf(d)].log = @ \cup {d}]
    BY <1>3 DEF HandleResponseInspection
  <2>. QED
    BY <1>1, <2>1 DEF Session
<1>4. ASSUME NEW d \in Downloads, HandleCompleteInspection(d)
      PROVE  S'[k].A[g] = S[k].A[g]
  <2>. DEFINE j == SessionOf(d)
              h == dl[d].digest
  <2>1. CASE UNCHANGED S
    BY <2>1
  <2>2. CASE Record(j, d)
    <3>. DEFINE B == [S[j].A EXCEPT ![h] = IF HasArtifact(j, h) THEN @ ELSE d]
    <3>1. S'[k] = IF k = j THEN [S[k] EXCEPT !.A = B, !.log = @ \cup {d}] ELSE S[k]
      BY <1>1, <2>2 DEF Record
    <3>2. k = j => B[g] = S[k].A[g]
      BY <1>1 DEF Session
    <3>. HIDE DEF B
    <3>. QED
      BY <1>1, <3>1, <3>2 DEF Session
  <2>. QED
    BY <1>4, <2>1, <2>2 DEF HandleCompleteInspection
<1>5. ASSUME NEW i, NEW permissive, NewWithID(i, permissive)
      PROVE  S'[k].A[g] = S[k].A[g]
  BY <1>1, <1>5 DEF NewWithID
<1>6. ASSUME NEW j, NEW ok, FinishSession(j, ok)
      PROVE  S'[k].A[g] = S[k].A[g]
  BY <1>1, <1>6 DEF FinishSession, Session
<1>7. ASSUME NEW j \in Sess, HandleRevokeToken(j) \/ TimerFires(j) \/ TimerSends(j)
      PROVE  S'[k].A[g] = S[k].A[g]
  <2>1. \/ S' = [S EXCEPT ![j].revoked = TRUE]
        \/ \E t : S' = [S EXCEPT ![j].timer = t]
    BY <1>7 DEF HandleRevokeToken, TimerFires, TimerSends
  <2>. QED
    BY <1>1, <2>1 DEF Session
<1>8. ASSUME NEW d \in Downloads, DownloadStep(d)
      PROVE  S'[k].A[g] = S[k].A[g]
  BY <1>2, <1>3, <1>4, <1>8 DEF DownloadStep, HandleRequestInspection, RunRequestInspection,
     RoundTrip, LocalDownload, RunResponseInspection, PipeAsset
<1>9. CASE Next
  BY <1>2, <1>5, <1>6, <1>7, <1>8, <1>9 DEF Next, HandleCreateSession, FetchCtlCreateSession,
     CheckAuth, HandleEndSession, HandleDeleteResources, DeleteSome, DeleteFiles, HandleExpiredSession,
     ProcessRequest, InspectionTimeout
<1>. QED
  BY <1>2, <1>9 DEF vars

\* A verdict on record is never replaced and never changes.
THEOREM VerdictStableHolds == Spec => VerdictStable
<1>. DEFINE A == \A k \in 1 .. created, g \in Digests :
                   HasArtifact(k, g) =>
                     /\ S'[k].A[g] = S[k].A[g]
                     /\ dl'[S[k].A[g]].result = dl[S[k].A[g]].result
<1>1. ASSUME Inv, [Next]_vars PROVE A
  <2>1. SUFFICES ASSUME NEW k \in 1 .. created, NEW g \in Digests, HasArtifact(k, g)
                 PROVE  /\ S'[k].A[g] = S[k].A[g]
                        /\ dl'[S[k].A[g]].result = dl[S[k].A[g]].result
    OBVIOUS
  <2>2. S[k].A[g] \in Downloads /\ dl[S[k].A[g]].step \in After
    BY <1>1, <2>1 DEF Inv, ArtifactInv, LogInv, TypeOK, Session
  <2>. QED
    BY <1>1, <2>1, <2>2, ResultFrame, ArtifactFrame
<1>2. Inv /\ [Next]_vars => [A]_vars
  BY <1>1
<1>. QED
  BY <1>2, Invariance, PTL DEF Spec, VerdictStable
-----------------------------------------------------------------------------
(* Session IDs that are not used again                                     *)

\* Sessions keep their IDs.
LEMMA IdFrame ==
  ASSUME Inv, [Next]_vars, NEW k \in 1 .. created
  PROVE  S'[k].id = S[k].id
<1>. DEFINE Same == S'[k].id = S[k].id
<1>1. S \in [1 .. created -> Session] /\ S[k] \in Session /\ created \in Nat
  BY DEF Inv, TypeOK
<1>2. CASE UNCHANGED S
  BY <1>2
<1>3. ASSUME NEW d \in Downloads, HandleResponseInspection(d) PROVE Same
  <2>1. UNCHANGED S \/ S' = [S EXCEPT ![SessionOf(d)].log = @ \cup {d}]
    BY <1>3 DEF HandleResponseInspection
  <2>. QED
    BY <1>1, <2>1 DEF Session
<1>4. ASSUME NEW d \in Downloads, HandleCompleteInspection(d) PROVE Same
  <2>. DEFINE j == SessionOf(d)
  <2>1. CASE UNCHANGED S
    BY <2>1
  <2>2. CASE Record(j, d)
    <3>. DEFINE B == [S[j].A EXCEPT ![dl[d].digest] = IF HasArtifact(j, dl[d].digest) THEN @ ELSE d]
    <3>1. S'[k] = IF k = j THEN [S[k] EXCEPT !.A = B, !.log = @ \cup {d}] ELSE S[k]
      BY <1>1, <2>2 DEF Record
    <3>. HIDE DEF B
    <3>. QED
      BY <1>1, <3>1 DEF Session
  <2>. QED
    BY <1>4, <2>1, <2>2 DEF HandleCompleteInspection
<1>5. ASSUME NEW i, NEW permissive, NewWithID(i, permissive) PROVE Same
  BY <1>1, <1>5 DEF NewWithID
<1>6. ASSUME NEW j, NEW ok, FinishSession(j, ok) PROVE Same
  BY <1>1, <1>6 DEF FinishSession, Session
<1>7. ASSUME NEW j \in Sess, HandleRevokeToken(j) \/ TimerFires(j) \/ TimerSends(j) PROVE Same
  <2>1. \/ S' = [S EXCEPT ![j].revoked = TRUE]
        \/ \E t : S' = [S EXCEPT ![j].timer = t]
    BY <1>7 DEF HandleRevokeToken, TimerFires, TimerSends
  <2>. QED
    BY <1>1, <2>1 DEF Session
<1>8. ASSUME NEW d \in Downloads, DownloadStep(d) PROVE Same
  BY <1>2, <1>3, <1>4, <1>8 DEF DownloadStep, HandleRequestInspection, RunRequestInspection,
     RoundTrip, LocalDownload, RunResponseInspection, PipeAsset
<1>9. CASE Next
  BY <1>2, <1>5, <1>6, <1>7, <1>8, <1>9 DEF Next, HandleCreateSession, FetchCtlCreateSession,
     CheckAuth, HandleEndSession, HandleDeleteResources, DeleteSome, DeleteFiles, HandleExpiredSession,
     ProcessRequest, InspectionTimeout
<1>. QED
  BY <1>2, <1>9 DEF vars

\* No two sessions have the same ID.
UniqueIds == \A j, k \in 1 .. created : S[j].id = S[k].id => j = k

LEMMA CreateFacts ==
  ASSUME Inv, NEW i \in Ids, NEW permissive, NewWithID(i, permissive)
  PROVE  /\ created \in Nat /\ created' = created + 1
         /\ 1 .. created' = 1 .. created \cup {created'} /\ created' \notin 1 .. created
         /\ S'[created'].id = i /\ \A g \in Digests : S'[created'].A[g] = NoDownload
         /\ \A k \in 1 .. created : S'[k] = S[k]
         /\ sessions'[i] = created' /\ \A h \in Ids : h # i => sessions'[h] = sessions[h]
         /\ UNCHANGED <<dl, spool, deleting, removed>>
<1>1. created \in Nat /\ sessions \in [Ids -> Sess \cup {0}]
  BY DEF Inv, TypeOK
<1>2. PICK n : n = created + 1
  OBVIOUS
<1>3. n \notin 1 .. created /\ 1 .. n = 1 .. created \cup {n}
  BY <1>1, <1>2
<1>4. /\ created' = n /\ sessions' = [sessions EXCEPT ![i] = n]
      /\ UNCHANGED <<dl, spool, deleting, removed>>
      /\ S' = [k \in 1 .. n |-> IF k = n THEN NewSession(i, permissive) ELSE S[k]]
  BY <1>2 DEF NewWithID
<1>5. S'[n] = NewSession(i, permissive) /\ \A k \in 1 .. created : S'[k] = S[k]
  BY <1>3, <1>4
<1>6. S'[n].id = i /\ \A g \in Digests : S'[n].A[g] = NoDownload
  BY <1>5 DEF NewSession
<1>. QED
  BY <1>1, <1>2, <1>3, <1>4, <1>5, <1>6

LEMMA UniqueStep ==
  ASSUME Inv, [Next]_vars, UniqueIds, FetchctlIds = {}
  PROVE  UniqueIds'
<1>1. \A k \in 1 .. created : S'[k].id = S[k].id
  BY IdFrame
<1>2. ASSUME NEW permissive \in BOOLEAN, HandleCreateSession(permissive) PROVE UniqueIds'
  <2>1. PICK i \in Ids : i \notin UsedIds /\ NewWithID(i, permissive)
    BY <1>2 DEF HandleCreateSession, MakeSessionID
  <2>2. \A k \in 1 .. created : S[k].id # i
    BY <2>1 DEF UsedIds
  <2>. QED
    BY <1>1, <2>1, <2>2, CreateFacts DEF UniqueIds
<1>3. CASE \A permissive \in BOOLEAN : ~HandleCreateSession(permissive)
  <2>1. created' = created
    BY <1>3 DEF Next, vars, CheckAuth,
       HandleRevokeToken, HandleEndSession, TimerFires, TimerSends, HandleDeleteResources, DeleteSome,
       DeleteFiles, HandleExpiredSession, ProcessRequest, DownloadStep, HandleRequestInspection,
       RunRequestInspection, RoundTrip, LocalDownload, HandleResponseInspection,
       RunResponseInspection, HandleCompleteInspection, PipeAsset, InspectionTimeout
  <2>. QED
    BY <1>1, <2>1 DEF UniqueIds
<1>. QED
  BY <1>2, <1>3

\* As long as fetchctl asks for no ID of its own: a session records the
\* downloads of its own clients only.
THEOREM RecordedInOwnSessionHolds == Spec => [](FetchctlIds = {} => RecordedInOwnSession)
<1>. DEFINE Unique == FetchctlIds = {} => UniqueIds
<1>1. Init => Unique
  BY DEF Init, UniqueIds
<1>2. Inv /\ Unique /\ [Next]_vars => Unique'
  BY UniqueStep
<1>3. Inv /\ Unique => (FetchctlIds = {} => RecordedInOwnSession)
  <2>. SUFFICES ASSUME Inv, UniqueIds, NEW k \in 1 .. created, NEW d \in S[k].log
                PROVE  dl[d].conn = k
    BY DEF RecordedInOwnSession
  <2>1. d \in Downloads
    BY DEF Inv, TypeOK, Session
  <2>2. dl[d].step \in After /\ S[dl[d].conn].id = S[k].id
    BY DEF Inv, LogInv
  <2>3. dl[d].conn \in 1 .. created
    BY <2>1, <2>2 DEF Inv, TypeOK, DownloadInv, RefInv, After
  <2>. QED
    BY <2>2, <2>3 DEF UniqueIds
<1>. QED
  BY <1>1, <1>2, <1>3, Invariance, PTL DEF Spec
-----------------------------------------------------------------------------
(* The files of a session                                                  *)

\* The spool has the data of a digest, in a directory to put metadata beside it.
Kept(i, g) == i \in spool.assets /\ <<i, g>> \in spool.data

\* The files of an ID that RemoveResources was never called for: the data of
\* what a session recorded and of what is being inspected, and the report of
\* every session that is over.
DataInv(k) == S[k].id \notin removed => \A g \in Recorded(k) : Kept(S[k].id, g)

ReportInv(k) ==
  S[k].id \notin removed /\ ~Active(k) =>
    /\ S[k].id \in spool.json
    /\ \A g \in Recorded(k) : <<S[k].id, g>> \in spool.meta

InspectedInv(d) ==
  dl[d].step \in {"inspect", "complete"} /\ S[dl[d].conn].id \notin removed =>
    Kept(S[dl[d].conn].id, dl[d].digest)

FilesInv ==
  /\ deleting \subseteq removed
  /\ \A k \in 1 .. created : DataInv(k) /\ ReportInv(k)
  /\ \A d \in Downloads : InspectedInv(d)

\* What was not to be removed stays.
Grows ==
  \A h \in Ids : h \notin removed' =>
    /\ h \in spool.json => h \in spool'.json
    /\ h \in spool.assets => h \in spool'.assets
    /\ \A g \in Digests : /\ <<h, g>> \in spool.data => <<h, g>> \in spool'.data
                          /\ <<h, g>> \in spool.meta => <<h, g>> \in spool'.meta

\* A step keeps FilesInv if it removes only what may be removed, records only
\* what is in the spool, and ends a session only with a complete report.
LEMMA FilesFrame ==
  ASSUME Inv, Inv', FilesInv, Grows, created' = created,
         removed \subseteq removed', deleting' \subseteq removed',
         \A k \in 1 .. created : S'[k].id = S[k].id,
         \A k \in 1 .. created, g \in Digests :
           S'[k].A[g] # NoDownload =>
             HasArtifact(k, g) \/ (Active(k)' /\ (S[k].id \notin removed => Kept(S[k].id, g))),
         \A k \in 1 .. created :
           Active(k) /\ ~Active(k)' /\ S[k].id \notin removed' =>
             S[k].id \in spool'.json /\ \A g \in Recorded(k) : <<S[k].id, g>> \in spool'.meta,
         \A d \in Downloads : dl'[d].step \in {"inspect", "complete"} =>
           /\ dl'[d].conn = dl[d].conn /\ dl'[d].digest = dl[d].digest
           /\ \/ dl[d].step \in {"inspect", "complete"}
              \/ /\ S[dl[d].conn].id \in spool'.assets
                 /\ <<S[dl[d].conn].id, dl[d].digest>> \in spool'.data
  PROVE  FilesInv'
<1>1. \A k \in 1 .. created : S[k].id \in Ids
  BY DEF Inv, TypeOK, Session
<1>2. \A h \in Ids, g \in Digests : h \notin removed' /\ Kept(h, g) =>
        h \in spool'.assets /\ <<h, g>> \in spool'.data
  BY DEF Kept, Grows
<1>3. ASSUME NEW k \in 1 .. created PROVE DataInv(k)'
  <2>. SUFFICES ASSUME S[k].id \notin removed', NEW g \in Digests, S'[k].A[g] # NoDownload
                PROVE  S[k].id \in spool'.assets /\ <<S[k].id, g>> \in spool'.data
    BY DEF DataInv, Recorded, HasArtifact, Kept
  <2>1. Kept(S[k].id, g)
    BY DEF FilesInv, DataInv, Recorded
  <2>. QED
    BY <1>1, <1>2, <2>1
<1>4. ASSUME NEW k \in 1 .. created PROVE ReportInv(k)'
  <2>. SUFFICES ASSUME S[k].id \notin removed', ~Active(k)'
                PROVE  /\ S[k].id \in spool'.json
                       /\ \A g \in Digests : S'[k].A[g] # NoDownload => <<S[k].id, g>> \in spool'.meta
    BY DEF ReportInv, Recorded, HasArtifact
  <2>1. \A g \in Digests : S'[k].A[g] # NoDownload => g \in Recorded(k)
    BY DEF Recorded
  <2>2. CASE Active(k)
    BY <2>1, <2>2
  <2>3. CASE ~Active(k)
    <3>1. S[k].id \in spool.json /\ \A g \in Recorded(k) : <<S[k].id, g>> \in spool.meta
      BY <2>3 DEF FilesInv, ReportInv
    <3>. QED
      BY <1>1, <2>1, <3>1 DEF Grows
  <2>. QED
    BY <2>2, <2>3
<1>5. ASSUME NEW d \in Downloads PROVE InspectedInv(d)'
  <2>. SUFFICES ASSUME dl'[d].step \in {"inspect", "complete"}, S'[dl'[d].conn].id \notin removed'
                PROVE  Kept(S[dl[d].conn].id, dl[d].digest)'
    BY DEF InspectedInv
  <2>1. dl'[d].conn = dl[d].conn /\ dl'[d].digest = dl[d].digest
    OBVIOUS
  <2>2. dl[d].conn \in 1 .. created /\ dl[d].digest \in Digests
    BY <2>1 DEF Inv, TypeOK, DownloadInv, RefInv
  <2>3. S'[dl'[d].conn].id = S[dl[d].conn].id
    BY <2>1, <2>2
  <2>4. CASE dl[d].step \in {"inspect", "complete"}
    <3>1. Kept(S[dl[d].conn].id, dl[d].digest)
      BY <2>3, <2>4 DEF FilesInv, InspectedInv
    <3>. QED
      BY <1>1, <1>2, <2>1, <2>2, <2>3, <3>1 DEF Kept
  <2>5. CASE dl[d].step \notin {"inspect", "complete"}
    BY <2>1, <2>3, <2>5 DEF Kept
  <2>. QED
    BY <2>4, <2>5
<1>. QED
  BY <1>3, <1>4, <1>5 DEF FilesInv

\* What the steps of one download do to the other downloads and to the files
\* of sessions; the content of a download that is inspected is in the spool.
LEMMA FileDownloadFacts ==
  ASSUME Inv, NEW d \in Downloads,
         (\E k \in Sess : ProcessRequest(d, k)) \/ DownloadStep(d) \/ InspectionTimeout(d)
  PROVE  /\ \A e \in Downloads : e # d => dl'[e] = dl[e]
         /\ dl'[d].step \in {"inspect", "complete"} =>
              /\ dl'[d].conn = dl[d].conn /\ dl'[d].digest = dl[d].digest
              /\ \/ dl[d].step \in {"inspect", "complete"}
                 \/ /\ S[dl[d].conn].id \in spool'.assets
                    /\ <<S[dl[d].conn].id, dl[d].digest>> \in spool'.data
         /\ spool.json \subseteq spool'.json /\ spool.assets \subseteq spool'.assets
         /\ spool.data \subseteq spool'.data /\ spool.meta \subseteq spool'.meta
<1>. DEFINE Same == spool.json \subseteq spool'.json /\ spool.assets \subseteq spool'.assets
                    /\ spool.data \subseteq spool'.data /\ spool.meta \subseteq spool'.meta
            Others == \A e \in Downloads : e # d => dl'[e] = dl[e]
            Inspected == dl'[d].step \in {"inspect", "complete"} =>
              /\ dl'[d].conn = dl[d].conn /\ dl'[d].digest = dl[d].digest
              /\ \/ dl[d].step \in {"inspect", "complete"}
                 \/ /\ S[dl[d].conn].id \in spool'.assets
                    /\ <<S[dl[d].conn].id, dl[d].digest>> \in spool'.data
            Goal == Others /\ Inspected /\ Same
<1>1. dl \in [Downloads -> Download] /\ dl[d] \in Download /\ spool \in Spool /\ faults \in Nat
  BY DEF Inv, TypeOK
<1>2. ASSUME NEW k \in Sess, ProcessRequest(d, k) PROVE Goal
  BY <1>1, <1>2 DEF ProcessRequest, Download
<1>3. ASSUME HandleRequestInspection(d) PROVE Goal
  BY <1>1, <1>3 DEF HandleRequestInspection, Download
<1>4. ASSUME RunRequestInspection(d) PROVE Goal
  BY <1>1, <1>4 DEF RunRequestInspection, Download
<1>5. ASSUME RoundTrip(d) PROVE Goal
  <2>1. UNCHANGED spool \/ spool' = [spool EXCEPT !.temp = @ \cup {d}]
    BY <1>5 DEF RoundTrip
  <2>2. Same
    BY <1>1, <2>1 DEF Spool
  <2>3. PICK step \in {"refused", "passed", "download"} : dl' = [dl EXCEPT ![d].step = step]
    BY <1>5 DEF RoundTrip, Goto
  <2>4. Others /\ Inspected
    BY <1>1, <2>3 DEF Download
  <2>. QED
    BY <1>5, <2>2, <2>4 DEF RoundTrip
<1>6. ASSUME LocalDownload(d) PROVE Goal
  <2>1. UNCHANGED spool \/ spool' = [spool EXCEPT !.temp = @ \ {d}]
    BY <1>6 DEF LocalDownload
  <2>2. Same
    BY <1>1, <2>1 DEF Spool
  <2>3. \/ \E g \in Digests : dl' = [dl EXCEPT ![d].step = "response", ![d].digest = g]
        \/ dl' = [dl EXCEPT ![d].step = "refused"]
    BY <1>6 DEF LocalDownload, Goto
  <2>4. Others /\ Inspected
    BY <1>1, <2>3 DEF Download
  <2>. QED
    BY <1>6, <2>2, <2>4 DEF LocalDownload
<1>7. ASSUME HandleResponseInspection(d) PROVE Goal
  <2>. DEFINE i == S[dl[d].conn].id
              sp == [spool EXCEPT !.temp = @ \ {d}]
              dir == [sp EXCEPT !.assets = @ \cup {i}]
              full == [dir EXCEPT !.data = @ \cup {<<i, dl[d].digest>>}]
  <2>1. /\ sp.json = spool.json /\ sp.assets = spool.assets /\ sp.data = spool.data
        /\ sp.meta = spool.meta /\ DOMAIN sp = DOMAIN spool
    BY <1>1 DEF Spool
  <2>2. DOMAIN spool = {"assets", "data", "meta", "json", "cache", "temp"}
    BY <1>1 DEF Spool
  <2>. HIDE DEF sp
  <2>3. /\ dir.json = spool.json /\ dir.assets = spool.assets \cup {i}
        /\ dir.data = spool.data /\ dir.meta = spool.meta /\ DOMAIN dir = DOMAIN spool
    BY <2>1, <2>2
  <2>. HIDE DEF dir
  <2>4. /\ full.json = spool.json /\ full.assets = spool.assets \cup {i}
        /\ full.data = spool.data \cup {<<i, dl[d].digest>>} /\ full.meta = spool.meta
    BY <2>2, <2>3
  <2>. HIDE DEF full
  <2>5. CASE SaveData(d)
    <3>1. CASE /\ spool' = full /\ UNCHANGED faults
               /\ dl' = [dl EXCEPT ![d].step = "inspect", ![d].by = SessionOf(d)]
      BY <1>1, <2>4, <3>1 DEF Download
    <3>2. CASE /\ faults' = faults + 1 /\ spool' \in {sp, dir}
               /\ dl' = [dl EXCEPT ![d].step = "replied", ![d].verdict = "error",
                                   ![d].by = SessionOf(d)]
      <4>1. Same
        BY <2>1, <2>3, <3>2
      <4>2. Others /\ Inspected
        BY <1>1, <3>2 DEF Download
      <4>. QED
        BY <4>1, <4>2
    <3>. QED
      BY <2>5, <3>1, <3>2 DEF SaveData, sp, dir, full
  <2>6. CASE ~SaveData(d)
    <3>1. spool' = sp /\ UNCHANGED faults
      BY <1>7, <2>6 DEF HandleResponseInspection, sp
    <3>2. Same
      BY <2>1, <3>1
    <3>3. \/ dl' = [dl EXCEPT ![d].step = "replied", ![d].verdict = "error"]
          \/ \E v : dl' = [dl EXCEPT ![d].step = "replied", ![d].by = SessionOf(d),
                                      ![d].verdict = v]
      BY <1>7, <2>6 DEF HandleResponseInspection, Reply
    <3>4. Others /\ Inspected
      BY <1>1, <3>3 DEF Download
    <3>. QED
      BY <3>1, <3>2, <3>4
  <2>. QED
    BY <2>5, <2>6
<1>8. ASSUME RunResponseInspection(d) PROVE Goal
  <2>1. UNCHANGED spool \/ \E i : spool' = [spool EXCEPT !.cache = @ \cup {i}]
    BY <1>8 DEF RunResponseInspection
  <2>2. Same
    BY <1>1, <2>1 DEF Spool
  <2>3. /\ dl[d].step = "inspect" /\ UNCHANGED faults
        /\ \E o : dl' = [dl EXCEPT ![d].step = "complete", ![d].result = o.result,
                                   ![d].verdict = o.verdict]
    BY <1>8 DEF RunResponseInspection
  <2>4. Others /\ Inspected
    BY <1>1, <2>3 DEF Download
  <2>. QED
    BY <2>2, <2>3, <2>4
<1>9. ASSUME HandleCompleteInspection(d) PROVE Goal
  <2>1. \/ dl' = [dl EXCEPT ![d].step = "replied", ![d].verdict = "error"]
        \/ dl' = [dl EXCEPT ![d].step = "replied"]
    BY <1>9 DEF HandleCompleteInspection, Reply, Goto
  <2>2. Others /\ Inspected
    BY <1>1, <2>1 DEF Download
  <2>. QED
    BY <1>9, <2>2 DEF HandleCompleteInspection
<1>10. ASSUME PipeAsset(d) PROVE Goal
  <2>1. PICK step \in {"delivered", "refused"} : dl' = [dl EXCEPT ![d].step = step]
    BY <1>10 DEF PipeAsset, Goto
  <2>2. Others /\ Inspected
    BY <1>1, <2>1 DEF Download
  <2>. QED
    BY <1>10, <2>2 DEF PipeAsset
<1>11. ASSUME InspectionTimeout(d) PROVE Goal
  BY <1>1, <1>11 DEF InspectionTimeout, Download
<1>. QED
  BY <1>2, <1>3, <1>4, <1>5, <1>6, <1>7, <1>8, <1>9, <1>10, <1>11 DEF DownloadStep

\* A download records what is in the spool, in the session that is active.
LEMMA RecordsKept ==
  ASSUME Inv, FilesInv, NEW d \in Downloads,
         (\E k \in Sess : ProcessRequest(d, k)) \/ DownloadStep(d) \/ InspectionTimeout(d)
  PROVE  \A k \in 1 .. created, g \in Digests :
           S'[k].A[g] # NoDownload =>
             HasArtifact(k, g) \/ (Active(k) /\ (S[k].id \notin removed => Kept(S[k].id, g)))
<1>. SUFFICES ASSUME NEW k \in 1 .. created, NEW g \in Digests, S'[k].A[g] # NoDownload,
                     ~HasArtifact(k, g)
              PROVE  Active(k) /\ (S[k].id \notin removed => Kept(S[k].id, g))
  OBVIOUS
<1>1. S \in [1 .. created -> Session] /\ S[k] \in Session
  BY DEF Inv, TypeOK
<1>2. S'[k].A # S[k].A
  BY DEF HasArtifact
<1>3. ~UNCHANGED S
  BY <1>2
<1>4. ~HandleResponseInspection(d)
  <2>. SUFFICES ASSUME HandleResponseInspection(d) PROVE FALSE
    OBVIOUS
  <2>1. S' = [S EXCEPT ![SessionOf(d)].log = @ \cup {d}]
    BY <1>3 DEF HandleResponseInspection
  <2>. QED
    BY <1>1, <1>2, <2>1 DEF Session
<1>5. HandleCompleteInspection(d)
  BY <1>3, <1>4 DEF DownloadStep, ProcessRequest, InspectionTimeout, HandleRequestInspection,
     RunRequestInspection, RoundTrip, LocalDownload, RunResponseInspection, PipeAsset
<1>. DEFINE j == SessionOf(d)
            B == [S[j].A EXCEPT ![dl[d].digest] = IF HasArtifact(j, dl[d].digest) THEN @ ELSE d]
<1>6. dl[d].step = "complete" /\ j # 0 /\ Record(j, d)
  BY <1>3, <1>5 DEF HandleCompleteInspection
<1>7. S'[k] = IF k = j THEN [S[k] EXCEPT !.A = B, !.log = @ \cup {d}] ELSE S[k]
  BY <1>1, <1>6 DEF Record
<1>8. k = j
  BY <1>2, <1>7
<1>9. g = dl[d].digest
  <2>1. S'[k].A = B
    <3>. HIDE DEF B
    <3>. QED
      BY <1>1, <1>7, <1>8 DEF Session
  <2>2. S[k].A \in [Digests -> Downloads \cup {NoDownload}]
    BY <1>1 DEF Session
  <2>. QED
    BY <1>8, <2>1, <2>2 DEF HasArtifact
<1>10. S[k].id = S[dl[d].conn].id
  BY <1>6, <1>8, SessionOfDownload
<1>11. Active(k)
  BY <1>8, <1>10 DEF Active, SessionOf
<1>12. S[dl[d].conn].id \notin removed => Kept(S[dl[d].conn].id, dl[d].digest)
  BY <1>6 DEF FilesInv, InspectedInv
<1>. QED
  BY <1>9, <1>10, <1>11, <1>12

\* The steps of a download keep FilesInv.
LEMMA FilesDownloadStep ==
  ASSUME Inv, Inv', [Next]_vars, FilesInv, NEW d \in Downloads,
         (\E k \in Sess : ProcessRequest(d, k)) \/ DownloadStep(d) \/ InspectionTimeout(d)
  PROVE  FilesInv'
<1>1. UNCHANGED <<sessions, created, deleting, removed>>
  BY DEF ProcessRequest, InspectionTimeout, DownloadStep, HandleRequestInspection,
     RunRequestInspection, RoundTrip, LocalDownload, HandleResponseInspection,
     RunResponseInspection, HandleCompleteInspection, PipeAsset
<1>2. \A k \in 1 .. created : S'[k].id = S[k].id
  BY IdFrame
<1>3. \A k \in 1 .. created : Active(k)' <=> Active(k)
  BY <1>1, <1>2 DEF Active, GetSession
<1>4. \A k \in 1 .. created, g \in Digests :
        S'[k].A[g] # NoDownload =>
          HasArtifact(k, g) \/ (Active(k) /\ (S[k].id \notin removed => Kept(S[k].id, g)))
  BY RecordsKept
<1>5. Grows
  BY FileDownloadFacts DEF Grows
<1>6. \A e \in Downloads : dl'[e].step \in {"inspect", "complete"} =>
        /\ dl'[e].conn = dl[e].conn /\ dl'[e].digest = dl[e].digest
        /\ \/ dl[e].step \in {"inspect", "complete"}
           \/ /\ S[dl[e].conn].id \in spool'.assets
              /\ <<S[dl[e].conn].id, dl[e].digest>> \in spool'.data
  <2>. SUFFICES ASSUME NEW e \in Downloads, dl'[e].step \in {"inspect", "complete"}
                PROVE  /\ dl'[e].conn = dl[e].conn /\ dl'[e].digest = dl[e].digest
                       /\ \/ dl[e].step \in {"inspect", "complete"}
                          \/ /\ S[dl[e].conn].id \in spool'.assets
                             /\ <<S[dl[e].conn].id, dl[e].digest>> \in spool'.data
    OBVIOUS
  <2>1. CASE e = d
    BY <2>1, FileDownloadFacts
  <2>2. CASE e # d
    <3>1. dl'[e] = dl[e]
      BY <2>2, FileDownloadFacts
    <3>. QED
      BY <3>1
  <2>. QED
    BY <2>1, <2>2
<1>7. deleting' \subseteq removed'
  BY <1>1 DEF FilesInv
<1>. QED
  BY <1>1, <1>2, <1>3, <1>4, <1>5, <1>6, <1>7, FilesFrame

\* What Finish leaves in the spool: it adds metadata under the session's ID only,
\* all of it, and session.json, when it succeeds.
LEMMA FinishFiles ==
  ASSUME Inv, NEW k \in 1 .. created, NEW out \in FinishOutcomes(k)
  PROVE  /\ out.sp \in Spool
         /\ out.sp.assets = spool.assets /\ out.sp.data = spool.data
         /\ spool.meta \subseteq out.sp.meta /\ spool.json \subseteq out.sp.json
         /\ out.ok \in BOOLEAN
         /\ out.ok => /\ S[k].id \in out.sp.json
                      /\ \A g \in Recorded(k) : <<S[k].id, g>> \in out.sp.meta
<1>. DEFINE i == S[k].id
            all == SaveMetadata(spool, i, Recorded(k))
            done == SaveSessionMetadata(all, i)
            Adds(sp) == /\ sp.assets = spool.assets /\ sp.data = spool.data
                        /\ spool.meta \subseteq sp.meta /\ spool.json \subseteq sp.json
            Full(sp) == \A g \in Recorded(k) : <<i, g>> \in sp.meta
<1>1. spool \in Spool /\ i \in Ids
  BY DEF Inv, TypeOK, Session
<1>2. Recorded(k) \in SUBSET Digests
  BY DEF Recorded
<1>3. out.sp \in Spool /\ out.ok \in BOOLEAN
  BY FinishTypes
<1>4. \A G : Adds(SaveMetadata(spool, i, G))
  BY <1>1 DEF SaveMetadata, Spool
<1>5. all \in Spool /\ Adds(all) /\ Full(all)
  <2>1. all \in Spool
    BY <1>1, <1>2, SpoolTypes
  <2>2. Full(all)
    BY <1>1 DEF SaveMetadata, Spool
  <2>. QED
    BY <1>4, <2>1, <2>2
<1>. HIDE DEF all
<1>6. done \in Spool /\ Adds(done) /\ Full(done) /\ i \in done.json
  <2>1. done \in Spool
    BY <1>1, <1>2, <1>5, SpoolTypes
  <2>2. done.assets = all.assets /\ done.data = all.data /\ done.meta = all.meta
        /\ done.json = all.json \cup {i}
    BY <1>5 DEF SaveSessionMetadata, Spool
  <2>. QED
    BY <1>5, <2>1, <2>2
<1>. HIDE DEF done
<1>7. Adds(RemoveCache(done, i)) /\ Full(RemoveCache(done, i)) /\ i \in RemoveCache(done, i).json
  <2>. DEFINE r == RemoveCache(done, i)
  <2>1. r.assets = done.assets /\ r.data = done.data /\ r.meta = done.meta /\ r.json = done.json
    BY <1>6 DEF RemoveCache, Spool
  <2>. HIDE DEF r
  <2>2. Adds(r) /\ Full(r) /\ i \in r.json
    BY <1>6, <2>1
  <2>. QED
    BY <2>2 DEF r
<1>8. \/ out = [ok |-> TRUE, sp |-> RemoveCache(done, i), faults |-> faults]
      \/ out = [ok |-> FALSE, sp |-> spool, faults |-> faults]
      \/ \E sp : /\ sp \in {all, done} \/ \E G : sp = SaveMetadata(spool, i, G)
                 /\ out = [ok |-> FALSE, sp |-> sp, faults |-> faults + 1]
  BY DEF FinishOutcomes, done, all
<1>. HIDE DEF Adds, Full
<1>9. Adds(out.sp) /\ (out.ok => Full(out.sp) /\ i \in out.sp.json)
  <2>1. CASE out = [ok |-> TRUE, sp |-> RemoveCache(done, i), faults |-> faults]
    BY <1>7, <2>1
  <2>2. CASE out = [ok |-> FALSE, sp |-> spool, faults |-> faults]
    <3>1. Adds(spool)
      BY DEF Adds
    <3>. QED
      BY <2>2, <3>1
  <2>3. ASSUME NEW sp, sp \in {all, done} \/ \E G : sp = SaveMetadata(spool, i, G),
               out = [ok |-> FALSE, sp |-> sp, faults |-> faults + 1]
        PROVE  Adds(out.sp) /\ ~out.ok
    <3>1. Adds(sp)
      BY <1>4, <1>5, <1>6, <2>3
    <3>. QED
      BY <2>3, <3>1
  <2>. QED
    BY <1>8, <2>1, <2>2, <2>3
<1>. QED
  BY <1>3, <1>9 DEF Adds, Full

\* What Finish does to the session map and to the sessions.
LEMMA FinishMap ==
  ASSUME Inv, NEW k \in 1 .. created, NEW ok \in BOOLEAN, FinishSession(k, ok)
  PROVE  /\ \A j \in 1 .. created : S'[j].id = S[j].id /\ S'[j].A = S[j].A
         /\ \A h \in Ids : h # S[k].id => sessions'[h] = sessions[h]
         /\ sessions'[S[k].id] = IF ok THEN 0 ELSE sessions[S[k].id]
<1>1. S \in [1 .. created -> Session] /\ S[k].id \in Ids /\ sessions \in [Ids -> Sess \cup {0}]
  BY DEF Inv, TypeOK, Session
<1>2. PICK t : S' = [S EXCEPT ![k].timer = t]
  BY <1>1 DEF FinishSession
<1>3. \A j \in 1 .. created : S'[j].id = S[j].id /\ S'[j].A = S[j].A
  BY <1>1, <1>2 DEF Session
<1>4. sessions' = [sessions EXCEPT ![S[k].id] = IF ok THEN 0 ELSE @]
  BY DEF FinishSession
<1>5. /\ \A h \in Ids : h # S[k].id => sessions'[h] = sessions[h]
      /\ sessions'[S[k].id] = IF ok THEN 0 ELSE sessions[S[k].id]
  BY <1>1, <1>4
<1>. QED
  BY <1>3, <1>5

\* A step that leaves the downloads and what sessions recorded alone.
LEMMA FilesQuiet ==
  ASSUME Inv, Inv', FilesInv, Grows, UNCHANGED <<created, dl>>,
         removed \subseteq removed', deleting' \subseteq removed',
         \A k \in 1 .. created : S'[k].id = S[k].id /\ S'[k].A = S[k].A,
         \A k \in 1 .. created :
           Active(k) /\ ~Active(k)' /\ S[k].id \notin removed' =>
             S[k].id \in spool'.json /\ \A g \in Recorded(k) : <<S[k].id, g>> \in spool'.meta
  PROVE  FilesInv'
<1>1. \A k \in 1 .. created, g \in Digests : S'[k].A[g] # NoDownload => HasArtifact(k, g)
  BY DEF HasArtifact
<1>. QED
  BY <1>1, FilesFrame

LEMMA FilesEndSession ==
  ASSUME Inv, Inv', FilesInv, NEW k \in Sess, HandleEndSession(k)
  PROVE  FilesInv'
<1>1. k \in 1 .. created /\ UNCHANGED <<created, dl, deleting, removed>>
  BY DEF HandleEndSession, Active
<1>2. PICK out \in FinishOutcomes(k) :
        FinishSession(k, out.ok) /\ spool' = out.sp /\ faults' = out.faults
  BY DEF HandleEndSession
<1>3. /\ spool'.assets = spool.assets /\ spool'.data = spool.data
      /\ spool.meta \subseteq spool'.meta /\ spool.json \subseteq spool'.json
      /\ out.ok \in BOOLEAN
      /\ out.ok => /\ S[k].id \in spool'.json
                   /\ \A g \in Recorded(k) : <<S[k].id, g>> \in spool'.meta
  BY <1>1, <1>2, FinishFiles
<1>4. /\ \A j \in 1 .. created : S'[j].id = S[j].id /\ S'[j].A = S[j].A
      /\ \A h \in Ids : h # S[k].id => sessions'[h] = sessions[h]
      /\ sessions'[S[k].id] = IF out.ok THEN 0 ELSE sessions[S[k].id]
  BY <1>1, <1>2, <1>3, FinishMap
<1>5. Grows /\ deleting' \subseteq removed'
  BY <1>1, <1>3 DEF Grows, FilesInv
<1>6. ASSUME NEW j \in 1 .. created, Active(j), ~Active(j)'
      PROVE  S[j].id \in spool'.json /\ \A g \in Recorded(j) : <<S[j].id, g>> \in spool'.meta
  <2>1. S[j].id \in Ids
    BY DEF Inv, TypeOK, Session
  <2>2. sessions[S[j].id] = j /\ sessions'[S[j].id] # j
    BY <1>1, <1>4, <1>6 DEF Active, GetSession
  <2>3. S[j].id = S[k].id /\ out.ok
    BY <1>4, <2>1, <2>2
  <2>4. sessions[S[k].id] = k
    BY DEF HandleEndSession, Active, GetSession
  <2>. QED
    BY <1>3, <2>2, <2>3, <2>4
<1>. QED
  BY <1>1, <1>4, <1>5, <1>6, FilesQuiet

LEMMA FilesExpiredSession ==
  ASSUME Inv, Inv', FilesInv, HandleExpiredSession
  PROVE  FilesInv'
<1>. DEFINE k == GetSession(expired)
<1>1. expired \in Ids /\ UNCHANGED <<created, dl, deleting>> /\ faults \in 0 .. MaxFaults
  BY DEF HandleExpiredSession, Inv, TypeOK
<1>2. CASE UNCHANGED <<sessions, S, spool, removed, faults>>
  <2>1. Grows /\ deleting' \subseteq removed' /\ \A j \in 1 .. created : Active(j) => Active(j)'
    BY <1>1, <1>2 DEF Grows, Active, GetSession, FilesInv
  <2>. QED
    BY <1>1, <1>2, <2>1, FilesQuiet
<1>3. ASSUME k # 0, NEW out \in FinishOutcomes(k), FinishSession(k, out.ok),
             NEW rest \in RemoveOutcomes(out.sp, expired, out.faults),
             removed' = removed \cup {expired}, spool' = rest.sp
      PROVE  FilesInv'
  <2>1. k \in 1 .. created /\ S[k].id = expired
    BY <1>1, <1>3 DEF GetSession, Inv, MapInv
  <2>. HIDE DEF k
  <2>2. /\ out.sp \in Spool
        /\ out.sp.assets = spool.assets /\ out.sp.data = spool.data
        /\ spool.meta \subseteq out.sp.meta /\ spool.json \subseteq out.sp.json
        /\ out.ok \in BOOLEAN
    BY <1>3, <2>1, FinishFiles
  <2>3. out.faults \in 0 .. MaxFaults
    BY <1>3, <2>1, FinishTypes
  <2>4. Beside(expired, out.sp, rest.sp)
    BY <1>1, <1>3, <2>2, <2>3, RemoveTypes
  <2>5. Grows
    BY <1>1, <1>3, <2>2, <2>4 DEF Grows, Beside
  <2>6. /\ \A j \in 1 .. created : S'[j].id = S[j].id /\ S'[j].A = S[j].A
        /\ \A h \in Ids : h # expired => sessions'[h] = sessions[h]
    BY <1>3, <2>1, <2>2, FinishMap
  <2>7. ASSUME NEW j \in 1 .. created, Active(j), S[j].id \notin removed' PROVE Active(j)'
    <3>1. S[j].id \in Ids /\ S[j].id # expired
      BY <1>3, <2>7 DEF Inv, TypeOK, Session
    <3>. QED
      BY <1>1, <2>6, <2>7, <3>1 DEF Active, GetSession
  <2>8. removed \subseteq removed' /\ deleting' \subseteq removed'
    BY <1>1, <1>3 DEF FilesInv
  <2>. QED
    BY <1>1, <2>5, <2>6, <2>7, <2>8, FilesQuiet
<1>. QED
  BY <1>2, <1>3 DEF HandleExpiredSession

LEMMA FilesDelete ==
  ASSUME Inv, Inv', FilesInv, NEW i \in Ids,
         HandleDeleteResources(i) \/ DeleteSome(i) \/ DeleteFiles(i)
  PROVE  FilesInv'
<1>1. UNCHANGED <<sessions, created, S, dl>> /\ spool \in Spool /\ faults \in 0 .. MaxFaults
  BY DEF HandleDeleteResources, DeleteSome, DeleteFiles, Inv, TypeOK
<1>2. removed \subseteq removed' /\ deleting' \subseteq removed'
  BY DEF FilesInv, HandleDeleteResources, DeleteSome, DeleteFiles
<1>3. Grows
  <2>1. CASE HandleDeleteResources(i)
    BY <2>1 DEF HandleDeleteResources, Grows
  <2>2. CASE DeleteSome(i) \/ DeleteFiles(i)
    <3>1. i \in removed'
      BY <1>2, <2>2 DEF FilesInv, DeleteSome, DeleteFiles
    <3>2. \/ spool' \in PartlyRemoved(spool, i)
          \/ \E out \in RemoveOutcomes(spool, i, faults) : spool' = out.sp
      BY <2>2 DEF DeleteSome, DeleteFiles
    <3>3. Beside(i, spool, spool')
      BY <1>1, <3>2, PartlyFacts, RemoveTypes
    <3>. QED
      BY <3>1, <3>3 DEF Grows, Beside
  <2>. QED
    BY <2>1, <2>2
<1>4. \A k \in 1 .. created : Active(k) => Active(k)'
  BY <1>1 DEF Active, GetSession
<1>. QED
  BY <1>1, <1>2, <1>3, <1>4, FilesQuiet

\* The steps of clients and timers, and stuttering.
LEMMA FilesOther ==
  ASSUME Inv, Inv', FilesInv,
         \/ \E k \in Sess : \/ CheckAuth(k) \/ HandleRevokeToken(k)
                            \/ TimerFires(k) \/ TimerSends(k)
         \/ UNCHANGED vars
  PROVE  FilesInv'
<1>1. UNCHANGED <<sessions, created, spool, dl, deleting, removed>>
  BY DEF CheckAuth, HandleRevokeToken, TimerFires, TimerSends, vars
<1>2. S \in [1 .. created -> Session]
  BY DEF Inv, TypeOK
<1>3. \A k \in 1 .. created : S'[k].id = S[k].id /\ S'[k].A = S[k].A
  <2>1. \/ UNCHANGED S
        \/ \E j : S' = [S EXCEPT ![j].revoked = TRUE]
        \/ \E j, t : S' = [S EXCEPT ![j].timer = t]
    BY DEF CheckAuth, HandleRevokeToken, TimerFires, TimerSends, vars
  <2>2. ASSUME NEW j, S' = [S EXCEPT ![j].revoked = TRUE], NEW k \in 1 .. created
        PROVE  S'[k].id = S[k].id /\ S'[k].A = S[k].A
    BY <1>2, <2>2 DEF Session
  <2>3. ASSUME NEW j, NEW t, S' = [S EXCEPT ![j].timer = t], NEW k \in 1 .. created
        PROVE  S'[k].id = S[k].id /\ S'[k].A = S[k].A
    BY <1>2, <2>3 DEF Session
  <2>. QED
    BY <2>1, <2>2, <2>3
<1>4. \A k \in 1 .. created : Active(k) => Active(k)'
  BY <1>1, <1>3 DEF Active, GetSession
<1>5. Grows /\ deleting' \subseteq removed'
  BY <1>1 DEF Grows, FilesInv
<1>. QED
  BY <1>1, <1>3, <1>4, <1>5, FilesQuiet

\* A new session has recorded nothing yet and takes the place of none.
LEMMA FilesCreate ==
  ASSUME Inv, Inv', FilesInv, NEW i \in Ids, NEW permissive, sessions[i] = 0,
         NewWithID(i, permissive)
  PROVE  FilesInv'
<1>1. PICK n : n = created'
  OBVIOUS
<1>2. /\ 1 .. n = 1 .. created \cup {n} /\ n \notin 1 .. created
      /\ S'[n].id = i /\ \A g \in Digests : S'[n].A[g] = NoDownload
      /\ \A k \in 1 .. created : S'[k] = S[k]
      /\ sessions'[i] = n /\ \A h \in Ids : h # i => sessions'[h] = sessions[h]
      /\ UNCHANGED <<dl, spool, deleting, removed>>
  BY <1>1, CreateFacts
<1>3. \A k \in 1 .. created : S[k].id \in Ids /\ k # 0
  BY DEF Inv, TypeOK, Session
<1>4. \A k \in 1 .. created : (Active(k)' <=> Active(k)) /\ Recorded(k)' = Recorded(k)
  BY <1>1, <1>2, <1>3 DEF Active, GetSession, Recorded, HasArtifact
<1>5. Active(n)' /\ Recorded(n)' = {}
  BY <1>1, <1>2 DEF Active, GetSession, Recorded, HasArtifact
<1>6. ASSUME NEW k \in 1 .. n PROVE DataInv(k)' /\ ReportInv(k)'
  <2>1. CASE k \in 1 .. created
    BY <1>2, <1>4, <2>1 DEF FilesInv, DataInv, ReportInv, Kept
  <2>2. CASE k = n
    BY <1>5, <2>2 DEF DataInv, ReportInv
  <2>. QED
    BY <1>2, <2>1, <2>2
<1>7. ASSUME NEW d \in Downloads PROVE InspectedInv(d)'
  <2>. SUFFICES ASSUME dl[d].step \in {"inspect", "complete"}, S'[dl[d].conn].id \notin removed
                PROVE  Kept(S'[dl[d].conn].id, dl[d].digest)
    BY <1>2 DEF InspectedInv, Kept
  <2>1. dl[d].conn \in 1 .. created
    BY DEF Inv, TypeOK, DownloadInv, RefInv
  <2>. QED
    BY <1>2, <2>1 DEF FilesInv, InspectedInv
<1>. QED
  BY <1>1, <1>2, <1>6, <1>7 DEF FilesInv

\* A session is only created under an ID that no active session has.
LEMMA CreateVacant ==
  ASSUME Inv, NEW permissive \in BOOLEAN,
         \/ HandleCreateSession(permissive)
         \/ \E i \in FetchctlIds : FetchCtlCreateSession(i, permissive)
  PROVE  \E i \in Ids : sessions[i] = 0 /\ NewWithID(i, permissive)
<1>1. \A i \in Ids : i \notin UsedIds => sessions[i] = 0
  BY DEF Inv, MapInv, UsedIds
<1>. QED
  BY <1>1, IdsAssumption DEF HandleCreateSession, FetchCtlCreateSession, MakeSessionID, GetSession

LEMMA FilesStep ==
  ASSUME Inv, Inv', [Next]_vars, FilesInv
  PROVE  FilesInv'
<1>1. ASSUME NEW permissive \in BOOLEAN,
             \/ HandleCreateSession(permissive)
             \/ \E i \in FetchctlIds : FetchCtlCreateSession(i, permissive)
      PROVE  FilesInv'
  BY <1>1, CreateVacant, FilesCreate
<1>2. ASSUME NEW d \in Downloads,
             (\E k \in Sess : ProcessRequest(d, k)) \/ DownloadStep(d) \/ InspectionTimeout(d)
      PROVE  FilesInv'
  BY <1>2, FilesDownloadStep
<1>. QED
  BY <1>1, <1>2, FilesOther, FilesEndSession, FilesExpiredSession, FilesDelete DEF Next

\* FilesInv holds in every state of the service.
THEOREM FilesInvariance == Spec => []FilesInv
<1>1. Init => FilesInv
  <2>. SUFFICES ASSUME Init PROVE FilesInv
    OBVIOUS
  <2>1. 1 .. created = {} /\ deleting \subseteq removed
    BY DEF Init
  <2>2. \A d \in Downloads : InspectedInv(d)
    BY DEF Init, InspectedInv
  <2>. QED
    BY <2>1, <2>2 DEF FilesInv
<1>2. Inv /\ Inv' /\ FilesInv /\ [Next]_vars => FilesInv'
  BY FilesStep
<1>. QED
  BY <1>1, <1>2, Invariance, PTL DEF Spec

\* A session that is over has left its complete report in the spool, whatever
\* file operations failed and however often its ID is used, unless
\* RemoveResources was called for its ID.
THEOREM FinishedReportHolds == Spec => []FinishedReport
<1>1. FilesInv => FinishedReport
  BY DEF FilesInv, DataInv, ReportInv, Kept, FinishedReport
<1>. QED
  BY <1>1, FilesInvariance, PTL
=============================================================================
