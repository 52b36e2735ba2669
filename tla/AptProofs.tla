------------------------------ MODULE AptProofs ------------------------------
(***************************************************************************)
(* Proofs about Apt for any archive, configuration and number of           *)
(* downloads.                                                              *)
(***************************************************************************)
EXTENDS Apt, WellFoundedInduction, TLAPS

Started == {"idle", "upstream"}

\* An approved download of this session is the Release file r.
Held(r) == Kind(r) = "release" /\ \E e \in Downloads : dl[e].approved /\ dl[e].file = r

\* A validated Packages file lists f with its size.
Listed(f) ==
  \E p \in validated : f \in DOMAIN Entries(p) /\ Entries(p)[f].size = Content[f].size

\* What a download's own fields say about each other
OwnInv(x) ==
  /\ x.step # "idle" => x.url \in Urls
  /\ x.step \in Started => /\ ~x.approved /\ x.result # "Approved"
                           /\ x.listed = None /\ x.valid = "unset" /\ x.pkg = None
  /\ x.step \notin Started \cup {"done"} => x.file \in Files
  /\ x.step \in {"parse", "load"} => Kind(x.file) = "packages"
  /\ x.step = "found" => x.pkg # None
  /\ x.listed # None => /\ x.file \in DOMAIN Entries(x.listed)
                        /\ Trusted(x.listed, getRepositoryAlias(x.url, x.cfg["release"]))
  /\ x.approved /\ Kind(x.file) \in {"packages", "translation", "commands"} => x.listed # None
  /\ x.approved /\ Kind(x.file) = "deb" => x.valid = "yes" /\ x.step \in {"finish", "done"}
  /\ x.approved /\ Kind(x.file) = "translation" => parseTranslationFile(x.file)
  /\ x.result = "Approved" => x.file \in Files
  /\ x.result = "Approved" /\ Kind(x.file) = "translation" => parseTranslationFile(x.file)

\* What it learnt from other downloads
LearntInv(x) ==
  /\ x.listed # None => Held(x.listed)
  /\ x.pkg # None => x.pkg \in loaded /\ x.file \in DOMAIN Entries(dl[x.pkg].file)
  /\ x.valid = "yes" /\ ~x.rejected => Listed(x.file)

ReleaseInv(s) == release[s] # None => Held(release[s]) /\ Trusted(release[s], s)

ValidatedInv(p) ==
  \E r \in Files : Held(r) /\ p \in DOMAIN Entries(r) /\ \E c \in CfgNames : Signed(r, c)

KnownInv(f) ==
  known[f] = "Approved" =>
    /\ Kind(f) = "deb" => Listed(f)
    /\ Kind(f) = "translation" => parseTranslationFile(f)

Inv ==
  /\ TypeOK
  /\ \A d \in Downloads : OwnInv(dl[d]) /\ LearntInv(dl[d])
  /\ \A s \in Suites : ReleaseInv(s)
  /\ \A p \in validated : ValidatedInv(p)
  /\ \A f \in Files : KnownInv(f)
  /\ \A e \in loaded : dl[e].step \notin Started

-----------------------------------------------------------------------------
(* What a step of one download leaves as it was                            *)

\* The same response to the same request
Same(x, y) == y.url = x.url /\ y.file = x.file /\ y.cfg = x.cfg

\* Opinions are not taken back.
Firmer(x, y) == (x.approved => y.approved) /\ (x.rejected => y.rejected)

\* What x learnt from others, y knows as well and nothing else.
SameLearnt(x, y) == y.listed = x.listed /\ y.pkg = x.pkg /\ y.valid = x.valid

Step(d) ==
  /\ dl' \in [Downloads -> Download]
  /\ \A e \in Downloads : e # d => dl'[e] = dl[e]
  /\ Firmer(dl[d], dl'[d])
  /\ dl[d].step \notin Started => dl'[d].step \notin Started /\ Same(dl[d], dl'[d])
  /\ validated \subseteq validated' /\ loaded \subseteq loaded'

\* The part of TypeOK that is not about downloads
SharedType ==
  /\ permissive \in Policies
  /\ release \in [Suites -> Files \cup {None}]
  /\ packages \in [Paths -> Downloads \cup {None}]
  /\ loaded \subseteq Downloads
  /\ validated \subseteq Files
  /\ known \in [Files -> {"none", "Approved", "Rejected"}]
  /\ crashed \in BOOLEAN

\* Release files and entries of Packages files that were good stay good.
LEMMA Stable ==
  ASSUME Inv, NEW d \in Downloads, Step(d)
  PROVE  /\ \A r : Held(r) => Held(r)'
         /\ \A f : Listed(f) => Listed(f)'
         /\ \A e \in loaded : dl'[e].file = dl[e].file /\ dl'[e].step \notin Started
<1>1. ASSUME NEW r, Held(r) PROVE Held(r)'
  <2>1. PICK e \in Downloads : dl[e].approved /\ dl[e].file = r
    BY <1>1 DEF Held
  <2>2. dl'[e].approved /\ dl'[e].file = r
    BY <2>1 DEF Step, Firmer, Same, Inv, OwnInv
  <2> QED
    BY <1>1, <2>2 DEF Held
<1>2. \A f : Listed(f) => Listed(f)'
  BY DEF Listed, Step
<1>3. \A e \in loaded : dl'[e].file = dl[e].file /\ dl'[e].step \notin Started
  BY DEF Inv, TypeOK, Step, Same
<1> QED
  BY <1>1, <1>2, <1>3

\* A download that learns nothing new keeps what it learnt.
LEMMA LearntKept ==
  ASSUME Inv, NEW d \in Downloads, Step(d), SameLearnt(dl[d], dl'[d])
  PROVE  LearntInv(dl[d])'
<1>1. CASE dl[d].step \in Started
  BY <1>1 DEF Inv, OwnInv, LearntInv, SameLearnt
<1>2. CASE dl[d].step \notin Started
  <2>1. dl'[d].file = dl[d].file /\ (dl[d].rejected => dl'[d].rejected)
    BY <1>2 DEF Step, Same, Firmer
  <2>2. LearntInv(dl[d])
    BY DEF Inv
  <2> QED
    BY <2>1, <2>2, Stable DEF LearntInv, SameLearnt, Step
<1> QED
  BY <1>1, <1>2

\* A step of d keeps the invariant if it does so for d, and for what it adds to
\* the maps that downloads share.
LEMMA Frame ==
  ASSUME Inv, NEW d \in Downloads, Step(d), SharedType',
         OwnInv(dl[d])', LearntInv(dl[d])',
         \A s \in Suites : release'[s] # release[s] => ReleaseInv(s)',
         \A p \in validated' \ validated : ValidatedInv(p)',
         \A f \in Files : known'[f] # known[f] => KnownInv(f)',
         \A e \in loaded' \ loaded : dl'[e].step \notin Started
  PROVE  Inv'
<1>1. TypeOK'
  BY DEF TypeOK, SharedType, Step
<1>2. ASSUME NEW e \in Downloads PROVE OwnInv(dl[e])' /\ LearntInv(dl[e])'
  <2>1. CASE e = d
    BY <2>1
  <2>2. CASE e # d
    <3>1. dl'[e] = dl[e] /\ OwnInv(dl[e]) /\ LearntInv(dl[e])
      BY <2>2 DEF Step, Inv
    <3>2. OwnInv(dl[e])'
      BY <3>1 DEF OwnInv
    <3>3. LearntInv(dl[e])'
      BY <3>1, Stable DEF LearntInv, Step
    <3> QED
      BY <3>2, <3>3
  <2> QED
    BY <2>1, <2>2
<1>3. ASSUME NEW s \in Suites PROVE ReleaseInv(s)'
  BY Stable DEF Inv, ReleaseInv
<1>4. ASSUME NEW p \in validated' PROVE ValidatedInv(p)'
  BY Stable DEF Inv, ValidatedInv
<1>5. ASSUME NEW f \in Files PROVE KnownInv(f)'
  BY Stable DEF Inv, KnownInv
<1>6. ASSUME NEW e \in loaded' PROVE dl'[e].step \notin Started
  BY Stable DEF Inv
<1> QED
  BY <1>1, <1>2, <1>3, <1>4, <1>5, <1>6 DEF Inv

-----------------------------------------------------------------------------
(* Steps of an inspection: it goes on, and may reject or approve           *)

Shared == <<permissive, release, packages, loaded, validated, known, crashed>>

\* Where an inspection is under way; deb is the last inspector of a package.
Inspecting == Steps \ (Started \cup {"finish", "done"})

\* Download d goes on to step s and learns nothing from others.
GoesOn(d, s) ==
  /\ Step(d)
  /\ Same(dl[d], dl'[d]) /\ SameLearnt(dl[d], dl'[d])
  /\ dl'[d].step = s /\ dl'[d].result = dl[d].result

\* The inspection moves on to step s.
LEMMA MoveEffect ==
  ASSUME TypeOK, NEW d \in Downloads, NEW s \in Steps \ Started,
         dl' = [dl EXCEPT ![d] = [dl[d] EXCEPT !.step = s]],
         validated \subseteq validated', loaded \subseteq loaded'
  PROVE  GoesOn(d, s) /\ dl'[d].approved = dl[d].approved
  BY DEF TypeOK, Download, GoesOn, Step, Same, SameLearnt, Firmer

\* It moves on with a rejection.
LEMMA RejectEffect ==
  ASSUME TypeOK, NEW d \in Downloads, NEW s \in Steps \ Started,
         dl' = [dl EXCEPT ![d] = [Reject(d) EXCEPT !.step = s]],
         validated \subseteq validated', loaded \subseteq loaded'
  PROVE  GoesOn(d, s) /\ dl'[d].approved = dl[d].approved
<1> DEFINE x == dl[d]
           y == [[x EXCEPT !.rejected = TRUE] EXCEPT !.step = s]
<1>1. x \in Download
  BY DEF TypeOK
<1>2. /\ y \in Download /\ Same(x, y) /\ SameLearnt(x, y) /\ Firmer(x, y)
      /\ y.step = s /\ y.result = x.result /\ y.approved = x.approved
  BY <1>1 DEF Download, Same, SameLearnt, Firmer
<1>3. dl' = [dl EXCEPT ![d] = y]
  BY DEF Reject
<1> HIDE DEF y
<1> QED
  BY <1>2, <1>3 DEF TypeOK, GoesOn, Step

\* It moves on with an approval.
LEMMA ApproveEffect ==
  ASSUME TypeOK, NEW d \in Downloads, NEW s \in Steps \ Started,
         dl' = [dl EXCEPT ![d] = [Approve(d) EXCEPT !.step = s]],
         validated \subseteq validated', loaded \subseteq loaded'
  PROVE  GoesOn(d, s) /\ dl'[d].approved
<1> DEFINE x == dl[d]
           y == [[x EXCEPT !.approved = TRUE] EXCEPT !.step = s]
<1>1. x \in Download
  BY DEF TypeOK
<1>2. /\ y \in Download /\ Same(x, y) /\ SameLearnt(x, y) /\ Firmer(x, y)
      /\ y.step = s /\ y.result = x.result /\ y.approved
  BY <1>1 DEF Download, Same, SameLearnt, Firmer
<1>3. dl' = [dl EXCEPT ![d] = y]
  BY DEF Approve
<1> HIDE DEF y
<1> QED
  BY <1>2, <1>3 DEF TypeOK, GoesOn, Step

\* What a download says of itself stays true while nothing is approved.
LEMMA OwnKept ==
  ASSUME Inv, NEW d \in Downloads, NEW s \in Inspecting \cup {"finish"},
         dl[d].step \in Inspecting,
         GoesOn(d, s), dl'[d].approved = dl[d].approved,
         s \in {"parse", "load"} => Kind(dl[d].file) = "packages",
         s # "found"
  PROVE  OwnInv(dl[d])'
<1>1. OwnInv(dl[d])
  BY DEF Inv
<1> QED
  BY <1>1 DEF OwnInv, GoesOn, Same, SameLearnt, Inspecting, Started

\* It stays true when d is approved, if what is approved has been vouched for.
LEMMA OwnApproved ==
  ASSUME Inv, NEW d \in Downloads, NEW s \in Inspecting \cup {"finish"},
         dl[d].step \in Inspecting,
         GoesOn(d, s), dl'[d].approved,
         s \in {"parse", "load"} => Kind(dl[d].file) = "packages",
         s # "found",
         Kind(dl[d].file) \in {"packages", "translation", "commands"} => dl[d].listed # None,
         Kind(dl[d].file) = "deb" => dl[d].valid = "yes" /\ s = "finish",
         Kind(dl[d].file) = "translation" => parseTranslationFile(dl[d].file)
  PROVE  OwnInv(dl[d])'
<1>1. OwnInv(dl[d])
  BY DEF Inv
<1> QED
  BY <1>1 DEF OwnInv, GoesOn, Same, SameLearnt, Inspecting, Started

\* A step that changes nothing that downloads share keeps the invariant if it
\* does so for d.
LEMMA Alone ==
  ASSUME Inv, NEW d \in Downloads, Step(d), SameLearnt(dl[d], dl'[d]), OwnInv(dl[d])',
         UNCHANGED <<permissive, release, loaded, validated, known>>,
         packages' \in [Paths -> Downloads \cup {None}], crashed' \in BOOLEAN
  PROVE  Inv'
<1>1. LearntInv(dl[d])'
  BY LearntKept
<1>2. SharedType'
  BY DEF Inv, TypeOK, SharedType
<1> QED
  BY <1>1, <1>2, Frame

\* The same for a step that goes on without an approval.
LEMMA GoesOnAlone ==
  ASSUME Inv, NEW d \in Downloads, NEW s \in Inspecting \cup {"finish"},
         dl[d].step \in Inspecting,
         GoesOn(d, s), dl'[d].approved = dl[d].approved,
         s \in {"parse", "load"} => Kind(dl[d].file) = "packages",
         s # "found",
         UNCHANGED <<permissive, release, loaded, validated, known>>,
         packages' \in [Paths -> Downloads \cup {None}], crashed' \in BOOLEAN
  PROVE  Inv'
  BY OwnKept, Alone DEF GoesOn

-----------------------------------------------------------------------------
(* The actions                                                             *)

\* UrlInfo finds configuration entries.
LEMMA UrlInfoType == \A u : UrlInfo(u) \subseteq CfgNames \cup {None}
  BY DEF UrlInfo

\* The suite of a URL is one of the suites.
LEMMA SuiteType ==
  ASSUME NEW u \in Urls, NEW c \in CfgNames
  PROVE  getRepositoryAlias(u, c) \in Suites
  BY DEF getRepositoryAlias, getOriginAlias, Suites, Origins

\* InspectRequest
LEMMA InspectRequestStep ==
  ASSUME Inv, NEW d \in Downloads, InspectRequest(d)
  PROVE  Inv'
<1>1. PICK u \in Urls, cfg \in [Inspectors -> CfgNames \cup {None}], claimed \in BOOLEAN :
        dl' = [dl EXCEPT ![d] =
                [dl[d] EXCEPT !.url = u, !.cfg = cfg, !.claimed = claimed,
                              !.step = IF claimed \/ permissive THEN "upstream" ELSE "done",
                              !.result = IF claimed \/ permissive THEN "none" ELSE "refused"]]
  <2>1. PICK u \in Urls : \E cfg \in [Inspectors -> UrlInfo(u) \cup {None}] :
          LET late == cfg["release"] # None /\ ~releaseClaims(u, cfg["release"])
              claimed == ~late /\ \E i \in Inspectors : cfg[i] # None
          IN  dl' = [dl EXCEPT ![d] =
                [@ EXCEPT !.url = u, !.cfg = cfg, !.claimed = claimed,
                          !.step = IF claimed \/ permissive THEN "upstream" ELSE "done",
                          !.result = IF claimed \/ permissive THEN "none" ELSE "refused"]]
    BY DEF InspectRequest
  <2>2. PICK cfg \in [Inspectors -> UrlInfo(u) \cup {None}] :
          LET late == cfg["release"] # None /\ ~releaseClaims(u, cfg["release"])
              claimed == ~late /\ \E i \in Inspectors : cfg[i] # None
          IN  dl' = [dl EXCEPT ![d] =
                [@ EXCEPT !.url = u, !.cfg = cfg, !.claimed = claimed,
                          !.step = IF claimed \/ permissive THEN "upstream" ELSE "done",
                          !.result = IF claimed \/ permissive THEN "none" ELSE "refused"]]
    BY <2>1
  <2>3. cfg \in [Inspectors -> CfgNames \cup {None}]
    BY <2>2, UrlInfoType
  <2> QED
    BY <2>2, <2>3
<1> DEFINE x == dl[d]
           step == IF claimed \/ permissive THEN "upstream" ELSE "done"
           result == IF claimed \/ permissive THEN "none" ELSE "refused"
           y == [x EXCEPT !.url = u, !.cfg = cfg, !.claimed = claimed,
                          !.step = step, !.result = result]
<1>2. x \in Download /\ x.step = "idle" /\ OwnInv(x)
  BY DEF Inv, TypeOK, InspectRequest, At
<1>3. /\ y \in Download /\ SameLearnt(x, y) /\ Firmer(x, y) /\ y.approved = x.approved
      /\ y.step \in {"upstream", "done"} /\ y.result # "Approved" /\ y.url \in Urls
  <2>1. step \in {"upstream", "done"} /\ result \in {"none", "refused"}
    OBVIOUS
  <2> HIDE DEF step, result
  <2>2. y \in Download
    BY <1>2, <2>1 DEF Download, Steps
  <2>3. /\ y.url = u /\ y.step = step /\ y.result = result
        /\ y.listed = x.listed /\ y.pkg = x.pkg /\ y.valid = x.valid
        /\ y.approved = x.approved /\ y.rejected = x.rejected
    BY <1>2 DEF Download
  <2> HIDE DEF y
  <2> QED
    BY <2>1, <2>2, <2>3 DEF SameLearnt, Firmer
<1>4. dl' = [dl EXCEPT ![d] = y]
  BY <1>1
<1> HIDE DEF y
<1>5. Step(d) /\ dl'[d] = y
  BY <1>2, <1>3, <1>4 DEF Inv, TypeOK, Step, Started, InspectRequest
<1>6. OwnInv(dl[d])'
  BY <1>2, <1>3, <1>5 DEF OwnInv, SameLearnt, Started
<1> QED
  BY <1>3, <1>5, <1>6, Alone DEF InspectRequest, Inv, TypeOK

\* Respond: a result on record is taken over as it is.
LEMMA RespondStep ==
  ASSUME Inv, NEW d \in Downloads, NEW f \in Files, Respond(d, f)
  PROVE  Inv'
<1> DEFINE x == dl[d]
           y == [x EXCEPT !.file = f,
                          !.step = IF known[f] = "none" THEN "release" ELSE "done",
                          !.result = IF known[f] = "none" THEN x.result ELSE known[f]]
<1>1. x \in Download /\ x.step = "upstream" /\ OwnInv(x) /\ KnownInv(f)
  BY DEF Inv, TypeOK, Respond, At
<1>2. /\ y \in Download /\ SameLearnt(x, y) /\ Firmer(x, y) /\ y.approved = x.approved
      /\ y.step \in {"release", "done"} /\ y.url = x.url /\ y.file = f
  <2> DEFINE step == IF known[f] = "none" THEN "release" ELSE "done"
             result == IF known[f] = "none" THEN x.result ELSE known[f]
  <2>1. step \in {"release", "done"} /\ result \in {"none", "refused", "Approved", "Rejected"}
    BY <1>1 DEF Inv, TypeOK, Download
  <2>2. y = [x EXCEPT !.file = f, !.step = step, !.result = result]
    OBVIOUS
  <2> HIDE DEF y, step, result
  <2>3. y \in Download
    BY <1>1, <2>1, <2>2 DEF Download, Steps
  <2>4. /\ y.url = x.url /\ y.file = f /\ y.step = step
        /\ y.listed = x.listed /\ y.pkg = x.pkg /\ y.valid = x.valid
        /\ y.approved = x.approved /\ y.rejected = x.rejected
    BY <1>1, <2>2 DEF Download
  <2> QED
    BY <2>1, <2>3, <2>4 DEF SameLearnt, Firmer
<1>3. y.result = IF known[f] = "none" THEN x.result ELSE known[f]
  BY <1>1 DEF Download
<1>4. dl' = [dl EXCEPT ![d] = y] /\ UNCHANGED Shared
  BY <1>1 DEF Respond, Inv, TypeOK, Download, Shared
<1> HIDE DEF y
<1>5. Step(d) /\ dl'[d] = y
  BY <1>1, <1>2, <1>4 DEF Inv, TypeOK, Step, Started, Shared
<1>6. OwnInv(dl[d])'
  BY <1>1, <1>2, <1>3, <1>5 DEF OwnInv, SameLearnt, Started, KnownInv
<1> QED
  BY <1>2, <1>4, <1>5, <1>6, Alone DEF Shared, Inv, TypeOK

\* InspectRelease: what it stores is signed, and what it finds listed is listed.
LEMMA InspectReleaseStep ==
  ASSUME Inv, NEW d \in Downloads, InspectRelease(d)
  PROVE  Inv'
<1> DEFINE x == dl[d]
           f == x.file
           c == x.cfg["release"]
<1>1. /\ x \in Download /\ x.step = "release" /\ x.step \in Inspecting
      /\ x.url \in Urls /\ f \in Files /\ c \in CfgNames \cup {None}
      /\ OwnInv(x) /\ TypeOK
  BY DEF Inv, TypeOK, InspectRelease, At, OwnInv, Inspecting, Started, Steps, Download, Inspectors
<1>2. UNCHANGED <<permissive, packages, loaded, validated, known, crashed>>
  BY DEF InspectRelease
<1>3. "packages" \in Steps \ Started /\ "packages" \in Inspecting
  BY DEF Steps, Started, Inspecting
<1>4. CASE inspectRelease(d) /\ Kind(f) = "release"
  <2> DEFINE sound == parseSignaturesSection(f) /\ checkSignature(f, Config[c].keys)
             alias == getRepositoryAlias(x.url, c)
  <2>1. dl' = [dl EXCEPT ![d] =
                 [IF ~isRelease(d) THEN x ELSE IF sound THEN Approve(d) ELSE Reject(d)
                    EXCEPT !.step = "packages"]]
    BY <1>4 DEF inspectRelease
  <2>2. release' = IF isRelease(d) /\ sound /\ x.url.kind = "InRelease"
                     THEN [release EXCEPT ![alias] = f] ELSE release
    BY <1>4 DEF inspectRelease
  <2>3. CASE isRelease(d) /\ sound
    <3>1. GoesOn(d, "packages") /\ dl'[d].approved
      BY <1>1, <1>2, <1>3, <2>1, <2>3, ApproveEffect
    <3>2. OwnInv(dl[d])'
      BY <1>1, <1>3, <1>4, <3>1, OwnApproved
    <3>3. LearntInv(dl[d])'
      BY <3>1, LearntKept DEF GoesOn
    <3>4. Trusted(f, alias)
      BY <1>1, <2>3 DEF Trusted, Signed, checkSignature, isRelease
    <3>5. ASSUME NEW s \in Suites, release'[s] # release[s] PROVE ReleaseInv(s)'
      <4>1. s = alias /\ release'[s] = f
        BY <1>1, <2>2, <3>5 DEF TypeOK
      <4>2. dl'[d].approved /\ dl'[d].file = release'[s]
        BY <3>1, <4>1 DEF GoesOn, Same
      <4>3. Held(release[s])'
        BY <1>4, <4>1, <4>2 DEF Held
      <4> QED
        BY <3>4, <4>1, <4>3 DEF ReleaseInv
    <3>6. SharedType'
      BY <1>1, <1>2, <2>2 DEF TypeOK, SharedType
    <3> QED
      BY <1>2, <3>1, <3>2, <3>3, <3>5, <3>6, Frame DEF GoesOn
  <2>4. CASE ~(isRelease(d) /\ sound)
    <3>1. GoesOn(d, "packages") /\ dl'[d].approved = dl[d].approved
      BY <1>1, <1>2, <1>3, <2>1, <2>4, MoveEffect, RejectEffect
    <3> QED
      BY <1>1, <1>2, <1>3, <2>2, <2>4, <3>1, GoesOnAlone DEF TypeOK
  <2> QED
    BY <2>3, <2>4
<1>5. ASSUME NEW info \in UrlInfo(x.url),
             dl' = [dl EXCEPT ![d] = [validateListed(d, info) EXCEPT !.step = "packages"]],
             UNCHANGED release
      PROVE  Inv'
  <2> DEFINE r == release[getRepositoryAlias(x.url, c)]
  <2>1. CASE validateListed(d, info) = Reject(d)
    <3>1. GoesOn(d, "packages") /\ dl'[d].approved = dl[d].approved
      BY <1>1, <1>2, <1>3, <1>5, <2>1, RejectEffect
    <3> QED
      BY <1>1, <1>2, <1>3, <1>5, <3>1, GoesOnAlone DEF TypeOK
  <2>2. CASE /\ validateListed(d, info) = [x EXCEPT !.listed = r]
             /\ c # None /\ r # None /\ f \in DOMAIN Entries(r)
    <3> DEFINE y == [[x EXCEPT !.listed = r] EXCEPT !.step = "packages"]
    <3>1. r \in Files /\ Held(r) /\ Trusted(r, getRepositoryAlias(x.url, c))
      BY <1>1, <2>2, SuiteType DEF TypeOK, Inv, ReleaseInv
    <3>2. /\ y \in Download /\ Same(x, y) /\ Firmer(x, y)
          /\ y.approved = x.approved /\ y.rejected = x.rejected /\ y.result = x.result
          /\ y.listed = r /\ y.pkg = x.pkg /\ y.valid = x.valid /\ y.step = "packages"
      BY <1>1, <1>3, <3>1 DEF Download, Same, Firmer
    <3>3. dl' = [dl EXCEPT ![d] = y]
      BY <1>5, <2>2
    <3> HIDE DEF y
    <3>4. Step(d) /\ dl'[d] = y
      BY <1>1, <1>2, <1>3, <3>2, <3>3 DEF Step, TypeOK
    <3>5. OwnInv(dl[d])'
      BY <1>1, <1>3, <2>2, <3>1, <3>2, <3>4 DEF OwnInv, Same, Inspecting, Started
    <3>6. LearntInv(dl[d])'
      <4>1. LearntInv(x)
        BY DEF Inv
      <4> QED
        BY <3>1, <3>2, <3>4, <4>1, Stable DEF LearntInv, Same, Step
    <3>7. SharedType'
      BY <1>1, <1>2, <1>5 DEF TypeOK, SharedType
    <3> QED
      BY <1>2, <1>5, <3>4, <3>5, <3>6, <3>7, Frame
  <2> QED
    BY <2>1, <2>2 DEF validateListed, Lists
<1>6. CASE dl' = [dl EXCEPT ![d].step = "packages"] /\ UNCHANGED release
  <2>1. GoesOn(d, "packages") /\ dl'[d].approved = dl[d].approved
    BY <1>1, <1>2, <1>3, <1>6, MoveEffect
  <2> QED
    BY <1>1, <1>2, <1>3, <1>6, <2>1, GoesOnAlone DEF TypeOK
<1> QED
  BY <1>4, <1>5, <1>6 DEF InspectRelease

\* addPackages
LEMMA AddPackagesStep ==
  ASSUME Inv, NEW d \in Downloads, addPackages(d)
  PROVE  Inv'
<1>1. TypeOK /\ dl[d].step \in Inspecting /\ Kind(dl[d].file) = "packages"
  BY DEF Inv, addPackages, At, Inspecting, Steps, Started
<1>2. /\ UNCHANGED <<permissive, release, loaded, validated, known>>
      /\ dl' = [dl EXCEPT ![d] = [dl[d] EXCEPT !.step = "parse"]]
      /\ packages' \in [Paths -> Downloads \cup {None}] /\ crashed' \in BOOLEAN
  BY <1>1 DEF addPackages, TypeOK
<1>3. "parse" \in Steps \ Started /\ "parse" \in Inspecting
  BY DEF Steps, Started, Inspecting
<1>4. GoesOn(d, "parse") /\ dl'[d].approved = dl[d].approved
  BY <1>1, <1>2, <1>3, MoveEffect
<1> QED
  BY <1>1, <1>2, <1>3, <1>4, GoesOnAlone

\* A step that takes an inspection on, in one of three ways, keeps the invariant.
LEMMA OpinionStep ==
  ASSUME Inv, NEW d \in Downloads, NEW s \in Inspecting \cup {"finish"},
         dl[d].step \in Inspecting, s \notin {"parse", "load", "found"},
         UNCHANGED Shared,
         \/ dl' = [dl EXCEPT ![d] = [dl[d] EXCEPT !.step = s]]
         \/ dl' = [dl EXCEPT ![d] = [Reject(d) EXCEPT !.step = s]]
         \/ /\ dl' = [dl EXCEPT ![d] = [Approve(d) EXCEPT !.step = s]]
            /\ Kind(dl[d].file) \in {"packages", "translation", "commands"} => dl[d].listed # None
            /\ Kind(dl[d].file) = "deb" => dl[d].valid = "yes" /\ s = "finish"
            /\ Kind(dl[d].file) = "translation" => parseTranslationFile(dl[d].file)
  PROVE  Inv'
<1>1. TypeOK /\ s \in Steps \ Started /\ UNCHANGED <<permissive, release, loaded, validated, known>>
  BY DEF Inv, Inspecting, Steps, Started, Shared
<1>2. packages' \in [Paths -> Downloads \cup {None}] /\ crashed' \in BOOLEAN
  BY <1>1 DEF TypeOK, Shared
<1>3. CASE dl' = [dl EXCEPT ![d] = [dl[d] EXCEPT !.step = s]]
  <2>1. GoesOn(d, s) /\ dl'[d].approved = dl[d].approved
    BY <1>1, <1>3, MoveEffect
  <2> QED
    BY <1>1, <1>2, <2>1, GoesOnAlone
<1>4. CASE dl' = [dl EXCEPT ![d] = [Reject(d) EXCEPT !.step = s]]
  <2>1. GoesOn(d, s) /\ dl'[d].approved = dl[d].approved
    BY <1>1, <1>4, RejectEffect
  <2> QED
    BY <1>1, <1>2, <2>1, GoesOnAlone
<1>5. CASE /\ dl' = [dl EXCEPT ![d] = [Approve(d) EXCEPT !.step = s]]
           /\ Kind(dl[d].file) \in {"packages", "translation", "commands"} => dl[d].listed # None
           /\ Kind(dl[d].file) = "deb" => dl[d].valid = "yes" /\ s = "finish"
           /\ Kind(dl[d].file) = "translation" => parseTranslationFile(dl[d].file)
  <2>1. GoesOn(d, s) /\ dl'[d].approved
    BY <1>1, <1>5, ApproveEffect
  <2>2. OwnInv(dl[d])'
    BY <1>5, <2>1, OwnApproved
  <2> QED
    BY <1>1, <1>2, <2>1, <2>2, Alone DEF GoesOn
<1> QED
  BY <1>3, <1>4, <1>5

\* ParsePackages: the file that becomes validated is listed in a Release file.
LEMMA ParsePackagesStep ==
  ASSUME Inv, NEW d \in Downloads, ParsePackages(d)
  PROVE  Inv'
<1> DEFINE x == dl[d]
           f == x.file
           good == parsePackages(f) /\ x.listed # None
           s == IF parsePackages(f) THEN "load" ELSE "last"
<1>1. /\ TypeOK /\ x \in Download /\ x.step \in Inspecting /\ f \in Files
      /\ Kind(f) = "packages" /\ OwnInv(x) /\ LearntInv(x)
  BY DEF Inv, TypeOK, ParsePackages, At, OwnInv, Inspecting, Started, Steps
<1>2. s \in Inspecting \cup {"finish"} /\ s \in Steps \ Started /\ s # "found"
  BY DEF Steps, Started, Inspecting
<1>3. /\ UNCHANGED <<permissive, release, packages, loaded, known, crashed>>
      /\ validated' = validated \cup IF good THEN {f} ELSE {}
      /\ dl' = [dl EXCEPT ![d] = [IF good THEN Approve(d) ELSE Reject(d) EXCEPT !.step = s]]
  BY DEF ParsePackages, validatePackages
<1>4. validated \subseteq validated' /\ loaded \subseteq loaded' /\ SharedType'
  BY <1>1, <1>3 DEF TypeOK, SharedType
<1> HIDE DEF s
<1>5. GoesOn(d, s) /\ OwnInv(dl[d])'
  <2>1. CASE good
    <3>1. GoesOn(d, s) /\ dl'[d].approved
      BY <1>1, <1>2, <1>3, <1>4, <2>1, ApproveEffect
    <3> QED
      BY <1>1, <1>2, <2>1, <3>1, OwnApproved
  <2>2. CASE ~good
    <3>1. GoesOn(d, s) /\ dl'[d].approved = dl[d].approved
      BY <1>1, <1>2, <1>3, <1>4, <2>2, RejectEffect
    <3> QED
      BY <1>1, <1>2, <2>2, <3>1, OwnKept
  <2> QED
    BY <2>1, <2>2
<1>6. LearntInv(dl[d])'
  BY <1>5, LearntKept DEF GoesOn
<1>7. ASSUME NEW p \in validated' \ validated PROVE ValidatedInv(p)'
  <2>1. p = f /\ x.listed # None
    BY <1>3, <1>7
  <2>2. x.listed \in Files /\ Held(x.listed) /\ p \in DOMAIN Entries(x.listed)
    BY <1>1, <2>1 DEF OwnInv, LearntInv, Download
  <2>3. \E c \in CfgNames : Signed(x.listed, c)
    BY <1>1, <2>1 DEF OwnInv, Trusted
  <2>4. dl'[d].listed = x.listed /\ Step(d)
    BY <1>5 DEF GoesOn, SameLearnt
  <2>5. Held(dl[d].listed)'
    BY <2>2, <2>4, Stable
  <2> QED
    BY <2>2, <2>3, <2>4, <2>5 DEF ValidatedInv
<1> QED
  BY <1>3, <1>4, <1>5, <1>6, <1>7, Frame DEF GoesOn

\* LoadEntries
LEMMA LoadEntriesStep ==
  ASSUME Inv, NEW d \in Downloads, LoadEntries(d)
  PROVE  Inv'
<1>1. TypeOK /\ dl[d].step \in Inspecting
  BY DEF Inv, LoadEntries, At, Inspecting, Steps, Started
<1>2. "last" \in Steps \ Started /\ "last" \in Inspecting
  BY DEF Steps, Started, Inspecting
<1>3. /\ UNCHANGED <<permissive, release, packages, validated, known, crashed>>
      /\ loaded' = loaded \cup {d}
      /\ dl' = [dl EXCEPT ![d] = [dl[d] EXCEPT !.step = "last"]]
  BY DEF LoadEntries
<1>4. GoesOn(d, "last") /\ dl'[d].approved = dl[d].approved
  BY <1>1, <1>2, <1>3, MoveEffect
<1>5. OwnInv(dl[d])' /\ LearntInv(dl[d])'
  BY <1>1, <1>2, <1>4, OwnKept, LearntKept DEF GoesOn
<1>6. SharedType'
  BY <1>1, <1>3 DEF TypeOK, SharedType
<1>7. \A e \in loaded' \ loaded : dl'[e].step \notin Started
  BY <1>2, <1>3, <1>4 DEF GoesOn
<1> QED
  BY <1>3, <1>4, <1>5, <1>6, <1>7, Frame DEF GoesOn
\* validateDebianPackage
LEMMA ValidateDebianStep ==
  ASSUME Inv, NEW d \in Downloads, validateDebianPackage(d)
  PROVE  Inv'
<1> DEFINE x == dl[d]
           o == getOriginAlias(x.url, x.cfg["packages"])
           todo == {p \in {v.path : v \in Urls} : packages[<<o, p>>] # None}
           y == [x EXCEPT !.step = "iterate", !.todo = todo]
<1>1. TypeOK /\ x \in Download /\ x.step \in Inspecting /\ OwnInv(x)
  BY DEF Inv, TypeOK, validateDebianPackage, At, Inspecting, Steps, Started
<1>2. /\ {"last", "iterate"} \subseteq Inspecting \cup {"finish"}
      /\ {"last", "iterate"} \subseteq Steps \ Started
  BY DEF Steps, Started, Inspecting
<1>3. UNCHANGED Shared
  BY DEF validateDebianPackage, Shared
<1>4. \/ dl' = [dl EXCEPT ![d] = [Reject(d) EXCEPT !.step = "last"]]
      \/ dl' = [dl EXCEPT ![d] = [Reject(d) EXCEPT !.step = "finish"]]
      \/ dl' = [dl EXCEPT ![d] = y]
  BY DEF validateDebianPackage
<1>5. CASE dl' = [dl EXCEPT ![d] = y]
  <2>1. todo \in SUBSET {v.path : v \in Urls}
    OBVIOUS
  <2> HIDE DEF todo
  <2>2. /\ y \in Download /\ Same(x, y) /\ SameLearnt(x, y) /\ Firmer(x, y)
        /\ y.step = "iterate" /\ y.result = x.result /\ y.approved = x.approved
    BY <1>1, <1>2, <2>1 DEF Download, Same, SameLearnt, Firmer
  <2> HIDE DEF y
  <2>3. GoesOn(d, "iterate") /\ dl'[d].approved = dl[d].approved
    BY <1>1, <1>2, <1>3, <1>5, <2>2 DEF TypeOK, GoesOn, Step, Shared
  <2> QED
    BY <1>1, <1>2, <1>3, <2>3, GoesOnAlone DEF Shared, TypeOK
<1> QED
  BY <1>1, <1>2, <1>3, <1>4, <1>5, OpinionStep

\* getPackagesEntry: the object found has its entries, and the deb is one of them.
LEMMA GetPackagesEntryStep ==
  ASSUME Inv, NEW d \in Downloads, getPackagesEntry(d)
  PROVE  Inv'
<1> DEFINE x == dl[d]
           e(p) == packages[<<getOriginAlias(x.url, x.cfg["packages"]), p>>]
           found(p) == [x EXCEPT !.pkg = e(p), !.todo = {}, !.step = "found"]
           next(p) == [x EXCEPT !.todo = x.todo \ {p}]
<1>1. /\ TypeOK /\ x \in Download /\ x.step = "iterate" /\ x.step \in Inspecting
      /\ OwnInv(x) /\ LearntInv(x)
  BY DEF Inv, TypeOK, getPackagesEntry, At, Inspecting, Steps, Started
<1>2. UNCHANGED Shared
  BY DEF getPackagesEntry, Shared
<1>3. PICK p \in x.todo :
        dl' = [dl EXCEPT ![d] = IF e(p) \in loaded /\ x.file \in DOMAIN Entries(dl[e(p)].file)
                                THEN found(p) ELSE next(p)]
  BY DEF getPackagesEntry
<1>4. CASE e(p) \in loaded /\ x.file \in DOMAIN Entries(dl[e(p)].file)
  <2> DEFINE g == e(p)
             y == [x EXCEPT !.pkg = g, !.todo = {}, !.step = "found"]
  <2>1. g \in loaded /\ g \in Downloads /\ x.file \in DOMAIN Entries(dl[g].file)
    BY <1>1, <1>4 DEF TypeOK
  <2>2. dl' = [dl EXCEPT ![d] = y]
    BY <1>3, <1>4
  <2> HIDE DEF g
  <2>3. /\ y \in Download /\ Same(x, y) /\ Firmer(x, y) /\ y.listed = x.listed
        /\ y.valid = x.valid /\ y.pkg = g /\ y.step = "found" /\ y.result = x.result
        /\ y.approved = x.approved /\ y.rejected = x.rejected
    BY <1>1, <2>1 DEF Download, Same, Firmer, Steps
  <2> HIDE DEF y
  <2>4. Step(d) /\ dl'[d] = y
    BY <1>1, <1>2, <2>2, <2>3 DEF Step, TypeOK, Shared, Started
  <2>5. OwnInv(dl[d])'
    BY <1>1, <2>1, <2>3, <2>4, AptAssumption DEF OwnInv, Same, Started
  <2>6. LearntInv(dl[d])'
    BY <1>1, <2>1, <2>3, <2>4, Stable DEF LearntInv, Same, Step
  <2>7. SharedType'
    BY <1>1, <1>2 DEF TypeOK, SharedType, Shared
  <2> QED
    BY <1>2, <2>4, <2>5, <2>6, <2>7, Frame DEF Shared
<1>5. CASE ~(e(p) \in loaded /\ x.file \in DOMAIN Entries(dl[e(p)].file))
  <2> DEFINE y == [x EXCEPT !.todo = x.todo \ {p}]
  <2>1. dl' = [dl EXCEPT ![d] = y]
    BY <1>3, <1>5
  <2>2. /\ y \in Download /\ Same(x, y) /\ SameLearnt(x, y) /\ Firmer(x, y)
        /\ y.step = x.step /\ y.result = x.result /\ y.approved = x.approved
    BY <1>1 DEF Download, Same, SameLearnt, Firmer
  <2> HIDE DEF y
  <2>3. GoesOn(d, "iterate") /\ dl'[d].approved = dl[d].approved
    BY <1>1, <1>2, <2>1, <2>2 DEF TypeOK, GoesOn, Step, Shared, Started
  <2> QED
    BY <1>1, <1>2, <2>3, GoesOnAlone DEF Shared, TypeOK
<1> QED
  BY <1>4, <1>5

\* CheckEntry: without a rejection, a validated Packages file lists the deb.
LEMMA CheckEntryStep ==
  ASSUME Inv, NEW d \in Downloads, CheckEntry(d)
  PROVE  Inv'
<1> DEFINE x == dl[d]
           p == dl[x.pkg].file
           good == isValidPackages(p)
           sound == /\ good /\ Entries(p)[x.file].size = Content[x.file].size
                    /\ Entries(p)[x.file].arch = x.url.arch
           rejected == x.rejected \/ ~sound
           valid == IF good THEN "yes" ELSE "no"
           y == [x EXCEPT !.rejected = rejected, !.valid = valid, !.step = "last"]
<1>1. /\ TypeOK /\ x \in Download /\ x.step = "found" /\ x.step \in Inspecting
      /\ OwnInv(x) /\ LearntInv(x)
  BY DEF Inv, TypeOK, CheckEntry, At, Inspecting, Steps, Started
<1>2. UNCHANGED Shared
  BY DEF CheckEntry, Shared
<1>3. dl' = [dl EXCEPT ![d] = y]
  BY DEF CheckEntry
<1>4. sound => Listed(x.file)
  BY <1>1 DEF OwnInv, LearntInv, Listed, isValidPackages
<1> HIDE DEF sound, good
<1>5. /\ rejected \in BOOLEAN /\ valid \in {"unset", "yes", "no"}
      /\ (x.rejected => rejected)
      /\ (~rejected => sound)
  BY <1>1 DEF Download
<1> HIDE DEF rejected, valid
<1>6. /\ y \in Download /\ Same(x, y) /\ y.listed = x.listed
      /\ y.pkg = x.pkg /\ y.step = "last" /\ y.result = x.result
      /\ y.approved = x.approved /\ y.rejected = rejected
  <2>1. y \in Download
    <3>1. "last" \in Steps
      BY DEF Steps
    <3> HIDE DEF x
    <3> QED
      BY <1>1, <1>5, <3>1 DEF Download
  <2>2. Same(x, y)
    BY <1>1 DEF Download, Same
  <2>3. /\ y.listed = x.listed /\ y.pkg = x.pkg /\ y.step = "last" /\ y.result = x.result
        /\ y.approved = x.approved /\ y.rejected = rejected
    BY <1>1 DEF Download
  <2> QED
    BY <2>1, <2>2, <2>3
<1> HIDE DEF y
<1>7. Step(d) /\ dl'[d] = y
  BY <1>1, <1>2, <1>3, <1>5, <1>6 DEF Step, TypeOK, Shared, Started, Firmer
<1>8. OwnInv(dl[d])'
  BY <1>1, <1>6, <1>7 DEF OwnInv, Same, Started
<1>9. LearntInv(dl[d])'
  BY <1>1, <1>4, <1>5, <1>6, <1>7, Stable DEF LearntInv, Same, Step
<1>10. SharedType'
  BY <1>1, <1>2 DEF TypeOK, SharedType, Shared
<1> QED
  BY <1>2, <1>7, <1>8, <1>9, <1>10, Frame DEF Shared

\* The actions that only take the inspection on and give an opinion
LEMMA OpinionActions ==
  ASSUME Inv, NEW d \in Downloads,
         \/ UnreadablePackages(d) \/ SkipPackages(d) \/ NotListed(d)
         \/ InspectTranslation(d) \/ InspectCommands(d) \/ InspectDeb(d) \/ SkipLast(d)
  PROVE  Inv'
<1>1. /\ "last" \in Inspecting \cup {"finish"} /\ "finish" \in Inspecting \cup {"finish"}
      /\ {"parse", "packages", "iterate", "last"} \subseteq Inspecting
  BY DEF Inspecting, Steps, Started
<1>2. UNCHANGED Shared /\ dl[d].step \in Inspecting
  BY <1>1 DEF UnreadablePackages, SkipPackages, NotListed, InspectTranslation, InspectCommands,
              InspectDeb, SkipLast, At, Shared
<1>3. CASE UnreadablePackages(d)
  BY <1>1, <1>2, <1>3, OpinionStep DEF UnreadablePackages
<1>4. CASE SkipPackages(d)
  BY <1>1, <1>2, <1>4, OpinionStep DEF SkipPackages
<1>5. CASE NotListed(d)
  BY <1>1, <1>2, <1>5, OpinionStep DEF NotListed
<1>6. CASE InspectTranslation(d)
  BY <1>1, <1>2, <1>6, OpinionStep DEF InspectTranslation
<1>7. CASE InspectCommands(d)
  BY <1>1, <1>2, <1>7, OpinionStep DEF InspectCommands
<1>8. CASE InspectDeb(d)
  BY <1>1, <1>2, <1>8, OpinionStep DEF InspectDeb
<1>9. CASE SkipLast(d)
  BY <1>1, <1>2, <1>9, OpinionStep DEF SkipLast
<1> QED
  BY <1>3, <1>4, <1>5, <1>6, <1>7, <1>8, <1>9

\* A panic leaves the downloads and the maps as they are.
LEMMA PanicStep ==
  ASSUME Inv, NEW d \in Downloads, Panic(d)
  PROVE  Inv'
BY DEF Panic, Inv, TypeOK, OwnInv, LearntInv, ReleaseInv, ValidatedInv, KnownInv, Held, Listed

\* CompleteInspection: what is put on record as approved was vouched for.
LEMMA CompleteInspectionStep ==
  ASSUME Inv, NEW d \in Downloads, CompleteInspection(d)
  PROVE  Inv'
<1> DEFINE x == dl[d]
           f == x.file
           result == IF x.claimed /\ x.approved /\ ~x.rejected THEN "Approved" ELSE "Rejected"
           y == [x EXCEPT !.step = "done", !.result = result]
<1>1. /\ TypeOK /\ x \in Download /\ x.step = "finish" /\ f \in Files
      /\ OwnInv(x) /\ LearntInv(x)
  BY DEF Inv, TypeOK, CompleteInspection, At, OwnInv, Started
<1>2. /\ UNCHANGED <<permissive, release, packages, loaded, validated, crashed>>
      /\ known' = [known EXCEPT ![f] = IF known[f] = "none" THEN result ELSE known[f]]
      /\ dl' = [dl EXCEPT ![d] = y]
  BY <1>1 DEF CompleteInspection, TypeOK, Download
<1>3. result \in {"Approved", "Rejected"} /\ (result = "Approved" => x.approved /\ ~x.rejected)
  OBVIOUS
<1> HIDE DEF result
<1>4. /\ y \in Download /\ Same(x, y) /\ Firmer(x, y) /\ SameLearnt(x, y) /\ y.step = "done"
      /\ y.result = result /\ y.approved = x.approved
  BY <1>1, <1>3 DEF Download, Same, Firmer, SameLearnt, Steps
<1> HIDE DEF y
<1>5. Step(d) /\ dl'[d] = y
  BY <1>1, <1>2, <1>4 DEF Step, TypeOK, Started
<1>6. OwnInv(dl[d])'
  BY <1>1, <1>3, <1>4, <1>5 DEF OwnInv, Same, SameLearnt, Started
<1>7. LearntInv(dl[d])'
  BY <1>4, <1>5, LearntKept
<1>8. ASSUME NEW g \in Files, known'[g] # known[g] PROVE KnownInv(g)'
  <2>1. g = f /\ known'[g] = result
    BY <1>1, <1>2, <1>8 DEF TypeOK
  <2>2. result = "Approved" =>
          (Kind(f) = "deb" => Listed(f)) /\ (Kind(f) = "translation" => parseTranslationFile(f))
    BY <1>1, <1>3 DEF OwnInv, LearntInv
  <2>3. \A h : Listed(h) => Listed(h)'
    BY <1>5, Stable
  <2> QED
    BY <2>1, <2>2, <2>3 DEF KnownInv
<1>9. SharedType'
  BY <1>1, <1>2, <1>3 DEF TypeOK, SharedType
<1> QED
  BY <1>2, <1>5, <1>6, <1>7, <1>8, <1>9, Frame

-----------------------------------------------------------------------------
(* What the Translation parser accepts, by induction on the lines          *)

\* g gives the state of the Translation parser after each set of lines; FoldLeft
\* is defined through such a function.
Fold(g, lines, S) ==
  g = [s \in SUBSET S |->
         IF s = {} THEN TranslationStart
         ELSE TranslationLine(g[s \ {Max(s)}], lines[Max(s)])]

\* A set of numbers has a least one: induction in the form that the provers can
\* use.
LEMMA LeastNatural ==
  ASSUME NEW T, T \subseteq Nat, T # {}
  PROVE  \E m \in T : \A k \in T : m <= k
<1>1. PICK m \in T : \A k \in T : <<k, m>> \notin OpToRel(<, Nat)
  BY WFMin, NatLessThanWellFounded
<1>2. ASSUME NEW k \in T PROVE m <= k
  <2>1. m \in Nat /\ k \in Nat
    OBVIOUS
  <2>2. ~(k < m)
    BY <1>1, <2>1 DEF OpToRel
  <2> QED
    BY <2>1, <2>2
<1> QED
  BY <1>2

\* The largest of some numbers up to n is one of them.
LEMMA MaxFact ==
  ASSUME NEW n \in Nat, NEW s \in SUBSET (1 .. n), s # {}
  PROVE  Max(s) \in s /\ \A y \in s : y <= Max(s)
<1> DEFINE T == {n - k : k \in s}
<1>1. T \subseteq Nat /\ T # {}
  <2>1. \A k \in s : n - k \in Nat
    OBVIOUS
  <2>2. T \subseteq Nat
    BY <2>1
  <2>3. PICK k \in s : TRUE
    OBVIOUS
  <2>4. n - k \in T
    OBVIOUS
  <2> QED
    BY <2>2, <2>4
<1>2. PICK m \in T : \A k \in T : m <= k
  BY <1>1, LeastNatural
<1>3. PICK x \in s : m = n - x
  BY <1>2
<1>4. \A y \in s : x >= y
  <2> SUFFICES ASSUME NEW y \in s PROVE x >= y
    OBVIOUS
  <2>1. n - y \in T
    OBVIOUS
  <2>2. n - x <= n - y
    BY <1>2, <1>3, <2>1
  <2>3. x \in 1 .. n /\ y \in 1 .. n
    OBVIOUS
  <2> QED
    BY <2>2, <2>3
<1>5. Max(s) \in s /\ \A y \in s : Max(s) >= y
  BY <1>4 DEF Max
<1>6. \A y \in s : y \in 1 .. n
  OBVIOUS
<1> QED
  BY <1>5, <1>6

\* The function that FoldLeft is defined through exists.
LEMMA FoldExists ==
  ASSUME NEW lines, NEW n \in Nat
  PROVE  \E g : Fold(g, lines, 1 .. n)
<1> DEFINE T == {k \in Nat : ~ \E g : Fold(g, lines, 1 .. k)}
<1> SUFFICES ASSUME T # {} PROVE FALSE
  OBVIOUS
<1>1. PICK m \in T : \A k \in T : m <= k
  BY LeastNatural
<1>2. CASE m = 0
  <2> DEFINE g == [s \in SUBSET (1 .. 0) |-> TranslationStart]
  <2>1. SUBSET (1 .. 0) = {{}}
    OBVIOUS
  <2>2. Fold(g, lines, 1 .. 0)
    BY <2>1 DEF Fold
  <2> QED
    BY <1>1, <1>2, <2>2
<1>3. CASE m # 0
  <2>1. PICK g : Fold(g, lines, 1 .. (m - 1))
    BY <1>1, <1>3
  <2> DEFINE h == [s \in SUBSET (1 .. m) |->
                    IF m \in s THEN TranslationLine(g[s \ {m}], lines[m]) ELSE g[s]]
  <2>2. ASSUME NEW s \in SUBSET (1 .. m)
        PROVE  h[s] = IF s = {} THEN TranslationStart
                      ELSE TranslationLine(h[s \ {Max(s)}], lines[Max(s)])
    <3>0. m \in Nat /\ m - 1 \in Nat
      BY <1>1, <1>3
    <3>1. CASE m \in s
      <4>1. Max(s) = m
        <5>1. Max(s) \in s /\ m <= Max(s)
          BY <3>0, <3>1, MaxFact
        <5>2. Max(s) \in 1 .. m
          BY <5>1
        <5> QED
          BY <3>0, <5>1, <5>2
      <4>2. s \ {m} \in SUBSET (1 .. (m - 1)) /\ s \ {m} \in SUBSET (1 .. m) /\ m \notin s \ {m}
        BY <3>0
      <4> QED
        BY <3>1, <4>1, <4>2
    <3>2. CASE m \notin s
      <4>1. s \in SUBSET (1 .. (m - 1))
        BY <3>0, <3>2
      <4>2. g[s] = IF s = {} THEN TranslationStart
                   ELSE TranslationLine(g[s \ {Max(s)}], lines[Max(s)])
        BY <2>1, <4>1 DEF Fold
      <4>3. s \ {Max(s)} \in SUBSET (1 .. m) /\ m \notin s \ {Max(s)}
        BY <3>2
      <4> QED
        BY <3>2, <4>2, <4>3
    <3> QED
      BY <3>1, <3>2
  <2> HIDE DEF h
  <2>3. h = [s \in SUBSET (1 .. m) |-> h[s]]
    BY DEF h
  <2>4. Fold(h, lines, 1 .. m)
    BY <2>2, <2>3 DEF Fold
  <2> QED
    BY <1>1, <2>4
<1> QED
  BY <1>2, <1>3

\* FoldLeft is its value for all lines.
LEMMA FoldLeftIs ==
  ASSUME NEW lines
  PROVE  FoldLeft(TranslationLine, TranslationStart, lines)
           = (CHOOSE g : Fold(g, lines, DOMAIN lines))[DOMAIN lines]
BY DEF FoldLeft, MapThenFoldSet, Fold

\* The parser goes from one line to the next.
LEMMA FoldStates ==
  ASSUME NEW lines \in Seq(STRING)
  PROVE  \E st : /\ st[0] = TranslationStart
                 /\ \A i \in 1 .. Len(lines) : st[i] = TranslationLine(st[i - 1], lines[i])
                 /\ st[Len(lines)] = FoldLeft(TranslationLine, TranslationStart, lines)
<1> DEFINE N == Len(lines)
           g == CHOOSE h : Fold(h, lines, DOMAIN lines)
           st == [i \in 0 .. N |-> g[1 .. i]]
<1>1. N \in Nat /\ DOMAIN lines = 1 .. N
  OBVIOUS
<1>2. Fold(g, lines, 1 .. N)
  BY <1>1, FoldExists
<1>3. FoldLeft(TranslationLine, TranslationStart, lines) = g[DOMAIN lines]
  BY FoldLeftIs
<1> HIDE DEF g
<1>4. \A s \in SUBSET (1 .. N) :
        g[s] = IF s = {} THEN TranslationStart
               ELSE TranslationLine(g[s \ {Max(s)}], lines[Max(s)])
  BY <1>2 DEF Fold
<1> HIDE DEF N
<1>5. st[0] = TranslationStart
  <2>1. 1 .. 0 = {} /\ {} \in SUBSET (1 .. N) /\ 0 \in 0 .. N
    BY <1>1
  <2> QED
    BY <1>4, <2>1
<1>6. ASSUME NEW i \in 1 .. N PROVE st[i] = TranslationLine(st[i - 1], lines[i])
  <2>1. i \in Nat /\ i \in 0 .. N /\ i - 1 \in 0 .. N /\ 1 .. i \in SUBSET (1 .. N) /\ i \in 1 .. i
    BY <1>1
  <2>2. Max(1 .. i) \in 1 .. i /\ i <= Max(1 .. i)
    BY <2>1, MaxFact
  <2>3. Max(1 .. i) = i /\ (1 .. i) \ {i} = 1 .. (i - 1) /\ 1 .. i # {}
    BY <2>1, <2>2
  <2>4. g[1 .. i] = TranslationLine(g[1 .. (i - 1)], lines[i])
    BY <1>4, <2>1, <2>3
  <2> QED
    BY <2>1, <2>4
<1>7. st[N] = FoldLeft(TranslationLine, TranslationStart, lines)
  BY <1>1, <1>3
<1> HIDE DEF st
<1> QED
  BY <1>5, <1>6, <1>7 DEF N

\* The states of the Translation parser
TState == [package : BOOLEAN, md5 : BOOLEAN, desc : BOOLEAN, items : Nat, err : BOOLEAN]

\* Line i begins an entry that goes on at least up to line n.
Open(lines, i, n) == lines[i] = "Package" /\ \A h \in i .. n : lines[h] # ""

\* What the state says about the first n lines, unless there was an error
Scanned(s, lines, n) ==
  /\ s \in TState
  /\ ~s.err =>
       /\ s.items > 0 => WholeEntry(lines)
       /\ s.package => \E i \in 1 .. n : Open(lines, i, n)
       /\ s.md5 => \E i, j \in 1 .. n : /\ Open(lines, i, n) /\ i < j
                                        /\ lines[j] = "Description-md5"
       /\ s.desc => \E i, j, k \in 1 .. n : /\ Open(lines, i, n) /\ i < j /\ j < k
                                            /\ lines[j] = "Description-md5"
                                            /\ lines[k] = "Description-"

\* TranslationLine keeps it so.
LEMMA ScanStep ==
  ASSUME NEW lines \in Seq(STRING), NEW n \in 1 .. Len(lines), NEW s,
         Scanned(s, lines, n - 1)
  PROVE  Scanned(TranslationLine(s, lines[n]), lines, n)
<1> DEFINE l == lines[n]
           t == TranslationLine(s, l)
<1>1. /\ s \in TState /\ n \in Nat /\ n - 1 \in Nat
      /\ Len(lines) \in Nat /\ DOMAIN lines = 1 .. Len(lines)
  BY DEF Scanned
<1> SUFFICES Scanned(t, lines, n)
  OBVIOUS
<1>2. CASE s.err
  <2>1. t = s
    BY <1>2 DEF TranslationLine
  <2> QED
    BY <1>1, <1>2, <2>1 DEF Scanned
<1>3. CASE ~s.err /\ l = ""
  <2>1. t = [TranslationStart EXCEPT !.items = s.items + IF s.desc THEN 1 ELSE 0]
    BY <1>3 DEF TranslationLine
  <2> HIDE DEF t
  <2>2. t \in TState /\ ~t.package /\ ~t.md5 /\ ~t.desc /\ (t.items > 0 => s.items > 0 \/ s.desc)
    <3>1. t = [package |-> FALSE, md5 |-> FALSE, desc |-> FALSE,
               items |-> s.items + IF s.desc THEN 1 ELSE 0, err |-> FALSE]
      BY <2>1 DEF TranslationStart
    <3>2. s.items \in Nat
      BY <1>1 DEF TState
    <3> QED
      BY <3>1, <3>2 DEF TState
  <2>3. ASSUME s.desc PROVE WholeEntry(lines)
    <3>1. PICK i \in 1 .. n - 1, j \in 1 .. n - 1, k \in 1 .. n - 1 :
              /\ Open(lines, i, n - 1) /\ i < j /\ j < k
              /\ lines[j] = "Description-md5" /\ lines[k] = "Description-"
      BY <1>3, <2>3 DEF Scanned
    <3>2. i \in DOMAIN lines /\ j \in DOMAIN lines /\ k \in DOMAIN lines
      BY <1>1
    <3>3. ASSUME NEW h \in i .. k PROVE lines[h] # ""
      <4>1. h \in i .. n - 1
        BY <1>1
      <4> QED
        BY <3>1, <4>1 DEF Open
    <3> QED
      BY <3>1, <3>2, <3>3 DEF WholeEntry, Open
  <2> QED
    BY <1>3, <2>2, <2>3 DEF Scanned
<1>4. CASE ~s.err /\ l # ""
  <2>1. /\ t \in TState /\ t.items = s.items
        /\ ~t.err => /\ t.package => s.package \/ l = "Package"
                     /\ t.md5 => s.md5 \/ (l = "Description-md5" /\ s.package)
                     /\ t.desc => s.desc \/ (l = "Description-" /\ s.md5)
    BY <1>1, <1>4 DEF TranslationLine, TState
  <2>2. ASSUME NEW i \in 1 .. n - 1, Open(lines, i, n - 1) PROVE Open(lines, i, n)
    <3>1. \A h \in i .. n : h \in i .. n - 1 \/ h = n
      BY <1>1
    <3> QED
      BY <1>4, <2>2, <3>1 DEF Open
  <2>3. l = "Package" => Open(lines, n, n)
    BY <1>1 DEF Open
  <2>4. 1 .. n - 1 \subseteq 1 .. n /\ n \in 1 .. n /\ \A j \in 1 .. n - 1 : j < n
    BY <1>1
  <2> HIDE DEF t
  <2>5. ~t.err /\ t.items > 0 => WholeEntry(lines)
    BY <1>4, <2>1 DEF Scanned
  <2>6. ~t.err /\ t.package => \E i \in 1 .. n : Open(lines, i, n)
    BY <1>4, <2>1, <2>2, <2>3, <2>4 DEF Scanned
  <2>7. ~t.err /\ t.md5 => \E i, j \in 1 .. n : /\ Open(lines, i, n) /\ i < j
                                                /\ lines[j] = "Description-md5"
    BY <1>4, <2>1, <2>2, <2>4 DEF Scanned
  <2>8. ~t.err /\ t.desc => \E i, j, k \in 1 .. n : /\ Open(lines, i, n) /\ i < j /\ j < k
                                                    /\ lines[j] = "Description-md5"
                                                    /\ lines[k] = "Description-"
    BY <1>4, <2>1, <2>2, <2>4 DEF Scanned
  <2> QED
    BY <2>1, <2>5, <2>6, <2>7, <2>8 DEF Scanned
<1> QED
  BY <1>2, <1>3, <1>4

\* A Translation file that parseTranslationFile accepts has a whole entry.
LEMMA WholeEntryRead ==
  ASSUME NEW f \in Files, Content[f].lines \in Seq(STRING), parseTranslationFile(f)
  PROVE  WholeEntry(Content[f].lines)
<1> DEFINE lines == Content[f].lines
           N == Len(lines)
<1>1. PICK st : /\ st[0] = TranslationStart
                /\ \A i \in 1 .. N : st[i] = TranslationLine(st[i - 1], lines[i])
                /\ st[N] = FoldLeft(TranslationLine, TranslationStart, lines)
  BY FoldStates
<1> DEFINE T == {i \in 0 .. N : ~Scanned(st[i], lines, i)}
<1>2. N \in Nat /\ T \subseteq Nat
  OBVIOUS
<1>3. ASSUME T # {} PROVE FALSE
  <2>1. PICK m \in T : \A k \in T : m <= k
    BY <1>2, <1>3, LeastNatural
  <2>2. Scanned(st[0], lines, 0)
    BY <1>1 DEF Scanned, TranslationStart, TState
  <2>3. m \in 1 .. N /\ m - 1 \in 0 .. N /\ m - 1 \notin T
    BY <1>2, <2>1, <2>2
  <2>4. Scanned(st[m - 1], lines, m - 1)
    BY <2>3
  <2>5. Scanned(st[m], lines, m)
    BY <1>1, <2>3, <2>4, ScanStep
  <2> QED
    BY <2>1, <2>5
<1>4. Scanned(st[N], lines, N)
  BY <1>2, <1>3
<1> QED
  BY <1>1, <1>4 DEF parseTranslationFile, Scanned

-----------------------------------------------------------------------------
(* The theorems                                                            *)

\* Every step of every inspection, whatever the others are doing meanwhile,
\* keeps the invariant.
LEMMA InvStep == Inv /\ [Next]_vars => Inv'
<1> SUFFICES ASSUME Inv, [Next]_vars PROVE Inv'
  OBVIOUS
<1>1. CASE UNCHANGED vars
  BY <1>1 DEF vars, Inv, TypeOK, OwnInv, LearntInv, ReleaseInv, ValidatedInv, KnownInv, Held, Listed
<1>2. ASSUME NEW d \in Downloads, InspectRequest(d) PROVE Inv'
  BY <1>2, InspectRequestStep
<1>3. ASSUME NEW d \in Downloads, NEW f \in Files, Respond(d, f) PROVE Inv'
  BY <1>3, RespondStep
<1>4. ASSUME NEW d \in Downloads, Inspect(d) PROVE Inv'
  BY <1>4, InspectReleaseStep, AddPackagesStep, ParsePackagesStep, LoadEntriesStep,
     ValidateDebianStep, GetPackagesEntryStep, CheckEntryStep, OpinionActions,
     PanicStep, CompleteInspectionStep DEF Inspect
<1> QED
  BY <1>1, <1>2, <1>3, <1>4 DEF Next

\* The invariant holds in every reachable state of the apt inspectors.
THEOREM Invariance == Spec => []Inv
<1>1. Init => Inv
  <2> SUFFICES ASSUME Init PROVE Inv
    OBVIOUS
  <2>1. Fresh \in Download
    BY DEF Fresh, Download, Steps
  <2>2. TypeOK
    BY <2>1 DEF Init, TypeOK
  <2>3. OwnInv(Fresh) /\ LearntInv(Fresh)
    BY DEF OwnInv, LearntInv, Fresh, Started
  <2> QED
    BY <2>2, <2>3 DEF Init, Inv, ReleaseInv, KnownInv
<1> QED
  BY <1>1, InvStep, PTL DEF Spec

\* The fields of the downloads and the shared maps keep their types.
THEOREM TypeCorrect == Spec => []TypeOK
<1>1. Inv => TypeOK
  BY DEF Inv
<1> QED
  BY <1>1, Invariance, PTL

\* An approved deb is listed in a validated Packages file, which is listed in an
\* approved Release file that a configured key signed: inspectors never approve
\* a package without this chain, however their inspections overlap.
THEOREM DebChain == Spec => []DebVouched
<1>1. Inv => DebVouched
  <2> SUFFICES ASSUME Inv, NEW f \in Files, known[f] = "Approved", Kind(f) = "deb"
               PROVE  \E p \in validated, e \in Downloads :
                        /\ f \in DOMAIN Entries(p) /\ Entries(p)[f].size = Content[f].size
                        /\ dl[e].approved /\ Kind(dl[e].file) = "release"
                        /\ p \in DOMAIN Entries(dl[e].file)
                        /\ \E c \in CfgNames : Signed(dl[e].file, c)
    BY DEF DebVouched
  <2>1. PICK p \in validated : f \in DOMAIN Entries(p) /\ Entries(p)[f].size = Content[f].size
    BY DEF Inv, KnownInv, Listed
  <2>2. PICK r \in Files : Held(r) /\ p \in DOMAIN Entries(r) /\ \E c \in CfgNames : Signed(r, c)
    BY DEF Inv, ValidatedInv
  <2>3. PICK e \in Downloads : dl[e].approved /\ dl[e].file = r /\ Kind(r) = "release"
    BY <2>2 DEF Held
  <2> QED
    BY <2>1, <2>2, <2>3
<1> QED
  BY <1>1, Invariance, PTL

\* An approved index file is listed in a Release file of its own suite that a key
\* of the suite signed, although that Release file came with another download and
\* may have been replaced since; an approved Translation file has a whole entry.
THEOREM IndexListed == Spec => []IndexVouched
<1>1. Inv => IndexVouched
  <2> SUFFICES ASSUME Inv PROVE IndexVouched
    OBVIOUS
  <2>1. \A d \in Downloads : OwnInv(dl[d])
    BY DEF Inv
  <2>2. ASSUME NEW d \in Downloads, dl[d].result = "Approved", Kind(dl[d].file) = "translation"
        PROVE  WholeEntry(Content[dl[d].file].lines)
    <3>1. dl[d].file \in Files /\ parseTranslationFile(dl[d].file)
      BY <2>1, <2>2 DEF OwnInv
    <3> QED
      BY <2>2, <3>1, WholeEntryRead, AptAssumption
  <2> QED
    BY <2>1, <2>2 DEF OwnInv, IndexVouched
<1> QED
  BY <1>1, Invariance, PTL
=============================================================================
