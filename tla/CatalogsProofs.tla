--------------------------- MODULE CatalogsProofs ---------------------------
(***************************************************************************)
(* Proofs about Catalogs for any lists, files and number of downloads.     *)
(***************************************************************************)
EXTENDS Catalogs, WellFoundedInduction, TLAPS

Started == {"idle", "upstream"}

\* In downloads D, an answer of the store to a question about packages of type t
\* is file f.
Answered(D, f, t) ==
  \E e \in Downloads :
    "store.info-api" \in D[e].approved /\ D[e].url.type = t /\ D[e].file = f

\* The store listed the bin package f.
BinListed(D, f) == \E a \in Files : Answered(D, a, "bins") /\ f \in Document[a].revisions

\* A products file lists image f under a path.
ImageOf(D, path, f) ==
  \E e \in Downloads :
    /\ "lxd.simple-streams-download" \in D[e].approved
    /\ \E p \in Document[D[e].file].products :
         p.path = path /\ p.sha256 = f /\ p.version \in SupportedVersions

\* What a download's own fields say about each other
OwnInv(d) ==
  LET x == dl[d]
  IN  /\ x.step # "idle" => x.url \in Urls
      /\ x.step \in Started => x.approved = {} /\ x.itemPath = None
      /\ x.step = "item" => x.url.path # None
      /\ x.step \notin Started \cup {"done"} => x.file \in Files
      /\ x.approved # {} => x.file \in Files
      /\ "pip.wheel" \in x.approved => wheel(Body(d)) = "Approved"

\* What it learnt from other downloads.  A bin package that store.info-api did
\* not reject is listed before bld.bin looks at it.
LearntInv(d) ==
  LET x == dl[d]
  IN  /\ x.step = "formats" /\ ~x.rejected /\ Runs(d, "store.info-api")
           /\ binMetadata(Body(d)) = "complete" => BinListed(dl, x.file)
      /\ "bld.bin" \in x.approved /\ ~x.rejected => BinListed(dl, x.file)
      /\ x.itemPath # None /\ ~x.rejected => ImageOf(dl, x.url.path, x.file)
      /\ "lxd.rootfs" \in x.approved /\ ~x.rejected => ImageOf(dl, x.url.path, x.file)

IdsInv(p) == ids[p].file # None => Answered(dl, ids[p].file, ids[p].type)

ItemsInv(p) == items[p] # None => ImageOf(dl, p, items[p])

Inv ==
  /\ TypeOK
  /\ \A d \in Downloads : OwnInv(d) /\ LearntInv(d)
  /\ \A p \in PackageIDs : IdsInv(p)
  /\ \A p \in Paths : ItemsInv(p)

-----------------------------------------------------------------------------
(* What a step of one download leaves as it was                            *)

\* The part of TypeOK that is not about downloads
SharedType ==
  /\ permissive \in Policies
  /\ ids \in [PackageIDs -> [type : {"bins", "charms", "none"}, file : Files \cup {None}]]
  /\ items \in [Paths -> Files \cup {None}]
  /\ known \in [Files -> {"none", "Approved", "Rejected"}]
  /\ crashed \in BOOLEAN

\* Opinions are not taken back, and a response that is there does not change.
Step(d) ==
  /\ dl' \in [Downloads -> Download]
  /\ \A e \in Downloads : e # d => dl'[e] = dl[e]
  /\ dl[d].approved \subseteq dl'[d].approved
  /\ dl[d].rejected => dl'[d].rejected
  /\ dl[d].step \notin Started => /\ dl'[d].step \notin Started
                                  /\ dl'[d].url = dl[d].url /\ dl'[d].file = dl[d].file
  /\ UNCHANGED permissive

\* What was listed stays listed.
LEMMA Stable ==
  ASSUME Inv, NEW d \in Downloads, Step(d)
  PROVE  /\ \A f, t : Answered(dl, f, t) => Answered(dl', f, t)
         /\ \A f : BinListed(dl, f) => BinListed(dl', f)
         /\ \A path, f : ImageOf(dl, path, f) => ImageOf(dl', path, f)
<1>1. ASSUME NEW e \in Downloads, dl[e].approved # {}
      PROVE  /\ dl[e].approved \subseteq dl'[e].approved
             /\ dl'[e].url = dl[e].url /\ dl'[e].file = dl[e].file
  <2>1. CASE e # d
    BY <2>1 DEF Step
  <2>2. CASE e = d
    <3>1. dl[d].step \notin Started
      BY <1>1, <2>2 DEF Inv, OwnInv
    <3> QED
      BY <2>2, <3>1 DEF Step
  <2> QED
    BY <2>1, <2>2
<1>2. ASSUME NEW f, NEW t, Answered(dl, f, t) PROVE Answered(dl', f, t)
  BY <1>1, <1>2 DEF Answered
<1>3. ASSUME NEW f, BinListed(dl, f) PROVE BinListed(dl', f)
  BY <1>2, <1>3 DEF BinListed
<1>4. ASSUME NEW path, NEW f, ImageOf(dl, path, f) PROVE ImageOf(dl', path, f)
  BY <1>1, <1>4 DEF ImageOf
<1> QED
  BY <1>2, <1>3, <1>4

\* What one download does keeps the invariant if it keeps it for this download
\* and for what it notes for others.
LEMMA Frame ==
  ASSUME Inv, NEW d \in Downloads, Step(d), SharedType', OwnInv(d)', LearntInv(d)',
         \A p \in PackageIDs : ids'[p] = ids[p] \/ Answered(dl', ids'[p].file, ids'[p].type),
         \A p \in Paths : items'[p] = items[p] \/ ImageOf(dl', p, items'[p])
  PROVE  Inv'
<1>1. TypeOK'
  BY DEF TypeOK, SharedType, Step
<1>2. ASSUME NEW e \in Downloads, e # d PROVE OwnInv(e)' /\ LearntInv(e)'
  <2>1. dl'[e] = dl[e] /\ OwnInv(e) /\ LearntInv(e)
    BY <1>2 DEF Step, Inv
  <2>2. Body(e)' = Body(e) /\ \A i : Runs(e, i)' <=> Runs(e, i)
    BY <2>1 DEF Body, Runs, Step
  <2>3. OwnInv(e)'
    BY <2>1, <2>2 DEF OwnInv
  <2>4. LearntInv(e)'
    BY <2>1, <2>2, Stable DEF LearntInv
  <2> QED
    BY <2>3, <2>4
<1>3. ASSUME NEW p \in PackageIDs PROVE IdsInv(p)'
  <2>1. IdsInv(p)
    BY DEF Inv
  <2> QED
    BY <2>1, Stable DEF IdsInv
<1>4. ASSUME NEW p \in Paths PROVE ItemsInv(p)'
  <2>1. ItemsInv(p)
    BY DEF Inv
  <2> QED
    BY <2>1, Stable DEF ItemsInv
<1> QED
  BY <1>1, <1>2, <1>3, <1>4 DEF Inv

\* A step of an inspection: new opinions and notes have to be justified.
LEMMA Advance ==
  ASSUME Inv, NEW d \in Downloads, Step(d), SharedType',
         dl[d].step \notin Started \cup {"done"},
         /\ dl'[d].step = "item" => dl[d].url.path # None
         /\ dl'[d].step = "formats" /\ ~dl'[d].rejected /\ Runs(d, "store.info-api")
              /\ binMetadata(Body(d)) = "complete" => BinListed(dl, dl[d].file)
         /\ "pip.wheel" \in dl'[d].approved \ dl[d].approved => wheel(Body(d)) = "Approved"
         /\ "bld.bin" \in dl'[d].approved \ dl[d].approved /\ ~dl'[d].rejected =>
              BinListed(dl, dl[d].file)
         /\ "lxd.rootfs" \in dl'[d].approved \ dl[d].approved /\ ~dl'[d].rejected =>
              ImageOf(dl, dl[d].url.path, dl[d].file)
         /\ \/ dl'[d].itemPath = dl[d].itemPath \/ dl'[d].rejected
            \/ ImageOf(dl, dl[d].url.path, dl[d].file),
         \A p \in PackageIDs : ids'[p] = ids[p] \/ Answered(dl', ids'[p].file, ids'[p].type),
         \A p \in Paths : items'[p] = items[p] \/ ImageOf(dl', p, items'[p])
  PROVE  Inv'
<1>1. /\ OwnInv(d) /\ LearntInv(d) /\ dl'[d].url = dl[d].url /\ dl'[d].file = dl[d].file
      /\ dl'[d].step \notin Started
  BY DEF Inv, Step
<1>2. Body(d)' = Body(d) /\ \A i : Runs(d, i)' <=> Runs(d, i)
  BY <1>1 DEF Body, Runs, Step
<1>3. OwnInv(d)'
  BY <1>1, <1>2 DEF OwnInv, Started
<1>4. LearntInv(d)'
  <2>1. dl[d].rejected => dl'[d].rejected
    BY DEF Step
  <2> QED
    BY <1>1, <1>2, <2>1, Stable DEF LearntInv
<1> QED
  BY <1>3, <1>4, Frame

\* A step that changes nothing but the download.
LEMMA Alone ==
  ASSUME Inv, UNCHANGED <<permissive, ids, items, known>>, crashed' \in BOOLEAN
  PROVE  /\ SharedType'
         /\ \A p \in PackageIDs : ids'[p] = ids[p] \/ Answered(dl', ids'[p].file, ids'[p].type)
         /\ \A p \in Paths : items'[p] = items[p] \/ ImageOf(dl', p, items'[p])
BY DEF Inv, TypeOK, SharedType

\* Replacing the record of a download
LEMMA Replace ==
  ASSUME Inv, NEW d \in Downloads, NEW y \in Download, dl' = [dl EXCEPT ![d] = y]
  PROVE  dl'[d] = y /\ dl' \in [Downloads -> Download] /\ \A e \in Downloads : e # d => dl'[e] = dl[e]
BY DEF Inv, TypeOK

-----------------------------------------------------------------------------
(* The steps of a download                                                 *)

\* A request has no opinions on content yet.
LEMMA InspectRequestStep ==
  ASSUME Inv, NEW d \in Downloads, InspectRequest(d)
  PROVE  Inv'
<1>1. PICK u \in Asks[d], step \in {"upstream", "done"}, result \in {"none", "refused"} :
        dl' = [dl EXCEPT ![d].url = u, ![d].step = step, ![d].result = result]
  BY DEF InspectRequest
<1>2. /\ dl[d].step = "idle" /\ UNCHANGED <<permissive, ids, items, known, crashed>>
      /\ dl \in [Downloads -> Download] /\ dl[d] \in Download /\ u \in Urls /\ crashed \in BOOLEAN
  BY CatalogsAssumption DEF InspectRequest, At, Shared, Inv, TypeOK
<1> DEFINE y == [dl[d] EXCEPT !.url = u, !.step = step, !.result = result]
<1>3. /\ y \in Download /\ y.url = u /\ y.step = step /\ y.approved = dl[d].approved
      /\ y.rejected = dl[d].rejected /\ y.itemPath = dl[d].itemPath
  BY <1>2 DEF Download, Steps
<1>4. dl' = [dl EXCEPT ![d] = y]
  BY <1>1, <1>2
<1> HIDE DEF y
<1>5. dl'[d] = y /\ dl' \in [Downloads -> Download] /\ \A e \in Downloads : e # d => dl'[e] = dl[e]
  BY <1>3, <1>4, Replace
<1>6. dl[d].approved = {} /\ dl[d].itemPath = None
  BY <1>2 DEF Inv, OwnInv, Started
<1>7. Step(d)
  BY <1>2, <1>3, <1>5 DEF Step, Started
<1>8. OwnInv(d)' /\ LearntInv(d)'
  BY <1>2, <1>3, <1>5, <1>6 DEF OwnInv, LearntInv, Started
<1> QED
  BY <1>2, <1>7, <1>8, Alone, Frame

\* A file that store.info-api does not look at is no bin package.
LEMMA RespondStep ==
  ASSUME Inv, NEW d \in Downloads, Respond(d)
  PROVE  Inv'
<1>1. PICK f \in Serves[dl[d].url] :
        dl' = [dl EXCEPT ![d].file = f,
                         ![d].step = IF known[f] # "none" THEN "done"
                                     ELSE IF Document[f].mime \in {"json", "xz"} THEN "store"
                                     ELSE "formats",
                         ![d].result = IF known[f] = "none" THEN @ ELSE known[f]]
  BY DEF Respond
<1>2. /\ dl[d].step = "upstream" /\ UNCHANGED <<permissive, ids, items, known, crashed>>
      /\ dl \in [Downloads -> Download] /\ dl[d] \in Download /\ crashed \in BOOLEAN
      /\ known \in [Files -> {"none", "Approved", "Rejected"}]
  BY DEF Respond, At, Shared, Inv, TypeOK
<1>3. dl[d].url \in Urls /\ dl[d].approved = {} /\ dl[d].itemPath = None
  BY <1>2 DEF Inv, OwnInv, Started
<1>4. f \in Files
  BY <1>1, <1>3, CatalogsAssumption
<1> DEFINE step == IF known[f] # "none" THEN "done"
                   ELSE IF Document[f].mime \in {"json", "xz"} THEN "store" ELSE "formats"
           result == IF known[f] = "none" THEN dl[d].result ELSE known[f]
           y == [dl[d] EXCEPT !.file = f, !.step = step, !.result = result]
<1>5. step \in {"done", "store", "formats"} /\ result \in {"none", "refused", "Approved", "Rejected"}
  BY <1>2, <1>4 DEF Download
<1>6. step = "formats" => Document[f].mime # "xz"
  OBVIOUS
<1>7. dl' = [dl EXCEPT ![d] = y]
  BY <1>1, <1>2
<1> HIDE DEF step, result
<1>8. /\ y \in Download /\ y.url = dl[d].url /\ y.file = f /\ y.step = step
      /\ y.approved = {} /\ y.rejected = dl[d].rejected /\ y.itemPath = None
  BY <1>2, <1>3, <1>4, <1>5 DEF Download, Steps
<1> HIDE DEF y
<1>9. dl'[d] = y /\ dl' \in [Downloads -> Download] /\ \A e \in Downloads : e # d => dl'[e] = dl[e]
  BY <1>7, <1>8, Replace
<1>10. Step(d)
  BY <1>2, <1>3, <1>8, <1>9 DEF Step, Started
<1>11. step = "formats" => binMetadata(Document[f]) # "complete"
  BY <1>6 DEF binMetadata, Is
<1>12. OwnInv(d)' /\ LearntInv(d)'
  BY <1>3, <1>4, <1>5, <1>8, <1>9, <1>11 DEF OwnInv, LearntInv, Started, Body
<1> QED
  BY <1>2, <1>10, <1>12, Alone, Frame

\* What a step of an inspection does to the record of its download
Onward(x, y) ==
  /\ y \in Download /\ y.url = x.url /\ y.file = x.file /\ y.step \notin Started
  /\ x.approved \subseteq y.approved /\ (x.rejected => y.rejected)

LEMMA OnwardStep ==
  ASSUME Inv, NEW d \in Downloads, NEW y, dl[d].step \notin Started, Onward(dl[d], y),
         dl' = [dl EXCEPT ![d] = y], UNCHANGED permissive
  PROVE  Step(d) /\ dl'[d] = y
<1>1. y \in Download
  BY DEF Onward
<1>2. dl'[d] = y /\ dl' \in [Downloads -> Download] /\ \A e \in Downloads : e # d => dl'[e] = dl[e]
  BY <1>1, Replace
<1> QED
  BY <1>2 DEF Step, Onward

\* The records that the inspectors make
Approved(x, i, step) == [x EXCEPT !.approved = x.approved \cup {i}, !.step = step]

Rejected(x, step) == [x EXCEPT !.rejected = TRUE, !.step = step]

Passed(x, step) == [x EXCEPT !.step = step]

LEMMA ApprovedRecord ==
  ASSUME NEW x \in Download, NEW step \in Steps \ Started, NEW i \in Inspectors
  PROVE  LET y == Approved(x, i, step)
         IN  /\ Onward(x, y) /\ y.step = step /\ y.approved = x.approved \cup {i}
             /\ y.rejected = x.rejected /\ y.itemPath = x.itemPath
<1> DEFINE y == Approved(x, i, step)
<1>1. y \in Download
  <2>1. x.approved \cup {i} \in SUBSET Inspectors /\ step \in Steps
    BY DEF Download
  <2> QED
    BY <2>1 DEF Download, Approved
<1>2. /\ y.url = x.url /\ y.file = x.file /\ y.step = step /\ y.approved = x.approved \cup {i}
      /\ y.rejected = x.rejected /\ y.itemPath = x.itemPath
  BY DEF Download, Approved
<1> QED
  BY <1>1, <1>2 DEF Onward

LEMMA RejectedRecord ==
  ASSUME NEW x \in Download, NEW step \in Steps \ Started
  PROVE  LET y == Rejected(x, step)
         IN  /\ Onward(x, y) /\ y.step = step /\ y.approved = x.approved
             /\ y.rejected /\ y.itemPath = x.itemPath
<1> DEFINE y == Rejected(x, step)
<1>1. y \in Download
  BY DEF Download, Rejected
<1>2. /\ y.url = x.url /\ y.file = x.file /\ y.step = step /\ y.approved = x.approved
      /\ y.rejected /\ y.itemPath = x.itemPath
  BY DEF Download, Rejected
<1> QED
  BY <1>1, <1>2 DEF Onward

LEMMA PassedRecord ==
  ASSUME NEW x \in Download, NEW step \in Steps \ Started
  PROVE  LET y == Passed(x, step)
         IN  /\ Onward(x, y) /\ y.step = step /\ y.approved = x.approved
             /\ y.rejected = x.rejected /\ y.itemPath = x.itemPath
<1> DEFINE y == Passed(x, step)
<1>1. y \in Download
  BY DEF Download, Passed
<1>2. /\ y.url = x.url /\ y.file = x.file /\ y.step = step /\ y.approved = x.approved
      /\ y.rejected = x.rejected /\ y.itemPath = x.itemPath
  BY DEF Download, Passed
<1> QED
  BY <1>1, <1>2 DEF Onward

\* store.info-api notes its own answers, and lets a bin package pass that one of
\* them lists.
LEMMA InspectStoreStep ==
  ASSUME Inv, NEW d \in Downloads, InspectStore(d)
  PROVE  Inv'
<1> DEFINE x == dl[d]
           runs == Runs(d, "store.info-api")
<1>1. /\ x \in Download /\ x.step = "store" /\ OwnInv(d) /\ TypeOK
      /\ x.step \notin Started \cup {"done"} /\ "formats" \in Steps \ Started
      /\ "finish" \in Steps \ Started /\ "store.info-api" \in Inspectors
  BY DEF Inv, TypeOK, InspectStore, At, Started, Steps, Inspectors, Stateful
<1>2. x.file \in Files /\ x.url \in Urls
  BY <1>1 DEF OwnInv, Started
<1>3. UNCHANGED <<permissive, items, known, crashed>>
  BY DEF InspectStore
<1>4. CASE /\ storeInfo(x.url, Body(d))
           /\ dl' = [dl EXCEPT ![d] = [Approve(d, "store.info-api") EXCEPT !.step = "formats"]]
           /\ ids' = setInfo(d)
  <2>1. PICK y : /\ y = Approved(x, "store.info-api", "formats")
                 /\ dl' = [dl EXCEPT ![d] = y]
    BY <1>1, <1>4 DEF Approve, Download, Approved
  <2>2. /\ Onward(x, y) /\ y.step = "formats" /\ y.approved = x.approved \cup {"store.info-api"}
        /\ y.itemPath = x.itemPath
    BY <1>1, <2>1, ApprovedRecord
  <2>3. Step(d) /\ dl'[d] = y
    BY <1>1, <1>3, <2>1, <2>2, OnwardStep
  <2>4. binMetadata(Body(d)) # "complete"
    BY <1>4 DEF storeInfo, binMetadata, Is
  <2>5. Body(d).name \in PackageIDs /\ x.url.type \in {"bins", "charms"}
    BY <1>2, <1>4, CatalogsAssumption DEF PackageIDs, storeInfo, Is, Body, Document
  <2>6. Answered(dl', x.file, x.url.type)
    BY <2>2, <2>3 DEF Answered, Onward
  <2>7. \A p \in PackageIDs : ids'[p] = ids[p] \/ Answered(dl', ids'[p].file, ids'[p].type)
    BY <1>1, <1>4, <2>6 DEF setInfo, TypeOK
  <2>8. SharedType'
    <3>1. ids' \in [PackageIDs -> [type : {"bins", "charms", "none"}, file : Files \cup {None}]]
      BY <1>1, <1>2, <1>4, <2>5 DEF setInfo, TypeOK
    <3> QED
      BY <1>1, <1>3, <3>1 DEF SharedType, TypeOK
  <2> QED
    BY <1>1, <1>3, <2>2, <2>3, <2>4, <2>7, <2>8, Advance
<1>5. CASE /\ binMetadata(Body(d)) = "complete" /\ UNCHANGED ids
           /\ \E p \in IF findInfo(x.file) = {} THEN {None} ELSE findInfo(x.file) :
                dl' = [dl EXCEPT ![d] = [validateBldBin(d, p) EXCEPT !.step = "formats"]]
  <2>1. PICK p \in IF findInfo(x.file) = {} THEN {None} ELSE findInfo(x.file) :
          dl' = [dl EXCEPT ![d] = [validateBldBin(d, p) EXCEPT !.step = "formats"]]
    BY <1>5
  <2> DEFINE y == [validateBldBin(d, p) EXCEPT !.step = "formats"]
  <2>2. CASE p # None /\ ids[p].type = "bins"
    <3>1. p \in PackageIDs /\ ids[p].file \in Files /\ x.file \in Document[ids[p].file].revisions
      BY <1>1, <2>2 DEF findInfo, TypeOK
    <3>2. Answered(dl, ids[p].file, "bins")
      BY <2>2, <3>1, CatalogsAssumption DEF Inv, IdsInv
    <3>3. BinListed(dl, x.file)
      BY <3>1, <3>2 DEF BinListed
    <3>4. y = [x EXCEPT !.revision = ids[p].file, !.step = "formats"]
      BY <1>1, <2>2 DEF validateBldBin, Download
    <3> HIDE DEF y
    <3>5. y \in Download
      BY <1>1, <3>1, <3>4 DEF Download
    <3>6. Onward(x, y) /\ y.step = "formats" /\ y.approved = x.approved /\ y.itemPath = x.itemPath
      BY <1>1, <3>4, <3>5 DEF Download, Onward
    <3>7. Step(d) /\ dl'[d] = y
      BY <1>1, <1>3, <2>1, <3>6, OnwardStep DEF y
    <3>8. /\ SharedType'
          /\ \A q \in PackageIDs : ids'[q] = ids[q] \/ Answered(dl', ids'[q].file, ids'[q].type)
          /\ \A q \in Paths : items'[q] = items[q] \/ ImageOf(dl', q, items'[q])
      BY <1>1, <1>3, <1>5, Alone DEF TypeOK
    <3> QED
      BY <1>1, <3>3, <3>6, <3>7, <3>8, Advance
  <2>3. CASE ~(p # None /\ ids[p].type = "bins")
    <3>1. PICK r : r = Rejected(x, "formats") /\ dl' = [dl EXCEPT ![d] = r]
      BY <1>1, <2>1, <2>3 DEF validateBldBin, Reject, Download, Rejected
    <3>2. /\ Onward(x, r) /\ r.approved = x.approved /\ r.rejected /\ r.itemPath = x.itemPath
          /\ r.step = "formats"
      BY <1>1, <3>1, RejectedRecord
    <3>3. Step(d) /\ dl'[d] = r
      BY <1>1, <1>3, <3>1, <3>2, OnwardStep
    <3>4. /\ SharedType'
          /\ \A q \in PackageIDs : ids'[q] = ids[q] \/ Answered(dl', ids'[q].file, ids'[q].type)
          /\ \A q \in Paths : items'[q] = items[q] \/ ImageOf(dl', q, items'[q])
      BY <1>1, <1>3, <1>5, Alone DEF TypeOK
    <3> QED
      BY <1>1, <3>2, <3>3, <3>4, Advance
  <2> QED
    BY <2>2, <2>3
<1>6. CASE UNCHANGED ids /\ dl' = [dl EXCEPT ![d] = Fail(d)]
  <2>1. PICK r : r = Rejected(x, "finish") /\ dl' = [dl EXCEPT ![d] = r]
    BY <1>1, <1>6 DEF Fail, Reject, Download, Rejected
  <2>2. /\ Onward(x, r) /\ r.step = "finish" /\ r.approved = x.approved
        /\ r.itemPath = x.itemPath
    BY <1>1, <2>1, RejectedRecord
  <2>3. Step(d) /\ dl'[d] = r
    BY <1>1, <1>3, <2>1, <2>2, OnwardStep
  <2>4. /\ SharedType'
        /\ \A q \in PackageIDs : ids'[q] = ids[q] \/ Answered(dl', ids'[q].file, ids'[q].type)
        /\ \A q \in Paths : items'[q] = items[q] \/ ImageOf(dl', q, items'[q])
    BY <1>1, <1>3, <1>6, Alone DEF TypeOK
  <2> QED
    BY <1>1, <2>2, <2>3, <2>4, Advance
<1>7. CASE /\ runs => binMetadata(Body(d)) = "none"
           /\ dl' = [dl EXCEPT ![d].step = "formats"]
           /\ UNCHANGED ids
  <2>1. PICK n : n = Passed(x, "formats") /\ dl' = [dl EXCEPT ![d] = n]
    BY <1>7 DEF Passed
  <2>2. Onward(x, n) /\ n.step = "formats" /\ n.approved = x.approved /\ n.itemPath = x.itemPath
    BY <1>1, <2>1, PassedRecord
  <2>3. Step(d) /\ dl'[d] = n
    BY <1>1, <1>3, <2>1, <2>2, OnwardStep
  <2>4. /\ SharedType'
        /\ \A q \in PackageIDs : ids'[q] = ids[q] \/ Answered(dl', ids'[q].file, ids'[q].type)
        /\ \A q \in Paths : items'[q] = items[q] \/ ImageOf(dl', q, items'[q])
    BY <1>1, <1>3, <1>7, Alone DEF TypeOK
  <2> QED
    BY <1>1, <1>7, <2>2, <2>3, <2>4, Advance
<1> QED
  BY <1>4, <1>5, <1>6, <1>7 DEF InspectStore

\* A step of an inspection after store.info-api that leaves what is shared alone
LEMMA Move ==
  ASSUME Inv, NEW d \in Downloads, NEW y, dl[d].step \notin Started \cup {"done"},
         Onward(dl[d], y), dl' = [dl EXCEPT ![d] = y], y.step # "formats",
         y.step = "item" => dl[d].url.path # None,
         UNCHANGED <<permissive, ids, items, known>>, crashed' \in BOOLEAN,
         "pip.wheel" \in y.approved \ dl[d].approved => wheel(Body(d)) = "Approved",
         "bld.bin" \in y.approved \ dl[d].approved /\ ~y.rejected => BinListed(dl, dl[d].file),
         "lxd.rootfs" \in y.approved \ dl[d].approved /\ ~y.rejected =>
           ImageOf(dl, dl[d].url.path, dl[d].file),
         y.itemPath = dl[d].itemPath \/ y.rejected \/ ImageOf(dl, dl[d].url.path, dl[d].file)
  PROVE  Inv'
<1>1. Step(d) /\ dl'[d] = y
  BY OnwardStep
<1>2. /\ SharedType'
      /\ \A p \in PackageIDs : ids'[p] = ids[p] \/ Answered(dl', ids'[p].file, ids'[p].type)
      /\ \A p \in Paths : items'[p] = items[p] \/ ImageOf(dl', p, items'[p])
  BY Alone
<1> QED
  BY <1>1, <1>2, Advance

\* A products file gives digests to the paths that it lists.
LEMMA InspectProductsStep ==
  ASSUME Inv, NEW d \in Downloads, InspectProducts(d)
  PROVE  Inv'
<1> DEFINE x == dl[d]
           images == extractSupportedUbuntuImages(Body(d))
           listed == {i[1] : i \in images}
<1>1. /\ x \in Download /\ x.step = "streams" /\ OwnInv(d) /\ TypeOK
      /\ x.step \notin Started \cup {"done"} /\ "last" \in Steps \ Started
      /\ "finish" \in Steps \ Started /\ "lxd.simple-streams-download" \in Inspectors
  BY DEF Inv, TypeOK, InspectProducts, At, Started, Steps, Inspectors, Stateful
<1>2. x.file \in Files /\ Body(d) = Content[x.file]
  BY <1>1 DEF OwnInv, Started, Body, Document
<1>3. UNCHANGED <<permissive, ids, known, crashed>>
  BY DEF InspectProducts
<1>4. CASE /\ \E new \in [listed -> {i[2] : i \in images}] :
                /\ \A p \in listed : <<p, new[p]>> \in images
                /\ items' = [p \in Paths |-> IF p \in listed THEN new[p] ELSE items[p]]
           /\ dl' = [dl EXCEPT ![d] =
                       [Approve(d, "lxd.simple-streams-download") EXCEPT !.step = "last"]]
  <2>1. PICK y : /\ y = Approved(x, "lxd.simple-streams-download", "last")
                 /\ dl' = [dl EXCEPT ![d] = y]
    BY <1>1, <1>4 DEF Approve, Download, Approved
  <2>2. /\ Onward(x, y) /\ y.step = "last"
        /\ y.approved = x.approved \cup {"lxd.simple-streams-download"}
        /\ y.itemPath = x.itemPath
    BY <1>1, <2>1, ApprovedRecord
  <2>3. Step(d) /\ dl'[d] = y
    BY <1>1, <1>3, <2>1, <2>2, OnwardStep
  <2>4. PICK new : /\ \A p \in listed : <<p, new[p]>> \in images
                   /\ items' = [p \in Paths |-> IF p \in listed THEN new[p] ELSE items[p]]
    BY <1>4
  <2>5. ASSUME NEW p \in listed
        PROVE  \E q \in Content[x.file].products :
                 /\ q.path = p /\ q.sha256 = new[p] /\ q.version \in SupportedVersions
                 /\ q.sha256 # None
    <3>1. <<p, new[p]>> \in images
      BY <2>4
    <3> QED
      BY <1>2, <3>1 DEF extractSupportedUbuntuImages
  <2>6. \A p \in Paths : items'[p] = items[p] \/ ImageOf(dl', p, items'[p])
    <3>1. ASSUME NEW p \in Paths, p \in listed PROVE ImageOf(dl', p, new[p])
      BY <1>2, <2>2, <2>3, <2>5, <3>1 DEF ImageOf, Onward, Document
    <3> HIDE DEF listed
    <3> QED
      BY <2>4, <3>1
  <2>7. items' \in [Paths -> Files \cup {None}]
    <3>1. ASSUME NEW p \in listed PROVE new[p] \in Files
      BY <1>2, <2>5, <3>1, CatalogsAssumption
    <3> HIDE DEF listed
    <3> QED
      BY <1>1, <2>4, <3>1 DEF TypeOK
  <2>8. SharedType'
    BY <1>1, <1>3, <2>7 DEF SharedType, TypeOK
  <2> QED
    BY <1>1, <1>3, <2>2, <2>3, <2>6, <2>8, Advance
<1>5. CASE UNCHANGED items /\ dl' = [dl EXCEPT ![d] = Fail(d)]
  <2>1. PICK r : r = Rejected(x, "finish") /\ dl' = [dl EXCEPT ![d] = r]
    BY <1>1, <1>5 DEF Fail, Reject, Download, Rejected
  <2>2. /\ Onward(x, r) /\ r.step = "finish" /\ r.approved = x.approved
        /\ r.itemPath = x.itemPath
    BY <1>1, <2>1, RejectedRecord
  <2> QED
    BY <1>1, <1>3, <1>5, <2>1, <2>2, Move DEF TypeOK
<1> QED
  BY <1>4, <1>5 DEF InspectProducts

\* Whether a products file was seen decides where the inspection goes on.
LEMMA MatchItemStep ==
  ASSUME Inv, NEW d \in Downloads, matchItemFromURL(d)
  PROVE  Inv'
<1> DEFINE x == dl[d]
<1>1. PICK step \in {"item", "last"} : dl' = [dl EXCEPT ![d].step = step]
  BY DEF matchItemFromURL
<1>2. /\ x \in Download /\ TypeOK /\ x.step \notin Started \cup {"done"}
      /\ step \in Steps \ Started /\ step # "formats"
      /\ UNCHANGED <<permissive, ids, items, known, crashed>>
  BY DEF Inv, TypeOK, matchItemFromURL, At, Started, Steps, Shared
<1>3. x.url.path # None
  BY DEF matchItemFromURL, isItem
<1>4. PICK n : n = Passed(x, step) /\ dl' = [dl EXCEPT ![d] = n]
  BY <1>1 DEF Passed
<1>5. Onward(x, n) /\ n.step = step /\ n.approved = x.approved /\ n.itemPath = x.itemPath
  BY <1>2, <1>4, PassedRecord
<1> QED
  BY <1>2, <1>3, <1>4, <1>5, Move DEF TypeOK

\* The digest that is compared is one that a products file gave for the path.
LEMMA ProductItemStep ==
  ASSUME Inv, NEW d \in Downloads, inspectProductItem(d)
  PROVE  Inv'
<1> DEFINE x == dl[d]
           path == x.url.path
<1>1. /\ x \in Download /\ x.step = "item" /\ OwnInv(d) /\ TypeOK
      /\ x.step \notin Started \cup {"done"} /\ "last" \in Steps \ Started
      /\ UNCHANGED <<permissive, ids, items, known, crashed>>
  BY DEF Inv, TypeOK, inspectProductItem, At, Started, Steps, Shared
<1> DEFINE noted == IF items[path] \in {None, x.file} THEN path ELSE x.itemPath
           rejected == x.rejected \/ items[path] # x.file
<1>2. dl' = [dl EXCEPT ![d].itemPath = noted, ![d].rejected = rejected, ![d].step = "last"]
  BY DEF inspectProductItem
<1>3. x.file \in Files /\ x.url \in Urls
  BY <1>1 DEF OwnInv, Started
<1>4. path \in Paths \cup {None}
  BY <1>3 DEF Paths
<1>5. noted \in Paths \cup {None} /\ rejected \in BOOLEAN
  BY <1>1, <1>4 DEF Download
<1>6. ~rejected => ImageOf(dl, path, x.file)
  <2>1. SUFFICES ASSUME items[path] = x.file PROVE ImageOf(dl, path, x.file)
    OBVIOUS
  <2>2. path \in Paths
    BY <1>1, <1>4 DEF OwnInv
  <2>3. items[path] # None
    BY <1>3, <2>1, CatalogsAssumption
  <2> QED
    BY <2>1, <2>2, <2>3 DEF Inv, ItemsInv
<1> HIDE DEF noted, rejected
<1>7. PICK y : /\ y = [x EXCEPT !.itemPath = noted, !.rejected = rejected, !.step = "last"]
               /\ dl' = [dl EXCEPT ![d] = y]
  BY <1>1, <1>2 DEF TypeOK
<1>8. y \in Download
  BY <1>1, <1>5, <1>7 DEF Download
<1>9. y.step = "last" /\ y.approved = x.approved /\ y.rejected = rejected
  BY <1>1, <1>7 DEF Download
<1>10. Onward(x, y)
  BY <1>1, <1>7, <1>8, <1>9 DEF Onward, Download, rejected
<1> QED
  BY <1>1, <1>6, <1>7, <1>9, <1>10, Move DEF TypeOK

\* lxd.rootfs approves what has a path noted; lxd.instance-types comes after it.
LEMMA InspectLastStep ==
  ASSUME Inv, NEW d \in Downloads, InspectLast(d)
  PROVE  Inv'
<1> DEFINE x == dl[d]
<1>1. /\ x \in Download /\ x.step = "last" /\ LearntInv(d) /\ TypeOK
      /\ x.step \notin Started \cup {"done"}
      /\ UNCHANGED <<permissive, ids, items, known, crashed>>
  BY DEF Inv, TypeOK, InspectLast, At, Started, Shared
<1> DEFINE z == IF Runs(d, "lxd.rootfs") THEN rootfs(d) ELSE x
           types == IF Runs(d, "lxd.instance-types") /\ instanceTypes(x.url, Body(d)) = "Approved"
                      THEN {"lxd.instance-types"} ELSE {}
<1>2. /\ types \subseteq {"lxd.instance-types"}
      /\ dl' = [dl EXCEPT ![d] = [z EXCEPT !.approved = z.approved \cup types, !.step = "finish"]]
  BY DEF InspectLast
<1> HIDE DEF types
<1>3. z \in {x, Approve(d, "lxd.rootfs"), Reject(d)}
  BY DEF rootfs
<1>4. z = Approve(d, "lxd.rootfs") /\ z # x /\ z # Reject(d) /\ ~x.rejected =>
        ImageOf(dl, x.url.path, x.file)
  BY <1>1 DEF rootfs, LearntInv
<1> HIDE DEF z
<1>5. /\ z \in Download /\ z.url = x.url /\ z.file = x.file /\ z.itemPath = x.itemPath
      /\ x.approved \subseteq z.approved /\ (x.rejected => z.rejected)
      /\ z.approved \subseteq x.approved \cup {"lxd.rootfs"}
      /\ "lxd.rootfs" \in z.approved \ x.approved /\ ~z.rejected => ImageOf(dl, x.url.path, x.file)
  <2>1. CASE z = x
    BY <1>1, <2>1
  <2>2. CASE z = Reject(d)
    BY <1>1, <2>2 DEF Reject, Download
  <2>3. CASE z = Approve(d, "lxd.rootfs") /\ z # x /\ z # Reject(d)
    <3>1. x.approved \cup {"lxd.rootfs"} \in SUBSET Inspectors
      BY <1>1 DEF Inspectors, Stateful, Download
    <3>2. z = [x EXCEPT !.approved = x.approved \cup {"lxd.rootfs"}]
      BY <1>1, <2>3 DEF Approve, Download
    <3>3. z \in Download
      BY <1>1, <3>1, <3>2 DEF Download
    <3>4. /\ z.url = x.url /\ z.file = x.file /\ z.itemPath = x.itemPath /\ z.rejected = x.rejected
          /\ z.approved = x.approved \cup {"lxd.rootfs"}
      BY <1>1, <3>2 DEF Download
    <3> QED
      BY <1>4, <2>3, <3>3, <3>4
  <2> QED
    BY <1>3, <2>1, <2>2, <2>3
<1>6. PICK y : /\ y = [z EXCEPT !.approved = z.approved \cup types, !.step = "finish"]
               /\ dl' = [dl EXCEPT ![d] = y]
  BY <1>2
<1>7. y \in Download
  <2>1. z.approved \cup types \in SUBSET Inspectors
    BY <1>2, <1>5 DEF Inspectors, Stateful, Download
  <2>2. "finish" \in Steps
    BY DEF Steps
  <2> QED
    BY <1>5, <1>6, <2>1, <2>2 DEF Download
<1>8. /\ y.url = z.url /\ y.file = z.file /\ y.itemPath = z.itemPath /\ y.rejected = z.rejected
      /\ y.approved = z.approved \cup types /\ y.step = "finish"
  BY <1>5, <1>6 DEF Download
<1>9. Onward(x, y) /\ y.approved \subseteq z.approved \cup {"lxd.instance-types"}
  BY <1>2, <1>5, <1>7, <1>8 DEF Onward, Started
<1>10. /\ "pip.wheel" \notin y.approved \ x.approved
       /\ "bld.bin" \notin y.approved \ x.approved
       /\ "lxd.rootfs" \in y.approved \ x.approved /\ ~y.rejected => ImageOf(dl, x.url.path, x.file)
       /\ y.itemPath = x.itemPath
  BY <1>5, <1>8, <1>9
<1> QED
  BY <1>1, <1>6, <1>8, <1>9, <1>10, Move DEF TypeOK

\* The end of an inspection changes no opinion.
LEMMA CompleteInspectionStep ==
  ASSUME Inv, NEW d \in Downloads, CompleteInspection(d)
  PROVE  Inv'
<1> DEFINE x == dl[d]
<1>1. /\ x \in Download /\ x.step = "finish" /\ OwnInv(d) /\ TypeOK
      /\ x.step \notin Started \cup {"done"}
      /\ UNCHANGED <<permissive, ids, items, crashed>>
  BY DEF Inv, TypeOK, CompleteInspection, At, Started
<1>2. verdict(x) \in {"Approved", "Rejected"}
  BY DEF verdict
<1>3. PICK y : y = [x EXCEPT !.step = "done", !.result = verdict(x)] /\ dl' = [dl EXCEPT ![d] = y]
  BY DEF CompleteInspection
<1>4. y \in Download
  BY <1>1, <1>2, <1>3 DEF Download, Steps
<1>5. /\ y.url = x.url /\ y.file = x.file /\ y.itemPath = x.itemPath /\ y.rejected = x.rejected
      /\ y.approved = x.approved /\ y.step = "done"
  BY <1>1, <1>3 DEF Download
<1>6. Onward(x, y)
  BY <1>4, <1>5 DEF Onward, Started
<1>7. Step(d) /\ dl'[d] = y
  BY <1>1, <1>3, <1>6, OnwardStep
<1>8. known' \in [Files -> {"none", "Approved", "Rejected"}]
  BY <1>1, <1>2 DEF CompleteInspection, TypeOK
<1>9. /\ SharedType'
      /\ \A p \in PackageIDs : ids'[p] = ids[p] \/ Answered(dl', ids'[p].file, ids'[p].type)
      /\ \A p \in Paths : items'[p] = items[p] \/ ImageOf(dl', p, items'[p])
  BY <1>1, <1>8 DEF SharedType, TypeOK
<1> QED
  BY <1>1, <1>5, <1>7, <1>9, Advance

-----------------------------------------------------------------------------
(* The inspectors that look at one file                                    *)

\* A set of numbers has a least one: induction in the form that the provers can
\* use.
LEMMA LeastNatural ==
  ASSUME NEW T, T \subseteq Nat, T # {}
  PROVE  \E m \in T : \A k \in T : m <= k
<1>1. PICK m \in T : \A k \in T : <<k, m>> \notin OpToRel(<, Nat)
  BY WFMin, NatLessThanWellFounded
<1>2. ASSUME NEW k \in T PROVE m <= k
  <2>1. m \in Nat /\ k \in Nat
    OBVIOUS
  <2>2. ~(k < m)
    BY <1>1, <2>1 DEF OpToRel
  <2> QED
    BY <2>1, <2>2
<1> QED
  BY <1>2

\* What bld.bin is asked about is for store.info-api as well.
LEMMA BinForBoth ==
  ASSUME NEW d \in Downloads, Runs(d, "bld.bin")
  PROVE  Runs(d, "store.info-api")
<1> DEFINE u == dl[d].url
<1>1. CASE permissive
  BY <1>1 DEF Runs
<1>2. CASE "bld.bin" \in PendingFor(u)
  <2>1. u.configured
    BY <1>2 DEF PendingFor
  <2>2. "bld.bin" \in binRequest(u)
    <3>1. "bld.bin" \notin storeRequest(u)
      BY DEF storeRequest
    <3>2. "bld.bin" \notin chiselRequest(u) /\ "bld.bin" \notin cargoRequest(u)
      BY DEF chiselRequest, cargoRequest
    <3>3. "bld.bin" \notin lxdRequest(u)
      BY DEF lxdRequest
    <3> QED
      BY <1>2, <2>1, <3>1, <3>2, <3>3 DEF PendingFor
  <2>3. "store.info-api" \in binRequest(u)
    BY <2>2 DEF binRequest
  <2>4. "store.info-api" \in PendingFor(u)
    BY <2>1, <2>3 DEF PendingFor
  <2> QED
    BY <2>4 DEF Runs
<1> QED
  BY <1>1, <1>2 DEF Runs

\* What an approval of an inspector that looks at one file rests on
LEMMA SaidApproved ==
  ASSUME NEW d \in Downloads, NEW brokenFirst, NEW i \in Said(opinions(d, brokenFirst), "Approved")
  PROVE  /\ i \in Inspectors /\ i \notin Stateful /\ Runs(d, i)
         /\ i = "bld.bin" => binMetadata(Body(d)) = "complete"
         /\ i = "pip.wheel" => wheel(Body(d)) = "Approved"
<1> DEFINE opinion == opinions(d, brokenFirst)
           f == Body(d)
<1>1. i \in Range(Formats) /\ opinion[i] = "Approved"
  BY DEF Said, Range
<1>2. /\ Runs(d, i) /\ Opinion(i, dl[d].url, f, brokenFirst) = "Approved"
  BY <1>1 DEF opinions
<1>3. i \notin Stateful
  BY <1>1 DEF Range, Formats, Stateful
<1>4. ASSUME i = "bld.bin" PROVE binMetadata(f) = "complete"
  <2>1. Opinion("bld.bin", dl[d].url, f, brokenFirst) = bldBin(f)
    BY DEF Opinion
  <2> QED
    BY <1>2, <1>4, <2>1 DEF bldBin
<1>5. ASSUME i = "pip.wheel" PROVE wheel(f) = "Approved"
  <2>1. Opinion("pip.wheel", dl[d].url, f, brokenFirst) = wheel(f)
    BY DEF Opinion
  <2> QED
    BY <1>2, <1>5, <2>1
<1> QED
  BY <1>1, <1>2, <1>3, <1>4, <1>5 DEF Inspectors

\* bld.bin approves after store.info-api had its say about the same file.
LEMMA InspectFormatsStep ==
  ASSUME Inv, NEW d \in Downloads, InspectFormats(d)
  PROVE  Inv'
<1> DEFINE x == dl[d]
<1>1. /\ x \in Download /\ x.step = "formats" /\ LearntInv(d) /\ TypeOK
      /\ x.step \notin Started \cup {"done"}
      /\ UNCHANGED <<permissive, ids, items, known>>
  BY DEF Inv, TypeOK, InspectFormats, At, Started
<1>2. PICK brokenFirst \in BOOLEAN :
        LET opinion == opinions(d, brokenFirst)
            stop == firstFailed(opinion)
        IN  /\ dl' = [dl EXCEPT ![d].approved = @ \cup Said(opinion, "Approved"),
                                ![d].rejected = @ \/ Said(opinion, "Rejected") # {} \/ stop # 0,
                                ![d].contentID = IF "bld.bin" \in Said(opinion, "Approved")
                                                   THEN packageID(d) ELSE @,
                                ![d].step = IF stop # 0 THEN "finish"
                                            ELSE IF isProducts(d) \/ isItem(d) THEN "streams"
                                            ELSE "last"]
            /\ crashed' = (stop # 0 /\ opinion[Formats[stop]] = "panic")
  BY DEF InspectFormats
<1> DEFINE opinion == opinions(d, brokenFirst)
           stop == firstFailed(opinion)
           good == Said(opinion, "Approved")
           rejected == x.rejected \/ Said(opinion, "Rejected") # {} \/ stop # 0
           contentID == IF "bld.bin" \in good THEN packageID(d) ELSE x.contentID
           step == IF stop # 0 THEN "finish"
                   ELSE IF isProducts(d) \/ isItem(d) THEN "streams" ELSE "last"
<1>3. PICK y : /\ y = [x EXCEPT !.approved = x.approved \cup good, !.rejected = rejected,
                                !.contentID = contentID, !.step = step]
               /\ dl' = [dl EXCEPT ![d] = y]
  <2>1. dl' = [dl EXCEPT ![d].approved = x.approved \cup good, ![d].rejected = rejected,
                         ![d].contentID = contentID, ![d].step = step]
    BY <1>2
  <2> HIDE DEF good, rejected, contentID, step
  <2> QED
    BY <1>1, <2>1 DEF TypeOK
<1>4. crashed' \in BOOLEAN
  BY <1>2
<1>5. \A i \in good : /\ i \in Inspectors /\ i \notin Stateful /\ Runs(d, i)
                      /\ i = "bld.bin" => binMetadata(Body(d)) = "complete"
                      /\ i = "pip.wheel" => wheel(Body(d)) = "Approved"
  BY SaidApproved
<1>6. /\ rejected \in BOOLEAN /\ (x.rejected => rejected)
      /\ step \in {"finish", "streams", "last"}
      /\ contentID \in PackageIDs \cup {""}
  BY <1>1 DEF packageID, Download
<1> HIDE DEF good, rejected, contentID, step
<1>7. y \in Download
  <2>1. x.approved \cup good \in SUBSET Inspectors /\ step \in Steps
    BY <1>1, <1>5, <1>6 DEF Download, Steps
  <2> QED
    BY <1>1, <1>3, <1>6, <2>1 DEF Download
<1>8. /\ y.url = x.url /\ y.file = x.file /\ y.itemPath = x.itemPath /\ y.rejected = rejected
      /\ y.approved = x.approved \cup good /\ y.step = step
  BY <1>1, <1>3 DEF Download
<1>9. Onward(x, y) /\ y.step # "formats" /\ y.step # "item"
  BY <1>6, <1>7, <1>8 DEF Onward, Started
<1>10. "pip.wheel" \in y.approved \ x.approved => wheel(Body(d)) = "Approved"
  BY <1>5, <1>8
<1>11. ASSUME "bld.bin" \in y.approved \ x.approved, ~y.rejected PROVE BinListed(dl, x.file)
  <2>1. Runs(d, "store.info-api") /\ binMetadata(Body(d)) = "complete" /\ ~x.rejected
    BY <1>5, <1>6, <1>8, <1>11, BinForBoth
  <2> QED
    BY <1>1, <2>1 DEF LearntInv
<1>12. "lxd.rootfs" \notin y.approved \ x.approved
  BY <1>5, <1>8 DEF Stateful
<1> QED
  BY <1>1, <1>3, <1>4, <1>8, <1>9, <1>10, <1>11, <1>12, Move

-----------------------------------------------------------------------------
(* The invariant                                                           *)

\* Nothing is noted and nothing has an opinion at first.
LEMMA InitInv == Init => Inv
<1> SUFFICES ASSUME Init PROVE Inv
  OBVIOUS
<1>1. Fresh \in Download
  BY DEF Fresh, Download, Steps
<1>2. TypeOK
  BY <1>1 DEF Init, TypeOK
<1>3. ASSUME NEW d \in Downloads PROVE OwnInv(d) /\ LearntInv(d)
  <2>1. /\ dl[d].step = "idle" /\ dl[d].approved = {} /\ dl[d].itemPath = None
    BY DEF Init, Fresh
  <2> QED
    BY <2>1 DEF OwnInv, LearntInv, Started
<1>4. /\ \A p \in PackageIDs : IdsInv(p)
      /\ \A p \in Paths : ItemsInv(p)
  BY DEF Init, IdsInv, ItemsInv
<1> QED
  BY <1>2, <1>3, <1>4 DEF Inv

\* Every step of a download keeps the invariant.
LEMMA InvStep == Inv /\ [Next]_vars => Inv'
<1> SUFFICES ASSUME Inv, [Next]_vars PROVE Inv'
  OBVIOUS
<1>1. CASE UNCHANGED vars
  <2>1. /\ dl' = dl /\ ids' = ids /\ items' = items /\ permissive' = permissive
        /\ TypeOK' = TypeOK
    BY <1>1 DEF vars, TypeOK
  <2>2. ASSUME NEW d \in Downloads PROVE OwnInv(d)' /\ LearntInv(d)'
    <3>1. OwnInv(d) /\ LearntInv(d)
      BY DEF Inv
    <3> QED
      BY <2>1, <3>1 DEF OwnInv, LearntInv, Body, Runs
  <2>3. /\ \A p \in PackageIDs : IdsInv(p)'
        /\ \A p \in Paths : ItemsInv(p)'
    BY <2>1 DEF Inv, IdsInv, ItemsInv
  <2> QED
    BY <2>1, <2>2, <2>3 DEF Inv
<1>2. ASSUME NEW d \in Downloads,
             \/ InspectRequest(d) \/ Respond(d) \/ InspectStore(d) \/ InspectFormats(d)
             \/ InspectProducts(d) \/ matchItemFromURL(d) \/ inspectProductItem(d)
             \/ InspectLast(d) \/ CompleteInspection(d)
      PROVE  Inv'
  BY <1>2, InspectRequestStep, RespondStep, InspectStoreStep, InspectFormatsStep,
     InspectProductsStep, MatchItemStep, ProductItemStep, InspectLastStep, CompleteInspectionStep
<1> QED
  BY <1>1, <1>2 DEF Next

\* Inv holds whatever the downloads are and in whatever order their steps come.
THEOREM Invariance == Spec => []Inv
<1>1. Init => Inv
  BY InitInv
<1>2. Inv /\ [Next]_vars => Inv'
  BY InvStep
<1> QED
  BY <1>1, <1>2, PTL DEF Spec

\* The state of the inspectors and of the downloads keeps its types.
THEOREM TypeCorrect == Spec => []TypeOK
<1>1. Inv => TypeOK
  BY DEF Inv
<1> QED
  BY <1>1, Invariance, PTL

\* Whatever the order of requests, answers and inspections, a bin package that
\* bld.bin approves and nothing rejects is listed by an answer about bins.
THEOREM BinChain == Spec => []BinVouched
<1>1. Inv => BinVouched
  <2> SUFFICES ASSUME Inv, NEW d \in Downloads, "bld.bin" \in dl[d].approved, ~dl[d].rejected
               PROVE  \E e \in Downloads :
                        /\ "store.info-api" \in dl[e].approved /\ dl[e].url.type = "bins"
                        /\ dl[d].file \in Body(e).revisions
    BY DEF BinVouched
  <2>1. BinListed(dl, dl[d].file)
    BY DEF Inv, LearntInv
  <2> QED
    BY <2>1 DEF BinListed, Answered, Body
<1> QED
  BY <1>1, Invariance, PTL

\* An image that lxd.rootfs approves, and that nothing rejected, is listed by a
\* products file of the session under its path, whatever other products files
\* replaced in between.
THEOREM ImageChain == Spec => []ImageListed
<1>1. Inv => ImageListed
  <2> SUFFICES ASSUME Inv, NEW d \in Downloads, "lxd.rootfs" \in dl[d].approved,
                      ~dl[d].rejected
               PROVE  \E e \in Downloads :
                        /\ "lxd.simple-streams-download" \in dl[e].approved
                        /\ \E p \in Body(e).products :
                             /\ p.path = dl[d].url.path /\ p.sha256 = dl[d].file
                             /\ p.version \in SupportedVersions
    BY DEF ImageListed
  <2>1. ImageOf(dl, dl[d].url.path, dl[d].file)
    BY DEF Inv, LearntInv
  <2> QED
    BY <2>1 DEF ImageOf, Body
<1> QED
  BY <1>1, Invariance, PTL

-----------------------------------------------------------------------------
(* Wheels                                                                  *)

\* The function that checkRecord's fold over the lines is defined through
Fold(g, start, lines, S) ==
  g = [s \in SUBSET S |->
         IF s = {} THEN start ELSE RecordLine(g[s \ {Max(s)}], lines[Max(s)])]

\* The largest of some numbers up to n is one of them.
LEMMA MaxFact ==
  ASSUME NEW n \in Nat, NEW s \in SUBSET (1 .. n), s # {}
  PROVE  Max(s) \in s /\ \A y \in s : y <= Max(s)
<1> DEFINE T == {n - k : k \in s}
<1>1. T \subseteq Nat /\ T # {}
  <2>1. \A k \in s : n - k \in Nat
    OBVIOUS
  <2>2. T \subseteq Nat
    BY <2>1
  <2>3. PICK k \in s : TRUE
    OBVIOUS
  <2>4. n - k \in T
    OBVIOUS
  <2> QED
    BY <2>2, <2>4
<1>2. PICK m \in T : \A k \in T : m <= k
  BY <1>1, LeastNatural
<1>3. PICK x \in s : m = n - x
  BY <1>2
<1>4. \A y \in s : x >= y
  <2> SUFFICES ASSUME NEW y \in s PROVE x >= y
    OBVIOUS
  <2>1. n - y \in T
    OBVIOUS
  <2>2. n - x <= n - y
    BY <1>2, <1>3, <2>1
  <2>3. x \in 1 .. n /\ y \in 1 .. n
    OBVIOUS
  <2> QED
    BY <2>2, <2>3
<1>5. Max(s) \in s /\ \A y \in s : Max(s) >= y
  BY <1>4 DEF Max
<1>6. \A y \in s : y \in 1 .. n
  OBVIOUS
<1> QED
  BY <1>5, <1>6

\* The function that FoldLeft is defined through exists.
LEMMA FoldExists ==
  ASSUME NEW start, NEW lines, NEW n \in Nat
  PROVE  \E g : Fold(g, start, lines, 1 .. n)
<1> DEFINE T == {k \in Nat : ~ \E g : Fold(g, start, lines, 1 .. k)}
<1> SUFFICES ASSUME T # {} PROVE FALSE
  OBVIOUS
<1>1. PICK m \in T : \A k \in T : m <= k
  BY LeastNatural
<1>2. CASE m = 0
  <2> DEFINE g == [s \in SUBSET (1 .. 0) |-> start]
  <2>1. SUBSET (1 .. 0) = {{}}
    OBVIOUS
  <2>2. Fold(g, start, lines, 1 .. 0)
    BY <2>1 DEF Fold
  <2> QED
    BY <1>1, <1>2, <2>2
<1>3. CASE m # 0
  <2>1. PICK g : Fold(g, start, lines, 1 .. (m - 1))
    BY <1>1, <1>3
  <2> DEFINE h == [s \in SUBSET (1 .. m) |->
                    IF m \in s THEN RecordLine(g[s \ {m}], lines[m]) ELSE g[s]]
  <2>2. ASSUME NEW s \in SUBSET (1 .. m)
        PROVE  h[s] = IF s = {} THEN start
                      ELSE RecordLine(h[s \ {Max(s)}], lines[Max(s)])
    <3>0. m \in Nat /\ m - 1 \in Nat
      BY <1>1, <1>3
    <3>1. CASE m \in s
      <4>1. Max(s) = m
        <5>1. Max(s) \in s /\ m <= Max(s)
          BY <3>0, <3>1, MaxFact
        <5>2. Max(s) \in 1 .. m
          BY <5>1
        <5> QED
          BY <3>0, <5>1, <5>2
      <4>2. s \ {m} \in SUBSET (1 .. (m - 1)) /\ s \ {m} \in SUBSET (1 .. m) /\ m \notin s \ {m}
        BY <3>0
      <4> QED
        BY <3>1, <4>1, <4>2
    <3>2. CASE m \notin s
      <4>1. s \in SUBSET (1 .. (m - 1))
        BY <3>0, <3>2
      <4>2. g[s] = IF s = {} THEN start
                   ELSE RecordLine(g[s \ {Max(s)}], lines[Max(s)])
        BY <2>1, <4>1 DEF Fold
      <4>3. s \ {Max(s)} \in SUBSET (1 .. m) /\ m \notin s \ {Max(s)}
        BY <3>2
      <4> QED
        BY <3>2, <4>2, <4>3
    <3> QED
      BY <3>1, <3>2
  <2> HIDE DEF h
  <2>3. h = [s \in SUBSET (1 .. m) |-> h[s]]
    BY DEF h
  <2>4. Fold(h, start, lines, 1 .. m)
    BY <2>2, <2>3 DEF Fold
  <2> QED
    BY <1>1, <2>4
<1> QED
  BY <1>2, <1>3

\* FoldLeft is its value for all lines.
LEMMA FoldLeftIs ==
  ASSUME NEW start, NEW lines
  PROVE  FoldLeft(RecordLine, start, lines)
           = (CHOOSE g : Fold(g, start, lines, DOMAIN lines))[DOMAIN lines]
BY DEF FoldLeft, MapThenFoldSet, Fold

\* checkRecord goes from one line to the next.
LEMMA FoldStates ==
  ASSUME NEW start, NEW lines, lines \in Seq(Range(lines))
  PROVE  \E st : /\ st[0] = start
                 /\ \A i \in 1 .. Len(lines) : st[i] = RecordLine(st[i - 1], lines[i])
                 /\ st[Len(lines)] = FoldLeft(RecordLine, start, lines)
<1> DEFINE N == Len(lines)
           g == CHOOSE h : Fold(h, start, lines, DOMAIN lines)
           st == [i \in 0 .. N |-> g[1 .. i]]
<1>1. N \in Nat /\ DOMAIN lines = 1 .. N
  OBVIOUS
<1>2. Fold(g, start, lines, 1 .. N)
  BY <1>1, FoldExists
<1>3. FoldLeft(RecordLine, start, lines) = g[DOMAIN lines]
  BY FoldLeftIs
<1> HIDE DEF g
<1>4. \A s \in SUBSET (1 .. N) :
        g[s] = IF s = {} THEN start
               ELSE RecordLine(g[s \ {Max(s)}], lines[Max(s)])
  BY <1>2 DEF Fold
<1> HIDE DEF N
<1>5. st[0] = start
  <2>1. 1 .. 0 = {} /\ {} \in SUBSET (1 .. N) /\ 0 \in 0 .. N
    BY <1>1
  <2> QED
    BY <1>4, <2>1
<1>6. ASSUME NEW i \in 1 .. N PROVE st[i] = RecordLine(st[i - 1], lines[i])
  <2>1. i \in Nat /\ i \in 0 .. N /\ i - 1 \in 0 .. N /\ 1 .. i \in SUBSET (1 .. N) /\ i \in 1 .. i
    BY <1>1
  <2>2. Max(1 .. i) \in 1 .. i /\ i <= Max(1 .. i)
    BY <2>1, MaxFact
  <2>3. Max(1 .. i) = i /\ (1 .. i) \ {i} = 1 .. (i - 1) /\ 1 .. i # {}
    BY <2>1, <2>2
  <2>4. g[1 .. i] = RecordLine(g[1 .. (i - 1)], lines[i])
    BY <1>4, <2>1, <2>3
  <2> QED
    BY <2>1, <2>4
<1>7. st[N] = FoldLeft(RecordLine, start, lines)
  BY <1>1, <1>3
<1> HIDE DEF st
<1> QED
  BY <1>5, <1>6, <1>7 DEF N

\* What is left of the members after n lines, each of which was for a member as
\* it is or was RECORD's own
Accounted(s, map, lines, n) ==
  /\ s = [left |-> s.left, rname |-> "RECORD", end |-> s.end]
  /\ s.end \in {"no", "fault", "panic"}
  /\ s.end = "no" =>
       /\ s.left = [m \in DOMAIN map \ {lines[i].name : i \in 1 .. n} |-> map[m]]
       /\ \A i \in 1 .. n :
            \/ lines[i].name = "RECORD"
            \/ /\ lines[i].name \in DOMAIN map
               /\ lines[i].digest = map[lines[i].name].digest
               /\ lines[i].size = map[lines[i].name].size

\* RecordLine stops at a line that is wrong, and otherwise strikes a member out.
LEMMA RecordLineFact ==
  ASSUME NEW s, NEW line, s = [left |-> s.left, rname |-> "RECORD", end |-> s.end]
  PROVE  LET t == RecordLine(s, line)
             present == line.name \in DOMAIN s.left
         IN  \/ s.end # "no" /\ t = s
             \/ t \in {[s EXCEPT !.end = "fault"], [s EXCEPT !.end = "panic"]}
             \/ /\ s.end = "no" /\ t = [s EXCEPT !.left = Without(s.left, line.name)]
                /\ \/ line.name = "RECORD"
                   \/ /\ present /\ line.digest = s.left[line.name].digest
                      /\ line.size = s.left[line.name].size
<1> DEFINE t == RecordLine(s, line)
           present == line.name \in DOMAIN s.left
           size == IF present THEN s.left[line.name].size ELSE 0
<1>1. CASE s.end # "no"
  <2>1. t = s
    BY <1>1 DEF RecordLine
  <2> QED
    BY <1>1, <2>1
<1>2. CASE s.end = "no" /\ line.alg = "malformed"
  <2>1. t = [s EXCEPT !.end = "fault"]
    BY <1>2 DEF RecordLine
  <2> QED
    BY <2>1
<1>3. CASE s.end = "no" /\ line.alg # "malformed" /\ line.alg = "" /\ line.name = s.rname
  <2>1. t = [s EXCEPT !.left = Without(s.left, line.name)]
    BY <1>3 DEF RecordLine
  <2>2. s.rname = "RECORD"
    OBVIOUS
  <2> QED
    BY <1>3, <2>1, <2>2
<1>4. CASE s.end = "no" /\ line.alg # "malformed" /\ ~(line.alg = "" /\ line.name = s.rname)
  <2>1. CASE line.size # size \/ line.alg # "sha256"
    BY <1>4, <2>1 DEF RecordLine
  <2>2. CASE ~(line.size # size \/ line.alg # "sha256") /\ line.digest = None
    BY <1>4, <2>2 DEF RecordLine
  <2>3. CASE /\ ~(line.size # size \/ line.alg # "sha256") /\ line.digest # None
             /\ ~present \/ s.left[line.name].digest # line.digest
    BY <1>4, <2>3 DEF RecordLine
  <2>4. CASE /\ ~(line.size # size \/ line.alg # "sha256") /\ line.digest # None
             /\ ~(~present \/ s.left[line.name].digest # line.digest)
    <3>1. t = [s EXCEPT !.left = Without(s.left, line.name)]
      BY <1>4, <2>4 DEF RecordLine
    <3> QED
      BY <1>4, <2>4, <3>1
  <2> QED
    BY <2>1, <2>2, <2>3, <2>4
<1> QED
  BY <1>1, <1>2, <1>3, <1>4

\* A line keeps what the state says about the lines before it.
LEMMA AccountedStep ==
  ASSUME NEW map, NEW lines, NEW n \in Nat \ {0}, NEW s, Accounted(s, map, lines, n - 1)
  PROVE  Accounted(RecordLine(s, lines[n]), map, lines, n)
<1> DEFINE line == lines[n]
           t == RecordLine(s, line)
           present == line.name \in DOMAIN s.left
<1>0. s = [left |-> s.left, rname |-> "RECORD", end |-> s.end]
  BY DEF Accounted
<1>1. \/ s.end # "no" /\ t = s
      \/ t \in {[s EXCEPT !.end = "fault"], [s EXCEPT !.end = "panic"]}
      \/ /\ s.end = "no" /\ t = [s EXCEPT !.left = Without(s.left, line.name)]
         /\ \/ line.name = "RECORD"
            \/ /\ present /\ line.digest = s.left[line.name].digest
               /\ line.size = s.left[line.name].size
  BY <1>0, RecordLineFact
<1> HIDE DEF t
<1> SUFFICES Accounted(t, map, lines, n)
  BY DEF t
<1>2. CASE s.end # "no" /\ t = s
  BY <1>2 DEF Accounted
<1>3. CASE t \in {[s EXCEPT !.end = "fault"], [s EXCEPT !.end = "panic"]}
  <2>1. \/ t = [left |-> s.left, rname |-> "RECORD", end |-> "fault"]
        \/ t = [left |-> s.left, rname |-> "RECORD", end |-> "panic"]
    BY <1>0, <1>3
  <2> QED
    BY <2>1 DEF Accounted
<1>4. CASE /\ s.end = "no" /\ t = [s EXCEPT !.left = Without(s.left, line.name)]
           /\ \/ line.name = "RECORD"
              \/ /\ present /\ line.digest = s.left[line.name].digest
                 /\ line.size = s.left[line.name].size
  <2>1. t = [left |-> Without(s.left, line.name), rname |-> "RECORD", end |-> "no"]
    BY <1>0, <1>4
  <2> DEFINE before == {lines[i].name : i \in 1 .. n - 1}
             after == {lines[i].name : i \in 1 .. n}
  <2>2. /\ s.left = [m \in DOMAIN map \ before |-> map[m]]
        /\ \A i \in 1 .. n - 1 :
             \/ lines[i].name = "RECORD"
             \/ /\ lines[i].name \in DOMAIN map
                /\ lines[i].digest = map[lines[i].name].digest
                /\ lines[i].size = map[lines[i].name].size
    BY <1>4 DEF Accounted
  <2>3. \A i : i \in 1 .. n <=> i \in 1 .. n - 1 \/ i = n
    OBVIOUS
  <2>4. after = before \cup {line.name}
    BY <2>3
  <2> HIDE DEF before, after
  <2>5. Without(s.left, line.name) = [m \in DOMAIN map \ after |-> map[m]]
    BY <2>2, <2>4 DEF Without
  <2>6. line.name = "RECORD" \/ /\ line.name \in DOMAIN map
                                /\ line.digest = map[line.name].digest
                                /\ line.size = map[line.name].size
    BY <1>4, <2>2
  <2>7. \A i \in 1 .. n :
          \/ lines[i].name = "RECORD"
          \/ /\ lines[i].name \in DOMAIN map
             /\ lines[i].digest = map[lines[i].name].digest
             /\ lines[i].size = map[lines[i].name].size
    BY <2>2, <2>3, <2>6
  <2> QED
    BY <2>1, <2>5, <2>7 DEF Accounted, after
<1> QED
  BY <1>1, <1>2, <1>3, <1>4

\* checkRecord has looked at every line when it is done.
LEMMA AllAccounted ==
  ASSUME NEW f, f.record \in Seq(Range(f.record)), checkRecord(f) \notin {"fault", "panic"}
  PROVE  LET map == fileMap(f.members)
         IN  /\ DOMAIN map \subseteq {f.record[i].name : i \in DOMAIN f.record}
             /\ \A i \in DOMAIN f.record :
                  \/ f.record[i].name = "RECORD"
                  \/ /\ f.record[i].name \in DOMAIN map
                     /\ f.record[i].digest = map[f.record[i].name].digest
                     /\ f.record[i].size = map[f.record[i].name].size
<1> DEFINE lines == f.record
           map == fileMap(f.members)
           start == [left |-> map, rname |-> "RECORD", end |-> "no"]
           N == Len(lines)
           s == FoldLeft(RecordLine, start, lines)
<1>1. N \in Nat /\ DOMAIN lines = 1 .. N
  OBVIOUS
<1>2. PICK st : /\ st[0] = start
                /\ \A i \in 1 .. N : st[i] = RecordLine(st[i - 1], lines[i])
                /\ st[N] = s
  BY FoldStates
<1>3. checkRecord(f) = IF s.end = "no" /\ DOMAIN s.left # {} THEN "fault" ELSE s.end
  BY DEF checkRecord
<1> HIDE DEF s
<1>4. Accounted(start, map, lines, 0)
  <2>1. {lines[i].name : i \in 1 .. 0} = {}
    OBVIOUS
  <2>2. map = [m \in DOMAIN map |-> map[m]]
    BY DEF fileMap
  <2> HIDE DEF map
  <2>3. map = [m \in DOMAIN map \ {lines[i].name : i \in 1 .. 0} |-> map[m]]
    BY <2>1, <2>2
  <2> QED
    BY <2>3 DEF Accounted
<1> HIDE DEF start, map, lines
<1>5. Accounted(s, map, lines, N)
  <2> DEFINE T == {i \in 0 .. N : ~Accounted(st[i], map, lines, i)}
  <2> SUFFICES ASSUME T # {} PROVE FALSE
    BY <1>1, <1>2
  <2>1. PICK m \in T : \A k \in T : m <= k
    <3>1. T \subseteq Nat
      BY <1>1
    <3> HIDE DEF T
    <3> QED
      BY <3>1, LeastNatural
  <2>2. m # 0
    BY <1>2, <1>4, <2>1
  <2>3. m \in Nat \ {0} /\ m \in 1 .. N /\ m - 1 \in 0 .. N /\ m - 1 \notin T
    BY <1>1, <2>1, <2>2
  <2>4. Accounted(st[m - 1], map, lines, m - 1)
    BY <2>3
  <2>5. Accounted(st[m], map, lines, m)
    BY <1>2, <2>3, <2>4, AccountedStep
  <2> QED
    BY <2>1, <2>5
<1>6. s.end = "no" /\ DOMAIN s.left = {}
  BY <1>3, <1>5 DEF Accounted
<1>7. DOMAIN map \subseteq {lines[i].name : i \in 1 .. N}
  BY <1>5, <1>6 DEF Accounted
<1> QED
  BY <1>1, <1>5, <1>6, <1>7 DEF Accounted, lines, map

\* fileMap gives a name the last member that has it.
LEMMA LastMember ==
  ASSUME NEW members, members \in Seq(Range(members)),
         NEW n \in {members[i].name : i \in DOMAIN members}
  PROVE  fileMap(members)[n] =
           members[CHOOSE i \in DOMAIN members :
                     /\ members[i].name = n
                     /\ \A j \in DOMAIN members : members[j].name = n => j <= i]
<1> DEFINE N == Len(members)
           T == {i \in 1 .. N : members[i].name = n}
           last == CHOOSE i \in DOMAIN members :
                     /\ members[i].name = n
                     /\ \A j \in DOMAIN members : members[j].name = n => j <= i
<1>1. N \in Nat /\ DOMAIN members = 1 .. N
  OBVIOUS
<1>2. T # {} /\ T \in SUBSET (1 .. N)
  BY <1>1
<1>3. Max(T) \in T /\ \A y \in T : y <= Max(T)
  <2> HIDE DEF T
  <2> QED
    BY <1>1, <1>2, MaxFact
<1>4. /\ last \in DOMAIN members /\ members[last].name = n
      /\ \A j \in DOMAIN members : members[j].name = n => j <= last
  BY <1>1, <1>3
<1> HIDE DEF last
<1>5. last = Max(T)
  <2>1. last \in T
    BY <1>1, <1>4
  <2>2. last <= Max(T) /\ Max(T) <= last
    BY <1>1, <1>3, <1>4, <2>1
  <2>3. last \in Nat /\ Max(T) \in Nat
    <3>1. \A i \in T : i \in Nat
      BY <1>1
    <3> HIDE DEF T
    <3> QED
      BY <1>3, <2>1, <3>1
  <2> HIDE DEF T
  <2> QED
    BY <2>2, <2>3
<1>6. fileMap(members)[n] = members[Max(T)]
  BY <1>2 DEF fileMap, SelectLastInSeq
<1> QED
  BY <1>5, <1>6 DEF last

\* For wheels with any number of members and lines: an approved wheel's RECORD
\* accounts for its names, with what is unpacked under them, and for no others.
THEOREM WheelAccounted == Spec => []WheelRecorded
<1>1. Inv => WheelRecorded
  <2> SUFFICES ASSUME Inv, NEW d \in Downloads, "pip.wheel" \in dl[d].approved
               PROVE  LET f == Body(d)
                          names == {f.members[i].name : i \in DOMAIN f.members}
                          lines == {f.record[i].name : i \in DOMAIN f.record}
                          LastOf(n) == CHOOSE i \in DOMAIN f.members :
                                       /\ f.members[i].name = n
                                       /\ \A j \in DOMAIN f.members : f.members[j].name = n => j <= i
                      IN  /\ names = lines
                          /\ \A n \in names \ {"RECORD"} : \E i \in DOMAIN f.record :
                               /\ f.record[i].name = n
                               /\ f.record[i].digest = f.members[LastOf(n)].digest
                               /\ f.record[i].size = f.members[LastOf(n)].size
    BY DEF WheelRecorded
  <2> DEFINE f == Body(d)
             members == f.members
             record == f.record
             map == fileMap(members)
             names == {members[i].name : i \in DOMAIN members}
             lines == {record[i].name : i \in DOMAIN record}
             LastOf(n) == CHOOSE i \in DOMAIN members :
                            /\ members[i].name = n
                            /\ \A j \in DOMAIN members : members[j].name = n => j <= i
  <2>1. wheel(f) = "Approved" /\ dl[d].file \in Files
    BY DEF Inv, OwnInv
  <2>2. members \in Seq(Range(members)) /\ record \in Seq(Range(record))
    BY <2>1, CatalogsAssumption DEF Body, Document
  <2>3. checkRecord(f) \notin {"fault", "panic"} /\ "RECORD" \in names
    BY <2>1 DEF wheel, isWheel
  <2> HIDE DEF f
  <2>4. /\ DOMAIN map \subseteq lines
        /\ \A i \in DOMAIN record :
             \/ record[i].name = "RECORD"
             \/ /\ record[i].name \in DOMAIN map
                /\ record[i].digest = map[record[i].name].digest
                /\ record[i].size = map[record[i].name].size
    BY <2>2, <2>3, AllAccounted
  <2>5. DOMAIN map = names
    BY DEF fileMap
  <2>6. \A n \in names : map[n] = members[LastOf(n)]
    BY <2>2, LastMember
  <2> HIDE DEF map, LastOf
  <2>7. names = lines
    BY <2>3, <2>4, <2>5
  <2>8. ASSUME NEW n \in names \ {"RECORD"}
        PROVE  \E i \in DOMAIN record : /\ record[i].name = n
                                        /\ record[i].digest = members[LastOf(n)].digest
                                        /\ record[i].size = members[LastOf(n)].size
    <3>1. PICK i \in DOMAIN record : record[i].name = n
      BY <2>7
    <3> QED
      BY <2>4, <2>6, <3>1
  <2> QED
    BY <2>7, <2>8 DEF f, LastOf
<1> QED
  BY <1>1, Invariance, PTL
====
