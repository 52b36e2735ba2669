------------------------------- MODULE Catalogs -------------------------------
(***************************************************************************)
(* The inspectors of one session that vouch for a download by what another *)
(* download listed: store.info-api for the packages of bld.bin, and        *)
(* lxd.simple-streams-download for the images of lxd.rootfs; and those in  *)
(* between, which look at one file (module CatalogFiles).  Inspections run *)
(* in goroutines of their own; their steps are the places where they take  *)
(* a lock.                                                                 *)
(***************************************************************************)
EXTENDS CatalogFiles

CONSTANTS
  Downloads,
  Policies,   \* policies a session may have: permissive or not
  Urls,       \* what clients may ask for
  Asks,       \* the URLs that a download may be of
  Files,      \* digests of the files that servers may send
  Content,    \* what each of them contains
  Serves      \* the files that a server may send for a URL

\* Requests get files, store requests are about bins or charms, digests that
\* are listed are files, and a wheel has a sequence of members and of lines.
ASSUME CatalogsAssumption ==
  /\ Asks \in [Downloads -> SUBSET Urls]
  /\ Serves \in [Urls -> SUBSET Files]
  /\ None \notin Files
  /\ \A u \in Urls : u.kind = "store-info" => u.type \in {"bins", "charms"}
  /\ \A f \in Files :
       /\ {p.sha256 : p \in Content[f].products} \subseteq Files \cup {None}
       /\ Content[f].members \in Seq(Range(Content[f].members))
       /\ Content[f].record \in Seq(Range(Content[f].record))

VARIABLES
  permissive,
  ids,        \* StoreInfoAPIInspector.ids: [type, file] of a package ID
  items,      \* SimpleStreamsDownloadInspector.productItems: digest of a path
  known,      \* results of the artifacts the session has on record
  crashed,    \* an inspection panicked
  dl          \* the downloads

vars == <<permissive, ids, items, known, crashed, dl>>

Shared == <<permissive, ids, items, known, crashed>>

Stateful == {"store.info-api", "lxd.simple-streams-download", "lxd.rootfs", "lxd.instance-types"}

Inspectors == Range(Formats) \cup Stateful

\* What is behind a digest
Document == [f \in Files |-> Content[f]]

PackageIDs == {Content[f].name : f \in {g \in Files : Content[g].kind = "store-info"}}

\* What the pattern for images makes of the URLs, None where it does not match, and
\* what products files list
Paths ==
  ({u.path : u \in Urls} \cup UNION {{p.path : p \in Content[f].products} : f \in Files}) \ {None}

Steps == {"idle", "upstream", "store", "formats", "streams", "item", "last", "finish", "done"}

Download ==
  [step : Steps,
   url : Urls \cup {None},
   file : Files \cup {None},
   approved : SUBSET Inspectors,
   rejected : BOOLEAN,
   revision : Files \cup {None},   \* "revision" of store.info-api: where it is from
   itemPath : Paths \cup {None},   \* "product-item-path"
   contentID : PackageIDs \cup {""},
   result : {"none", "refused", "Approved", "Rejected"}]

\* The variables of the model range over the values the program gives them.
TypeOK ==
  /\ permissive \in Policies
  /\ ids \in [PackageIDs -> [type : {"bins", "charms", "none"}, file : Files \cup {None}]]
  /\ items \in [Paths -> Files \cup {None}]
  /\ known \in [Files -> {"none", "Approved", "Rejected"}]
  /\ crashed \in BOOLEAN
  /\ dl \in [Downloads -> Download]

Fresh ==
  [step |-> "idle", url |-> None, file |-> None, approved |-> {}, rejected |-> FALSE,
   revision |-> None, itemPath |-> None, contentID |-> "", result |-> "none"]

Init ==
  /\ permissive \in Policies
  /\ ids = [p \in PackageIDs |-> [type |-> "none", file |-> None]]
  /\ items = [p \in Paths |-> None]
  /\ known = [f \in Files |-> "none"]
  /\ crashed = FALSE
  /\ dl = [d \in Downloads |-> Fresh]

\* A download is at a step, in a process that still runs.
At(d, step) == ~crashed /\ dl[d].step = step

InspectRequest(d) ==
  /\ At(d, "idle")
  /\ \E u \in Asks[d] :
       LET goesOn == PendingFor(u) # {} \/ permissive
       IN  dl' = [dl EXCEPT ![d].url = u,
                            ![d].step = IF goesOn THEN "upstream" ELSE "done",
                            ![d].result = IF goesOn THEN "none" ELSE "refused"]
  /\ UNCHANGED Shared

\* A file arrives; its inspection starts unless its content is on record.
Respond(d) ==
  /\ At(d, "upstream")
  /\ \E f \in Serves[dl[d].url] :
       dl' = [dl EXCEPT ![d].file = f,
                        ![d].step = IF known[f] # "none" THEN "done"
                                    ELSE IF Document[f].mime \in {"json", "xz"} THEN "store"
                                    ELSE "formats",
                        ![d].result = IF known[f] = "none" THEN @ ELSE known[f]]
  /\ UNCHANGED Shared

\* RunArtifactInspectors: all inspectors, or those that claimed the request.
Runs(d, i) == permissive \/ i \in PendingFor(dl[d].url)

Body(d) == Document[dl[d].file]

Approve(d, i) == [dl[d] EXCEPT !.approved = @ \cup {i}]

Reject(d) == [dl[d] EXCEPT !.rejected = TRUE]

\* An error of an inspector rejects, and the others do not run.
Fail(d) == [Reject(d) EXCEPT !.step = "finish"]

-----------------------------------------------------------------------------
(* store.info-api                                                          *)

\* setInfo, under the lock, replaces what is known of the package.
setInfo(d) ==
  [ids EXCEPT ![Body(d).name] = [type |-> dl[d].url.type, file |-> dl[d].file]]

\* findInfo, under the lock: packages that list the digest, of which the random
\* order of a Go map picks one.
findInfo(f) ==
  {p \in PackageIDs : ids[p].file # None /\ f \in Document[ids[p].file].revisions}

\* A bug: the type of the package is not compared.
validateBldBinAny(d, p) ==
  IF p = None THEN Reject(d) ELSE [dl[d] EXCEPT !.revision = ids[p].file]

\* validateBldBin: the store listed the digest, in an answer about bins.
validateBldBin(d, p) ==
  IF p # None /\ ids[p].type = "bins" THEN [dl[d] EXCEPT !.revision = ids[p].file] ELSE Reject(d)

InspectStore(d) ==
  LET f == dl[d].file
      runs == Runs(d, "store.info-api")
  IN  /\ At(d, "store")
      /\ \/ /\ runs /\ storeInfo(dl[d].url, Body(d))
            /\ dl' = [dl EXCEPT ![d] = [Approve(d, "store.info-api") EXCEPT !.step = "formats"]]
            /\ ids' = setInfo(d)
         \/ /\ runs /\ binMetadata(Body(d)) = "complete"
            /\ \E p \in IF findInfo(f) = {} THEN {None} ELSE findInfo(f) :
                 dl' = [dl EXCEPT ![d] = [validateBldBin(d, p) EXCEPT !.step = "formats"]]
            /\ UNCHANGED ids
         \/ /\ runs /\ binMetadata(Body(d)) = "error"
            /\ dl' = [dl EXCEPT ![d] = Fail(d)]
            /\ UNCHANGED ids
         \/ /\ runs => ~storeInfo(dl[d].url, Body(d)) /\ binMetadata(Body(d)) = "none"
            /\ dl' = [dl EXCEPT ![d].step = "formats"]
            /\ UNCHANGED ids
      /\ UNCHANGED <<permissive, items, known, crashed>>

-----------------------------------------------------------------------------
(* The inspectors that look at one file                                    *)

\* What lxd.simple-streams-download is about
isProducts(d) ==
  /\ Runs(d, "lxd.simple-streams-download")
  /\ Is(Body(d), "json", "lxd-products") /\ ~Faulty(Body(d), "incomplete")

\* The pattern fits about every URL of three parts and more, so that in a
\* permissive session other gzip files are taken for images as well.
isItem(d) ==
  /\ Runs(d, "lxd.simple-streams-download")
  /\ Body(d).mime = "gzip" /\ dl[d].url.path # None

\* The request annotation that bld.bin reads is never set: store.info-api notes
\* the package ID with the response.
packageID(d) == ""

opinions(d, brokenFirst) ==
  [i \in Range(Formats) |->
     IF Runs(d, i) THEN Opinion(i, dl[d].url, Body(d), brokenFirst) ELSE "none"]

\* The place of the first inspector that fails, 0 for none; those after it do not
\* run.
firstFailed(opinion) == SelectInSeq(Formats, LAMBDA i : opinion[i] \in {"error", "panic"})

Said(opinion, what) ==
  LET stop == firstFailed(opinion)
  IN  {Formats[i] : i \in {j \in DOMAIN Formats : (stop = 0 \/ j < stop) /\ opinion[Formats[j]] = what}}

InspectFormats(d) ==
  /\ At(d, "formats")
  /\ \E brokenFirst \in BOOLEAN :
       LET opinion == opinions(d, brokenFirst)
           stop == firstFailed(opinion)
       IN  /\ dl' = [dl EXCEPT ![d].approved = @ \cup Said(opinion, "Approved"),
                               ![d].rejected = @ \/ Said(opinion, "Rejected") # {} \/ stop # 0,
                               ![d].contentID = IF "bld.bin" \in Said(opinion, "Approved")
                                                  THEN packageID(d) ELSE @,
                               ![d].step = IF stop # 0 THEN "finish"
                                           ELSE IF isProducts(d) \/ isItem(d) THEN "streams"
                                           ELSE "last"]
           /\ crashed' = (stop # 0 /\ opinion[Formats[stop]] = "panic")
  /\ UNCHANGED <<permissive, ids, items, known>>

-----------------------------------------------------------------------------
(* lxd.simple-streams-download                                             *)

\* A products file adds its images to those of the other products files, and
\* replaces digests that they gave.  Only its own request can tell the stream.
InspectProducts(d) ==
  LET images == extractSupportedUbuntuImages(Body(d))
      listed == {x[1] : x \in images}
  IN  /\ At(d, "streams") /\ isProducts(d)
      /\ IF dl[d].url.kind = "lxd-products" /\ dl[d].url.configured
           THEN /\ \E new \in [listed -> {x[2] : x \in images}] :
                     /\ \A p \in listed : <<p, new[p]>> \in images
                     /\ items' = [p \in Paths |-> IF p \in listed THEN new[p] ELSE items[p]]
                /\ dl' = [dl EXCEPT ![d] =
                            [Approve(d, "lxd.simple-streams-download") EXCEPT !.step = "last"]]
           ELSE /\ dl' = [dl EXCEPT ![d] = Fail(d)]
                /\ UNCHANGED items
      /\ UNCHANGED <<permissive, ids, known, crashed>>

\* productItems is nil until a products file was seen.
itemsSeen == \E e \in Downloads : "lxd.simple-streams-download" \in dl[e].approved

\* matchItemFromURL, under the lock: nothing is said while no products file
\* has been seen; a path that none of them lists is for the next step.
matchItemFromURL(d) ==
  /\ At(d, "streams") /\ isItem(d)
  /\ dl' = [dl EXCEPT ![d].step = IF itemsSeen THEN "item" ELSE "last"]
  /\ UNCHANGED Shared

\* inspectProductItem takes the lock again for the digest.  The path is noted when
\* the digest is the one that is listed, and also when none is, with a rejection.
inspectProductItem(d) ==
  LET path == dl[d].url.path
  IN  /\ At(d, "item")
      /\ dl' = [dl EXCEPT
                  ![d].itemPath = IF items[path] \in {None, dl[d].file} THEN path ELSE dl[d].itemPath,
                  ![d].rejected = dl[d].rejected \/ items[path] # dl[d].file,
                  ![d].step = "last"]
      /\ UNCHANGED Shared

-----------------------------------------------------------------------------
(* lxd.rootfs, lxd.instance-types and the end                              *)

\* A bug: an image that is well-formed is a good one.
rootfsFormed(d) == IF isRootfs(Body(d)) THEN Approve(d, "lxd.rootfs") ELSE dl[d]

\* lxd.rootfs takes the path as a sign that the digest was verified.
rootfs(d) ==
  IF ~isRootfs(Body(d)) THEN dl[d]
  ELSE IF dl[d].itemPath # None THEN Approve(d, "lxd.rootfs") ELSE Reject(d)

InspectLast(d) ==
  LET x == IF Runs(d, "lxd.rootfs") THEN rootfs(d) ELSE dl[d]
      types == Runs(d, "lxd.instance-types") /\ instanceTypes(dl[d].url, Body(d)) = "Approved"
  IN  /\ At(d, "last")
      /\ dl' = [dl EXCEPT ![d] =
                  [x EXCEPT !.approved = @ \cup IF types THEN {"lxd.instance-types"} ELSE {},
                            !.step = "finish"]]
      /\ UNCHANGED Shared

verdict(x) ==
  IF PendingFor(x.url) # {} /\ x.approved # {} /\ ~x.rejected THEN "Approved" ELSE "Rejected"

\* handleCompleteInspection: the first result of a content is put on record.
CompleteInspection(d) ==
  LET x == dl[d]
  IN  /\ At(d, "finish")
      /\ dl' = [dl EXCEPT ![d].step = "done", ![d].result = verdict(x)]
      /\ known' = [known EXCEPT ![x.file] = IF @ = "none" THEN verdict(x) ELSE @]
      /\ UNCHANGED <<permissive, ids, items, crashed>>

-----------------------------------------------------------------------------

Next ==
  \E d \in Downloads :
    \/ InspectRequest(d)
    \/ Respond(d)
    \/ InspectStore(d)
    \/ InspectFormats(d)
    \/ InspectProducts(d)
    \/ matchItemFromURL(d)
    \/ inspectProductItem(d)
    \/ InspectLast(d)
    \/ CompleteInspection(d)

Spec == Init /\ [][Next]_vars
-----------------------------------------------------------------------------
(* Correctness                                                             *)

\* A bin package is approved only if an answer of the store in this session
\* lists its digest, and the answer was to a question about bins.
BinVouched ==
  \A d \in Downloads :
    "bld.bin" \in dl[d].approved /\ ~dl[d].rejected =>
      \E e \in Downloads :
        /\ "store.info-api" \in dl[e].approved /\ dl[e].url.type = "bins"
        /\ dl[d].file \in Body(e).revisions

\* An image is approved, by lxd.rootfs and with no rejection, only if a products
\* file of this session lists its path with its digest, for a release that is
\* supported: the check survives other products files that replace digests between
\* the two locked steps.  (lxd.rootfs alone also approves an image that is not
\* listed, on the path that lxd.simple-streams-download notes as it rejects.)
ImageListed ==
  \A d \in Downloads :
    "lxd.rootfs" \in dl[d].approved /\ ~dl[d].rejected =>
      \E e \in Downloads :
        /\ "lxd.simple-streams-download" \in dl[e].approved
        /\ \E p \in Body(e).products :
             /\ p.path = dl[d].url.path /\ p.sha256 = dl[d].file
             /\ p.version \in SupportedVersions

\* A wheel is approved only if its RECORD accounts for every name in the
\* archive, with the size and digest of what is unpacked under that name, and
\* for nothing else.  (The lines up to where the scanner stops, and their digests
\* as far as 32 bytes.)
WheelRecorded ==
  \A d \in Downloads :
    "pip.wheel" \in dl[d].approved =>
      LET f == Body(d)
          names == {f.members[i].name : i \in DOMAIN f.members}
          lines == {f.record[i].name : i \in DOMAIN f.record}
          LastOf(n) == CHOOSE i \in DOMAIN f.members :
                       /\ f.members[i].name = n
                       /\ \A j \in DOMAIN f.members : f.members[j].name = n => j <= i
      IN  /\ names = lines
          /\ \A n \in names \ {"RECORD"} : \E i \in DOMAIN f.record :
               /\ f.record[i].name = n
               /\ f.record[i].digest = f.members[LastOf(n)].digest
               /\ f.record[i].size = f.members[LastOf(n)].size

\* The record of a bin package names the package ID that the store gave.
BinIdentified ==
  \A d \in Downloads :
    dl[d].result = "Approved" /\ "bld.bin" \in dl[d].approved => dl[d].contentID # ""
=============================================================================
