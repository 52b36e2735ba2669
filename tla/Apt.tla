--------------------------------- MODULE Apt ---------------------------------
(***************************************************************************)
(* The apt inspectors of one session: apt.release, apt.packages,           *)
(* apt.translations, apt.commands and deb, in this order.  A signed        *)
(* InRelease file vouches for index files, a Packages file vouches for deb *)
(* packages, and what was learnt from one download is kept in maps that    *)
(* the inspections of the other downloads read and write at the same time. *)
(*                                                                         *)
(* An inspection runs in a goroutine of its own; its steps are the places  *)
(* where it takes a lock or touches a shared map.                          *)
(***************************************************************************)
EXTENDS AptFiles

CONSTANTS
  Downloads,
  Policies,   \* policies a session may have: permissive or not
  Serves      \* the files that a server may send for a URL

\* Servers send files, and None is not one of them, nor one of the names; a
\* Translation file is a sequence of lines.
ASSUME AptAssumption ==
  /\ Serves \in [Urls -> SUBSET Files]
  /\ None \notin Files \cup CfgNames \cup Downloads
  /\ \A f \in Files : Kind(f) = "translation" => Content[f].lines \in Seq(STRING)

VARIABLES
  permissive,   \* the session's policy
  release,      \* AptReleaseInspector.release: the InRelease file of a suite
  packages,     \* AptPackagesInspector.packages, by origin and path; the
                \*   aptPackages object is named by the download that made it
  loaded,       \* downloads whose aptPackages object has its entries
  validated,    \* AptPackagesInspector.validated
  known,        \* results of the artifacts the session has on record
  crashed,      \* the Go runtime ended the process
  dl            \* the downloads

vars == <<permissive, release, packages, loaded, validated, known, crashed, dl>>

Origins == {u.origin : u \in Urls} \cup ({Config[c].alias : c \in CfgNames} \ {None})

Suites == Origins \X {u.root : u \in Urls} \X {u.suite : u \in Urls}

Paths == Origins \X {u.path : u \in Urls}

Inspectors == {"release", "packages", "text", "deb"}

Steps == {"idle", "upstream", "release", "packages", "parse", "load",
          "iterate", "found", "last", "finish", "done"}

Download ==
  [step : Steps,
   url : Urls \cup {None},
   file : Files \cup {None},
   cfg : [Inspectors -> CfgNames \cup {None}],  \* "cfg-name" of the request
   claimed : BOOLEAN,                           \* Artifact.RequestPending
   listed : Files \cup {None},                  \* "release-file"
   valid : {"unset", "yes", "no"},              \* "packages-is-valid"
   todo : SUBSET {u.path : u \in Urls},         \* what is left of an iteration
   pkg : Downloads \cup {None},                 \* the aptPackages object found
   approved : BOOLEAN, rejected : BOOLEAN,      \* opinions on the content
   result : {"none", "refused", "Approved", "Rejected"}]

\* The variables of the model range over the values the program gives them.
TypeOK ==
  /\ permissive \in Policies
  /\ release \in [Suites -> Files \cup {None}]
  /\ packages \in [Paths -> Downloads \cup {None}]
  /\ loaded \subseteq Downloads
  /\ validated \subseteq Files
  /\ known \in [Files -> {"none", "Approved", "Rejected"}]
  /\ crashed \in BOOLEAN
  /\ dl \in [Downloads -> Download]

Fresh ==
  [step |-> "idle", url |-> None, file |-> None, cfg |-> [i \in Inspectors |-> None],
   claimed |-> FALSE, listed |-> None, valid |-> "unset", todo |-> {},
   pkg |-> None, approved |-> FALSE, rejected |-> FALSE, result |-> "none"]

Init ==
  /\ permissive \in Policies
  /\ release = [s \in Suites |-> None]
  /\ packages = [p \in Paths |-> None]
  /\ loaded = {}
  /\ validated = {}
  /\ known = [f \in Files |-> "none"]
  /\ crashed = FALSE
  /\ dl = [d \in Downloads |-> Fresh]

\* A download is at a step, in a process that still runs.
At(d, step) == ~crashed /\ dl[d].step = step

-----------------------------------------------------------------------------
(* InspectRequest of the five inspectors                                   *)

\* Which inspectors know a kind of URL; "text" stands for apt.translations and
\* apt.commands.
Knows(i, kind) ==
  CASE i = "release"  -> kind \in {"InRelease", "Packages", "Translation", "Commands"}
    [] i = "packages" -> kind \in {"Packages", "deb"}
    [] i = "text"     -> kind \in {"Translation", "Commands"}
    [] i = "deb"      -> kind = "deb"

\* The files that a Release file vouches for must come after it.
releaseClaims(u, c) == u.kind = "InRelease" \/ release[getRepositoryAlias(u, c)] # None

InspectRequest(d) ==
  /\ At(d, "idle")
  /\ \E u \in Urls : \E cfg \in [Inspectors -> UrlInfo(u) \cup {None}] :
       /\ \A i \in Inspectors : cfg[i] \in IF Knows(i, u.kind) THEN UrlInfo(u) ELSE {None}
       /\ LET late == cfg["release"] # None /\ ~releaseClaims(u, cfg["release"])
              claimed == ~late /\ \E i \in Inspectors : cfg[i] # None
          IN  dl' = [dl EXCEPT ![d] =
                [@ EXCEPT !.url = u, !.cfg = cfg, !.claimed = claimed,
                          !.step = IF claimed \/ permissive THEN "upstream" ELSE "done",
                          !.result = IF claimed \/ permissive THEN "none" ELSE "refused"]]
  /\ UNCHANGED <<permissive, release, packages, loaded, validated, known, crashed>>

-----------------------------------------------------------------------------
(* A file arrives; its inspection starts unless its content is on record.  *)

Respond(d, f) ==
  /\ At(d, "upstream")
  /\ f \in Serves[dl[d].url]
  /\ dl' = [dl EXCEPT ![d].file = f,
                      ![d].step = IF known[f] = "none" THEN "release" ELSE "done",
                      ![d].result = IF known[f] = "none" THEN @ ELSE known[f]]
  /\ UNCHANGED <<permissive, release, packages, loaded, validated, known, crashed>>

\* RunArtifactInspectors: all inspectors, or those that claimed the request.
\* In a session that is not permissive a late index file gets no inspection.
Runs(d, i) == permissive \/ dl[d].cfg[i] # None

Approve(d) == [dl[d] EXCEPT !.approved = TRUE]

Reject(d) == [dl[d] EXCEPT !.rejected = TRUE]

-----------------------------------------------------------------------------
(* apt.release                                                             *)

isRelease(d) ==
  LET f == dl[d].file
  IN  dl[d].cfg["release"] # None /\ parseUpToSignatures(f) /\ ~isMissingFields(f)

\* A file that is not a Release file at all gets no opinion.
inspectRelease(d) ==
  LET c == dl[d].cfg["release"]
      f == dl[d].file
      sound == parseSignaturesSection(f) /\ checkSignature(f, Config[c].keys)
  IN  /\ ~(isRelease(d) /\ parseSignaturesPanics(f))
      /\ dl' = [dl EXCEPT ![d] =
                 [IF ~isRelease(d) THEN @ ELSE IF sound THEN Approve(d) ELSE Reject(d)
                    EXCEPT !.step = "packages"]]
      /\ release' =
           IF isRelease(d) /\ sound /\ dl[d].url.kind = "InRelease"
             THEN [release EXCEPT ![getRepositoryAlias(dl[d].url, c)] = f]
             ELSE release   \* kept under a name that is never looked up

\* A bug: an index file is taken to be the one its name says.
ListsAny(r, f, sized) == r # None

\* The Release file lists the index file, with its size where that is compared.
Lists(r, f, sized) ==
  /\ r # None
  /\ f \in DOMAIN Entries(r)
  /\ sized => Entries(r)[f].size = Content[f].size

\* validatePackagesFile, validateTranslationFile and validateCommandsFile
UrlKindOf(kind) ==
  CASE kind = "packages" -> "Packages" [] kind = "translation" -> "Translation" [] OTHER -> "Commands"

validateListed(d, info) ==
  LET u == dl[d].url
      f == dl[d].file
      c == dl[d].cfg["release"]
      r == release[getRepositoryAlias(u, c)]
  IN  IF /\ u.kind = UrlKindOf(Kind(f)) /\ info # None
         /\ Kind(f) = "packages" /\ u.digest # None => u.digest = f
         /\ c # None
         /\ Lists(r, f, Kind(f) # "packages")
      THEN [dl[d] EXCEPT !.listed = r]
      ELSE Reject(d)

InspectRelease(d) ==
  LET f == dl[d].file
  IN  /\ At(d, "release")
      /\ \/ /\ Runs(d, "release") /\ Kind(f) = "release"
            /\ inspectRelease(d)
         \/ /\ Runs(d, "release") /\ Kind(f) \in {"packages", "translation", "commands"}
            /\ \E info \in UrlInfo(dl[d].url) :
                 dl' = [dl EXCEPT ![d] = [validateListed(d, info) EXCEPT !.step = "packages"]]
            /\ UNCHANGED release
         \/ /\ ~Runs(d, "release") \/ Kind(f) \in {"deb", "other"}
            /\ dl' = [dl EXCEPT ![d].step = "packages"]
            /\ UNCHANGED release
      /\ UNCHANGED <<permissive, packages, loaded, validated, known, crashed>>

-----------------------------------------------------------------------------
(* apt.packages on a Packages file                                         *)

\* Another inspection is half way through the Packages files of the origin,
\* which it reads without the lock.
Iterating(o) ==
  \E e \in Downloads : /\ dl[e].step = "iterate" /\ dl[e].todo # {}
                       /\ getOriginAlias(dl[e].url, dl[e].cfg["packages"]) = o

\* addPackages takes packagesLock and replaces what was known for the path. The
\* runtime may notice that the map is being iterated over and end the process.
addPackages(d) ==
  LET u == dl[d].url
      o == getOriginAlias(u, dl[d].cfg["packages"])
  IN  /\ At(d, "packages")
      /\ Runs(d, "packages") /\ Kind(dl[d].file) = "packages"
      /\ u.kind = "Packages" /\ dl[d].cfg["packages"] # None
      /\ packages' = [packages EXCEPT ![<<o, u.path>>] = d]
      /\ crashed' \in IF Iterating(o) THEN BOOLEAN ELSE {FALSE}
      /\ dl' = [dl EXCEPT ![d].step = "parse"]
      /\ UNCHANGED <<permissive, release, loaded, validated, known>>

\* A bug: a Packages file that can be read is a good one.
validatePackagesParsed(d) ==
  validated' = validated \cup IF parsePackages(dl[d].file) THEN {dl[d].file} ELSE {}

\* A Packages file that a Release file lists vouches for its packages.
validatePackages(d) ==
  validated' = validated \cup
    IF parsePackages(dl[d].file) /\ dl[d].listed # None THEN {dl[d].file} ELSE {}

\* The file is parsed and gets an opinion; an unreadable one is an error that
\* ends the inspection.
ParsePackages(d) ==
  LET f == dl[d].file
  IN  /\ At(d, "parse")
      /\ Content[f].readable
      /\ dl' = [dl EXCEPT ![d] =
                  [IF parsePackages(f) /\ dl[d].listed # None THEN Approve(d) ELSE Reject(d)
                     EXCEPT !.step = IF parsePackages(f) THEN "load" ELSE "last"]]
      /\ validatePackages(d)
      /\ UNCHANGED <<permissive, release, packages, loaded, known, crashed>>

UnreadablePackages(d) ==
  /\ At(d, "parse")
  /\ ~Content[dl[d].file].readable
  /\ dl' = [dl EXCEPT ![d] = [Reject(d) EXCEPT !.step = "finish"]]
  /\ UNCHANGED <<permissive, release, packages, loaded, validated, known, crashed>>

\* The entries are stored even when the file was rejected.
LoadEntries(d) ==
  /\ At(d, "load")
  /\ loaded' = loaded \cup {d}
  /\ dl' = [dl EXCEPT ![d].step = "last"]
  /\ UNCHANGED <<permissive, release, packages, validated, known, crashed>>

\* Files of other kinds, Packages files whose URL names no suite, and requests
\* that the inspector did not claim.
SkipPackages(d) ==
  LET claims(kind) == dl[d].url.kind = kind /\ dl[d].cfg["packages"] # None
  IN  /\ At(d, "packages")
      /\ \/ ~Runs(d, "packages")
         \/ Kind(dl[d].file) \notin {"packages", "deb"}
         \/ Kind(dl[d].file) = "packages" /\ ~claims("Packages")
      /\ dl' = [dl EXCEPT ![d].step = "last"]
      /\ UNCHANGED <<permissive, release, packages, loaded, validated, known, crashed>>

-----------------------------------------------------------------------------
(* apt.packages on a deb package                                           *)

\* A deb whose URL is not one of a package pool is an error; without a
\* configuration entry it is rejected.
validateDebianPackage(d) ==
  LET u == dl[d].url
      c == dl[d].cfg["packages"]
  IN  /\ At(d, "packages")
      /\ Runs(d, "packages") /\ Kind(dl[d].file) = "deb"
      /\ \E info \in UrlInfo(u) :
           dl' = [dl EXCEPT ![d] =
             IF c = None THEN [Reject(d) EXCEPT !.step = "last"]
             ELSE IF u.kind # "deb" \/ info = None THEN [Reject(d) EXCEPT !.step = "finish"]
             ELSE [@ EXCEPT !.step = "iterate",
                            !.todo = {p \in {v.path : v \in Urls} :
                                        packages[<<getOriginAlias(u, c), p>>] # None}]]
      /\ UNCHANGED <<permissive, release, packages, loaded, validated, known, crashed>>

\* One Packages file of the origin, in the random order of a Go map:
\* getPackagesEntry looks for the digest of the deb.
getPackagesEntry(d) ==
  /\ At(d, "iterate")
  /\ \E p \in dl[d].todo :
       LET e == packages[<<getOriginAlias(dl[d].url, dl[d].cfg["packages"]), p>>]
       IN  dl' = [dl EXCEPT ![d] =
                    IF e \in loaded /\ dl[d].file \in DOMAIN Entries(dl[e].file)
                    THEN [@ EXCEPT !.pkg = e, !.todo = {}, !.step = "found"]
                    ELSE [@ EXCEPT !.todo = dl[d].todo \ {p}]]
  /\ UNCHANGED <<permissive, release, packages, loaded, validated, known, crashed>>

NotListed(d) ==
  /\ At(d, "iterate")
  /\ dl[d].todo = {}
  /\ dl' = [dl EXCEPT ![d] = [Reject(d) EXCEPT !.step = "last"]]
  /\ UNCHANGED <<permissive, release, packages, loaded, validated, known, crashed>>

isValidPackages(f) == f \in validated

\* The Packages file has to be validated, and size and architecture to match.
CheckEntry(d) ==
  LET f == dl[d].file
      p == dl[dl[d].pkg].file
      entry == Entries(p)[f]
      sound == isValidPackages(p) /\ entry.size = Content[f].size /\ entry.arch = dl[d].url.arch
  IN  /\ At(d, "found")
      /\ dl' = [dl EXCEPT ![d] =
                 [@ EXCEPT !.rejected = dl[d].rejected \/ ~sound,
                           !.valid = IF isValidPackages(p) THEN "yes" ELSE "no",
                           !.step = "last"]]
      /\ UNCHANGED <<permissive, release, packages, loaded, validated, known, crashed>>

-----------------------------------------------------------------------------
(* apt.translations, apt.commands and deb                                  *)

\* The request named a Translation or a Commands file, and the inspector knew it.
OwnText(d) == dl[d].url.kind = UrlKindOf(Kind(dl[d].file)) /\ dl[d].cfg["text"] # None

\* Well-formed and listed is approved; a file that is no xz file, or whose URL
\* names no suite, gets no opinion.
InspectTranslation(d) ==
  LET f == dl[d].file
  IN  /\ At(d, "last")
      /\ Kind(f) = "translation"
      /\ permissive \/ OwnText(d)
      /\ dl' = [dl EXCEPT ![d] =
           [IF ~Content[f].readable \/ (parseTranslationFile(f) /\ ~OwnText(d)) THEN @
            ELSE IF parseTranslationFile(f) /\ @.listed # None THEN Approve(d)
            ELSE Reject(d)
              EXCEPT !.step = "finish"]]
      /\ UNCHANGED <<permissive, release, packages, loaded, validated, known, crashed>>

InspectCommands(d) ==
  LET f == dl[d].file
      formed == Content[f].readable /\ parseHeader(f) /\ parsePkgList(f)
  IN  /\ At(d, "last")
      /\ Kind(f) = "commands"
      /\ permissive \/ OwnText(d)
      /\ dl' = [dl EXCEPT ![d] =
                  [IF formed /\ @.listed # None THEN Approve(d) ELSE Reject(d)
                     EXCEPT !.step = "finish"]]
      /\ UNCHANGED <<permissive, release, packages, loaded, validated, known, crashed>>

InspectDeb(d) ==
  /\ At(d, "last")
  /\ Kind(dl[d].file) = "deb"
  /\ Runs(d, "deb")
  /\ parseControlPanics(dl[d].file) => ~readDebMetadata(dl[d].file)
  /\ dl' = [dl EXCEPT ![d] =
              [IF readDebMetadata(dl[d].file) /\ @.valid = "yes" THEN Approve(d) ELSE Reject(d)
                 EXCEPT !.step = "finish"]]
  /\ UNCHANGED <<permissive, release, packages, loaded, validated, known, crashed>>

\* A panic in the goroutine of an inspection ends the process.
Panic(d) ==
  /\ \/ /\ At(d, "release") /\ Runs(d, "release")
        /\ Kind(dl[d].file) = "release" /\ isRelease(d) /\ parseSignaturesPanics(dl[d].file)
     \/ /\ At(d, "last") /\ Runs(d, "deb")
        /\ Kind(dl[d].file) = "deb" /\ parseControlPanics(dl[d].file)
  /\ crashed' = TRUE
  /\ UNCHANGED <<permissive, release, packages, loaded, validated, known, dl>>

SkipLast(d) ==
  LET f == dl[d].file
  IN  /\ At(d, "last")
      /\ ~(Kind(f) = "deb" /\ Runs(d, "deb"))
      /\ ~(Kind(f) \in {"translation", "commands"} /\ (permissive \/ OwnText(d)))
      /\ dl' = [dl EXCEPT ![d].step = "finish"]
      /\ UNCHANGED <<permissive, release, packages, loaded, validated, known, crashed>>

\* handleCompleteInspection: the first result of a content is put on record.
CompleteInspection(d) ==
  LET x == dl[d]
      result == IF x.claimed /\ x.approved /\ ~x.rejected THEN "Approved" ELSE "Rejected"
  IN  /\ At(d, "finish")
      /\ dl' = [dl EXCEPT ![d].step = "done", ![d].result = result]
      /\ known' = [known EXCEPT ![x.file] = IF @ = "none" THEN result ELSE @]
      /\ UNCHANGED <<permissive, release, packages, loaded, validated, crashed>>

-----------------------------------------------------------------------------

Inspect(d) ==
  \/ InspectRelease(d)
  \/ addPackages(d)
  \/ ParsePackages(d)
  \/ UnreadablePackages(d)
  \/ LoadEntries(d)
  \/ SkipPackages(d)
  \/ validateDebianPackage(d)
  \/ getPackagesEntry(d)
  \/ NotListed(d)
  \/ CheckEntry(d)
  \/ InspectTranslation(d)
  \/ InspectCommands(d)
  \/ InspectDeb(d)
  \/ Panic(d)
  \/ SkipLast(d)
  \/ CompleteInspection(d)

Next ==
  \E d \in Downloads :
    \/ InspectRequest(d)
    \/ \E f \in Files : Respond(d, f)
    \/ Inspect(d)

Spec == Init /\ [][Next]_vars
-----------------------------------------------------------------------------
(* Correctness                                                             *)

Signed(r, c) == Content[r].signers \cap Config[c].keys # {}

\* A Release file that was signed with a key of one of the entries under which
\* the suite may be known.
Trusted(r, suite) ==
  \E c \in CfgNames, u \in Urls : getRepositoryAlias(u, c) = suite /\ Signed(r, c)

\* The lines have an entry of a package with its digest and its description
WholeEntry(lines) ==
  \E i, j, k \in DOMAIN lines :
    /\ i < j /\ j < k
    /\ <<lines[i], lines[j], lines[k]>> = <<"Package", "Description-md5", "Description-">>
    /\ \A h \in i .. k : lines[h] # ""

\* An index file is approved only if a Release file of its own suite lists it,
\* signed with a key that the configuration has for that suite. The Release
\* file comes from an earlier download and may have been replaced since.  A
\* Translation file also has at least one whole entry.
IndexVouched ==
  \A d \in Downloads :
    LET x == dl[d]
    IN  /\ x.approved /\ Kind(x.file) \in {"packages", "translation", "commands"} =>
             /\ x.listed # None /\ x.file \in DOMAIN Entries(x.listed)
             /\ Trusted(x.listed, getRepositoryAlias(x.url, x.cfg["release"]))
        /\ x.result = "Approved" /\ Kind(x.file) = "translation" =>
             WholeEntry(Content[x.file].lines)

\* A deb package is approved only if a Packages file of this session lists it
\* that is listed itself in a Release file of this session, signed with a
\* configured key: the chain holds although each link was checked in another
\* download's inspection and the maps may have been overwritten since.
DebVouched ==
  \A f \in Files :
    known[f] = "Approved" /\ Kind(f) = "deb" =>
      \E p \in validated, e \in Downloads :
        /\ f \in DOMAIN Entries(p) /\ Entries(p)[f].size = Content[f].size
        /\ dl[e].approved /\ Kind(dl[e].file) = "release" /\ p \in DOMAIN Entries(dl[e].file)
        /\ \E c \in CfgNames : Signed(dl[e].file, c)

\* No inspection brings the process down, neither by a panic of its own nor by
\* iterating over a map while another one writes to it.
NoCrash == ~crashed
=============================================================================
