----------------------------- MODULE CatalogFiles -----------------------------
(***************************************************************************)
(* What the store, bld.bin, pip, chisel, cargo, maven and lxd inspectors   *)
(* make of a URL and of a downloaded file, apart from what they know from  *)
(* other downloads.                                                        *)
(*                                                                         *)
(* A URL is [kind, configured, name, version, path]; the kind says which   *)
(* patterns it matches, configured whether the globs of the configuration, *)
(* or the fixed origins of lxd and cargo, allow it, and path what is left  *)
(* of it after two parts, None if there is less or it has other signs.     *)
(*                                                                         *)
(* A file is [mime, ctype, kind, faults, ...] with the fields that its     *)
(* kind needs; faults names what is wrong with it:                         *)
(*   unreadable   gzip, zip or tar cannot be opened, or the end is missing *)
(*   xz           an xz file cannot be opened, or is not a tarball         *)
(*   undecodable  the document inside is not well-formed                   *)
(*   incomplete   a field is missing without which it is not recognized    *)
(*   invalid      a field has a value that the inspector rejects           *)
(***************************************************************************)
EXTENDS Naturals, Sequences, SequencesExt

CONSTANTS
  AptKeys,    \* public keys of apt.repositories
  None        \* no value

Faulty(f, what) == what \in f.faults

Is(f, mime, kind) == f.mime = mime /\ f.kind = kind

-----------------------------------------------------------------------------
(* InspectRequest                                                          *)

\* The inspectors that set the request to Pending.  Those of pip, maven and
\* crates say Unknown, as no origin is supported, and go unnoticed here.
storeRequest(u) ==
  CASE u.kind = "store-info" -> {"store.info-api"}
    [] u.kind = "resolve"    -> {"store.resolve-api"}
    [] u.kind = "transforms" -> {"store.transforms-api"}
    [] u.kind = "appmedia"   -> {"store.appmedia"}
    [] OTHER                 -> {}

\* The URL of a bin package is for two inspectors.
binRequest(u) == IF u.kind = "bin" THEN {"store.info-api", "bld.bin"} ELSE {}

chiselRequest(u) == IF u.kind = "chisel" THEN {"chisel.release"} ELSE {}

cargoRequest(u) == IF u.kind = "cargo-config" THEN {"cargo.index"} ELSE {}

lxdRequest(u) ==
  CASE u.kind = "lxd-index"    -> {"lxd.simple-streams-index"}
    [] u.kind = "lxd-products" -> {"lxd.simple-streams-download"}
    [] u.kind = "lxd-item"     -> {"lxd.simple-streams-download", "lxd.rootfs"}
    [] u.kind = "lxd-types"    -> {"lxd.instance-types"}
    [] OTHER                   -> {}

PendingFor(u) ==
  IF u.configured
    THEN UNION {storeRequest(u), binRequest(u), chiselRequest(u), cargoRequest(u), lxdRequest(u)}
    ELSE {}

-----------------------------------------------------------------------------
(* Stores                                                                  *)

\* The required fields are there, and the request said what kind of package it
\* is about.
storeInfo(u, f) ==
  Is(f, "json", "store-info") /\ f.faults = {} /\ u.kind = "store-info" /\ u.configured

\* The name, version, base and architecture in metadata.yaml of a tarball.  An
\* error when the tarball breaks off or the yaml does not decode.
binMetadata(f) ==
  IF ~Is(f, "xz", "bin") \/ Faulty(f, "xz") THEN "none"
  ELSE IF Faulty(f, "undecodable") \/ Faulty(f, "unreadable") THEN "error"
  ELSE IF Faulty(f, "incomplete") THEN "none" ELSE "complete"

resolveApi(f) ==
  IF ~Is(f, "json", "resolve") \/ Faulty(f, "incomplete") THEN "none"
  ELSE IF Faulty(f, "invalid") THEN "Rejected" ELSE "Approved"

transformsApi(f) ==
  IF ~Is(f, "json", "transforms") \/ Faulty(f, "incomplete") THEN "none"
  ELSE IF \A t \in f.types : t = "bin" THEN "Approved" ELSE "Rejected"

appMedia(u, f) ==
  IF Is(f, "png", "appmedia") /\ ~Faulty(f, "undecodable") /\ "store.appmedia" \in PendingFor(u)
    THEN "Approved" ELSE "none"

\* bld.bin does not look at what store.info-api said, and does not mind a
\* tarball that breaks off.
bldBin(f) ==
  CASE binMetadata(f) = "complete"                                         -> "Approved"
    [] binMetadata(f) = "error" /\ Faulty(f, "undecodable")                -> "error"
    [] OTHER                                                               -> "none"

-----------------------------------------------------------------------------
(* Python                                                                  *)

\* The first good version approves, whatever came before it.
parseHTMLIndex(f) ==
  IF \E i \in DOMAIN f.versions : f.versions[i] \in {"1.1", "1.2"} THEN "Approved"
  ELSE IF f.versions # <<>> THEN "Rejected" ELSE "none"

pipIndex(u, f) ==
  IF u.kind # "pip-index" THEN "none"
  ELSE IF f.mime = "html" THEN parseHTMLIndex(f)
  ELSE IF f.mime = "json" /\ f.ctype = "application/vnd.pypi.simple.v1+json" THEN "Approved"
  ELSE "none"

\* fileMap: of members with the same name the last one is kept.
fileMap(members) ==
  [n \in {members[i].name : i \in DOMAIN members} |->
     members[SelectLastInSeq(members, LAMBDA m : m.name = n)]]

Without(map, name) == [n \in DOMAIN map \ {name} |-> map[n]]

\* One line of RECORD, of those that the scanner gives: it stops without an error
\* at one that is too long or cannot be read.  The digest of a line is what copy
\* leaves in the 32 bytes, where a longer value is cut and a shorter one padded
\* with zeros.  A digest without a value is an index out of range.
RecordLine(s, line) ==
  LET known == line.name \in DOMAIN s.left
      size == IF known THEN s.left[line.name].size ELSE 0
  IN  IF s.end # "no" THEN s
      ELSE IF line.alg = "malformed" THEN [s EXCEPT !.end = "fault"]
      ELSE IF line.alg = "" /\ line.name = s.rname THEN [s EXCEPT !.left = Without(@, line.name)]
      ELSE IF line.size # size \/ line.alg # "sha256" THEN [s EXCEPT !.end = "fault"]
      ELSE IF line.digest = None THEN [s EXCEPT !.end = "panic"]
      ELSE IF ~known \/ s.left[line.name].digest # line.digest THEN [s EXCEPT !.end = "fault"]
      ELSE [s EXCEPT !.left = Without(@, line.name)]

\* A bug: what RECORD does not list is not looked for.
checkRecordListed(f) ==
  FoldLeft(RecordLine, [left |-> fileMap(f.members), rname |-> "RECORD", end |-> "no"], f.record).end

\* checkRecord: "no" when every member is accounted for
checkRecord(f) ==
  LET s == FoldLeft(RecordLine,
                    [left |-> fileMap(f.members), rname |-> "RECORD", end |-> "no"], f.record)
  IN  IF s.end = "no" /\ DOMAIN s.left # {} THEN "fault" ELSE s.end

\* A zip file is a wheel if it has the three files of dist-info.
isWheel(f) ==
  f.mime = "zip" /\ {"WHEEL", "METADATA", "RECORD"} \subseteq {f.members[i].name : i \in DOMAIN f.members}

\* METADATA has a name, a version and a metadata version.
scanWheelMetadata(f) == ~Faulty(f, "incomplete")

wheel(f) ==
  IF ~isWheel(f) THEN "none"
  ELSE IF Faulty(f, "unreadable") THEN "error"
  ELSE IF checkRecord(f) = "panic" THEN "panic"
  ELSE IF checkRecord(f) = "fault" \/ ~scanWheelMetadata(f) THEN "Rejected"
  ELSE "Approved"

sdist(f) ==
  IF f.mime # "gzip" THEN "none"
  ELSE IF Faulty(f, "gzip") THEN "error"
  ELSE IF f.kind = "sdist" /\ f.faults = {} THEN "Approved" ELSE "none"

pipMetadata(f) == IF Is(f, "text", "metadata") /\ f.faults = {} THEN "Approved" ELSE "none"

-----------------------------------------------------------------------------
(* Chisel, Rust and Java                                                   *)

\* The public keys of chisel.yaml are tried in the random order of a Go map:
\* one that does not parse rejects, unless a configured one came first.
chiselRelease(f, brokenFirst) ==
  IF ~Is(f, "gzip", "chisel") \/ Faulty(f, "unreadable") \/ Faulty(f, "gzip") THEN "none"
  ELSE IF Faulty(f, "undecodable") \/ Faulty(f, "incomplete") THEN "Rejected"
  ELSE IF f.keys \cap AptKeys = {} \/ ("broken" \in f.keys /\ brokenFirst) THEN "Rejected"
  ELSE "Approved"

\* Any JSON document is a config.json; the index of a crate has to name it.
cargoIndex(u, f) ==
  CASE u.kind = "cargo-config" ->
         IF u.configured /\ f.mime = "json" /\ ~Faulty(f, "undecodable") THEN "Approved" ELSE "none"
    [] u.kind = "cargo-index"  ->
         IF f.mime = "ndjson" /\ ~Faulty(f, "undecodable") /\ f.name = u.name THEN "Approved" ELSE "none"
    [] OTHER -> "none"

\* Cargo.toml is looked for in the directory that is named after the request.
cargoCrate(u, f) ==
  IF u.kind # "crate" \/ f.mime # "gzip" THEN "none"
  ELSE IF Faulty(f, "gzip") THEN "error"
  ELSE IF f.kind # "crate" \/ Faulty(f, "unreadable") \/ f.dir # <<u.name, u.version>> THEN "none"
  ELSE IF Faulty(f, "undecodable") THEN "error"
  ELSE IF <<f.name, f.version>> = <<u.name, u.version>> THEN "Approved" ELSE "none"

\* parsePom takes a version that is missing from the parent.
pomVersion(f) == IF f.version = "" THEN f.parent ELSE f.version

mavenJar(f) ==
  IF f.mime # "jar" THEN "none"
  ELSE IF Faulty(f, "unreadable") \/ Faulty(f, "undecodable") THEN "error"
  ELSE IF f.kind = "pom" /\ f.name = f.dir[1] THEN "Approved" ELSE "none"

mavenPom(u, f) ==
  IF u.kind # "pom" \/ f.mime # "xml" THEN "none"
  ELSE IF Faulty(f, "undecodable") THEN "error"
  ELSE IF f.name = u.name /\ pomVersion(f) = u.version THEN "Approved" ELSE "none"

-----------------------------------------------------------------------------
(* LXD                                                                     *)

lxdIndex(u, f) ==
  IF ~(u.kind = "lxd-index" /\ u.configured) \/ ~Is(f, "json", "lxd-index") \/ Faulty(f, "incomplete")
    THEN "none"
  ELSE IF \A t \in f.types : t = "products:1.0" THEN "Approved" ELSE "Rejected"

SupportedVersions == {"26.10", "26.04", "24.04", "22.04", "20.04"}

\* extractSupportedUbuntuImages: paths of tarballs of supported releases, with
\* the digests that the products file gives them.
extractSupportedUbuntuImages(f) ==
  {<<p.path, p.sha256>> :
     p \in {q \in f.products : q.version \in SupportedVersions /\ q.tarball /\ q.sha256 # None}}

\* A tarball with rootfs and metadata.yaml
isRootfs(f) == Is(f, "gzip", "rootfs") /\ f.faults = {}

\* All types in one file, those of one provider, or an index of files.
instanceTypes(u, f) ==
  IF /\ "lxd.instance-types" \in PendingFor(u)
     /\ Is(f, "text", "types") /\ f.faults = {}
     /\ f.types # {} /\ f.types \subseteq {"cpu", "yaml"}
    THEN "Approved" ELSE "none"

-----------------------------------------------------------------------------
(* The inspectors between store.info-api and lxd.simple-streams-download   *)
(* that look at the file alone, in the order in which they run.            *)

Formats == <<"store.resolve-api", "store.transforms-api", "store.appmedia", "bld.bin", "pip.index",
             "pip.wheel", "pip.sdist", "pip.metadata", "chisel.release", "cargo.index",
             "cargo.crate", "maven.jar", "maven.pom", "lxd.simple-streams-index">>

Opinion(i, u, f, brokenFirst) ==
  CASE i = "store.resolve-api"        -> resolveApi(f)
    [] i = "store.transforms-api"     -> transformsApi(f)
    [] i = "store.appmedia"           -> appMedia(u, f)
    [] i = "bld.bin"                  -> bldBin(f)
    [] i = "pip.index"                -> pipIndex(u, f)
    [] i = "pip.wheel"                -> wheel(f)
    [] i = "pip.sdist"                -> sdist(f)
    [] i = "pip.metadata"             -> pipMetadata(f)
    [] i = "chisel.release"           -> chiselRelease(f, brokenFirst)
    [] i = "cargo.index"              -> cargoIndex(u, f)
    [] i = "cargo.crate"              -> cargoCrate(u, f)
    [] i = "maven.jar"                -> mavenJar(f)
    [] i = "maven.pom"                -> mavenPom(u, f)
    [] i = "lxd.simple-streams-index" -> lxdIndex(u, f)
=============================================================================
