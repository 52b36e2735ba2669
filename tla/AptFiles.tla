------------------------------- MODULE AptFiles -------------------------------
(***************************************************************************)
(* What the apt and deb inspectors read out of a downloaded file, and what *)
(* the repository configuration says about a URL.                          *)
(*                                                                         *)
(* Files stands for the SHA256 digests and Content for what is behind      *)
(* them.  Every file has a kind (its detected type), a size, and:          *)
(*   release      fields, section, badLines, blank, signers, entries       *)
(*   packages     readable, badLines, entries                              *)
(*   translation  readable, lines                                          *)
(*   commands     readable, header, lines                                  *)
(*   deb          members, named, described                                *)
(* entries maps the digests that an index lists to [size, arch].           *)
(***************************************************************************)
EXTENDS Naturals, Sequences, SequencesExt

CONSTANTS
  Files,      \* digests of the files that servers may send
  Content,    \* what each of them contains
  CfgNames,   \* names of the entries of apt.repositories
  Config,     \* [repos, suites, components, keys, alias] of each entry
  Urls,       \* what clients may ask for
  None        \* no value: no file, no configuration entry, no alias

Kind(f) == Content[f].kind

Entries(f) == Content[f].entries

-----------------------------------------------------------------------------
(* Release files                                                           *)

ExpectedFields ==
  {"Origin", "Label", "Suite", "Version", "Codename", "Date", "Architectures", "Components"}

\* parseUpToSignatures gives up on a file without a SHA256 section.
parseUpToSignatures(f) == Content[f].section

isMissingFields(f) == ~(ExpectedFields \subseteq Content[f].fields)

\* Lines of the SHA256 section that are not digest, size and name.
parseSignaturesSection(f) == ~Content[f].badLines

\* An empty line in the SHA256 section is indexed past its end.
parseSignaturesPanics(f) == Content[f].blank

\* VerifyAnySignature: one signature by one of the configured keys is enough.
checkSignature(f, keys) == Content[f].signers \cap keys # {}

-----------------------------------------------------------------------------
(* Packages, Translation and Commands files, and deb packages              *)

\* A Size or SHA256 field that is not a number or a digest.
parsePackages(f) == ~Content[f].badLines

TranslationStart == [package |-> FALSE, md5 |-> FALSE, desc |-> FALSE, items |-> 0, err |-> FALSE]

TranslationLine(s, line) ==
  IF s.err THEN s
  ELSE CASE line = "Package"         -> [s EXCEPT !.package = TRUE, !.err = s.package]
         [] line = "Description-md5" -> [s EXCEPT !.md5 = TRUE, !.err = ~s.package]
         [] line = "Description-"    -> [s EXCEPT !.desc = TRUE, !.err = ~s.md5 \/ ~s.package]
         [] line = " "               -> [s EXCEPT !.err = ~s.desc]
         [] line = ""                -> [TranslationStart EXCEPT
                                           !.items = s.items + IF s.desc THEN 1 ELSE 0]
         [] OTHER                    -> s

\* A bug: an entry that nothing follows is not looked at.
parseTranslationFileOpen(f) ==
  LET s == FoldLeft(TranslationLine, TranslationStart, Content[f].lines)
  IN  ~s.err

parseTranslationFile(f) ==
  LET s == FoldLeft(TranslationLine, TranslationStart, Content[f].lines)
  IN  ~s.err /\ s.items > 0 /\ (s.package => s.md5 /\ s.desc)

\* parseHeader stops at an empty line.
parseHeader(f) ==
  /\ "no colon" \notin Content[f].header
  /\ {"suite", "component", "arch"} \subseteq Content[f].header

PkgListStart == [seen |-> {}, err |-> FALSE]

PkgListLine(s, line) ==
  IF s.err THEN s
  ELSE CASE line \in {"name", "version", "commands"} -> [seen |-> s.seen \cup {line},
                                                         err |-> line \in s.seen]
         [] line = ""                                -> [seen |-> {},
                                                         err |-> Cardinality(s.seen) # 3]
         [] OTHER                                    -> s

\* The lines after the header, of which the caller skips the first.
parsePkgList(f) ==
  ~FoldLeft(PkgListLine, PkgListStart, IF Content[f].lines = <<>> THEN <<>> ELSE Tail(Content[f].lines)).err

\* A member is parsed when its name is known: the version, the control file, or
\* the copyright file.
parseMember(m) == m.name \in {"debian-binary", "control.tar", "data.tar"} => m.sound

\* All members have to be sound and the control file has to name the package.
readDebMetadata(f) == (\A m \in Content[f].members : parseMember(m)) /\ Content[f].named

\* parseControl takes the first letter of the Description, which may be empty;
\* it gets there unless a member before the control file ended the parsing.
parseControlPanics(f) == ~Content[f].described

-----------------------------------------------------------------------------
(* URLs: [kind, origin, root, suite, component, path, digest, arch]        *)

UrlKinds == {"InRelease", "Packages", "Translation", "Commands", "deb"}

repositoryIsAllowed(u, c) == <<u.origin, u.root>> \in Config[c].repos

suiteIsAllowed(u, c) == u.suite \in Config[c].suites

componentIsAllowed(u, c) == u.component \in Config[c].components

\* NewInReleaseURLInfo, NewPackagesURLInfo, NewTranslationURLInfo,
\* NewCommandURLInfo and NewDebPackageURLInfo: the configuration entry that
\* they find, or None.  Entries are tried in the random order of a Go map, and
\* suite and component are only looked up in the first one that knows the
\* repository.
UrlInfo(u) ==
  LET allowed == {c \in CfgNames : repositoryIsAllowed(u, c)}
      valid == {c \in allowed :
                  /\ u.kind # "deb" => suiteIsAllowed(u, c)
                  /\ u.kind \notin {"deb", "InRelease"} => componentIsAllowed(u, c)}
  IN  valid \cup IF valid = allowed /\ valid # {} THEN {} ELSE {None}

\* A mirror keeps its state under the name of what it mirrors.
getOriginAlias(u, c) == IF Config[c].alias = None THEN u.origin ELSE Config[c].alias

getRepositoryAlias(u, c) == <<getOriginAlias(u, c), u.root, u.suite>>
=============================================================================
