-------------------------------- MODULE MCApt --------------------------------
(***************************************************************************)
(* An archive with two signed Release files, one newer than the other, and *)
(* a forged one, and a mirror of it that the configuration knows under the *)
(* name of the archive.  Parsing relBlank or debBlank panics.              *)
(***************************************************************************)
EXTENDS Apt

CONSTANTS rel, relNext, relForged, pkg, pkgForged, pkgBad, deb, debForged, text, textOpen, cmds,
          relBlank, debBlank

MCFiles ==
  {rel, relNext, relForged, pkg, pkgForged, pkgBad, deb, debForged, text, textOpen, cmds,
   relBlank, debBlank}

Listing(fs) == [f \in fs |-> [size |-> 1, arch |-> "amd64"]]

ReleaseFile(signers, fs) ==
  [kind |-> "release", size |-> 1, section |-> TRUE, fields |-> ExpectedFields,
   badLines |-> FALSE, blank |-> FALSE, signers |-> signers, entries |-> Listing(fs)]

PackagesFile(fs) ==
  [kind |-> "packages", size |-> 1, readable |-> TRUE, badLines |-> FALSE, entries |-> Listing(fs)]

TextFile(lines) == [kind |-> "translation", size |-> 1, readable |-> TRUE, lines |-> lines]

DebFile ==
  [kind |-> "deb", size |-> 1, named |-> TRUE, described |-> TRUE,
   members |-> {[name |-> "control.tar", sound |-> TRUE]}]

MCContent ==
  rel :> ReleaseFile({"key"}, {pkg, text, textOpen, cmds}) @@
  relNext :> ReleaseFile({"key"}, {text}) @@
  relForged :> ReleaseFile({"other"}, {pkgForged}) @@
  pkg :> PackagesFile({deb}) @@
  pkgForged :> PackagesFile({deb, debForged}) @@
  pkgBad :> [PackagesFile({deb}) EXCEPT !.readable = FALSE] @@
  text :> TextFile(<<"Package", "Description-md5", "Description-", " ", "">>) @@
  textOpen :> TextFile(<<"Package", "Description-md5", "">>) @@
  cmds :> [kind |-> "commands", size |-> 1, readable |-> TRUE,
           header |-> {"suite", "component", "arch"},
           lines |-> <<"", "name", "version", "commands", "">>] @@
  deb :> DebFile @@
  debForged :> DebFile @@
  relBlank :> [ReleaseFile({"other"}, {}) EXCEPT !.blank = TRUE] @@
  debBlank :> [DebFile EXCEPT !.described = FALSE]

MCConfig ==
  "archive" :> [repos |-> {<<"http://archive", "/ubuntu">>}, suites |-> {"noble"},
                components |-> {"main"}, keys |-> {"key"}, alias |-> None] @@
  "mirror" :> [repos |-> {<<"http://mirror", "/ubuntu">>}, suites |-> {"noble"},
               components |-> {"main"}, keys |-> {"key"}, alias |-> "http://archive"]

Url(kind, origin, path) ==
  [kind |-> kind, origin |-> origin, root |-> "/ubuntu", suite |-> "noble",
   component |-> "main", path |-> path, digest |-> None, arch |-> "amd64"]

InRelease == Url("InRelease", "http://archive", "InRelease")
Packages == Url("Packages", "http://archive", "Packages.gz")
MirrorPackages == Url("Packages", "http://mirror", "Packages.gz")
Translation == Url("Translation", "http://archive", "Translation")
Commands == Url("Commands", "http://archive", "Commands")
MirrorDeb == Url("deb", "http://mirror", "deb")

MCUrls == {InRelease, Packages, MirrorPackages, Translation, Commands, MirrorDeb}

\* Files turn up where they belong, and some where they do not.
MCServes ==
  InRelease :> {rel, relNext, relForged, relBlank} @@
  Packages :> {pkg, pkgForged, pkgBad, deb} @@
  MirrorPackages :> {pkg, pkgForged} @@
  Translation :> {text, textOpen, pkg} @@
  Commands :> {cmds} @@
  MirrorDeb :> {deb, debForged, debBlank, pkg}

Symmetry == Permutations(Downloads)
=============================================================================
