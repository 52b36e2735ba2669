------------------------------ MODULE MCCatalogs ------------------------------
(***************************************************************************)
(* Two downloads of lists, from stores and streams that may disagree, and  *)
(* one download of anything.                                               *)
(***************************************************************************)
EXTENDS Catalogs

CONSTANTS
  bins, charms, productsA, productsB, bin, binOpen, image, imageOther, archive, wheelGood,
  wheelExtra, wheelTwice, wheelOpen, sdistGood, meta, crate, toml, jar, pom, chisel, chiselTwo,
  index, json, sizes, transforms, resolve, png, html

MCFiles == {bins, charms, productsA, productsB, bin, binOpen, image, imageOther, archive, wheelGood,
            wheelExtra, wheelTwice, wheelOpen, sdistGood, meta, crate, toml, jar, pom, chisel,
            chiselTwo, index, json, sizes, transforms, resolve, png, html}

File(mime, kind) ==
  [mime |-> mime, kind |-> kind, ctype |-> "", faults |-> {}, name |-> "a", version |-> "1",
   parent |-> "", dir |-> <<"a", "1">>, types |-> {}, versions |-> <<>>, members |-> <<>>,
   record |-> <<>>, keys |-> {}, products |-> {}, revisions |-> {}]

Member(name, digest) == [name |-> name, digest |-> digest, size |-> 1]
Line(name, digest) == [name |-> name, alg |-> "sha256", digest |-> digest, size |-> 1]

Info == << Member("WHEEL", "w"), Member("METADATA", "m"), Member("RECORD", "r") >>
Lines == << Line("WHEEL", "w"), Line("METADATA", "m"),
            [name |-> "RECORD", alg |-> "", digest |-> None, size |-> 0] >>

Wheel(members, lines) ==
  [File("zip", "wheel") EXCEPT !.members = Info \o members, !.record = Lines \o lines]

Item(path, version, sha256) == [path |-> path, version |-> version, tarball |-> TRUE, sha256 |-> sha256]

MCContent ==
  bins :> [File("json", "store-info") EXCEPT !.revisions = {bin, binOpen}] @@
  charms :> [File("json", "store-info") EXCEPT !.name = "b", !.revisions = {bin}] @@
  productsA :> [File("json", "lxd-products") EXCEPT
                  !.products = {Item("noble", "24.04", image), Item("old", "18.04", imageOther)}] @@
  productsB :> [File("json", "lxd-products") EXCEPT !.products = {Item("noble", "24.04", imageOther)}] @@
  bin :> File("xz", "bin") @@
  binOpen :> [File("xz", "bin") EXCEPT !.faults = {"unreadable"}] @@
  image :> File("gzip", "rootfs") @@
  imageOther :> File("gzip", "rootfs") @@
  archive :> [File("gzip", "rootfs") EXCEPT !.faults = {"gzip"}] @@
  wheelGood :> Wheel(<< Member("x", "old"), Member("x", "new") >>, << Line("x", "new") >>) @@
  wheelExtra :> Wheel(<< Member("x", "new") >>, <<>>) @@
  wheelTwice :> Wheel(<< Member("x", "new") >>, << Line("x", "new"), Line("x", "new") >>) @@
  wheelOpen :> Wheel(<< Member("x", "new") >>, << Line("x", None) >>) @@
  sdistGood :> File("gzip", "sdist") @@
  meta :> File("text", "metadata") @@
  crate :> File("gzip", "crate") @@
  toml :> [File("gzip", "crate") EXCEPT !.faults = {"undecodable"}] @@
  jar :> File("jar", "pom") @@
  pom :> [File("xml", "pom") EXCEPT !.version = "", !.parent = "1"] @@
  chisel :> [File("gzip", "chisel") EXCEPT !.keys = {"key"}] @@
  chiselTwo :> [File("gzip", "chisel") EXCEPT !.keys = {"key", "broken"}] @@
  index :> [File("json", "lxd-index") EXCEPT !.types = {"products:1.0"}] @@
  json :> [File("json", "other") EXCEPT !.ctype = "application/vnd.pypi.simple.v1+json"] @@
  sizes :> [File("text", "types") EXCEPT !.types = {"cpu"}] @@
  transforms :> [File("json", "transforms") EXCEPT !.types = {"bin", "charm"}] @@
  resolve :> File("json", "resolve") @@
  png :> File("png", "appmedia") @@
  html :> [File("html", "index") EXCEPT !.versions = <<"1.0", "1.1">>]

Url(kind) ==
  [kind |-> kind, configured |-> TRUE, type |-> "bins", name |-> "a", version |-> "1",
   path |-> CASE kind = "lxd-item" -> "noble"
              [] kind \in {"chisel", "crate"} -> "releases"
              [] OTHER -> None]

Lists == {Url("store-info"), [Url("store-info") EXCEPT !.type = "charms"], Url("lxd-products")}

Others == {Url(k) : k \in {"bin", "resolve", "transforms", "appmedia", "chisel", "cargo-config",
                          "lxd-index", "lxd-item", "lxd-types", "pip-index", "wheel", "crate", "pom"}}

OldItem == [Url("lxd-item") EXCEPT !.path = "old"]

Elsewhere == [Url("bin") EXCEPT !.configured = FALSE]

MCUrls == Lists \cup Others \cup {OldItem, Elsewhere}

MCAsks == [d \in Downloads |-> IF d = "main" THEN MCUrls ELSE Lists]

MCServes == [u \in MCUrls |->
  CASE u.kind = "store-info"   -> {IF u.type = "bins" THEN bins ELSE charms}
    [] u.kind = "lxd-products" -> {productsA, productsB}
    [] u.kind = "bin"          -> {bin, binOpen}
    [] u.kind = "lxd-item"     -> {image, imageOther, archive, sdistGood}
    [] u.kind = "resolve"      -> {resolve, json}
    [] u.kind = "transforms"   -> {transforms}
    [] u.kind = "appmedia"     -> {png}
    [] u.kind = "chisel"       -> {chisel, chiselTwo, wheelGood}
    [] u.kind = "cargo-config" -> {json, productsA}
    [] u.kind = "lxd-index"    -> {index}
    [] u.kind = "lxd-types"    -> {sizes}
    [] u.kind = "pip-index"    -> {html, json}
    [] u.kind = "crate"        -> {crate, toml}
    [] u.kind = "pom"          -> {pom, jar}
    [] OTHER                   -> {wheelGood, wheelExtra, wheelTwice, wheelOpen, sdistGood, meta}]
=============================================================================
