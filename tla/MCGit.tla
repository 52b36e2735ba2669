-------------------------------- MODULE MCGit --------------------------------
(***************************************************************************)
(* Two repositories, of which the configuration allows one; the other one  *)
(* has the same tag for another commit.                                    *)
(***************************************************************************)
EXTENDS Git

CONSTANTS adv, mainRefs, otherRefs, badRefs, crafted, broken, module, deep, cut, page

MCBodies == {adv, mainRefs, otherRefs, badRefs, crafted, broken, module, deep, cut, page}

Request(kind, repo, pkts) ==
  [kind |-> kind, repo |-> repo, headers |-> TRUE, gitUrl |-> repo = "main",
   craftUrl |-> repo = "main", proto2 |-> TRUE, gzip |-> "no", pkts |-> pkts]

LsRefs(repo) == Request("pack", repo, << <<"command", "ls-refs">>, <<"delim">>, <<"flush">> >>)

Fetch(repo, lines) ==
  Request("pack", repo, << <<"command", "fetch">>, <<"delim">> >> \o lines \o << <<"flush">> >>)

One(commit) == << <<"deepen", "1">>, <<"want", commit>>, <<"want", commit>> >>

Query == Request("query", "main", <<>>)
FetchOne == Fetch("main", One("c1"))
FetchRef == Fetch("main", One("c1") \o << <<"want-ref", "r">> >>)
FetchDeep == Fetch("main", << <<"deepen", "1">>, <<"want", "c1">>, <<"deepen", "2">> >>)
FetchFork == Fetch("fork", One("c2"))
Garbled == Request("pack", "main", << <<"bad">> >>)
Version1 == [FetchOne EXCEPT !.proto2 = FALSE]

MCRequests == {Query, LsRefs("main"), LsRefs("fork"), FetchOne, FetchRef, FetchDeep,
               FetchFork, Garbled, Version1}

Response(type, mime, pkts, tree) == [type |-> type, mime |-> mime, pkts |-> pkts, tree |-> tree]

Refs(lines) == Response("result", "text", lines \o << <<"flush">> >>, <<>>)

Pack(head, commit, end, tree) ==
  Response("result", "octet", head \o << <<"packfile">>, <<"2", "c1">>, <<"1", commit>> >> \o end, tree)

Shallow == << <<"shallow-info">>, <<"shallow", "c1">>, <<"delim">> >>
Flush == << <<"flush">> >>

MCContent ==
  adv :> Response("advertisement", "text",
               << <<"service">>, <<"flush">>, <<"version 2">>, <<"flush">> >>, <<>>) @@
  mainRefs :> Refs(<< <<"tag", "c1", "v1">>, <<"tag", "c1", "v2">> >>) @@
  otherRefs :> Refs(<< <<"tag", "c2", "v1">>, <<"tag", "c1", "v3">> >>) @@
  badRefs :> Response("result", "text", << <<"tag", "c1", "v1">> >>, <<>>) @@
  crafted :> Pack(Shallow, "c1", Flush, "snapcraft.yaml" :> "good") @@
  broken :> Pack(Shallow, "c1", Flush,
                 "snap/snapcraft.yaml" :> "bad" @@ "snapcraft.yaml" :> "good") @@
  module :> Pack(Shallow, "c1", Flush, "go.mod" :> "good") @@
  deep :> Pack(<<>>, "c1", Flush, "rockcraft.yaml" :> "good") @@
  cut :> Pack(Shallow, "c1", <<>>, "rockcraft.yaml" :> "good") @@
  page :> Response("other", "text", <<>>, <<>>)

MCServes == [r \in MCRequests |->
  CASE r.kind = "query"        -> {adv}
    [] r = LsRefs("main")      -> {mainRefs, badRefs}
    [] r = LsRefs("fork")      -> {otherRefs}
    [] r = FetchOne            -> {crafted, broken, module, deep}
    [] r = FetchRef            -> {crafted}
    [] r = FetchDeep           -> {crafted, cut}
    [] r = FetchFork           -> {module}
    [] OTHER                   -> {crafted, page}]

Symmetry == Permutations(Downloads)
=============================================================================
