-------------------------------- MODULE MCSnap --------------------------------
(***************************************************************************)
(* Two inspections that share the cache.  The keys are root, brand (signed *)
(* by root) and store (signed by brand); the snap store may be honest, or  *)
(* answer with a key of another name, with forged, cyclic, unreadable or   *)
(* missing assertions.                                                     *)
(***************************************************************************)
EXTENDS Snap, TLC

File(mime, ctype) ==
  [mime |-> mime, ctype |-> ctype, faults |-> {}, sha |-> "sha", size |-> 1, signKey |-> "",
   signedBy |-> None, key |-> None, snapID |-> "", publisher |-> "", header |-> <<>>,
   results |-> <<>>]

Assertion(signKey, signedBy) ==
  [File("assertion", "application/x.ubuntu.assertion") EXCEPT
     !.signKey = signKey, !.signedBy = signedBy, !.faults = {"body"}]

AccountKey(key, signKey, signedBy) ==
  [Assertion(signKey, signedBy) EXCEPT !.key = key, !.faults = {}]

Revision == [Assertion("store", "store") EXCEPT !.snapID = "id"]

Declaration ==
  [Assertion("store", "store") EXCEPT !.publisher = "pub", !.header = [series |-> "16"]]

Result(key, result, snapID) == [key |-> key, result |-> result, snapID |-> snapID]

Refresh(r) == [File("json", "refresh") EXCEPT !.results = <<r, Result("new", "download", "other")>>]

MCContent ==
  "root" :> AccountKey("root", "root", "root") @@
  "brand" :> AccountKey("brand", "root", "root") @@
  "store" :> AccountKey("store", "brand", "brand") @@
  "forged" :> AccountKey("store", "brand", "store") @@
  "cyclic" :> AccountKey("brand", "store", "store") @@
  "nokey" :> Assertion("root", "root") @@
  "unsigned" :> [Assertion("root", "root") EXCEPT !.faults = {"signature", "body"}] @@
  "nobody" :> Assertion("", "root") @@
  "broken" :> [Assertion("root", "root") EXCEPT !.faults = {"separator"}] @@
  "revision" :> Revision @@
  "smaller" :> [Revision EXCEPT !.size = 0] @@
  "declaration" :> Declaration @@
  "other" :> [Declaration EXCEPT !.header = [series |-> "18"]] @@
  "false" :> [Declaration EXCEPT !.signedBy = "brand"] @@
  "nopub" :> [Declaration EXCEPT !.publisher = ""] @@
  "account" :> Assertion("brand", "brand") @@
  "fake" :> Assertion("brand", "store") @@
  "snap" :> File("squashfs", "") @@
  "empty" :> [File("squashfs", "") EXCEPT !.faults = {"yaml"}] @@
  "unknown" :> [File("squashfs", "") EXCEPT !.sha = "none"] @@
  "info" :> File("json", "info") @@
  "names" :> File("json", "names") @@
  "nonce" :> File("json", "nonce") @@
  "asked" :> Refresh(Result("1", "refresh", "id")) @@
  "unasked" :> Refresh(Result("2", "refresh", "id")) @@
  "swapped" :> Refresh(Result("1", "refresh", "ix"))

MCFiles == DOMAIN MCContent

Question(kind, name) == <<kind, name>>

Honest ==
  Question("account-key", "brand") :> "brand" @@
  Question("account-key", "store") :> "store" @@
  Question("account-key", "root") :> "root" @@
  Question("snap-revision", "sha") :> "revision" @@
  Question("snap-declaration", "id") :> "declaration" @@
  Question("account", "pub") :> "account"

With(q, f) == [Honest EXCEPT ![q] = f]

MCStores ==
  { Honest,
    With(Question("account-key", "store"), "forged"),
    With(Question("account-key", "store"), "brand"),
    With(Question("account-key", "brand"), "cyclic"),
    With(Question("account-key", "brand"), "nokey"),
    With(Question("account-key", "brand"), None),
    With(Question("snap-revision", "sha"), "smaller"),
    With(Question("snap-declaration", "id"), "other"),
    With(Question("snap-declaration", "id"), "false"),
    With(Question("snap-declaration", "id"), "nopub"),
    With(Question("account", "pub"), "fake") }

Url(kind) == [kind |-> kind, actions |-> <<>>]

Action(key, action, snapID) == [key |-> key, action |-> action, snapID |-> snapID]

RefreshOne ==
  [kind |-> "refresh", actions |-> << Action("1", "install", "id"), Action("1", "refresh", "id") >>]

MCUrls == {Url(k) : k \in {"package", "account-key", "names", "nonce", "elsewhere"}} \cup {RefreshOne}

MCAsks == [d \in Downloads |->
  IF d = "one" THEN MCUrls ELSE {Url("package"), Url("account-key")}]

MCServes == [u \in MCUrls |->
  CASE u.kind = "package"     -> {"snap", "empty", "unknown"}
    [] u.kind = "account-key" -> {"store", "forged", "cyclic", "declaration", "unsigned", "nobody",
                                  "broken", "fake"}
    [] u.kind = "refresh"     -> {"asked", "unasked", "swapped"}
    [] OTHER                  -> {"info", "names", "nonce"}]

MCFilter == {[name |-> "series", value |-> {"16"}]}
=============================================================================
