------------------------------ MODULE SnapFiles ------------------------------
(***************************************************************************)
(* What the snap inspectors make of a URL, an assertion and an answer of   *)
(* the snap store by itself.                                               *)
(*                                                                         *)
(* A URL is [kind, actions]: the pattern of snap/urls.go that it matches,  *)
(* and the actions in the body of a refresh request.  A file is            *)
(*   [mime, ctype, faults, sha, size,               any file               *)
(*    signKey, signedBy, key, snapID, publisher, header,   assertions      *)
(*    results]                                      refresh answers        *)
(* where signKey is the key that an assertion names, signedBy the one that *)
(* its signature verifies with, and key the public key in its body.        *)
(* faults names what is wrong with a file:                                 *)
(*   separator  no empty line before the signature                         *)
(*   signature  the signature does not decode                              *)
(*   body       the body does not decode to an RSA public key              *)
(*   image      squashfs cannot be read                                    *)
(*   yaml       meta/snap.yaml is missing or does not decode               *)
(*   incomplete the document is not JSON, or a field is missing, empty or  *)
(*              unknown                                                    *)
(***************************************************************************)
EXTENDS Naturals, Sequences, SequencesExt

CONSTANTS
  None,       \* no value
  RootKey,    \* CanonicalRootAccountKey
  Filter      \* cfg.SnapDeclarationFilter: [name, value]

Faulty(f, what) == what \in f.faults

AssertionKinds == {"snap-revision", "snap-declaration", "account", "account-key", "serial"}

\* Answers of the snap store that are JSON
Listings == {"info", "refresh", "sections", "sessions", "nonce", "request-id", "names"}

\* The inspector that sets the request to Pending
PendingFor(u) ==
  IF u.kind = "package" THEN {"snap"}
  ELSE IF u.kind \in AssertionKinds THEN {"snap.assertion"}
  ELSE {u.kind} \cap Listings

-----------------------------------------------------------------------------
(* Assertions                                                              *)

\* The header is what precedes the first line without a colon, so a document
\* with no header at all still parses.
newAssertion(f) == f.mime = "assertion" /\ ~Faulty(f, "separator")

decodeSignature(a) == ~Faulty(a, "signature")

decodePublicKey(a) == IF Faulty(a, "body") THEN None ELSE a.key

\* utils.VerifySignature
signedWith(a, key) == a.signedBy = key

\* What checkSnapRevisionAssertion compares before it verifies the signature
matchesSnap(a, f) == a.size = f.size /\ a.sha = f.sha /\ a.snapID # ""

checkSnapDeclarationFilter(a) ==
  \A v \in Filter : v.name \in DOMAIN a.header /\ a.header[v.name] \in v.value

-----------------------------------------------------------------------------
(* Refresh                                                                 *)

\* Of the actions with the same instance key the last one counts.
snapRefreshActionsByInstanceKey(actions) ==
  LET with(key) == {i \in DOMAIN actions : actions[i].key = key}
  IN  [key \in {actions[i].key : i \in DOMAIN actions} \ {""} |->
         actions[CHOOSE i \in with(key) : \A j \in with(key) : j <= i]]

\* A result that the actions of the request do not explain
unexpected(result, byKey) ==
  IF result.key \notin DOMAIN byKey THEN result.result # "download"
  ELSE LET action == byKey[result.key]
       IN  \/ action.action = "refresh" /\ result.result # "refresh"
           \/ action.action \notin {"", "refresh"} /\ result.result = "refresh"
           \/ action.snapID # "" /\ result.snapID # "" /\ action.snapID # result.snapID

\* A bug: results with an instance key of their own are let through.
snapRefreshAny(actions, f) ==
  IF Faulty(f, "incomplete") \/ f.results = <<>> THEN "none"
  ELSE LET byKey == snapRefreshActionsByInstanceKey(actions)
       IN  IF \E i \in DOMAIN f.results :
                f.results[i].key \in DOMAIN byKey /\ unexpected(f.results[i], byKey)
             THEN "Rejected" ELSE "Approved"

\* The request annotation is there only if the request had actions.
snapRefresh(actions, f) ==
  IF Faulty(f, "incomplete") \/ f.results = <<>> THEN "none"
  ELSE LET byKey == snapRefreshActionsByInstanceKey(actions)
       IN  IF DOMAIN byKey # {} /\ \E i \in DOMAIN f.results : unexpected(f.results[i], byKey)
             THEN "Rejected" ELSE "Approved"

-----------------------------------------------------------------------------
(* The other answers                                                       *)

\* snap.info looks at the document only.
snapInfo(f) == IF f.ctype = "info" /\ ~Faulty(f, "incomplete") THEN "Approved" ELSE "none"

\* snap.sections and snap.names need an entry in the list, and the request to
\* be their own.
snapList(i, u, f) ==
  IF u.kind = i /\ f.ctype = i /\ ~Faulty(f, "incomplete") THEN "Approved" ELSE "none"

\* snap.auth-sessions, snap.auth-nonce and snap.auth-request-id need their one
\* field not to be empty, and the request to be their own.
snapAuth(i, u, f) ==
  IF u.kind = i /\ f.ctype = i /\ ~Faulty(f, "incomplete") THEN "Approved" ELSE "none"

Opinion(i, u, f) ==
  IF f.mime # "json" THEN "none"
  ELSE CASE i = "refresh" -> IF f.ctype = "refresh" THEN snapRefresh(u.actions, f) ELSE "none"
         [] i = "info"    -> snapInfo(f)
         [] i \in {"sections", "names"} -> snapList(i, u, f)
         [] i \in {"sessions", "nonce", "request-id"} -> snapAuth(i, u, f)
=============================================================================
