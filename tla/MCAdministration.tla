--------------------------- MODULE MCAdministration ---------------------------
(***************************************************************************)
(* Two fetchctl clients with good and bad documents, one session and one   *)
(* client of the proxy; a crash and a failed call of the file system.      *)
(***************************************************************************)
EXTENDS Administration

Acl(policy, rules) == [type |-> "acl", valid |-> TRUE, policy |-> policy, rules |-> rules]
Rule(dst, access) == [dst |-> dst, access |-> access]
Inspectors(sections) == [type |-> "inspectors", valid |-> TRUE, sections |-> sections]
Cert(cert, key) == [type |-> "cert", valid |-> TRUE, cert |-> cert, key |-> key]

MCSections == {"apt", "git"}
MCBundledAcl == Acl("deny", << Rule({"public"}, "allow") >>)
MCBundledInspectors == Inspectors([apt |-> "bundled", git |-> "bundled"])

MCFirstAcls == {Blank, MCBundledAcl}
MCFirstInspectors == MCBundledInspectors
MCFirstCert == Cert("old", "old")

MCDocuments ==
  { MCBundledAcl, MCBundledInspectors, MCFirstCert,
    Acl("allow", << Rule({"private"}, "deny"), Rule({"public", "private"}, "allow") >>),
    [Acl("allow", <<>>) EXCEPT !.valid = FALSE],
    Inspectors([apt |-> "custom"]),
    Cert("new", "new"),
    Cert("new", "old"),
    [type |-> "", valid |-> TRUE] }

Secret(type, creds) == [type |-> type, urls |-> {"store"}, creds |-> creds, pair |-> TRUE]

MCSecretLists ==
  { << Secret("macaroon", "mac"), Secret("basic-auth", "basic") >>,
    << Secret("keystone-v3", "key") >>,
    << [Secret("basic-auth", "basic") EXCEPT !.urls = None] >> }

Body(methods, creds) ==
  [read |-> "whole", auth |-> TRUE, methods |-> methods, creds |-> creds,
   domain |-> "default", scope |-> "project"]

\* http.NoBody
Empty == [Body(<<>>, <<>>) EXCEPT !.auth = FALSE]

Both == [password |-> "caller", application_credential |-> "caller"]

Request(header, body) ==
  [auth |-> [scheme |-> "Basic", decodes |-> TRUE, token |-> TRUE], url |-> "store",
   address |-> "private", header |-> header, body |-> body]

MCRequests ==
  { Request("caller", Empty),
    [Request("caller", Empty) EXCEPT !.url = "mirror", !.address = "public"],
    [Request("", Empty) EXCEPT !.auth.token = FALSE],
    Request("", Body(<<"password">>, Both)),
    Request("", Body(<<"application_credential">>, Both)),
    Request("", Body(<<"password", "token">>, Both)),
    Request("", [Body(<<"password">>, Both) EXCEPT !.read = "large"]) }

\* Two clients that change everything, or one that changes the access list while
\* the proxy is used
MCScenarios ==
  { [clients |-> Clients, documents |-> MCDocuments, requests |-> {}],
    [clients |-> {CHOOSE c \in Clients : TRUE},
     documents |-> {doc \in MCDocuments : doc.type = "acl"}, requests |-> MCRequests] }
=============================================================================
