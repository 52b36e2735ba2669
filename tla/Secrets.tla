------------------------------- MODULE Secrets -------------------------------
(***************************************************************************)
(* Session secrets and how they get into a request, and the credentials of *)
(* a proxy request.  A secret is [type, urls, creds, pair]: the URLs that  *)
(* its pattern matches (None without a pattern), its credentials, and      *)
(* whether they are of the form id:secret.  A request is [url, header,     *)
(* body]; a body is None or [read, auth, methods, creds, domain, scope]:   *)
(* whether it can be read and is not too large, whether it decodes down to *)
(* the identity, the authentication methods, and the credentials that it   *)
(* has for each of them.  None is nil: requests that come in through a     *)
(* server never have it, a request without a body has one that is empty.   *)
(***************************************************************************)
EXTENDS Naturals, Sequences, FiniteSetsExt

CONSTANT None

\* Proxy-Authorization has the scheme Basic and decodes to a user and a
\* password: [scheme, decodes, token]
basicAuth(header) == header.scheme = "Basic" /\ header.decodes

ValidateSecrets(secrets) ==
  \A i \in DOMAIN secrets :
    /\ secrets[i].type \in {"basic-auth", "macaroon", "keystone-v3"}
    /\ secrets[i].urls # None
    /\ secrets[i].creds # ""

\* The identity with the same method and new credentials; a password keeps its
\* domain.  Of the rest of the body nothing changes.
newKeystoneV3Identity(body, secret) ==
  IF Len(body.methods) # 1 \/ body.methods[1] \notin {"application_credential", "password"}
       \/ body.methods[1] \notin DOMAIN body.creds
    THEN None
    ELSE LET method == body.methods[1]
         IN  [body EXCEPT !.creds = [m \in {method} |-> secret.creds],
                          !.domain = IF method = "password" THEN @ ELSE ""]

\* A reply to the client, or the request to send
Refuse(code) == [code |-> code]

\* An empty body does not decode, so that a GET that the pattern matches is
\* refused.
injectKeystoneV3Secret(secret, r) ==
  IF r.body = None THEN r
  ELSE IF r.body.read = "large" THEN Refuse("413")
  ELSE IF r.body.read = "broken" \/ ~secret.pair \/ ~r.body.auth
       \/ newKeystoneV3Identity(r.body, secret) = None THEN Refuse("500")
  ELSE [r EXCEPT !.body = newKeystoneV3Identity(r.body, secret)]

injectSecret(secret, r) ==
  IF secret.type = "keystone-v3" THEN injectKeystoneV3Secret(secret, r)
  ELSE [r EXCEPT !.header = secret.creds]

\* A bug: a body that cannot be changed is sent as it is.
InjectSecretsRaw(secrets, r) ==
  LET fits == {i \in DOMAIN secrets : r.url \in secrets[i].urls}
      s == injectSecret(secrets[Min(fits)], r)
  IN  IF fits = {} \/ "code" \in DOMAIN s THEN r ELSE s

\* The first secret of which the pattern matches is the one that is used.
InjectSecrets(secrets, r) ==
  LET fits == {i \in DOMAIN secrets : r.url \in secrets[i].urls}
  IN  IF fits = {} THEN r ELSE injectSecret(secrets[Min(fits)], r)
=============================================================================
