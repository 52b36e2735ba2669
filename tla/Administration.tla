---------------------------- MODULE Administration ----------------------------
(***************************************************************************)
(* What those who run the service set up, and what a request meets of it:  *)
(* the access list, the inspectors' configuration and the certificate,     *)
(* which fetchctl changes in memory and on disk and which a restart loads  *)
(* again; the sessions that the controller opens, with their secrets; and  *)
(* one client of the proxy.                                                *)
(*                                                                         *)
(* The dispatcher handles one message at a time.  Its steps here are those *)
(* between which the service may crash or another goroutine may run.  A    *)
(* temporary file is renamed only after it was written by the same         *)
(* operation, so what is left of it by others does not matter and is not   *)
(* kept.                                                                   *)
(***************************************************************************)
EXTENDS Configuration, Secrets, Functions

CONSTANTS
  Installs,     \* whether the service runs from its snap
  Clients,      \* fetchctl clients
  Documents,    \* documents that they send
  Scenarios,    \* which of the clients, documents and requests there are
  FirstAcls, FirstInspectors, FirstCert,  \* files at the first start
  Addresses,    \* addresses of servers
  SecretLists,  \* the secrets that a session may have
  Tunnels,      \* whether the client of the proxy may use CONNECT
  Requests,     \* its requests
  MaxFaults,    \* bound on failed calls of the file system
  MaxCrashes    \* bound on crashes

Kinds == {"acl", "inspectors", "cert"}

\* Documents that configure inspectors, and what they can say of one of them
InspectorsDocuments ==
  {doc \in Documents : doc.type = "inspectors"}
    \cup ({BundledInspectors, FirstInspectors} \ {Blank})

Configurations ==
  [Sections -> {"empty"} \cup UNION {Range(doc.sections) : doc \in InspectorsDocuments}]

\* The files at the first start are of the kind that clients send, and the
\* service can start with them.  A request has a body, which may be empty.
ASSUME AdministrationAssumption ==
  /\ Installs \subseteq BOOLEAN /\ Tunnels \subseteq BOOLEAN
  /\ MaxFaults \in Nat /\ MaxCrashes \in Nat
  /\ None \notin Clients /\ None \notin Requests
  /\ Blank \notin Documents \cup Configurations \cup {BundledAcl, NoAcl, BundledInspectors}
  /\ \A doc \in FirstAcls : doc = Blank \/ (doc \in Documents /\ doc.valid)
  /\ \/ FirstInspectors \in Documents /\ FirstInspectors.valid
     \/ FirstInspectors = Blank /\ Installs = {TRUE}
  /\ FirstCert \in Documents /\ FirstCert.cert = FirstCert.key /\ FirstCert.cert # Blank
  /\ \A s \in Scenarios :
       /\ s.clients \subseteq Clients /\ s.documents \subseteq Documents
       /\ s.requests \subseteq Requests
  /\ \A r \in Requests :
       r.body # None /\ DOMAIN r.body = {"read", "auth", "methods", "creds", "domain", "scope"}

VARIABLES
  fromSnap, use, up,
  acl, insp, ca,      \* what is in force
  disk,               \* acl.yaml, inspectors.yaml, certificate and key
  client, serving,    \* fetchctl clients, and the one whose connection is open
  op,                 \* the operation that the dispatcher handles
  acked,              \* documents whose update was last reported a success
  attempted,          \* documents of updates since then that were not
  dropped, torn,      \* a write error was ignored; only one file was renamed
  session, tunnel, req,
  faults, crashes

settings == <<fromSnap, use, acl, insp, ca>>
files == <<disk, acked, attempted, dropped, torn>>
control == <<client, serving, op>>
proxying == <<session, tunnel, req>>
vars == <<settings, up, files, control, proxying, faults, crashes>>

NoOp == [doc |-> Blank, dry |-> FALSE, step |-> "none"]

NoSession == [state |-> "none", secrets |-> <<>>]

NoRequest == [step |-> "idle", orig |-> None, sent |-> None, code |-> ""]

OpSteps == {"none", "handle", "write", "rename", "write key", "rename cert", "rename key"}

\* What a start makes of the files
Loaded(d) ==
  [acl |-> loadHTTPProxyRulesOrDefault(d.acl, fromSnap),
   insp |-> loadDefaultInspectorsConfigCombine(d.inspectors, fromSnap),
   ca |-> CreateProxyCA(d.cert, d.key)]

SettingsType ==
  /\ fromSnap \in Installs /\ use \in Scenarios /\ up \in BOOLEAN
  /\ acl # Blank /\ ca # Blank /\ insp \in Configurations

FilesType ==
  /\ DOMAIN disk = {"acl", "inspectors", "cert", "key"}
  /\ acked \in [Kinds -> Documents \cup {Blank}]
  /\ attempted \in [Kinds -> SUBSET Documents]
  /\ dropped \in [Kinds -> BOOLEAN] /\ torn \in BOOLEAN

ControlType ==
  /\ client \in [Clients -> {"away", "waiting", "served", "answered", "broken"}]
  /\ serving \in Clients \cup {None}
  /\ op \in [doc : Documents \cup {Blank}, dry : BOOLEAN, step : OpSteps]
  /\ op # NoOp => up /\ serving # None

ProxyType ==
  /\ session \in [state : {"none", "active", "revoked", "ended"}, secrets : SecretLists \cup {<<>>}]
  /\ tunnel \in BOOLEAN
  /\ DOMAIN req = DOMAIN NoRequest /\ req.orig \in Requests \cup {None}
  /\ req.step \in {"idle", "authenticated", "inspected", "sent", "done"}
  /\ req.code \in {"", "200", "403", "407", "413", "500"}

\* The variables of the model range over the values the program gives them.
TypeOK ==
  /\ SettingsType /\ FilesType /\ ControlType /\ ProxyType
  /\ faults \in 0 .. MaxFaults /\ crashes \in 0 .. MaxCrashes

Init ==
  /\ fromSnap \in Installs /\ use \in Scenarios /\ up = TRUE
  /\ \E first \in FirstAcls :
       disk = [acl |-> first, inspectors |-> FirstInspectors,
               cert |-> FirstCert.cert, key |-> FirstCert.key]
  /\ acl = Loaded(disk).acl /\ insp = Loaded(disk).insp /\ ca = Loaded(disk).ca
  /\ client = [c \in Clients |-> "away"] /\ serving = None /\ op = NoOp
  /\ acked = [acl |-> disk.acl, inspectors |-> FirstInspectors, cert |-> FirstCert]
  /\ attempted = [k \in Kinds |-> {}] /\ dropped = [k \in Kinds |-> FALSE] /\ torn = FALSE
  /\ session = NoSession /\ tunnel = FALSE /\ req = NoRequest
  /\ faults = 0 /\ crashes = 0

-----------------------------------------------------------------------------
(* The fetchctl socket                                                     *)

Connect(c) ==
  /\ up /\ client[c] = "away" /\ c \in use.clients
  /\ client' = [client EXCEPT ![c] = "waiting"]
  /\ UNCHANGED <<settings, up, files, serving, op, proxying, faults, crashes>>

\* One connection at a time, with no deadline
Accept(c) ==
  /\ up /\ serving = None /\ client[c] = "waiting"
  /\ serving' = c /\ client' = [client EXCEPT ![c] = "served"]
  /\ UNCHANGED <<settings, up, files, op, proxying, faults, crashes>>

\* The client has its document before it connects, and sends it at once.
Send(c) ==
  /\ serving = c /\ op = NoOp
  /\ \E doc \in use.documents, dry \in BOOLEAN : op' = [doc |-> doc, dry |-> dry, step |-> "handle"]
  /\ UNCHANGED <<settings, up, files, client, serving, proxying, faults, crashes>>

\* The connection of a client that is killed ends, and so does its decoding.
HangUp(c) ==
  /\ serving = c /\ op = NoOp
  /\ serving' = None /\ client' = [client EXCEPT ![c] = "broken"]
  /\ UNCHANGED <<settings, up, files, op, proxying, faults, crashes>>

\* A bug: the connection is not closed.
ReplyOpen ==
  /\ client' = [client EXCEPT ![serving] = "answered"]
  /\ op' = NoOp /\ UNCHANGED serving

Reply ==
  /\ client' = [client EXCEPT ![serving] = "answered"]
  /\ serving' = None /\ op' = NoOp

-----------------------------------------------------------------------------
(* UpdateConfig and UpdateCert                                             *)

kind == op.doc.type

GoTo(step) == op' = [op EXCEPT !.step = step] /\ UNCHANGED <<client, serving>>

\* The update ends with an error; a document that was put in force stays so.
Failure == Reply /\ UNCHANGED <<acked, attempted, dropped>>

Success(ignored) ==
  /\ Reply
  /\ acked' = [acked EXCEPT ![kind] = op.doc]
  /\ attempted' = [attempted EXCEPT ![kind] = {}]
  /\ dropped' = [dropped EXCEPT ![kind] = ignored]

\* A call of the file system fails.
Fault == faults < MaxFaults /\ faults' = faults + 1

\* Nothing to do for a document that does not decode, for a client that only
\* wants to know whether it does, or for a type that nobody knows.
RefuseOrValidate ==
  /\ op.step = "handle"
  /\ ~Accepted(op.doc) \/ op.dry \/ kind \notin Kinds
  /\ Reply
  /\ UNCHANGED <<settings, up, files, proxying, faults, crashes>>

\* A bug: the document goes to the file before anyone looks at it.
ValidBefore(doc) == TRUE

Valid(doc) == Accepted(doc)

\* The document is in force as soon as it is decoded.
SetConfig ==
  /\ op.step = "handle" /\ Valid(op.doc) /\ ~op.dry /\ kind \in Kinds
  /\ acl' = IF kind = "acl" THEN op.doc ELSE acl
  /\ insp' = IF kind = "inspectors" THEN decodeInspectorsConfig(op.doc) ELSE insp
  /\ ca' = IF kind = "cert" THEN op.doc.cert ELSE ca
  /\ attempted' = [attempted EXCEPT ![kind] = @ \cup {op.doc}]
  /\ GoTo("write")
  /\ UNCHANGED <<fromSnap, use, up, disk, acked, dropped, torn, proxying, faults, crashes>>

\* updateConfigFile: the directory is made and the temporary file is written.
WriteConfigFile ==
  /\ op.step = "write" /\ kind # "cert"
  /\ \/ GoTo("rename") /\ UNCHANGED <<acked, attempted, dropped, faults>>
     \/ Fault /\ Failure          \* os.MkdirAll
     \/ Fault /\ Success(TRUE)    \* os.WriteFile
  /\ UNCHANGED <<settings, up, disk, torn, proxying, crashes>>

\* A bug: the rename is not waited for.
RenameConfigFileLater ==
  /\ op.step = "rename"
  /\ disk' = disk /\ Success(FALSE)
  /\ UNCHANGED <<settings, up, torn, proxying, faults, crashes>>

RenameConfigFile ==
  /\ op.step = "rename"
  /\ \/ disk' = [disk EXCEPT ![kind] = op.doc] /\ Success(FALSE) /\ UNCHANGED faults
     \/ Fault /\ Failure /\ UNCHANGED disk
  /\ UNCHANGED <<settings, up, torn, proxying, crashes>>

\* UpdateCertFiles writes two temporary files.
WriteCertFiles ==
  /\ op.step \in {"write", "write key"} /\ kind = "cert"
  /\ \/ /\ GoTo(IF op.step = "write" THEN "write key" ELSE "rename cert")
        /\ UNCHANGED <<acked, attempted, dropped, faults>>
     \/ Fault /\ Failure
  /\ UNCHANGED <<settings, up, disk, torn, proxying, crashes>>

RenameCert ==
  /\ op.step = "rename cert"
  /\ \/ /\ disk' = [disk EXCEPT !.cert = op.doc.cert] /\ torn' = TRUE
        /\ GoTo("rename key") /\ UNCHANGED <<acked, attempted, dropped, faults>>
     \/ Fault /\ Failure /\ UNCHANGED <<disk, torn>>
  /\ UNCHANGED <<settings, up, proxying, crashes>>

\* A bug: an error of the second rename is dropped as well.
RenameKeyAnyway ==
  /\ op.step = "rename key"
  /\ \/ /\ disk' = [disk EXCEPT !.key = op.doc.key] /\ torn' = FALSE
        /\ Success(FALSE) /\ UNCHANGED faults
     \/ Fault /\ Success(FALSE) /\ UNCHANGED <<disk, torn>>
  /\ UNCHANGED <<settings, up, proxying, crashes>>

\* Not fully atomic, says the code: both names change only with this step.
RenameKey ==
  /\ op.step = "rename key"
  /\ \/ /\ disk' = [disk EXCEPT !.key = op.doc.key] /\ torn' = FALSE
        /\ Success(FALSE) /\ UNCHANGED faults
     \/ Fault /\ Failure /\ UNCHANGED <<disk, torn>>
  /\ UNCHANGED <<settings, up, proxying, crashes>>

-----------------------------------------------------------------------------
(* Crash and restart                                                       *)

\* Sessions, connections and what was in force are gone with the process.
Crash ==
  /\ up /\ crashes < MaxCrashes
  /\ up' = FALSE /\ crashes' = crashes + 1
  /\ client' = [c \in Clients |-> IF client[c] \in {"waiting", "served"} THEN "broken" ELSE client[c]]
  /\ serving' = None /\ op' = NoOp
  /\ session' = NoSession /\ tunnel' = FALSE /\ req' = NoRequest
  /\ UNCHANGED <<settings, files, faults>>

\* New and Start load everything, or the service does not come up.
CanStart == Loaded(disk).acl # Blank /\ Loaded(disk).insp # Blank /\ Loaded(disk).ca # Blank

Start ==
  /\ ~up /\ CanStart
  /\ up' = TRUE
  /\ acl' = Loaded(disk).acl /\ insp' = Loaded(disk).insp /\ ca' = Loaded(disk).ca
  /\ UNCHANGED <<fromSnap, use, files, control, proxying, faults, crashes>>

-----------------------------------------------------------------------------
(* Sessions and requests                                                   *)

\* createSession and handleCreateSession; fetchctl creates sessions without
\* secrets.  The dispatcher is not busy with an update.
CreateSession ==
  /\ up /\ op = NoOp /\ session.state = "none" /\ use.requests # {}
  /\ \E secrets \in SecretLists \cup {<<>>} :
       /\ ValidateSecrets(secrets)
       /\ session' = [state |-> "active", secrets |-> secrets]
  /\ UNCHANGED <<settings, up, files, control, tunnel, req, faults, crashes>>

RevokeToken ==
  /\ up /\ op = NoOp /\ session.state = "active"
  /\ session' = [session EXCEPT !.state = "revoked"]
  /\ UNCHANGED <<settings, up, files, control, tunnel, req, faults, crashes>>

\* deleteSession, or the session expires.
EndSession ==
  /\ up /\ op = NoOp /\ session.state \in {"active", "revoked"}
  /\ session' = [session EXCEPT !.state = "ended"]
  /\ UNCHANGED <<settings, up, files, control, tunnel, req, faults, crashes>>

\* What a request brings and leaves, and everything else
Rest == <<settings, up, files, control, session, faults, crashes>>

\* Credentials are checked for each request, or once for a tunnel; those of
\* requests in the tunnel are not looked at.
ProxyAuth ==
  /\ up /\ req.step \in {"idle", "done"}
  /\ \E r \in use.requests, connect \in Tunnels :
       LET good == \/ tunnel
                   \/ op = NoOp /\ basicAuth(r.auth) /\ session.state = "active" /\ r.auth.token
       IN  /\ good \/ ~basicAuth(r.auth) \/ op = NoOp   \* the dispatcher answers
           /\ tunnel' = (tunnel \/ (good /\ connect))
           /\ req' = [step |-> IF good THEN "authenticated" ELSE "done", orig |-> r, sent |-> None,
                      code |-> IF good THEN "" ELSE "407"]
  /\ UNCHANGED Rest

\* processRequest asks the dispatcher for the inspection of the request.
InspectRequest ==
  /\ up /\ op = NoOp /\ req.step = "authenticated"
  /\ \E pass \in BOOLEAN :
       LET good == pass /\ session.state \in {"active", "revoked"}
       IN  req' = [req EXCEPT !.step = IF good THEN "inspected" ELSE "done",
                              !.code = IF good THEN "" ELSE "403"]
  /\ UNCHANGED <<Rest, tunnel>>

GetSessionSecrets == IF session.state \in {"active", "revoked"} THEN session.secrets ELSE <<>>

\* Then it looks for the secrets of the session, whatever became of it.
ForwardRequest ==
  LET r == [url |-> req.orig.url, header |-> req.orig.header, body |-> req.orig.body]
      s == InjectSecrets(GetSessionSecrets, r)
  IN  /\ up /\ req.step = "inspected"
      /\ req' = IF "code" \in DOMAIN s THEN [req EXCEPT !.step = "done", !.code = s.code]
                ELSE [req EXCEPT !.step = "sent", !.sent = s]
      /\ UNCHANGED <<Rest, tunnel>>

\* The round trip may fail; the access list is looked at when it is over.
RoundTrip ==
  /\ up /\ req.step = "sent"
  /\ \E code \in {"500", IF Allowed(acl, req.orig.address) THEN "200" ELSE "403"} :
       req' = [req EXCEPT !.step = "done", !.code = code]
  /\ UNCHANGED <<Rest, tunnel>>

CloseTunnel ==
  /\ tunnel /\ req.step \in {"idle", "done"}
  /\ tunnel' = FALSE /\ req' = NoRequest
  /\ UNCHANGED Rest

-----------------------------------------------------------------------------

Update ==
  \/ RefuseOrValidate \/ SetConfig \/ WriteConfigFile \/ RenameConfigFile
  \/ WriteCertFiles \/ RenameCert \/ RenameKey

Serve(c) == Accept(c) \/ Send(c)

Next ==
  \/ \E c \in Clients : Connect(c) \/ Serve(c) \/ HangUp(c)
  \/ Update
  \/ Crash \/ Start
  \/ CreateSession \/ RevokeToken \/ EndSession
  \/ ProxyAuth \/ InspectRequest \/ ForwardRequest \/ RoundTrip \/ CloseTunnel

\* The accept loop and the dispatcher go on as long as the process runs, and a
\* client that is not killed sends what it has.
Spec ==
  /\ Init /\ [][Next]_vars
  /\ \A c \in Clients : WF_vars(Serve(c))
  /\ WF_vars(Update)
-----------------------------------------------------------------------------
(* Correctness                                                             *)

\* A document is what is on disk; of a certificate both files are, unless the
\* second rename is missing, and then its key is.
OnDisk(k, doc) ==
  IF k = "cert" THEN disk.key = doc.key /\ (torn \/ disk.cert = doc.cert) ELSE disk[k] = doc

\* Whenever the process dies, what is on disk is what was last reported a
\* success, or a later update that was cut short or reported an error; unless
\* an error of writing the new file was dropped.
AckedSurvives ==
  \A k \in Kinds : ~dropped[k] =>
    \E doc \in {acked[k]} \cup attempted[k] : OnDisk(k, doc)

\* After a crash the service can be started again, whatever documents clients
\* sent and whatever calls failed, unless the new certificate was renamed and
\* its key was not.
Startable == ~up /\ ~torn => CanStart

\* The addresses that can be reached, and the certificate, are those that a
\* restart would give, once every update was reported a success and none of
\* them dropped an error.
RestartKeepsAccess ==
  up /\ (\A k \in {"acl", "cert"} : attempted[k] = {} /\ ~dropped[k]) =>
    /\ \A ip \in Addresses : Allowed(acl, ip) <=> Allowed(Loaded(disk).acl, ip)
    /\ ca = Loaded(disk).ca

\* What the caller gave as credentials does not get to a server for which the
\* session has a secret, while the session lasts: the request goes with the
\* secret, in the header or in the only identity of the body, or not at all.
CallerReplaced ==
  req.step = "sent" /\ session.state \in {"active", "revoked"} =>
    LET fits == {i \in DOMAIN session.secrets : req.sent.url \in session.secrets[i].urls}
        secret == session.secrets[Min(fits)]
    IN  fits # {} =>
          IF secret.type = "keystone-v3"
            THEN /\ \A m \in DOMAIN req.sent.body.creds : req.sent.body.creds[m] = secret.creds
                 /\ req.sent.body.scope = req.orig.body.scope
            ELSE req.sent.header = secret.creds

\* Every fetchctl client that waits for the socket gets its answer, or sees its
\* connection end.
OperationsAnswered ==
  \A c \in Clients : client[c] = "waiting" ~> client[c] \in {"answered", "broken"}

\* The inspectors are configured as they will be after a restart, under the
\* conditions of RestartKeepsAccess.
RestartKeepsInspectors ==
  up /\ attempted["inspectors"] = {} /\ ~dropped["inspectors"] => insp = Loaded(disk).insp

\* Credentials of the caller do not go to a server for which the session had a
\* secret when the request was inspected.
NeverRaw ==
  req.step = "sent" /\ session.state # "none" =>
    \A i \in DOMAIN session.secrets :
      req.sent.url \in session.secrets[i].urls /\ session.secrets[i].type # "keystone-v3" =>
        req.sent.header # "caller"
=============================================================================
