------------------------- MODULE AdministrationProofs -------------------------
(***************************************************************************)
(* That what was acknowledged survives a crash, that the service can be    *)
(* started again and gives the same access, and that the caller's          *)
(* credentials are replaced, for every set of documents, secrets and       *)
(* requests and any number of faults and crashes.                          *)
(***************************************************************************)
EXTENDS Administration, TLAPS

\* The client whose operation runs holds the socket, and an update that is
\* past its checks is of an accepted document that is in force already.
OpInv ==
  /\ serving # None => up
  /\ op.step = "none" <=> op = NoOp
  /\ op # NoOp => op.doc \in Documents
  /\ op.step \notin {"none", "handle"} =>
       /\ Accepted(op.doc) /\ kind \in Kinds /\ op.doc \in attempted[kind]
       /\ kind = "acl" => acl = op.doc
       /\ kind = "cert" => ca = op.doc.cert
  /\ op.step = "rename" => kind # "cert"
  /\ op.step \in {"write key", "rename cert", "rename key"} => kind = "cert"
  /\ op.step = "rename key" => torn /\ disk.cert = op.doc.cert

\* Every file can be loaded, but for a certificate without its key.
DiskInv ==
  /\ disk.acl = Blank \/ disk.acl.valid
  /\ IF disk.inspectors = Blank THEN fromSnap
     ELSE disk.inspectors \in InspectorsDocuments /\ disk.inspectors.valid
  /\ torn \/ (disk.cert = disk.key /\ disk.cert # Blank)

\* What is in force is what is on disk, once no update is open.
ForceInv ==
  up => /\ attempted["acl"] = {} /\ ~dropped["acl"] => acl = Loaded(disk).acl
        /\ attempted["cert"] = {} /\ ~dropped["cert"] => ca = Loaded(disk).ca

\* What processRequest sends with the secrets of a session
Original(r) == [url |-> r.url, header |-> r.header, body |-> r.body]

\* A request that was inspected is of a session that has begun, so no later
\* session can take its place; it was sent with the secrets of that session.
RequestInv ==
  /\ req.step \notin {"idle", "done"} => req.orig \in Requests
  /\ req.step \in {"inspected", "sent"} => session.state # "none"
  /\ req.step = "sent" /\ session.state \in {"active", "revoked"} =>
       /\ req.sent = InjectSecrets(session.secrets, Original(req.orig))
       /\ "code" \notin DOMAIN req.sent

Inv == TypeOK /\ OpInv /\ DiskInv /\ AckedSurvives /\ ForceInv /\ RequestInv

-----------------------------------------------------------------------------
(* What is loaded from documents                                           *)

\* A document gives a configuration, alone or on top of another one.
LEMMA InspectorsDecoded ==
  ASSUME NEW doc \in InspectorsDocuments
  PROVE  /\ decodeInspectorsConfig(doc) \in Configurations
         /\ \A cfg \in Configurations : Combine(cfg, doc) \in Configurations
<1> DEFINE Contents == {"empty"} \cup UNION {Range(d.sections) : d \in InspectorsDocuments}
<1>1. \A s \in DOMAIN doc.sections : doc.sections[s] \in Contents
  BY DEF Range
<1>2. "empty" \in Contents /\ Configurations = [Sections -> Contents]
  BY DEF Configurations
<1> HIDE DEF Contents
<1>3. decodeInspectorsConfig(doc) \in Configurations
  BY <1>1, <1>2 DEF decodeInspectorsConfig
<1>4. \A cfg \in Configurations : Combine(cfg, doc) \in Configurations
  BY <1>1, <1>2 DEF Combine
<1> QED
  BY <1>3, <1>4

\* What a start loads from the files, unless the certificate is without its key.
LEMMA FilesLoad ==
  ASSUME DiskInv
  PROVE  /\ Loaded(disk).acl # Blank
         /\ Loaded(disk).insp \in Configurations
         /\ ~torn => Loaded(disk).ca # Blank
<1>1. Loaded(disk).acl # Blank
  BY AdministrationAssumption DEF DiskInv, Loaded, loadHTTPProxyRulesOrDefault
<1>2. ~torn => Loaded(disk).ca # Blank
  BY DEF DiskInv, Loaded, CreateProxyCA
<1>3. BundledInspectors \in InspectorsDocuments
  BY AdministrationAssumption DEF InspectorsDocuments
<1>4. CASE disk.inspectors = Blank
  <2>1. fromSnap
    BY <1>4 DEF DiskInv
  <2>2. Loaded(disk).insp = decodeInspectorsConfig(BundledInspectors)
    BY <1>4, <2>1 DEF Loaded, loadDefaultInspectorsConfigCombine
  <2> QED
    BY <1>1, <1>2, <1>3, <2>2, InspectorsDecoded
<1>5. CASE disk.inspectors # Blank
  <2>1. disk.inspectors \in InspectorsDocuments /\ disk.inspectors.valid
    BY <1>5 DEF DiskInv
  <2>2. \/ Loaded(disk).insp = decodeInspectorsConfig(disk.inspectors)
        \/ Loaded(disk).insp = Combine(decodeInspectorsConfig(BundledInspectors), disk.inspectors)
    BY <1>5, <2>1 DEF Loaded, loadDefaultInspectorsConfigCombine
  <2> QED
    BY <1>1, <1>2, <1>3, <2>1, <2>2, InspectorsDecoded
<1> QED
  BY <1>4, <1>5

-----------------------------------------------------------------------------
(* The first state                                                         *)

\* The inductive invariant holds when the service has started.
LEMMA InitInv == Init => Inv
<1> SUFFICES ASSUME Init PROVE Inv
  OBVIOUS
<1>1. PICK first \in FirstAcls :
        disk = [acl |-> first, inspectors |-> FirstInspectors,
                cert |-> FirstCert.cert, key |-> FirstCert.key]
  BY DEF Init
<1>2. DiskInv
  <2>1. disk.acl = Blank \/ disk.acl.valid
    BY <1>1, AdministrationAssumption
  <2>2. IF disk.inspectors = Blank THEN fromSnap
        ELSE disk.inspectors \in InspectorsDocuments /\ disk.inspectors.valid
    BY <1>1, AdministrationAssumption DEF Init, InspectorsDocuments
  <2>3. disk.cert = disk.key /\ disk.cert # Blank
    BY <1>1, AdministrationAssumption
  <2> QED
    BY <2>1, <2>2, <2>3 DEF DiskInv
<1>3. TypeOK
  <2>1. disk.acl \in Documents \cup {Blank} /\ FirstInspectors \in Documents \cup {Blank}
        /\ FirstCert \in Documents
    BY <1>1, AdministrationAssumption
  <2>2. acked \in [Kinds -> Documents \cup {Blank}]
    BY <2>1 DEF Init, Kinds
  <2>3. acl # Blank /\ ca # Blank /\ insp \in Configurations
    <3>1. ~torn
      BY DEF Init
    <3> QED
      BY <1>2, <3>1, FilesLoad DEF Init
  <2>4. DOMAIN disk = {"acl", "inspectors", "cert", "key"}
    BY <1>1
  <2>5. MaxFaults \in Nat /\ MaxCrashes \in Nat
    BY AdministrationAssumption
  <2>6. faults \in 0 .. MaxFaults /\ crashes \in 0 .. MaxCrashes
    BY <2>5 DEF Init
  <2>7. SettingsType
    BY <2>3 DEF Init, SettingsType
  <2>8. FilesType
    BY <2>2, <2>4 DEF Init, FilesType
  <2>9. ControlType
    BY DEF Init, ControlType, NoOp, OpSteps
  <2>10. ProxyType
    BY DEF Init, ProxyType, NoSession, NoRequest
  <2> QED
    BY <2>6, <2>7, <2>8, <2>9, <2>10 DEF TypeOK
<1>4. OpInv
  BY DEF Init, OpInv, NoOp
<1>5. AckedSurvives
  BY <1>1 DEF Init, AckedSurvives, OnDisk, Kinds
<1>6. ForceInv
  BY DEF Init, ForceInv
<1>7. RequestInv
  BY DEF Init, RequestInv, NoRequest
<1> QED
  BY <1>2, <1>3, <1>4, <1>5, <1>6, <1>7 DEF Inv
-----------------------------------------------------------------------------
(* Steps                                                                   *)

\* What a step leaves alone of the configuration and of the client's operation
LEMMA SettingsKept ==
  ASSUME Inv, UNCHANGED <<settings, up, files, control>>
  PROVE  OpInv' /\ DiskInv' /\ AckedSurvives' /\ ForceInv'
<1> USE DEF settings, files, control
<1>1. OpInv'
  BY DEF Inv, OpInv, kind
<1>2. DiskInv'
  BY DEF Inv, DiskInv
<1>3. AckedSurvives'
  BY DEF Inv, AckedSurvives, OnDisk
<1>4. ForceInv'
  BY DEF Inv, ForceInv, Loaded
<1> QED
  BY <1>1, <1>2, <1>3, <1>4

\* What a step leaves alone of the files
LEMMA FilesKept ==
  ASSUME Inv, UNCHANGED <<settings, files>>, up' => up
  PROVE  DiskInv' /\ AckedSurvives' /\ ForceInv'
<1> USE DEF settings, files
<1>2. DiskInv'
  BY DEF Inv, DiskInv
<1>3. AckedSurvives'
  BY DEF Inv, AckedSurvives, OnDisk
<1>4. ForceInv'
  BY DEF Inv, ForceInv, Loaded
<1> QED
  BY <1>2, <1>3, <1>4

\* What a step leaves alone of sessions and requests
LEMMA RequestKept ==
  ASSUME Inv, UNCHANGED proxying
  PROVE  RequestInv'
BY DEF Inv, RequestInv, proxying

\* What a step leaves alone of the operation
LEMMA OpKept ==
  ASSUME OpInv, UNCHANGED <<up, op, acl, ca, attempted, torn, disk>>, serving' # None => up
  PROVE  OpInv'
BY DEF OpInv, kind

\* The types of what a step leaves alone
LEMMA TypesKept ==
  ASSUME Inv
  PROVE  /\ UNCHANGED <<settings, up>> => SettingsType'
         /\ UNCHANGED files => FilesType'
         /\ UNCHANGED <<control, up>> => ControlType'
         /\ UNCHANGED proxying => ProxyType'
         /\ UNCHANGED faults => (faults \in 0 .. MaxFaults)'
         /\ UNCHANGED crashes => (crashes \in 0 .. MaxCrashes)'
<1> USE DEF settings, files, control, proxying
<1>1. UNCHANGED <<settings, up>> => SettingsType'
  BY DEF Inv, TypeOK, SettingsType
<1>2. UNCHANGED files => FilesType'
  BY DEF Inv, TypeOK, FilesType
<1>3. UNCHANGED <<control, up>> => ControlType'
  BY DEF Inv, TypeOK, ControlType
<1>4. UNCHANGED proxying => ProxyType'
  BY DEF Inv, TypeOK, ProxyType
<1>5. UNCHANGED faults => (faults \in 0 .. MaxFaults)'
  BY DEF Inv, TypeOK
<1>6. UNCHANGED crashes => (crashes \in 0 .. MaxCrashes)'
  BY DEF Inv, TypeOK
<1> QED
  BY <1>1, <1>2, <1>3, <1>4, <1>5, <1>6

\* Clients come, are accepted, send their documents and hang up.
LEMMA SocketStep ==
  ASSUME Inv, NEW c \in Clients, Connect(c) \/ Serve(c) \/ HangUp(c)
  PROVE  Inv'
<1>1. UNCHANGED <<settings, up, files, proxying, faults, crashes>>
  BY DEF Connect, Serve, Accept, Send, HangUp
<1>2. DiskInv' /\ AckedSurvives' /\ ForceInv' /\ RequestInv'
  <2>1. UNCHANGED <<settings, files>> /\ (up' => up) /\ UNCHANGED proxying
    BY <1>1
  <2> QED
    BY <2>1, FilesKept, RequestKept
<1>3. c # None
  BY AdministrationAssumption
<1>4. SettingsType' /\ FilesType' /\ ProxyType'
      /\ faults' \in 0 .. MaxFaults /\ crashes' \in 0 .. MaxCrashes
  <2>1. /\ UNCHANGED <<settings, up>> /\ UNCHANGED files /\ UNCHANGED proxying
        /\ UNCHANGED faults /\ UNCHANGED crashes
    BY <1>1
  <2> QED
    BY <2>1, TypesKept
<1>5. ControlType' /\ OpInv'
  <2> USE <1>1 DEF settings, files
  <2>0. ControlType /\ OpInv /\ use \in Scenarios
    BY DEF Inv, TypeOK, SettingsType
  <2>1. CASE Connect(c)
    <3>1. ControlType'
      BY <2>0, <2>1 DEF Connect, ControlType
    <3>2. UNCHANGED <<up, op, acl, ca, attempted, torn, disk>> /\ up
      BY <2>1 DEF Connect
    <3>3. OpInv'
      BY <2>0, <3>2, OpKept
    <3> QED
      BY <3>1, <3>3
  <2>2. CASE Accept(c)
    <3>1. ControlType'
      BY <2>0, <1>3, <2>2 DEF Accept, ControlType
    <3>2. UNCHANGED <<up, op, acl, ca, attempted, torn, disk>> /\ up
      BY <2>2 DEF Accept
    <3>3. OpInv'
      BY <2>0, <3>2, OpKept
    <3> QED
      BY <3>1, <3>3
  <2>3. CASE Send(c)
    <3>1. PICK doc \in use.documents, dry \in BOOLEAN :
            op' = [doc |-> doc, dry |-> dry, step |-> "handle"]
      BY <2>3 DEF Send
    <3>2. doc \in Documents /\ doc # Blank
      BY <2>0, AdministrationAssumption
    <3>3. serving = c /\ up /\ UNCHANGED <<client, serving>>
      BY <2>0, <1>3, <2>3 DEF Send, OpInv
    <3>4. op' \in [doc : Documents \cup {Blank}, dry : BOOLEAN, step : OpSteps]
      BY <3>1, <3>2 DEF OpSteps
    <3>5. ControlType'
      BY <2>0, <1>3, <3>3, <3>4 DEF ControlType
    <3>6. op'.step = "handle" /\ op' # NoOp /\ op'.doc = doc
      BY <3>1, <3>2 DEF NoOp
    <3>7. OpInv'
      BY <3>2, <3>3, <3>6 DEF OpInv
    <3> QED
      BY <3>5, <3>7
  <2>4. CASE HangUp(c)
    <3>1. ControlType'
      BY <2>0, <1>3, <2>4 DEF HangUp, ControlType
    <3>2. OpInv'
      BY <2>0, <2>4 DEF HangUp, OpInv, kind, NoOp
    <3> QED
      BY <3>1, <3>2
  <2> QED
    BY <2>1, <2>2, <2>3, <2>4 DEF Serve
<1> QED
  BY <1>2, <1>4, <1>5 DEF Inv, TypeOK

\* The process ends, and starts again if it can.
LEMMA RestartStep ==
  ASSUME Inv, Crash \/ Start
  PROVE  Inv'
<1>1. CASE Crash
  <2>1. UNCHANGED <<settings, files>> /\ (up' => up)
    BY <1>1 DEF Crash
  <2>2. crashes' \in 0 .. MaxCrashes
    <3>1. crashes \in 0 .. MaxCrashes /\ MaxCrashes \in Nat /\ crashes < MaxCrashes
          /\ crashes' = crashes + 1
      BY <1>1, AdministrationAssumption DEF Crash, Inv, TypeOK
    <3> QED
      BY <3>1
  <2>3. FilesType' /\ faults' \in 0 .. MaxFaults
    BY <1>1, TypesKept DEF Crash
  <2>4. TypeOK'
    <3>1. SettingsType'
      BY <1>1 DEF Crash, Inv, TypeOK, SettingsType, settings
    <3>2. ControlType'
      BY <1>1 DEF Crash, Inv, TypeOK, ControlType, NoOp, OpSteps
    <3>3. ProxyType'
      BY <1>1 DEF Crash, ProxyType, NoSession, NoRequest
    <3> QED
      BY <2>2, <2>3, <3>1, <3>2, <3>3 DEF TypeOK
  <2>5. OpInv'
    BY <1>1 DEF Crash, OpInv, NoOp
  <2>6. RequestInv'
    BY <1>1 DEF Crash, RequestInv, NoRequest
  <2> QED
    BY <2>1, <2>4, <2>5, <2>6, FilesKept DEF Inv
<1>2. CASE Start
  <2> USE DEF files, control, proxying
  <2>1. DiskInv' /\ AckedSurvives'
    BY <1>2 DEF Start, Inv, DiskInv, AckedSurvives, OnDisk
  <2>2. UNCHANGED proxying /\ Loaded(disk)' = Loaded(disk)
    BY <1>2 DEF Start, Loaded
  <2>3. ForceInv'
    BY <1>2, <2>2 DEF Start, ForceInv
  <2>4. Loaded(disk).insp \in Configurations
    BY FilesLoad DEF Inv
  <2>5. TypeOK'
    <3>1. /\ FilesType' /\ ProxyType'
          /\ faults' \in 0 .. MaxFaults /\ crashes' \in 0 .. MaxCrashes
      BY <1>2, TypesKept DEF Start
    <3>2. SettingsType'
      BY <1>2, <2>4 DEF Start, CanStart, Inv, TypeOK, SettingsType
    <3>3. ControlType'
      BY <1>2 DEF Start, Inv, TypeOK, ControlType
    <3> QED
      BY <3>1, <3>2, <3>3 DEF TypeOK
  <2>6. op = NoOp /\ serving = None
    BY <1>2 DEF Start, Inv, TypeOK, ControlType, OpInv
  <2>7. OpInv'
    BY <1>2, <2>6 DEF Start, OpInv, NoOp
  <2> QED
    BY <2>1, <2>2, <2>3, <2>5, <2>7, RequestKept DEF Inv
<1> QED
  BY <1>1, <1>2

\* Sessions begin and end, and a request goes its way.
LEMMA ProxyStep ==
  ASSUME Inv,
         \/ CreateSession \/ RevokeToken \/ EndSession
         \/ ProxyAuth \/ InspectRequest \/ ForwardRequest \/ RoundTrip \/ CloseTunnel
  PROVE  Inv'
<1>1. UNCHANGED <<settings, up, files, control, faults, crashes>>
  BY DEF CreateSession, RevokeToken, EndSession, ProxyAuth, InspectRequest, ForwardRequest,
         RoundTrip, CloseTunnel, Rest
<1>2. SUFFICES ProxyType' /\ RequestInv'
  <2>1. /\ UNCHANGED <<settings, up, files, control>> /\ UNCHANGED <<settings, up>>
        /\ UNCHANGED files /\ UNCHANGED <<control, up>> /\ UNCHANGED faults /\ UNCHANGED crashes
    BY <1>1
  <2> QED
    BY <1>2, <2>1, SettingsKept, TypesKept DEF Inv, TypeOK
<1>0. ProxyType /\ RequestInv /\ use \in Scenarios
  BY DEF Inv, TypeOK, SettingsType
<1>3. CASE CreateSession
  <2>1. PICK secrets \in SecretLists \cup {<<>>} :
          session' = [state |-> "active", secrets |-> secrets]
    BY <1>3 DEF CreateSession
  <2>2. session.state = "none" /\ UNCHANGED <<tunnel, req>>
    BY <1>3 DEF CreateSession
  <2>3. ProxyType'
    BY <1>0, <2>1, <2>2 DEF ProxyType
  <2>4. RequestInv'
    BY <1>0, <2>1, <2>2 DEF RequestInv
  <2> QED
    BY <2>3, <2>4
<1>4. CASE RevokeToken \/ EndSession
  <2>1. /\ session.state \in {"active", "revoked"} /\ UNCHANGED <<tunnel, req>>
        /\ session' = [session EXCEPT !.state = "revoked"]
           \/ session' = [session EXCEPT !.state = "ended"]
    BY <1>4 DEF RevokeToken, EndSession
  <2>2. ProxyType'
    BY <1>0, <2>1 DEF ProxyType
  <2>3. /\ session'.state \in {"revoked", "ended"} /\ session'.secrets = session.secrets
    BY <1>0, <2>1 DEF ProxyType
  <2>4. RequestInv'
    BY <1>0, <2>1, <2>3 DEF RequestInv
  <2> QED
    BY <2>2, <2>4
<1>5. CASE ProxyAuth
  <2>1. PICK r \in use.requests, good \in BOOLEAN, connect \in Tunnels :
          /\ tunnel' = (tunnel \/ (good /\ connect))
          /\ req' = [step |-> IF good THEN "authenticated" ELSE "done", orig |-> r, sent |-> None,
                     code |-> IF good THEN "" ELSE "407"]
    <3>1. PICK r \in use.requests, connect \in Tunnels :
            LET good == \/ tunnel
                        \/ /\ op = NoOp /\ basicAuth(r.auth)
                           /\ session.state = "active" /\ r.auth.token
            IN  /\ tunnel' = (tunnel \/ (good /\ connect))
                /\ req' = [step |-> IF good THEN "authenticated" ELSE "done", orig |-> r,
                           sent |-> None, code |-> IF good THEN "" ELSE "407"]
      BY <1>5 DEF ProxyAuth
    <3> DEFINE good == \/ tunnel
                       \/ /\ op = NoOp /\ basicAuth(r.auth)
                          /\ session.state = "active" /\ r.auth.token
    <3>2. good \in BOOLEAN
      OBVIOUS
    <3>3. /\ tunnel' = (tunnel \/ (good /\ connect))
          /\ req' = [step |-> IF good THEN "authenticated" ELSE "done", orig |-> r,
                     sent |-> None, code |-> IF good THEN "" ELSE "407"]
      BY <3>1
    <3> HIDE DEF good
    <3> QED
      BY <3>2, <3>3
  <2>2. r \in Requests /\ connect \in BOOLEAN
    BY <1>0, AdministrationAssumption
  <2>3. session' = session
    BY <1>5 DEF ProxyAuth, Rest
  <2>4. /\ DOMAIN req' = DOMAIN NoRequest /\ req'.orig = r
        /\ req'.step \in {"authenticated", "done"} /\ req'.code \in {"", "407"}
    BY <2>1 DEF NoRequest
  <2>5. tunnel' \in BOOLEAN
    BY <2>1
  <2>6. ProxyType'
    BY <1>0, <2>2, <2>3, <2>4, <2>5 DEF ProxyType
  <2>7. RequestInv'
    BY <1>0, <2>2, <2>4 DEF RequestInv
  <2> QED
    BY <2>6, <2>7
<1>6. CASE InspectRequest
  <2>1. /\ session' = session /\ tunnel' = tunnel /\ req.step = "authenticated"
        /\ DOMAIN req' = DOMAIN req /\ req'.orig = req.orig
        /\ \/ req'.step = "inspected" /\ req'.code = "" /\ session.state \in {"active", "revoked"}
           \/ req'.step = "done" /\ req'.code = "403"
    BY <1>0, <1>6 DEF InspectRequest, Rest, ProxyType, NoRequest
  <2>2. ProxyType'
    BY <1>0, <2>1 DEF ProxyType
  <2>3. RequestInv'
    BY <1>0, <2>1 DEF RequestInv
  <2> QED
    BY <2>2, <2>3
<1>7. CASE ForwardRequest
  <2> DEFINE s == InjectSecrets(GetSessionSecrets, Original(req.orig))
  <2>1. /\ session' = session /\ tunnel' = tunnel /\ req.step = "inspected"
        /\ req' = IF "code" \in DOMAIN s THEN [req EXCEPT !.step = "done", !.code = s.code]
                  ELSE [req EXCEPT !.step = "sent", !.sent = s]
    BY <1>7 DEF ForwardRequest, Rest, Original
  <2>2. "code" \in DOMAIN s => s.code \in {"413", "500"}
    BY DEF InjectSecrets, injectSecret, injectKeystoneV3Secret, Refuse, Original
  <2>3. session.state \in {"active", "revoked"} =>
          s = InjectSecrets(session.secrets, Original(req.orig))
    BY DEF GetSessionSecrets
  <2> HIDE DEF s
  <2>4. /\ DOMAIN req' = DOMAIN req /\ req'.orig = req.orig
        /\ \/ req'.step = "done" /\ req'.code \in {"413", "500"}
           \/ /\ req'.step = "sent" /\ req'.code = req.code
              /\ req'.sent = s /\ "code" \notin DOMAIN s
    BY <1>0, <2>1, <2>2 DEF ProxyType, NoRequest
  <2>5. ProxyType'
    BY <1>0, <2>1, <2>4 DEF ProxyType
  <2>6. RequestInv'
    BY <1>0, <2>1, <2>3, <2>4 DEF RequestInv
  <2> QED
    BY <2>5, <2>6
<1>8. CASE RoundTrip
  <2>1. /\ session' = session /\ tunnel' = tunnel
        /\ DOMAIN req' = DOMAIN req /\ req'.orig = req.orig
        /\ req'.step = "done" /\ req'.code \in {"200", "403", "500"}
    BY <1>0, <1>8 DEF RoundTrip, Rest, ProxyType, NoRequest
  <2>2. ProxyType'
    BY <1>0, <2>1 DEF ProxyType
  <2>3. RequestInv'
    BY <1>0, <2>1 DEF RequestInv
  <2> QED
    BY <2>2, <2>3
<1>9. CASE CloseTunnel
  <2>1. ProxyType'
    BY <1>0, <1>9 DEF CloseTunnel, Rest, ProxyType, NoRequest
  <2>2. RequestInv'
    BY <1>0, <1>9 DEF CloseTunnel, RequestInv, NoRequest
  <2> QED
    BY <2>1, <2>2
<1> QED
  BY <1>3, <1>4, <1>5, <1>6, <1>7, <1>8, <1>9

-----------------------------------------------------------------------------
(* Updates                                                                 *)

\* An operation that runs has a document, a client and a process.
LEMMA Running ==
  ASSUME Inv, op.step # "none"
  PROVE  up /\ serving \in Clients /\ op.doc \in Documents /\ op # NoOp
BY DEF Inv, TypeOK, ControlType, OpInv

\* The answer ends the operation and the connection.
LEMMA ReplyStep ==
  ASSUME Inv, op.step # "none", Reply, UNCHANGED up
  PROVE  ControlType' /\ OpInv'
<1>1. serving \in Clients /\ ControlType
  BY Running DEF Inv, TypeOK
<1>2. ControlType'
  BY <1>1 DEF Reply, ControlType, NoOp, OpSteps
<1>3. OpInv'
  BY DEF Reply, OpInv, NoOp
<1> QED
  BY <1>2, <1>3

\* Otherwise the operation goes on with the same document.
LEMMA GoToStep ==
  ASSUME Inv, op.step # "none", UNCHANGED up, NEW s \in OpSteps \ {"none"}, GoTo(s)
  PROVE  /\ ControlType' /\ op' # NoOp /\ op'.doc = op.doc /\ kind' = kind /\ op'.step = s
         /\ UNCHANGED <<client, serving>>
<1>1. op \in [doc : Documents \cup {Blank}, dry : BOOLEAN, step : OpSteps]
  BY DEF Inv, TypeOK, ControlType
<1>2. /\ op' \in [doc : Documents \cup {Blank}, dry : BOOLEAN, step : OpSteps]
      /\ op'.doc = op.doc /\ op'.step = s
  BY <1>1 DEF GoTo
<1>3. op' # NoOp
  BY <1>2 DEF NoOp
<1>4. up /\ serving \in Clients /\ serving # None
  BY Running, AdministrationAssumption
<1>5. UNCHANGED <<client, serving>>
  BY DEF GoTo
<1>6. ControlType'
  BY <1>2, <1>4, <1>5 DEF Inv, TypeOK, ControlType
<1> QED
  BY <1>2, <1>3, <1>5, <1>6 DEF kind

\* A failed call is within the bound.
LEMMA FaultStep ==
  ASSUME Inv, Fault
  PROVE  faults' \in 0 .. MaxFaults
<1>1. faults \in 0 .. MaxFaults /\ MaxFaults \in Nat
  BY AdministrationAssumption DEF Inv, TypeOK
<1> QED
  BY <1>1 DEF Fault

\* An update that fails leaves the files and what was reported of them.
LEMMA FailureStep ==
  ASSUME Inv, op.step # "none", Fault, Failure,
         UNCHANGED <<settings, up, disk, torn, proxying, crashes>>
  PROVE  Inv'
<1>1. ControlType' /\ OpInv'
  BY ReplyStep DEF Failure
<1>2. UNCHANGED <<settings, files>> /\ (up' => up)
  BY DEF Failure, files
<1>3. DiskInv' /\ AckedSurvives' /\ ForceInv'
  BY <1>2, FilesKept
<1>4. SettingsType' /\ FilesType' /\ ProxyType' /\ crashes' \in 0 .. MaxCrashes
  BY <1>2, TypesKept
<1> QED
  BY <1>1, <1>3, <1>4, FaultStep, RequestKept DEF Inv, TypeOK

\* An update that succeeds is what was last reported for its kind of document.
LEMMA SuccessFacts ==
  ASSUME Inv, op.step \notin {"none", "handle"}, NEW ignored \in BOOLEAN, Success(ignored)
  PROVE  /\ kind \in Kinds
         /\ acked' \in [Kinds -> Documents \cup {Blank}]
         /\ attempted' \in [Kinds -> SUBSET Documents]
         /\ dropped' \in [Kinds -> BOOLEAN]
         /\ acked'[kind] = op.doc /\ attempted'[kind] = {} /\ dropped'[kind] = ignored
         /\ \A k \in Kinds \ {kind} :
              acked'[k] = acked[k] /\ attempted'[k] = attempted[k] /\ dropped'[k] = dropped[k]
<1>1. kind \in Kinds
  BY DEF Inv, OpInv
<1>2. op.doc \in Documents
  BY Running
<1>3. FilesType
  BY DEF Inv, TypeOK
<1> QED
  BY <1>1, <1>2, <1>3 DEF FilesType, Success

\* RefuseOrValidate
LEMMA RefuseOrValidateStep == Inv /\ RefuseOrValidate => Inv'
<1> SUFFICES ASSUME Inv, RefuseOrValidate PROVE Inv'
  OBVIOUS
<1>1. /\ op.step # "none" /\ Reply
      /\ UNCHANGED <<settings, up>> /\ UNCHANGED <<settings, files>> /\ UNCHANGED proxying
      /\ UNCHANGED faults /\ UNCHANGED crashes /\ UNCHANGED files /\ UNCHANGED up
  BY DEF RefuseOrValidate
<1> QED
  BY <1>1, ReplyStep, FilesKept, RequestKept, TypesKept DEF Inv, TypeOK

\* SetConfig: the document is in force, and the update is open.
LEMMA SetConfigStep == Inv /\ SetConfig => Inv'
<1> SUFFICES ASSUME Inv, SetConfig PROVE Inv'
  OBVIOUS
<1>1. /\ op.step = "handle" /\ Accepted(op.doc) /\ kind \in Kinds /\ GoTo("write")
      /\ acl' = IF kind = "acl" THEN op.doc ELSE acl
      /\ insp' = IF kind = "inspectors" THEN decodeInspectorsConfig(op.doc) ELSE insp
      /\ ca' = IF kind = "cert" THEN op.doc.cert ELSE ca
      /\ attempted' = [attempted EXCEPT ![kind] = @ \cup {op.doc}]
      /\ UNCHANGED <<fromSnap, use, up, disk, acked, dropped, torn, proxying, faults, crashes>>
  BY DEF SetConfig, Valid
<1>2. op.doc \in Documents /\ op.doc # Blank
  BY <1>1, Running, AdministrationAssumption
<1>3. /\ ControlType' /\ op' # NoOp /\ op'.doc = op.doc /\ kind' = kind /\ op'.step = "write"
      /\ UNCHANGED <<client, serving>>
  BY <1>1, GoToStep DEF OpSteps
<1>4. /\ attempted' \in [Kinds -> SUBSET Documents]
      /\ attempted'[kind] = attempted[kind] \cup {op.doc}
      /\ \A k \in Kinds \ {kind} : attempted'[k] = attempted[k]
  BY <1>1, <1>2 DEF Inv, TypeOK, FilesType
<1>5. SettingsType'
  <2>1. kind = "cert" => op.doc.cert # Blank
    BY <1>1 DEF Accepted, CreateProxyCA, kind
  <2>2. kind = "inspectors" => decodeInspectorsConfig(op.doc) \in Configurations
    <3>1. kind = "inspectors" => op.doc \in InspectorsDocuments
      BY <1>2 DEF kind, InspectorsDocuments
    <3> QED
      BY <3>1, InspectorsDecoded
  <2> QED
    BY <1>1, <1>2, <2>1, <2>2 DEF Inv, TypeOK, SettingsType
<1>6. FilesType'
  BY <1>1, <1>4 DEF Inv, TypeOK, FilesType
<1>7. /\ ProxyType' /\ RequestInv'
      /\ faults' \in 0 .. MaxFaults /\ crashes' \in 0 .. MaxCrashes
  BY <1>1, TypesKept, RequestKept
<1>8. OpInv'
  <2>1. serving' # None => up'
    BY <1>1, <1>3 DEF Inv, OpInv
  <2> QED
    BY <1>1, <1>2, <1>3, <1>4, <2>1 DEF OpInv
<1>9. DiskInv'
  BY <1>1 DEF Inv, DiskInv
<1>10. AckedSurvives'
  <2> SUFFICES ASSUME NEW k \in Kinds, ~dropped'[k]
               PROVE  \E doc \in {acked'[k]} \cup attempted'[k] : OnDisk(k, doc)'
    BY DEF AckedSurvives, OnDisk
  <2>1. \E doc \in {acked[k]} \cup attempted[k] : OnDisk(k, doc)
    BY <1>1 DEF Inv, AckedSurvives, OnDisk
  <2>2. attempted[k] \subseteq attempted'[k]
    BY <1>4
  <2> QED
    BY <1>1, <2>1, <2>2 DEF OnDisk
<1>11. ForceInv'
  <2>1. attempted'[kind] # {}
    BY <1>4
  <2>2. Loaded(disk)' = Loaded(disk)
    BY <1>1 DEF Loaded
  <2>3. ForceInv /\ "acl" \in Kinds /\ "cert" \in Kinds
    BY DEF Inv, Kinds
  <2> QED
    BY <1>1, <1>4, <2>1, <2>2, <2>3 DEF ForceInv
<1> QED
  BY <1>3, <1>5, <1>6, <1>7, <1>8, <1>9, <1>10, <1>11 DEF Inv, TypeOK

\* A temporary file is written, and the operation goes on.
LEMMA WrittenStep ==
  ASSUME Inv, op.step \notin {"none", "handle"},
         NEW s \in OpSteps \ {"none", "handle", "rename key"}, GoTo(s),
         s = "rename" => kind # "cert",
         s \in {"write key", "rename cert"} => kind = "cert",
         UNCHANGED <<settings, up, files, proxying, faults, crashes>>
  PROVE  Inv'
<1>1. /\ ControlType' /\ op' # NoOp /\ op'.doc = op.doc /\ kind' = kind /\ op'.step = s
      /\ UNCHANGED <<client, serving>>
  BY GoToStep
<1>2. OpInv'
  <2>1. OpInv /\ op.doc \in Documents
    BY Running DEF Inv
  <2>2. /\ Accepted(op.doc) /\ kind \in Kinds /\ op.doc \in attempted[kind]
        /\ kind = "acl" => acl = op.doc
        /\ kind = "cert" => ca = op.doc.cert
        /\ serving # None => up
    BY <2>1 DEF OpInv
  <2>3. UNCHANGED <<up, acl, ca, attempted>>
    BY DEF settings, files
  <2>4. /\ Accepted(op'.doc) /\ kind' \in Kinds /\ op'.doc \in attempted'[kind']
        /\ kind' = "acl" => acl' = op'.doc
        /\ kind' = "cert" => ca' = op'.doc.cert
        /\ serving' # None => up'
    <3>1. Accepted(op'.doc)
      BY <1>1, <2>2
    <3>2. kind' \in Kinds /\ op'.doc \in attempted'[kind']
      BY <1>1, <2>2, <2>3
    <3>3. (kind' = "acl" => acl' = op'.doc) /\ (kind' = "cert" => ca' = op'.doc.cert)
      BY <1>1, <2>2, <2>3
    <3>4. serving' # None => up'
      BY <1>1 DEF ControlType
    <3> QED
      BY <3>1, <3>2, <3>3, <3>4
  <2>5. /\ op'.step # "none" /\ op'.step # "rename key" /\ op'.doc \in Documents
        /\ op'.step = "rename" => kind' # "cert"
        /\ op'.step \in {"write key", "rename cert", "rename key"} => kind' = "cert"
    BY <1>1, <2>1
  <2> QED
    BY <1>1, <2>4, <2>5 DEF OpInv
<1>3. DiskInv' /\ AckedSurvives' /\ ForceInv' /\ RequestInv'
  <2>1. UNCHANGED <<settings, files>> /\ (up' => up) /\ UNCHANGED proxying
    OBVIOUS
  <2> QED
    BY <2>1, FilesKept, RequestKept
<1>4. /\ SettingsType' /\ FilesType' /\ ProxyType'
      /\ faults' \in 0 .. MaxFaults /\ crashes' \in 0 .. MaxCrashes
  BY TypesKept
<1> QED
  BY <1>1, <1>2, <1>3, <1>4 DEF Inv, TypeOK

\* WriteConfigFile: an error of the write is dropped, and the update reported.
LEMMA WriteConfigFileStep == Inv /\ WriteConfigFile => Inv'
<1> SUFFICES ASSUME Inv, WriteConfigFile PROVE Inv'
  OBVIOUS
<1>0. /\ op.step = "write" /\ kind # "cert"
      /\ UNCHANGED <<settings, up, disk, torn, proxying, crashes>>
  BY DEF WriteConfigFile
<1>1. CASE GoTo("rename") /\ UNCHANGED <<acked, attempted, dropped, faults>>
  <2>1. UNCHANGED <<settings, up, files, proxying, faults, crashes>>
    BY <1>0, <1>1 DEF files
  <2> QED
    BY <1>0, <1>1, <2>1, WrittenStep DEF OpSteps
<1>2. CASE Fault /\ Failure
  BY <1>0, <1>2, FailureStep
<1>3. CASE Fault /\ Success(TRUE)
  <2>1. /\ kind \in Kinds
        /\ acked' \in [Kinds -> Documents \cup {Blank}]
        /\ attempted' \in [Kinds -> SUBSET Documents]
        /\ dropped' \in [Kinds -> BOOLEAN]
        /\ dropped'[kind] = TRUE
        /\ \A k \in Kinds \ {kind} :
             acked'[k] = acked[k] /\ attempted'[k] = attempted[k] /\ dropped'[k] = dropped[k]
    BY <1>0, <1>3, SuccessFacts
  <2>2. ControlType' /\ OpInv'
    BY <1>0, <1>3, ReplyStep DEF Success
  <2>3. /\ SettingsType' /\ ProxyType' /\ RequestInv' /\ crashes' \in 0 .. MaxCrashes
    BY <1>0, TypesKept, RequestKept
  <2>4. FilesType'
    BY <1>0, <2>1 DEF Inv, TypeOK, FilesType
  <2>5. DiskInv'
    BY <1>0 DEF Inv, DiskInv, settings
  <2>6. AckedSurvives'
    BY <1>0, <2>1 DEF Inv, AckedSurvives, OnDisk
  <2>7. ForceInv'
    <3>1. Loaded(disk)' = Loaded(disk) /\ UNCHANGED <<acl, ca, up>>
      BY <1>0 DEF Loaded, settings
    <3>2. ForceInv /\ "acl" \in Kinds /\ "cert" \in Kinds
      BY DEF Inv, Kinds
    <3> QED
      BY <2>1, <3>1, <3>2 DEF ForceInv
  <2> QED
    BY <1>3, <2>2, <2>3, <2>4, <2>5, <2>6, <2>7, FaultStep DEF Inv, TypeOK
<1> QED
  BY <1>1, <1>2, <1>3 DEF WriteConfigFile

\* RenameConfigFile: the file is the document from here on.
LEMMA RenameConfigFileStep == Inv /\ RenameConfigFile => Inv'
<1> SUFFICES ASSUME Inv, RenameConfigFile PROVE Inv'
  OBVIOUS
<1>0. op.step = "rename" /\ UNCHANGED <<settings, up, torn, proxying, crashes>>
  BY DEF RenameConfigFile
<1>1. CASE Fault /\ Failure /\ UNCHANGED disk
  BY <1>0, <1>1, FailureStep
<1>2. CASE disk' = [disk EXCEPT ![kind] = op.doc] /\ Success(FALSE) /\ UNCHANGED faults
  <2>1. /\ kind \in Kinds
        /\ acked' \in [Kinds -> Documents \cup {Blank}]
        /\ attempted' \in [Kinds -> SUBSET Documents]
        /\ dropped' \in [Kinds -> BOOLEAN]
        /\ acked'[kind] = op.doc /\ attempted'[kind] = {} /\ dropped'[kind] = FALSE
        /\ \A k \in Kinds \ {kind} :
             acked'[k] = acked[k] /\ attempted'[k] = attempted[k] /\ dropped'[k] = dropped[k]
    BY <1>0, <1>2, SuccessFacts
  <2>2. ControlType' /\ OpInv'
    BY <1>0, <1>2, ReplyStep DEF Success
  <2>3. /\ SettingsType' /\ ProxyType' /\ RequestInv'
        /\ faults' \in 0 .. MaxFaults /\ crashes' \in 0 .. MaxCrashes
    BY <1>0, <1>2, TypesKept, RequestKept
  <2>4. /\ kind \in {"acl", "inspectors"} /\ op.doc.valid /\ op.doc \in Documents /\ op.doc # Blank
        /\ kind = "acl" => acl = op.doc
    <3>1. OpInv /\ op.doc \in Documents /\ op.doc # Blank
      BY <1>0, Running, AdministrationAssumption DEF Inv
    <3>2. kind \in {"acl", "inspectors"} /\ Accepted(op.doc) /\ (kind = "acl" => acl = op.doc)
      BY <1>0, <3>1 DEF OpInv, Kinds
    <3> QED
      BY <3>1, <3>2 DEF Accepted, kind
  <2>5. /\ DOMAIN disk' = {"acl", "inspectors", "cert", "key"}
        /\ disk'[kind] = op.doc /\ disk'.cert = disk.cert /\ disk'.key = disk.key
        /\ \A k \in {"acl", "inspectors"} \ {kind} : disk'[k] = disk[k]
    BY <1>2, <2>4 DEF Inv, TypeOK, FilesType
  <2>6. FilesType'
    BY <1>0, <2>1, <2>5 DEF Inv, TypeOK, FilesType
  <2>7. DiskInv'
    <3>1. DiskInv /\ UNCHANGED <<torn, fromSnap>>
      BY <1>0 DEF Inv, settings
    <3>2. CASE kind = "acl"
      BY <2>4, <2>5, <3>1, <3>2 DEF DiskInv
    <3>3. CASE kind = "inspectors"
      <4>1. op.doc \in InspectorsDocuments
        BY <2>4, <3>3 DEF kind, InspectorsDocuments
      <4> QED
        BY <2>4, <2>5, <3>1, <3>3, <4>1 DEF DiskInv
    <3> QED
      BY <2>4, <3>2, <3>3
  <2>8. AckedSurvives'
    <3> SUFFICES ASSUME NEW k \in Kinds, ~dropped'[k]
                 PROVE  \E doc \in {acked'[k]} \cup attempted'[k] : OnDisk(k, doc)'
      BY DEF AckedSurvives, OnDisk
    <3>1. CASE k = kind
      BY <2>1, <2>4, <2>5, <3>1 DEF OnDisk
    <3>2. CASE k # kind
      <4>1. \E doc \in {acked[k]} \cup attempted[k] : OnDisk(k, doc)
        BY <2>1, <3>2 DEF Inv, AckedSurvives, OnDisk
      <4> QED
        BY <1>0, <2>1, <2>5, <3>2, <4>1 DEF Kinds, OnDisk
    <3> QED
      BY <3>1, <3>2
  <2>9. ForceInv'
    <3>1. UNCHANGED <<acl, ca, up, fromSnap>>
      BY <1>0 DEF settings
    <3>2. Loaded(disk)'.ca = Loaded(disk).ca
      BY <2>5 DEF Loaded
    <3>3. attempted'["cert"] = attempted["cert"] /\ dropped'["cert"] = dropped["cert"]
      BY <2>1, <2>4 DEF Kinds
    <3>4. CASE kind = "acl"
      <4>1. Loaded(disk)'.acl = op.doc
        BY <2>4, <2>5, <3>4 DEF Loaded, loadHTTPProxyRulesOrDefault
      <4> QED
        BY <2>4, <3>1, <3>2, <3>3, <3>4, <4>1 DEF Inv, ForceInv
    <3>5. CASE kind = "inspectors"
      <4>1. /\ Loaded(disk)'.acl = Loaded(disk).acl
            /\ attempted'["acl"] = attempted["acl"] /\ dropped'["acl"] = dropped["acl"]
        BY <2>1, <2>5, <3>1, <3>5 DEF Loaded, Kinds
      <4> QED
        BY <3>1, <3>2, <3>3, <4>1 DEF Inv, ForceInv
    <3> QED
      BY <2>4, <3>4, <3>5
  <2> QED
    BY <2>2, <2>3, <2>6, <2>7, <2>8, <2>9 DEF Inv, TypeOK
<1> QED
  BY <1>1, <1>2 DEF RenameConfigFile

\* WriteCertFiles
LEMMA WriteCertFilesStep == Inv /\ WriteCertFiles => Inv'
<1> SUFFICES ASSUME Inv, WriteCertFiles PROVE Inv'
  OBVIOUS
<1>0. /\ op.step \in {"write", "write key"} /\ kind = "cert"
      /\ UNCHANGED <<settings, up, disk, torn, proxying, crashes>>
  BY DEF WriteCertFiles
<1>1. CASE GoTo(IF op.step = "write" THEN "write key" ELSE "rename cert")
           /\ UNCHANGED <<acked, attempted, dropped, faults>>
  <2>1. UNCHANGED <<settings, up, files, proxying, faults, crashes>>
    BY <1>0, <1>1 DEF files
  <2>2. PICK s \in {"write key", "rename cert"} : GoTo(s)
    BY <1>1
  <2>3. s \in OpSteps \ {"none", "handle", "rename key"} /\ s # "rename"
    BY DEF OpSteps
  <2> QED
    BY <1>0, <2>1, <2>2, <2>3, WrittenStep
<1>2. CASE Fault /\ Failure
  BY <1>0, <1>2, FailureStep
<1> QED
  BY <1>1, <1>2 DEF WriteCertFiles

\* What an update of the certificate has by the time of its renames
LEMMA CertRunning ==
  ASSUME Inv, op.step \in {"rename cert", "rename key"}
  PROVE  /\ kind = "cert" /\ kind \in Kinds /\ op.doc \in Documents /\ op.doc \in attempted["cert"]
         /\ op.doc.cert = op.doc.key /\ op.doc.cert # Blank /\ ca = op.doc.cert
         /\ op.step = "rename key" => disk.cert = op.doc.cert
<1>1. OpInv /\ op.doc \in Documents
  BY Running DEF Inv
<1>2. /\ kind = "cert" /\ kind \in Kinds /\ Accepted(op.doc) /\ op.doc \in attempted["cert"]
      /\ ca = op.doc.cert /\ (op.step = "rename key" => disk.cert = op.doc.cert)
  BY <1>1 DEF OpInv
<1>3. op.doc.cert = op.doc.key /\ op.doc.cert # Blank
  BY <1>2 DEF Accepted, CreateProxyCA, kind
<1> QED
  BY <1>1, <1>2, <1>3

\* RenameCert: the certificate is without its key until the next rename.
LEMMA RenameCertStep == Inv /\ RenameCert => Inv'
<1> SUFFICES ASSUME Inv, RenameCert PROVE Inv'
  OBVIOUS
<1>0. op.step = "rename cert" /\ UNCHANGED <<settings, up, proxying, crashes>>
  BY DEF RenameCert
<1>1. CASE Fault /\ Failure /\ UNCHANGED <<disk, torn>>
  BY <1>0, <1>1, FailureStep
<1>2. CASE /\ disk' = [disk EXCEPT !.cert = op.doc.cert] /\ torn' = TRUE
           /\ GoTo("rename key") /\ UNCHANGED <<acked, attempted, dropped, faults>>
  <2>1. /\ kind = "cert" /\ kind \in Kinds /\ op.doc \in Documents /\ op.doc \in attempted["cert"]
        /\ op.doc.cert = op.doc.key /\ op.doc.cert # Blank /\ ca = op.doc.cert
    BY <1>0, CertRunning
  <2>2. /\ ControlType' /\ op' # NoOp /\ op'.doc = op.doc /\ kind' = kind
        /\ op'.step = "rename key" /\ UNCHANGED <<client, serving>>
    BY <1>0, <1>2, GoToStep DEF OpSteps
  <2>3. /\ DOMAIN disk' = {"acl", "inspectors", "cert", "key"}
        /\ disk'.cert = op.doc.cert /\ disk'.key = disk.key
        /\ disk'.acl = disk.acl /\ disk'.inspectors = disk.inspectors
    BY <1>2 DEF Inv, TypeOK, FilesType
  <2>4. /\ SettingsType' /\ ProxyType' /\ RequestInv'
        /\ faults' \in 0 .. MaxFaults /\ crashes' \in 0 .. MaxCrashes
    BY <1>0, <1>2, TypesKept, RequestKept
  <2>5. FilesType'
    BY <1>2, <2>3 DEF Inv, TypeOK, FilesType
  <2>6. OpInv'
    <3>1. Accepted(op.doc) /\ (serving # None => up) /\ UNCHANGED <<acl, ca, up>>
      BY <1>0 DEF Inv, OpInv, settings
    <3> QED
      BY <1>2, <2>1, <2>2, <2>3, <3>1 DEF OpInv
  <2>7. DiskInv'
    BY <1>0, <1>2, <2>3 DEF Inv, DiskInv, settings
  <2>8. AckedSurvives'
    BY <1>2, <2>3 DEF Inv, AckedSurvives, OnDisk, Kinds
  <2>9. ForceInv'
    <3>1. UNCHANGED <<acl, up, fromSnap>> /\ attempted'["cert"] # {}
      BY <1>0, <1>2, <2>1 DEF settings
    <3>2. Loaded(disk)'.acl = Loaded(disk).acl
      BY <2>3, <3>1 DEF Loaded
    <3> QED
      BY <1>2, <3>1, <3>2 DEF Inv, ForceInv
  <2> QED
    BY <2>2, <2>4, <2>5, <2>6, <2>7, <2>8, <2>9 DEF Inv, TypeOK
<1> QED
  BY <1>1, <1>2 DEF RenameCert

\* RenameKey: the certificate has its key again.
LEMMA RenameKeyStep == Inv /\ RenameKey => Inv'
<1> SUFFICES ASSUME Inv, RenameKey PROVE Inv'
  OBVIOUS
<1>0. op.step = "rename key" /\ UNCHANGED <<settings, up, proxying, crashes>>
  BY DEF RenameKey
<1>1. CASE Fault /\ Failure /\ UNCHANGED <<disk, torn>>
  BY <1>0, <1>1, FailureStep
<1>2. CASE /\ disk' = [disk EXCEPT !.key = op.doc.key] /\ torn' = FALSE
           /\ Success(FALSE) /\ UNCHANGED faults
  <2>1. /\ kind = "cert" /\ kind \in Kinds /\ op.doc \in Documents
        /\ op.doc.cert = op.doc.key /\ op.doc.cert # Blank /\ ca = op.doc.cert
        /\ disk.cert = op.doc.cert
    BY <1>0, CertRunning
  <2>2. /\ acked' \in [Kinds -> Documents \cup {Blank}]
        /\ attempted' \in [Kinds -> SUBSET Documents]
        /\ dropped' \in [Kinds -> BOOLEAN]
        /\ acked'[kind] = op.doc /\ attempted'[kind] = {} /\ dropped'[kind] = FALSE
        /\ \A k \in Kinds \ {kind} :
             acked'[k] = acked[k] /\ attempted'[k] = attempted[k] /\ dropped'[k] = dropped[k]
    BY <1>0, <1>2, SuccessFacts
  <2>3. ControlType' /\ OpInv'
    BY <1>0, <1>2, ReplyStep DEF Success
  <2>4. /\ DOMAIN disk' = {"acl", "inspectors", "cert", "key"}
        /\ disk'.cert = disk.cert /\ disk'.key = op.doc.key
        /\ disk'.acl = disk.acl /\ disk'.inspectors = disk.inspectors
    BY <1>2 DEF Inv, TypeOK, FilesType
  <2>5. /\ SettingsType' /\ ProxyType' /\ RequestInv'
        /\ faults' \in 0 .. MaxFaults /\ crashes' \in 0 .. MaxCrashes
    BY <1>0, <1>2, TypesKept, RequestKept
  <2>6. FilesType'
    BY <1>2, <2>2, <2>4 DEF FilesType
  <2>7. DiskInv'
    BY <1>0, <2>1, <2>4 DEF Inv, DiskInv, settings
  <2>8. AckedSurvives'
    <3> SUFFICES ASSUME NEW k \in Kinds, ~dropped'[k]
                 PROVE  \E doc \in {acked'[k]} \cup attempted'[k] : OnDisk(k, doc)'
      BY DEF AckedSurvives, OnDisk
    <3>1. CASE k = "cert"
      BY <2>1, <2>2, <2>4, <3>1 DEF OnDisk
    <3>2. CASE k # "cert"
      <4>1. ~dropped[k] /\ acked'[k] = acked[k] /\ attempted'[k] = attempted[k]
        BY <2>1, <2>2, <3>2
      <4>2. \E doc \in {acked[k]} \cup attempted[k] : disk[k] = doc
        BY <3>2, <4>1 DEF Inv, AckedSurvives, OnDisk
      <4>3. disk'[k] = disk[k]
        BY <2>4, <3>2 DEF Kinds
      <4> QED
        BY <3>2, <4>1, <4>2, <4>3 DEF OnDisk
    <3> QED
      BY <3>1, <3>2
  <2>9. ForceInv'
    <3>1. UNCHANGED <<acl, ca, up, fromSnap>>
      BY <1>0 DEF settings
    <3>2. Loaded(disk)'.acl = Loaded(disk).acl /\ Loaded(disk)'.ca = op.doc.cert
      BY <2>1, <2>4, <3>1 DEF Loaded, CreateProxyCA
    <3>3. attempted'["acl"] = attempted["acl"] /\ dropped'["acl"] = dropped["acl"]
      BY <2>1, <2>2 DEF Kinds
    <3> QED
      BY <2>1, <3>1, <3>2, <3>3 DEF Inv, ForceInv
  <2> QED
    BY <2>3, <2>5, <2>6, <2>7, <2>8, <2>9 DEF Inv, TypeOK
<1> QED
  BY <1>1, <1>2 DEF RenameKey

\* Every step keeps the inductive invariant.
LEMMA InvStep == Inv /\ [Next]_vars => Inv'
<1> SUFFICES ASSUME Inv, [Next]_vars PROVE Inv'
  OBVIOUS
<1>1. CASE UNCHANGED vars
  <2>1. /\ UNCHANGED <<settings, up, files, control>> /\ UNCHANGED <<settings, up>>
        /\ UNCHANGED files /\ UNCHANGED <<control, up>> /\ UNCHANGED proxying
        /\ UNCHANGED faults /\ UNCHANGED crashes
    BY <1>1 DEF vars
  <2> QED
    BY <2>1, SettingsKept, RequestKept, TypesKept DEF Inv, TypeOK
<1>2. CASE Update
  BY <1>2, RefuseOrValidateStep, SetConfigStep, WriteConfigFileStep, RenameConfigFileStep,
     WriteCertFilesStep, RenameCertStep, RenameKeyStep DEF Update
<1>3. CASE \E c \in Clients : Connect(c) \/ Serve(c) \/ HangUp(c)
  BY <1>3, SocketStep
<1>4. CASE Crash \/ Start
  BY <1>4, RestartStep
<1>5. CASE \/ CreateSession \/ RevokeToken \/ EndSession
           \/ ProxyAuth \/ InspectRequest \/ ForwardRequest \/ RoundTrip \/ CloseTunnel
  BY <1>5, ProxyStep
<1> QED
  BY <1>1, <1>2, <1>3, <1>4, <1>5 DEF Next

-----------------------------------------------------------------------------
(* Theorems                                                                *)

\* The inductive invariant holds in every state of the service.
THEOREM Invariance == Spec => []Inv
<1>1. Init => Inv
  BY InitInv
<1>2. Inv /\ [Next]_vars => Inv'
  BY InvStep
<1> QED
  BY <1>1, <1>2, PTL DEF Spec

\* The variables of the model range over the values the program gives them.
THEOREM TypeCorrect == Spec => []TypeOK
<1>1. Inv => TypeOK
  BY DEF Inv
<1> QED
  BY <1>1, Invariance, PTL

\* What UpdateConfig and UpdateCert reported a success is what a crash leaves on
\* disk, or a later update that did not end well is, unless an error was dropped.
THEOREM AcknowledgedSurvives == Spec => []AckedSurvives
<1>1. Inv => AckedSurvives
  BY DEF Inv
<1> QED
  BY <1>1, Invariance, PTL

\* New and Start load every file that updates can leave, unless a crash or an
\* error came between the renames of the certificate and of its key.
THEOREM AlwaysStartable == Spec => []Startable
<1>1. Inv => Startable
  <2> SUFFICES ASSUME Inv, ~up, ~torn PROVE CanStart
    BY DEF Startable
  <2>1. /\ Loaded(disk).acl # Blank /\ Loaded(disk).insp \in Configurations
        /\ Loaded(disk).ca # Blank
    BY FilesLoad DEF Inv
  <2> QED
    BY <2>1, AdministrationAssumption DEF CanStart
<1> QED
  BY <1>1, Invariance, PTL

\* A restart changes neither the addresses that can be reached nor the
\* certificate, once every update was reported a success.
THEOREM AccessKept == Spec => []RestartKeepsAccess
<1>1. Inv => RestartKeepsAccess
  BY DEF Inv, ForceInv, RestartKeepsAccess
<1> QED
  BY <1>1, Invariance, PTL

\* A keystone identity is replaced as a whole, and the scope beside it stays.
LEMMA IdentityReplaced ==
  ASSUME NEW r \in Requests, NEW secret,
         newKeystoneV3Identity(r.body, secret) # None
  PROVE  LET body == newKeystoneV3Identity(r.body, secret)
         IN  /\ \A m \in DOMAIN body.creds : body.creds[m] = secret.creds
             /\ body.scope = r.body.scope
<1>1. DOMAIN r.body = {"read", "auth", "methods", "creds", "domain", "scope"}
  BY AdministrationAssumption
<1> DEFINE method == r.body.methods[1]
           body == newKeystoneV3Identity(r.body, secret)
<1>2. body = [r.body EXCEPT !.creds = [m \in {method} |-> secret.creds],
                            !.domain = IF method = "password" THEN @ ELSE ""]
  BY DEF newKeystoneV3Identity
<1>3. body.creds = [m \in {method} |-> secret.creds] /\ body.scope = r.body.scope
  BY <1>1, <1>2
<1> QED
  BY <1>3

\* What the caller gave as credentials does not reach a server for which the
\* session has a secret: InjectSecrets replaces it or the request is refused.
THEOREM CredentialsReplaced == Spec => []CallerReplaced
<1>1. Inv => CallerReplaced
  <2> DEFINE fits == {i \in DOMAIN session.secrets : req.sent.url \in session.secrets[i].urls}
             secret == session.secrets[Min(fits)]
             r == Original(req.orig)
  <2> SUFFICES ASSUME Inv, req.step = "sent", session.state \in {"active", "revoked"}, fits # {}
               PROVE  IF secret.type = "keystone-v3"
                        THEN /\ \A m \in DOMAIN req.sent.body.creds :
                                  req.sent.body.creds[m] = secret.creds
                             /\ req.sent.body.scope = req.orig.body.scope
                        ELSE req.sent.header = secret.creds
    BY DEF CallerReplaced
  <2>1. req.orig \in Requests /\ req.sent = InjectSecrets(session.secrets, r)
        /\ "code" \notin DOMAIN req.sent
    BY DEF Inv, RequestInv
  <2>2. req.sent.url = r.url
    <3>1. PICK x : InjectSecrets(session.secrets, r) = r \/ req.sent = injectSecret(x, r)
      BY <2>1 DEF InjectSecrets
    <3>2. "code" \in DOMAIN Refuse("413") /\ "code" \in DOMAIN Refuse("500")
      BY DEF Refuse
    <3>3. DOMAIN r = {"url", "header", "body"}
      BY DEF Original
    <3>4. \/ req.sent = r
          \/ req.sent = [r EXCEPT !.header = x.creds]
          \/ req.sent = [r EXCEPT !.body = newKeystoneV3Identity(r.body, x)]
      BY <2>1, <3>1, <3>2 DEF injectSecret, injectKeystoneV3Secret
    <3> HIDE DEF r
    <3> QED
      BY <3>3, <3>4
  <2>3. req.sent = injectSecret(secret, r)
    BY <2>1, <2>2 DEF InjectSecrets
  <2> HIDE DEF secret
  <2>4. CASE secret.type # "keystone-v3"
    BY <2>3, <2>4 DEF injectSecret, Original
  <2>5. CASE secret.type = "keystone-v3"
    <3>1. r.body = req.orig.body /\ r.body # None
      BY <2>1, AdministrationAssumption DEF Original
    <3>2. /\ newKeystoneV3Identity(r.body, secret) # None
          /\ req.sent = [r EXCEPT !.body = newKeystoneV3Identity(r.body, secret)]
      BY <2>1, <2>3, <2>5, <3>1 DEF injectSecret, injectKeystoneV3Secret, Refuse
    <3>3. req.sent.body = newKeystoneV3Identity(req.orig.body, secret)
      BY <3>1, <3>2 DEF Original
    <3> QED
      <4>1. req.orig \in Requests /\ newKeystoneV3Identity(req.orig.body, secret) # None
        BY <2>1, <3>1, <3>2
      <4> DEFINE body == newKeystoneV3Identity(req.orig.body, secret)
      <4>2. /\ \A m \in DOMAIN body.creds : body.creds[m] = secret.creds
            /\ body.scope = req.orig.body.scope
        BY <4>1, IdentityReplaced
      <4> HIDE DEF body
      <4>3. req.sent.body = body
        BY <3>3 DEF body
      <4> QED
        BY <2>5, <4>2, <4>3
  <2> QED
    BY <2>4, <2>5
<1> QED
  BY <1>1, Invariance, PTL
=============================================================================
