---------------------------- MODULE Configuration ----------------------------
(***************************************************************************)
(* The documents that configure the service, and what is loaded from them. *)
(*   acl         [type, valid, policy, rules] with rules [dst, access]     *)
(*   inspectors  [type, valid, sections], the sections that are there      *)
(*   cert        [type, valid, cert, key], valid if it splits in two       *)
(* A document is valid if it decodes; Blank stands for a file that is not  *)
(* there.                                                                  *)
(***************************************************************************)
EXTENDS Naturals, Sequences, FiniteSetsExt

CONSTANTS
  Blank,
  Sections,           \* inspectors that can be configured
  BundledAcl,         \* ${SNAP}/conf/acl.yaml
  BundledInspectors   \* ${SNAP}/conf/inspectors.yaml

\* The first rule with the address decides, and then the policy.
Allowed(acl, ip) ==
  LET hits == {i \in DOMAIN acl.rules : ip \in acl.rules[i].dst}
  IN  (IF hits = {} THEN acl.policy ELSE acl.rules[Min(hits)].access) = "allow"

\* The zero value of the access list
NoAcl == [type |-> "acl", valid |-> TRUE, policy |-> "allow", rules |-> <<>>]

\* A section that is not in the document is empty.
decodeInspectorsConfig(doc) ==
  [s \in Sections |-> IF s \in DOMAIN doc.sections THEN doc.sections[s] ELSE "empty"]

\* Sections that are in the document replace those of the configuration.
Combine(cfg, doc) ==
  [s \in Sections |-> IF s \in DOMAIN doc.sections THEN doc.sections[s] ELSE cfg[s]]

\* Blank is also the outcome of a load that fails, which stops the service.
loadHTTPProxyRulesOrDefault(file, fromSnap) ==
  IF file = Blank THEN (IF fromSnap THEN BundledAcl ELSE NoAcl)
  ELSE IF file.valid THEN file ELSE Blank

loadDefaultInspectorsConfigCombine(file, fromSnap) ==
  IF file = Blank
    THEN IF fromSnap THEN decodeInspectorsConfig(BundledInspectors) ELSE Blank
  ELSE IF ~file.valid THEN Blank
  ELSE IF fromSnap THEN Combine(decodeInspectorsConfig(BundledInspectors), file)
  ELSE decodeInspectorsConfig(file)

\* A certificate and a key that belong together
CreateProxyCA(cert, key) == IF cert # Blank /\ cert = key THEN cert ELSE Blank

\* UpdateConfig and UpdateCert look at the document before anything else.  A
\* type that is neither acl nor inspectors is not looked at.
Accepted(doc) ==
  CASE doc.type = "cert" -> doc.valid /\ CreateProxyCA(doc.cert, doc.key) # Blank
    [] doc.type \in {"acl", "inspectors"} -> doc.valid
    [] OTHER -> TRUE
=============================================================================
