--------------------------------- MODULE Snap ---------------------------------
(***************************************************************************)
(* The snap inspectors.  snap and snap.assertion download assertions from  *)
(* the snap store and follow the keys that signed them to the root key of  *)
(* Canonical; the keys they verified are kept in a cache that all          *)
(* inspections of the process share.  Each inspection runs in a goroutine  *)
(* of its own, and its steps are the places where it takes the lock of the *)
(* cache or waits for the store.  Every inspection here is of a session of *)
(* its own: no session sees the same file twice.                           *)
(***************************************************************************)
EXTENDS SnapFiles, FiniteSets

CONSTANTS
  Downloads,
  Policies,   \* policies a session may have: permissive or not
  Urls,       \* what clients may ask for
  Asks,       \* the URLs that a download may be of
  Files,      \* the files there are
  Content,    \* what each of them contains
  Serves,     \* the files that a server may send for a URL
  Stores,     \* what the snap store may hold: a file for each question
  Outages,    \* whether a question to the store may fail
  MaxDepth    \* bound on the keys that a verification follows

\* There are finitely many files; servers and the store hold some of them; and
\* the actions of a request are a list.
ASSUME SnapAssumption ==
  /\ IsFiniteSet(Files) /\ None \notin Files
  /\ Asks \in [Downloads -> SUBSET Urls]
  /\ Serves \in [Urls -> SUBSET Files]
  /\ \A s \in Stores : \A q \in DOMAIN s : s[q] \in Files \cup {None}
  /\ \A u \in Urls : Len(u.actions) \in Nat /\ DOMAIN u.actions = 1 .. Len(u.actions)

VARIABLES
  store,            \* the snap store, which does not change its answers
  accountKeyCache,
  dl

vars == <<store, accountKeyCache, dl>>

\* What is behind a file
Document == [f \in Files |-> Content[f]]

Assertions == {f \in Files : newAssertion(Document[f])}

Keys == {Document[f].signKey : f \in Assertions} \ {""}

PublicKeys == {Document[f].key : f \in Assertions} \ {None}

Inspectors == {"snap", "snap.assertion"} \cup Listings

Steps ==
  {"idle", "upstream", "inspect", "lookup", "fetch", "cache", "verified", "finish", "done"}

Stages == {"revision", "declaration", "account", "assertion", "none"}

Download ==
  [step : Steps,
   permissive : Policies,
   url : Urls \cup {None},
   file : Files \cup {None},
   stage : Stages,                   \* what is being verified
   frames : Seq(Assertions),         \* calls of VerifySignature, the innermost last
   inner : Assertions \cup {None},   \* the assertion of the call that returned
   used : [{"revision", "declaration", "account"} -> Assertions \cup {None}],
   outage : BOOLEAN,                 \* a question to the store failed
   approved : SUBSET Inspectors,
   rejected : BOOLEAN,
   result : {"none", "refused", "Approved", "Rejected"}]

\* The variables of the model range over the values the program gives them; the
\* root key is never looked up in the store and so never cached.
TypeOK ==
  /\ store \in Stores
  /\ accountKeyCache \in [Keys -> PublicKeys \cup {None}]
  /\ RootKey \in Keys => accountKeyCache[RootKey] = None
  /\ dl \in [Downloads -> Download]

Init ==
  /\ store \in Stores
  /\ accountKeyCache = [k \in Keys |-> None]
  /\ \E p \in Policies :
       dl = [d \in Downloads |->
              [step |-> "idle", permissive |-> p, url |-> None, file |-> None, stage |-> "none",
               frames |-> <<>>, inner |-> None, outage |-> FALSE, approved |-> {},
               used |-> [s \in {"revision", "declaration", "account"} |-> None],
               rejected |-> FALSE, result |-> "none"]]

Shared == <<store, accountKeyCache>>

InspectRequest(d) ==
  /\ dl[d].step = "idle"
  /\ \E u \in Asks[d] :
       LET goesOn == PendingFor(u) # {} \/ dl[d].permissive
       IN  dl' = [dl EXCEPT ![d] = [@ EXCEPT !.url = u,
                                             !.step = IF goesOn THEN "upstream" ELSE "done",
                                             !.result = IF goesOn THEN "none" ELSE "refused"]]
  /\ UNCHANGED Shared

\* A file arrives and its inspection starts.
Respond(d) ==
  /\ dl[d].step = "upstream"
  /\ \E f \in Serves[dl[d].url] : dl' = [dl EXCEPT ![d].file = f, ![d].step = "inspect"]
  /\ UNCHANGED Shared

\* RunArtifactInspectors: all inspectors, or those that claimed the request
Runs(d, i) == dl[d].permissive \/ i \in PendingFor(dl[d].url)

Body(d) == Document[dl[d].file]

\* An inspector rejects; or it fails, which rejects and ends the inspection.
\* Neither leaves anything to do for the other snap inspectors.
Rejected(d) == [dl[d] EXCEPT !.rejected = TRUE, !.step = "finish"]

Approved(d, i) == [dl[d] EXCEPT !.approved = @ \cup {i}, !.step = "finish"]

Verify(x, stage, a) == [x EXCEPT !.stage = stage, !.frames = <<a>>, !.step = "lookup"]

\* downloadAssertion: what the store holds, if it is there, parses and can be
\* reached before the timeout of the client
AnswerOf(s, q) ==
  IF q \in DOMAIN s /\ s[q] # None /\ newAssertion(Document[s[q]]) THEN s[q] ELSE None

Answer(q) == AnswerOf(store, q)

downloadAssertion(q) == {Answer(q)} \cup IF TRUE \in Outages THEN {None} ELSE {}

Asked(x, q, a) == [x EXCEPT !.outage = @ \/ (a = None /\ Answer(q) # None)]

-----------------------------------------------------------------------------
(* InspectArtifact                                                         *)

\* snap first asks for the snap-revision assertion of the digest; a file that
\* has none is probably not a snap.
InspectSnap(d) ==
  /\ dl[d].step = "inspect" /\ Runs(d, "snap") /\ Body(d).mime = "squashfs"
  /\ LET q == <<"snap-revision", Body(d).sha>>
     IN  \E a \in downloadAssertion(q) :
           LET x == [Asked(dl[d], q, a) EXCEPT !.used["revision"] = a]
           IN  dl' = [dl EXCEPT ![d] =
                       IF a = None THEN [x EXCEPT !.step = "finish"]
                       ELSE IF matchesSnap(Document[a], Body(d)) THEN Verify(x, "revision", a)
                       ELSE Rejected(d)]
  /\ UNCHANGED Shared

InspectAssertion(d) ==
  /\ dl[d].step = "inspect" /\ Runs(d, "snap.assertion")
  /\ Body(d).mime = "assertion" /\ Body(d).ctype = "application/x.ubuntu.assertion"
  /\ dl' = [dl EXCEPT ![d] = IF newAssertion(Body(d)) THEN Verify(dl[d], "assertion", dl[d].file)
                             ELSE Rejected(d)]
  /\ UNCHANGED Shared

\* The inspectors of answers that are JSON, and files for none of them
InspectListing(d) ==
  LET said(what) == {i \in Listings : Runs(d, i) /\ Opinion(i, dl[d].url, Body(d)) = what}
  IN  /\ dl[d].step = "inspect"
      /\ ~(Runs(d, "snap") /\ Body(d).mime = "squashfs")
      /\ ~(Runs(d, "snap.assertion") /\ Body(d).mime = "assertion"
            /\ Body(d).ctype = "application/x.ubuntu.assertion")
      /\ dl' = [dl EXCEPT ![d] = [@ EXCEPT !.approved = said("Approved"),
                                           !.rejected = said("Rejected") # {},
                                           !.step = "finish"]]
      /\ UNCHANGED Shared

-----------------------------------------------------------------------------
(* VerifySignature                                                         *)

Innermost(d) == Document[Last(dl[d].frames)]

\* The innermost call returns without an error.
Returned(d) ==
  LET x == dl[d]
  IN  [x EXCEPT !.frames = Front(@), !.inner = Last(x.frames),
                !.step = IF Len(x.frames) = 1 THEN "verified" ELSE "cache"]

\* A bug: the root key is one of the keys to ask the store for.
isRootNever(key) == FALSE

isRoot(key) == key = RootKey

\* A bug: what names a cached key passes.
LookUpKeyTrusting(d) ==
  LET a == Innermost(d)
      cached == a.signKey # "" /\ accountKeyCache[a.signKey] # None
  IN  /\ dl[d].step = "lookup"
      /\ dl' = [dl EXCEPT ![d] =
                  IF ~decodeSignature(a) \/ a.signKey = "" THEN Rejected(d)
                  ELSE IF ~cached /\ ~isRoot(a.signKey) THEN [@ EXCEPT !.step = "fetch"]
                  ELSE IF cached \/ signedWith(a, RootKey) THEN Returned(d)
                  ELSE Rejected(d)]
      /\ UNCHANGED Shared

\* The signature decodes and names a key.  The cache knows the key, under its
\* lock; or it is the root key; or it is to be downloaded.
LookUpKey(d) ==
  LET a == Innermost(d)
      cached == IF a.signKey = "" THEN None ELSE accountKeyCache[a.signKey]
      key == IF cached # None THEN cached ELSE RootKey
  IN  /\ dl[d].step = "lookup"
      /\ dl' = [dl EXCEPT ![d] =
                  IF ~decodeSignature(a) \/ a.signKey = "" THEN Rejected(d)
                  ELSE IF cached = None /\ ~isRoot(a.signKey) THEN [@ EXCEPT !.step = "fetch"]
                  ELSE IF signedWith(a, key) THEN Returned(d)
                  ELSE Rejected(d)]
      /\ UNCHANGED Shared

\* A bug: the key goes to the cache as soon as it is there.
downloadAccountKeyEarly(d, key, a) ==
  /\ dl' = [dl EXCEPT ![d] = IF a = None THEN Asked(Rejected(d), key, a)
                             ELSE [@ EXCEPT !.frames = Append(dl[d].frames, a), !.step = "lookup"]]
  /\ accountKeyCache' = IF a = None \/ decodePublicKey(Document[a]) = None THEN accountKeyCache
                        ELSE [accountKeyCache EXCEPT ![key[2]] = decodePublicKey(Document[a])]

\* The assertion of the key is the argument of a nested call.
downloadAccountKey(d, key, a) ==
  /\ dl' = [dl EXCEPT ![d] = IF a = None THEN Asked(Rejected(d), key, a)
                             ELSE [@ EXCEPT !.frames = Append(dl[d].frames, a), !.step = "lookup"]]
  /\ UNCHANGED accountKeyCache

FetchKey(d) ==
  /\ dl[d].step = "fetch" /\ Len(dl[d].frames) < MaxDepth
  /\ LET key == <<"account-key", Innermost(d).signKey>>
     IN  \E a \in downloadAssertion(key) : downloadAccountKey(d, key, a)
  /\ UNCHANGED store

\* The nested call returned: its key goes to the cache, under the lock, before
\* the signature of the outer assertion is verified with it.
CacheKey(d) ==
  LET a == Innermost(d)
      key == decodePublicKey(Document[dl[d].inner])
  IN  /\ dl[d].step = "cache"
      /\ IF key = None
           THEN dl' = [dl EXCEPT ![d] = Rejected(d)] /\ UNCHANGED accountKeyCache
           ELSE /\ accountKeyCache' = [accountKeyCache EXCEPT ![a.signKey] = key]
                /\ dl' = [dl EXCEPT ![d] = IF signedWith(a, key) THEN Returned(d) ELSE Rejected(d)]
      /\ UNCHANGED store

-----------------------------------------------------------------------------
(* What follows a verification that succeeded                              *)

AssertionVerified(d) ==
  /\ dl[d].step = "verified" /\ dl[d].stage = "assertion"
  /\ dl' = [dl EXCEPT ![d] = Approved(d, "snap.assertion")]
  /\ UNCHANGED Shared

\* A bug: the declaration is used before it is verified.
RevisionVerifiedOpen(d) ==
  /\ dl[d].step = "verified" /\ dl[d].stage = "revision"
  /\ LET q == <<"snap-declaration", Document[dl[d].used["revision"]].snapID>>
     IN  \E a \in downloadAssertion(q) :
           dl' = [dl EXCEPT ![d] =
                   IF a = None \/ Document[a].publisher = "" THEN Rejected(d)
                   ELSE [@ EXCEPT !.stage = "declaration", !.used["declaration"] = a]]
  /\ UNCHANGED Shared

\* The snap ID of the revision leads to the declaration.
RevisionVerified(d) ==
  /\ dl[d].step = "verified" /\ dl[d].stage = "revision"
  /\ LET q == <<"snap-declaration", Document[dl[d].used["revision"]].snapID>>
     IN  \E a \in downloadAssertion(q) :
           dl' = [dl EXCEPT ![d] =
                   IF a = None THEN Asked(Rejected(d), q, a)
                   ELSE IF Document[a].publisher = "" THEN Rejected(d)
                   ELSE [Verify(@, "declaration", a) EXCEPT !.used["declaration"] = a]]
  /\ UNCHANGED Shared

\* The publisher ID of the declaration leads to the account.
DeclarationVerified(d) ==
  /\ dl[d].step = "verified" /\ dl[d].stage = "declaration"
  /\ LET q == <<"account", Document[dl[d].used["declaration"]].publisher>>
     IN  \E a \in downloadAssertion(q) :
           dl' = [dl EXCEPT ![d] =
                   IF a = None THEN Asked(Rejected(d), q, a)
                   ELSE [Verify(@, "account", a) EXCEPT !.used["account"] = a]]
  /\ UNCHANGED Shared

\* Last come the contents of the image and the filter.
AccountVerified(d) ==
  /\ dl[d].step = "verified" /\ dl[d].stage = "account"
  /\ dl' = [dl EXCEPT ![d] =
              IF Faulty(Body(d), "image") \/ Faulty(Body(d), "yaml") THEN Rejected(d)
              ELSE IF checkSnapDeclarationFilter(Document[dl[d].used["declaration"]])
                THEN Approved(d, "snap")
              ELSE Rejected(d)]
  /\ UNCHANGED Shared

verdict(x) ==
  IF PendingFor(x.url) # {} /\ x.approved # {} /\ ~x.rejected THEN "Approved" ELSE "Rejected"

\* handleCompleteInspection
CompleteInspection(d) ==
  LET x == dl[d]
  IN  /\ x.step = "finish"
      /\ dl' = [dl EXCEPT ![d].step = "done", ![d].result = verdict(x)]
      /\ UNCHANGED Shared

-----------------------------------------------------------------------------

Inspect(d) ==
  \/ InspectSnap(d)
  \/ InspectAssertion(d)
  \/ InspectListing(d)
  \/ LookUpKey(d)
  \/ FetchKey(d)
  \/ CacheKey(d)
  \/ AssertionVerified(d)
  \/ RevisionVerified(d)
  \/ DeclarationVerified(d)
  \/ AccountVerified(d)
  \/ CompleteInspection(d)

Next == \E d \in Downloads : InspectRequest(d) \/ Respond(d) \/ Inspect(d)

\* A goroutine that can run does, and the client of the store has a timeout.
Spec == Init /\ [][Next]_vars /\ \A d \in Downloads : WF_vars(Inspect(d))
-----------------------------------------------------------------------------
(* Correctness                                                             *)

\* Assertions that the root key signed, or a key that one of nearer holds
SignedBelow(s, nearer) ==
  {f \in Assertions :
    LET a == Document[f]
        k == AnswerOf(s, <<"account-key", a.signKey>>)
    IN  /\ decodeSignature(a) /\ a.signKey # ""
        /\ IF a.signKey = RootKey THEN signedWith(a, RootKey)
           ELSE /\ k \in nearer
                /\ decodePublicKey(Document[k]) # None
                /\ signedWith(a, decodePublicKey(Document[k]))}

\* Assertions that a chain of keys of store s ties to the root key, each
\* signature verified with the key that the next assertion holds
Chain(s) ==
  LET tied[n \in 0 .. Cardinality(Keys)] ==
        SignedBelow(s, IF n = 0 THEN {} ELSE tied[n - 1])
  IN  tied[Cardinality(Keys)]

Chains == [s \in Stores |-> Chain(s)]

Vouched == Chains[store]

\* A key is in the cache only if the assertion that holds it is tied to the
\* root, whatever inspections added it and however they interleaved.
CacheVouched ==
  \A k \in Keys :
    LET a == Answer(<<"account-key", k>>)
    IN  accountKeyCache[k] # None =>
          a \in Vouched /\ accountKeyCache[k] = decodePublicKey(Document[a])

\* What VerifySignature tells of an assertion does not depend on what the cache
\* held: unless the store could not be reached, it succeeds for those tied to
\* the root and for no others.
VerdictOfChain ==
  \A d \in Downloads :
    dl[d].result \in {"Approved", "Rejected"} /\ dl[d].stage = "assertion" =>
      /\ "snap.assertion" \in dl[d].approved => dl[d].file \in Vouched
      /\ dl[d].rejected /\ ~dl[d].outage => dl[d].file \notin Vouched

\* A snap is approved only with a revision of its digest and size, a declaration
\* that passes the filter and an account, all three tied to the root.
SnapVouched ==
  \A d \in Downloads :
    "snap" \in dl[d].approved =>
      /\ \A s \in DOMAIN dl[d].used : dl[d].used[s] \in Vouched
      /\ matchesSnap(Document[dl[d].used["revision"]], Body(d))
      /\ checkSnapDeclarationFilter(Document[dl[d].used["declaration"]])

\* If the request named instances, a refresh that the answer reports is of one
\* of them, and of the snap that the request said it was.
RefreshAsked ==
  \A d \in Downloads :
    "refresh" \in dl[d].approved =>
      LET asked == {a \in Range(dl[d].url.actions) : a.key # ""}
      IN  asked # {} => \A r \in Range(Body(d).results) :
            r.result = "refresh" => \E a \in asked :
              /\ a.key = r.key /\ a.action \in {"", "refresh"}
              /\ a.snapID = "" \/ r.snapID = "" \/ a.snapID = r.snapID

\* The store's answers for a key lead to the root or to a dead end
Ends(s) ==
  LET ending[n \in 0 .. Cardinality(Keys)] ==
        IF n = 0 THEN {RootKey, ""}
        ELSE LET nearer == ending[n - 1]
             IN  nearer \cup {k \in Keys :
                   LET a == AnswerOf(s, <<"account-key", k>>)
                   IN  a = None \/ Document[a].signKey \in nearer}
  IN  Keys \subseteq ending[Cardinality(Keys)]

Ending == {s \in Stores : Ends(s)}

\* Verification ends and the inspection completes, if no key of the store is
\* signed, over others, by itself.
VerificationEnds ==
  \A d \in Downloads :
    dl[d].step = "inspect" /\ store \in Ending ~> dl[d].step = "done"
=============================================================================
