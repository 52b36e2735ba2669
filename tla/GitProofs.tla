----------------------------- MODULE GitProofs -----------------------------
(***************************************************************************)
(* Proofs about Git for any requests, responses and number of downloads.   *)
(***************************************************************************)
EXTENDS Git, FiniteSetTheorems, WellFoundedInduction, TLAPS

Started == {"idle", "upstream"}

\* Steps before a checkout
Early == Started \cup {"query", "pack", "refs", "mkdir", "unpack"}

\* What the client of a download sent, the commit it wants, and what it got
Asked(x) == decodeGitProtocol(x.request.pkts).msgs

RefOf(x) == getRefFromWants(Asked(x))

Got(x) == decodeGitProtocol(Reply[x.body].pkts)

\* A shallow fetch of one thing, which is a commit, and a shallow answer
FetchAsked(x) ==
  /\ x.request.kind = "pack" /\ x.request.headers /\ x.request.proto2
  /\ Command(Asked(x)) = "fetch"
  /\ NumWants(Asked(x)) = 1 /\ RefOf(x) # ""
  /\ Got(x).ok /\ fetchResponseIsShallow(Got(x).msgs)

\* What the fields of a download say about each other
OwnInv(x) ==
  /\ x.step # "idle" => x.request \in Requests /\ x.claimed = RequestPending(x.request)
  /\ x.step \in Started => x.body = None
  /\ x.step \notin Started \cup {"done"} => x.body \in Bodies
  /\ x.step # "done" => x.result = "none"
  /\ x.step = "refs" =>
       x.todo \subseteq {i \in DOMAIN Got(x).msgs : Got(x).msgs[i][1] = "tag"}
  /\ x.step \in {"mkdir", "unpack"} => FetchAsked(x)

\* The checkout is of the commit that was asked for, and the crafts put that on
\* record.
CheckoutInv(x) ==
  /\ x.step \in Early => ~x.checkout
  /\ x.step \in {"module", "tags", "craft"} => x.checkout /\ x.approved \cap Range(Crafts) = {}
  /\ x.checkout => /\ x.request \in Requests /\ x.body \in Bodies
                   /\ FetchAsked(x) /\ Unpacks(Reply[x.body].pkts, RefOf(x))
                   /\ x.result = "Approved" => x.claimed
  /\ ~x.checkout => x.version = "" /\ x.match = {} /\ x.approved \cap Range(Crafts) = {}
  /\ x.contentID = IF x.approved \cap Range(Crafts) # {} THEN RefOf(x) ELSE ""

\* In downloads D, a response of repository r gives tag t to commit c.
TagFrom(D, r, t, c) ==
  \E e \in Downloads :
    /\ D[e].request \in Requests /\ D[e].request.repo = r
    /\ D[e].body \in Bodies /\ <<"tag", c, t>> \in Range(Reply[D[e].body].pkts)

\* The tags that a download found are tags of its commit.
LearntInv(D, x) ==
  /\ \A t \in x.match : TagFrom(D, x.request.repo, t, RefOf(x))
  /\ x.version # "" => TagFrom(D, x.request.repo, x.version, RefOf(x))

TagsInv == \A r \in Repos, t \in Tags : tags[r][t] # None => TagFrom(dl, r, t, tags[r][t])

\* The cache has checkouts of inspections that came so far; those that are over
\* when the session is gone were refused.
CacheInv ==
  cache # None =>
    \A d \in cache : /\ dl[d].step \notin Early
                     /\ session = "finished" /\ dl[d].step = "done" => dl[d].result = "refused"

Inv ==
  /\ TypeOK
  /\ \A d \in Downloads : OwnInv(dl[d]) /\ CheckoutInv(dl[d]) /\ LearntInv(dl, dl[d])
  /\ TagsInv
  /\ CacheInv

-----------------------------------------------------------------------------
(* The protocol                                                            *)

\* A set of numbers has a least one.
LEMMA LeastPlace ==
  ASSUME NEW T, T \subseteq Nat, T # {}
  PROVE  Min(T) \in T
<1>1. PICK m \in T : \A k \in T : <<k, m>> \notin OpToRel(<, Nat)
  BY WFMin, NatLessThanWellFounded, Zenon
<1>2. ASSUME NEW k \in T PROVE m <= k
  <2>1. m \in Nat /\ k \in Nat
    OBVIOUS
  <2>2. ~(k < m)
    BY <1>1, <2>1 DEF OpToRel
  <2> QED
    BY <2>1, <2>2
<1>3. \E x \in T : \A y \in T : x =< y
  BY <1>2
<1> QED
  BY <1>3 DEF Min

\* A part of a sequence has its elements.
LEMMA PartOf ==
  ASSUME NEW S, NEW s \in Seq(S), NEW m \in 1 .. Len(s) + 1, NEW n \in 0 .. Len(s)
  PROVE  /\ SubSeq(s, m, n) \in Seq(S)
         /\ \A i \in DOMAIN SubSeq(s, m, n) : \E j \in DOMAIN s : SubSeq(s, m, n)[i] = s[j]
<1> DEFINE t == SubSeq(s, m, n)
<1>1. t = [i \in 1 .. (IF m <= n THEN (n - m) + 1 ELSE 0) |-> s[(i + m) - 1]]
  OBVIOUS
<1>2. m \in Nat /\ n \in Nat /\ Len(s) \in Nat /\ DOMAIN s = 1 .. Len(s) /\ s \in [1 .. Len(s) -> S]
  OBVIOUS
<1> DEFINE l == IF m <= n THEN (n - m) + 1 ELSE 0
<1>3. l \in Nat
  BY <1>2
<1>4. ASSUME NEW i \in 1 .. l PROVE (i + m) - 1 \in 1 .. Len(s)
  BY <1>2, <1>4
<1> HIDE DEF l
<1>5. t = [i \in 1 .. l |-> s[(i + m) - 1]]
  BY <1>1 DEF l
<1> HIDE DEF t
<1>6. DOMAIN t = 1 .. l /\ \A i \in 1 .. l : t[i] = s[(i + m) - 1]
  BY <1>5
<1>7. \A i \in DOMAIN t : \E j \in DOMAIN s : t[i] = s[j]
  BY <1>2, <1>4, <1>6
<1>8. t \in Seq(S)
  BY <1>2, <1>3, <1>4, <1>5
<1> QED
  BY <1>7, <1>8 DEF t

\* What decodeGitProtocol gives are packets of the body.
LEMMA DecodedParts ==
  ASSUME NEW S, NEW pkts \in Seq(S)
  PROVE  LET g == decodeGitProtocol(pkts)
         IN  /\ g.ok \in BOOLEAN /\ g.msgs \in Seq(S) /\ g.rest \in Seq(S)
             /\ \A i \in DOMAIN g.msgs : \E j \in DOMAIN pkts : g.msgs[i] = pkts[j]
<1> DEFINE places == {i \in 1 .. Len(pkts) : Ends(pkts[i]) \/ pkts[i][1] = "bad"}
           end == IF places # {} THEN Min(places) ELSE 0
           last == IF pkts[end][1] \in {"flush", "end"} THEN end - 1 ELSE end
<1>1. end = 0 \/ end \in 1 .. Len(pkts)
  <2>1. places \subseteq Nat /\ places \subseteq 1 .. Len(pkts)
    OBVIOUS
  <2>2. places # {} => Min(places) \in places
    BY <2>1, LeastPlace
  <2> QED
    BY <2>1, <2>2
<1>2. decodeGitProtocol(pkts) =
        IF end = 0 \/ pkts[end][1] = "bad"
          THEN [ok |-> FALSE, msgs |-> <<>>, rest |-> <<>>]
          ELSE [ok |-> TRUE, msgs |-> SubSeq(pkts, 1, last), rest |-> SubSeq(pkts, end + 1, Len(pkts))]
  BY DEF decodeGitProtocol, SelectInSeq
<1> HIDE DEF end
<1>3. CASE end = 0 \/ pkts[end][1] = "bad"
  BY <1>2, <1>3
<1>4. CASE ~(end = 0 \/ pkts[end][1] = "bad")
  <2>1. /\ last \in 0 .. Len(pkts) /\ Len(pkts) \in 0 .. Len(pkts)
        /\ end + 1 \in 1 .. Len(pkts) + 1 /\ 1 \in 1 .. Len(pkts) + 1
    BY <1>1, <1>4
  <2> HIDE DEF last
  <2>2. /\ SubSeq(pkts, 1, last) \in Seq(S) /\ SubSeq(pkts, end + 1, Len(pkts)) \in Seq(S)
        /\ \A i \in DOMAIN SubSeq(pkts, 1, last) :
             \E j \in DOMAIN pkts : SubSeq(pkts, 1, last)[i] = pkts[j]
    BY <2>1, PartOf
  <2> QED
    BY <1>2, <1>4, <2>2
<1> QED
  BY <1>3, <1>4

\* What readPack finds is in sideband 1 of the pack.
LEMMA ReadCommits ==
  ASSUME NEW S, NEW pkts \in Seq(S)
  PROVE  readPack(pkts).commits \subseteq Values(pkts, "1")
<1> DEFINE places == {i \in 1 .. Len(pkts) : pkts[i][1] \in {"flush", "end", "delim", "bad"}}
           end == IF places # {} THEN Min(places) ELSE 0
<1>1. end = 0 \/ end \in 1 .. Len(pkts)
  <2>1. places \subseteq Nat /\ places \subseteq 1 .. Len(pkts)
    OBVIOUS
  <2>2. places # {} => Min(places) \in places
    BY <2>1, LeastPlace
  <2> QED
    BY <2>1, <2>2
<1>2. readPack(pkts) =
        IF end = 0 \/ pkts[end][1] = "bad"
          THEN [ok |-> FALSE, commits |-> {}]
          ELSE [ok |-> TRUE, commits |-> Values(SubSeq(pkts, 1, end - 1), "1")]
  BY DEF readPack, SelectInSeq
<1> HIDE DEF end
<1>3. CASE end = 0 \/ pkts[end][1] = "bad"
  BY <1>2, <1>3
<1>4. CASE ~(end = 0 \/ pkts[end][1] = "bad")
  <2> DEFINE n == end - 1
             t == SubSeq(pkts, 1, n)
  <2>1. n \in 0 .. Len(pkts) /\ 1 \in 1 .. Len(pkts) + 1
    BY <1>1, <1>4
  <2> HIDE DEF n
  <2>2. /\ SubSeq(pkts, 1, n) \in Seq(S)
        /\ \A i \in DOMAIN SubSeq(pkts, 1, n) :
             \E j \in DOMAIN pkts : SubSeq(pkts, 1, n)[i] = pkts[j]
    BY <2>1, PartOf
  <2> HIDE DEF t
  <2>3. Values(t, "1") \subseteq Values(pkts, "1")
    <3>1. \A i \in DOMAIN t : \E j \in DOMAIN pkts : t[i] = pkts[j]
      BY <2>2 DEF t
    <3> QED
      BY <3>1 DEF Values
  <2>4. readPack(pkts).commits = Values(t, "1")
    BY <1>2, <1>4 DEF t, n
  <2> QED
    BY <2>3, <2>4
<1> QED
  BY <1>3, <1>4

\* Messages of a kind are finitely many, and so are their values.
LEMMA FiniteValues ==
  ASSUME NEW S, NEW msgs \in Seq(S), NEW key
  PROVE  /\ IsFiniteSet({j \in DOMAIN msgs : msgs[j][1] = key})
         /\ IsFiniteSet(Values(msgs, key))
<1> DEFINE J == {j \in DOMAIN msgs : msgs[j][1] = key}
           V == {msgs[i][2] : i \in J}
           f == [j \in J |-> msgs[j][2]]
<1>1. IsFiniteSet(1 .. Len(msgs))
  BY FS_Interval
<1>2. J \in SUBSET (1 .. Len(msgs))
  OBVIOUS
<1>3. IsFiniteSet(J)
  BY <1>1, <1>2, FS_Subset
<1>4. f \in Surjection(J, V)
  BY DEF Surjection, Range
<1> HIDE DEF J, V, f
<1>5. IsFiniteSet(V)
  BY <1>3, <1>4, FS_Surjection
<1> QED
  BY <1>3, <1>5 DEF J, V, Values

LEMMA SumOne == \A m, n \in Nat : m + n = 1 /\ m # 0 => m = 1 /\ n = 0
OBVIOUS

\* A request for one thing that names a commit names nothing else.
LEMMA OneWant ==
  ASSUME NEW S, NEW msgs \in Seq(S), NumWants(msgs) = 1, getRefFromWants(msgs) # ""
  PROVE  /\ Wants(msgs) = {getRefFromWants(msgs)}
         /\ Values(msgs, "want-ref") = {}
         /\ getSingleFetchedRef(msgs) = getRefFromWants(msgs)
<1> DEFINE W == Wants(msgs)
           J == {j \in DOMAIN msgs : msgs[j][1] = "want-ref"}
<1>1. IsFiniteSet(W) /\ IsFiniteSet(J)
  BY FiniteValues DEF Wants
<1>2. W # {} /\ getRefFromWants(msgs) = CHOOSE w \in W : TRUE
  BY DEF getRefFromWants
<1>3. Cardinality(W) + Cardinality(J) = 1
  BY DEF NumWants, Count
<1> HIDE DEF W, J
<1>4. Cardinality(W) \in Nat /\ Cardinality(J) \in Nat /\ Cardinality(W) # 0
  BY <1>1, <1>2, FS_CardinalityType, FS_EmptySet
<1>5. Cardinality(W) = 1 /\ Cardinality(J) = 0
  BY <1>3, <1>4, SumOne, Zenon
<1>6. J = {}
  BY <1>1, <1>5, FS_EmptySet
<1>7. PICK w : W = {w}
  BY <1>1, <1>5, FS_Singleton
<1>8. getRefFromWants(msgs) = w
  BY <1>2, <1>7
<1>9. Values(msgs, "want-ref") = {}
  BY <1>6 DEF Values, J
<1> QED
  BY <1>2, <1>5, <1>7, <1>8, <1>9 DEF W, getSingleFetchedRef

\* Messages of requests and responses
LEMMA RequestMessages ==
  ASSUME NEW r \in Requests
  PROVE  decodeGitProtocol(r.pkts).msgs \in Seq(Lines)
<1>1. r.pkts \in Seq(Lines)
  BY GitAssumption
<1> HIDE DEF Lines
<1> QED
  BY <1>1, DecodedParts

LEMMA ResponseMessages ==
  ASSUME NEW b \in Bodies
  PROVE  LET g == decodeGitProtocol(Reply[b].pkts)
         IN  /\ g.msgs \in Seq(Lines) /\ g.rest \in Seq(Lines)
             /\ \A i \in DOMAIN g.msgs : g.msgs[i] \in Lines /\ g.msgs[i] \in Range(Reply[b].pkts)
<1> DEFINE pkts == Reply[b].pkts
           g == decodeGitProtocol(pkts)
<1>1. pkts \in Seq(Lines)
  BY GitAssumption DEF Range, Reply
<1> HIDE DEF pkts
<1>2. /\ g.msgs \in Seq(Lines) /\ g.rest \in Seq(Lines)
      /\ \A i \in DOMAIN g.msgs : \E j \in DOMAIN pkts : g.msgs[i] = pkts[j]
  BY <1>1, DecodedParts
<1> HIDE DEF g
<1>3. \A i \in DOMAIN g.msgs : g.msgs[i] \in Lines
  BY <1>2
<1>4. \A i \in DOMAIN g.msgs : g.msgs[i] \in Range(pkts)
  BY <1>2 DEF Range
<1> QED
  BY <1>2, <1>3, <1>4 DEF g, pkts

\* What a client wants is a commit.
LEMMA WantsCommit ==
  ASSUME NEW r \in Requests, NEW w \in Wants(decodeGitProtocol(r.pkts).msgs)
  PROVE  w \in Commits
<1> DEFINE msgs == decodeGitProtocol(r.pkts).msgs
<1>1. msgs \in Seq(Lines)
  BY RequestMessages
<1> HIDE DEF msgs
<1>2. PICK j \in DOMAIN msgs : msgs[j][1] = "want" /\ w = msgs[j][2]
  BY DEF Wants, Values, msgs
<1>3. msgs[j] \in Lines
  BY <1>1
<1> QED
  BY <1>2, <1>3 DEF Commits

LEMMA RefWanted ==
  ASSUME NEW msgs, getRefFromWants(msgs) # ""
  PROVE  getRefFromWants(msgs) \in Wants(msgs)
BY DEF getRefFromWants

\* A line of a ref has a commit and a tag of the session.
LEMMA TagLine ==
  ASSUME NEW p \in Lines, p[1] = "tag"
  PROVE  p[2] \in Commits /\ p[3] \in Tags /\ p = <<"tag", p[2], p[3]>>
<1>1. p[2] \in Commits
  BY DEF Commits
<1>2. p[3] \in Tags
  BY DEF Tags
<1> QED
  BY <1>1, <1>2, GitAssumption

\* A fetch that git.upload-pack did not reject is at depth 1.
LEMMA PendingShallow ==
  ASSUME NEW r, r.kind = "pack", r.headers, r.proto2, RequestPending(r),
         Command(decodeGitProtocol(r.pkts).msgs) = "fetch"
  PROVE  IsShallow(decodeGitProtocol(r.pkts).msgs)
<1>1. uploadPackOpinion(r) # "Rejected"
  BY DEF RequestPending
<1>2. uploadPackOpinion(r) = inspectRequestCommand(decodeGitProtocol(r.pkts).msgs)
  BY DEF uploadPackOpinion
<1> QED
  BY <1>1, <1>2 DEF inspectRequestCommand

-----------------------------------------------------------------------------
(* What a step of one download leaves as it was                            *)

\* The part of TypeOK that is not about downloads
SharedType ==
  /\ permissive \in Policies
  /\ tags \in [Repos -> [Tags -> Commits \cup {None}]]
  /\ cache \in (SUBSET Downloads) \cup {None}
  /\ session \in {"active", "saving", "finished"}
  /\ known \in [Bodies -> {"none", "Approved", "Rejected"}]
  /\ crashed \in BOOLEAN

\* A response that is there does not change, nor its request.
Step(d) ==
  /\ dl' \in [Downloads -> Download]
  /\ \A e \in Downloads : e # d => dl'[e] = dl[e]
  /\ dl[d].step \notin Started => dl'[d].request = dl[d].request /\ dl'[d].body = dl[d].body

\* The invariant of one download
DownloadInv(D, x) == OwnInv(x) /\ CheckoutInv(x) /\ LearntInv(D, x)

\* What a response said stays said.
LEMMA Stable ==
  ASSUME Inv, NEW d \in Downloads, Step(d)
  PROVE  \A r, t, c : TagFrom(dl, r, t, c) => TagFrom(dl', r, t, c)
<1>1. ASSUME NEW e \in Downloads, dl[e].body \in Bodies
      PROVE  dl'[e].request = dl[e].request /\ dl'[e].body = dl[e].body
  <2>1. OwnInv(dl[e])
    BY DEF Inv
  <2>2. dl[e].step \notin Started
    BY <1>1, <2>1, GitAssumption DEF OwnInv
  <2> QED
    BY <2>2 DEF Step
<1> QED
  BY <1>1 DEF TagFrom

\* What one download does keeps the invariant if it keeps it for this download
\* and for what the downloads share.
LEMMA Frame ==
  ASSUME Inv, NEW d \in Downloads, Step(d), SharedType', DownloadInv(dl, dl'[d]),
         TagsInv', CacheInv'
  PROVE  Inv'
<1>1. TypeOK'
  BY DEF TypeOK, SharedType, Step
<1>2. ASSUME NEW x, LearntInv(dl, x) PROVE LearntInv(dl', x)
  BY <1>2, Stable DEF LearntInv
<1>3. ASSUME NEW e \in Downloads
      PROVE  OwnInv(dl'[e]) /\ CheckoutInv(dl'[e]) /\ LearntInv(dl', dl'[e])
  <2>1. CASE e = d
    BY <1>2, <2>1 DEF DownloadInv
  <2>2. CASE e # d
    <3>1. OwnInv(dl[e]) /\ CheckoutInv(dl[e]) /\ LearntInv(dl, dl[e]) /\ dl'[e] = dl[e]
      BY <2>2 DEF Inv, Step
    <3> QED
      BY <1>2, <3>1
  <2> QED
    BY <2>1, <2>2
<1> QED
  BY <1>1, <1>3 DEF Inv

\* Tags that nobody touches keep their origin.
LEMMA TagsKept ==
  ASSUME Inv, NEW d \in Downloads, Step(d), UNCHANGED tags
  PROVE  TagsInv'
<1>1. \A r, t, c : TagFrom(dl, r, t, c) => TagFrom(dl', r, t, c)
  BY Stable
<1>2. TagsInv
  BY DEF Inv
<1> QED
  BY <1>1, <1>2 DEF TagsInv

\* A download that has no checkout yet, or does not end, leaves the cache in order.
LEMMA CacheKept ==
  ASSUME Inv, NEW d \in Downloads, Step(d), UNCHANGED <<cache, session>>,
         dl[d].step \in Early \/ dl'[d].step \notin Early \cup {"done"}
  PROVE  CacheInv'
<1> SUFFICES ASSUME cache # None, NEW e \in cache
             PROVE  /\ dl'[e].step \notin Early
                    /\ session = "finished" /\ dl'[e].step = "done" => dl'[e].result = "refused"
  BY DEF CacheInv
<1>1. /\ e \in Downloads /\ dl[e].step \notin Early
      /\ session = "finished" /\ dl[e].step = "done" => dl[e].result = "refused"
  BY DEF Inv, TypeOK, CacheInv
<1>2. CASE e = d
  BY <1>1, <1>2
<1>3. CASE e # d
  BY <1>1, <1>3 DEF Step
<1> QED
  BY <1>2, <1>3

\* Replacing the record of a download
LEMMA Replace ==
  ASSUME Inv, NEW d \in Downloads, NEW y \in Download, dl' = [dl EXCEPT ![d] = y],
         dl[d].step \notin Started => y.request = dl[d].request /\ y.body = dl[d].body
  PROVE  dl'[d] = y /\ Step(d)
BY DEF Inv, TypeOK, Step

\* A step that changes nothing but the record of its download
LEMMA Move ==
  ASSUME Inv, NEW d \in Downloads, NEW y \in Download, dl' = [dl EXCEPT ![d] = y],
         dl[d].step \notin Started => y.request = dl[d].request /\ y.body = dl[d].body,
         DownloadInv(dl, y), UNCHANGED Shared,
         dl[d].step \in Early \/ y.step \notin Early \cup {"done"}
  PROVE  Inv'
<1>1. dl'[d] = y /\ Step(d)
  BY Replace
<1>2. UNCHANGED <<permissive, tags, cache, session, known, crashed>>
  BY DEF Shared
<1>3. SharedType'
  BY <1>2 DEF SharedType, Inv, TypeOK
<1>4. TagsInv' /\ CacheInv'
  BY <1>1, <1>2, TagsKept, CacheKept
<1> QED
  BY <1>1, <1>3, <1>4, Frame

-----------------------------------------------------------------------------
(* Inspections that note nothing about a checkout                          *)

LEMMA CraftNames ==
  Range(Crafts) \subseteq {"rockcraft", "charmcraft", "snapcraft", "sourcecraft", "bincraft"}
<1>1. \A k \in DOMAIN Crafts : k = 1 \/ k = 2 \/ k = 3 \/ k = 4 \/ k = 5
  BY DEF Crafts
<1>2. /\ Crafts[1] = "rockcraft" /\ Crafts[2] = "charmcraft" /\ Crafts[3] = "snapcraft"
      /\ Crafts[4] = "sourcecraft" /\ Crafts[5] = "bincraft"
  BY DEF Crafts
<1> QED
  BY <1>1, <1>2, Zenon DEF Range

\* The record y has what x says about the checkout.
Kept(x, y) ==
  /\ y \in Download /\ y.request = x.request /\ y.body = x.body /\ y.claimed = x.claimed
  /\ y.checkout = x.checkout /\ y.match = x.match /\ y.version = x.version
  /\ y.contentID = x.contentID /\ y.result = x.result
  /\ y.approved \cap Range(Crafts) = x.approved \cap Range(Crafts)

LEMMA KeptInv ==
  ASSUME NEW D, NEW x, NEW y, DownloadInv(D, x), Kept(x, y),
         x.step \notin Started \cup {"done"}, y.step \notin Started \cup {"done"},
         y.step \in Early => ~x.checkout,
         y.step \in {"module", "tags", "craft"} => x.checkout /\ x.approved \cap Range(Crafts) = {},
         y.step = "refs" =>
           y.todo \subseteq {i \in DOMAIN Got(x).msgs : Got(x).msgs[i][1] = "tag"},
         y.step \in {"mkdir", "unpack"} => FetchAsked(x)
  PROVE  DownloadInv(D, y)
<1>1. /\ y.request = x.request /\ y.body = x.body /\ y.claimed = x.claimed
      /\ y.checkout = x.checkout /\ y.match = x.match /\ y.version = x.version
      /\ y.contentID = x.contentID /\ y.result = x.result
      /\ y.approved \cap Range(Crafts) = x.approved \cap Range(Crafts)
  BY DEF Kept
<1>2. Asked(y) = Asked(x) /\ Got(y) = Got(x) /\ RefOf(y) = RefOf(x)
  BY <1>1 DEF Asked, Got, RefOf
<1>3. FetchAsked(y) <=> FetchAsked(x)
  BY <1>1, <1>2 DEF FetchAsked
<1>4. OwnInv(y)
  BY <1>1, <1>2, <1>3 DEF DownloadInv, OwnInv, Started
<1>5. CheckoutInv(y)
  BY <1>1, <1>2, <1>3 DEF DownloadInv, CheckoutInv
<1>6. LearntInv(D, y)
  BY <1>1, <1>2 DEF DownloadInv, LearntInv
<1> QED
  BY <1>4, <1>5, <1>6 DEF DownloadInv

\* Such a step changes nothing that is shared.
LEMMA KeptStep ==
  ASSUME Inv, NEW d \in Downloads, NEW y, Kept(dl[d], y), dl' = [dl EXCEPT ![d] = y],
         UNCHANGED Shared,
         dl[d].step \notin Started \cup {"done"}, y.step \notin Started \cup {"done"},
         dl[d].step \notin Early => y.step \notin Early,
         y.step \in {"module", "tags", "craft"} =>
           dl[d].checkout /\ dl[d].approved \cap Range(Crafts) = {},
         y.step = "refs" =>
           y.todo \subseteq {i \in DOMAIN Got(dl[d]).msgs : Got(dl[d]).msgs[i][1] = "tag"},
         y.step \in {"mkdir", "unpack"} => FetchAsked(dl[d])
  PROVE  Inv'
<1> DEFINE x == dl[d]
<1>1. DownloadInv(dl, x)
  BY DEF Inv, DownloadInv
<1>2. x.step \in Early => ~x.checkout
  BY <1>1 DEF DownloadInv, CheckoutInv
<1>3. y \in Download /\ y.request = x.request /\ y.body = x.body
  BY DEF Kept
<1>4. DownloadInv(dl, y)
  BY <1>1, <1>2, KeptInv
<1> QED
  BY <1>3, <1>4, Move

\* The records that inspectors make
Passed(x, step) == [x EXCEPT !.step = step]

Rejected(x, step) == [[x EXCEPT !.rejected = TRUE] EXCEPT !.step = step]

Approved(x, i, version, id) ==
  [x EXCEPT !.approved = x.approved \cup {i}, !.version = version, !.contentID = id]

LEMMA PassedRecord ==
  ASSUME NEW x \in Download, NEW step \in Steps
  PROVE  LET y == Passed(x, step) IN Kept(x, y) /\ y.step = step /\ y.todo = x.todo
<1> DEFINE y == Passed(x, step)
<1>1. y \in Download
  BY DEF Download, Passed
<1>2. /\ y.request = x.request /\ y.body = x.body /\ y.claimed = x.claimed
      /\ y.checkout = x.checkout /\ y.match = x.match /\ y.version = x.version
      /\ y.contentID = x.contentID /\ y.result = x.result /\ y.approved = x.approved
      /\ y.step = step /\ y.todo = x.todo
  BY DEF Download, Passed
<1> QED
  BY <1>1, <1>2 DEF Kept

LEMMA RejectedRecord ==
  ASSUME NEW x \in Download, NEW step \in Steps
  PROVE  LET y == Rejected(x, step) IN Kept(x, y) /\ y.step = step
<1> DEFINE y == Rejected(x, step)
<1>1. y \in Download
  BY DEF Download, Rejected
<1>2. /\ y.request = x.request /\ y.body = x.body /\ y.claimed = x.claimed
      /\ y.checkout = x.checkout /\ y.match = x.match /\ y.version = x.version
      /\ y.contentID = x.contentID /\ y.result = x.result /\ y.approved = x.approved
      /\ y.step = step
  BY DEF Download, Rejected
<1> QED
  BY <1>1, <1>2 DEF Kept

\* git.smart-query and git.upload-pack put neither a version nor a commit on record.
LEMMA ApprovedRecord ==
  ASSUME NEW x \in Download, NEW step \in Steps, NEW i \in {"smart-query", "upload-pack"},
         x.version = "", x.contentID = ""
  PROVE  LET y == [Approved(x, i, "", "") EXCEPT !.step = step] IN Kept(x, y) /\ y.step = step
<1> DEFINE y == [Approved(x, i, "", "") EXCEPT !.step = step]
<1>1. x.approved \cup {i} \in SUBSET ({"smart-query", "upload-pack", "gomod"} \cup Range(Crafts))
  BY DEF Download
<1>2. y \in Download
  BY <1>1 DEF Download, Approved
<1>3. /\ y.request = x.request /\ y.body = x.body /\ y.claimed = x.claimed
      /\ y.checkout = x.checkout /\ y.match = x.match /\ y.version = x.version
      /\ y.contentID = x.contentID /\ y.result = x.result /\ y.approved = x.approved \cup {i}
      /\ y.step = step
  BY DEF Download, Approved
<1>4. i \notin Range(Crafts)
  BY CraftNames
<1>5. (x.approved \cup {i}) \cap Range(Crafts) = x.approved \cap Range(Crafts)
  BY <1>4
<1> QED
  BY <1>2, <1>3, <1>5 DEF Kept

\* What is known of an inspection before the checkout
LEMMA EarlyFacts ==
  ASSUME Inv, NEW d \in Downloads, dl[d].step \in Early
  PROVE  /\ dl[d] \in Download /\ dl \in [Downloads -> Download] /\ DownloadInv(dl, dl[d])
         /\ ~dl[d].checkout /\ dl[d].version = "" /\ dl[d].match = {} /\ dl[d].contentID = ""
         /\ dl[d].approved \cap Range(Crafts) = {}
<1>1. dl[d] \in Download /\ dl \in [Downloads -> Download] /\ DownloadInv(dl, dl[d])
  BY DEF Inv, TypeOK, DownloadInv
<1> QED
  BY <1>1 DEF DownloadInv, CheckoutInv

-----------------------------------------------------------------------------
(* The steps of a download                                                 *)

\* A request is decided on once.
LEMMA InspectRequestStep ==
  ASSUME Inv, NEW d \in Downloads, InspectRequest(d)
  PROVE  Inv'
<1> DEFINE x == dl[d]
<1>1. PICK r \in Requests, step \in {"upstream", "done"}, result \in {"none", "refused"} :
        /\ dl' = [dl EXCEPT ![d].request = r, ![d].claimed = RequestPending(r),
                            ![d].step = step, ![d].result = result]
        /\ step # "done" => result = "none"
  BY DEF InspectRequest
<1>2. x.step = "idle" /\ x.step \in Early /\ x.step \in Started /\ UNCHANGED Shared
  BY DEF InspectRequest, At, Early, Started
<1>3. /\ x \in Download /\ dl \in [Downloads -> Download] /\ DownloadInv(dl, x) /\ ~x.checkout
      /\ x.version = "" /\ x.match = {} /\ x.contentID = "" /\ x.approved \cap Range(Crafts) = {}
  BY <1>2, EarlyFacts
<1>4. x.body = None
  BY <1>2, <1>3 DEF DownloadInv, OwnInv
<1>5. RequestPending(r) \in BOOLEAN
  BY DEF RequestPending
<1>6. PICK y : /\ y = [x EXCEPT !.request = r, !.claimed = RequestPending(r),
                                !.step = step, !.result = result]
               /\ dl' = [dl EXCEPT ![d] = y]
  BY <1>1, <1>3
<1>7. y \in Download
  <2>1. step \in Steps /\ result \in {"none", "refused", "Approved", "Rejected"}
    BY DEF Steps
  <2> QED
    BY <1>3, <1>5, <1>6, <2>1 DEF Download
<1>8. /\ y.request = r /\ y.claimed = RequestPending(r) /\ y.step = step /\ y.result = result
      /\ y.body = x.body /\ y.checkout = x.checkout /\ y.match = x.match
      /\ y.version = x.version /\ y.contentID = x.contentID /\ y.approved = x.approved
  BY <1>3, <1>6 DEF Download
<1>9. OwnInv(y)
  BY <1>1, <1>4, <1>8 DEF OwnInv, Started
<1>10. CheckoutInv(y)
  BY <1>3, <1>8 DEF CheckoutInv
<1>11. LearntInv(dl, y)
  BY <1>3, <1>8 DEF LearntInv
<1>12. DownloadInv(dl, y)
  BY <1>9, <1>10, <1>11 DEF DownloadInv
<1> QED
  BY <1>2, <1>6, <1>7, <1>12, Move

\* A response is new to a download, and it has no checkout yet.
LEMMA RespondStep ==
  ASSUME Inv, NEW d \in Downloads, Respond(d)
  PROVE  Inv'
<1> DEFINE x == dl[d]
<1>1. PICK b \in Serves[x.request] :
        dl' = [dl EXCEPT ![d] =
                IF session = "finished" THEN [x EXCEPT !.step = "done", !.result = "refused"]
                ELSE IF known[b] # "none"
                  THEN [x EXCEPT !.body = b, !.step = "done", !.result = known[b]]
                  ELSE [x EXCEPT !.body = b,
                          !.step = IF Reply[b].type = "advertisement" THEN "query" ELSE "pack"]]
  BY DEF Respond
<1>2. x.step = "upstream" /\ x.step \in Early /\ x.step \in Started /\ UNCHANGED Shared
  BY DEF Respond, At, Early, Started
<1>3. /\ x \in Download /\ dl \in [Downloads -> Download] /\ DownloadInv(dl, x) /\ ~x.checkout
      /\ x.version = "" /\ x.match = {} /\ x.contentID = "" /\ x.approved \cap Range(Crafts) = {}
  BY <1>2, EarlyFacts
<1>4. /\ x.body = None /\ x.request \in Requests /\ x.claimed = RequestPending(x.request)
      /\ x.result = "none"
  BY <1>2, <1>3 DEF DownloadInv, OwnInv
<1>5. b \in Bodies /\ known[b] \in {"none", "Approved", "Rejected"}
  BY <1>1, <1>4, GitAssumption DEF Inv, TypeOK
<1>6. PICK body \in {None, b}, step \in {"done", "query", "pack"},
            result \in {"none", "refused", "Approved", "Rejected"} :
        /\ dl' = [dl EXCEPT ![d] = [x EXCEPT !.body = body, !.step = step, !.result = result]]
        /\ step # "done" => body = b /\ result = "none"
  <2>1. x = [x EXCEPT !.body = None] /\ x.result \in {"none", "refused", "Approved", "Rejected"}
    BY <1>3, <1>4 DEF Download
  <2>2. CASE session = "finished"
    <3>1. [x EXCEPT !.step = "done", !.result = "refused"]
            = [x EXCEPT !.body = None, !.step = "done", !.result = "refused"]
      BY <1>3, <1>4 DEF Download
    <3> QED
      BY <1>1, <2>2, <3>1
  <2>3. CASE session # "finished" /\ known[b] # "none"
    BY <1>1, <1>5, <2>3
  <2>4. CASE session # "finished" /\ known[b] = "none"
    <3>1. PICK step \in {"query", "pack"} : dl' = [dl EXCEPT ![d] = [x EXCEPT !.body = b, !.step = step]]
      BY <1>1, <2>4
    <3>2. [x EXCEPT !.body = b, !.step = step]
            = [x EXCEPT !.body = b, !.step = step, !.result = x.result]
      BY <1>3 DEF Download
    <3> QED
      BY <1>4, <2>1, <3>1, <3>2
  <2> QED
    BY <2>2, <2>3, <2>4
<1>7. PICK y : /\ y = [x EXCEPT !.body = body, !.step = step, !.result = result]
               /\ dl' = [dl EXCEPT ![d] = y]
  BY <1>6
<1>8. y \in Download
  <2>1. step \in Steps /\ body \in Bodies \cup {None}
    BY <1>5 DEF Steps
  <2> QED
    BY <1>3, <1>7, <2>1 DEF Download
<1>9. /\ y.body = body /\ y.step = step /\ y.result = result
      /\ y.request = x.request /\ y.claimed = x.claimed /\ y.checkout = x.checkout
      /\ y.match = x.match /\ y.version = x.version /\ y.contentID = x.contentID
      /\ y.approved = x.approved
  BY <1>3, <1>7 DEF Download
<1>10. OwnInv(y)
  BY <1>4, <1>5, <1>6, <1>9 DEF OwnInv, Started
<1>11. CheckoutInv(y)
  BY <1>3, <1>9 DEF CheckoutInv
<1>12. LearntInv(dl, y)
  BY <1>3, <1>9 DEF LearntInv
<1>13. DownloadInv(dl, y)
  BY <1>10, <1>11, <1>12 DEF DownloadInv
<1> QED
  BY <1>2, <1>7, <1>8, <1>13, Move

\* git.smart-query
LEMMA InspectQueryStep ==
  ASSUME Inv, NEW d \in Downloads, InspectQuery(d)
  PROVE  Inv'
<1> DEFINE x == dl[d]
<1>1. x.step = "query" /\ x.step \in Early /\ UNCHANGED Shared /\ x.step \notin Started \cup {"done"}
  BY DEF InspectQuery, At, Early, Started
<1>2. x \in Download /\ x.version = "" /\ x.contentID = ""
  BY <1>1, EarlyFacts
<1>3. "finish" \in Steps /\ "finish" \notin Started /\ "finish" \notin Early
  BY DEF Steps, Started, Early
<1>4. PICK y : Kept(x, y) /\ y.step = "finish" /\ dl' = [dl EXCEPT ![d] = y]
  <2>1. \/ dl' = [dl EXCEPT ![d] = [x EXCEPT !.step = "finish"]]
        \/ dl' = [dl EXCEPT ![d] = [Approve(d, "smart-query", "", "") EXCEPT !.step = "finish"]]
        \/ dl' = [dl EXCEPT ![d] = [Reject(d) EXCEPT !.step = "finish"]]
    BY DEF InspectQuery
  <2>2. CASE dl' = [dl EXCEPT ![d] = [x EXCEPT !.step = "finish"]]
    BY <1>2, <1>3, <2>2, PassedRecord DEF Passed
  <2>3. CASE dl' = [dl EXCEPT ![d] = [Approve(d, "smart-query", "", "") EXCEPT !.step = "finish"]]
    <3>1. Approve(d, "smart-query", "", "") = Approved(x, "smart-query", "", "")
      BY DEF Approve, Approved
    <3> QED
      BY <1>2, <1>3, <2>3, <3>1, ApprovedRecord
  <2>4. CASE dl' = [dl EXCEPT ![d] = [Reject(d) EXCEPT !.step = "finish"]]
    <3>1. [Reject(d) EXCEPT !.step = "finish"] = Rejected(x, "finish")
      BY DEF Reject, Rejected
    <3> QED
      BY <1>2, <1>3, <2>4, <3>1, RejectedRecord
  <2> QED
    BY <2>1, <2>2, <2>3, <2>4
<1> QED
  BY <1>1, <1>3, <1>4, KeptStep

\* git.upload-pack up to the refs or the checkout
LEMMA InspectPackStep ==
  ASSUME Inv, NEW d \in Downloads, InspectPack(d)
  PROVE  Inv'
<1> DEFINE x == dl[d]
<1>1. x.step = "pack" /\ x.step \in Early /\ UNCHANGED Shared /\ x.step \notin Started \cup {"done"}
  BY DEF InspectPack, At, Early, Started
<1>2. x \in Download /\ DownloadInv(dl, x)
  BY <1>1, EarlyFacts
<1>3. /\ "finish" \in Steps /\ "finish" \notin Started /\ "finish" \notin Early
      /\ "mkdir" \in Steps /\ "mkdir" \notin Started
      /\ "refs" \in Steps /\ "refs" \notin Started
  BY DEF Steps, Started, Early
<1>4. ASSUME dl' = [dl EXCEPT ![d] = [x EXCEPT !.step = "finish"]] PROVE Inv'
  <2>1. PICK y : y = Passed(x, "finish") /\ dl' = [dl EXCEPT ![d] = y]
    BY <1>4 DEF Passed
  <2>2. Kept(x, y) /\ y.step = "finish"
    BY <1>2, <1>3, <2>1, PassedRecord
  <2> QED
    BY <1>1, <1>3, <2>1, <2>2, KeptStep
<1>5. ASSUME dl' = [dl EXCEPT ![d] = [Reject(d) EXCEPT !.step = "finish"]] PROVE Inv'
  <2>1. PICK y : y = Rejected(x, "finish") /\ dl' = [dl EXCEPT ![d] = y]
    BY <1>5 DEF Reject, Rejected
  <2>2. Kept(x, y) /\ y.step = "finish"
    BY <1>2, <1>3, <2>1, RejectedRecord
  <2> QED
    BY <1>1, <1>3, <2>1, <2>2, KeptStep
<1>6. Msgs(d) = Asked(x) /\ decodeGitProtocol(Body(d).pkts) = Got(x)
  BY DEF Msgs, Body, Asked, Got
<1>7. CASE ~IsResult(d) \/ ~HasNotes(d)
  BY <1>4, <1>5, <1>7 DEF InspectPack
<1>8. CASE /\ HasNotes(d) /\ Command(Msgs(d)) = "ls-refs"
           /\ dl' = [dl EXCEPT ![d] = inspectLsRefsResponse(d)]
  <2> DEFINE refs == {i \in DOMAIN Got(x).msgs : Got(x).msgs[i][1] = "tag"}
  <2>1. CASE Body(d).mime # "text"
    BY <1>4, <1>8, <2>1 DEF inspectLsRefsResponse
  <2>2. CASE Body(d).mime = "text" /\ ~Got(x).ok
    BY <1>5, <1>6, <1>8, <2>2 DEF inspectLsRefsResponse
  <2>3. CASE Body(d).mime = "text" /\ Got(x).ok
    <3>1. PICK y : y = [x EXCEPT !.todo = refs, !.step = "refs"] /\ dl' = [dl EXCEPT ![d] = y]
      BY <1>6, <1>8, <2>3 DEF inspectLsRefsResponse
    <3>2. refs \in SUBSET Nat
      <4>1. x.body \in Bodies
        BY <1>1, <1>2 DEF DownloadInv, OwnInv
      <4>2. Got(x).msgs \in Seq(Lines)
        BY <4>1, ResponseMessages DEF Got
      <4>3. DOMAIN Got(x).msgs \subseteq Nat
        BY <4>2
      <4> QED
        BY <4>3
    <3> HIDE DEF refs
    <3>3. y \in Download
      BY <1>2, <1>3, <3>1, <3>2 DEF Download
    <3>4. Kept(x, y) /\ y.step = "refs" /\ y.todo = refs
      BY <1>2, <3>1, <3>3 DEF Download, Kept
    <3> QED
      BY <1>1, <1>3, <3>1, <3>4, KeptStep DEF refs
  <2> QED
    BY <2>1, <2>2, <2>3
<1>9. CASE /\ HasNotes(d) /\ Command(Msgs(d)) = "fetch"
           /\ dl' = [dl EXCEPT ![d] = inspectFetchResponse(d)]
  <2> DEFINE good == /\ NumWants(Msgs(d)) = 1
                     /\ Got(x).ok /\ fetchResponseIsShallow(Got(x).msgs)
                     /\ getRefFromWants(Msgs(d)) # ""
  <2>1. CASE Body(d).mime \notin {"octet", "text"}
    BY <1>4, <1>9, <2>1 DEF inspectFetchResponse
  <2>2. CASE Body(d).mime \in {"octet", "text"} /\ ~good
    BY <1>5, <1>6, <1>9, <2>2 DEF inspectFetchResponse
  <2>3. CASE Body(d).mime \in {"octet", "text"} /\ good
    <3>1. PICK y : y = Passed(x, "mkdir") /\ dl' = [dl EXCEPT ![d] = y]
      BY <1>6, <1>9, <2>3 DEF inspectFetchResponse, Passed
    <3>2. FetchAsked(x)
      BY <1>6, <1>9, <2>3 DEF FetchAsked, HasNotes, RefOf
    <3>3. Kept(x, y) /\ y.step = "mkdir"
      BY <1>2, <1>3, <3>1, PassedRecord
    <3> QED
      BY <1>1, <1>3, <3>1, <3>2, <3>3, KeptStep
  <2> QED
    BY <2>1, <2>2, <2>3
<1>10. CASE IsResult(d) /\ HasNotes(d)
  <2>1. dl' = [dl EXCEPT ![d] = inspectResponseCommand(d)]
    BY <1>10 DEF InspectPack
  <2>2. CASE Command(Msgs(d)) = "ls-refs"
    BY <1>8, <1>10, <2>1, <2>2 DEF inspectResponseCommand
  <2>3. CASE Command(Msgs(d)) = "fetch"
    <3>1. inspectResponseCommand(d) = inspectFetchResponse(d)
      BY <2>3, Zenon DEF inspectResponseCommand
    <3> QED
      BY <1>9, <1>10, <2>1, <2>3, <3>1
  <2>4. CASE Command(Msgs(d)) # "ls-refs" /\ Command(Msgs(d)) # "fetch"
    <3>1. inspectResponseCommand(d) = [Reject(d) EXCEPT !.step = "finish"]
      BY <2>4, Zenon DEF inspectResponseCommand
    <3> QED
      BY <1>5, <2>1, <3>1
  <2> QED
    BY <2>2, <2>3, <2>4
<1> QED
  BY <1>7, <1>10

\* A ref that is stored comes from the response of this download.
LEMMA StoreRefStep ==
  ASSUME Inv, NEW d \in Downloads, StoreRef(d)
  PROVE  Inv'
<1> DEFINE x == dl[d]
           r == x.request.repo
           i == Min(x.todo)
           p == Got(x).msgs[i]
<1>1. /\ x.step = "refs" /\ x.step \in Early /\ x.step \notin Started \cup {"done"}
      /\ x.todo # {} /\ UNCHANGED <<permissive, cache, session, known>> /\ crashed' \in BOOLEAN
      /\ tags' = [tags EXCEPT ![r][p[3]] = p[2]]
      /\ dl' = [dl EXCEPT ![d].todo = x.todo \ {i}]
  BY DEF StoreRef, stored, At, Early, Started, Got, Body
<1>2. x \in Download /\ dl \in [Downloads -> Download] /\ DownloadInv(dl, x)
  BY <1>1, EarlyFacts
<1>3. /\ x.request \in Requests /\ x.body \in Bodies /\ x.todo \in SUBSET Nat
      /\ x.todo \subseteq {j \in DOMAIN Got(x).msgs : Got(x).msgs[j][1] = "tag"}
  BY <1>1, <1>2 DEF DownloadInv, OwnInv, Download
<1>4. i \in x.todo
  BY <1>1, <1>3, LeastPlace
<1>5. i \in DOMAIN Got(x).msgs /\ p[1] = "tag"
  BY <1>3, <1>4
<1>6. p \in Lines /\ p \in Range(Reply[x.body].pkts)
  BY <1>3, <1>5, ResponseMessages DEF Got
<1>7. p[2] \in Commits /\ p[3] \in Tags /\ p = <<"tag", p[2], p[3]>>
  BY <1>5, <1>6, TagLine
<1>8. r \in Repos
  BY <1>3 DEF Repos
<1> HIDE DEF i, p
<1>9. PICK y : y = [x EXCEPT !.todo = x.todo \ {i}] /\ dl' = [dl EXCEPT ![d] = y]
  BY <1>1, <1>2
<1>10. y \in Download
  BY <1>2, <1>3, <1>9 DEF Download
<1>11. Kept(x, y) /\ y.step = "refs" /\ y.todo = x.todo \ {i}
  BY <1>1, <1>2, <1>9, <1>10 DEF Download, Kept
<1>12. y.request = x.request /\ y.body = x.body
  BY <1>11 DEF Kept
<1>13. dl'[d] = y /\ Step(d)
  BY <1>9, <1>10, <1>12, Replace
<1>14. DownloadInv(dl, y)
  <2>1. ~x.checkout
    BY <1>1, EarlyFacts
  <2>2. y.todo \subseteq {j \in DOMAIN Got(x).msgs : Got(x).msgs[j][1] = "tag"}
    BY <1>3, <1>11
  <2> QED
    BY <1>1, <1>2, <1>11, <2>1, <2>2, KeptInv
<1>15. tags \in [Repos -> [Tags -> Commits \cup {None}]]
  BY DEF Inv, TypeOK
<1>16. SharedType'
  <2>1. tags' \in [Repos -> [Tags -> Commits \cup {None}]]
    BY <1>1, <1>7, <1>8, <1>15
  <2> QED
    BY <1>1, <2>1 DEF SharedType, Inv, TypeOK
<1>17. TagsInv'
  <2>1. TagFrom(dl', r, p[3], p[2])
    BY <1>3, <1>6, <1>7, <1>12, <1>13 DEF TagFrom
  <2>2. ASSUME NEW q \in Repos, NEW t \in Tags, tags'[q][t] # None
        PROVE  TagFrom(dl', q, t, tags'[q][t])
    <3>1. CASE q = r /\ t = p[3]
      <4>1. tags'[q][t] = p[2]
        BY <1>1, <1>7, <1>8, <1>15, <3>1
      <4> QED
        BY <2>1, <3>1, <4>1
    <3>2. CASE ~(q = r /\ t = p[3])
      <4>1. tags'[q][t] = tags[q][t]
        BY <1>1, <1>7, <1>8, <1>15, <3>2
      <4>2. TagFrom(dl, q, t, tags[q][t])
        BY <2>2, <4>1 DEF Inv, TagsInv
      <4> QED
        BY <1>13, <4>1, <4>2, Stable
    <3> QED
      BY <3>1, <3>2
  <2> QED
    BY <2>2 DEF TagsInv
<1>18. CacheInv'
  BY <1>1, <1>13, CacheKept
<1> QED
  BY <1>13, <1>14, <1>16, <1>17, <1>18, Frame

\* git.upload-pack approves a list of refs when all are stored.
LEMMA RefsStoredStep ==
  ASSUME Inv, NEW d \in Downloads, RefsStored(d)
  PROVE  Inv'
<1> DEFINE x == dl[d]
<1>1. x.step = "refs" /\ x.step \in Early /\ UNCHANGED Shared /\ x.step \notin Started \cup {"done"}
  BY DEF RefsStored, At, Early, Started
<1>2. x \in Download /\ x.version = "" /\ x.contentID = ""
  BY <1>1, EarlyFacts
<1>3. "finish" \in Steps /\ "finish" \notin Started /\ "finish" \notin Early
  BY DEF Steps, Started, Early
<1>4. PICK y : /\ y = [Approved(x, "upload-pack", "", "") EXCEPT !.step = "finish"]
               /\ dl' = [dl EXCEPT ![d] = y]
  BY DEF RefsStored, Approve, Approved
<1>5. Kept(x, y) /\ y.step = "finish"
  BY <1>2, <1>3, <1>4, ApprovedRecord
<1> QED
  BY <1>1, <1>3, <1>4, <1>5, KeptStep

\* The cache directory is made again if need be, and is empty then.
LEMMA MakeCacheStep ==
  ASSUME Inv, NEW d \in Downloads, MakeCache(d)
  PROVE  Inv'
<1> DEFINE x == dl[d]
<1>1. /\ x.step = "mkdir" /\ x.step \in Early /\ x.step \notin Started \cup {"done"}
      /\ UNCHANGED <<permissive, tags, session, known, crashed>>
      /\ cache' = (IF cache = None THEN {} ELSE cache)
  BY DEF MakeCache, At, Early, Started
<1>2. /\ x \in Download /\ dl \in [Downloads -> Download] /\ DownloadInv(dl, x) /\ ~x.checkout
      /\ FetchAsked(x) /\ TypeOK
  BY <1>1, EarlyFacts DEF DownloadInv, OwnInv, Inv
<1>3. "unpack" \in Steps /\ "unpack" \notin Started \cup {"done"} /\ "unpack" \in Early
  BY DEF Steps, Started, Early
<1>4. PICK y : y = Passed(x, "unpack") /\ dl' = [dl EXCEPT ![d] = y]
  BY <1>2 DEF MakeCache, Passed
<1>5. Kept(x, y) /\ y.step = "unpack" /\ y \in Download /\ y.request = x.request /\ y.body = x.body
  BY <1>2, <1>3, <1>4, PassedRecord DEF Kept
<1>6. dl'[d] = y /\ Step(d)
  BY <1>4, <1>5, Replace
<1>7. DownloadInv(dl, y)
  BY <1>1, <1>2, <1>3, <1>5, KeptInv
<1>8. SharedType'
  BY <1>1, <1>2 DEF SharedType, TypeOK
<1>9. TagsInv'
  BY <1>1, <1>6, TagsKept
<1>10. CacheInv'
  <2>1. CASE cache = None
    BY <1>1, <2>1 DEF CacheInv
  <2>2. CASE cache # None
    BY <1>1, <1>6, <2>2, CacheKept
  <2> QED
    BY <2>1, <2>2
<1> QED
  BY <1>6, <1>7, <1>8, <1>9, <1>10, Frame

\* A checkout has the commit that was asked for.
LEMMA UnpackStep ==
  ASSUME Inv, NEW d \in Downloads, UnpackAndCheckout(d)
  PROVE  Inv'
<1> DEFINE x == dl[d]
           good == cache # None /\ Unpacks(Body(d).pkts, getRefFromWants(Msgs(d)))
           step == IF good THEN "module" ELSE "finish"
           rejected == x.rejected \/ ~good
<1>1. /\ x.step = "unpack" /\ x.step \in Early /\ x.step \notin Started \cup {"done"}
      /\ UNCHANGED <<permissive, tags, session, known, crashed>>
      /\ cache' = (IF cache = None THEN None ELSE cache \cup {d})
      /\ dl' = [dl EXCEPT ![d].checkout = good, ![d].rejected = rejected, ![d].step = step]
  BY DEF UnpackAndCheckout, At, Early, Started
<1>2. /\ x \in Download /\ dl \in [Downloads -> Download] /\ DownloadInv(dl, x) /\ ~x.checkout
      /\ x.version = "" /\ x.match = {} /\ x.contentID = "" /\ x.approved \cap Range(Crafts) = {}
      /\ TypeOK /\ CacheInv
  BY <1>1, EarlyFacts DEF Inv
<1>3. /\ FetchAsked(x) /\ x.request \in Requests /\ x.body \in Bodies
      /\ x.claimed = RequestPending(x.request) /\ x.result = "none"
  BY <1>1, <1>2 DEF DownloadInv, OwnInv
<1>4. good \in BOOLEAN /\ step \in {"module", "finish"} /\ (step = "module" <=> good)
  BY DEF Unpacks
<1>5. good => Unpacks(Reply[x.body].pkts, RefOf(x))
  BY DEF Body, Msgs, RefOf, Asked
<1>6. {"module", "finish"} \subseteq Steps \ Early /\ "done" \notin {"module", "finish"}
      /\ {"module", "finish"} \cap Started = {}
  BY DEF Steps, Early, Started
<1> HIDE DEF good, step
<1>6a. rejected \in BOOLEAN
  BY <1>2, <1>4 DEF Download
<1> HIDE DEF rejected
<1>7. PICK y : /\ y = [x EXCEPT !.checkout = good, !.rejected = rejected, !.step = step]
               /\ dl' = [dl EXCEPT ![d] = y]
  BY <1>1, <1>2
<1>8. y \in Download
  <2>1. step \in Steps
    BY <1>4, <1>6
  <2> QED
    BY <1>2, <1>4, <1>7, <1>6a, <2>1 DEF Download
<1>9. /\ y.checkout = good /\ y.step = step /\ y.request = x.request /\ y.body = x.body
      /\ y.claimed = x.claimed /\ y.match = x.match /\ y.version = x.version
      /\ y.contentID = x.contentID /\ y.approved = x.approved /\ y.result = x.result
  BY <1>2, <1>7 DEF Download
<1>10. dl'[d] = y /\ Step(d)
  BY <1>7, <1>8, <1>9, Replace
<1>11. FetchAsked(y) /\ Got(y) = Got(x) /\ RefOf(y) = RefOf(x)
  BY <1>3, <1>9 DEF FetchAsked, Asked, Got, RefOf
<1>12. y.step \notin Started \cup {"done"} /\ y.step \notin Early
  BY <1>4, <1>6, <1>9
<1>13. OwnInv(y)
  BY <1>3, <1>4, <1>9, <1>12 DEF OwnInv
<1>14. CheckoutInv(y)
  BY <1>2, <1>3, <1>4, <1>5, <1>9, <1>11, <1>12 DEF CheckoutInv
<1>15. LearntInv(dl, y)
  BY <1>2, <1>9 DEF LearntInv
<1>16. DownloadInv(dl, y)
  BY <1>13, <1>14, <1>15 DEF DownloadInv
<1>17. SharedType'
  BY <1>1, <1>2 DEF SharedType, TypeOK
<1>18. TagsInv'
  BY <1>1, <1>10, TagsKept
<1>19. CacheInv'
  <2> SUFFICES ASSUME cache # None, NEW e \in cache \cup {d}
               PROVE  /\ dl'[e].step \notin Early
                      /\ session = "finished" /\ dl'[e].step = "done" => dl'[e].result = "refused"
    BY <1>1 DEF CacheInv
  <2>1. CASE e = d
    BY <1>10, <1>12, <2>1
  <2>2. CASE e # d
    <3>1. /\ e \in Downloads /\ dl[e].step \notin Early
          /\ session = "finished" /\ dl[e].step = "done" => dl[e].result = "refused"
      BY <1>2, <2>2 DEF TypeOK, CacheInv
    <3> QED
      BY <1>10, <2>2, <3>1 DEF Step
  <2> QED
    BY <2>1, <2>2
<1> QED
  BY <1>10, <1>16, <1>17, <1>18, <1>19, Frame

\* What is known of an inspection with a checkout
LEMMA CheckoutFacts ==
  ASSUME Inv, NEW d \in Downloads, dl[d].checkout
  PROVE  /\ dl[d].request \in Requests /\ dl[d].body \in Bodies /\ FetchAsked(dl[d])
         /\ Unpacks(Reply[dl[d].body].pkts, RefOf(dl[d]))
         /\ Msgs(d) = Asked(dl[d]) /\ Asked(dl[d]) \in Seq(Lines)
         /\ RefOf(dl[d]) \in Wants(Asked(dl[d])) /\ RefOf(dl[d]) \in Commits
<1> DEFINE x == dl[d]
<1>1. /\ x.request \in Requests /\ x.body \in Bodies /\ FetchAsked(x)
      /\ Unpacks(Reply[x.body].pkts, RefOf(x))
  BY DEF Inv, CheckoutInv
<1>2. Msgs(d) = Asked(x) /\ Asked(x) \in Seq(Lines)
  BY <1>1, RequestMessages DEF Msgs, Asked
<1>3. RefOf(x) \in Wants(Asked(x))
  BY <1>1, RefWanted DEF FetchAsked, RefOf
<1>4. RefOf(x) \in Commits
  BY <1>1, <1>3, WantsCommit DEF Asked
<1> QED
  BY <1>1, <1>2, <1>3, <1>4

\* Tags that are found for a checkout come from a response of its repository.
LEMMA TagsFound ==
  ASSUME Inv, NEW d \in Downloads, dl[d].checkout, NEW t \in TagsOf(d)
  PROVE  t \in Tags /\ TagFrom(dl, dl[d].request.repo, t, RefOf(dl[d]))
<1> DEFINE x == dl[d]
<1>1. x.request \in Requests /\ Msgs(d) = Asked(x) /\ RefOf(x) \in Commits
  BY CheckoutFacts
<1>2. t \in Tags /\ tags[x.request.repo][t] = RefOf(x) /\ x.request.repo \in Repos
  BY <1>1 DEF TagsOf, RefOf, Repos
<1>3. RefOf(x) # None
  BY <1>1, GitAssumption
<1> QED
  BY <1>2, <1>3 DEF Inv, TagsInv

\* go.module.git looks for tags, or has nothing to look at.
LEMMA InspectModuleStep ==
  ASSUME Inv, NEW d \in Downloads, InspectModule(d)
  PROVE  Inv'
<1> DEFINE x == dl[d]
<1>1. /\ x.step = "module" /\ x.step \notin Early /\ UNCHANGED Shared
      /\ x.step \notin Started \cup {"done"}
  BY DEF InspectModule, At, Early, Started
<1>2. x \in Download /\ dl \in [Downloads -> Download] /\ DownloadInv(dl, x)
  BY DEF Inv, TypeOK, DownloadInv
<1>3. x.checkout /\ x.approved \cap Range(Crafts) = {}
  BY <1>1, <1>2 DEF DownloadInv, CheckoutInv
<1>4. /\ "craft" \in Steps /\ "craft" \notin Started \cup {"done"} /\ "craft" \notin Early
      /\ "tags" \in Steps /\ "tags" \notin Started \cup {"done"} /\ "tags" \notin Early
  BY DEF Steps, Started, Early
<1>5. CASE dl' = [dl EXCEPT ![d] = [x EXCEPT !.match = TagsOf(d), !.step = "tags"]]
  <2>1. \A t \in TagsOf(d) : t \in Tags /\ TagFrom(dl, x.request.repo, t, RefOf(x))
    BY <1>3, TagsFound
  <2>2. PICK y : y = [x EXCEPT !.match = TagsOf(d), !.step = "tags"] /\ dl' = [dl EXCEPT ![d] = y]
    BY <1>5
  <2>3. y \in Download
    <3>1. TagsOf(d) \in SUBSET Tags
      BY <2>1
    <3> QED
      BY <1>2, <1>4, <2>2, <3>1 DEF Download
  <2>4. /\ y.match = TagsOf(d) /\ y.step = "tags" /\ y.request = x.request /\ y.body = x.body
        /\ y.claimed = x.claimed /\ y.checkout = x.checkout /\ y.version = x.version
        /\ y.contentID = x.contentID /\ y.approved = x.approved /\ y.result = x.result
    BY <1>2, <2>2 DEF Download
  <2>5. (FetchAsked(y) <=> FetchAsked(x)) /\ RefOf(y) = RefOf(x)
    BY <2>4 DEF FetchAsked, Asked, Got, RefOf
  <2>6. OwnInv(y)
    BY <1>1, <1>2, <1>4, <2>4 DEF DownloadInv, OwnInv
  <2>7. CheckoutInv(y)
    BY <1>2, <1>3, <1>4, <2>4, <2>5 DEF DownloadInv, CheckoutInv
  <2>8. LearntInv(dl, y)
    BY <1>2, <2>1, <2>4, <2>5 DEF DownloadInv, LearntInv
  <2>9. DownloadInv(dl, y)
    BY <2>6, <2>7, <2>8 DEF DownloadInv
  <2> QED
    BY <1>1, <1>4, <2>2, <2>3, <2>4, <2>9, Move
<1>6. CASE dl' = [dl EXCEPT ![d] = [x EXCEPT !.step = "craft"]]
  <2>1. PICK y : y = Passed(x, "craft") /\ dl' = [dl EXCEPT ![d] = y]
    BY <1>6 DEF Passed
  <2>2. Kept(x, y) /\ y.step = "craft"
    BY <1>2, <1>4, <2>1, PassedRecord
  <2> QED
    BY <1>1, <1>3, <1>4, <2>1, <2>2, KeptStep
<1> QED
  BY <1>5, <1>6 DEF InspectModule

\* The version is a tag that was found at the beginning or the end of the search.
LEMMA ApproveModuleStep ==
  ASSUME Inv, NEW d \in Downloads, ApproveModule(d)
  PROVE  Inv'
<1> DEFINE x == dl[d]
<1>1. /\ x.step = "tags" /\ x.step \notin Early /\ UNCHANGED Shared
      /\ x.step \notin Started \cup {"done"}
  BY DEF ApproveModule, At, Early, Started
<1>2. x \in Download /\ dl \in [Downloads -> Download] /\ DownloadInv(dl, x)
  BY DEF Inv, TypeOK, DownloadInv
<1>3. x.checkout /\ x.approved \cap Range(Crafts) = {}
  BY <1>1, <1>2 DEF DownloadInv, CheckoutInv
<1>4. PICK version \in getVersionTag(d) :
        dl' = [dl EXCEPT ![d] = [Approve(d, "gomod", version, "") EXCEPT !.match = {}, !.step = "craft"]]
  BY DEF ApproveModule
<1>5. /\ version \in Tags \cup {""}
      /\ version # "" => TagFrom(dl, x.request.repo, version, RefOf(x))
  <2>1. version \in x.match \/ version \in TagsOf(d) \/ version = ""
    BY <1>4 DEF getVersionTag
  <2>2. CASE version \in x.match
    BY <1>2, <2>2 DEF DownloadInv, LearntInv, Download
  <2>3. CASE version \in TagsOf(d)
    BY <1>3, <2>3, TagsFound
  <2> QED
    BY <2>1, <2>2, <2>3
<1>6. PICK y : /\ y = [[x EXCEPT !.approved = x.approved \cup {"gomod"}, !.version = version,
                                 !.contentID = ""] EXCEPT !.match = {}, !.step = "craft"]
               /\ dl' = [dl EXCEPT ![d] = y]
  BY <1>4 DEF Approve
<1>7. "craft" \in Steps /\ "craft" \notin Started \cup {"done"} /\ "craft" \notin Early
  BY DEF Steps, Started, Early
<1>8. y \in Download
  <2>1. x.approved \cup {"gomod"} \in
          SUBSET ({"smart-query", "upload-pack", "gomod"} \cup Range(Crafts))
    BY <1>2 DEF Download
  <2> QED
    BY <1>2, <1>5, <1>6, <1>7, <2>1 DEF Download
<1>9. /\ y.match = {} /\ y.step = "craft" /\ y.request = x.request /\ y.body = x.body
      /\ y.claimed = x.claimed /\ y.checkout = x.checkout /\ y.version = version
      /\ y.contentID = "" /\ y.approved = x.approved \cup {"gomod"} /\ y.result = x.result
  BY <1>2, <1>6 DEF Download
<1>10. y.approved \cap Range(Crafts) = {}
  BY <1>3, <1>9, CraftNames
<1>11. (FetchAsked(y) <=> FetchAsked(x)) /\ RefOf(y) = RefOf(x)
  BY <1>9 DEF FetchAsked, Asked, Got, RefOf
<1>12. OwnInv(y)
  BY <1>1, <1>2, <1>7, <1>9 DEF DownloadInv, OwnInv
<1>13. CheckoutInv(y)
  BY <1>2, <1>3, <1>7, <1>9, <1>10, <1>11 DEF DownloadInv, CheckoutInv
<1>14. LearntInv(dl, y)
  BY <1>5, <1>9, <1>11 DEF LearntInv
<1>15. DownloadInv(dl, y)
  BY <1>12, <1>13, <1>14 DEF DownloadInv
<1> QED
  BY <1>1, <1>6, <1>7, <1>8, <1>9, <1>15, Move

\* The craft inspectors put the commit on record that was asked for.
LEMMA InspectCraftsStep ==
  ASSUME Inv, NEW d \in Downloads, InspectCrafts(d)
  PROVE  Inv'
<1> DEFINE x == dl[d]
<1>1. /\ x.step = "craft" /\ x.step \notin Early /\ UNCHANGED Shared
      /\ x.step \notin Started \cup {"done"}
  BY DEF InspectCrafts, At, Early, Started
<1>2. x \in Download /\ dl \in [Downloads -> Download] /\ DownloadInv(dl, x)
  BY DEF Inv, TypeOK, DownloadInv
<1>3. /\ x.checkout /\ x.approved \cap Range(Crafts) = {} /\ x.contentID = ""
  BY <1>1, <1>2 DEF DownloadInv, CheckoutInv
<1>4. PICK good \in SUBSET Range(Crafts), rejected \in BOOLEAN :
        dl' = [dl EXCEPT ![d].approved = x.approved \cup good, ![d].rejected = rejected,
                         ![d].version = IF good = {} THEN x.version ELSE "",
                         ![d].contentID = IF good = {} THEN x.contentID
                                          ELSE getSingleFetchedRef(Msgs(d)),
                         ![d].step = "finish"]
  <2> DEFINE found == {c \in Range(Crafts) : Runs(craftOpinion(x.request)) /\ YamlPath(d, c) # None}
             fine == {c \in found : Body(d).tree[YamlPath(d, c)] = "good"}
             rejected == x.rejected \/ fine # found
  <2>1. fine \in SUBSET Range(Crafts)
    OBVIOUS
  <2>2. rejected \in BOOLEAN
    BY <1>2 DEF Download
  <2>3. dl' = [dl EXCEPT ![d].approved = x.approved \cup fine, ![d].rejected = rejected,
                         ![d].version = IF fine = {} THEN x.version ELSE "",
                         ![d].contentID = IF fine = {} THEN x.contentID
                                          ELSE getSingleFetchedRef(Msgs(d)),
                         ![d].step = "finish"]
    BY DEF InspectCrafts
  <2> HIDE DEF fine, rejected
  <2> QED
    BY <2>1, <2>2, <2>3
<1>5. /\ Msgs(d) = Asked(x) /\ Asked(x) \in Seq(Lines) /\ FetchAsked(x) /\ RefOf(x) \in Commits
  BY <1>3, CheckoutFacts
<1>6. getSingleFetchedRef(Msgs(d)) = RefOf(x)
  BY <1>5, OneWant DEF FetchAsked, RefOf
<1> DEFINE version == IF good = {} THEN x.version ELSE ""
           id == IF good = {} THEN x.contentID ELSE RefOf(x)
<1>7. version \in Tags \cup {""} /\ id \in Commits \cup {""} /\ version \in {x.version, ""}
  BY <1>2, <1>5 DEF Download
<1>8. id = IF good # {} THEN RefOf(x) ELSE ""
  BY <1>3
<1>9. dl' = [dl EXCEPT ![d].approved = x.approved \cup good, ![d].rejected = rejected,
                       ![d].version = version, ![d].contentID = id, ![d].step = "finish"]
  BY <1>4, <1>6
<1> HIDE DEF version, id
<1>10. PICK y : /\ y = [x EXCEPT !.approved = x.approved \cup good, !.rejected = rejected,
                                 !.version = version, !.contentID = id, !.step = "finish"]
                /\ dl' = [dl EXCEPT ![d] = y]
  BY <1>2, <1>9
<1>11. "finish" \in Steps /\ "finish" \notin Started \cup {"done"} /\ "finish" \notin Early
  BY DEF Steps, Started, Early
<1>12. y \in Download
  <2>1. x.approved \cup good \in SUBSET ({"smart-query", "upload-pack", "gomod"} \cup Range(Crafts))
    BY <1>2 DEF Download
  <2> QED
    BY <1>2, <1>7, <1>10, <1>11, <2>1 DEF Download
<1>13. /\ y.match = x.match /\ y.step = "finish" /\ y.request = x.request /\ y.body = x.body
       /\ y.claimed = x.claimed /\ y.checkout = x.checkout /\ y.version = version
       /\ y.contentID = id /\ y.approved = x.approved \cup good /\ y.result = x.result
  BY <1>2, <1>10 DEF Download
<1>14. y.approved \cap Range(Crafts) = good
  BY <1>3, <1>13
<1>15. (FetchAsked(y) <=> FetchAsked(x)) /\ RefOf(y) = RefOf(x)
  BY <1>13 DEF FetchAsked, Asked, Got, RefOf
<1>16. OwnInv(y)
  BY <1>1, <1>2, <1>11, <1>13 DEF DownloadInv, OwnInv
<1>17. CheckoutInv(y)
  BY <1>2, <1>3, <1>8, <1>11, <1>13, <1>14, <1>15 DEF DownloadInv, CheckoutInv
<1>18. LearntInv(dl, y)
  BY <1>2, <1>7, <1>13, <1>15 DEF DownloadInv, LearntInv
<1>19. DownloadInv(dl, y)
  BY <1>16, <1>17, <1>18 DEF DownloadInv
<1> QED
  BY <1>1, <1>10, <1>11, <1>12, <1>13, <1>19, Move

\* An inspection that Finish overtook is refused; the others get their verdict.
LEMMA CompleteInspectionStep ==
  ASSUME Inv, NEW d \in Downloads, CompleteInspection(d)
  PROVE  Inv'
<1> DEFINE x == dl[d]
           result == IF session = "finished" THEN "refused" ELSE verdict(x)
<1>1. /\ x.step = "finish" /\ x.step \notin Early /\ x.step \notin Started \cup {"done"}
      /\ UNCHANGED <<permissive, tags, cache, session, crashed>>
  BY DEF CompleteInspection, At, Early, Started
<1>2. /\ x \in Download /\ dl \in [Downloads -> Download] /\ DownloadInv(dl, x)
      /\ TypeOK /\ CacheInv
  BY DEF Inv, TypeOK, DownloadInv
<1>3. /\ verdict(x) \in {"Approved", "Rejected"} /\ (verdict(x) = "Approved" => x.claimed)
  BY DEF verdict
<1>4. /\ result \in {"refused", "Approved", "Rejected"} /\ (result = "Approved" => x.claimed)
      /\ session = "finished" => result = "refused"
  BY <1>3
<1>5. dl' = [dl EXCEPT ![d].step = "done", ![d].result = result]
  BY DEF CompleteInspection
<1> HIDE DEF result
<1>6. PICK y : y = [x EXCEPT !.step = "done", !.result = result] /\ dl' = [dl EXCEPT ![d] = y]
  BY <1>2, <1>5
<1>7. "done" \in Steps /\ "done" \notin Started /\ "done" \notin Early
  BY DEF Steps, Started, Early
<1>8. y \in Download
  BY <1>2, <1>4, <1>6, <1>7 DEF Download
<1>9. /\ y.match = x.match /\ y.step = "done" /\ y.request = x.request /\ y.body = x.body
      /\ y.claimed = x.claimed /\ y.checkout = x.checkout /\ y.version = x.version
      /\ y.contentID = x.contentID /\ y.approved = x.approved /\ y.result = result
  BY <1>2, <1>6 DEF Download
<1>10. dl'[d] = y /\ Step(d)
  BY <1>6, <1>8, <1>9, Replace
<1>11. (FetchAsked(y) <=> FetchAsked(x)) /\ RefOf(y) = RefOf(x)
  BY <1>9 DEF FetchAsked, Asked, Got, RefOf
<1>12. OwnInv(y)
  BY <1>1, <1>2, <1>7, <1>9 DEF DownloadInv, OwnInv
<1>13. CheckoutInv(y)
  BY <1>2, <1>4, <1>7, <1>9, <1>11 DEF DownloadInv, CheckoutInv
<1>14. LearntInv(dl, y)
  BY <1>2, <1>9, <1>11 DEF DownloadInv, LearntInv
<1>15. DownloadInv(dl, y)
  BY <1>12, <1>13, <1>14 DEF DownloadInv
<1>16. SharedType'
  <2>1. x.body \in Bodies
    BY <1>1, <1>2 DEF DownloadInv, OwnInv
  <2>2. known' \in [Bodies -> {"none", "Approved", "Rejected"}]
    BY <1>2, <1>3, <2>1 DEF CompleteInspection, TypeOK
  <2> QED
    BY <1>1, <1>2, <2>2 DEF SharedType, TypeOK
<1>17. TagsInv'
  BY <1>1, <1>10, TagsKept
<1>18. CacheInv'
  <2> SUFFICES ASSUME cache # None, NEW e \in cache
               PROVE  /\ dl'[e].step \notin Early
                      /\ session = "finished" /\ dl'[e].step = "done" => dl'[e].result = "refused"
    BY <1>1 DEF CacheInv
  <2>1. CASE e = d
    BY <1>4, <1>7, <1>9, <1>10, <2>1
  <2>2. CASE e # d
    <3>1. /\ e \in Downloads /\ dl[e].step \notin Early
          /\ session = "finished" /\ dl[e].step = "done" => dl[e].result = "refused"
      BY <1>2, <2>2 DEF TypeOK, CacheInv
    <3> QED
      BY <1>10, <2>2, <3>1 DEF Step
  <2> QED
    BY <2>1, <2>2
<1> QED
  BY <1>10, <1>15, <1>16, <1>17, <1>18, Frame

\* Finish leaves no checkout behind.
LEMMA SessionStep ==
  ASSUME Inv, SaveMetadata \/ Finish \/ FinishFails
  PROVE  Inv'
<1>1. UNCHANGED <<permissive, tags, known, crashed, dl>>
  BY DEF SaveMetadata, Finish, FinishFails
<1>2. /\ session' \in {"active", "saving", "finished"} /\ cache' \in {cache, None, {}}
      /\ session' = "finished" => cache' = None
  BY DEF SaveMetadata, Finish, FinishFails
<1>3. TypeOK'
  BY <1>1, <1>2 DEF Inv, TypeOK
<1>4. \A d \in Downloads : OwnInv(dl'[d]) /\ CheckoutInv(dl'[d]) /\ LearntInv(dl', dl'[d])
  BY <1>1 DEF Inv
<1>5. TagsInv'
  BY <1>1 DEF Inv, TagsInv
<1>6. CacheInv'
  BY <1>1, <1>2 DEF Inv, CacheInv
<1> QED
  BY <1>3, <1>4, <1>5, <1>6 DEF Inv

-----------------------------------------------------------------------------
(* The theorems                                                            *)

LEMMA InitInv == Init => Inv
<1> SUFFICES ASSUME Init
             PROVE  Inv
  OBVIOUS
<1>1. Fresh \in Download
  BY DEF Fresh, Download, Steps
<1>2. TypeOK
  BY <1>1 DEF Init, TypeOK
<1>3. OwnInv(Fresh)
  BY DEF Fresh, OwnInv, Started
<1>4. CheckoutInv(Fresh)
  BY DEF Fresh, CheckoutInv
<1>5. \A D : LearntInv(D, Fresh)
  BY DEF Fresh, LearntInv
<1>6. \A d \in Downloads : dl[d] = Fresh
  BY DEF Init
<1>7. TagsInv
  BY DEF Init, TagsInv
<1>8. CacheInv
  BY DEF Init, CacheInv
<1> QED
  BY <1>2, <1>3, <1>4, <1>5, <1>6, <1>7, <1>8 DEF Inv

LEMMA InvStep ==
  ASSUME Inv, [Next]_vars
  PROVE  Inv'
<1>1. ASSUME NEW d \in Downloads, InspectRequest(d) \/ Respond(d) \/ Inspect(d) PROVE Inv'
  <2>1. CASE InspectRequest(d) \/ Respond(d)
    BY <2>1, InspectRequestStep, RespondStep
  <2>2. CASE Inspect(d)
    BY <2>2, InspectQueryStep, InspectPackStep, StoreRefStep, RefsStoredStep, MakeCacheStep,
       UnpackStep, InspectModuleStep, ApproveModuleStep, InspectCraftsStep,
       CompleteInspectionStep
    DEF Inspect
  <2> QED
    BY <1>1, <2>1, <2>2
<1>2. CASE SaveMetadata \/ Finish \/ FinishFails
  BY <1>2, SessionStep
<1>3. CASE UNCHANGED vars
  <2>1. UNCHANGED <<permissive, tags, cache, session, known, crashed, dl>>
    BY <1>3 DEF vars
  <2>2. \A d \in Downloads : OwnInv(dl'[d]) /\ CheckoutInv(dl'[d]) /\ LearntInv(dl', dl'[d])
    BY <2>1 DEF Inv
  <2> QED
    BY <2>1, <2>2 DEF Inv, TypeOK, TagsInv, CacheInv
<1> QED
  BY <1>1, <1>2, <1>3 DEF Next

\* The inductive invariant holds in every state.
THEOREM Invariance == Spec => []Inv
<1>1. Init => Inv
  BY InitInv
<1>2. Inv /\ [Next]_vars => Inv'
  BY InvStep
<1> QED
  BY <1>1, <1>2, PTL DEF Spec

\* Type correctness, for any requests, responses and number of downloads.
THEOREM TypeCorrect == Spec => []TypeOK
<1>1. Inv => TypeOK
  BY DEF Inv
<1> QED
  BY <1>1, Invariance, PTL

-----------------------------------------------------------------------------
(* Where verdicts come from                                                *)

\* An inspection that approved without a checkout
Listed(x) ==
  \/ x.approved = {"smart-query"} /\ Reply[x.body].type = "advertisement"
  \/ x.approved = {"upload-pack"} /\ Command(Asked(x)) = "ls-refs"

OriginInv(x) ==
  /\ x.step \in Early => x.approved = {}
  /\ x.step = "query" => Reply[x.body].type = "advertisement"
  /\ x.step = "refs" => Command(Asked(x)) = "ls-refs"
  /\ x.approved # {} => x.checkout \/ Listed(x)

\* In downloads D, an inspection of b approved it.
Vouched(D, b) ==
  \E e \in Downloads :
    D[e].body = b /\ D[e].step = "done" /\ D[e].result = "Approved" /\ D[e].approved # {}

VerdictInv ==
  /\ \A d \in Downloads : OriginInv(dl[d])
  /\ \A b \in Bodies : known[b] = "Approved" => Vouched(dl, b)
  /\ \A d \in Downloads : dl[d].result = "Approved" => Vouched(dl, dl[d].body)

\* Inspections that are over stay as they are, so a step of another download has
\* only to account for its own approval and for what it puts on record.
LEMMA VerdictFrame ==
  ASSUME VerdictInv, NEW d \in Downloads, dl[d].step # "done",
         \A e \in Downloads : e # d => dl'[e] = dl[e],
         OriginInv(dl'[d]),
         dl'[d].result = "Approved" => Vouched(dl', dl'[d].body) \/ Vouched(dl, dl'[d].body),
         \A b \in Bodies : known'[b] = "Approved" => known[b] = "Approved" \/ Vouched(dl', b)
  PROVE  VerdictInv'
<1>1. ASSUME NEW b, Vouched(dl, b) PROVE Vouched(dl', b)
  <2>1. PICK e \in Downloads : /\ dl[e].body = b /\ dl[e].step = "done"
                               /\ dl[e].result = "Approved" /\ dl[e].approved # {}
    BY <1>1 DEF Vouched
  <2> QED
    BY <2>1 DEF Vouched
<1>2. \A e \in Downloads : OriginInv(dl'[e])
  <2> TAKE e \in Downloads
  <2>1. CASE e = d
    BY <2>1
  <2>2. CASE e # d
    BY <2>2 DEF VerdictInv
  <2> QED
    BY <2>1, <2>2
<1>3. \A b \in Bodies : known'[b] = "Approved" => Vouched(dl', b)
  BY <1>1 DEF VerdictInv
<1>4. \A e \in Downloads : dl'[e].result = "Approved" => Vouched(dl', dl'[e].body)
  <2> TAKE e \in Downloads
  <2>1. CASE e = d
    BY <1>1, <2>1
  <2>2. CASE e # d
    BY <1>1, <2>2 DEF VerdictInv
  <2> QED
    BY <2>1, <2>2
<1> QED
  BY <1>2, <1>3, <1>4 DEF VerdictInv

\* A step that approves nothing and puts nothing on record
LEMMA VerdictKept ==
  ASSUME Inv, VerdictInv, NEW d \in Downloads, NEW y, dl' = [dl EXCEPT ![d] = y],
         dl[d].step # "done", UNCHANGED known, y.result \in {dl[d].result, "refused"},
         OriginInv(y)
  PROVE  VerdictInv'
<1>1. dl'[d] = y /\ \A e \in Downloads : e # d => dl'[e] = dl[e]
  BY DEF Inv, TypeOK
<1>2. dl[d].result # "Approved"
  BY DEF Inv, OwnInv
<1> QED
  BY <1>1, <1>2, VerdictFrame

\* Before the checkout nothing is approved but lists.
LEMMA VerdictRequest ==
  ASSUME Inv, VerdictInv, NEW d \in Downloads, InspectRequest(d)
  PROVE  VerdictInv'
<1> DEFINE x == dl[d]
<1>1. PICK r \in Requests, step \in {"upstream", "done"}, result \in {"none", "refused"} :
        dl' = [dl EXCEPT ![d].request = r, ![d].claimed = RequestPending(r),
                         ![d].step = step, ![d].result = result]
  BY DEF InspectRequest
<1>2. x.step = "idle" /\ x.step \in Early /\ UNCHANGED known
  BY DEF InspectRequest, At, Early, Started, Shared
<1>3. x \in Download /\ dl \in [Downloads -> Download] /\ x.approved = {} /\ x.result = "none"
  BY <1>2 DEF Inv, TypeOK, VerdictInv, OriginInv, OwnInv
<1>4. PICK y : /\ y = [x EXCEPT !.request = r, !.claimed = RequestPending(r),
                                !.step = step, !.result = result]
               /\ dl' = [dl EXCEPT ![d] = y]
  BY <1>1, <1>3
<1>5. y.step = step /\ y.result = result /\ y.approved = {}
  BY <1>3, <1>4 DEF Download
<1>6. OriginInv(y)
  BY <1>5 DEF OriginInv
<1> QED
  BY <1>2, <1>3, <1>4, <1>5, <1>6, VerdictKept

\* A verdict that is used again was given by an inspection.
LEMMA VerdictRespond ==
  ASSUME Inv, VerdictInv, NEW d \in Downloads, Respond(d)
  PROVE  VerdictInv'
<1> DEFINE x == dl[d]
<1>1. PICK b \in Serves[x.request] :
        dl' = [dl EXCEPT ![d] =
                IF session = "finished" THEN [x EXCEPT !.step = "done", !.result = "refused"]
                ELSE IF known[b] # "none"
                  THEN [x EXCEPT !.body = b, !.step = "done", !.result = known[b]]
                  ELSE [x EXCEPT !.body = b,
                          !.step = IF Reply[b].type = "advertisement" THEN "query" ELSE "pack"]]
  BY DEF Respond
<1>2. x.step = "upstream" /\ x.step \in Early /\ UNCHANGED known
  BY DEF Respond, At, Early, Started, Shared
<1>3. /\ x \in Download /\ dl \in [Downloads -> Download] /\ x.approved = {}
      /\ x.request \in Requests /\ x.result = "none"
  BY <1>2 DEF Inv, TypeOK, VerdictInv, OriginInv, OwnInv
<1>4. b \in Bodies
  BY <1>1, <1>3, GitAssumption
<1>5. CASE session = "finished"
  <2>1. PICK y : y = [x EXCEPT !.step = "done", !.result = "refused"] /\ dl' = [dl EXCEPT ![d] = y]
    BY <1>1, <1>5
  <2>2. y.step = "done" /\ y.result = "refused" /\ y.approved = {}
    BY <1>3, <2>1 DEF Download
  <2>3. OriginInv(y)
    BY <2>2 DEF OriginInv, Early, Started
  <2> QED
    BY <1>2, <2>1, <2>2, <2>3, VerdictKept
<1>6. CASE session # "finished" /\ known[b] # "none"
  <2>1. PICK y : /\ y = [x EXCEPT !.body = b, !.step = "done", !.result = known[b]]
                 /\ dl' = [dl EXCEPT ![d] = y]
    BY <1>1, <1>6
  <2>2. y.step = "done" /\ y.result = known[b] /\ y.approved = {} /\ y.body = b
    BY <1>3, <2>1 DEF Download
  <2>3. OriginInv(y)
    BY <2>2 DEF OriginInv, Early, Started
  <2>4. dl'[d] = y /\ \A e \in Downloads : e # d => dl'[e] = dl[e]
    BY <1>3, <2>1
  <2>5. dl'[d].result = "Approved" => Vouched(dl, dl'[d].body)
    BY <1>4, <2>2, <2>4 DEF VerdictInv
  <2> QED
    BY <1>2, <2>3, <2>4, <2>5, VerdictFrame
<1>7. CASE session # "finished" /\ known[b] = "none"
  <2> DEFINE step == IF Reply[b].type = "advertisement" THEN "query" ELSE "pack"
             y == [x EXCEPT !.body = b, !.step = step]
  <2>1. dl' = [dl EXCEPT ![d] = y]
    BY <1>1, <1>7
  <2>2. y.step = step /\ y.result = x.result /\ y.approved = {} /\ y.body = b
    BY <1>3 DEF Download
  <2> HIDE DEF y
  <2>3. OriginInv(y)
    BY <2>2 DEF OriginInv
  <2> QED
    BY <1>2, <2>1, <2>2, <2>3, VerdictKept
<1> QED
  BY <1>5, <1>6, <1>7

\* What the steps of an inspection do to the record of approvals
LEMMA VerdictInspect ==
  ASSUME Inv, VerdictInv, NEW d \in Downloads, Inspect(d), ~CompleteInspection(d)
  PROVE  VerdictInv'
<1> DEFINE x == dl[d]
<1>1. /\ x \in Download /\ dl \in [Downloads -> Download] /\ OriginInv(x) /\ CheckoutInv(x)
  BY DEF Inv, TypeOK, VerdictInv
<1>2. ASSUME NEW y, dl' = [dl EXCEPT ![d] = y], UNCHANGED known, x.step # "done",
             y.result = x.result, y.approved = x.approved, y.request = x.request,
             y.body = x.body, y.checkout = x.checkout, y.step # "query",
             y.step \in Early => x.step \in Early,
             y.step = "refs" => Command(Asked(x)) = "ls-refs"
      PROVE  VerdictInv'
  <2>1. OriginInv(y)
    BY <1>1, <1>2 DEF OriginInv, Listed, Asked
  <2> QED
    BY <1>2, <2>1, VerdictKept
<1>3. "finish" \notin Early /\ "module" \notin Early /\ "tags" \notin Early /\ "craft" \notin Early
  BY DEF Early, Started
<1>4. CASE InspectQuery(d)
  <2>1. x.step = "query" /\ x.step \in Early /\ UNCHANGED known
    BY <1>4 DEF InspectQuery, At, Early, Started, Shared
  <2>2. \/ dl' = [dl EXCEPT ![d] = Passed(x, "finish")]
        \/ dl' = [dl EXCEPT ![d] = [Approved(x, "smart-query", "", "") EXCEPT !.step = "finish"]]
        \/ dl' = [dl EXCEPT ![d] = Rejected(x, "finish")]
    BY <1>4 DEF InspectQuery, Passed, Rejected, Reject, Approve, Approved
  <2>3. CASE dl' = [dl EXCEPT ![d] = Passed(x, "finish")]
    <3>1. PICK y : y = Passed(x, "finish") /\ dl' = [dl EXCEPT ![d] = y]
      BY <2>3
    <3>2. /\ y.step = "finish" /\ y.result = x.result /\ y.approved = x.approved
          /\ y.request = x.request /\ y.body = x.body /\ y.checkout = x.checkout
      BY <1>1, <3>1 DEF Passed, Download
    <3> QED
      BY <1>2, <1>3, <2>1, <3>1, <3>2
  <2>4. CASE dl' = [dl EXCEPT ![d] = Rejected(x, "finish")]
    <3>1. PICK y : y = Rejected(x, "finish") /\ dl' = [dl EXCEPT ![d] = y]
      BY <2>4
    <3>2. /\ y.step = "finish" /\ y.result = x.result /\ y.approved = x.approved
          /\ y.request = x.request /\ y.body = x.body /\ y.checkout = x.checkout
      BY <1>1, <3>1 DEF Rejected, Download
    <3> QED
      BY <1>2, <1>3, <2>1, <3>1, <3>2
  <2>5. CASE dl' = [dl EXCEPT ![d] = [Approved(x, "smart-query", "", "") EXCEPT !.step = "finish"]]
    <3>1. PICK y : /\ y = [Approved(x, "smart-query", "", "") EXCEPT !.step = "finish"]
                   /\ dl' = [dl EXCEPT ![d] = y]
      BY <2>5
    <3>2. /\ y.step = "finish" /\ y.result = x.result /\ y.body = x.body
          /\ y.approved = x.approved \cup {"smart-query"}
      BY <1>1, <3>1 DEF Approved, Download
    <3>3. y.approved = {"smart-query"} /\ Reply[y.body].type = "advertisement"
      BY <1>1, <2>1, <3>2 DEF OriginInv
    <3>4. OriginInv(y)
      BY <1>3, <3>2, <3>3 DEF OriginInv, Listed
    <3> QED
      BY <2>1, <3>1, <3>2, <3>4, VerdictKept
  <2> QED
    BY <2>2, <2>3, <2>4, <2>5
<1>5. CASE InspectPack(d)
  <2>1. x.step = "pack" /\ x.step \in Early /\ UNCHANGED known
    BY <1>5 DEF InspectPack, At, Early, Started, Shared
  <2>2. PICK y :
          /\ dl' = [dl EXCEPT ![d] = y] /\ y.step \in {"finish", "refs", "mkdir"}
          /\ y.result = x.result /\ y.approved = x.approved
          /\ y.request = x.request /\ y.body = x.body /\ y.checkout = x.checkout
          /\ y.step = "refs" => Command(Asked(x)) = "ls-refs"
    <3> DEFINE Fits(y) ==
          /\ y.step \in {"finish", "refs", "mkdir"} /\ y.result = x.result
          /\ y.approved = x.approved /\ y.request = x.request /\ y.body = x.body
          /\ y.checkout = x.checkout
          /\ y.step = "refs" => Command(Asked(x)) = "ls-refs"
    <3>1. Fits([x EXCEPT !.step = "finish"]) /\ Fits([x EXCEPT !.step = "mkdir"])
      BY <1>1 DEF Download
    <3>2. Fits([Reject(d) EXCEPT !.step = "finish"])
      BY <1>1 DEF Download, Reject
    <3>3. Command(Msgs(d)) = "ls-refs" => Fits(inspectLsRefsResponse(d))
      <4>1. ASSUME NEW refs, Command(Asked(x)) = "ls-refs"
            PROVE  Fits([x EXCEPT !.todo = refs, !.step = "refs"])
        BY <1>1, <4>1 DEF Download
      <4> HIDE DEF Fits
      <4> QED
        BY <3>1, <3>2, <4>1 DEF inspectLsRefsResponse, Msgs, Asked
    <3>4. Fits(inspectFetchResponse(d))
      <4> HIDE DEF Fits
      <4> QED
        BY <3>1, <3>2 DEF inspectFetchResponse
    <3>5. Fits(inspectResponseCommand(d))
      <4> HIDE DEF Fits
      <4>1. CASE Command(Msgs(d)) = "ls-refs"
        BY <3>3, <4>1 DEF inspectResponseCommand
      <4>2. CASE Command(Msgs(d)) = "fetch"
        <5>1. inspectResponseCommand(d) = inspectFetchResponse(d)
          BY <4>2, Zenon DEF inspectResponseCommand
        <5> QED
          BY <3>4, <5>1
      <4>3. CASE Command(Msgs(d)) # "ls-refs" /\ Command(Msgs(d)) # "fetch"
        <5>1. inspectResponseCommand(d) = [Reject(d) EXCEPT !.step = "finish"]
          BY <4>3, Zenon DEF inspectResponseCommand
        <5> QED
          BY <3>2, <5>1
      <4> QED
        BY <4>1, <4>2, <4>3
    <3> DEFINE y == IF ~IsResult(d) THEN [x EXCEPT !.step = "finish"]
                    ELSE IF ~HasNotes(d) THEN [Reject(d) EXCEPT !.step = "finish"]
                    ELSE inspectResponseCommand(d)
    <3>6. dl' = [dl EXCEPT ![d] = y]
      BY <1>5 DEF InspectPack
    <3>7. Fits(y)
      <4> HIDE DEF Fits
      <4> QED
        BY <3>1, <3>2, <3>5
    <3> HIDE DEF y
    <3> QED
      BY <3>6, <3>7
  <2> QED
    BY <1>2, <2>1, <2>2
<1>6. CASE StoreRef(d)
  <2>1. x.step = "refs" /\ x.step \in Early /\ UNCHANGED known
    BY <1>6 DEF StoreRef, At, Early, Started
  <2>2. PICK todo : dl' = [dl EXCEPT ![d].todo = todo]
    BY <1>6 DEF StoreRef
  <2>3. PICK y : y = [x EXCEPT !.todo = todo] /\ dl' = [dl EXCEPT ![d] = y]
    BY <1>1, <2>2
  <2>4. /\ y.step = x.step /\ y.result = x.result /\ y.approved = x.approved
        /\ y.request = x.request /\ y.body = x.body /\ y.checkout = x.checkout
    BY <1>1, <2>3 DEF Download
  <2> QED
    BY <1>1, <1>2, <2>1, <2>3, <2>4 DEF OriginInv
<1>7. CASE RefsStored(d)
  <2>1. x.step = "refs" /\ x.step \in Early /\ UNCHANGED known
    BY <1>7 DEF RefsStored, At, Early, Started, Shared
  <2>2. PICK y : /\ y = [Approved(x, "upload-pack", "", "") EXCEPT !.step = "finish"]
                 /\ dl' = [dl EXCEPT ![d] = y]
    BY <1>7 DEF RefsStored, Approve, Approved
  <2>3. /\ y.step = "finish" /\ y.result = x.result /\ y.request = x.request
        /\ y.approved = x.approved \cup {"upload-pack"}
    BY <1>1, <2>2 DEF Approved, Download
  <2>4. y.approved = {"upload-pack"} /\ Command(Asked(y)) = "ls-refs"
    BY <1>1, <2>1, <2>3 DEF OriginInv, Asked
  <2>5. OriginInv(y)
    BY <1>3, <2>3, <2>4 DEF OriginInv, Listed
  <2> QED
    BY <2>1, <2>2, <2>3, <2>5, VerdictKept
<1>8. CASE MakeCache(d)
  <2>1. /\ x.step = "mkdir" /\ x.step \in Early /\ UNCHANGED known
        /\ dl' = [dl EXCEPT ![d].step = "unpack"]
    BY <1>8 DEF MakeCache, At, Early, Started
  <2>2. PICK y : y = [x EXCEPT !.step = "unpack"] /\ dl' = [dl EXCEPT ![d] = y]
    BY <1>1, <2>1
  <2>3. /\ y.step = "unpack" /\ y.result = x.result /\ y.approved = x.approved
        /\ y.request = x.request /\ y.body = x.body /\ y.checkout = x.checkout
    BY <1>1, <2>2 DEF Download
  <2> QED
    BY <1>2, <2>1, <2>2, <2>3
<1>9. CASE UnpackAndCheckout(d)
  <2>1. x.step = "unpack" /\ x.step \in Early /\ UNCHANGED known
    BY <1>9 DEF UnpackAndCheckout, At, Early, Started
  <2> DEFINE good == cache # None /\ Unpacks(Body(d).pkts, getRefFromWants(Msgs(d)))
             rejected == x.rejected \/ ~good
             step == IF good THEN "module" ELSE "finish"
  <2>2. dl' = [dl EXCEPT ![d].checkout = good, ![d].rejected = rejected, ![d].step = step]
    BY <1>9 DEF UnpackAndCheckout
  <2> HIDE DEF good, rejected
  <2>3. PICK y : /\ y = [x EXCEPT !.checkout = good, !.rejected = rejected, !.step = step]
                 /\ dl' = [dl EXCEPT ![d] = y]
    BY <1>1, <2>2
  <2>4. y.step = step /\ y.result = x.result /\ y.approved = {}
    BY <1>1, <2>1, <2>3 DEF Download, OriginInv
  <2>5. OriginInv(y)
    BY <1>3, <2>4 DEF OriginInv
  <2> QED
    BY <2>1, <2>3, <2>4, <2>5, VerdictKept
<1>10. CASE InspectModule(d) \/ ApproveModule(d) \/ InspectCrafts(d)
  <2>1. x.step \in {"module", "tags", "craft"} /\ x.checkout /\ UNCHANGED known
    BY <1>1, <1>10 DEF InspectModule, ApproveModule, InspectCrafts, At, CheckoutInv, Shared
  <2>2. PICK y : /\ dl' = [dl EXCEPT ![d] = y] /\ y.checkout = x.checkout /\ y.result = x.result
                 /\ y.step \in {"tags", "craft", "finish"}
    <3>1. CASE InspectModule(d)
      <4>1. \/ dl' = [dl EXCEPT ![d] = [x EXCEPT !.match = TagsOf(d), !.step = "tags"]]
            \/ dl' = [dl EXCEPT ![d] = [x EXCEPT !.step = "craft"]]
        BY <3>1 DEF InspectModule
      <4>2. ASSUME NEW y, \/ y = [x EXCEPT !.match = TagsOf(d), !.step = "tags"]
                          \/ y = [x EXCEPT !.step = "craft"]
            PROVE  y.checkout = x.checkout /\ y.result = x.result /\ y.step \in {"tags", "craft"}
        BY <1>1, <4>2 DEF Download
      <4> QED
        BY <4>1, <4>2
    <3>2. CASE ApproveModule(d)
      <4>1. PICK version :
              dl' = [dl EXCEPT ![d] =
                       [Approve(d, "gomod", version, "") EXCEPT !.match = {}, !.step = "craft"]]
        BY <3>2 DEF ApproveModule
      <4>2. PICK y : /\ y = [Approve(d, "gomod", version, "") EXCEPT !.match = {}, !.step = "craft"]
                     /\ dl' = [dl EXCEPT ![d] = y]
        BY <4>1
      <4>3. y.checkout = x.checkout /\ y.result = x.result /\ y.step = "craft"
        BY <1>1, <4>2 DEF Download, Approve
      <4> QED
        BY <4>2, <4>3
    <3>3. CASE InspectCrafts(d)
      <4>1. PICK approved, rejected, version, id :
              dl' = [dl EXCEPT ![d].approved = approved, ![d].rejected = rejected,
                               ![d].version = version, ![d].contentID = id, ![d].step = "finish"]
        BY <3>3 DEF InspectCrafts
      <4>2. PICK y : /\ y = [x EXCEPT !.approved = approved, !.rejected = rejected,
                                      !.version = version, !.contentID = id, !.step = "finish"]
                     /\ dl' = [dl EXCEPT ![d] = y]
        BY <1>1, <4>1
      <4>3. y.checkout = x.checkout /\ y.result = x.result /\ y.step = "finish"
        BY <1>1, <4>2 DEF Download
      <4> QED
        BY <4>2, <4>3
    <3> QED
      BY <1>10, <3>1, <3>2, <3>3
  <2>3. OriginInv(y)
    BY <1>3, <2>1, <2>2 DEF OriginInv
  <2> QED
    BY <2>1, <2>2, <2>3, VerdictKept
<1> QED
  BY <1>4, <1>5, <1>6, <1>7, <1>8, <1>9, <1>10 DEF Inspect

\* What goes on record as approved was approved by the inspection that ends.
LEMMA VerdictComplete ==
  ASSUME Inv, VerdictInv, NEW d \in Downloads, CompleteInspection(d)
  PROVE  VerdictInv'
<1> DEFINE x == dl[d]
           result == IF session = "finished" THEN "refused" ELSE verdict(x)
<1>1. x.step = "finish" /\ dl' = [dl EXCEPT ![d].step = "done", ![d].result = result]
  BY DEF CompleteInspection, At
<1>2. x \in Download /\ dl \in [Downloads -> Download] /\ OriginInv(x) /\ x.body \in Bodies
  BY <1>1 DEF Inv, TypeOK, VerdictInv, OwnInv, Started
<1>3. result = "Approved" => x.approved # {}
  BY DEF verdict
<1>4. /\ known' = IF session # "finished" /\ known[x.body] = "none"
                    THEN [known EXCEPT ![x.body] = verdict(x)] ELSE known
      /\ session # "finished" => result = verdict(x)
  BY DEF CompleteInspection
<1> HIDE DEF result
<1>5. PICK y : y = [x EXCEPT !.step = "done", !.result = result] /\ dl' = [dl EXCEPT ![d] = y]
  BY <1>1, <1>2
<1>6. /\ y.step = "done" /\ y.result = result /\ y.approved = x.approved
      /\ y.request = x.request /\ y.body = x.body /\ y.checkout = x.checkout
  BY <1>2, <1>5 DEF Download
<1>7. dl'[d] = y /\ \A e \in Downloads : e # d => dl'[e] = dl[e]
  BY <1>2, <1>5
<1>8. OriginInv(y)
  BY <1>1, <1>2, <1>6 DEF OriginInv, Listed, Asked, Early, Started
<1>9. result = "Approved" => Vouched(dl', x.body)
  BY <1>3, <1>6, <1>7 DEF Vouched
<1>10. \A b \in Bodies : known'[b] = "Approved" => known[b] = "Approved" \/ Vouched(dl', b)
  BY <1>2, <1>4, <1>9 DEF Inv, TypeOK
<1> QED
  BY <1>1, <1>6, <1>7, <1>8, <1>9, <1>10, VerdictFrame

\* Every approval goes back to an inspection.
THEOREM VerdictInvariance == Spec => []VerdictInv
<1>1. Init => VerdictInv
  <2> SUFFICES ASSUME Init
               PROVE  VerdictInv
    OBVIOUS
  <2>1. OriginInv(Fresh) /\ Fresh.result # "Approved"
    BY DEF OriginInv, Fresh
  <2>2. \A d \in Downloads : dl[d] = Fresh
    BY DEF Init
  <2>3. \A b \in Bodies : known[b] # "Approved"
    BY DEF Init
  <2> QED
    BY <2>1, <2>2, <2>3 DEF VerdictInv
<1>2. Inv /\ VerdictInv /\ [Next]_vars => VerdictInv'
  <2> SUFFICES ASSUME Inv, VerdictInv, [Next]_vars
               PROVE  VerdictInv'
    OBVIOUS
  <2>1. ASSUME NEW d \in Downloads, InspectRequest(d) \/ Respond(d) \/ Inspect(d)
        PROVE  VerdictInv'
    BY <2>1, VerdictRequest, VerdictRespond, VerdictInspect, VerdictComplete
  <2>2. CASE SaveMetadata \/ Finish \/ FinishFails
    <3>1. UNCHANGED <<known, dl>>
      BY <2>2 DEF SaveMetadata, Finish, FinishFails
    <3> QED
      BY <3>1 DEF VerdictInv
  <2>3. CASE UNCHANGED vars
    <3>1. UNCHANGED <<known, dl>>
      BY <2>3 DEF vars
    <3> QED
      BY <3>1 DEF VerdictInv
  <2> QED
    BY <2>1, <2>2, <2>3 DEF Next
<1> QED
  BY <1>1, <1>2, Invariance, PTL DEF Spec

\* A checkout that was approved is of one commit, which the client named by its
\* digest and at depth 1.
LEMMA CheckoutAlone ==
  ASSUME Inv, NEW d \in Downloads, dl[d].result = "Approved", dl[d].checkout
  PROVE  \E w \in Commits : FetchedAlone(d, w)
<1> DEFINE x == dl[d]
           w == RefOf(x)
<1>1. /\ x.request \in Requests /\ x.body \in Bodies /\ FetchAsked(x)
      /\ Unpacks(Reply[x.body].pkts, w) /\ Msgs(d) = Asked(x) /\ Asked(x) \in Seq(Lines)
      /\ w \in Commits
  BY CheckoutFacts
<1>2. Values(Msgs(d), "want") = {w} /\ Values(Msgs(d), "want-ref") = {}
  BY <1>1, OneWant DEF FetchAsked, RefOf, Wants
<1>3. IsShallow(Msgs(d))
  <2>1. x.step # "idle"
    BY DEF Inv, CheckoutInv, Early, Started
  <2>2. RequestPending(x.request)
    BY <2>1 DEF Inv, OwnInv, CheckoutInv
  <2> QED
    BY <1>1, <2>2, PendingShallow DEF FetchAsked, Asked
<1>4. decodeGitProtocol(Body(d).pkts) = Got(x)
  BY DEF Body, Got
<1>5. Got(x).msgs \in Seq(Lines) /\ Got(x).rest \in Seq(Lines)
  BY <1>1, ResponseMessages DEF Got
<1>6. Values(Got(x).msgs, "shallow") # {}
  <2> DEFINE J == {j \in DOMAIN Got(x).msgs : Got(x).msgs[j][1] = "shallow"}
  <2>1. Cardinality(J) > 0
    BY <1>1 DEF FetchAsked, fetchResponseIsShallow, Count
  <2>2. J # {}
    BY <2>1, FS_EmptySet
  <2> QED
    BY <2>2 DEF Values
<1>7. w \in Values(Got(x).rest, "1")
  <2>1. w \in readPack(Got(x).rest).commits
    BY <1>1 DEF Unpacks, Got
  <2> QED
    BY <1>5, <2>1, ReadCommits
<1>8. x.contentID = IF x.approved \cap Range(Crafts) # {} THEN w ELSE ""
  BY DEF Inv, CheckoutInv
<1>9. FetchedAlone(d, w)
  BY <1>2, <1>3, <1>4, <1>6, <1>7, <1>8 DEF FetchedAlone
<1> QED
  BY <1>1, <1>9

\* Every approved response goes back to an inspection, of this download or of the
\* one whose verdict is used again, that approved it as an advertisement, a list
\* of refs or a shallow fetch of one commit that the client named by its digest.
THEOREM OneCommitFetched == Spec => []OneCommit
<1>1. Inv /\ VerdictInv => OneCommit
  <2> SUFFICES ASSUME Inv, VerdictInv, NEW d \in Downloads, dl[d].result = "Approved"
               PROVE  \E e \in Downloads :
                        /\ dl[e].result = "Approved" /\ dl[e].body = dl[d].body
                        /\ dl[d].approved # {} => e = d
                        /\ \/ dl[e].approved = {"smart-query"} /\ Body(e).type = "advertisement"
                           \/ dl[e].approved = {"upload-pack"} /\ Command(Msgs(e)) = "ls-refs"
                           \/ /\ dl[e].approved # {} /\ dl[e].checkout
                              /\ \E w \in Commits : FetchedAlone(e, w)
    BY DEF OneCommit
  <2>1. PICK e \in Downloads :
          /\ dl[e].result = "Approved" /\ dl[e].body = dl[d].body /\ dl[e].approved # {}
          /\ dl[d].approved # {} => e = d
    <3>1. CASE dl[d].approved # {}
      BY <3>1
    <3>2. CASE dl[d].approved = {}
      <4>1. Vouched(dl, dl[d].body)
        BY DEF VerdictInv
      <4> QED
        BY <3>2, <4>1 DEF Vouched
    <3> QED
      BY <3>1, <3>2
  <2>2. dl[e].checkout \/ Listed(dl[e])
    BY <2>1 DEF VerdictInv, OriginInv
  <2>3. CASE dl[e].checkout
    BY <2>1, <2>3, CheckoutAlone
  <2>4. CASE Listed(dl[e])
    BY <2>1, <2>4 DEF Listed, Body, Msgs, Asked
  <2> QED
    BY <2>2, <2>3, <2>4
<1> QED
  BY <1>1, Invariance, VerdictInvariance, PTL

-----------------------------------------------------------------------------

\* A version that go.module.git puts on record is a tag that a response of the
\* same repository gives to the commit of the checkout, whatever other
\* responses are written to the tags during the search.
THEOREM VersionFromRefs == Spec => []VersionTag
<1>1. Inv => VersionTag
  <2> SUFFICES ASSUME Inv, NEW d \in Downloads, dl[d].version # ""
               PROVE  \E e \in Downloads, w \in Wants(Msgs(d)) :
                        /\ dl[e].request # None /\ dl[e].request.repo = dl[d].request.repo
                        /\ dl[e].body # None
                        /\ <<"tag", w, dl[d].version>> \in Range(Body(e).pkts)
    BY DEF VersionTag
  <2>1. dl[d].checkout /\ TagFrom(dl, dl[d].request.repo, dl[d].version, RefOf(dl[d]))
    BY DEF Inv, CheckoutInv, LearntInv
  <2>2. RefOf(dl[d]) \in Wants(Msgs(d))
    BY <2>1, CheckoutFacts
  <2>3. PICK e \in Downloads :
          /\ dl[e].request \in Requests /\ dl[e].request.repo = dl[d].request.repo
          /\ dl[e].body \in Bodies
          /\ <<"tag", RefOf(dl[d]), dl[d].version>> \in Range(Reply[dl[e].body].pkts)
    BY <2>1 DEF TagFrom
  <2>4. dl[e].request # None /\ dl[e].body # None
    BY <2>3, GitAssumption
  <2> QED
    BY <2>2, <2>3, <2>4 DEF Body
<1> QED
  BY <1>1, Invariance, PTL

\* What is left in the cache of a session that is gone belongs to inspections
\* whose clients get an error.
THEOREM CacheOvertaken == Spec => []CacheLeft
<1>1. Inv => CacheLeft
  BY DEF Inv, CacheInv, CacheLeft
<1> QED
  BY <1>1, Invariance, PTL
=============================================================================
