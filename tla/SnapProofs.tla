----------------------------- MODULE SnapProofs -----------------------------
(***************************************************************************)
(* Proofs about Snap for any store, any files and any number of            *)
(* inspections that share the cache.                                       *)
(***************************************************************************)
EXTENDS Snap, FiniteSetTheorems, WellFoundedInduction, TLAPS

-----------------------------------------------------------------------------
(* The chains of keys                                                      *)

\* A set of numbers has a least one: induction in the form that the provers can
\* use.
LEMMA LeastNatural ==
  ASSUME NEW T, T \subseteq Nat, T # {}
  PROVE  \E m \in T : \A k \in T : m <= k
<1>1. PICK m \in T : \A k \in T : <<k, m>> \notin OpToRel(<, Nat)
  BY WFMin, NatLessThanWellFounded
<1>2. ASSUME NEW k \in T PROVE m <= k
  <2>1. m \in Nat /\ k \in Nat
    OBVIOUS
  <2>2. ~(k < m)
    BY <1>1, <2>1 DEF OpToRel
  <2> QED
    BY <2>1, <2>2
<1> QED
  BY <1>2

\* There are finitely many keys.
LEMMA KeysFinite == IsFiniteSet(Keys) /\ Cardinality(Keys) \in Nat
<1> DEFINE Named == {Document[f].signKey : f \in Assertions}
           name == [f \in Assertions |-> Document[f].signKey]
<1>1. IsFiniteSet(Assertions)
  BY SnapAssumption, FS_Subset DEF Assertions
<1>2. name \in Surjection(Assertions, Named)
  BY DEF Surjection
<1>3. IsFiniteSet(Named)
  BY <1>1, <1>2, FS_Surjection
<1>4. Keys \in SUBSET Named
  BY DEF Keys
<1>5. IsFiniteSet(Keys)
  BY <1>3, <1>4, FS_Subset
<1> QED
  BY <1>5, FS_CardinalityType

\* g[n] has the assertions that chains of at most n keys tie to the root.
Levels(g, s, N) == g = [n \in 0 .. N |-> SignedBelow(s, IF n = 0 THEN {} ELSE g[n - 1])]

\* The function that Chain is defined through exists.
LEMMA LevelsExist ==
  ASSUME NEW s, NEW N \in Nat
  PROVE  \E g : Levels(g, s, N)
<1> DEFINE T == {n \in Nat : ~ \E g : Levels(g, s, n)}
<1> SUFFICES ASSUME T # {} PROVE FALSE
  OBVIOUS
<1>1. PICK m \in T : \A k \in T : m <= k
  BY LeastNatural
<1>2. CASE m = 0
  <2> DEFINE g == [n \in 0 .. 0 |-> SignedBelow(s, {})]
  <2>1. Levels(g, s, 0)
    BY DEF Levels
  <2> QED
    BY <1>1, <1>2, <2>1
<1>3. CASE m # 0
  <2>1. m \in Nat /\ m - 1 \in Nat
    BY <1>1, <1>3
  <2>2. PICK g : Levels(g, s, m - 1)
    BY <1>1, <1>3
  <2> DEFINE h == [n \in 0 .. m |-> IF n = m THEN SignedBelow(s, g[m - 1]) ELSE g[n]]
  <2>3. ASSUME NEW n \in 0 .. m PROVE h[n] = SignedBelow(s, IF n = 0 THEN {} ELSE h[n - 1])
    <3>1. CASE n = m
      <4>1. m - 1 \in 0 .. m /\ m - 1 # m
        BY <2>1
      <4> QED
        BY <1>3, <3>1, <4>1
    <3>2. CASE n # m
      <4>1. n \in 0 .. m - 1
        BY <2>1, <3>2
      <4>2. g[n] = SignedBelow(s, IF n = 0 THEN {} ELSE g[n - 1])
        BY <2>2, <4>1 DEF Levels
      <4>3. n # 0 => n - 1 \in 0 .. m /\ n - 1 # m
        BY <2>1, <4>1
      <4> QED
        BY <3>2, <4>2, <4>3
    <3> QED
      BY <3>1, <3>2
  <2> HIDE DEF h
  <2>4. h = [n \in 0 .. m |-> h[n]]
    BY DEF h
  <2>5. Levels(h, s, m)
    BY <2>3, <2>4 DEF Levels
  <2> QED
    BY <1>1, <2>5
<1> QED
  BY <1>2, <1>3

\* The keys that assertions of T hold
KeysIn(s, T) == {k \in Keys : AnswerOf(s, <<"account-key", k>>) \in T}

\* What they sign depends on the keys only, and grows with them.
LEMMA SignedMonotone ==
  ASSUME NEW s, NEW T, NEW U, KeysIn(s, T) \subseteq KeysIn(s, U)
  PROVE  SignedBelow(s, T) \subseteq SignedBelow(s, U)
  BY DEF SignedBelow, KeysIn, Keys

\* The same keys sign the same assertions.
LEMMA SignedSame ==
  ASSUME NEW s, NEW T, NEW U, KeysIn(s, T) = KeysIn(s, U)
  PROVE  SignedBelow(s, T) = SignedBelow(s, U)
<1>1. SignedBelow(s, T) \subseteq SignedBelow(s, U) /\ SignedBelow(s, U) \subseteq SignedBelow(s, T)
  BY SignedMonotone
<1> QED
  BY <1>1

\* A chain need not be longer than the number of keys: one more step adds
\* nothing to Chain.
LEMMA ChainClosed ==
  ASSUME NEW s
  PROVE  Chain(s) = SignedBelow(s, Chain(s))
<1> DEFINE N == Cardinality(Keys)
           tied == CHOOSE g : Levels(g, s, N)
           K(n) == KeysIn(s, tied[n])
           Closed(n) == SignedBelow(s, tied[n]) = tied[n]
           Bad == {n \in 0 .. N : ~Closed(n) /\ ~(Cardinality(K(n)) > n)}
<1>1. N \in Nat
  BY KeysFinite
<1>2. Levels(tied, s, N)
  BY <1>1, LevelsExist
<1>3. Chain(s) = tied[N]
  BY DEF Chain, Levels
<1> HIDE DEF tied
<1>4. \A n \in 0 .. N : tied[n] = SignedBelow(s, IF n = 0 THEN {} ELSE tied[n - 1])
  BY <1>2 DEF Levels
<1>5. \A n : /\ K(n) \in SUBSET Keys /\ IsFiniteSet(K(n))
             /\ Cardinality(K(n)) \in Nat /\ Cardinality(K(n)) <= N
  <2>1. \A n : K(n) \in SUBSET Keys
    BY DEF KeysIn
  <2>2. \A n : IsFiniteSet(K(n)) /\ Cardinality(K(n)) <= N
    BY <2>1, KeysFinite, FS_Subset
  <2> QED
    BY <2>1, <2>2, FS_CardinalityType
<1> HIDE DEF N
<1>6. \A n \in 0 .. N : n # 0 => tied[n - 1] \subseteq tied[n]
  <2> DEFINE T == {n \in 0 .. N : n # 0 /\ ~(tied[n - 1] \subseteq tied[n])}
  <2> SUFFICES ASSUME T # {} PROVE FALSE
    OBVIOUS
  <2>1. T \subseteq Nat
    BY <1>1
  <2>2. PICK m \in T : \A k \in T : m <= k
    BY <2>1, LeastNatural
  <2>3. m \in 0 .. N /\ m - 1 \in 0 .. N /\ m # 0 /\ m - 1 \notin T
    BY <1>1, <2>2
  <2>4. /\ tied[m] = SignedBelow(s, tied[m - 1])
        /\ tied[m - 1] = SignedBelow(s, IF m - 1 = 0 THEN {} ELSE tied[m - 2])
    BY <1>1, <1>4, <2>3
  <2>5. m - 1 # 0 => tied[m - 2] \subseteq tied[m - 1]
    BY <1>1, <2>3
  <2>6. KeysIn(s, IF m - 1 = 0 THEN {} ELSE tied[m - 2]) \subseteq KeysIn(s, tied[m - 1])
    BY <2>5 DEF KeysIn
  <2>7. tied[m - 1] \subseteq tied[m]
    BY <2>4, <2>6, SignedMonotone
  <2> QED
    BY <2>2, <2>7
<1>7. ASSUME Bad # {} PROVE FALSE
  <2>1. Bad \subseteq Nat
    BY <1>1
  <2>2. PICK m \in Bad : \A k \in Bad : m <= k
    BY <1>7, <2>1, LeastNatural
  <2>3. CASE m = 0
    <3>1. tied[0] = SignedBelow(s, {})
      BY <1>1, <1>4
    <3>2. K(0) = {}
      BY <1>5, <2>2, <2>3, FS_EmptySet
    <3>3. SignedBelow(s, tied[0]) = SignedBelow(s, {})
      <4>1. KeysIn(s, {}) = {}
        BY DEF KeysIn
      <4> QED
        BY <3>2, <4>1, SignedSame
    <3> QED
      BY <2>2, <2>3, <3>1, <3>3
  <2>4. CASE m # 0
    <3>1. m \in 0 .. N /\ m - 1 \in 0 .. N /\ m \in Nat /\ m - 1 \in Nat /\ m - 1 \notin Bad
      BY <1>1, <2>2, <2>4
    <3>2. tied[m] = SignedBelow(s, tied[m - 1])
      BY <1>4, <2>4, <3>1
    <3>3. ~Closed(m - 1)
      BY <2>2, <3>2
    <3>4. Cardinality(K(m - 1)) > m - 1 /\ ~(Cardinality(K(m)) > m)
      BY <2>2, <3>1, <3>3
    <3>5. tied[m - 1] \subseteq tied[m]
      BY <1>6, <2>4, <3>1
    <3>6. K(m - 1) \in SUBSET K(m)
      BY <3>5 DEF KeysIn
    <3>7. Cardinality(K(m)) = Cardinality(K(m - 1))
      BY <1>5, <3>1, <3>4, <3>6, FS_Subset
    <3>8. K(m) = K(m - 1)
      BY <1>5, <3>6, <3>7, FS_Subset
    <3>9. SignedBelow(s, tied[m]) = SignedBelow(s, tied[m - 1])
      BY <3>8, SignedSame
    <3> QED
      BY <2>2, <3>2, <3>9
  <2> QED
    BY <2>3, <2>4
<1>8. Closed(N)
  BY <1>1, <1>5, <1>7
<1> QED
  BY <1>3, <1>8

-----------------------------------------------------------------------------
(* The invariant                                                           *)

Verifying == {"lookup", "fetch", "cache"}

SnapStages == {"revision", "declaration", "account"}

\* The assertion that an inspection is verifying or has verified
Target(x) == IF x.stage = "assertion" THEN x.file ELSE x.used[x.stage]

\* An assertion that waits for the key it was signed with
Waits(f) ==
  /\ decodeSignature(Document[f])
  /\ Document[f].signKey # "" /\ Document[f].signKey # RootKey

KeyOf(f) == Answer(<<"account-key", Document[f].signKey>>)

\* Every call of VerifySignature waits for the next one, and none of them can
\* fail if the first assertion is tied to the root.
FramesInv(x) ==
  x.step \in Verifying =>
    /\ x.frames # <<>> /\ x.frames[1] = Target(x)
    /\ \A i \in 1 .. Len(x.frames) - 1 : Waits(x.frames[i]) /\ x.frames[i + 1] = KeyOf(x.frames[i])
    /\ \A i \in DOMAIN x.frames : Target(x) \in Vouched => x.frames[i] \in Vouched
    /\ x.step # "lookup" => Waits(Last(x.frames))
    /\ x.step = "cache" => x.inner = KeyOf(Last(x.frames)) /\ x.inner \in Vouched

\* How far a snap or an assertion has got
StageInv(x) ==
  /\ x.step # "idle" => x.url \in Urls
  /\ x.step = "inspect" \/ x.stage # "none" => x.file \in Files
  /\ x.step \in {"idle", "upstream", "inspect"} => x.stage = "none"
  /\ x.step \in Verifying \cup {"verified"} => x.stage # "none"
  /\ x.step = "verified" => Target(x) \in Vouched
  /\ x.stage \in SnapStages => matchesSnap(Document[x.used["revision"]], Document[x.file])
  /\ x.stage \in {"declaration", "account"} => x.used["revision"] \in Vouched
  /\ x.stage = "account" => x.used["declaration"] \in Vouched

\* What the opinions of the inspectors rest on
OpinionInv(x) ==
  /\ x.step \notin {"finish", "done"} => x.approved = {} /\ ~x.rejected
  /\ "snap.assertion" \in x.approved => x.stage = "assertion" /\ x.file \in Vouched
  /\ x.rejected /\ ~x.outage /\ x.stage = "assertion" => x.file \notin Vouched
  /\ "snap" \in x.approved =>
       /\ x.stage = "account" /\ x.used["account"] \in Vouched
       /\ checkSnapDeclarationFilter(Document[x.used["declaration"]])
  /\ "refresh" \in x.approved =>
       x.url \in Urls /\ snapRefresh(x.url.actions, Document[x.file]) = "Approved"

DownloadInv(x) == FramesInv(x) /\ StageInv(x) /\ OpinionInv(x)

Inv ==
  /\ TypeOK
  /\ CacheVouched
  /\ \A d \in Downloads : DownloadInv(dl[d])

-----------------------------------------------------------------------------
(* What verification rests on                                              *)

\* An assertion is tied to the root if the root key signed it, or a key did whose
\* own assertion is tied to the root.
LEMMA TiedToRoot ==
  ASSUME store \in Stores, NEW f \in Assertions
  PROVE  f \in Vouched <=>
           LET a == Document[f]
           IN  /\ decodeSignature(a) /\ a.signKey # ""
               /\ IF a.signKey = RootKey THEN signedWith(a, RootKey)
                  ELSE /\ KeyOf(f) \in Vouched
                       /\ decodePublicKey(Document[KeyOf(f)]) # None
                       /\ signedWith(a, decodePublicKey(Document[KeyOf(f)]))
<1>1. Vouched = SignedBelow(store, Vouched)
  BY ChainClosed DEF Vouched, Chains
<1> QED
  BY <1>1 DEF SignedBelow, KeyOf, Answer

\* Nothing but assertions is.
LEMMA VouchedType ==
  ASSUME store \in Stores
  PROVE  Vouched \subseteq Assertions /\ Assertions \subseteq Files /\ None \notin Vouched
<1>1. Vouched = SignedBelow(store, Vouched)
  BY ChainClosed DEF Vouched, Chains
<1> QED
  BY <1>1, SnapAssumption DEF SignedBelow, Assertions

\* The store answers with assertions.
LEMMA AnswerType ==
  ASSUME store \in Stores, NEW q, NEW a \in downloadAssertion(q)
  PROVE  a \in Assertions \cup {None} /\ (a # None => a = Answer(q))
<1>1. Answer(q) \in Assertions \cup {None}
  BY SnapAssumption DEF Answer, AnswerOf, Assertions
<1> QED
  BY <1>1 DEF downloadAssertion

\* The store does not change, so an invariant of downloads is kept if it is kept
\* for the one that takes the step.
LEMMA Frame ==
  ASSUME Inv, NEW d \in Downloads, NEW y \in Download,
         dl' = [dl EXCEPT ![d] = y], UNCHANGED store, DownloadInv(y)
  PROVE  /\ dl' \in [Downloads -> Download]
         /\ \A e \in Downloads : DownloadInv(dl[e])'
<1>1. dl' \in [Downloads -> Download]
  BY DEF Inv, TypeOK
<1>2. ASSUME NEW e \in Downloads PROVE DownloadInv(dl'[e])
  BY DEF Inv, TypeOK
<1>3. ASSUME NEW e \in Downloads PROVE DownloadInv(dl[e])'
  <2>1. Vouched' = Vouched /\ \A f : KeyOf(f)' = KeyOf(f)
    BY DEF Vouched, KeyOf, Answer
  <2>2. FramesInv(dl[e])'
    BY <1>2, <2>1 DEF DownloadInv, FramesInv, Waits, Target
  <2>3. StageInv(dl[e])'
    BY <1>2, <2>1 DEF DownloadInv, StageInv, Target
  <2>4. OpinionInv(dl[e])'
    BY <1>2, <2>1 DEF DownloadInv, OpinionInv
  <2> QED
    BY <2>2, <2>3, <2>4 DEF DownloadInv
<1> QED
  BY <1>1, <1>3

\* The same with the cache unchanged
LEMMA Alone ==
  ASSUME Inv, NEW d \in Downloads, NEW y \in Download,
         dl' = [dl EXCEPT ![d] = y], UNCHANGED Shared, DownloadInv(y)
  PROVE  Inv'
<1>1. store' = store /\ accountKeyCache' = accountKeyCache
  BY DEF Shared
<1>2. dl' \in [Downloads -> Download] /\ \A e \in Downloads : DownloadInv(dl[e])'
  BY <1>1, Frame
<1>3. TypeOK'
  BY <1>1, <1>2 DEF Inv, TypeOK
<1>4. CacheVouched'
  BY <1>1 DEF Inv, CacheVouched, Vouched, Answer
<1> QED
  BY <1>2, <1>3, <1>4 DEF Inv

\* The same input, verified up to the same stage
SameStage(x, y) == y.url = x.url /\ y.file = x.file /\ y.stage = x.stage /\ y.used = x.used

\* An inspection may reject what is not tied to the root, or when the store could
\* not be reached.
LEMMA RejectedInv ==
  ASSUME NEW x \in Download, DownloadInv(x), NEW y \in Download,
         x.step \notin {"idle", "upstream", "finish", "done"},
         SameStage(x, y), y.approved = x.approved, y.step = "finish",
         x.stage = "assertion" /\ ~y.outage => x.file \notin Vouched
  PROVE  DownloadInv(y)
<1>1. FramesInv(y)
  BY DEF FramesInv, Verifying
<1>2. StageInv(y)
  BY DEF DownloadInv, StageInv, SameStage, Verifying
<1>3. OpinionInv(y)
  BY DEF DownloadInv, OpinionInv, SameStage
<1> QED
  BY <1>1, <1>2, <1>3 DEF DownloadInv

\* Rejected changes the opinion and the step only.
LEMMA RejectedType ==
  ASSUME NEW d \in Downloads, dl[d] \in Download
  PROVE  /\ Rejected(d) \in Download /\ SameStage(dl[d], Rejected(d))
         /\ Rejected(d).approved = dl[d].approved /\ Rejected(d).step = "finish"
         /\ Rejected(d).outage = dl[d].outage
  BY DEF Rejected, Download, SameStage, Steps

\* So does Asked, which also tells that the store could not be reached.
LEMMA AskedRejectedType ==
  ASSUME NEW d \in Downloads, dl[d] \in Download, NEW q, NEW a
  PROVE  LET y == Asked(Rejected(d), q, a)
         IN  /\ y \in Download /\ SameStage(dl[d], y)
             /\ y.approved = dl[d].approved /\ y.step = "finish"
             /\ ~y.outage /\ a = None => Answer(q) = None
<1> DEFINE x == Rejected(d)
           o == x.outage \/ (a = None /\ Answer(q) # None)
           y == [x EXCEPT !.outage = o]
<1>1. x \in Download /\ SameStage(dl[d], x) /\ x.approved = dl[d].approved /\ x.step = "finish"
  BY RejectedType
<1>2. o \in BOOLEAN /\ (~o /\ a = None => Answer(q) = None)
  BY <1>1 DEF Download
<1> HIDE DEF o, x
<1>3. /\ y \in Download /\ SameStage(x, y)
      /\ y.approved = x.approved /\ y.step = x.step /\ y.outage = o
  BY <1>1, <1>2 DEF Download, SameStage
<1>4. Asked(Rejected(d), q, a) = y
  BY DEF Asked, x, o
<1> HIDE DEF y
<1> QED
  BY <1>1, <1>2, <1>3, <1>4 DEF SameStage

\* All calls but the innermost
LEMMA FrontFacts ==
  ASSUME NEW S, NEW q \in Seq(S), q # <<>>
  PROVE  /\ Len(q) \in Nat /\ Len(q) >= 1 /\ DOMAIN q = 1 .. Len(q)
         /\ Last(q) = q[Len(q)] /\ Last(q) \in S
         /\ Front(q) \in Seq(S) /\ Len(Front(q)) = Len(q) - 1
         /\ DOMAIN Front(q) = 1 .. Len(q) - 1
         /\ \A i \in 1 .. Len(q) - 1 : Front(q)[i] = q[i]
<1>1. Len(q) \in Nat /\ Len(q) >= 1 /\ DOMAIN q = 1 .. Len(q)
  OBVIOUS
<1>2. Last(q) = q[Len(q)] /\ Last(q) \in S
  BY <1>1 DEF Last
<1>3. Front(q) \in Seq(S) /\ Len(Front(q)) = Len(q) - 1
  BY <1>1 DEF Front
<1>4. DOMAIN Front(q) = 1 .. Len(q) - 1
  BY <1>1, <1>3
<1>5. \A i \in 1 .. Len(q) - 1 : Front(q)[i] = q[i]
  BY <1>1 DEF Front
<1> QED
  BY <1>1, <1>2, <1>3, <1>4, <1>5

\* The innermost call has verified its assertion and returns.
LEMMA ReturnedInv ==
  ASSUME NEW d \in Downloads, dl[d] \in Download, DownloadInv(dl[d]),
         dl[d].step \in Verifying, Last(dl[d].frames) \in Vouched
  PROVE  Returned(d) \in Download /\ DownloadInv(Returned(d))
<1> DEFINE x == dl[d]
           n == Len(x.frames)
           y == Returned(d)
<1>1. x \in Download /\ x.frames \in Seq(Assertions) /\ x.frames # <<>>
  BY DEF Download, DownloadInv, FramesInv
<1>2. /\ n \in Nat /\ n >= 1 /\ n = Len(x.frames) /\ DOMAIN x.frames = 1 .. n
      /\ Last(x.frames) = x.frames[n] /\ x.frames[n] \in Assertions
      /\ Front(x.frames) \in Seq(Assertions) /\ Len(Front(x.frames)) = n - 1
      /\ DOMAIN Front(x.frames) = 1 .. n - 1
      /\ \A i \in 1 .. n - 1 : Front(x.frames)[i] = x.frames[i]
  BY <1>1, FrontFacts
<1> HIDE DEF n
<1>3. /\ y \in Download /\ SameStage(x, y) /\ y.approved = x.approved /\ y.rejected = x.rejected
      /\ y.outage = x.outage /\ y.frames = Front(x.frames) /\ y.inner = Last(x.frames)
      /\ y.step = IF n = 1 THEN "verified" ELSE "cache"
  BY <1>1, <1>2 DEF Returned, Download, SameStage, Steps
<1> HIDE DEF y
<1>4. Target(y) = Target(x)
  BY <1>3 DEF Target, SameStage
<1>5. FramesInv(y)
  <2>1. CASE n = 1
    BY <1>3, <2>1 DEF FramesInv, Verifying
  <2>2. CASE n # 1
    <3>1. n \in Nat /\ n - 1 \in Nat /\ n - 1 \in 1 .. n - 1 /\ 1 \in 1 .. n - 1
      <4>1. n \in Nat /\ n >= 1
        BY <1>2
      <4> QED
        BY <2>2, <4>1
    <3>2. /\ Len(y.frames) = n - 1 /\ \A i \in 1 .. n - 1 : y.frames[i] = x.frames[i]
          /\ y.frames # <<>> /\ DOMAIN y.frames = 1 .. n - 1
      <4>1. Len(y.frames) = n - 1 /\ y.frames \in Seq(Assertions) /\ n - 1 # 0
        BY <1>2, <1>3, <3>1
      <4>2. y.frames # <<>>
        BY <4>1
      <4> QED
        BY <1>2, <1>3, <4>1, <4>2
    <3>3. Last(y.frames) = x.frames[n - 1]
      BY <3>2, <3>1 DEF Last
    <3>4. FramesInv(x)
      BY DEF DownloadInv
    <3>5. Waits(x.frames[n - 1]) /\ x.frames[n] = KeyOf(x.frames[n - 1])
      BY <1>2, <3>1, <3>4 DEF FramesInv
    <3>6. y.frames[1] = Target(y)
      BY <1>4, <3>2, <3>1, <3>4 DEF FramesInv
    <3>7. ASSUME NEW i \in 1 .. Len(y.frames) - 1
          PROVE  Waits(y.frames[i]) /\ y.frames[i + 1] = KeyOf(y.frames[i])
      <4>1. i \in 1 .. n - 1 /\ i + 1 \in 1 .. n - 1 /\ i \in 1 .. Len(x.frames) - 1
        BY <1>2, <3>2
      <4> QED
        BY <3>2, <3>4, <4>1 DEF FramesInv
    <3>8. \A i \in DOMAIN y.frames : Target(y) \in Vouched => y.frames[i] \in Vouched
      <4>1. \A i \in 1 .. n - 1 : i \in DOMAIN x.frames
        BY <1>2
      <4> QED
        BY <1>4, <3>2, <3>4, <4>1 DEF FramesInv
    <3> QED
      BY <1>2, <1>3, <2>2, <3>2, <3>3, <3>5, <3>6, <3>7, <3>8 DEF FramesInv
  <2> QED
    BY <2>1, <2>2
<1>6. StageInv(y)
  <2>1. n = 1 => Target(x) \in Vouched
    BY <1>2 DEF DownloadInv, FramesInv
  <2> QED
    BY <1>3, <1>4, <2>1 DEF DownloadInv, StageInv, SameStage, Verifying
<1>7. OpinionInv(y)
  BY <1>3 DEF DownloadInv, OpinionInv, SameStage, Verifying
<1> QED
  BY <1>3, <1>5, <1>6, <1>7 DEF DownloadInv, y

-----------------------------------------------------------------------------
(* The actions                                                             *)

\* InspectRequest
LEMMA InspectRequestStep ==
  ASSUME Inv, NEW d \in Downloads, InspectRequest(d)
  PROVE  Inv'
<1> DEFINE x == dl[d]
<1>1. x \in Download /\ x.step = "idle" /\ DownloadInv(x) /\ UNCHANGED Shared
  BY DEF Inv, TypeOK, InspectRequest
<1>2. PICK u \in Urls, t \in {"upstream", "done"}, r \in {"none", "refused"} :
        dl' = [dl EXCEPT ![d] = [x EXCEPT !.url = u, !.step = t, !.result = r]]
  BY SnapAssumption DEF InspectRequest
<1> DEFINE y == [x EXCEPT !.url = u, !.step = t, !.result = r]
<1>3. /\ y \in Download /\ y.url = u /\ y.step \in {"upstream", "done"} /\ y.stage = x.stage
      /\ y.approved = x.approved /\ y.rejected = x.rejected
  BY <1>1 DEF Download, Steps
<1>4. dl' = [dl EXCEPT ![d] = y]
  BY <1>2
<1> HIDE DEF y
<1>5. DownloadInv(y)
  BY <1>1, <1>3 DEF DownloadInv, FramesInv, StageInv, OpinionInv, Verifying, SnapStages
<1> QED
  BY <1>1, <1>3, <1>4, <1>5, Alone

\* Respond
LEMMA RespondStep ==
  ASSUME Inv, NEW d \in Downloads, Respond(d)
  PROVE  Inv'
<1> DEFINE x == dl[d]
<1>1. x \in Download /\ x.step = "upstream" /\ DownloadInv(x) /\ UNCHANGED Shared
  BY DEF Inv, TypeOK, Respond
<1>2. x.url \in Urls
  BY <1>1 DEF DownloadInv, StageInv
<1>3. PICK f \in Serves[x.url] : dl' = [dl EXCEPT ![d].file = f, ![d].step = "inspect"]
  BY DEF Respond
<1>4. f \in Files
  BY <1>2, SnapAssumption
<1> DEFINE y == [x EXCEPT !.file = f, !.step = "inspect"]
<1>5. /\ y \in Download /\ y.url = x.url /\ y.file = f /\ y.step = "inspect" /\ y.stage = x.stage
      /\ y.approved = x.approved /\ y.rejected = x.rejected
  BY <1>1, <1>4 DEF Download, Steps
<1>6. dl' = [dl EXCEPT ![d] = y]
  BY <1>1, <1>3 DEF Inv, TypeOK
<1> HIDE DEF y
<1>7. DownloadInv(y)
  BY <1>1, <1>4, <1>5 DEF DownloadInv, FramesInv, StageInv, OpinionInv, Verifying, SnapStages
<1> QED
  BY <1>1, <1>5, <1>6, <1>7, Alone

\* A verification starts with one call.
LEMMA VerifyInv ==
  ASSUME NEW y \in Download, NEW a \in Assertions,
         y.step = "lookup", y.frames = <<a>>, y.stage # "none", Target(y) = a
  PROVE  FramesInv(y)
<1>1. Len(y.frames) = 1 /\ y.frames[1] = a /\ y.frames # <<>> /\ DOMAIN y.frames = {1}
  OBVIOUS
<1>2. 1 .. Len(y.frames) - 1 = {}
  BY <1>1
<1> QED
  BY <1>1, <1>2 DEF FramesInv

\* InspectSnap
LEMMA InspectSnapStep ==
  ASSUME Inv, NEW d \in Downloads, InspectSnap(d)
  PROVE  Inv'
<1> DEFINE x == dl[d]
           q == <<"snap-revision", Body(d).sha>>
<1>1. x \in Download /\ x.step = "inspect" /\ DownloadInv(x) /\ UNCHANGED Shared /\ store \in Stores
  BY DEF Inv, TypeOK, InspectSnap
<1>2. PICK a \in downloadAssertion(q) :
        LET z == [Asked(x, q, a) EXCEPT !.used["revision"] = a]
        IN  dl' = [dl EXCEPT ![d] =
                    IF a = None THEN [z EXCEPT !.step = "finish"]
                    ELSE IF matchesSnap(Document[a], Body(d)) THEN Verify(z, "revision", a)
                    ELSE Rejected(d)]
  BY DEF InspectSnap
<1>3. a \in Assertions \cup {None}
  BY <1>1, AnswerType
<1> DEFINE z == [Asked(x, q, a) EXCEPT !.used["revision"] = a]
<1>4. /\ z \in Download /\ z.url = x.url /\ z.file = x.file /\ z.stage = x.stage
      /\ z.approved = x.approved /\ z.rejected = x.rejected /\ z.used["revision"] = a
  <2> DEFINE o == x.outage \/ (a = None /\ Answer(q) # None)
             v == [x.used EXCEPT !["revision"] = a]
             w == [x EXCEPT !.outage = o]
             ww == [w EXCEPT !.used = v]
  <2>1. o \in BOOLEAN /\ v \in [SnapStages -> Assertions \cup {None}] /\ v["revision"] = a
    BY <1>1, <1>3 DEF Download, SnapStages
  <2> HIDE DEF o, v
  <2>2. /\ w \in Download /\ w.url = x.url /\ w.file = x.file /\ w.stage = x.stage
        /\ w.approved = x.approved /\ w.rejected = x.rejected /\ w.used = x.used
    BY <1>1, <2>1 DEF Download
  <2>3. z = [w EXCEPT !.used["revision"] = a]
    BY DEF Asked, o
  <2> HIDE DEF w, z
  <2>4. z = ww
    BY <2>2, <2>3 DEF Download, v
  <2>5. /\ ww \in Download /\ ww.url = w.url /\ ww.file = w.file /\ ww.stage = w.stage
        /\ ww.approved = w.approved /\ ww.rejected = w.rejected /\ ww.used = v
    BY <2>1, <2>2 DEF Download, SnapStages
  <2> QED
    BY <2>1, <2>2, <2>4, <2>5
<1>5. dl' = [dl EXCEPT ![d] = IF a = None THEN [z EXCEPT !.step = "finish"]
                              ELSE IF matchesSnap(Document[a], Body(d)) THEN Verify(z, "revision", a)
                              ELSE Rejected(d)]
  BY <1>2
<1> HIDE DEF z
<1>6. CASE a = None
  <2> DEFINE y == [z EXCEPT !.step = "finish"]
  <2>1. /\ y \in Download /\ y.url = x.url /\ y.step = "finish" /\ y.stage = x.stage
        /\ y.approved = x.approved /\ y.rejected = x.rejected
    BY <1>4 DEF Download, Steps
  <2>2. dl' = [dl EXCEPT ![d] = y]
    BY <1>5, <1>6
  <2> HIDE DEF y
  <2>3. DownloadInv(y)
    BY <1>1, <2>1 DEF DownloadInv, FramesInv, StageInv, OpinionInv, Verifying, SnapStages
  <2> QED
    BY <1>1, <2>1, <2>2, <2>3, Alone
<1>7. CASE a # None /\ matchesSnap(Document[a], Body(d))
  <2> DEFINE y == Verify(z, "revision", a)
  <2>1. a \in Assertions /\ <<a>> \in Seq(Assertions)
    BY <1>3, <1>7
  <2>2. /\ y \in Download /\ y.url = x.url /\ y.file = x.file /\ y.step = "lookup"
        /\ y.frames = <<a>> /\ y.stage = "revision" /\ y.used = z.used
        /\ y.approved = x.approved /\ y.rejected = x.rejected
    BY <1>4, <2>1 DEF Verify, Download, Steps, Stages
  <2>3. dl' = [dl EXCEPT ![d] = y]
    BY <1>5, <1>7
  <2> HIDE DEF y
  <2>4. FramesInv(y)
    BY <1>4, <2>1, <2>2, VerifyInv DEF Target
  <2>5. StageInv(y)
    BY <1>1, <1>4, <1>7, <2>2 DEF DownloadInv, StageInv, Body, SnapStages
  <2>6. OpinionInv(y)
    BY <1>1, <2>2 DEF DownloadInv, OpinionInv
  <2> QED
    BY <1>1, <2>2, <2>3, <2>4, <2>5, <2>6, Alone DEF DownloadInv
<1>8. CASE a # None /\ ~matchesSnap(Document[a], Body(d))
  <2>1. dl' = [dl EXCEPT ![d] = Rejected(d)]
    BY <1>5, <1>8
  <2>2. x.stage = "none"
    BY <1>1 DEF DownloadInv, StageInv
  <2>3. Rejected(d) \in Download /\ DownloadInv(Rejected(d))
    BY <1>1, <2>2, RejectedType, RejectedInv
  <2> QED
    BY <1>1, <2>1, <2>3, Alone
<1> QED
  BY <1>6, <1>7, <1>8

\* InspectAssertion
LEMMA InspectAssertionStep ==
  ASSUME Inv, NEW d \in Downloads, InspectAssertion(d)
  PROVE  Inv'
<1> DEFINE x == dl[d]
           y == Verify(x, "assertion", x.file)
<1>1. x \in Download /\ x.step = "inspect" /\ DownloadInv(x) /\ UNCHANGED Shared
  BY DEF Inv, TypeOK, InspectAssertion
<1>2. x.file \in Files /\ x.stage = "none"
  BY <1>1 DEF DownloadInv, StageInv
<1>3. CASE ~newAssertion(Body(d))
  <2>1. dl' = [dl EXCEPT ![d] = Rejected(d)]
    BY <1>3 DEF InspectAssertion
  <2>2. Rejected(d) \in Download /\ DownloadInv(Rejected(d))
    BY <1>1, <1>2, RejectedType, RejectedInv
  <2> QED
    BY <1>1, <2>1, <2>2, Alone
<1>4. CASE newAssertion(Body(d))
  <2>1. dl' = [dl EXCEPT ![d] = y]
    BY <1>4 DEF InspectAssertion
  <2>2. x.file \in Assertions /\ <<x.file>> \in Seq(Assertions)
    BY <1>2, <1>4 DEF Assertions, Body
  <2>3. /\ y \in Download /\ y.url = x.url /\ y.file = x.file /\ y.step = "lookup"
        /\ y.frames = <<x.file>> /\ y.stage = "assertion"
        /\ y.approved = x.approved /\ y.rejected = x.rejected
    BY <1>1, <2>2 DEF Verify, Download, Steps, Stages
  <2> HIDE DEF y
  <2>4. FramesInv(y)
    BY <2>2, <2>3, VerifyInv DEF Target
  <2>5. StageInv(y) /\ OpinionInv(y)
    BY <1>1, <1>2, <2>3 DEF DownloadInv, StageInv, OpinionInv, SnapStages
  <2> QED
    BY <1>1, <2>1, <2>3, <2>4, <2>5, Alone DEF DownloadInv
<1> QED
  BY <1>3, <1>4

\* InspectListing: an approved refresh is one that snapRefresh approves.
LEMMA InspectListingStep ==
  ASSUME Inv, NEW d \in Downloads, InspectListing(d)
  PROVE  Inv'
<1> DEFINE x == dl[d]
           said(what) == {i \in Listings : Runs(d, i) /\ Opinion(i, x.url, Body(d)) = what}
           yes == said("Approved")
           no == said("Rejected") # {}
           y == [x EXCEPT !.approved = yes, !.rejected = no, !.step = "finish"]
<1>1. x \in Download /\ x.step = "inspect" /\ DownloadInv(x) /\ UNCHANGED Shared
  BY DEF Inv, TypeOK, InspectListing
<1>2. dl' = [dl EXCEPT ![d] = y]
  BY DEF InspectListing
<1>3. /\ yes \in SUBSET Inspectors /\ no \in BOOLEAN
      /\ "snap" \notin yes /\ "snap.assertion" \notin yes
  BY DEF Listings, Inspectors
<1>4. "refresh" \in yes => snapRefresh(x.url.actions, Document[x.file]) = "Approved"
  BY DEF Opinion, Body
<1> HIDE DEF yes, no
<1>5. /\ y \in Download /\ y.url = x.url /\ y.file = x.file /\ y.stage = x.stage
      /\ y.step = "finish" /\ y.approved = yes
  BY <1>1, <1>3 DEF Download, Steps
<1> HIDE DEF y
<1>6. DownloadInv(y)
  BY <1>1, <1>3, <1>4, <1>5
     DEF DownloadInv, FramesInv, StageInv, OpinionInv, Verifying, SnapStages
<1> QED
  BY <1>1, <1>2, <1>5, <1>6, Alone

\* What is known of the innermost call
LEMMA InnermostFacts ==
  ASSUME Inv, NEW d \in Downloads, dl[d].step \in Verifying
  PROVE  LET x == dl[d]
             f == Last(x.frames)
         IN  /\ x \in Download /\ DownloadInv(x) /\ store \in Stores
             /\ f \in Assertions /\ Innermost(d) = Document[f]
             /\ Document[f].signKey # "" => Document[f].signKey \in Keys
             /\ x.stage = "assertion" /\ x.file \in Vouched => f \in Vouched
<1> DEFINE x == dl[d]
           f == Last(x.frames)
<1>1. x \in Download /\ DownloadInv(x) /\ store \in Stores
  BY DEF Inv, TypeOK
<1>2. x.frames \in Seq(Assertions) /\ x.frames # <<>>
  BY <1>1 DEF Download, DownloadInv, FramesInv
<1>3. f \in Assertions /\ f = x.frames[Len(x.frames)] /\ Len(x.frames) \in DOMAIN x.frames
  <2>1. /\ f \in Assertions /\ f = x.frames[Len(x.frames)]
        /\ Len(x.frames) \in Nat /\ Len(x.frames) >= 1 /\ DOMAIN x.frames = 1 .. Len(x.frames)
    BY <1>2, FrontFacts
  <2> QED
    BY <2>1
<1>4. Document[f].signKey # "" => Document[f].signKey \in Keys
  BY <1>3 DEF Keys
<1>5. x.stage = "assertion" /\ x.file \in Vouched => f \in Vouched
  BY <1>1, <1>3 DEF DownloadInv, FramesInv, Target
<1> QED
  BY <1>1, <1>3, <1>4, <1>5 DEF Innermost

\* LookUpKey: what a cached key or the root key verifies is tied to the root, and
\* what it does not verify is not.
LEMMA LookUpKeyStep ==
  ASSUME Inv, NEW d \in Downloads, LookUpKey(d)
  PROVE  Inv'
<1> DEFINE x == dl[d]
           f == Last(x.frames)
           a == Document[f]
           cached == IF a.signKey = "" THEN None ELSE accountKeyCache[a.signKey]
           key == IF cached # None THEN cached ELSE RootKey
<1>1. x.step = "lookup" /\ x.step \in Verifying /\ UNCHANGED Shared
  BY DEF LookUpKey, Verifying
<1>2. /\ x \in Download /\ DownloadInv(x) /\ store \in Stores /\ f \in Assertions
      /\ Innermost(d) = a /\ (a.signKey # "" => a.signKey \in Keys)
      /\ (x.stage = "assertion" /\ x.file \in Vouched => f \in Vouched)
  BY <1>1, InnermostFacts
<1>3. dl' = [dl EXCEPT ![d] =
               IF ~decodeSignature(a) \/ a.signKey = "" THEN Rejected(d)
               ELSE IF cached = None /\ ~isRoot(a.signKey) THEN [x EXCEPT !.step = "fetch"]
               ELSE IF signedWith(a, key) THEN Returned(d)
               ELSE Rejected(d)]
  BY <1>2 DEF LookUpKey
<1>4. cached # None =>
        /\ a.signKey # "" /\ a.signKey # RootKey
        /\ KeyOf(f) \in Vouched /\ cached = decodePublicKey(Document[KeyOf(f)])
  BY <1>2 DEF Inv, TypeOK, CacheVouched, KeyOf
<1> HIDE DEF a, f, cached
<1>5. ASSUME f \notin Vouched, dl' = [dl EXCEPT ![d] = Rejected(d)] PROVE Inv'
  <2>1. Rejected(d) \in Download /\ DownloadInv(Rejected(d))
    BY <1>1, <1>2, <1>5, RejectedType, RejectedInv
  <2> QED
    BY <1>1, <1>5, <2>1, Alone
<1>6. CASE ~decodeSignature(a) \/ a.signKey = ""
  <2>1. f \notin Vouched
    BY <1>2, <1>6, TiedToRoot DEF a
  <2> QED
    BY <1>3, <1>5, <1>6, <2>1
<1>7. CASE decodeSignature(a) /\ a.signKey # "" /\ cached = None /\ ~isRoot(a.signKey)
  <2> DEFINE y == [x EXCEPT !.step = "fetch"]
  <2>1. dl' = [dl EXCEPT ![d] = y]
    BY <1>3, <1>7
  <2>2. /\ y \in Download /\ SameStage(x, y) /\ y.step = "fetch" /\ y.frames = x.frames
        /\ y.approved = x.approved /\ y.rejected = x.rejected
    BY <1>2 DEF Download, SameStage, Steps
  <2> HIDE DEF y
  <2>3. FramesInv(y)
    BY <1>1, <1>2, <1>7, <2>2
       DEF DownloadInv, FramesInv, Target, SameStage, Waits, isRoot, a, f, Verifying
  <2>4. StageInv(y) /\ OpinionInv(y)
    BY <1>1, <1>2, <2>2 DEF DownloadInv, StageInv, OpinionInv, SameStage, Verifying
  <2> QED
    BY <1>1, <2>1, <2>2, <2>3, <2>4, Alone DEF DownloadInv
<1>8. CASE decodeSignature(a) /\ a.signKey # "" /\ ~(cached = None /\ ~isRoot(a.signKey))
  <2>1. f \in Vouched <=> signedWith(a, key)
    <3>1. cached # None => cached = decodePublicKey(Document[KeyOf(f)])
      BY <1>4
    <3>2. CASE cached # None
      BY <1>2, <1>4, <1>8, <3>2, TiedToRoot DEF a
    <3>3. CASE cached = None
      BY <1>2, <1>8, <3>3, TiedToRoot DEF a, isRoot
    <3> QED
      BY <3>2, <3>3
  <2>2. CASE signedWith(a, key)
    <3>1. Returned(d) \in Download /\ DownloadInv(Returned(d))
      BY <1>1, <1>2, <2>1, <2>2, ReturnedInv DEF f
    <3> QED
      BY <1>1, <1>3, <1>8, <2>2, <3>1, Alone
  <2>3. CASE ~signedWith(a, key)
    BY <1>3, <1>5, <1>8, <2>1, <2>3
  <2> QED
    BY <2>2, <2>3
<1> QED
  BY <1>6, <1>7, <1>8

\* FetchKey: the nested call is about the key that the outer assertion names.
LEMMA FetchKeyStep ==
  ASSUME Inv, NEW d \in Downloads, FetchKey(d)
  PROVE  Inv'
<1> DEFINE x == dl[d]
           f == Last(x.frames)
           q == <<"account-key", Document[f].signKey>>
<1>1. x.step = "fetch" /\ x.step \in Verifying
  BY DEF FetchKey, Verifying
<1>2. /\ x \in Download /\ DownloadInv(x) /\ store \in Stores /\ f \in Assertions
      /\ Innermost(d) = Document[f]
      /\ (x.stage = "assertion" /\ x.file \in Vouched => f \in Vouched)
  BY <1>1, InnermostFacts
<1>3. PICK a \in downloadAssertion(q) : downloadAccountKey(d, q, a)
  BY <1>2 DEF FetchKey
<1>4. UNCHANGED Shared
  BY <1>3 DEF FetchKey, downloadAccountKey, Shared
<1>5. Waits(f) /\ x.frames \in Seq(Assertions) /\ x.frames # <<>>
  BY <1>1, <1>2 DEF DownloadInv, FramesInv, Download
<1>6. f \in Vouched => KeyOf(f) \in Vouched
  BY <1>2, <1>5, TiedToRoot DEF Waits
<1>7. CASE a = None
  <2> DEFINE y == Asked(Rejected(d), q, a)
  <2>1. dl' = [dl EXCEPT ![d] = y]
    BY <1>3, <1>7 DEF downloadAccountKey
  <2>2. /\ y \in Download /\ SameStage(x, y) /\ y.approved = x.approved /\ y.step = "finish"
        /\ (~y.outage => Answer(q) = None)
    BY <1>2, <1>7, AskedRejectedType
  <2> HIDE DEF y
  <2>3. x.stage = "assertion" /\ ~y.outage => x.file \notin Vouched
    BY <1>2, <1>6, <2>2, VouchedType DEF KeyOf
  <2>4. DownloadInv(y)
    BY <1>1, <1>2, <2>2, <2>3, RejectedInv
  <2> QED
    BY <1>4, <2>1, <2>2, <2>4, Alone
<1>8. CASE a # None
  <2> DEFINE n == Len(x.frames)
             y == [x EXCEPT !.frames = Append(x.frames, a), !.step = "lookup"]
  <2>1. dl' = [dl EXCEPT ![d] = y]
    BY <1>3, <1>8 DEF downloadAccountKey
  <2>2. a \in Assertions /\ a = KeyOf(f)
    BY <1>2, <1>8, AnswerType DEF KeyOf
  <2>3. /\ Append(x.frames, a) \in Seq(Assertions) /\ n \in Nat /\ n >= 1
        /\ f = x.frames[n] /\ DOMAIN x.frames = 1 .. n
    <3>1. n \in Nat /\ n >= 1 /\ f = x.frames[n] /\ DOMAIN x.frames = 1 .. n
      BY <1>5, FrontFacts
    <3>2. Append(x.frames, a) \in Seq(Assertions)
      BY <1>5, <2>2
    <3> QED
      BY <3>1, <3>2
  <2>4. /\ y \in Download /\ SameStage(x, y) /\ y.step = "lookup" /\ y.frames = Append(x.frames, a)
        /\ y.approved = x.approved /\ y.rejected = x.rejected
    BY <1>2, <2>3 DEF Download, SameStage, Steps
  <2>5. /\ Len(y.frames) = n + 1 /\ y.frames # <<>> /\ y.frames[n + 1] = a
        /\ DOMAIN y.frames = 1 .. n + 1
        /\ \A i \in 1 .. n : y.frames[i] = x.frames[i]
    BY <1>5, <2>2, <2>3, <2>4
  <2> HIDE DEF y, n, f
  <2>6. FramesInv(y)
    <3>1. FramesInv(x) /\ Target(y) = Target(x)
      BY <1>2, <2>4 DEF DownloadInv, Target, SameStage
    <3>2. y.frames[1] = Target(y)
      BY <1>1, <2>3, <2>5, <3>1 DEF FramesInv
    <3>3. ASSUME NEW i \in 1 .. Len(y.frames) - 1
          PROVE  Waits(y.frames[i]) /\ y.frames[i + 1] = KeyOf(y.frames[i])
      <4>1. CASE i = n
        BY <1>5, <2>2, <2>3, <2>5, <4>1
      <4>2. CASE i # n
        <5>1. i \in 1 .. n - 1 /\ i \in 1 .. n /\ i + 1 \in 1 .. n
          BY <2>3, <2>5, <4>2
        <5> QED
          BY <1>1, <2>5, <3>1, <5>1 DEF FramesInv, n
      <4> QED
        BY <4>1, <4>2
    <3>4. ASSUME NEW i \in DOMAIN y.frames, Target(y) \in Vouched PROVE y.frames[i] \in Vouched
      <4>1. CASE i = n + 1
        <5>1. n \in DOMAIN x.frames
          BY <2>3
        <5>2. f \in Vouched
          BY <1>1, <2>3, <3>1, <3>4, <5>1 DEF FramesInv
        <5> QED
          BY <1>6, <2>2, <2>5, <4>1, <5>2
      <4>2. CASE i # n + 1
        <5>1. i \in 1 .. n
          BY <2>3, <2>5, <4>2
        <5> QED
          BY <1>1, <2>3, <2>5, <3>1, <3>4, <5>1 DEF FramesInv
      <4> QED
        BY <4>1, <4>2
    <3> QED
      BY <2>4, <2>5, <3>2, <3>3, <3>4 DEF FramesInv
  <2>7. StageInv(y) /\ OpinionInv(y)
    BY <1>1, <1>2, <2>4 DEF DownloadInv, StageInv, OpinionInv, SameStage, Verifying
  <2> QED
    BY <1>4, <2>1, <2>4, <2>6, <2>7, Alone DEF DownloadInv
<1> QED
  BY <1>7, <1>8

\* CacheKey: the key that goes to the cache is tied to the root.
LEMMA CacheKeyStep ==
  ASSUME Inv, NEW d \in Downloads, CacheKey(d)
  PROVE  Inv'
<1> DEFINE x == dl[d]
           f == Last(x.frames)
           a == Document[f]
           key == decodePublicKey(Document[x.inner])
<1>1. x.step = "cache" /\ x.step \in Verifying /\ store' = store
  BY DEF CacheKey, Verifying
<1>2. /\ x \in Download /\ DownloadInv(x) /\ store \in Stores /\ f \in Assertions
      /\ Innermost(d) = a /\ (a.signKey # "" => a.signKey \in Keys)
      /\ (x.stage = "assertion" /\ x.file \in Vouched => f \in Vouched)
  BY <1>1, InnermostFacts
<1>3. Waits(f) /\ x.inner = KeyOf(f) /\ x.inner \in Vouched
  BY <1>1, <1>2 DEF DownloadInv, FramesInv
<1>4. f \in Vouched <=> key # None /\ signedWith(a, key)
  BY <1>2, <1>3, TiedToRoot DEF Waits
<1>5. CASE key = None
  <2>1. dl' = [dl EXCEPT ![d] = Rejected(d)] /\ UNCHANGED Shared
    BY <1>1, <1>5 DEF CacheKey, Shared
  <2>2. Rejected(d) \in Download /\ DownloadInv(Rejected(d))
    BY <1>1, <1>2, <1>4, <1>5, RejectedType, RejectedInv
  <2> QED
    BY <2>1, <2>2, Alone
<1>6. CASE key # None
  <2> DEFINE y == IF signedWith(a, key) THEN Returned(d) ELSE Rejected(d)
  <2>1. /\ dl' = [dl EXCEPT ![d] = y]
        /\ accountKeyCache' = [accountKeyCache EXCEPT ![a.signKey] = key]
    BY <1>2, <1>6 DEF CacheKey
  <2>4. y \in Download /\ DownloadInv(y)
    <3>1. CASE signedWith(a, key)
      BY <1>1, <1>2, <1>4, <1>6, <3>1, ReturnedInv
    <3>2. CASE ~signedWith(a, key)
      <4>1. Rejected(d) \in Download /\ DownloadInv(Rejected(d))
        BY <1>1, <1>2, <1>4, <3>2, RejectedType, RejectedInv
      <4> QED
        BY <3>2, <4>1
    <3> QED
      BY <3>1, <3>2
  <2> HIDE DEF y
  <2>5. dl' \in [Downloads -> Download] /\ \A e \in Downloads : DownloadInv(dl[e])'
    BY <1>1, <2>1, <2>4, Frame
  <2>6. /\ a.signKey \in Keys /\ a.signKey # RootKey /\ key \in PublicKeys
        /\ x.inner = Answer(<<"account-key", a.signKey>>)
    BY <1>2, <1>3, <1>6, VouchedType DEF Waits, KeyOf, PublicKeys, decodePublicKey
  <2> HIDE DEF key, a
  <2>7. TypeOK'
    BY <1>1, <2>1, <2>5, <2>6 DEF Inv, TypeOK
  <2>8. CacheVouched'
    <3>1. Vouched' = Vouched /\ \A q : Answer(q)' = Answer(q)
      BY <1>1 DEF Vouched, Answer
    <3>2. ASSUME NEW k \in Keys, accountKeyCache'[k] # None
          PROVE  /\ Answer(<<"account-key", k>>) \in Vouched
                 /\ accountKeyCache'[k] = decodePublicKey(Document[Answer(<<"account-key", k>>)])
      <4>1. CASE k = a.signKey
        BY <1>3, <2>1, <2>6, <4>1 DEF Inv, TypeOK, key
      <4>2. CASE k # a.signKey
        BY <2>1, <3>2, <4>2 DEF Inv, TypeOK, CacheVouched
      <4> QED
        BY <4>1, <4>2
    <3> QED
      BY <3>1, <3>2 DEF CacheVouched
  <2> QED
    BY <2>5, <2>7, <2>8 DEF Inv
<1> QED
  BY <1>5, <1>6

\* AssertionVerified and AccountVerified: an inspection approves what it verified.
LEMMA ApprovedStep ==
  ASSUME Inv, NEW d \in Downloads, AssertionVerified(d) \/ AccountVerified(d)
  PROVE  Inv'
<1> DEFINE x == dl[d]
<1>1. /\ x \in Download /\ x.step = "verified" /\ DownloadInv(x) /\ UNCHANGED Shared
      /\ x.approved = {} /\ ~x.rejected
  BY DEF Inv, TypeOK, AssertionVerified, AccountVerified, DownloadInv, OpinionInv
<1>2. ASSUME NEW i \in Inspectors, dl' = [dl EXCEPT ![d] = Approved(d, i)],
             \/ i = "snap.assertion" /\ x.stage = "assertion"
             \/ /\ i = "snap" /\ x.stage = "account"
                /\ checkSnapDeclarationFilter(Document[x.used["declaration"]])
      PROVE  Inv'
  <2> DEFINE y == Approved(d, i)
  <2>1. /\ y \in Download /\ SameStage(x, y) /\ y.step = "finish"
        /\ y.approved = {i} /\ y.rejected = x.rejected
    BY <1>1 DEF Approved, Download, SameStage, Steps
  <2> HIDE DEF y
  <2>2. FramesInv(y)
    BY <2>1 DEF FramesInv, Verifying
  <2>3. StageInv(y)
    BY <1>1, <2>1 DEF DownloadInv, StageInv, SameStage, Verifying
  <2>4. OpinionInv(y)
    BY <1>1, <1>2, <2>1 DEF DownloadInv, StageInv, OpinionInv, SameStage, Target
  <2> QED
    BY <1>1, <1>2, <2>1, <2>2, <2>3, <2>4, Alone DEF DownloadInv, y
<1>3. ASSUME x.stage # "assertion", dl' = [dl EXCEPT ![d] = Rejected(d)] PROVE Inv'
  <2>1. Rejected(d) \in Download /\ DownloadInv(Rejected(d))
    BY <1>1, <1>3, RejectedType, RejectedInv
  <2> QED
    BY <1>1, <1>3, <2>1, Alone
<1>4. "snap" \in Inspectors /\ "snap.assertion" \in Inspectors
  BY DEF Inspectors
<1> QED
  BY <1>2, <1>3, <1>4 DEF AssertionVerified, AccountVerified

\* RevisionVerified and DeclarationVerified: the next assertion is verified.
LEMMA NextStageStep ==
  ASSUME Inv, NEW d \in Downloads, RevisionVerified(d) \/ DeclarationVerified(d)
  PROVE  Inv'
<1> DEFINE x == dl[d]
<1>1. /\ x \in Download /\ x.step = "verified" /\ DownloadInv(x) /\ UNCHANGED Shared
      /\ store \in Stores /\ x.stage \in {"revision", "declaration"}
      /\ x.approved = {} /\ ~x.rejected /\ x.used[x.stage] \in Vouched
  BY DEF Inv, TypeOK, RevisionVerified, DeclarationVerified, DownloadInv, OpinionInv, StageInv,
     Target
<1>2. ASSUME NEW q, NEW a, dl' = [dl EXCEPT ![d] = Asked(Rejected(d), q, a)] PROVE Inv'
  <2> DEFINE y == Asked(Rejected(d), q, a)
  <2>1. /\ y \in Download /\ SameStage(x, y) /\ y.approved = x.approved /\ y.step = "finish"
    BY <1>1, AskedRejectedType
  <2>2. DownloadInv(y)
    BY <1>1, <2>1, RejectedInv
  <2> HIDE DEF y
  <2> QED
    BY <1>1, <1>2, <2>1, <2>2, Alone DEF y
<1>3. ASSUME dl' = [dl EXCEPT ![d] = Rejected(d)] PROVE Inv'
  <2>1. Rejected(d) \in Download /\ DownloadInv(Rejected(d))
    BY <1>1, RejectedType, RejectedInv
  <2> QED
    BY <1>1, <1>3, <2>1, Alone
<1>4. ASSUME NEW a \in Assertions, NEW t \in {"declaration", "account"},
             x.stage = "revision" <=> t = "declaration",
             dl' = [dl EXCEPT ![d] = [Verify(x, t, a) EXCEPT !.used[t] = a]]
      PROVE  Inv'
  <2> DEFINE w == Verify(x, t, a)
             v == [x.used EXCEPT ![t] = a]
             y == [w EXCEPT !.used = v]
  <2>1. <<a>> \in Seq(Assertions)
    OBVIOUS
  <2>2. /\ w \in Download /\ w.url = x.url /\ w.file = x.file /\ w.step = "lookup"
        /\ w.frames = <<a>> /\ w.stage = t /\ w.used = x.used
        /\ w.approved = x.approved /\ w.rejected = x.rejected
    BY <1>1, <2>1 DEF Verify, Download, Steps, Stages
  <2>3. /\ v \in [SnapStages -> Assertions \cup {None}] /\ v[t] = a
        /\ v["revision"] = x.used["revision"]
        /\ t = "account" => v["declaration"] = x.used["declaration"]
    BY <1>1 DEF Download, SnapStages
  <2> HIDE DEF w
  <2>4. [w EXCEPT !.used[t] = a] = y
    BY <2>2 DEF Download
  <2> HIDE DEF v
  <2>5. /\ y \in Download /\ y.url = w.url /\ y.file = w.file /\ y.step = "lookup"
        /\ y.frames = <<a>> /\ y.stage = t /\ y.used = v
        /\ y.approved = w.approved /\ y.rejected = w.rejected
    BY <2>2, <2>3 DEF Download, SnapStages
  <2>6. dl' = [dl EXCEPT ![d] = y]
    BY <1>4, <2>4 DEF w
  <2> HIDE DEF y
  <2>7. FramesInv(y)
    BY <2>3, <2>5, VerifyInv DEF Target
  <2>8. StageInv(y)
    BY <1>1, <1>4, <2>2, <2>3, <2>5 DEF DownloadInv, StageInv, SnapStages
  <2>9. OpinionInv(y)
    BY <1>1, <2>2, <2>5 DEF DownloadInv, OpinionInv
  <2> QED
    BY <1>1, <2>5, <2>6, <2>7, <2>8, <2>9, Alone DEF DownloadInv
<1>5. CASE RevisionVerified(d)
  <2> DEFINE q == <<"snap-declaration", Document[x.used["revision"]].snapID>>
  <2>1. PICK a \in downloadAssertion(q) :
          dl' = [dl EXCEPT ![d] =
                  IF a = None THEN Asked(Rejected(d), q, a)
                  ELSE IF Document[a].publisher = "" THEN Rejected(d)
                  ELSE [Verify(x, "declaration", a) EXCEPT !.used["declaration"] = a]]
    BY <1>5 DEF RevisionVerified
  <2>2. a \in Assertions \cup {None} /\ x.stage = "revision"
    BY <1>1, <1>5, AnswerType DEF RevisionVerified
  <2> HIDE DEF q
  <2> QED
    BY <1>2, <1>3, <1>4, <2>1, <2>2
<1>6. CASE DeclarationVerified(d)
  <2> DEFINE q == <<"account", Document[x.used["declaration"]].publisher>>
  <2>1. PICK a \in downloadAssertion(q) :
          dl' = [dl EXCEPT ![d] =
                  IF a = None THEN Asked(Rejected(d), q, a)
                  ELSE [Verify(x, "account", a) EXCEPT !.used["account"] = a]]
    BY <1>6 DEF DeclarationVerified
  <2>2. a \in Assertions \cup {None} /\ x.stage = "declaration"
    BY <1>1, <1>6, AnswerType DEF DeclarationVerified
  <2> HIDE DEF q
  <2> QED
    BY <1>2, <1>4, <2>1, <2>2
<1> QED
  BY <1>5, <1>6

\* CompleteInspection
LEMMA CompleteInspectionStep ==
  ASSUME Inv, NEW d \in Downloads, CompleteInspection(d)
  PROVE  Inv'
<1> DEFINE x == dl[d]
           r == verdict(x)
           y == [x EXCEPT !.step = "done", !.result = r]
<1>1. x \in Download /\ x.step = "finish" /\ DownloadInv(x) /\ UNCHANGED Shared
  BY DEF Inv, TypeOK, CompleteInspection
<1>2. r \in {"Approved", "Rejected"}
  BY DEF verdict
<1>3. dl' = [dl EXCEPT ![d] = y]
  BY <1>1 DEF CompleteInspection, Inv, TypeOK
<1> HIDE DEF r
<1>4. /\ y \in Download /\ SameStage(x, y) /\ y.step = "done"
      /\ y.approved = x.approved /\ y.rejected = x.rejected /\ y.outage = x.outage
  BY <1>1, <1>2 DEF Download, SameStage, Steps
<1> HIDE DEF y
<1>5. DownloadInv(y)
  BY <1>1, <1>4 DEF DownloadInv, FramesInv, StageInv, OpinionInv, SameStage, Verifying
<1> QED
  BY <1>1, <1>3, <1>4, <1>5, Alone

-----------------------------------------------------------------------------
(* The theorems                                                            *)

\* Every step of every inspection keeps the invariant, whatever other inspections
\* do to the cache.
LEMMA InvStep == Inv /\ [Next]_vars => Inv'
<1> SUFFICES ASSUME Inv, [Next]_vars PROVE Inv'
  OBVIOUS
<1>1. CASE UNCHANGED vars
  <2>1. store' = store /\ accountKeyCache' = accountKeyCache /\ dl' = dl
    BY <1>1 DEF vars
  <2>2. Vouched' = Vouched /\ (\A q : Answer(q)' = Answer(q)) /\ \A f : KeyOf(f)' = KeyOf(f)
    BY <2>1 DEF Vouched, Answer, KeyOf
  <2>3. TypeOK' /\ CacheVouched'
    BY <2>1, <2>2 DEF Inv, TypeOK, CacheVouched
  <2>4. ASSUME NEW d \in Downloads PROVE DownloadInv(dl[d])'
    BY <2>1, <2>2 DEF Inv, DownloadInv, FramesInv, StageInv, OpinionInv, Waits, Target
  <2> QED
    BY <2>3, <2>4 DEF Inv
<1>2. ASSUME NEW d \in Downloads, InspectRequest(d) \/ Respond(d) \/ Inspect(d) PROVE Inv'
  BY <1>2, InspectRequestStep, RespondStep, InspectSnapStep, InspectAssertionStep,
     InspectListingStep, LookUpKeyStep, FetchKeyStep, CacheKeyStep, ApprovedStep, NextStageStep,
     CompleteInspectionStep DEF Inspect
<1> QED
  BY <1>1, <1>2 DEF Next

\* The invariant holds in every reachable state of the snap inspectors.
THEOREM Invariance == Spec => []Inv
<1>1. Init => Inv
  <2> SUFFICES ASSUME Init PROVE Inv
    OBVIOUS
  <2>1. PICK p \in Policies :
          dl = [d \in Downloads |->
                 [step |-> "idle", permissive |-> p, url |-> None, file |-> None, stage |-> "none",
                  frames |-> <<>>, inner |-> None, outage |-> FALSE, approved |-> {},
                  used |-> [s \in {"revision", "declaration", "account"} |-> None],
                  rejected |-> FALSE, result |-> "none"]]
    BY DEF Init
  <2>2. TypeOK
    BY <2>1 DEF Init, TypeOK, Download, Steps, Stages
  <2>3. CacheVouched
    BY DEF Init, CacheVouched
  <2>4. ASSUME NEW d \in Downloads PROVE DownloadInv(dl[d])
    BY <2>1 DEF DownloadInv, FramesInv, StageInv, OpinionInv, Verifying, SnapStages
  <2> QED
    BY <2>2, <2>3, <2>4 DEF Inv
<1> QED
  BY <1>1, InvStep, PTL DEF Spec

\* The variables keep their types, and the root key never gets into the cache.
THEOREM TypeCorrect == Spec => []TypeOK
<1>1. Inv => TypeOK
  BY DEF Inv
<1> QED
  BY <1>1, Invariance, PTL

\* The cache that all inspections share holds only keys that a chain of signatures
\* ties to the root key, whoever put them there.
THEOREM CacheSound == Spec => []CacheVouched
<1>1. Inv => CacheVouched
  BY DEF Inv
<1> QED
  BY <1>1, Invariance, PTL

\* VerifySignature succeeds for assertions that are tied to the root and, unless
\* the store cannot be reached, for all of them: a warm cache changes no verdict.
THEOREM VerdictIndependent == Spec => []VerdictOfChain
<1>1. Inv => VerdictOfChain
  BY DEF Inv, VerdictOfChain, DownloadInv, OpinionInv
<1> QED
  BY <1>1, Invariance, PTL

\* An approved snap has a revision of its digest and size, a declaration that
\* passes the filter and an account, all tied to the root.
THEOREM SnapChain == Spec => []SnapVouched
<1>1. Inv => SnapVouched
  <2> SUFFICES ASSUME Inv, NEW d \in Downloads, "snap" \in dl[d].approved
               PROVE  /\ \A s \in DOMAIN dl[d].used : dl[d].used[s] \in Vouched
                      /\ matchesSnap(Document[dl[d].used["revision"]], Body(d))
                      /\ checkSnapDeclarationFilter(Document[dl[d].used["declaration"]])
    BY DEF SnapVouched
  <2>1. dl[d] \in Download /\ StageInv(dl[d]) /\ OpinionInv(dl[d])
    BY DEF Inv, TypeOK, DownloadInv
  <2>2. DOMAIN dl[d].used = {"revision", "declaration", "account"}
    BY <2>1 DEF Download
  <2> QED
    BY <2>1, <2>2 DEF StageInv, OpinionInv, SnapStages, Body
<1> QED
  BY <1>1, Invariance, PTL

\* A set of some numbers from 1 to n has a largest one.
LEMMA LargestNatural ==
  ASSUME NEW n \in Nat, NEW s \in SUBSET (1 .. n), s # {}
  PROVE  \E x \in s : \A y \in s : y <= x
<1> DEFINE T == {n - k : k \in s}
<1>1. T \subseteq Nat /\ T # {}
  <2>1. \A k \in s : n - k \in Nat
    OBVIOUS
  <2>2. T \subseteq Nat
    BY <2>1
  <2>3. PICK k \in s : TRUE
    OBVIOUS
  <2>4. n - k \in T
    OBVIOUS
  <2> QED
    BY <2>2, <2>4
<1>2. PICK m \in T : \A k \in T : m <= k
  BY <1>1, LeastNatural
<1>3. PICK x \in s : m = n - x
  BY <1>2
<1>4. \A y \in s : y <= x
  <2> SUFFICES ASSUME NEW y \in s PROVE y <= x
    OBVIOUS
  <2>1. n - y \in T
    OBVIOUS
  <2>2. n - x <= n - y
    BY <1>2, <1>3, <2>1
  <2>3. x \in 1 .. n /\ y \in 1 .. n
    OBVIOUS
  <2> QED
    BY <2>2, <2>3
<1> QED
  BY <1>4

\* The last of the actions with a key is one of the actions.
LEMMA LastAction ==
  ASSUME NEW u \in Urls, NEW i \in DOMAIN u.actions, u.actions[i].key # ""
  PROVE  LET byKey == snapRefreshActionsByInstanceKey(u.actions)
             key == u.actions[i].key
         IN  /\ key \in DOMAIN byKey
             /\ \E j \in DOMAIN u.actions : byKey[key] = u.actions[j] /\ u.actions[j].key = key
<1> DEFINE actions == u.actions
           key == actions[i].key
           with == {j \in DOMAIN actions : actions[j].key = key}
<1>1. Len(actions) \in Nat /\ DOMAIN actions = 1 .. Len(actions)
  BY SnapAssumption
<1>2. i \in with /\ with \in SUBSET (1 .. Len(actions))
  BY <1>1
<1> HIDE DEF with
<1>3. \E j \in with : \A l \in with : l <= j
  BY <1>1, <1>2, LargestNatural
<1>4. (CHOOSE k \in with : \A l \in with : l <= k) \in with
  BY <1>3
<1> QED
  BY <1>4 DEF snapRefreshActionsByInstanceKey, with

\* A refresh that an approved answer reports is of an instance that the request
\* named, and of the snap that it said it was.
THEOREM RefreshExplained == Spec => []RefreshAsked
<1>1. Inv => RefreshAsked
  <2> SUFFICES ASSUME Inv, NEW d \in Downloads, "refresh" \in dl[d].approved,
                      NEW b \in {a \in Range(dl[d].url.actions) : a.key # ""},
                      NEW r \in Range(Body(d).results), r.result = "refresh"
               PROVE  \E a \in {c \in Range(dl[d].url.actions) : c.key # ""} :
                        /\ a.key = r.key /\ a.action \in {"", "refresh"}
                        /\ a.snapID = "" \/ r.snapID = "" \/ a.snapID = r.snapID
    BY Zenon DEF RefreshAsked
  <2> DEFINE u == dl[d].url
             byKey == snapRefreshActionsByInstanceKey(u.actions)
  <2>1. u \in Urls /\ snapRefresh(u.actions, Body(d)) = "Approved"
    BY DEF Inv, DownloadInv, OpinionInv, Body
  <2>2. PICK i \in DOMAIN u.actions : u.actions[i] = b
    BY DEF Range
  <2>3. DOMAIN byKey # {}
    BY <2>1, <2>2, LastAction
  <2>4. ~unexpected(r, byKey)
    BY <2>1, <2>3 DEF snapRefresh, Range
  <2>5. r.key \in DOMAIN byKey
    BY <2>4 DEF unexpected
  <2>6. PICK j \in DOMAIN u.actions : u.actions[j].key = r.key /\ r.key # ""
    BY <2>5 DEF snapRefreshActionsByInstanceKey
  <2>7. PICK k \in DOMAIN u.actions : byKey[r.key] = u.actions[k] /\ u.actions[k].key = r.key
    <3>1. \E k \in DOMAIN u.actions :
            byKey[u.actions[j].key] = u.actions[k] /\ u.actions[k].key = u.actions[j].key
      BY <2>1, <2>6, LastAction
    <3> QED
      BY <2>6, <3>1
  <2>8. /\ u.actions[k].action \in {"", "refresh"}
        /\ \/ u.actions[k].snapID = "" \/ r.snapID = "" \/ u.actions[k].snapID = r.snapID
    BY <2>4, <2>5, <2>7 DEF unexpected
  <2>9. u.actions[k] \in Range(u.actions)
    BY DEF Range
  <2> QED
    BY <2>6, <2>7, <2>8, <2>9
<1> QED
  BY <1>1, Invariance, PTL
=============================================================================
