--------------------------- MODULE SymbolDataProofs ---------------------------
(***************************************************************************)
(* Proofs about what the symbol-aware analysis knows of a class, whatever  *)
(* the representatives and the digests are.  merge_fingerprints stays      *)
(* within the fingerprints, does not depend on the order of its arguments, *)
(* never says more than either of them, and keeps a known fingerprint only *)
(* when both are that fingerprint.  (It is not associative, so the order   *)
(* in which three classes are united can be seen in the result.)  Through  *)
(* every union and repair a known fingerprint stays that of the class's    *)
(* representative (KnownFromRepr), the representative only gets better     *)
(* (ReprImproves), and the fingerprint only loses (FingerprintDegrades).   *)
(***************************************************************************)
EXTENDS SymbolData, SaturationProofs

-----------------------------------------------------------------------------
(* merge_fingerprints *)

\* The tags of the reasons are numbers that tell the reasons apart.
LEMMA ReasonTagType ==
    /\ \A r \in DOMAIN ReasonTag : ReasonTag[r] \in Nat
    /\ \A r, s \in DOMAIN ReasonTag : ReasonTag[r] = ReasonTag[s] => r = s
BY DEF ReasonTag

\* Pairs of numbers are in total order.
LEMMA PairOrder ==
    ASSUME NEW a \in Nat, NEW b \in Nat, NEW c \in Nat, NEW d \in Nat
    PROVE  /\ PairLeq(a, b, a, b)
           /\ PairLeq(a, b, c, d) \/ PairLeq(c, d, a, b)
           /\ PairLeq(a, b, c, d) /\ PairLeq(c, d, a, b) => a = c /\ b = d
BY DEF PairLeq

\* The fields of a fingerprint of each kind.
LEMMA FingerprintFields ==
    ASSUME NEW f \in Fingerprint
    PROVE  /\ f.kind \in {"ByWeight", "Unknown", "Conflict"}
           /\ f.kind = "ByWeight" => f.weights \in Outcomes /\ f = ByWeight(f.weights)
           /\ f.kind = "Unknown" =>
                f.reason \in DOMAIN ReasonTag /\ f.hash \in Nat /\ f = Unknown(f.reason, f.hash)
           /\ f.kind = "Conflict" =>
                f.left \in Nat /\ f.right \in Nat /\ f = Conflict(f.left, f.right)
BY DEF Fingerprint, ByWeight, Unknown, Conflict

\* Merging two fingerprints gives a fingerprint (merge_fingerprints covers
\* every combination of kinds).
THEOREM MergeType ==
    ASSUME NEW f \in Fingerprint, NEW g \in Fingerprint
    PROVE  MergeFingerprints(f, g) \in Fingerprint
<1>1. \A o \in Outcomes : Digest(o) \in Nat
  BY DigestAssumption
<1>2. \A a, b \in Nat : Conflict(a, b) \in Fingerprint
  BY DEF Conflict, Fingerprint
<1>3. CASE f.kind = "ByWeight" /\ g.kind = "ByWeight" /\ f # g
  <2>1. Digest(f.weights) \in Nat /\ Digest(g.weights) \in Nat
    BY <1>1, <1>3, FingerprintFields
  <2>2. MergeFingerprints(f, g) \in {Conflict(Digest(f.weights), Digest(g.weights)),
                                     Conflict(Digest(g.weights), Digest(f.weights))}
    BY <1>3 DEF MergeFingerprints
  <2> QED BY <1>2, <2>1, <2>2
<1>4. CASE ~(f.kind = "ByWeight" /\ g.kind = "ByWeight" /\ f # g)
  <2>1. f.kind \in {"ByWeight", "Unknown", "Conflict"} /\ g.kind \in {"ByWeight", "Unknown", "Conflict"}
    BY FingerprintFields
  <2>2. MergeFingerprints(f, g) \in {f, g}
    BY <1>4, <2>1 DEF MergeFingerprints
  <2> QED BY <2>2
<1> QED BY <1>3, <1>4

\* Merging does not depend on the order of the two classes, which egg chooses
\* by the number of their parents.
THEOREM MergeCommutes ==
    ASSUME NEW f \in Fingerprint, NEW g \in Fingerprint
    PROVE  MergeFingerprints(f, g) = MergeFingerprints(g, f)
<1>1. f.kind \in {"ByWeight", "Unknown", "Conflict"} /\ g.kind \in {"ByWeight", "Unknown", "Conflict"}
  BY FingerprintFields
<1>2. CASE f = g
  BY <1>2
<1>3. CASE f # g /\ f.kind = "Conflict" /\ g.kind = "Conflict"
  <2>1. /\ f.left \in Nat /\ f.right \in Nat /\ f = Conflict(f.left, f.right)
        /\ g.left \in Nat /\ g.right \in Nat /\ g = Conflict(g.left, g.right)
    BY <1>3, FingerprintFields
  <2>2. ~(f.left = g.left /\ f.right = g.right)
    BY <1>3, <2>1
  <2>3. PairLeq(f.left, f.right, g.left, g.right) <=> ~PairLeq(g.left, g.right, f.left, f.right)
    BY <2>1, <2>2, PairOrder
  <2>4. MergeFingerprints(f, g) = IF PairLeq(f.left, f.right, g.left, g.right) THEN f ELSE g
    BY <1>3 DEF MergeFingerprints
  <2>5. MergeFingerprints(g, f) = IF PairLeq(g.left, g.right, f.left, f.right) THEN g ELSE f
    BY <1>3 DEF MergeFingerprints
  <2> QED BY <2>3, <2>4, <2>5
<1>4. CASE f # g /\ f.kind = "Unknown" /\ g.kind = "Unknown"
  <2> DEFINE s == ReasonTag[f.reason]
             t == ReasonTag[g.reason]
  <2>1. /\ f.reason \in DOMAIN ReasonTag /\ f.hash \in Nat /\ f = Unknown(f.reason, f.hash)
        /\ g.reason \in DOMAIN ReasonTag /\ g.hash \in Nat /\ g = Unknown(g.reason, g.hash)
    BY <1>4, FingerprintFields
  <2>2. s \in Nat /\ t \in Nat /\ (s = t => f.reason = g.reason)
    BY <2>1, ReasonTagType
  <2>3. MergeFingerprints(f, g) = IF PairLeq(s, f.hash, t, g.hash) THEN f ELSE g
    BY <1>4 DEF MergeFingerprints
  <2>4. MergeFingerprints(g, f) = IF PairLeq(t, g.hash, s, f.hash) THEN g ELSE f
    BY <1>4 DEF MergeFingerprints
  <2> HIDE DEF s, t
  <2>5. ~(s = t /\ f.hash = g.hash)
    BY <1>4, <2>1, <2>2
  <2>6. PairLeq(s, f.hash, t, g.hash) <=> ~PairLeq(t, g.hash, s, f.hash)
    BY <2>1, <2>2, <2>5, PairOrder
  <2> QED BY <2>3, <2>4, <2>6
<1>5. CASE f # g /\ f.kind = "ByWeight" /\ g.kind = "ByWeight"
  <2> DEFINE a == Digest(f.weights)
             b == Digest(g.weights)
  <2>1. a \in Nat /\ b \in Nat
    BY <1>5, FingerprintFields, DigestAssumption
  <2>2. MergeFingerprints(f, g) = IF a <= b THEN Conflict(a, b) ELSE Conflict(b, a)
    BY <1>5 DEF MergeFingerprints
  <2>3. MergeFingerprints(g, f) = IF b <= a THEN Conflict(b, a) ELSE Conflict(a, b)
    BY <1>5 DEF MergeFingerprints
  <2> HIDE DEF a, b
  <2>4. (a <= b /\ b <= a => a = b) /\ (a <= b \/ b <= a)
    BY <2>1
  <2> QED BY <2>2, <2>3, <2>4
<1>6. CASE f.kind # g.kind
  BY <1>1, <1>6 DEF MergeFingerprints
<1> QED BY <1>1, <1>2, <1>3, <1>4, <1>5, <1>6

\* A merge never says more than its first argument did: the kind gets no
\* better, and the key of an unknown or of a conflict no larger.
THEOREM MergeNoBetter ==
    ASSUME NEW f \in Fingerprint, NEW g \in Fingerprint
    PROVE  NoBetter(MergeFingerprints(f, g), f)
<1>1. f.kind \in {"ByWeight", "Unknown", "Conflict"} /\ g.kind \in {"ByWeight", "Unknown", "Conflict"}
  BY FingerprintFields
<1>2. CASE MergeFingerprints(f, g) = f
  BY <1>2 DEF NoBetter
<1>3. CASE f # g /\ f.kind = "Conflict" /\ g.kind = "Conflict"
  <2>1. /\ f.left \in Nat /\ f.right \in Nat
        /\ g.left \in Nat /\ g.right \in Nat
    BY <1>3, FingerprintFields
  <2>2. CASE PairLeq(f.left, f.right, g.left, g.right)
    <3>1. MergeFingerprints(f, g) = f
      BY <1>3, <2>2 DEF MergeFingerprints
    <3> QED BY <3>1 DEF NoBetter
  <2>3. CASE ~PairLeq(f.left, f.right, g.left, g.right)
    <3>1. MergeFingerprints(f, g) = g
      BY <1>3, <2>3 DEF MergeFingerprints
    <3>2. PairLeq(g.left, g.right, f.left, f.right)
      BY <2>1, <2>3, PairOrder
    <3> QED BY <1>3, <3>1, <3>2 DEF NoBetter
  <2> QED BY <2>2, <2>3
<1>4. CASE f # g /\ f.kind = "Unknown" /\ g.kind = "Unknown"
  <2>1. /\ ReasonTag[f.reason] \in Nat /\ f.hash \in Nat
        /\ ReasonTag[g.reason] \in Nat /\ g.hash \in Nat
    BY <1>4, FingerprintFields, ReasonTagType
  <2>2. CASE PairLeq(ReasonTag[f.reason], f.hash, ReasonTag[g.reason], g.hash)
    <3>1. MergeFingerprints(f, g) = f
      BY <1>4, <2>2 DEF MergeFingerprints
    <3> QED BY <3>1 DEF NoBetter
  <2>3. CASE ~PairLeq(ReasonTag[f.reason], f.hash, ReasonTag[g.reason], g.hash)
    <3>1. MergeFingerprints(f, g) = g
      BY <1>4, <2>3 DEF MergeFingerprints
    <3>2. PairLeq(ReasonTag[g.reason], g.hash, ReasonTag[f.reason], f.hash)
      BY <2>1, <2>3, PairOrder
    <3> QED BY <1>4, <3>1, <3>2 DEF NoBetter
  <2> QED BY <2>2, <2>3
<1>5. CASE f # g /\ f.kind = "ByWeight"
  <2>1. MergeFingerprints(f, g).kind \in {"Unknown", "Conflict"}
    BY <1>1, <1>5 DEF MergeFingerprints, Conflict
  <2> QED BY <1>5, <2>1 DEF NoBetter, Rank
<1>6. CASE f.kind = "Unknown" /\ g.kind = "Conflict"
  <2>1. MergeFingerprints(f, g) = g
    BY <1>6 DEF MergeFingerprints
  <2> QED BY <1>6, <2>1 DEF NoBetter, Rank
<1>7. CASE \/ f.kind = "Unknown" /\ g.kind = "ByWeight"
           \/ f.kind = "Conflict" /\ g.kind # "Conflict"
  BY <1>1, <1>2, <1>7 DEF MergeFingerprints
<1>8. CASE f = g
  BY <1>2, <1>8 DEF MergeFingerprints
<1> QED BY <1>1, <1>3, <1>4, <1>5, <1>6, <1>7, <1>8

\* A known fingerprint survives a merge only when both are that fingerprint, so
\* that a known symbol is never one class's alone (what KnownFromRepr needs).
THEOREM KnownOnlyIfEqual ==
    ASSUME NEW f \in Fingerprint, NEW g \in Fingerprint,
           MergeFingerprints(f, g).kind = "ByWeight"
    PROVE  f = g /\ MergeFingerprints(f, g) = f
<1>1. f.kind \in {"ByWeight", "Unknown", "Conflict"} /\ g.kind \in {"ByWeight", "Unknown", "Conflict"}
  BY FingerprintFields
<1>2. f # g => MergeFingerprints(f, g).kind \in {"Unknown", "Conflict"}
  BY <1>1 DEF MergeFingerprints, Conflict
<1> QED BY <1>2 DEF MergeFingerprints

-----------------------------------------------------------------------------
(* Data of any kind, through the steps of an e-graph *)

\* D gives each worth the data that a class of that worth may have.  Make and
\* merge stay within it.
DataClosed(D) ==
    /\ \A K \in SUBSET Nat : \A n \in Nodes(K) : \A data, worth :
        (/\ \A k \in K : worth[k] \in Worths
         /\ data = [i \in DOMAIN n.kids |-> data[i]]
         /\ \A i \in DOMAIN n.kids : data[i] \in D[worth[n.kids[i]]])
        => Make(n, data) \in D[NodeWorth(n, worth)]
    /\ \A w \in Worths : \A d, e \in D[w] : Merge(d, e).data \in D[w]

HasData(g, D) == \A c \in Classes(g) : g.class[c].data \in D[g.worth[c]]

\* d became e by at most one merge, on either side.
Merged(d, e, S) == e = d \/ \E f \in S : e = Merge(d, f).data \/ e = Merge(f, d).data

\* What a step may do to the data that ids have.
Learns(g, h, D) ==
    /\ HasData(h, D)
    /\ \A i \in Ids(g) : DataOf(g, i) \in D[g.worth[i]] /\ Merged(DataOf(g, i), DataOf(h, i), D[g.worth[i]])

\* modify adds nothing.
NoConstants == \A data : Modify(data) = None

LEMMA NothingModified ==
    ASSUME NoConstants, NEW g, NEW id
    PROVE  ModifyClass(g, id) = g
BY DEF ModifyClass, NoConstants

LEMMA DataOfIds ==
    ASSUME NEW g, Sound(g), NEW D, HasData(g, D), NEW i \in Ids(g)
    PROVE  /\ g.leader[i] \in Classes(g) /\ g.worth[g.leader[i]] = g.worth[i]
           /\ g.worth[i] \in Worths /\ DataOf(g, i) \in D[g.worth[i]]
<1>1. g.leader[i] \in Classes(g) /\ g.worth[i] \in Worths
  BY SoundIdsOf
<1>2. g.worth[g.leader[i]] = g.worth[i]
  BY DEF Sound
<1>3. g.class[g.leader[i]].data \in D[g.worth[g.leader[i]]]
  BY <1>1 DEF HasData
<1> QED BY <1>1, <1>2, <1>3 DEF DataOf

LEMMA LearnsSelf ==
    ASSUME NEW g, Sound(g), NEW D, HasData(g, D)
    PROVE  Learns(g, g, D)
BY DataOfIds DEF Learns, Merged

LEMMA NodeDataWithin ==
    ASSUME NEW g, Sound(g), NEW D, DataClosed(D), HasData(g, D), NEW n \in Nodes(Ids(g))
    PROVE  NodeData(g, n) \in D[NodeWorth(n, g.worth)]
<1> DEFINE data == [i \in DOMAIN n.kids |-> g.class[Find(g, n.kids[i])].data]
           worth == g.worth
           K == Ids(g)
<1>1. K \in SUBSET Nat /\ \A k \in K : worth[k] \in Worths
  BY SoundIdsOf DEF Ids
<1>2. \A i \in DOMAIN n.kids : n.kids[i] \in K
  BY NodeCases
<1>3. \A i \in DOMAIN n.kids : data[i] \in D[worth[n.kids[i]]]
  BY <1>2, DataOfIds DEF DataOf, Find
<1>4. data = [i \in DOMAIN n.kids |-> data[i]]
  OBVIOUS
<1>5. n \in Nodes(K)
  OBVIOUS
<1>6. NodeData(g, n) = Make(n, data)
  BY DEF NodeData
<1> HIDE DEF data, worth, K
<1>7. Make(n, data) \in D[NodeWorth(n, worth)]
  BY <1>1, <1>3, <1>4, <1>5 DEF DataClosed
<1> QED BY <1>6, <1>7 DEF worth

LEMMA NewClassLearns ==
    ASSUME NoConstants, NEW g, Sound(g), NEW D, DataClosed(D), HasData(g, D), NEW n \in Nodes(Ids(g))
    PROVE  Learns(g, NewClass(g, n), D)
<1> DEFINE id == Len(g.leader) + 1
           h == NewClass(g, n)
<1>1. /\ Extends(g, h) /\ h.worth[id] = NodeWorth(n, g.worth)
  BY NoConstantsSound, NewClassSound DEF NoConstants
<1>2. AddsClass(g, h, n, id)
  BY NewClassParts
<1>3. NodeData(g, n) \in D[NodeWorth(n, g.worth)]
  BY NodeDataWithin
<1> HIDE DEF id, h
<1>4. /\ Classes(h) = Classes(g) \cup {id} /\ h.class[id].data = NodeData(g, n)
      /\ \A c \in Classes(g) : h.class[c].data = g.class[c].data
      /\ \A i \in Ids(g) : h.leader[i] = g.leader[i]
  BY <1>2 DEF AddsClass, Find
<1>5. HasData(h, D)
  <2> SUFFICES ASSUME NEW c \in Classes(h) PROVE h.class[c].data \in D[h.worth[c]]
    BY DEF HasData
  <2>1. CASE c \in Classes(g)
    <3>1. h.worth[c] = g.worth[c]
      BY <1>1, <2>1 DEF Extends, Sound
    <3> QED BY <1>4, <2>1, <3>1 DEF HasData
  <2>2. CASE c = id
    BY <1>1, <1>3, <1>4, <2>2
  <2> QED BY <1>4, <2>1, <2>2
<1>6. \A i \in Ids(g) : DataOf(h, i) = DataOf(g, i)
  BY <1>4, DataOfIds DEF DataOf
<1>7. Learns(g, h, D)
  BY <1>5, <1>6, DataOfIds DEF Learns, Merged
<1> QED BY <1>7 DEF h

LEMMA JoinLearns ==
    ASSUME NEW g, Sound(g), NEW D, DataClosed(D), HasData(g, D),
           NEW x \in Classes(g), NEW y \in Classes(g), x # y, g.worth[x] = g.worth[y]
    PROVE  Learns(g, Join(g, x, y), D)
<1> DEFINE h == Join(g, x, y)
<1>1. PICK into \in {x, y}, gone \in {x, y} : into # gone /\ TakesIn(g, h, into, gone)
  BY JoinParts
<1> HIDE DEF h
<1> DEFINE d == g.class[into].data
           e == g.class[gone].data
           nodes == g.class[into].nodes \cup g.class[gone].nodes
           parents == g.class[into].parents \o g.class[gone].parents
           data == Merge(d, e).data
           w == g.worth[into]
<1>2. /\ h.leader = [i \in DOMAIN g.leader |-> IF g.leader[i] = gone THEN into ELSE g.leader[i]]
      /\ Classes(h) = Classes(g) \ {gone} /\ h.worth = g.worth
      /\ \A c \in Classes(h) : c # into => h.class[c] = g.class[c]
      /\ h.class[into] = [nodes |-> nodes, parents |-> parents, data |-> data]
  BY <1>1 DEF TakesIn
<1>3. into \in Classes(g) /\ gone \in Classes(g) /\ g.worth[gone] = w
  BY <1>1
<1>4. w \in Worths
  BY <1>3, SoundIdsOf DEF Sound
<1>5. d \in D[w] /\ e \in D[w]
  BY <1>3 DEF HasData
<1> HIDE DEF nodes, parents
<1>6. h.class[into].data = data
  BY <1>2
<1>7. data \in D[w]
  BY <1>4, <1>5 DEF DataClosed
<1>8. HasData(h, D)
  BY <1>2, <1>6, <1>7 DEF HasData
<1>9. ASSUME NEW i \in Ids(g)
      PROVE  Merged(DataOf(g, i), DataOf(h, i), D[g.worth[i]])
  <2>1. g.leader[i] \in Classes(g) /\ g.worth[g.leader[i]] = g.worth[i] /\ i \in DOMAIN g.leader
    BY DataOfIds, SoundIdsOf
  <2>2. CASE g.leader[i] = gone
    <3>1. h.leader[i] = into /\ g.worth[i] = w
      BY <1>2, <1>3, <2>1, <2>2
    <3>2. DataOf(g, i) = e /\ DataOf(h, i) = Merge(d, e).data
      BY <1>6, <2>2, <3>1 DEF DataOf
    <3> QED BY <1>5, <3>1, <3>2 DEF Merged
  <2>3. CASE g.leader[i] = into
    <3>1. h.leader[i] = into /\ g.worth[i] = w
      BY <1>1, <1>2, <2>1, <2>3
    <3>2. DataOf(g, i) = d /\ DataOf(h, i) = Merge(d, e).data
      BY <1>6, <2>3, <3>1 DEF DataOf
    <3> QED BY <1>5, <3>1, <3>2 DEF Merged
  <2>4. CASE g.leader[i] \notin {into, gone}
    <3>1. h.leader[i] = g.leader[i] /\ g.leader[i] \in Classes(h)
      BY <1>2, <2>1, <2>4
    <3>2. DataOf(h, i) = DataOf(g, i)
      BY <1>2, <2>4, <3>1 DEF DataOf
    <3> QED BY <3>2 DEF Merged
  <2> QED BY <2>2, <2>3, <2>4
<1>10. Learns(g, h, D)
  BY <1>8, <1>9, DataOfIds DEF Learns
<1> QED BY <1>10 DEF h

LEMMA AddNodeLearns ==
    ASSUME NoConstants, NEW g, Sound(g), NEW D, DataClosed(D), HasData(g, D), NEW n \in Nodes(Ids(g))
    PROVE  Learns(g, AddNode(g, n).graph, D)
<1> DEFINE node == Canonical(g, n)
           h == AddNode(g, n).graph
<1>1. node \in Nodes(Ids(g))
  BY CanonicalWorth
<1>2. CASE node \in DOMAIN g.memo
  <2>1. h = g
    BY <1>2 DEF AddNode, Enter
  <2> QED BY <2>1, LearnsSelf
<1>3. CASE node \notin DOMAIN g.memo
  <2>1. h = NewClass(g, node)
    BY <1>3, NothingModified DEF AddNode
  <2> HIDE DEF node, h
  <2>2. Learns(g, h, D)
    BY <1>1, <2>1, NewClassLearns
  <2> QED BY <2>2 DEF h
<1> QED BY <1>2, <1>3

LEMMA UnionLearns ==
    ASSUME NoConstants, NEW g, Sound(g), NEW D, DataClosed(D), HasData(g, D),
           NEW a \in Ids(g), NEW b \in Ids(g), g.worth[a] = g.worth[b]
    PROVE  Learns(g, Union(g, a, b), D)
<1> DEFINE x == Find(g, a)
           y == Find(g, b)
<1>1. CASE x = y
  BY <1>1, LearnsSelf DEF Union
<1>2. CASE x # y
  <2>1. Union(g, a, b) = Join(g, x, y)
    BY <1>2, NothingModified DEF Union, JoinIds
  <2>2. x \in Classes(g) /\ y \in Classes(g) /\ g.worth[x] = g.worth[y]
    BY DataOfIds DEF Find
  <2> HIDE DEF x, y
  <2> QED BY <1>2, <2>1, <2>2, JoinLearns
<1> QED BY <1>1, <1>2

LEMMA RepairMemoLearns ==
    ASSUME NoConstants, NEW g, Sound(g), NEW D, DataClosed(D), HasData(g, D), g.pending # <<>>
    PROVE  Learns(g, RepairMemo(g), D)
<1> DEFINE entry == g.pending[Len(g.pending)]
           n == Canonical(g, entry[1])
           id == entry[2]
<1>1. PICK h : /\ Sound(h) /\ h.leader = g.leader /\ h.class = g.class /\ h.worth = g.worth
               /\ RepairMemo(g) = IF n \in DOMAIN g.memo THEN Union(h, g.memo[n], id) ELSE h
               /\ n \in DOMAIN g.memo => /\ g.memo[n] \in Ids(h) /\ id \in Ids(h)
                                          /\ h.worth[g.memo[n]] = h.worth[id]
  BY RepairMemoSteps
<1> HIDE DEF n, id
<1>2. HasData(h, D) /\ Ids(h) = Ids(g) /\ \A i : DataOf(h, i) = DataOf(g, i)
  BY <1>1 DEF HasData, Classes, Ids, DataOf
<1>3. Learns(h, RepairMemo(g), D)
  <2>1. n \in DOMAIN g.memo => Learns(h, Union(h, g.memo[n], id), D)
    BY <1>1, <1>2, UnionLearns
  <2> QED BY <1>1, <1>2, <2>1, LearnsSelf
<1> QED BY <1>1, <1>2, <1>3 DEF Learns

LEMMA RepairDataLearns ==
    ASSUME NoConstants, NEW g, Sound(g), NEW D, DataClosed(D), HasData(g, D), NEW entry \in g.dirty
    PROVE  Learns(g, RepairData(g, entry), D)
<1> DEFINE id == Find(g, entry[2])
           old == g.class[id]
           new == NodeData(g, entry[1])
           data == Merge(old.data, new).data
           w == g.worth[id]
<1>1. PICK h : Repaired(g, entry, h) /\ RepairData(g, entry) = h
  <2>1. PICK h, k : /\ Repaired(g, entry, h) /\ Repaired(g, entry, k)
                    /\ RepairData(g, entry) =
                            IF Merge(old.data, new).changed THEN ModifyClass(k, id) ELSE h
    BY RepairDataSteps
  <2>2. ModifyClass(k, id) = k
    BY NothingModified
  <2> QED BY <2>1, <2>2
<1>2. /\ h.leader = g.leader /\ h.worth = g.worth
      /\ Classes(h) = Classes(g) /\ id \in Classes(g)
      /\ \A c \in Classes(g) : c # id => h.class[c] = g.class[c]
      /\ h.class[id] = [nodes |-> old.nodes, parents |-> old.parents, data |-> data]
  BY <1>1, RepairedParts
<1>3. /\ entry[1] \in Nodes(Ids(g)) /\ entry[2] \in Ids(g)
      /\ NodeWorth(entry[1], g.worth) = g.worth[entry[2]]
  BY DEF Sound, Entries
<1>4. w = g.worth[entry[2]] /\ w \in Worths
  BY <1>3, DataOfIds DEF Find
<1>5. new \in D[w]
  BY <1>3, <1>4, NodeDataWithin
<1>6. old.data \in D[w]
  BY <1>2 DEF HasData
<1>7. data \in D[w]
  BY <1>4, <1>5, <1>6 DEF DataClosed
<1> DEFINE nodes == old.nodes
           parents == old.parents
           before == old.data
<1>8. h.class[id] = [nodes |-> nodes, parents |-> parents, data |-> data] /\ g.class[id].data = before
  BY <1>2
<1> HIDE DEF id, new, w, nodes, parents, before
<1>9. data = Merge(before, new).data /\ before \in D[w]
  BY <1>6 DEF before
<1> HIDE DEF data, old
<1>10. h.class[id].data = data
  BY <1>8
<1>11. HasData(h, D)
  BY <1>2, <1>7, <1>10 DEF HasData, w
<1>12. ASSUME NEW i \in Ids(g)
       PROVE  Merged(DataOf(g, i), DataOf(h, i), D[g.worth[i]])
  <2>1. g.leader[i] \in Classes(g) /\ g.worth[g.leader[i]] = g.worth[i]
    BY DataOfIds
  <2>2. CASE g.leader[i] = id
    <3>1. DataOf(g, i) = before /\ DataOf(h, i) = Merge(before, new).data /\ g.worth[i] = w
      BY <1>2, <1>8, <1>9, <1>10, <2>1, <2>2 DEF DataOf, w
    <3> QED BY <1>5, <3>1 DEF Merged
  <2>3. CASE g.leader[i] # id
    BY <1>2, <2>1, <2>3 DEF DataOf, Merged
  <2> QED BY <2>2, <2>3
<1>13. Learns(g, h, D)
  BY <1>11, <1>12, DataOfIds DEF Learns
<1> QED BY <1>1, <1>13

LEMMA CanonicalNodesLearns ==
    ASSUME NEW g, Sound(g), NEW D, HasData(g, D)
    PROVE  Learns(g, CanonicalNodes(g), D)
<1> DEFINE h == CanonicalNodes(g)
<1>1. /\ h = [leader |-> g.leader, class |-> h.class, memo |-> g.memo, pending |-> g.pending,
              dirty |-> g.dirty, worth |-> g.worth, defined |-> g.defined]
      /\ Classes(h) = Classes(g) /\ \A c \in Classes(g) : h.class[c].data = g.class[c].data
  BY CanonicalNodesParts
<1> HIDE DEF h
<1>2. h.leader = g.leader /\ h.worth = g.worth
  BY <1>1
<1>3. HasData(h, D)
  BY <1>1, <1>2 DEF HasData
<1>4. \A i \in Ids(g) : DataOf(h, i) = DataOf(g, i)
  BY <1>1, <1>2, DataOfIds DEF DataOf
<1>5. Learns(g, h, D)
  BY <1>3, <1>4, DataOfIds DEF Learns, Merged
<1> QED BY <1>5 DEF h

\* Every step of the runner keeps the data within D, and merges at most once.
LEMMA LearnsNext ==
    ASSUME NoConstants, SInv, NEW D, DataClosed(D), HasData(graph, D), [Rewrite \/ HandOver]_runner
    PROVE  Learns(graph, graph', D)
<1>1. Sound(graph)
  BY DEF SInv
<1>2. CASE AddNext
  <2> DEFINE n == Subst(List[Len(ids) - Given + 1], ids)
  <2>1. Adding /\ ~ListDone /\ graph' = AddNode(graph, n).graph
    BY <1>2 DEF AddNext
  <2>2. n \in Nodes(Ids(graph))
    BY <2>1, NextNode
  <2> HIDE DEF n
  <2> QED BY <1>1, <2>1, <2>2, AddNodeLearns
<1>3. CASE UniteMatch
  <2> DEFINE id == ids[Len(ids)]
             class == match[LhsSize(Rules[rule])]
  <2>1. phase = "instantiate" /\ ListDone /\ graph' = Union(graph, id, class)
    BY <1>3 DEF UniteMatch
  <2>2. id \in Ids(graph) /\ class \in Ids(graph) /\ graph.worth[id] = graph.worth[class]
    BY <2>1, UnitedWorth
  <2> HIDE DEF id, class
  <2> QED BY <1>1, <2>1, <2>2, UnionLearns
<1>4. CASE RepairNode
  BY <1>1, <1>4, RepairMemoLearns DEF RepairNode
<1>5. CASE RepairAnalysis
  BY <1>1, <1>5, RepairDataLearns DEF RepairAnalysis
<1>6. CASE Rebuilt
  BY <1>1, <1>6, CanonicalNodesLearns DEF Rebuilt
<1>7. CASE \/ Start \/ Search \/ ApplyMatch \/ NextRule \/ LastIteration \/ HandOver
           \/ UNCHANGED runner
  <2>1. graph' = graph
    BY <1>7 DEF Start, Search, ApplyMatch, NextRule, LastIteration, HandOver, runner
  <2> QED BY <1>1, <2>1, LearnsSelf
<1> QED BY <1>2, <1>3, <1>4, <1>5, <1>6, <1>7 DEF Rewrite

-----------------------------------------------------------------------------
(* The data of SymbolAnalysis *)

CONSTANT Reprs      \* the representatives there are

\* The analysis that simplify_symbol_aware gives to egg.
SymAnalysis ==
    /\ \A n, data : Make(n, data) = SymMake(n, data)
    /\ \A to, from : Merge(to, from) = SymMerge(to, from)
    /\ \A data : Modify(data) = SymModify(data)

Data == [repr : Reprs, fp : Fingerprint, const : Coeff \cup {None}]

\* Whatever the data of its children, a node has a representative; a
\* representative has a fingerprint and a size, and two of them are told apart
\* by the order of canonical strings.
ReprsTyped ==
    /\ \A n \in Nodes(Nat) : \A data \in [DOMAIN n.kids -> Data] : MakeRepr(n, data) \in Reprs
    /\ \A r \in Reprs : ReprFingerprint(r) \in Fingerprint /\ ReprSize(r) \in Nat
    /\ \A r, s \in Reprs : r = s \/ ReprBefore(r, s) \/ ReprBefore(s, r)

\* The data a class of worth w can have: a known fingerprint is that of the
\* representative, a constant is what the class is worth.
DataWorth ==
    [w \in Worths |->
        {d \in Data : /\ d.fp.kind = "ByWeight" => d.fp = ReprFingerprint(d.repr)
                      /\ d.const # None => w = [p \in Points |-> d.const]}]

LEMMA SymMakeWithin ==
    ASSUME SymAnalysis, ReprsTyped, NEW K \in SUBSET Nat, NEW n \in Nodes(K), NEW data, NEW worth,
           \A k \in K : worth[k] \in Worths,
           data = [i \in DOMAIN n.kids |-> data[i]],
           \A i \in DOMAIN n.kids : data[i] \in DataWorth[worth[n.kids[i]]]
    PROVE  Make(n, data) \in DataWorth[NodeWorth(n, worth)]
<1> DEFINE repr == MakeRepr(n, data)
           fp == ReprFingerprint(repr)
           consts == [i \in DOMAIN data |-> data[i].const]
           const == FoldMake(n, consts)
           w == NodeWorth(n, worth)
           d == [repr |-> repr, fp |-> fp, const |-> const]
<1>1. Make(n, data) = d
  BY DEF SymAnalysis, SymMake, ConstValue
<1>2. w \in Worths
  BY NodeWorthType
<1>3. \A i \in DOMAIN n.kids :
        /\ data[i] \in Data
        /\ data[i].const # None => worth[n.kids[i]] = [p \in Points |-> data[i].const]
  <2> TAKE i \in DOMAIN n.kids
  <2>1. n.kids[i] \in K
    BY NodeCases
  <2>2. worth[n.kids[i]] \in Worths
    BY <2>1
  <2> QED BY <2>2 DEF DataWorth
<1>4. data \in [DOMAIN n.kids -> Data] /\ DOMAIN data = DOMAIN n.kids
  BY <1>3
<1>5. n \in Nodes(Nat)
  BY NodesMonotone
<1>6. repr \in Reprs /\ fp \in Fingerprint
  BY <1>4, <1>5 DEF ReprsTyped
<1>7. \A i \in DOMAIN n.kids :
        consts[i] # None => consts[i] \in Coeff /\ worth[n.kids[i]] = [p \in Points |-> consts[i]]
  <2> TAKE i \in DOMAIN n.kids
  <2>1. consts[i] = data[i].const
    BY <1>4
  <2>2. data[i].const \in Coeff \cup {None}
    BY <1>3 DEF Data
  <2> QED BY <1>3, <2>1, <2>2
<1> HIDE DEF consts
<1>8. const # None => const \in Coeff /\ w = [p \in Points |-> const]
  BY <1>7, FoldMakeExact
<1> HIDE DEF repr, const, w
<1>9. d.fp = fp /\ d.repr = repr /\ d.const = const
  OBVIOUS
<1>10. d \in Data
  BY <1>6, <1>8 DEF Data
<1> HIDE DEF d
<1>11. d \in DataWorth[w]
  BY <1>2, <1>8, <1>9, <1>10 DEF DataWorth
<1> QED BY <1>1, <1>11 DEF w

\* The fields that a merge chooses.
LEMMA MergeFields ==
    ASSUME SymAnalysis, NEW d \in Data, NEW e \in Data
    PROVE  LET m == Merge(d, e).data
           IN  /\ m = [repr |-> m.repr, fp |-> m.fp, const |-> m.const]
               /\ m.repr = IF PreferRepr(d.repr, e.repr) THEN e.repr ELSE d.repr
               /\ m.fp = MergeFingerprints(d.fp, e.fp)
               /\ m.const \in {d.const, e.const, None}
<1> DEFINE repr == IF PreferRepr(d.repr, e.repr) THEN e.repr ELSE d.repr
           fp == MergeFingerprints(d.fp, e.fp)
           const == IF d.const = None THEN e.const
                    ELSE IF e.const \in {None, d.const} THEN d.const ELSE None
           m == Merge(d, e).data
<1>1. m = [repr |-> repr, fp |-> fp, const |-> const]
  BY DEF SymAnalysis, SymMerge
<1>2. const \in {d.const, e.const, None}
  OBVIOUS
<1> HIDE DEF repr, fp, const, m
<1>3. m.repr = repr /\ m.fp = fp /\ m.const = const /\ m = [repr |-> m.repr, fp |-> m.fp, const |-> m.const]
  BY <1>1
<1> QED BY <1>2, <1>3 DEF repr, fp, m

LEMMA DataFields ==
    ASSUME NEW d \in Data
    PROVE  d.repr \in Reprs /\ d.fp \in Fingerprint /\ d.const \in Coeff \cup {None}
BY DEF Data

LEMMA SymMergeWithin ==
    ASSUME SymAnalysis, NEW w \in Worths, NEW d \in DataWorth[w], NEW e \in DataWorth[w]
    PROVE  Merge(d, e).data \in DataWorth[w]
<1> DEFINE m == Merge(d, e).data
<1>1. /\ d \in Data /\ (d.fp.kind = "ByWeight" => d.fp = ReprFingerprint(d.repr))
      /\ d.const # None => w = [p \in Points |-> d.const]
      /\ e \in Data /\ (e.fp.kind = "ByWeight" => e.fp = ReprFingerprint(e.repr))
      /\ e.const # None => w = [p \in Points |-> e.const]
  BY DEF DataWorth
<1>2. /\ m = [repr |-> m.repr, fp |-> m.fp, const |-> m.const]
      /\ m.repr = IF PreferRepr(d.repr, e.repr) THEN e.repr ELSE d.repr
      /\ m.fp = MergeFingerprints(d.fp, e.fp)
      /\ m.const \in {d.const, e.const, None}
  BY <1>1, MergeFields
<1> HIDE DEF m
<1>3. m.fp \in Fingerprint /\ (m.fp.kind = "ByWeight" => d.fp = e.fp /\ m.fp = d.fp)
  BY <1>1, <1>2, DataFields, MergeType, KnownOnlyIfEqual
<1>4. m.repr \in {d.repr, e.repr}
  BY <1>2
<1>5. m \in Data
  <2>1. m.repr \in Reprs /\ m.const \in Coeff \cup {None}
    BY <1>1, <1>2, <1>4, DataFields
  <2> QED BY <1>2, <1>3, <2>1 DEF Data
<1>6. m.fp.kind = "ByWeight" => m.fp = ReprFingerprint(m.repr)
  BY <1>1, <1>3, <1>4
<1>7. m.const # None => w = [p \in Points |-> m.const]
  BY <1>1, <1>2
<1>8. m \in DataWorth[w]
  BY <1>5, <1>6, <1>7 DEF DataWorth
<1> QED BY <1>8 DEF m

LEMMA SymDataClosed ==
    ASSUME SymAnalysis, ReprsTyped
    PROVE  DataClosed(DataWorth)
BY SymMakeWithin, SymMergeWithin DEF DataClosed

\* From one merge to the next the representative gets better, and the
\* fingerprint no better.
LEMMA MergeDirection ==
    ASSUME SymAnalysis, ReprsTyped, NEW d \in Data, NEW e, NEW S \in SUBSET Data, Merged(d, e, S)
    PROVE  /\ e.repr = d.repr \/ PreferRepr(d.repr, e.repr)
           /\ NoBetter(e.fp, d.fp)
<1>1. CASE e = d
  BY <1>1 DEF NoBetter
<1>2. ASSUME NEW f \in S, e = Merge(d, f).data
      PROVE  /\ e.repr = d.repr \/ PreferRepr(d.repr, e.repr)
             /\ NoBetter(e.fp, d.fp)
  <2>1. e.repr = (IF PreferRepr(d.repr, f.repr) THEN f.repr ELSE d.repr)
        /\ e.fp = MergeFingerprints(d.fp, f.fp)
    BY <1>2, MergeFields
  <2>2. NoBetter(e.fp, d.fp)
    BY <2>1, DataFields, MergeNoBetter
  <2> QED BY <2>1, <2>2
<1>3. ASSUME NEW f \in S, e = Merge(f, d).data
      PROVE  /\ e.repr = d.repr \/ PreferRepr(d.repr, e.repr)
             /\ NoBetter(e.fp, d.fp)
  <2>1. e.repr = (IF PreferRepr(f.repr, d.repr) THEN d.repr ELSE f.repr)
        /\ e.fp = MergeFingerprints(f.fp, d.fp)
    BY <1>3, MergeFields
  <2>2. d.fp \in Fingerprint /\ f.fp \in Fingerprint /\ d.repr \in Reprs /\ f.repr \in Reprs
    BY DataFields
  <2>3. NoBetter(e.fp, d.fp)
    BY <2>1, <2>2, MergeCommutes, MergeNoBetter
  <2>4. ~PreferRepr(f.repr, d.repr) => f.repr = d.repr \/ PreferRepr(d.repr, f.repr)
    <3>1. ReprSize(d.repr) \in Nat /\ ReprSize(f.repr) \in Nat
      BY <2>2 DEF ReprsTyped
    <3>2. f.repr = d.repr \/ ReprBefore(f.repr, d.repr) \/ ReprBefore(d.repr, f.repr)
      BY <2>2 DEF ReprsTyped
    <3> QED BY <3>1, <3>2 DEF PreferRepr
  <2> QED BY <2>1, <2>3, <2>4
<1> QED BY <1>1, <1>2, <1>3 DEF Merged

SymInv == SInv /\ HasData(graph, DataWorth)

LEMMA SymInvInit == RunnerInit => SymInv
<1>1. Classes(EmptyGraph) = {}
  BY DEF EmptyGraph, Classes
<1>2. RunnerInit => HasData(graph, DataWorth)
  BY <1>1 DEF RunnerInit, HasData
<1> QED BY <1>2, SInvInit DEF SymInv

LEMMA SymNoConstants ==
    ASSUME SymAnalysis
    PROVE  NoConstants /\ AnalysisSound
BY NoConstantsSound DEF SymAnalysis, SymModify, NoConstants

LEMMA SymInvNext ==
    ASSUME SymAnalysis, ReprsTyped, SymInv, [Rewrite \/ HandOver]_runner
    PROVE  SymInv' /\ Learns(graph, graph', DataWorth)
<1>1. SInv'
  BY SymNoConstants, SInvNext DEF SymInv
<1>2. Learns(graph, graph', DataWorth)
  BY SymNoConstants, SymDataClosed, LearnsNext DEF SymInv
<1>3. HasData(graph, DataWorth)'
  BY <1>2 DEF Learns, HasData, Classes
<1> QED BY <1>1, <1>2, <1>3 DEF SymInv

\* What a step of the runner does to the data of an id that is there.
LEMMA DataStep ==
    ASSUME SymAnalysis, ReprsTyped, SymInv, [Rewrite \/ HandOver]_runner,
           NEW id \in DOMAIN graph.leader
    PROVE  LET old == DataOf(graph, id)
               new == DataOf(graph', id)
           IN  /\ new.repr = old.repr \/ PreferRepr(old.repr, new.repr)
               /\ NoBetter(new.fp, old.fp)
<1>1. Sound(graph) /\ Learns(graph, graph', DataWorth)
  BY SymInvNext DEF SymInv, SInv
<1>2. id \in Ids(graph) /\ graph.worth[id] \in Worths
  BY <1>1, SoundIdsOf
<1> DEFINE D == DataWorth[graph.worth[id]]
<1>3. D \in SUBSET Data
  BY <1>2 DEF DataWorth
<1>4. DataOf(graph, id) \in D /\ Merged(DataOf(graph, id), DataOf(graph', id), D)
  BY <1>1, <1>2 DEF Learns
<1>5. DataOf(graph, id) \in Data
  BY <1>3, <1>4
<1> HIDE DEF D
<1> QED BY <1>3, <1>4, <1>5, MergeDirection

LEMMA SymInvKnown ==
    ASSUME SymInv
    PROVE  KnownFromRepr
<1> SUFFICES ASSUME NEW k \in Classes(graph), graph.class[k].data.fp.kind = "ByWeight"
             PROVE  graph.class[k].data.fp = ReprFingerprint(graph.class[k].data.repr)
  BY DEF KnownFromRepr
<1>1. graph.worth[k] \in Worths
  BY SoundIdsOf DEF SymInv, SInv, Sound
<1>2. graph.class[k].data \in DataWorth[graph.worth[k]]
  BY DEF SymInv, HasData
<1> QED BY <1>1, <1>2 DEF DataWorth

\* A known fingerprint is always that of the class's representative, whichever
\* merges replaced the one or the other.
THEOREM KnownStaysFromRepr ==
    SymAnalysis /\ ReprsTyped => (SaturationSpec => []KnownFromRepr)
<1> SUFFICES ASSUME SymAnalysis, ReprsTyped PROVE SaturationSpec => []KnownFromRepr
  OBVIOUS
<1>1. SymInv /\ [Rewrite \/ HandOver]_runner => SymInv'
  BY SymInvNext
<1> QED BY <1>1, SymInvInit, SymInvKnown, PTL DEF SaturationSpec

\* A constant that the analysis gives a class is what its expressions are worth
\* at every sample point, although merge drops two constants that differ
\* without an error: no two ever do.
AwareConstants ==
    \A k \in Classes(graph) :
        LET const == graph.class[k].data.const
        IN  const # None => const \in Coeff /\ graph.worth[k] = [p \in Points |-> const]

THEOREM AwareConstantsExact ==
    SymAnalysis /\ ReprsTyped => (SaturationSpec => []AwareConstants)
<1> SUFFICES ASSUME SymAnalysis, ReprsTyped PROVE SaturationSpec => []AwareConstants
  OBVIOUS
<1>1. SymInv /\ [Rewrite \/ HandOver]_runner => SymInv'
  BY SymInvNext
<1>2. SymInv => AwareConstants
  <2> SUFFICES ASSUME SymInv, NEW k \in Classes(graph), graph.class[k].data.const # None
               PROVE  /\ graph.class[k].data.const \in Coeff
                      /\ graph.worth[k] = [p \in Points |-> graph.class[k].data.const]
    BY DEF AwareConstants
  <2>1. graph.worth[k] \in Worths
    BY SoundIdsOf DEF SymInv, SInv, Sound
  <2>2. graph.class[k].data \in DataWorth[graph.worth[k]]
    BY DEF SymInv, HasData
  <2>3. /\ graph.class[k].data \in Data
        /\ graph.worth[k] = [p \in Points |-> graph.class[k].data.const]
    BY <2>1, <2>2 DEF DataWorth
  <2> QED BY <2>3, DataFields
<1> QED BY <1>1, <1>2, SymInvInit, PTL DEF SaturationSpec

\* The representative of an id's class only gets smaller or comes before in
\* order, which is what lets the analysis settle.
THEOREM ReprsImprove ==
    SymAnalysis /\ ReprsTyped => (SaturationSpec => ReprImproves)
<1> SUFFICES ASSUME SymAnalysis, ReprsTyped PROVE SaturationSpec => ReprImproves
  OBVIOUS
<1> DEFINE Improves == \A id \in DOMAIN graph.leader :
                            LET old == DataOf(graph, id).repr
                                new == DataOf(graph', id).repr
                            IN  \/ new = old
                                \/ ReprSize(new) < ReprSize(old)
                                \/ ReprSize(new) = ReprSize(old) /\ ReprBefore(new, old)
<1>1. SymInv /\ [Rewrite \/ HandOver]_runner => SymInv' /\ [Improves]_graph
  BY SymInvNext, DataStep DEF PreferRepr
<1>2. ReprImproves <=> [][Improves]_graph
  BY DEF ReprImproves
<1> HIDE DEF Improves
<1> QED BY <1>1, <1>2, SymInvInit, PTL DEF SaturationSpec

\* No union and no repair makes a class known again that was unknown or in
\* conflict.
THEOREM FingerprintsDegrade ==
    SymAnalysis /\ ReprsTyped => (SaturationSpec => FingerprintDegrades)
<1> SUFFICES ASSUME SymAnalysis, ReprsTyped PROVE SaturationSpec => FingerprintDegrades
  OBVIOUS
<1> DEFINE Degrades == \A id \in DOMAIN graph.leader :
                            NoBetter(DataOf(graph', id).fp, DataOf(graph, id).fp)
<1>1. SymInv /\ [Rewrite \/ HandOver]_runner => SymInv' /\ [Degrades]_graph
  BY SymInvNext, DataStep
<1>2. FingerprintDegrades <=> [][Degrades]_graph
  BY DEF FingerprintDegrades
<1> HIDE DEF Degrades
<1> QED BY <1>1, <1>2, SymInvInit, PTL DEF SaturationSpec
=============================================================================
