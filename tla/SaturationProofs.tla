-------------------------- MODULE SaturationProofs --------------------------
(***************************************************************************)
(* Proofs about rewriting: whatever rules, congruence and the analysis     *)
(* unite has one value (ClassesSound), for every analysis whose constants  *)
(* are exact; constant folding is such an analysis, and finds a constant   *)
(* exactly where there is a number (ConstantsExact); and no exponent gets  *)
(* out of the class of its integer (ExponentsStayIntegers), on which       *)
(* lifting relies.                                                         *)
(***************************************************************************)
EXTENDS ConstFold, NaturalLemmas, FiniteSetTheorems, SequenceTheorems

-----------------------------------------------------------------------------
(* Powers *)

\* h computes the first n powers of x.
ComputesPowers(h, x, n) ==
    /\ h \in [Nat -> Coeff]
    /\ h[0] = One
    /\ \A k \in 1 .. n : h[k] = Times(x, h[k - 1])

LEMMA PowersExist ==
    ASSUME NEW x \in Coeff
    PROVE  \A n \in Nat : \E h : ComputesPowers(h, x, n)
<1> DEFINE Good == {n \in Nat : \E h : ComputesPowers(h, x, n)}
<1>1. 0 \in Good
  <2>1. ComputesPowers([k \in Nat |-> One], x, 0)
    BY CoeffAssumption DEF ComputesPowers, NonZero
  <2> QED BY <2>1
<1>2. ASSUME NEW n \in Nat, n \in Good
      PROVE  n + 1 \in Good
  <2>1. PICK h : ComputesPowers(h, x, n)
    BY <1>2
  <2> DEFINE next == [h EXCEPT ![n + 1] = Times(x, h[n])]
  <2>2. h \in [Nat -> Coeff] /\ Times(x, h[n]) \in Coeff
    BY <2>1, CoeffAssumption DEF ComputesPowers
  <2>3. next \in [Nat -> Coeff] /\ \A k \in 0 .. n : next[k] = h[k]
    BY <2>2
  <2>4. \A k \in 1 .. n + 1 : next[k] = Times(x, next[k - 1])
    <3> TAKE k \in 1 .. n + 1
    <3>1. CASE k = n + 1
      <4>1. next[k] = Times(x, h[n]) /\ next[n] = h[n] /\ k - 1 = n
        BY <2>2, <2>3, <3>1
      <4> QED BY <4>1
    <3>2. CASE k # n + 1
      <4>1. k \in 1 .. n /\ k - 1 \in 0 .. n /\ k \in 0 .. n
        BY <3>2
      <4> QED BY <2>1, <2>3, <4>1 DEF ComputesPowers
    <3> QED BY <3>1, <3>2
  <2>5. next[0] = One
    BY <2>1, <2>3 DEF ComputesPowers
  <2>6. ComputesPowers(next, x, n + 1)
    BY <2>3, <2>4, <2>5 DEF ComputesPowers
  <2> QED BY <2>6
<1>3. Nat \subseteq Good
  <2> HIDE DEF Good
  <2> QED BY <1>1, <1>2, NatSetInduction
<1> QED BY <1>3

LEMMA PowersAgree ==
    ASSUME NEW x \in Coeff, NEW n \in Nat, NEW m \in Nat, NEW h, NEW g,
           ComputesPowers(h, x, n), ComputesPowers(g, x, m)
    PROVE  \A k \in Nat : k <= n /\ k <= m => h[k] = g[k]
<1> DEFINE Good == {k \in Nat : k <= n /\ k <= m => h[k] = g[k]}
<1>1. 0 \in Good
  BY DEF ComputesPowers
<1>2. ASSUME NEW k \in Nat, k \in Good
      PROVE  k + 1 \in Good
  <2> SUFFICES ASSUME k + 1 <= n, k + 1 <= m PROVE h[k + 1] = g[k + 1]
    OBVIOUS
  <2>1. h[k] = g[k] /\ k + 1 \in 1 .. n /\ k + 1 \in 1 .. m /\ (k + 1) - 1 = k
    BY <1>2
  <2> QED BY <2>1 DEF ComputesPowers
<1>3. Nat \subseteq Good
  <2> HIDE DEF Good
  <2> QED BY <1>1, <1>2, NatSetInduction
<1> QED BY <1>3

\* The recursive definition of Power has a solution.
LEMMA PowerRecursion ==
    ASSUME NEW x \in Coeff
    PROVE  /\ Power(x, 0) = One
           /\ \A n \in Nat : Power(x, n) \in Coeff
           /\ \A n \in Nat : Power(x, n + 1) = Times(x, Power(x, n))
<1> DEFINE Body(p) == [k \in Nat |-> IF k = 0 THEN One ELSE Times(x, p[k - 1])]
           upTo == [k \in Nat |-> CHOOSE h : ComputesPowers(h, x, k)]
           g == [k \in Nat |-> upTo[k][k]]
           p == CHOOSE p : p = Body(p)
<1>1. \A k \in Nat : ComputesPowers(upTo[k], x, k)
  BY PowersExist
<1> HIDE DEF upTo
<1>2. \A k \in Nat : g[k] \in Coeff
  BY <1>1 DEF ComputesPowers
<1>3. \A k \in Nat : k # 0 => g[k] = Times(x, g[k - 1])
  <2> SUFFICES ASSUME NEW k \in Nat, k # 0 PROVE g[k] = Times(x, g[k - 1])
    OBVIOUS
  <2>1. k - 1 \in Nat /\ k - 1 <= k /\ k \in 1 .. k
    OBVIOUS
  <2>2. upTo[k][k] = Times(x, upTo[k][k - 1])
    BY <1>1, <2>1 DEF ComputesPowers
  <2>3. upTo[k][k - 1] = upTo[k - 1][k - 1]
    <3>1. ComputesPowers(upTo[k], x, k) /\ ComputesPowers(upTo[k - 1], x, k - 1)
      BY <1>1, <2>1
    <3> QED BY <2>1, <3>1, PowersAgree
  <2> QED BY <2>1, <2>2, <2>3
<1>4. g[0] = One
  BY <1>1 DEF ComputesPowers
<1>5. g = Body(g)
  BY <1>3, <1>4
<1> HIDE DEF g
<1>6. p = Body(p)
  BY <1>5
<1>7. \A n : Power(x, n) = p[n]
  BY DEF Power
<1> HIDE DEF p
<1>8. p[0] = One /\ \A n \in Nat : p[n + 1] = Times(x, p[n])
  <2>1. \A n \in Nat : n + 1 \in Nat /\ n + 1 # 0 /\ (n + 1) - 1 = n
    OBVIOUS
  <2> QED BY <1>6, <2>1
<1>9. Nat \subseteq {n \in Nat : p[n] \in Coeff}
  <2> DEFINE Good == {n \in Nat : p[n] \in Coeff}
  <2>1. 0 \in Good
    BY <1>8, CoeffAssumption DEF NonZero
  <2>2. ASSUME NEW n \in Nat, n \in Good
        PROVE  n + 1 \in Good
    <3>1. Times(x, p[n]) \in Coeff
      BY <2>2, CoeffAssumption
    <3>2. p[n + 1] \in Coeff /\ n + 1 \in Nat
      BY <1>8, <3>1
    <3> QED BY <3>2
  <2> HIDE DEF Good
  <2>3. Nat \subseteq Good
    BY <2>1, <2>2, NatSetInduction
  <2> QED BY <2>3 DEF Good
<1> QED BY <1>7, <1>8, <1>9

LEMMA IntPowerType ==
    ASSUME NEW x \in Coeff, NEW n \in Int, ~(n < 0 /\ x = Zero)
    PROVE  IntPower(x, n) \in Coeff
<1>1. CASE n < 0
  <2>1. Recip(x) \in Coeff /\ 0 - n \in Nat
    BY <1>1, CoeffAssumption DEF NonZero
  <2> QED BY <1>1, <2>1, PowerRecursion DEF IntPower
<1>2. CASE ~(n < 0)
  BY <1>2, PowerRecursion DEF IntPower
<1> QED BY <1>1, <1>2

LEMMA SmallPowers ==
    ASSUME NEW x \in Coeff
    PROVE  IntPower(x, 0) = One /\ IntPower(x, 1) = x
<1>1. Power(x, 0) = One /\ Power(x, 0 + 1) = Times(x, Power(x, 0)) /\ Times(x, One) = x
  BY PowerRecursion, CoeffAssumption
<1> QED BY <1>1 DEF IntPower

-----------------------------------------------------------------------------
(* What nodes are worth *)

Worths == [Points -> Coeff]

LEMMA NodeCases ==
    ASSUME NEW K, NEW n \in Nodes(K)
    PROVE  /\ n = [op |-> n.op, val |-> n.val, kids |-> n.kids]
           /\ \/ n.op = "num" /\ n.val \in Coeff /\ n.kids \in [1 .. 0 -> K]
              \/ n.op = "var" /\ n.val \in Names /\ n.kids \in [1 .. 0 -> K]
              \/ n.op \in {"+", "*", "^"} /\ n.val = 0 /\ n.kids \in [1 .. 2 -> K]
              \/ n.op \in {"log", "li2"} /\ n.val = 0 /\ n.kids \in [1 .. 1 -> K]
BY DEF Nodes

LEMMA ValueType ==
    ASSUME NEW K, NEW n \in Nodes(K), NEW args, NEW p \in Points,
           \A i \in DOMAIN n.kids : args[i] \in Coeff
    PROVE  ValueOf(n.op, n.val, args, p) \in Coeff
<1>1. CASE n.op = "num" /\ n.val \in Coeff
  BY <1>1 DEF ValueOf
<1>2. CASE n.op = "var" /\ n.val \in Names
  BY <1>2, ValuesAssumption DEF ValueOf
<1>3. CASE n.op \in {"+", "*", "^"} /\ n.kids \in [1 .. 2 -> K]
  <2>1. args[1] \in Coeff /\ args[2] \in Coeff
    BY <1>3
  <2>2. CASE n.op = "+"
    BY <2>1, <2>2, CoeffAssumption DEF ValueOf
  <2>3. CASE n.op = "*"
    BY <2>1, <2>3, CoeffAssumption DEF ValueOf
  <2>4. CASE n.op = "^"
    <3>1. Undefined(args[1], args[2]) \in Coeff /\ ExponentOf(args[2]) \in Int \cup {None}
      BY <2>1, ValuesAssumption
    <3>2. PowDefined(args[1], args[2]) => IntPower(args[1], ExponentOf(args[2])) \in Coeff
      BY <2>1, <3>1, IntPowerType DEF PowDefined
    <3> QED BY <2>4, <3>1, <3>2 DEF ValueOf
  <2> QED BY <1>3, <2>2, <2>3, <2>4
<1>4. CASE n.op \in {"log", "li2"} /\ n.kids \in [1 .. 1 -> K]
  <2>1. args[1] \in Coeff
    BY <1>4
  <2> QED BY <1>4, <2>1, ValuesAssumption DEF ValueOf
<1> QED BY <1>1, <1>2, <1>3, <1>4, NodeCases

LEMMA NodeWorthType ==
    ASSUME NEW K, NEW n \in Nodes(K), NEW worth, \A k \in K : worth[k] \in Worths
    PROVE  NodeWorth(n, worth) \in Worths
<1> SUFFICES ASSUME NEW p \in Points
             PROVE  ValueOf(n.op, n.val, [i \in DOMAIN n.kids |-> worth[n.kids[i]][p]], p) \in Coeff
  BY DEF NodeWorth, Worths
<1>1. \A i \in DOMAIN n.kids : n.kids[i] \in K
  BY NodeCases
<1>2. \A i \in DOMAIN n.kids : worth[n.kids[i]][p] \in Coeff
  BY <1>1 DEF Worths
<1> QED BY <1>2, ValueType

\* Nodes over fewer ids are nodes over more.
LEMMA NodesMonotone ==
    ASSUME NEW K, NEW L, K \subseteq L
    PROVE  Nodes(K) \subseteq Nodes(L)
<1>1. \A j \in Nat : [1 .. j -> K] \subseteq [1 .. j -> L]
  OBVIOUS
<1> QED BY <1>1 DEF Nodes

\* Children may be renamed.
LEMMA SubstIsNode ==
    ASSUME NEW K, NEW L, NEW n \in Nodes(K), NEW sub, \A k \in K : sub[k] \in L
    PROVE  /\ Subst(n, sub) \in Nodes(L)
           /\ Subst(n, sub).op = n.op /\ Subst(n, sub).val = n.val
           /\ Subst(n, sub).kids = [i \in DOMAIN n.kids |-> sub[n.kids[i]]]
<1> DEFINE kids == [i \in DOMAIN n.kids |-> sub[n.kids[i]]]
<1>1. Subst(n, sub) = [op |-> n.op, val |-> n.val, kids |-> kids]
  BY NodeCases DEF Subst
<1>2. \A j \in Nat : n.kids \in [1 .. j -> K] => kids \in [1 .. j -> L]
  OBVIOUS
<1> HIDE DEF kids
<1>3. n.op = "num" /\ n.val \in Coeff /\ n.kids \in [1 .. 0 -> K]
        => Subst(n, sub) \in Nodes(L)
  BY <1>1, <1>2 DEF Nodes
<1>4. n.op = "var" /\ n.val \in Names /\ n.kids \in [1 .. 0 -> K]
        => Subst(n, sub) \in Nodes(L)
  BY <1>1, <1>2 DEF Nodes
<1>5. n.op \in {"+", "*", "^"} /\ n.val = 0 /\ n.kids \in [1 .. 2 -> K]
        => Subst(n, sub) \in Nodes(L)
  <2>1. n.kids \in [1 .. 2 -> K] => kids \in [1 .. 2 -> L]
    BY <1>2
  <2> QED BY <1>1, <2>1 DEF Nodes
<1>6. n.op \in {"log", "li2"} /\ n.val = 0 /\ n.kids \in [1 .. 1 -> K]
        => Subst(n, sub) \in Nodes(L)
  <2>1. n.kids \in [1 .. 1 -> K] => kids \in [1 .. 1 -> L]
    BY <1>2
  <2> QED BY <1>1, <2>1 DEF Nodes
<1>7. Subst(n, sub) \in Nodes(L)
  BY <1>3, <1>4, <1>5, <1>6, NodeCases
<1> QED BY <1>1, <1>7 DEF kids

\* Two nodes alike, with children of the same worth, are worth the same.
LEMMA SubstWorth ==
    ASSUME NEW K, NEW n \in Nodes(K), NEW sub, NEW worth, NEW other,
           \A k \in K : other[k] = worth[sub[k]]
    PROVE  NodeWorth(Subst(n, sub), worth) = NodeWorth(n, other)
<1> DEFINE m == Subst(n, sub)
<1>1. m.op = n.op /\ m.val = n.val /\ m.kids = [i \in DOMAIN n.kids |-> sub[n.kids[i]]]
  <2> DEFINE L == {sub[j] : j \in K}
  <2>1. \A k \in K : sub[k] \in L
    OBVIOUS
  <2> HIDE DEF L
  <2> QED BY <2>1, SubstIsNode
<1> HIDE DEF m
<1>2. \A i \in DOMAIN n.kids : n.kids[i] \in K
  BY NodeCases
<1>3. \A p \in Points : [i \in DOMAIN m.kids |-> worth[m.kids[i]][p]]
                          = [i \in DOMAIN n.kids |-> other[n.kids[i]][p]]
  BY <1>1, <1>2
<1>4. NodeWorth(m, worth) = NodeWorth(n, other)
  BY <1>1, <1>3 DEF NodeWorth
<1> QED BY <1>4 DEF m

\* A node's worth rests on its children only.
LEMMA SameWorth ==
    ASSUME NEW K, NEW n \in Nodes(K), NEW worth, NEW other,
           \A k \in K : other[k] = worth[k]
    PROVE  NodeWorth(n, worth) = NodeWorth(n, other)
<1>1. \A i \in DOMAIN n.kids : n.kids[i] \in K
  BY NodeCases
<1>2. \A p \in Points : [i \in DOMAIN n.kids |-> worth[n.kids[i]][p]]
                          = [i \in DOMAIN n.kids |-> other[n.kids[i]][p]]
  BY <1>1
<1> QED BY <1>2 DEF NodeWorth

LEMMA NumIsNode ==
    ASSUME NEW K, NEW c \in Coeff, NEW worth
    PROVE  /\ Num(c) \in Nodes(K)
           /\ NodeWorth(Num(c), worth) = [p \in Points |-> c]
<1>1. /\ Num(c) = [op |-> "num", val |-> c, kids |-> <<>>]
      /\ Num(c).op = "num" /\ Num(c).val = c
  BY DEF Num, LeafNode
<1>2. <<>> \in [1 .. 0 -> K]
  OBVIOUS
<1> QED BY <1>1, <1>2 DEF Nodes, NodeWorth, ValueOf

-----------------------------------------------------------------------------
(* The invariant of a graph *)

Ids(g) == 1 .. Len(g.leader)

\* A node with an id that is worth the same.
Entries(g) == {e \in Nodes(Ids(g)) \X Ids(g) : NodeWorth(e[1], g.worth) = g.worth[e[2]]}

\* The constant that data gives a class, if any, is what the class is worth.
Exact(data, worth) ==
    Modify(data) # None => Modify(data) \in Coeff /\ worth = [p \in Points |-> Modify(data)]

SoundClass(g, c) ==
    /\ g.class[c] = [nodes |-> g.class[c].nodes, parents |-> g.class[c].parents,
                     data |-> g.class[c].data]
    /\ \A n \in g.class[c].nodes : <<n, c>> \in Entries(g)
    /\ g.class[c].parents \in Seq(Entries(g))
    /\ Exact(g.class[c].data, g.worth[c])

\* Every node that the graph still knows, in a class, in the memo or among the
\* repairs, is worth what its id is worth, and an id what its leader is worth.
Sound(g) ==
    /\ g = [leader |-> g.leader, class |-> g.class, memo |-> g.memo, pending |-> g.pending,
            dirty |-> g.dirty, worth |-> g.worth, defined |-> g.defined]
    /\ g.leader \in Seq(Classes(g)) /\ g.worth \in Seq(Worths)
    /\ Len(g.worth) = Len(g.leader) /\ Classes(g) \subseteq Ids(g)
    /\ \A i \in Ids(g) : g.worth[g.leader[i]] = g.worth[i]
    /\ \A c \in Classes(g) : SoundClass(g, c)
    /\ \A n \in DOMAIN g.memo : <<n, g.memo[n]>> \in Entries(g)
    /\ g.pending \in Seq(Entries(g)) /\ g.dirty \subseteq Entries(g)

\* What the analysis promises: make is exact if the children's data are, and
\* so is merge for two classes worth the same.
AnalysisSound ==
    /\ \A K : \A n \in Nodes(K) : \A data, worth :
        (/\ \A k \in K : worth[k] \in Worths
         /\ \A i \in DOMAIN n.kids : Exact(data[i], worth[n.kids[i]]))
        => Exact(Make(n, data), NodeWorth(n, worth))
    /\ \A to, from, worth :
        Exact(to, worth) /\ Exact(from, worth) => Exact(Merge(to, from).data, worth)

\* A match of rule r found in g or in a graph that g grew from.
SoundMatch(g, r, m) ==
    /\ m \in [1 .. LhsSize(r) -> Ids(g)]
    /\ \A i \in DOMAIN r.lhs :
        NodeWorth(r.lhs[i], [k \in DOMAIN m |-> g.worth[m[k]]]) = g.worth[m[r.vars + i]]

\* The part of a list that has been added so far.
SoundIds ==
    /\ ids \in Seq(Ids(graph))
    /\ Adding => Given <= Len(ids) /\ Len(ids) <= Given + Len(List)
    /\ phase = "instantiate" =>
        /\ rule \in DOMAIN Rules /\ SoundMatch(graph, Rules[rule], match)
        /\ \A i \in 1 .. Given : graph.worth[ids[i]] = graph.worth[match[i]]
        /\ \A i \in 1 .. Len(ids) - Given :
            NodeWorth(List[i], [k \in DOMAIN ids |-> graph.worth[ids[k]]]) = graph.worth[ids[Given + i]]

SInv ==
    /\ baseline \in Baselines /\ mode \in Modes
    /\ Sound(graph)
    /\ rule \in Nat \ {0} /\ found \in Seq(Range(found))
    /\ DOMAIN found \subseteq DOMAIN Rules
    /\ \A i \in DOMAIN found : \A m \in found[i] : SoundMatch(graph, Rules[i], m)
    /\ SoundIds

-----------------------------------------------------------------------------
(* Graphs grow *)

Extends(g, h) ==
    Ids(g) \subseteq Ids(h) /\ \A i \in Ids(g) : h.worth[i] = g.worth[i]

LEMMA EntriesGrow ==
    ASSUME NEW g, NEW h, Extends(g, h)
    PROVE  Entries(g) \subseteq Entries(h)
<1> SUFFICES ASSUME NEW e \in Entries(g) PROVE e \in Entries(h)
  OBVIOUS
<1>1. e \in Nodes(Ids(g)) \X Ids(g) /\ NodeWorth(e[1], g.worth) = g.worth[e[2]]
  BY DEF Entries
<1>2. e[1] \in Nodes(Ids(g)) /\ e[2] \in Ids(g) /\ e = <<e[1], e[2]>>
  BY <1>1
<1>3. NodeWorth(e[1], g.worth) = NodeWorth(e[1], h.worth)
  BY <1>2, SameWorth DEF Extends
<1>4. e[1] \in Nodes(Ids(h)) /\ e[2] \in Ids(h)
  BY <1>2, NodesMonotone DEF Extends
<1>5. h.worth[e[2]] = g.worth[e[2]]
  BY <1>2 DEF Extends
<1> QED BY <1>1, <1>2, <1>3, <1>4, <1>5 DEF Entries

LEMMA SeqMonotone ==
    ASSUME NEW S, NEW T, S \subseteq T
    PROVE  Seq(S) \subseteq Seq(T)
OBVIOUS

LEMMA SoundIdsOf ==
    ASSUME NEW g, Sound(g)
    PROVE  /\ Len(g.leader) \in Nat /\ DOMAIN g.leader = Ids(g) /\ DOMAIN g.worth = Ids(g)
           /\ \A i \in Ids(g) : /\ g.leader[i] \in Classes(g) /\ g.leader[i] \in Ids(g)
                                /\ g.worth[i] \in Worths
BY DEF Sound, Ids

\* The canonical form of a node is worth the same.
LEMMA CanonicalWorth ==
    ASSUME NEW g, Sound(g), NEW n \in Nodes(Ids(g))
    PROVE  /\ Canonical(g, n) \in Nodes(Ids(g))
           /\ NodeWorth(Canonical(g, n), g.worth) = NodeWorth(n, g.worth)
           /\ Canonical(g, n).op = n.op
<1>1. \A k \in Ids(g) : g.leader[k] \in Ids(g)
  BY SoundIdsOf
<1>2. \A k \in Ids(g) : g.worth[k] = g.worth[g.leader[k]]
  BY DEF Sound
<1>3. Subst(n, g.leader) \in Nodes(Ids(g))
  BY <1>1, SubstIsNode
<1>5. Subst(n, g.leader).op = n.op
  BY NodeCases DEF Subst
<1>4. NodeWorth(Subst(n, g.leader), g.worth) = NodeWorth(n, g.worth)
  BY <1>2, SubstWorth
<1> QED BY <1>3, <1>4, <1>5 DEF Canonical

LEMMA NodeDataExact ==
    ASSUME AnalysisSound, NEW g, Sound(g), NEW n \in Nodes(Ids(g))
    PROVE  Exact(NodeData(g, n), NodeWorth(n, g.worth))
<1> DEFINE data == [i \in DOMAIN n.kids |-> g.class[Find(g, n.kids[i])].data]
<1>1. \A k \in Ids(g) : g.worth[k] \in Worths
  BY SoundIdsOf
<1>2. \A i \in DOMAIN n.kids : n.kids[i] \in Ids(g)
  BY NodeCases
<1>3. \A i \in DOMAIN n.kids : Exact(data[i], g.worth[n.kids[i]])
  <2> TAKE i \in DOMAIN n.kids
  <2> DEFINE k == n.kids[i]
  <2>1. k \in Ids(g) /\ g.leader[k] \in Classes(g) /\ g.worth[g.leader[k]] = g.worth[k]
    BY <1>2, SoundIdsOf DEF Sound
  <2>2. Exact(g.class[g.leader[k]].data, g.worth[g.leader[k]])
    BY <2>1 DEF Sound, SoundClass
  <2> QED BY <2>1, <2>2 DEF Find
<1> HIDE DEF data
<1>4. Exact(Make(n, data), NodeWorth(n, g.worth))
  BY <1>1, <1>3 DEF AnalysisSound
<1> QED BY <1>4 DEF NodeData, data

-----------------------------------------------------------------------------
(* Adding a class *)

LEMMA UsesAreEntries ==
    ASSUME NEW K, NEW n \in Nodes(K), NEW c, NEW id, NEW S, <<n, id>> \in S
    PROVE  Uses(n, c, id) \in Seq(S)
<1> DEFINE D == {j \in DOMAIN n.kids : n.kids[j] = c}
<1>1. DOMAIN n.kids \in {1 .. 0, 1 .. 1, 1 .. 2}
  BY NodeCases
<1>2. IsFiniteSet(1 .. 0) /\ IsFiniteSet(1 .. 1) /\ IsFiniteSet(1 .. 2)
  <2>1. 0 \in Int /\ 1 \in Int /\ 2 \in Int
    OBVIOUS
  <2> QED BY <2>1, FS_Interval
<1>3. IsFiniteSet(DOMAIN n.kids) /\ D \subseteq DOMAIN n.kids
  BY <1>1, <1>2
<1>4. Cardinality(D) \in Nat
  <2> HIDE DEF D
  <2> QED BY <1>3, FS_Subset, FS_CardinalityType
<1>5. Uses(n, c, id) = [i \in 1 .. Cardinality(D) |-> <<n, id>>]
  BY DEF Uses
<1> DEFINE k == Cardinality(D)
<1>6. k \in Nat
  BY <1>4
<1> HIDE DEF D, k
<1>7. [i \in 1 .. k |-> <<n, id>>] \in Seq(S)
  BY <1>6
<1> QED BY <1>5, <1>7 DEF k

LEMMA NewClassSound ==
    ASSUME AnalysisSound, NEW g, Sound(g), NEW n \in Nodes(Ids(g))
    PROVE  /\ Sound(NewClass(g, n)) /\ Extends(g, NewClass(g, n))
           /\ Len(g.leader) + 1 \in Ids(NewClass(g, n))
           /\ NewClass(g, n).worth[Len(g.leader) + 1] = NodeWorth(n, g.worth)
           /\ Ids(NewClass(g, n)) = Ids(g) \cup {Len(g.leader) + 1}
<1> DEFINE N == Len(g.leader)
           id == N + 1
           h == NewClass(g, n)
           new == [nodes |-> {n}, parents |-> <<>>, data |-> NodeData(g, n)]
<1>1. /\ h = [leader |-> h.leader, class |-> h.class, memo |-> h.memo, pending |-> h.pending,
              dirty |-> h.dirty, worth |-> h.worth, defined |-> h.defined]
      /\ h.leader = Append(g.leader, id) /\ h.memo = Put(g.memo, n, id)
      /\ h.class = [c \in Classes(g) \cup {id} |->
                        IF c = id THEN new
                        ELSE [g.class[c] EXCEPT !.parents = @ \o Uses(n, c, id)]]
      /\ h.pending = Append(g.pending, <<n, id>>) /\ h.dirty = g.dirty
      /\ h.worth = Append(g.worth, NodeWorth(n, g.worth))
  BY DEF NewClass
<1> HIDE DEF h
<1>2. N \in Nat /\ DOMAIN g.leader = Ids(g) /\ Ids(g) = 1 .. N
  BY SoundIdsOf DEF Ids
<1>3. Classes(g) \subseteq Ids(g) /\ Classes(h) = Classes(g) \cup {id} /\ id \notin Ids(g)
  BY <1>1, <1>2 DEF Sound, Classes
<1>4. /\ h.leader \in Seq(Classes(h)) /\ Len(h.leader) = id
      /\ \A i \in Ids(g) : h.leader[i] = g.leader[i]
      /\ h.leader[id] = id
  <2>1. g.leader \in Seq(Classes(h))
    BY <1>3, SeqMonotone DEF Sound
  <2> QED BY <1>1, <1>2, <1>3, <2>1
<1>5. Ids(h) = Ids(g) \cup {id}
  BY <1>2, <1>4 DEF Ids
<1>6. NodeWorth(n, g.worth) \in Worths
  BY SoundIdsOf, NodeWorthType
<1>7. /\ h.worth \in Seq(Worths) /\ Len(h.worth) = id
      /\ \A i \in Ids(g) : h.worth[i] = g.worth[i]
      /\ h.worth[id] = NodeWorth(n, g.worth)
  <2>1. g.worth \in Seq(Worths) /\ Len(g.worth) = N
    BY DEF Sound
  <2> QED BY <1>1, <1>2, <1>6, <2>1
<1>8. Extends(g, h)
  BY <1>5, <1>7 DEF Extends
<1>9. Entries(g) \subseteq Entries(h)
  BY <1>8, EntriesGrow
<1>10. <<n, id>> \in Entries(h)
  <2>1. n \in Nodes(Ids(h)) /\ id \in Ids(h)
    BY <1>5, NodesMonotone
  <2>2. NodeWorth(n, g.worth) = NodeWorth(n, h.worth)
    BY <1>7, SameWorth
  <2> QED BY <1>7, <2>1, <2>2 DEF Entries
<1>11. \A c \in Classes(h) : SoundClass(h, c)
  <2> TAKE c \in Classes(h)
  <2>1. CASE c = id
    <3>1. h.class[c] = new
      BY <1>1, <1>3, <2>1
    <3>2. Exact(NodeData(g, n), h.worth[id])
      BY <1>7, NodeDataExact
    <3>3. new.nodes = {n} /\ new.parents = <<>> /\ new.data = NodeData(g, n)
      OBVIOUS
    <3> HIDE DEF id
    <3> QED BY <1>10, <2>1, <3>1, <3>2, <3>3 DEF SoundClass
  <2>2. CASE c # id
    <3> DEFINE old == g.class[c]
    <3>1. c \in Classes(g) /\ c \in Ids(g) /\ h.class[c] = [old EXCEPT !.parents = @ \o Uses(n, c, id)]
      BY <1>1, <1>3, <2>2
    <3>2. /\ old = [nodes |-> old.nodes, parents |-> old.parents, data |-> old.data]
          /\ \A m \in old.nodes : <<m, c>> \in Entries(g)
          /\ old.parents \in Seq(Entries(g))
          /\ Exact(old.data, g.worth[c])
      BY <3>1 DEF Sound, SoundClass
    <3> HIDE DEF old
    <3>3. h.class[c] = [nodes |-> old.nodes, parents |-> old.parents \o Uses(n, c, id),
                        data |-> old.data]
      BY <3>1, <3>2
    <3>4. Uses(n, c, id) \in Seq(Entries(h))
      <4> HIDE DEF id
      <4> QED BY <1>10, UsesAreEntries
    <3>5. old.parents \in Seq(Entries(h))
      BY <1>9, <3>2, SeqMonotone
    <3>6. old.parents \o Uses(n, c, id) \in Seq(Entries(h))
      BY <3>4, <3>5
    <3>7. h.worth[c] = g.worth[c]
      BY <1>7, <3>1
    <3> QED BY <1>9, <3>2, <3>3, <3>6, <3>7 DEF SoundClass
  <2> QED BY <2>1, <2>2
<1>12. \A m \in DOMAIN h.memo : <<m, h.memo[m]>> \in Entries(h)
  <2>1. \A m \in DOMAIN g.memo : <<m, g.memo[m]>> \in Entries(h)
    BY <1>9 DEF Sound
  <2>2. DOMAIN h.memo = DOMAIN g.memo \cup {n}
        /\ \A m \in DOMAIN h.memo : h.memo[m] = IF m = n THEN id ELSE g.memo[m]
    BY <1>1 DEF Put
  <2> QED BY <1>10, <2>1, <2>2
<1>13. h.pending \in Seq(Entries(h)) /\ h.dirty \subseteq Entries(h)
  <2>1. g.pending \in Seq(Entries(h)) /\ g.dirty \subseteq Entries(h)
    BY <1>9, SeqMonotone DEF Sound
  <2> QED BY <1>1, <1>10, <2>1
<1>14. \A i \in Ids(h) : h.worth[h.leader[i]] = h.worth[i]
  <2> TAKE i \in Ids(h)
  <2>1. CASE i = id
    BY <1>4, <2>1
  <2>2. CASE i \in Ids(g)
    <3>1. g.leader[i] \in Ids(g) /\ g.worth[g.leader[i]] = g.worth[i]
      BY <2>2, SoundIdsOf DEF Sound
    <3> QED BY <1>4, <1>7, <2>2, <3>1
  <2> QED BY <1>5, <2>1, <2>2
<1>15. Classes(h) \subseteq Ids(h)
  BY <1>3, <1>5
<1>16. Sound(h)
  <2> HIDE DEF id, N
  <2> QED BY <1>1, <1>4, <1>7, <1>11, <1>12, <1>13, <1>14, <1>15 DEF Sound
<1> QED BY <1>5, <1>7, <1>8, <1>16 DEF h

-----------------------------------------------------------------------------
(* Uniting and adding *)

\* Graphs that a step may turn g into.
Keeps(g, h) == Sound(h) /\ Extends(g, h)

LEMMA KeepsTransitive ==
    ASSUME NEW f, NEW g, NEW h, Sound(f), Keeps(f, g), Keeps(g, h)
    PROVE  Keeps(f, h)
BY DEF Keeps, Extends

LEMMA KeepsSelf ==
    ASSUME NEW g, Sound(g)
    PROVE  Keeps(g, g)
BY DEF Keeps, Extends

\* h is g after class "into" has taken in class "gone".
TakesIn(g, h, into, gone) ==
    /\ h = [leader |-> h.leader, class |-> h.class, memo |-> h.memo, pending |-> h.pending,
            dirty |-> h.dirty, worth |-> h.worth, defined |-> h.defined]
    /\ h.leader = [i \in DOMAIN g.leader |-> IF g.leader[i] = gone THEN into ELSE g.leader[i]]
    /\ Classes(h) = Classes(g) \ {gone}
    /\ h.class[into] = [nodes |-> g.class[into].nodes \cup g.class[gone].nodes,
                        parents |-> g.class[into].parents \o g.class[gone].parents,
                        data |-> Merge(g.class[into].data, g.class[gone].data).data]
    /\ \A c \in Classes(h) : c # into => h.class[c] = g.class[c]
    /\ h.memo = g.memo /\ h.worth = g.worth
    /\ h.pending = g.pending \o g.class[gone].parents
    /\ h.dirty \subseteq g.dirty \cup ToSet(g.class[into].parents)

LEMMA JoinParts ==
    ASSUME NEW g, Sound(g), NEW x \in Classes(g), NEW y \in Classes(g), x # y
    PROVE  \E into, gone \in {x, y} : into # gone /\ TakesIn(g, Join(g, x, y), into, gone)
<1> DEFINE h == Join(g, x, y)
           into == Survivor(g, x, y)
           gone == IF into = x THEN y ELSE x
           merged == Merge(g.class[into].data, g.class[gone].data)
           joined == [nodes |-> g.class[into].nodes \cup g.class[gone].nodes,
                      parents |-> g.class[into].parents \o g.class[gone].parents,
                      data |-> merged.data]
           leader == [i \in DOMAIN g.leader |-> IF g.leader[i] = gone THEN into ELSE g.leader[i]]
           class == [c \in Classes(g) \ {gone} |-> IF c = into THEN joined ELSE g.class[c]]
           pending == g.pending \o g.class[gone].parents
           dirty == IF merged.changed THEN g.dirty \cup ToSet(g.class[into].parents) ELSE g.dirty
<1>1. into \in {x, y} /\ gone \in {x, y} /\ into # gone
  BY DEF Survivor
<1>2. /\ h = [leader |-> h.leader, class |-> h.class, memo |-> h.memo, pending |-> h.pending,
              dirty |-> h.dirty, worth |-> h.worth, defined |-> h.defined]
      /\ h.leader = leader /\ h.class = class /\ h.memo = g.memo /\ h.worth = g.worth
      /\ h.pending = pending /\ h.dirty = dirty
  <2>1. g = [leader |-> g.leader, class |-> g.class, memo |-> g.memo, pending |-> g.pending,
             dirty |-> g.dirty, worth |-> g.worth, defined |-> g.defined]
    BY DEF Sound
  <2>2. h = [g EXCEPT !.leader = leader, !.class = class, !.pending = pending, !.dirty = dirty]
    BY DEF Join
  <2> HIDE DEF h, leader, class, pending, dirty
  <2>3. h = [leader |-> leader, class |-> class, memo |-> g.memo, pending |-> pending,
             dirty |-> dirty, worth |-> g.worth, defined |-> g.defined]
    BY <2>1, <2>2
  <2> QED BY <2>3
<1> HIDE DEF h
<1>3. dirty \subseteq g.dirty \cup ToSet(g.class[into].parents)
  OBVIOUS
<1> HIDE DEF into, gone, joined, merged, dirty
<1>4. DOMAIN class = Classes(g) \ {gone} /\ into \in DOMAIN class /\ class[into] = joined
  BY <1>1
<1>5. \A c \in DOMAIN class : c # into => class[c] = g.class[c]
  BY <1>1
<1>6. leader = [i \in DOMAIN g.leader |-> IF g.leader[i] = gone THEN into ELSE g.leader[i]]
      /\ pending = g.pending \o g.class[gone].parents
  OBVIOUS
<1> HIDE DEF class, leader, pending
<1>7. TakesIn(g, h, into, gone)
  <2>1. Classes(h) = Classes(g) \ {gone} /\ h.class[into] = joined
        /\ \A c \in Classes(h) : c # into => h.class[c] = g.class[c]
    BY <1>2, <1>4, <1>5 DEF Classes
  <2> QED BY <1>2, <1>3, <1>6, <2>1 DEF TakesIn, joined, merged
<1> QED BY <1>1, <1>7 DEF h

LEMMA JoinSound ==
    ASSUME AnalysisSound, NEW g, Sound(g), NEW x \in Classes(g), NEW y \in Classes(g),
           x # y, g.worth[x] = g.worth[y]
    PROVE  /\ Keeps(g, Join(g, x, y))
           /\ Ids(Join(g, x, y)) = Ids(g) /\ Join(g, x, y).worth = g.worth
<1> DEFINE h == Join(g, x, y)
<1>0. PICK into \in {x, y}, gone \in {x, y} : into # gone /\ TakesIn(g, h, into, gone)
  BY JoinParts
<1> DEFINE merged == Merge(g.class[into].data, g.class[gone].data)
           joined == [nodes |-> g.class[into].nodes \cup g.class[gone].nodes,
                      parents |-> g.class[into].parents \o g.class[gone].parents,
                      data |-> merged.data]
<1>1. /\ into \in Classes(g) /\ gone \in Classes(g) /\ into # gone
      /\ g.worth[into] = g.worth[gone]
  BY <1>0
<1> HIDE DEF h
<1>2. /\ h = [leader |-> h.leader, class |-> h.class, memo |-> h.memo, pending |-> h.pending,
              dirty |-> h.dirty, worth |-> h.worth, defined |-> h.defined]
      /\ h.leader = [i \in DOMAIN g.leader |-> IF g.leader[i] = gone THEN into ELSE g.leader[i]]
      /\ Classes(h) = Classes(g) \ {gone}
      /\ h.class[into] = joined
      /\ \A c \in Classes(h) : c # into => h.class[c] = g.class[c]
      /\ h.memo = g.memo /\ h.worth = g.worth
      /\ h.pending = g.pending \o g.class[gone].parents
      /\ h.dirty \subseteq g.dirty \cup ToSet(g.class[into].parents)
  BY <1>0 DEF TakesIn
<1> HIDE DEF joined, merged
<1>3. into \in Classes(h)
  BY <1>1, <1>2
<1>4. Len(g.leader) \in Nat /\ DOMAIN g.leader = Ids(g) /\ Ids(g) = 1 .. Len(g.leader)
  BY SoundIdsOf DEF Ids
<1>5. h.leader \in Seq(Classes(h)) /\ Len(h.leader) = Len(g.leader)
  <2>1. \A i \in Ids(g) : g.leader[i] \in Classes(g)
    BY SoundIdsOf
  <2>2. h.leader \in [1 .. Len(g.leader) -> Classes(h)]
    BY <1>2, <1>3, <1>4, <2>1
  <2> QED BY <1>4, <2>2
<1>6. Ids(h) = Ids(g)
  BY <1>5 DEF Ids
<1>7. Entries(h) = Entries(g)
  BY <1>2, <1>6 DEF Entries
<1>8. \A i \in Ids(h) : h.worth[h.leader[i]] = h.worth[i]
  <2>1. \A i \in Ids(g) : g.worth[g.leader[i]] = g.worth[i]
    BY DEF Sound
  <2> QED BY <1>1, <1>2, <1>4, <1>6, <2>1
<1>9. \A c \in {into, gone} :
        /\ \A n \in g.class[c].nodes : <<n, c>> \in Entries(g)
        /\ g.class[c].parents \in Seq(Entries(g))
        /\ Exact(g.class[c].data, g.worth[c])
  BY <1>1 DEF Sound, SoundClass
<1>10. \A c \in Classes(h) : SoundClass(h, c)
  <2> TAKE c \in Classes(h)
  <2>1. CASE c = into
    <3>1. h.class[c] = joined
      BY <1>2, <1>3, <2>1
    <3>2. joined = [nodes |-> joined.nodes, parents |-> joined.parents, data |-> joined.data]
      BY DEF joined
    <3>3. \A n \in joined.nodes : <<n, into>> \in Entries(g)
      <4> TAKE n \in joined.nodes
      <4>1. CASE n \in g.class[into].nodes
        BY <1>9, <4>1
      <4>2. CASE n \in g.class[gone].nodes
        <5>1. <<n, gone>> \in Entries(g)
          BY <1>9, <4>2
        <5>2. into \in Ids(g)
          BY <1>1 DEF Sound
        <5> QED BY <1>1, <5>1, <5>2 DEF Entries
      <4> QED BY <4>1, <4>2 DEF joined
    <3>4. joined.parents \in Seq(Entries(g))
      <4>1. g.class[into].parents \in Seq(Entries(g)) /\ g.class[gone].parents \in Seq(Entries(g))
        BY <1>9
      <4>2. g.class[into].parents \o g.class[gone].parents \in Seq(Entries(g))
        BY <4>1
      <4> QED BY <4>2 DEF joined
    <3>5. Exact(joined.data, g.worth[into])
      <4>1. Exact(g.class[into].data, g.worth[into]) /\ Exact(g.class[gone].data, g.worth[into])
        BY <1>1, <1>9
      <4>2. Exact(merged.data, g.worth[into])
        BY <4>1 DEF AnalysisSound, merged
      <4> QED BY <4>2 DEF joined
    <3> QED BY <1>2, <1>7, <2>1, <3>1, <3>2, <3>3, <3>4, <3>5 DEF SoundClass
  <2>2. CASE c # into
    <3>1. h.class[c] = g.class[c] /\ c \in Classes(g)
      BY <1>2, <1>3, <2>2
    <3> QED BY <1>2, <1>7, <3>1 DEF Sound, SoundClass
  <2> QED BY <2>1, <2>2
<1>11. h.pending \in Seq(Entries(h)) /\ h.dirty \subseteq Entries(h)
  <2>1. ToSet(g.class[into].parents) \subseteq Entries(g)
    BY <1>9 DEF ToSet
  <2>2. g.pending \in Seq(Entries(g)) /\ g.dirty \subseteq Entries(g)
        /\ g.class[gone].parents \in Seq(Entries(g))
    BY <1>9 DEF Sound
  <2>3. g.pending \o g.class[gone].parents \in Seq(Entries(g))
    BY <2>2
  <2> QED BY <1>2, <1>7, <2>1, <2>2, <2>3
<1>12. Sound(h)
  <2>1. /\ h.worth \in Seq(Worths) /\ Len(h.worth) = Len(h.leader) /\ Classes(h) \subseteq Ids(h)
        /\ \A n \in DOMAIN h.memo : <<n, h.memo[n]>> \in Entries(h)
    BY <1>2, <1>3, <1>5, <1>6, <1>7 DEF Sound
  <2> QED BY <1>2, <1>5, <1>8, <1>10, <1>11, <2>1 DEF Sound
<1>13. Extends(g, h)
  BY <1>2, <1>6 DEF Extends
<1> QED BY <1>2, <1>6, <1>12, <1>13 DEF Keeps, h

LEMMA JoinIdsSound ==
    ASSUME AnalysisSound, NEW g, Sound(g), NEW a \in Ids(g), NEW b \in Ids(g),
           g.worth[a] = g.worth[b]
    PROVE  Keeps(g, JoinIds(g, a, b))
<1> DEFINE x == Find(g, a)
           y == Find(g, b)
<1>1. /\ x \in Classes(g) /\ y \in Classes(g)
      /\ g.worth[x] = g.worth[a] /\ g.worth[y] = g.worth[b]
  BY SoundIdsOf DEF Sound, Find
<1>2. CASE x = y
  BY <1>2, KeepsSelf DEF JoinIds
<1>3. CASE x # y
  <2>1. JoinIds(g, a, b) = Join(g, x, y)
    BY <1>3 DEF JoinIds
  <2> HIDE DEF x, y
  <2> QED BY <1>1, <1>3, <2>1, JoinSound
<1> QED BY <1>2, <1>3

\* A node that is looked up or added is worth what its class is worth.
LEMMA EnterSound ==
    ASSUME AnalysisSound, NEW g, Sound(g), NEW n \in Nodes(Ids(g))
    PROVE  LET e == Enter(g, n)
           IN  /\ Keeps(g, e.graph) /\ e.id \in Ids(e.graph)
               /\ e.graph.worth[e.id] = NodeWorth(n, g.worth)
<1> DEFINE e == Enter(g, n)
<1>1. CASE n \in DOMAIN g.memo
  <2> DEFINE id == g.memo[n]
  <2>1. e.graph = g /\ e.id = Find(g, id)
    BY <1>1 DEF Enter
  <2>2. <<n, id>> \in Entries(g)
    BY <1>1 DEF Sound
  <2>3. id \in Ids(g) /\ NodeWorth(n, g.worth) = g.worth[id]
    BY <2>2 DEF Entries
  <2>4. Find(g, id) \in Ids(g) /\ g.worth[Find(g, id)] = g.worth[id]
    BY <2>3, SoundIdsOf DEF Sound, Find
  <2> QED BY <2>1, <2>3, <2>4, KeepsSelf
<1>2. CASE n \notin DOMAIN g.memo
  <2>1. e.graph = NewClass(g, n) /\ e.id = Len(g.leader) + 1
    BY <1>2 DEF Enter
  <2> QED BY <2>1, NewClassSound DEF Keeps
<1> QED BY <1>1, <1>2

LEMMA ModifySound ==
    ASSUME AnalysisSound, NEW g, Sound(g), NEW id \in Ids(g)
    PROVE  Keeps(g, ModifyClass(g, id))
<1> DEFINE const == Modify(g.class[Find(g, id)].data)
           leaf == Enter(g, Num(const))
           h == leaf.graph
           other == leaf.id
<1>1. CASE const = None
  BY <1>1, KeepsSelf DEF ModifyClass
<1>2. CASE const # None
  <2>1. /\ Find(g, id) \in Classes(g) /\ g.worth[Find(g, id)] = g.worth[id]
        /\ Exact(g.class[Find(g, id)].data, g.worth[Find(g, id)])
    BY SoundIdsOf DEF Sound, SoundClass, Find
  <2>2. const \in Coeff /\ g.worth[id] = [p \in Points |-> const]
    BY <1>2, <2>1 DEF Exact
  <2>3. ModifyClass(g, id) = JoinIds(h, id, other)
    BY <1>2 DEF ModifyClass
  <2> HIDE DEF const
  <2>4. Num(const) \in Nodes(Ids(g)) /\ NodeWorth(Num(const), g.worth) = [p \in Points |-> const]
    BY <2>2, NumIsNode
  <2>5. Keeps(g, h) /\ other \in Ids(h) /\ h.worth[other] = NodeWorth(Num(const), g.worth)
    BY <2>4, EnterSound
  <2> HIDE DEF h, other
  <2>6. id \in Ids(h) /\ h.worth[id] = g.worth[id] /\ Sound(h)
    BY <2>5 DEF Keeps, Extends
  <2>7. Keeps(h, JoinIds(h, id, other))
    BY <2>2, <2>4, <2>5, <2>6, JoinIdsSound
  <2> QED BY <2>3, <2>5, <2>7, KeepsTransitive
<1> QED BY <1>1, <1>2

LEMMA AddNodeSound ==
    ASSUME AnalysisSound, NEW g, Sound(g), NEW n \in Nodes(Ids(g))
    PROVE  LET added == AddNode(g, n)
           IN  /\ Keeps(g, added.graph) /\ added.id \in Ids(added.graph)
               /\ added.graph.worth[added.id] = NodeWorth(n, g.worth)
<1> DEFINE node == Canonical(g, n)
           id == Len(g.leader) + 1
           new == NewClass(g, node)
           h == ModifyClass(new, id)
<1>1. node \in Nodes(Ids(g)) /\ NodeWorth(node, g.worth) = NodeWorth(n, g.worth)
  BY CanonicalWorth
<1>2. CASE node \in DOMAIN g.memo
  <2>1. AddNode(g, n) = Enter(g, node)
    BY <1>2 DEF AddNode
  <2> HIDE DEF node
  <2> QED BY <1>1, <2>1, EnterSound
<1>3. CASE node \notin DOMAIN g.memo
  <2>1. AddNode(g, n).graph = h /\ AddNode(g, n).id = Find(h, id)
    BY <1>3 DEF AddNode
  <2> HIDE DEF node, id, new, h
  <2>2. Keeps(g, new) /\ id \in Ids(new) /\ new.worth[id] = NodeWorth(n, g.worth)
    BY <1>1, NewClassSound DEF Keeps, new, id
  <2>3. Keeps(new, h)
    BY <2>2, ModifySound DEF Keeps, h
  <2>4. Sound(h) /\ id \in Ids(h) /\ h.worth[id] = new.worth[id]
    BY <2>2, <2>3 DEF Keeps, Extends
  <2>5. Find(h, id) \in Ids(h) /\ h.worth[Find(h, id)] = h.worth[id]
    BY <2>4, SoundIdsOf DEF Sound, Find
  <2> QED BY <2>1, <2>2, <2>3, <2>4, <2>5, KeepsTransitive
<1> QED BY <1>2, <1>3

LEMMA UnionSound ==
    ASSUME AnalysisSound, NEW g, Sound(g), NEW a \in Ids(g), NEW b \in Ids(g),
           g.worth[a] = g.worth[b]
    PROVE  Keeps(g, Union(g, a, b))
<1> DEFINE h == JoinIds(g, a, b)
<1>1. Keeps(g, h)
  BY JoinIdsSound
<1>2. Sound(h) /\ a \in Ids(h)
  BY <1>1 DEF Keeps, Extends
<1> HIDE DEF h
<1>3. Keeps(h, ModifyClass(h, a))
  BY <1>2, ModifySound
<1>4. Keeps(g, ModifyClass(h, a))
  BY <1>1, <1>3, KeepsTransitive
<1> QED BY <1>4, KeepsSelf DEF Union, h

-----------------------------------------------------------------------------
(* Rebuilding *)

\* One repair takes an entry off the list, makes its node known, and unites the
\* entry's class with the class that the memo had for the node before.
LEMMA RepairMemoSteps ==
    ASSUME NEW g, Sound(g), g.pending # <<>>
    PROVE  LET entry == g.pending[Len(g.pending)]
               n == Canonical(g, entry[1])
               id == entry[2]
           IN  \E h : /\ Sound(h) /\ h.leader = g.leader /\ h.class = g.class /\ h.worth = g.worth
                      /\ h.memo = Put(g.memo, n, id) /\ h.pending = Front(g.pending)
                      /\ RepairMemo(g) = IF n \in DOMAIN g.memo THEN Union(h, g.memo[n], id) ELSE h
                      /\ n \in DOMAIN g.memo => /\ g.memo[n] \in Ids(h) /\ id \in Ids(h)
                                                 /\ h.worth[g.memo[n]] = h.worth[id]
<1> DEFINE entry == g.pending[Len(g.pending)]
           n == Canonical(g, entry[1])
           id == entry[2]
           h == [g EXCEPT !.memo = Put(@, n, id), !.pending = Front(@)]
<1>1. entry \in Entries(g) /\ Front(g.pending) \in Seq(Entries(g))
  <2>1. g.pending \in Seq(Entries(g))
    BY DEF Sound
  <2> QED BY <2>1 DEF Front
<1>2. /\ entry[1] \in Nodes(Ids(g)) /\ id \in Ids(g)
      /\ NodeWorth(entry[1], g.worth) = g.worth[id]
  BY <1>1 DEF Entries
<1> HIDE DEF entry
<1>3. n \in Nodes(Ids(g)) /\ NodeWorth(n, g.worth) = g.worth[id]
  BY <1>2, CanonicalWorth
<1>4. h = [leader |-> g.leader, class |-> g.class, memo |-> Put(g.memo, n, id),
           pending |-> Front(g.pending), dirty |-> g.dirty, worth |-> g.worth,
           defined |-> g.defined]
  <2>1. g = [leader |-> g.leader, class |-> g.class, memo |-> g.memo, pending |-> g.pending,
             dirty |-> g.dirty, worth |-> g.worth, defined |-> g.defined]
    BY DEF Sound
  <2> DEFINE memo == Put(g.memo, n, id)
             pending == Front(g.pending)
  <2>2. h = [g EXCEPT !.memo = memo, !.pending = pending]
    OBVIOUS
  <2> HIDE DEF h, memo, pending
  <2>3. h = [leader |-> g.leader, class |-> g.class, memo |-> memo, pending |-> pending,
             dirty |-> g.dirty, worth |-> g.worth, defined |-> g.defined]
    BY <2>1, <2>2
  <2> QED BY <2>3 DEF memo, pending
<1>5. RepairMemo(g) = IF n \in DOMAIN g.memo THEN Union(h, g.memo[n], id) ELSE h
  <2>1. [g EXCEPT !.pending = Front(@), !.memo = Put(@, n, id)] = h
    OBVIOUS
  <2> QED BY <2>1 DEF RepairMemo, entry
<1> HIDE DEF n, id, h
<1>6. Ids(h) = Ids(g) /\ Entries(h) = Entries(g)
  BY <1>4 DEF Ids, Entries
<1>7. <<n, id>> \in Entries(g)
  BY <1>2, <1>3 DEF Entries
<1>8. \A m \in DOMAIN h.memo : <<m, h.memo[m]>> \in Entries(h)
  <2>1. \A m \in DOMAIN g.memo : <<m, g.memo[m]>> \in Entries(g)
    BY DEF Sound
  <2> QED BY <1>4, <1>6, <1>7, <2>1 DEF Put
<1>9. Sound(h)
  <2>1. Classes(h) = Classes(g)
    BY <1>4 DEF Classes
  <2>2. \A c \in Classes(g) : SoundClass(h, c)
    BY <1>4, <1>6 DEF Sound, SoundClass
  <2>3. /\ g.leader \in Seq(Classes(g)) /\ g.worth \in Seq(Worths)
        /\ Len(g.worth) = Len(g.leader) /\ Classes(g) \subseteq Ids(g)
        /\ \A i \in Ids(g) : g.worth[g.leader[i]] = g.worth[i]
        /\ g.dirty \subseteq Entries(g)
    BY DEF Sound
  <2> QED BY <1>1, <1>4, <1>6, <1>8, <2>1, <2>2, <2>3 DEF Sound
<1>10. /\ h.leader = g.leader /\ h.class = g.class /\ h.worth = g.worth
       /\ h.memo = Put(g.memo, n, id) /\ h.pending = Front(g.pending)
  BY <1>4
<1>11. ASSUME n \in DOMAIN g.memo
       PROVE  g.memo[n] \in Ids(h) /\ id \in Ids(h) /\ h.worth[g.memo[n]] = h.worth[id]
  <2>1. <<n, g.memo[n]>> \in Entries(g)
    BY <1>11 DEF Sound
  <2> QED BY <1>2, <1>3, <1>6, <1>10, <2>1 DEF Entries
<1> QED BY <1>5, <1>9, <1>10, <1>11 DEF n, id, entry

LEMMA RepairMemoSound ==
    ASSUME AnalysisSound, NEW g, Sound(g), g.pending # <<>>
    PROVE  Keeps(g, RepairMemo(g))
<1> DEFINE entry == g.pending[Len(g.pending)]
           n == Canonical(g, entry[1])
           id == entry[2]
<1>1. PICK h : /\ Sound(h) /\ h.leader = g.leader /\ h.worth = g.worth
               /\ RepairMemo(g) = IF n \in DOMAIN g.memo THEN Union(h, g.memo[n], id) ELSE h
               /\ n \in DOMAIN g.memo => /\ g.memo[n] \in Ids(h) /\ id \in Ids(h)
                                          /\ h.worth[g.memo[n]] = h.worth[id]
  BY RepairMemoSteps
<1> HIDE DEF n, id
<1>2. Keeps(g, h)
  BY <1>1 DEF Keeps, Extends, Ids
<1>3. n \in DOMAIN g.memo => Keeps(h, Union(h, g.memo[n], id))
  BY <1>1, UnionSound
<1> QED BY <1>1, <1>2, <1>3, KeepsTransitive

\* f is g after the data of entry's node was made again and merged into its class.
Repaired(g, entry, f) ==
    LET id == Find(g, entry[2])
        data == Merge(g.class[id].data, NodeData(g, entry[1])).data
    IN  /\ f = [leader |-> g.leader, class |-> [g.class EXCEPT ![id].data = data],
                memo |-> g.memo, pending |-> g.pending, dirty |-> f.dirty,
                worth |-> g.worth, defined |-> g.defined]
        /\ f.dirty \subseteq Entries(g)

LEMMA RepairDataSteps ==
    ASSUME NEW g, Sound(g), NEW entry \in g.dirty
    PROVE  LET id == Find(g, entry[2])
               merged == Merge(g.class[id].data, NodeData(g, entry[1]))
           IN  \E h, k : /\ Repaired(g, entry, h) /\ Repaired(g, entry, k)
                         /\ RepairData(g, entry) = IF merged.changed THEN ModifyClass(k, id) ELSE h
<1> DEFINE id == Find(g, entry[2])
           merged == Merge(g.class[id].data, NodeData(g, entry[1]))
           class == [g.class EXCEPT ![id].data = merged.data]
           h == [g EXCEPT !.dirty = @ \ {entry}, !.class[id].data = merged.data]
           k == [h EXCEPT !.dirty = @ \cup ToSet(g.class[id].parents)]
           left == g.dirty \ {entry}
           more == ToSet(g.class[id].parents)
           data == merged.data
<1>1. RepairData(g, entry) = IF merged.changed THEN ModifyClass(k, id) ELSE h
  BY DEF RepairData
<1>2. entry[2] \in Ids(g) /\ id \in Classes(g)
  BY SoundIdsOf DEF Sound, Entries, Find
<1>3. left \subseteq Entries(g) /\ more \subseteq Entries(g)
  <2>1. g.class[id].parents \in Seq(Entries(g))
    BY <1>2 DEF Sound, SoundClass
  <2> QED BY <2>1 DEF Sound, ToSet
<1>4. g = [leader |-> g.leader, class |-> g.class, memo |-> g.memo, pending |-> g.pending,
           dirty |-> g.dirty, worth |-> g.worth, defined |-> g.defined]
  BY DEF Sound
<1>5. h = [g EXCEPT !.dirty = left, !.class[id].data = data]
  OBVIOUS
<1>6. class = [g.class EXCEPT ![id].data = data] /\ k = [h EXCEPT !.dirty = @ \cup more]
  OBVIOUS
<1>7. \A f : (/\ f = [leader |-> g.leader, class |-> class, memo |-> g.memo, pending |-> g.pending,
                      dirty |-> f.dirty, worth |-> g.worth, defined |-> g.defined]
              /\ f.dirty \subseteq Entries(g))
             => Repaired(g, entry, f)
  BY DEF Repaired
<1> HIDE DEF h, k, class, data, left, more, id, merged
<1>8. h = [leader |-> g.leader, class |-> class, memo |-> g.memo, pending |-> g.pending,
           dirty |-> left, worth |-> g.worth, defined |-> g.defined]
  BY <1>4, <1>5, <1>6
<1>9. k = [leader |-> g.leader, class |-> class, memo |-> g.memo, pending |-> g.pending,
           dirty |-> left \cup more, worth |-> g.worth, defined |-> g.defined]
  BY <1>6, <1>8
<1>10. Repaired(g, entry, h) /\ Repaired(g, entry, k)
  <2>1. h.dirty = left /\ k.dirty = left \cup more
    BY <1>8, <1>9
  <2> QED BY <1>3, <1>7, <1>8, <1>9, <2>1
<1> QED BY <1>1, <1>10 DEF id, merged

LEMMA RepairedParts ==
    ASSUME NEW g, Sound(g), NEW entry \in g.dirty, NEW f, Repaired(g, entry, f)
    PROVE  LET id == Find(g, entry[2])
               old == g.class[id]
               data == Merge(old.data, NodeData(g, entry[1])).data
           IN  /\ f = [leader |-> f.leader, class |-> f.class, memo |-> f.memo,
                       pending |-> f.pending, dirty |-> f.dirty, worth |-> f.worth,
                       defined |-> f.defined]
               /\ f.leader = g.leader /\ f.memo = g.memo
               /\ f.pending = g.pending /\ f.worth = g.worth /\ f.dirty \subseteq Entries(g)
               /\ Classes(f) = Classes(g) /\ id \in Classes(g)
               /\ \A c \in Classes(g) : c # id => f.class[c] = g.class[c]
               /\ f.class[id] = [nodes |-> old.nodes, parents |-> old.parents, data |-> data]
<1> DEFINE id == Find(g, entry[2])
           old == g.class[id]
           data == Merge(old.data, NodeData(g, entry[1])).data
           class == [g.class EXCEPT ![id].data = data]
<1>1. id \in Classes(g)
  BY SoundIdsOf DEF Sound, Entries, Find
<1>2. old = [nodes |-> old.nodes, parents |-> old.parents, data |-> old.data]
  BY <1>1 DEF Sound, SoundClass
<1>3. /\ f = [leader |-> g.leader, class |-> class, memo |-> g.memo, pending |-> g.pending,
              dirty |-> f.dirty, worth |-> g.worth, defined |-> g.defined]
      /\ f.dirty \subseteq Entries(g)
  BY DEF Repaired
<1>4. /\ DOMAIN class = Classes(g)
      /\ \A c \in Classes(g) : c # id => class[c] = g.class[c]
      /\ class[id] = [nodes |-> old.nodes, parents |-> old.parents, data |-> data]
  <2> HIDE DEF id, data
  <2> QED BY <1>1, <1>2 DEF Classes
<1> HIDE DEF id, old, data, class
<1>5. /\ f.leader = g.leader /\ f.memo = g.memo /\ f.pending = g.pending /\ f.worth = g.worth
      /\ f.class = class /\ f.defined = g.defined
  BY <1>3
<1>6. f = [leader |-> f.leader, class |-> f.class, memo |-> f.memo, pending |-> f.pending,
           dirty |-> f.dirty, worth |-> f.worth, defined |-> f.defined]
  BY <1>3, <1>5
<1>7. Classes(f) = Classes(g)
  BY <1>4, <1>5 DEF Classes
<1>8. /\ \A c \in Classes(g) : c # id => f.class[c] = g.class[c]
      /\ f.class[id] = [nodes |-> old.nodes, parents |-> old.parents, data |-> data]
  BY <1>4, <1>5
<1> QED BY <1>1, <1>3, <1>5, <1>6, <1>7, <1>8 DEF id, old, data

LEMMA RepairedSound ==
    ASSUME AnalysisSound, NEW g, Sound(g), NEW entry \in g.dirty, NEW f, Repaired(g, entry, f)
    PROVE  Keeps(g, f)
<1> DEFINE id == Find(g, entry[2])
           old == g.class[id]
           data == Merge(old.data, NodeData(g, entry[1])).data
<1>1. /\ entry[1] \in Nodes(Ids(g)) /\ entry[2] \in Ids(g)
      /\ NodeWorth(entry[1], g.worth) = g.worth[entry[2]]
  BY DEF Sound, Entries
<1>2. /\ f = [leader |-> f.leader, class |-> f.class, memo |-> f.memo, pending |-> f.pending,
              dirty |-> f.dirty, worth |-> f.worth, defined |-> f.defined]
      /\ f.leader = g.leader /\ f.memo = g.memo
      /\ f.pending = g.pending /\ f.worth = g.worth /\ f.dirty \subseteq Entries(g)
      /\ Classes(f) = Classes(g) /\ id \in Classes(g)
      /\ \A c \in Classes(g) : c # id => f.class[c] = g.class[c]
      /\ f.class[id] = [nodes |-> old.nodes, parents |-> old.parents, data |-> data]
  BY RepairedParts
<1>3. Exact(data, g.worth[id])
  <2>1. g.worth[id] = g.worth[entry[2]]
    BY <1>1 DEF Sound, Find
  <2>2. Exact(NodeData(g, entry[1]), g.worth[id])
    BY <1>1, <2>1, NodeDataExact
  <2>3. Exact(g.class[id].data, g.worth[id])
    BY <1>2 DEF Sound, SoundClass
  <2> QED BY <2>2, <2>3 DEF AnalysisSound
<1>4. /\ \A n \in old.nodes : <<n, id>> \in Entries(g)
      /\ old.parents \in Seq(Entries(g))
  BY <1>2 DEF Sound, SoundClass
<1> HIDE DEF id, old, data
<1>5. Ids(f) = Ids(g) /\ Entries(f) = Entries(g)
  BY <1>2 DEF Ids, Entries
<1>6. \A c \in Classes(g) : SoundClass(f, c)
  <2> TAKE c \in Classes(g)
  <2>1. CASE c = id
    BY <1>2, <1>3, <1>4, <1>5, <2>1 DEF SoundClass
  <2>2. CASE c # id
    BY <1>2, <1>5, <2>2 DEF Sound, SoundClass
  <2> QED BY <2>1, <2>2
<1>7. /\ g.leader \in Seq(Classes(g)) /\ g.worth \in Seq(Worths)
      /\ Len(g.worth) = Len(g.leader) /\ Classes(g) \subseteq Ids(g)
      /\ \A i \in Ids(g) : g.worth[g.leader[i]] = g.worth[i]
      /\ g.pending \in Seq(Entries(g))
      /\ \A n \in DOMAIN g.memo : <<n, g.memo[n]>> \in Entries(g)
  BY DEF Sound
<1>8. Sound(f)
  BY <1>2, <1>5, <1>6, <1>7 DEF Sound
<1> QED BY <1>2, <1>5, <1>8 DEF Keeps, Extends

LEMMA RepairDataSound ==
    ASSUME AnalysisSound, NEW g, Sound(g), NEW entry \in g.dirty
    PROVE  Keeps(g, RepairData(g, entry))
<1> DEFINE id == Find(g, entry[2])
           merged == Merge(g.class[id].data, NodeData(g, entry[1]))
<1>1. PICK h, k : /\ Repaired(g, entry, h) /\ Repaired(g, entry, k)
                  /\ RepairData(g, entry) = IF merged.changed THEN ModifyClass(k, id) ELSE h
  BY RepairDataSteps
<1>2. Keeps(g, h) /\ Keeps(g, k)
  BY <1>1, RepairedSound
<1>3. id \in Ids(g)
  BY SoundIdsOf DEF Sound, Entries, Find
<1> HIDE DEF id, merged
<1>4. Keeps(k, ModifyClass(k, id))
  BY <1>2, <1>3, ModifySound DEF Keeps, Extends
<1> QED BY <1>1, <1>2, <1>4, KeepsTransitive

LEMMA CanonicalNodesParts ==
    ASSUME NEW g, Sound(g)
    PROVE  LET h == CanonicalNodes(g)
           IN  /\ h = [leader |-> g.leader, class |-> h.class, memo |-> g.memo, pending |-> g.pending,
                       dirty |-> g.dirty, worth |-> g.worth, defined |-> g.defined]
               /\ Classes(h) = Classes(g)
               /\ \A c \in Classes(g) :
                    /\ h.class[c] = [nodes |-> h.class[c].nodes, parents |-> h.class[c].parents,
                                     data |-> h.class[c].data]
                    /\ h.class[c].nodes = {Canonical(g, n) : n \in g.class[c].nodes}
                    /\ h.class[c].parents = g.class[c].parents
                    /\ h.class[c].data = g.class[c].data
<1> DEFINE class == [c \in Classes(g) |-> CanonicalClass(g, g.class[c])]
           h == CanonicalNodes(g)
<1>1. h = [leader |-> g.leader, class |-> class, memo |-> g.memo, pending |-> g.pending,
           dirty |-> g.dirty, worth |-> g.worth, defined |-> g.defined]
  <2>1. g = [leader |-> g.leader, class |-> g.class, memo |-> g.memo, pending |-> g.pending,
             dirty |-> g.dirty, worth |-> g.worth, defined |-> g.defined]
    BY DEF Sound
  <2>2. h = [g EXCEPT !.class = class]
    BY DEF CanonicalNodes, Classes
  <2> HIDE DEF class, h
  <2> QED BY <2>1, <2>2
<1>2. DOMAIN class = Classes(g) /\ \A c \in Classes(g) : class[c] = CanonicalClass(g, g.class[c])
  OBVIOUS
<1> HIDE DEF class, h
<1>3. h.class = class
  BY <1>1
<1>4. Classes(h) = Classes(g)
  BY <1>2, <1>3 DEF Classes
<1>5. \A c \in Classes(g) :
        /\ h.class[c] = [nodes |-> h.class[c].nodes, parents |-> h.class[c].parents,
                         data |-> h.class[c].data]
        /\ h.class[c].nodes = {Canonical(g, n) : n \in g.class[c].nodes}
        /\ h.class[c].parents = g.class[c].parents
        /\ h.class[c].data = g.class[c].data
  <2> TAKE c \in Classes(g)
  <2> DEFINE old == g.class[c]
             nodes == {Canonical(g, n) : n \in old.nodes}
  <2>1. old = [nodes |-> old.nodes, parents |-> old.parents, data |-> old.data]
    BY DEF Sound, SoundClass
  <2>2. h.class[c] = [old EXCEPT !.nodes = nodes]
    BY <1>2, <1>3 DEF CanonicalClass
  <2> HIDE DEF old, nodes
  <2>3. h.class[c] = [nodes |-> nodes, parents |-> old.parents, data |-> old.data]
    BY <2>1, <2>2
  <2>4. /\ h.class[c] = [nodes |-> h.class[c].nodes, parents |-> h.class[c].parents,
                         data |-> h.class[c].data]
        /\ h.class[c].nodes = nodes /\ h.class[c].parents = old.parents
        /\ h.class[c].data = old.data
    BY <2>3
  <2> QED BY <2>4 DEF old, nodes
<1>6. h = [leader |-> g.leader, class |-> h.class, memo |-> g.memo, pending |-> g.pending,
           dirty |-> g.dirty, worth |-> g.worth, defined |-> g.defined]
  BY <1>1
<1> QED BY <1>4, <1>5, <1>6 DEF h

LEMMA CanonicalNodesSound ==
    ASSUME NEW g, Sound(g)
    PROVE  Keeps(g, CanonicalNodes(g))
<1> DEFINE h == CanonicalNodes(g)
<1>1. h = [leader |-> g.leader, class |-> h.class, memo |-> g.memo, pending |-> g.pending,
           dirty |-> g.dirty, worth |-> g.worth, defined |-> g.defined]
  BY CanonicalNodesParts
<1>2. /\ Classes(h) = Classes(g)
      /\ \A c \in Classes(g) :
            /\ h.class[c] = [nodes |-> h.class[c].nodes, parents |-> h.class[c].parents,
                             data |-> h.class[c].data]
            /\ h.class[c].nodes = {Canonical(g, n) : n \in g.class[c].nodes}
            /\ h.class[c].parents = g.class[c].parents
            /\ h.class[c].data = g.class[c].data
  BY CanonicalNodesParts
<1> HIDE DEF h
<1>3. h.leader = g.leader /\ h.worth = g.worth
  BY <1>1
<1>4. Ids(h) = Ids(g) /\ Entries(h) = Entries(g)
  BY <1>3 DEF Ids, Entries
<1>5. \A c \in Classes(g) : SoundClass(h, c)
  <2> TAKE c \in Classes(g)
  <2>1. \A m \in h.class[c].nodes : <<m, c>> \in Entries(g)
    <3> TAKE m \in h.class[c].nodes
    <3>1. PICK n \in g.class[c].nodes : m = Canonical(g, n)
      BY <1>2
    <3>2. <<n, c>> \in Entries(g)
      BY DEF Sound, SoundClass
    <3>3. n \in Nodes(Ids(g)) /\ c \in Ids(g) /\ NodeWorth(n, g.worth) = g.worth[c]
      BY <3>2 DEF Entries
    <3> QED BY <3>1, <3>3, CanonicalWorth DEF Entries
  <2>2. g.class[c].parents \in Seq(Entries(g)) /\ Exact(g.class[c].data, g.worth[c])
    BY DEF Sound, SoundClass
  <2> QED BY <1>2, <1>3, <1>4, <2>1, <2>2 DEF SoundClass
<1>6. /\ g.leader \in Seq(Classes(g)) /\ g.worth \in Seq(Worths)
      /\ Len(g.worth) = Len(g.leader) /\ Classes(g) \subseteq Ids(g)
      /\ \A i \in Ids(g) : g.worth[g.leader[i]] = g.worth[i]
      /\ g.pending \in Seq(Entries(g)) /\ g.dirty \subseteq Entries(g)
      /\ \A n \in DOMAIN g.memo : <<n, g.memo[n]>> \in Entries(g)
  BY DEF Sound
<1>7. Sound(h)
  BY <1>1, <1>2, <1>4, <1>5, <1>6 DEF Sound
<1> QED BY <1>1, <1>4, <1>7 DEF Keeps, Extends, h

-----------------------------------------------------------------------------
(* The rules *)

\* x gives worths to the numbers of the left side of r, y to those of its right.
RuleUse(r, x, y) ==
    /\ \A k \in 1 .. r.vars : x[k] \in Worths /\ y[k] = x[k]
    /\ \A i \in 1 .. Len(r.lhs) : NodeWorth(r.lhs[i], x) = x[r.vars + i]
    /\ \A i \in 1 .. Len(r.rhs) : NodeWorth(r.rhs[i], y) = y[r.vars + i]

\* Both sides of the rule are worth the same.
RuleSound(r) ==
    \A x, y : RuleUse(r, x, y) => y[r.vars + Len(r.rhs)] = x[r.vars + Len(r.lhs)]

LEMMA ZeroTimes ==
    ASSUME NEW x \in Coeff
    PROVE  Times(x, Zero) = Zero /\ Times(Zero, x) = Zero
<1> DEFINE y == Times(x, Zero)
           z == Minus(Zero, y)
<1>1. y \in Coeff /\ z \in Coeff /\ Plus(y, z) = Zero /\ Times(Zero, x) = y
  BY CoeffAssumption
<1>2. Plus(y, y) = y
  BY CoeffAssumption
<1> HIDE DEF y, z
<1>3. Plus(Plus(y, y), z) = y
  <2>1. Plus(Plus(y, y), z) = Plus(y, Plus(y, z))
    BY <1>1, CoeffAssumption
  <2> QED BY <1>1, <2>1, CoeffAssumption
<1>4. y = Zero
  BY <1>1, <1>2, <1>3
<1> QED BY <1>1, <1>4 DEF y

LEMMA BinWorth ==
    ASSUME NEW s \in Nat, NEW t \in Nat, NEW x
    PROVE  /\ NodeWorth(Bin("+", s, t), x) = [p \in Points |-> Plus(x[s][p], x[t][p])]
           /\ NodeWorth(Bin("*", s, t), x) = [p \in Points |-> Times(x[s][p], x[t][p])]
           /\ NodeWorth(Bin("^", s, t), x) =
                [p \in Points |-> IF PowDefined(x[s][p], x[t][p])
                                  THEN IntPower(x[s][p], ExponentOf(x[t][p]))
                                  ELSE Undefined(x[s][p], x[t][p])]
<1>1. ASSUME NEW op
      PROVE  NodeWorth(Bin(op, s, t), x) =
                [p \in Points |-> ValueOf(op, 0, <<x[s][p], x[t][p]>>, p)]
  <2> DEFINE n == Bin(op, s, t)
  <2>1. n.op = op /\ n.val = 0 /\ n.kids = <<s, t>>
    BY DEF Bin, OpNode
  <2> HIDE DEF n
  <2>2. \A p \in Points : [i \in DOMAIN n.kids |-> x[n.kids[i]][p]] = <<x[s][p], x[t][p]>>
    BY <2>1
  <2>3. NodeWorth(n, x) = [p \in Points |-> ValueOf(op, 0, <<x[s][p], x[t][p]>>, p)]
    BY <2>1, <2>2 DEF NodeWorth
  <2> QED BY <2>3 DEF n
<1>2. \A p \in Points : <<x[s][p], x[t][p]>>[1] = x[s][p] /\ <<x[s][p], x[t][p]>>[2] = x[t][p]
  OBVIOUS
<1>3. /\ \A p \in Points : ValueOf("+", 0, <<x[s][p], x[t][p]>>, p) = Plus(x[s][p], x[t][p])
      /\ \A p \in Points : ValueOf("*", 0, <<x[s][p], x[t][p]>>, p) = Times(x[s][p], x[t][p])
      /\ \A p \in Points : ValueOf("^", 0, <<x[s][p], x[t][p]>>, p) =
            IF PowDefined(x[s][p], x[t][p])
            THEN IntPower(x[s][p], ExponentOf(x[t][p]))
            ELSE Undefined(x[s][p], x[t][p])
  BY <1>2 DEF ValueOf
<1> QED BY <1>1, <1>3

\* Rules of the shape (op ?a number) -> ?a.
LEMMA VariableRule ==
    ASSUME NEW a, NEW b,
           \A x : (/\ x[1] \in Worths /\ x[2] = NodeWorth(a, x)
                   /\ x[3] = NodeWorth(b, x)) => x[1] = x[3]
    PROVE  RuleSound(Rule(1, <<a, b>>, <<>>))
<1> DEFINE r == Rule(1, <<a, b>>, <<>>)
<1>1. /\ r.vars = 1 /\ Len(r.lhs) = 2 /\ Len(r.rhs) = 0
      /\ r.lhs[1] = a /\ r.lhs[2] = b
  BY DEF Rule
<1> HIDE DEF r
<1>2. ASSUME NEW x, NEW y, RuleUse(r, x, y)
      PROVE  y[r.vars + Len(r.rhs)] = x[r.vars + Len(r.lhs)]
  <2>1. 1 \in 1 .. r.vars /\ 1 \in 1 .. Len(r.lhs) /\ 2 \in 1 .. Len(r.lhs)
    BY <1>1
  <2>2. x[1] \in Worths /\ y[1] = x[1]
    BY <1>2, <2>1 DEF RuleUse
  <2>3. NodeWorth(a, x) = x[1 + 1] /\ NodeWorth(b, x) = x[1 + 2]
    BY <1>1, <1>2, <2>1 DEF RuleUse
  <2>4. x[1] = x[3]
    BY <2>2, <2>3
  <2> QED BY <1>1, <2>2, <2>4
<1> QED BY <1>2 DEF RuleSound, r

\* Rules of the shape (op ?a number) -> number.
LEMMA NumberRule ==
    ASSUME NEW a, NEW b, NEW c \in Coeff,
           \A x : (/\ x[1] \in Worths /\ x[2] = NodeWorth(a, x)
                   /\ x[3] = NodeWorth(b, x)) => x[3] = [p \in Points |-> c]
    PROVE  RuleSound(Rule(1, <<a, b>>, <<Num(c)>>))
<1> DEFINE r == Rule(1, <<a, b>>, <<Num(c)>>)
<1>1. /\ r.vars = 1 /\ Len(r.lhs) = 2 /\ Len(r.rhs) = 1
      /\ r.lhs[1] = a /\ r.lhs[2] = b /\ r.rhs[1] = Num(c)
  BY DEF Rule
<1> HIDE DEF r
<1>2. ASSUME NEW x, NEW y, RuleUse(r, x, y)
      PROVE  y[r.vars + Len(r.rhs)] = x[r.vars + Len(r.lhs)]
  <2>1. /\ 1 \in 1 .. r.vars /\ 1 \in 1 .. Len(r.lhs) /\ 2 \in 1 .. Len(r.lhs)
        /\ 1 \in 1 .. Len(r.rhs)
    BY <1>1
  <2>2. x[1] \in Worths
    BY <1>2, <2>1 DEF RuleUse
  <2>3. NodeWorth(a, x) = x[1 + 1] /\ NodeWorth(b, x) = x[1 + 2] /\ NodeWorth(Num(c), y) = y[1 + 1]
    BY <1>1, <1>2, <2>1 DEF RuleUse
  <2>4. x[3] = [p \in Points |-> c]
    BY <2>2, <2>3
  <2>5. y[2] = [p \in Points |-> c]
    BY <2>3, NumIsNode
  <2> QED BY <1>1, <2>4, <2>5
<1> QED BY <1>2 DEF RuleSound, r

\* Rules of the shape (+ product product) -> product.
LEMMA FactoringRule ==
    ASSUME NEW a, NEW b, NEW c, NEW d, NEW e,
           \A x, y : (/\ x[1] \in Worths /\ x[2] \in Worths /\ x[3] \in Worths
                      /\ y[1] = x[1] /\ y[2] = x[2] /\ y[3] = x[3]
                      /\ x[4] = NodeWorth(a, x) /\ x[5] = NodeWorth(b, x)
                      /\ x[6] = NodeWorth(c, x)
                      /\ y[4] = NodeWorth(d, y) /\ y[5] = NodeWorth(e, y)) => y[5] = x[6]
    PROVE  RuleSound(Rule(3, <<a, b, c>>, <<d, e>>))
<1> DEFINE r == Rule(3, <<a, b, c>>, <<d, e>>)
<1>1. /\ r.vars = 3 /\ Len(r.lhs) = 3 /\ Len(r.rhs) = 2
      /\ r.lhs[1] = a /\ r.lhs[2] = b /\ r.lhs[3] = c
      /\ r.rhs[1] = d /\ r.rhs[2] = e
  BY DEF Rule
<1> HIDE DEF r
<1>2. ASSUME NEW x, NEW y, RuleUse(r, x, y)
      PROVE  y[r.vars + Len(r.rhs)] = x[r.vars + Len(r.lhs)]
  <2>1. /\ 1 \in 1 .. r.vars /\ 2 \in 1 .. r.vars /\ 3 \in 1 .. r.vars
        /\ 1 \in 1 .. Len(r.lhs) /\ 2 \in 1 .. Len(r.lhs) /\ 3 \in 1 .. Len(r.lhs)
        /\ 1 \in 1 .. Len(r.rhs) /\ 2 \in 1 .. Len(r.rhs)
    BY <1>1
  <2>2. /\ x[1] \in Worths /\ x[2] \in Worths /\ x[3] \in Worths
        /\ y[1] = x[1] /\ y[2] = x[2] /\ y[3] = x[3]
    BY <1>2, <2>1 DEF RuleUse
  <2>3. /\ NodeWorth(a, x) = x[3 + 1] /\ NodeWorth(b, x) = x[3 + 2]
        /\ NodeWorth(c, x) = x[3 + 3]
        /\ NodeWorth(d, y) = y[3 + 1] /\ NodeWorth(e, y) = y[3 + 2]
    BY <1>1, <1>2, <2>1 DEF RuleUse
  <2>4. y[5] = x[6]
    BY <2>2, <2>3
  <2> QED BY <1>1, <2>4
<1> QED BY <1>2 DEF RuleSound, r

\* Plus and Times with Zero or One, for worths.
LEMMA SafeRulesSound ==
    \A i \in 1 .. 8 : RuleSound(SafeRules[i])
<1> DEFINE zero == [p \in Points |-> Zero]
           one == [p \in Points |-> One]
           Sum(x, s, t) == [p \in Points |-> Plus(x[s][p], x[t][p])]
           Product(x, s, t) == [p \in Points |-> Times(x[s][p], x[t][p])]
           PowerOf(x) == [p \in Points |-> IF PowDefined(x[1][p], x[2][p])
                                           THEN IntPower(x[1][p], ExponentOf(x[2][p]))
                                           ELSE Undefined(x[1][p], x[2][p])]
<1>1. \A x : NodeWorth(Num(Zero), x) = zero /\ NodeWorth(Num(One), x) = one
  <2>1. Zero \in Coeff /\ One \in Coeff
    BY CoeffAssumption DEF NonZero
  <2> TAKE x
  <2> QED BY <2>1, NumIsNode
<1>2. \A x : /\ NodeWorth(Bin("+", 1, 2), x) = Sum(x, 1, 2)
             /\ NodeWorth(Bin("+", 2, 1), x) = Sum(x, 2, 1)
             /\ NodeWorth(Bin("*", 1, 2), x) = Product(x, 1, 2)
             /\ NodeWorth(Bin("*", 2, 1), x) = Product(x, 2, 1)
             /\ NodeWorth(Bin("^", 1, 2), x) = PowerOf(x)
  <2>1. 1 \in Nat /\ 2 \in Nat
    OBVIOUS
  <2> QED BY <2>1, BinWorth
<1>3. ASSUME NEW x, x[1] \in Worths, x[2] = zero
      PROVE  /\ x[1] = Sum(x, 1, 2) /\ x[1] = Sum(x, 2, 1)
             /\ Product(x, 1, 2) = zero /\ Product(x, 2, 1) = zero
             /\ PowerOf(x) = one
  <2>1. \A p \in Points : x[1][p] \in Coeff /\ x[2][p] = Zero
    BY <1>3 DEF Worths
  <2>2. \A v \in Coeff : Plus(v, Zero) = v /\ Plus(Zero, v) = v
    BY CoeffAssumption
  <2>3. x[1] = [p \in Points |-> x[1][p]]
    BY <1>3 DEF Worths
  <2>4. x[1] = Sum(x, 1, 2) /\ x[1] = Sum(x, 2, 1)
    BY <2>1, <2>2, <2>3
  <2>5. Product(x, 1, 2) = zero /\ Product(x, 2, 1) = zero
    BY <2>1, ZeroTimes
  <2>6. \A p \in Points : PowDefined(x[1][p], x[2][p])
                          /\ IntPower(x[1][p], ExponentOf(x[2][p])) = One
    <3>1. ExponentOf(Zero) = 0 /\ 0 # None
      BY ValuesAssumption
    <3> QED BY <2>1, <3>1, SmallPowers DEF PowDefined
  <2> QED BY <2>4, <2>5, <2>6
<1>4. ASSUME NEW x, x[1] \in Worths, x[2] = one
      PROVE  x[1] = Product(x, 1, 2) /\ x[1] = Product(x, 2, 1) /\ x[1] = PowerOf(x)
  <2>1. \A p \in Points : x[1][p] \in Coeff /\ x[2][p] = One
    BY <1>4 DEF Worths
  <2>2. \A v \in Coeff : Times(v, One) = v /\ Times(One, v) = v
    BY CoeffAssumption DEF NonZero
  <2>3. x[1] = [p \in Points |-> x[1][p]]
    BY <1>4 DEF Worths
  <2>4. x[1] = Product(x, 1, 2) /\ x[1] = Product(x, 2, 1)
    BY <2>1, <2>2, <2>3
  <2>5. \A p \in Points : PowDefined(x[1][p], x[2][p])
                          /\ IntPower(x[1][p], ExponentOf(x[2][p])) = x[1][p]
    <3>1. ExponentOf(One) = 1 /\ 1 # None
      BY ValuesAssumption
    <3> QED BY <2>1, <3>1, SmallPowers DEF PowDefined
  <2> QED BY <2>3, <2>4, <2>5
<1> HIDE DEF zero, one, Sum, Product, PowerOf
<1>5. RuleSound(Rule(1, <<Num(Zero), Bin("+", 1, 2)>>, <<>>))
  BY <1>1, <1>2, <1>3, VariableRule
<1>6. RuleSound(Rule(1, <<Num(Zero), Bin("+", 2, 1)>>, <<>>))
  BY <1>1, <1>2, <1>3, VariableRule
<1>7. RuleSound(Rule(1, <<Num(One), Bin("*", 1, 2)>>, <<>>))
  BY <1>1, <1>2, <1>4, VariableRule
<1>8. RuleSound(Rule(1, <<Num(One), Bin("*", 2, 1)>>, <<>>))
  BY <1>1, <1>2, <1>4, VariableRule
<1>9. RuleSound(Rule(1, <<Num(Zero), Bin("*", 1, 2)>>, <<Num(Zero)>>))
  <2>1. \A x : (/\ x[1] \in Worths /\ x[2] = NodeWorth(Num(Zero), x)
                /\ x[3] = NodeWorth(Bin("*", 1, 2), x)) => x[3] = [p \in Points |-> Zero]
    BY <1>1, <1>2, <1>3 DEF zero
  <2>2. Zero \in Coeff
    BY CoeffAssumption
  <2> QED BY <2>1, <2>2, NumberRule
<1>10. RuleSound(Rule(1, <<Num(Zero), Bin("*", 2, 1)>>, <<Num(Zero)>>))
  <2>1. \A x : (/\ x[1] \in Worths /\ x[2] = NodeWorth(Num(Zero), x)
                /\ x[3] = NodeWorth(Bin("*", 2, 1), x)) => x[3] = [p \in Points |-> Zero]
    BY <1>1, <1>2, <1>3 DEF zero
  <2>2. Zero \in Coeff
    BY CoeffAssumption
  <2> QED BY <2>1, <2>2, NumberRule
<1>11. RuleSound(Rule(1, <<Num(One), Bin("^", 1, 2)>>, <<>>))
  BY <1>1, <1>2, <1>4, VariableRule
<1>12. RuleSound(Rule(1, <<Num(Zero), Bin("^", 1, 2)>>, <<Num(One)>>))
  <2>1. \A x : (/\ x[1] \in Worths /\ x[2] = NodeWorth(Num(Zero), x)
                /\ x[3] = NodeWorth(Bin("^", 1, 2), x)) => x[3] = [p \in Points |-> One]
    BY <1>1, <1>2, <1>3 DEF one
  <2>2. One \in Coeff
    BY CoeffAssumption DEF NonZero
  <2> QED BY <2>1, <2>2, NumberRule
<1>13. /\ SafeRules[1] = Rule(1, <<Num(Zero), Bin("+", 1, 2)>>, <<>>)
       /\ SafeRules[2] = Rule(1, <<Num(Zero), Bin("+", 2, 1)>>, <<>>)
       /\ SafeRules[3] = Rule(1, <<Num(One), Bin("*", 1, 2)>>, <<>>)
       /\ SafeRules[4] = Rule(1, <<Num(One), Bin("*", 2, 1)>>, <<>>)
       /\ SafeRules[5] = Rule(1, <<Num(Zero), Bin("*", 1, 2)>>, <<Num(Zero)>>)
       /\ SafeRules[6] = Rule(1, <<Num(Zero), Bin("*", 2, 1)>>, <<Num(Zero)>>)
       /\ SafeRules[7] = Rule(1, <<Num(One), Bin("^", 1, 2)>>, <<>>)
       /\ SafeRules[8] = Rule(1, <<Num(Zero), Bin("^", 1, 2)>>, <<Num(One)>>)
  BY DEF SafeRules
<1>14. \A i \in 1 .. 8 : i \in {1, 2, 3, 4, 5, 6, 7, 8}
  OBVIOUS
<1> QED BY <1>5, <1>6, <1>7, <1>8, <1>9, <1>10, <1>11, <1>12, <1>13, <1>14

LEMMA AggressiveRulesSound ==
    \A i \in 1 .. 2 : RuleSound(AggressiveRules[i])
<1> DEFINE Sum(x, s, t) == [p \in Points |-> Plus(x[s][p], x[t][p])]
           Product(x, s, t) == [p \in Points |-> Times(x[s][p], x[t][p])]
           Given3(x, y) == /\ x[1] \in Worths /\ x[2] \in Worths /\ x[3] \in Worths
                           /\ y[1] = x[1] /\ y[2] = x[2] /\ y[3] = x[3]
<1>1. \A x : \A s, t \in 1 .. 5 : /\ NodeWorth(Bin("+", s, t), x) = Sum(x, s, t)
                                  /\ NodeWorth(Bin("*", s, t), x) = Product(x, s, t)
  BY BinWorth
<1>2. \A u, v, w \in Coeff :
        /\ Times(u, Plus(v, w)) = Plus(Times(u, v), Times(u, w))
        /\ Times(Plus(v, w), u) = Plus(Times(v, u), Times(w, u))
  <2> TAKE u, v, w \in Coeff
  <2>1. Plus(v, w) \in Coeff
    BY CoeffAssumption
  <2> QED BY <2>1, CoeffAssumption
<1>3. ASSUME NEW x, NEW y, Given3(x, y),
             x[4] = Product(x, 1, 2), x[5] = Product(x, 1, 3), x[6] = Sum(x, 4, 5),
             y[4] = Sum(y, 2, 3), y[5] = Product(y, 1, 4)
      PROVE  y[5] = x[6]
  <2>1. \A p \in Points : x[1][p] \in Coeff /\ x[2][p] \in Coeff /\ x[3][p] \in Coeff
    BY <1>3 DEF Worths
  <2>2. \A p \in Points : /\ y[1][p] = x[1][p] /\ y[4][p] = Plus(x[2][p], x[3][p])
                          /\ x[4][p] = Times(x[1][p], x[2][p])
                          /\ x[5][p] = Times(x[1][p], x[3][p])
    BY <1>3
  <2>3. \A p \in Points : Times(y[1][p], y[4][p]) = Plus(x[4][p], x[5][p])
    BY <1>2, <2>1, <2>2
  <2> QED BY <1>3, <2>3
<1>4. ASSUME NEW x, NEW y, Given3(x, y),
             x[4] = Product(x, 2, 1), x[5] = Product(x, 3, 1), x[6] = Sum(x, 4, 5),
             y[4] = Sum(y, 2, 3), y[5] = Product(y, 4, 1)
      PROVE  y[5] = x[6]
  <2>1. \A p \in Points : x[1][p] \in Coeff /\ x[2][p] \in Coeff /\ x[3][p] \in Coeff
    BY <1>4 DEF Worths
  <2>2. \A p \in Points : /\ y[1][p] = x[1][p] /\ y[4][p] = Plus(x[2][p], x[3][p])
                          /\ x[4][p] = Times(x[2][p], x[1][p])
                          /\ x[5][p] = Times(x[3][p], x[1][p])
    BY <1>4
  <2>3. \A p \in Points : Times(y[4][p], y[1][p]) = Plus(x[4][p], x[5][p])
    BY <1>2, <2>1, <2>2
  <2> QED BY <1>4, <2>3
<1>5. \A x : /\ NodeWorth(Bin("*", 1, 2), x) = Product(x, 1, 2)
             /\ NodeWorth(Bin("*", 1, 3), x) = Product(x, 1, 3)
             /\ NodeWorth(Bin("*", 2, 1), x) = Product(x, 2, 1)
             /\ NodeWorth(Bin("*", 3, 1), x) = Product(x, 3, 1)
             /\ NodeWorth(Bin("*", 1, 4), x) = Product(x, 1, 4)
             /\ NodeWorth(Bin("*", 4, 1), x) = Product(x, 4, 1)
             /\ NodeWorth(Bin("+", 4, 5), x) = Sum(x, 4, 5)
             /\ NodeWorth(Bin("+", 2, 3), x) = Sum(x, 2, 3)
  <2>1. 1 \in 1 .. 5 /\ 2 \in 1 .. 5 /\ 3 \in 1 .. 5 /\ 4 \in 1 .. 5 /\ 5 \in 1 .. 5
    OBVIOUS
  <2> HIDE DEF Sum, Product
  <2> QED BY <1>1, <2>1
<1> HIDE DEF Sum, Product
<1>6. RuleSound(Rule(3, <<Bin("*", 1, 2), Bin("*", 1, 3), Bin("+", 4, 5)>>,
                        <<Bin("+", 2, 3), Bin("*", 1, 4)>>))
  BY <1>3, <1>5, FactoringRule
<1>7. RuleSound(Rule(3, <<Bin("*", 2, 1), Bin("*", 3, 1), Bin("+", 4, 5)>>,
                        <<Bin("+", 2, 3), Bin("*", 4, 1)>>))
  BY <1>4, <1>5, FactoringRule
<1>8. /\ AggressiveRules[1] = Rule(3, <<Bin("*", 1, 2), Bin("*", 1, 3), Bin("+", 4, 5)>>,
                                      <<Bin("+", 2, 3), Bin("*", 1, 4)>>)
      /\ AggressiveRules[2] = Rule(3, <<Bin("*", 2, 1), Bin("*", 3, 1), Bin("+", 4, 5)>>,
                                      <<Bin("+", 2, 3), Bin("*", 4, 1)>>)
  BY DEF AggressiveRules
<1>9. \A i \in 1 .. 2 : i = 1 \/ i = 2
  OBVIOUS
<1> QED BY <1>6, <1>7, <1>8, <1>9

\* Both sides of a rule are lists over its variables.
RuleIsList(r) ==
    /\ r.vars \in Nat \ {0} /\ Len(r.lhs) \in Nat /\ Len(r.rhs) \in Nat
    /\ DOMAIN r.lhs = 1 .. Len(r.lhs) /\ DOMAIN r.rhs = 1 .. Len(r.rhs)
    /\ IsList(r.lhs, r.vars) /\ IsList(r.rhs, r.vars)

LEMMA BinIsNode ==
    ASSUME NEW K, NEW s \in K, NEW t \in K, NEW op \in {"+", "*", "^"}
    PROVE  Bin(op, s, t) \in Nodes(K)
<1>1. Bin(op, s, t) = [op |-> op, val |-> 0, kids |-> <<s, t>>] /\ <<s, t>> \in [1 .. 2 -> K]
  BY DEF Bin, OpNode
<1> QED BY <1>1 DEF Nodes

LEMMA ShortRuleIsList ==
    ASSUME NEW a \in Nodes(1 .. 1), NEW b \in Nodes(1 .. 2)
    PROVE  /\ RuleIsList(Rule(1, <<a, b>>, <<>>))
           /\ \A c \in Nodes(1 .. 1) : RuleIsList(Rule(1, <<a, b>>, <<c>>))
<1>1. ASSUME NEW r, r.vars = 1, r.lhs = <<a, b>>,
             r.rhs = <<>> \/ \E c \in Nodes(1 .. 1) : r.rhs = <<c>>
      PROVE  RuleIsList(r)
  <2>1. /\ Len(r.lhs) = 2 /\ DOMAIN r.lhs = {1, 2} /\ r.lhs[1] = a /\ r.lhs[2] = b
        /\ 1 .. 2 = {1, 2}
    BY <1>1
  <2>2. 1 .. r.vars + 1 - 1 = 1 .. 1 /\ 1 .. r.vars + 2 - 1 = 1 .. 2
    BY <1>1
  <2>3. IsList(r.lhs, r.vars)
    BY <2>1, <2>2 DEF IsList
  <2>4. CASE r.rhs = <<>>
    <3>1. Len(r.rhs) = 0 /\ DOMAIN r.rhs = 1 .. 0 /\ DOMAIN r.rhs = {}
      BY <2>4
    <3>2. IsList(r.rhs, r.vars)
      BY <3>1 DEF IsList
    <3> QED BY <1>1, <2>1, <2>3, <3>1, <3>2 DEF RuleIsList
  <2>5. CASE r.rhs # <<>>
    <3>1. PICK c \in Nodes(1 .. 1) : r.rhs = <<c>>
      BY <1>1, <2>5
    <3>2. Len(r.rhs) = 1 /\ DOMAIN r.rhs = {1} /\ r.rhs[1] = c /\ 1 .. 1 = {1}
      BY <3>1
    <3>3. IsList(r.rhs, r.vars)
      BY <2>2, <3>2 DEF IsList
    <3> QED BY <1>1, <2>1, <2>3, <3>2, <3>3 DEF RuleIsList
  <2> QED BY <2>4, <2>5
<1>2. ASSUME NEW rhs
      PROVE  LET r == Rule(1, <<a, b>>, rhs) IN r.vars = 1 /\ r.lhs = <<a, b>> /\ r.rhs = rhs
  BY DEF Rule
<1> QED BY <1>1, <1>2

LEMMA LongRuleIsList ==
    ASSUME NEW a \in Nodes(1 .. 3), NEW b \in Nodes(1 .. 4), NEW c \in Nodes(1 .. 5),
           NEW d \in Nodes(1 .. 3), NEW e \in Nodes(1 .. 4)
    PROVE  RuleIsList(Rule(3, <<a, b, c>>, <<d, e>>))
<1> DEFINE r == Rule(3, <<a, b, c>>, <<d, e>>)
<1>1. r.vars = 3 /\ r.lhs = <<a, b, c>> /\ r.rhs = <<d, e>>
  BY DEF Rule
<1> HIDE DEF r
<1>2. /\ Len(r.lhs) = 3 /\ DOMAIN r.lhs = {1, 2, 3} /\ 1 .. 3 = {1, 2, 3}
      /\ r.lhs[1] = a /\ r.lhs[2] = b /\ r.lhs[3] = c
  BY <1>1
<1>3. /\ Len(r.rhs) = 2 /\ DOMAIN r.rhs = {1, 2} /\ 1 .. 2 = {1, 2}
      /\ r.rhs[1] = d /\ r.rhs[2] = e
  BY <1>1
<1>4. 3 + 1 - 1 = 3 /\ 3 + 2 - 1 = 4 /\ 3 + 3 - 1 = 5
  OBVIOUS
<1>5. IsList(r.lhs, r.vars)
  BY <1>1, <1>2, <1>4 DEF IsList
<1>6. IsList(r.rhs, r.vars)
  BY <1>1, <1>3, <1>4 DEF IsList
<1>7. RuleIsList(r)
  BY <1>1, <1>2, <1>3, <1>5, <1>6 DEF RuleIsList
<1> QED BY <1>7 DEF r

LEMMA RulesAreLists ==
    /\ Len(SafeRules) = 8 /\ \A i \in 1 .. 8 : RuleIsList(SafeRules[i])
    /\ Len(AggressiveRules) = 2 /\ \A i \in 1 .. 2 : RuleIsList(AggressiveRules[i])
<1>1. Num(Zero) \in Nodes(1 .. 1) /\ Num(One) \in Nodes(1 .. 1)
  <2>1. Zero \in Coeff /\ One \in Coeff
    BY CoeffAssumption DEF NonZero
  <2> QED BY <2>1, NumIsNode
<1>2. \A op \in {"+", "*", "^"} : Bin(op, 1, 2) \in Nodes(1 .. 2) /\ Bin(op, 2, 1) \in Nodes(1 .. 2)
  <2>1. 1 \in 1 .. 2 /\ 2 \in 1 .. 2
    OBVIOUS
  <2> QED BY <2>1, BinIsNode
<1>3. /\ Bin("*", 1, 2) \in Nodes(1 .. 3) /\ Bin("*", 2, 1) \in Nodes(1 .. 3)
      /\ Bin("*", 1, 3) \in Nodes(1 .. 4) /\ Bin("*", 3, 1) \in Nodes(1 .. 4)
      /\ Bin("+", 4, 5) \in Nodes(1 .. 5) /\ Bin("+", 2, 3) \in Nodes(1 .. 3)
      /\ Bin("*", 1, 4) \in Nodes(1 .. 4) /\ Bin("*", 4, 1) \in Nodes(1 .. 4)
  <2>1. /\ 1 \in 1 .. 3 /\ 2 \in 1 .. 3 /\ 3 \in 1 .. 3
        /\ 1 \in 1 .. 4 /\ 3 \in 1 .. 4 /\ 4 \in 1 .. 4 /\ 4 \in 1 .. 5 /\ 5 \in 1 .. 5
    OBVIOUS
  <2> QED BY <2>1, BinIsNode
<1>4. \A op \in {"+", "*", "^"} : \A c \in {Zero, One} : \A b \in {Bin(op, 1, 2), Bin(op, 2, 1)} :
        /\ RuleIsList(Rule(1, <<Num(c), b>>, <<>>))
        /\ RuleIsList(Rule(1, <<Num(c), b>>, <<Num(Zero)>>))
        /\ RuleIsList(Rule(1, <<Num(c), b>>, <<Num(One)>>))
  BY <1>1, <1>2, ShortRuleIsList
<1>5. Len(SafeRules) = 8 /\ \A i \in 1 .. 8 : RuleIsList(SafeRules[i])
  <2>1. \A i \in 1 .. 8 : i \in {1, 2, 3, 4, 5, 6, 7, 8}
    OBVIOUS
  <2> QED BY <1>4, <2>1 DEF SafeRules
<1>6. Len(AggressiveRules) = 2 /\ \A i \in 1 .. 2 : RuleIsList(AggressiveRules[i])
  <2>1. \A i \in 1 .. 2 : i = 1 \/ i = 2
    OBVIOUS
  <2>2. /\ RuleIsList(Rule(3, <<Bin("*", 1, 2), Bin("*", 1, 3), Bin("+", 4, 5)>>,
                              <<Bin("+", 2, 3), Bin("*", 1, 4)>>))
        /\ RuleIsList(Rule(3, <<Bin("*", 2, 1), Bin("*", 3, 1), Bin("+", 4, 5)>>,
                              <<Bin("+", 2, 3), Bin("*", 4, 1)>>))
    BY <1>3, LongRuleIsList
  <2> QED BY <2>1, <2>2 DEF AggressiveRules
<1> QED BY <1>5, <1>6

\* A rule does not add powers.
AddsNoPower(r) == \A i \in DOMAIN r.rhs : r.rhs[i].op # "^"

LEMMA RulesAddNoPower ==
    /\ \A i \in 1 .. 8 : AddsNoPower(SafeRules[i])
    /\ \A i \in 1 .. 2 : AddsNoPower(AggressiveRules[i])
<1>1. \A r, c : r.rhs = <<>> \/ r.rhs = <<Num(c)>> => AddsNoPower(r)
  <2>1. \A c : Num(c).op # "^"
    BY DEF Num, LeafNode
  <2> QED BY <2>1 DEF AddsNoPower
<1>2. \A r, s, t, u, v : r.rhs = <<Bin("+", s, t), Bin("*", u, v)>> => AddsNoPower(r)
  <2>1. \A s, t : Bin("+", s, t).op # "^" /\ Bin("*", s, t).op # "^"
    BY DEF Bin, OpNode
  <2> QED BY <2>1 DEF AddsNoPower
<1>3. \A n, l, r : Rule(n, l, r).rhs = r
  BY DEF Rule
<1>4. \A i \in 1 .. 8 : AddsNoPower(SafeRules[i])
  <2>1. \A i \in 1 .. 8 : SafeRules[i].rhs \in {<<>>, <<Num(Zero)>>, <<Num(One)>>}
    <3>1. \A i \in 1 .. 8 : i \in {1, 2, 3, 4, 5, 6, 7, 8}
      OBVIOUS
    <3> QED BY <1>3, <3>1 DEF SafeRules
  <2> QED BY <1>1, <2>1
<1>5. \A i \in 1 .. 2 : AddsNoPower(AggressiveRules[i])
  <2>1. \A i \in 1 .. 2 : i = 1 \/ i = 2
    OBVIOUS
  <2>2. /\ AggressiveRules[1].rhs = <<Bin("+", 2, 3), Bin("*", 1, 4)>>
        /\ AggressiveRules[2].rhs = <<Bin("+", 2, 3), Bin("*", 4, 1)>>
    BY <1>3 DEF AggressiveRules
  <2> QED BY <1>2, <2>1, <2>2
<1> QED BY <1>4, <1>5

GoodRule(r) == RuleSound(r) /\ RuleIsList(r) /\ AddsNoPower(r)

LEMMA GoodRulesJoined ==
    ASSUME NEW S, NEW s \in Seq(S), NEW t \in Seq(S),
           \A i \in DOMAIN s : GoodRule(s[i]), \A i \in DOMAIN t : GoodRule(t[i])
    PROVE  s \o t \in Seq(S) /\ \A i \in DOMAIN (s \o t) : GoodRule((s \o t)[i])
<1>1. /\ Len(s \o t) = Len(s) + Len(t) /\ s \o t \in Seq(S)
      /\ Len(s) \in Nat /\ Len(t) \in Nat
  BY ConcatProperties
<1>2. \A i \in 1 .. Len(s) + Len(t) :
        (s \o t)[i] = IF i <= Len(s) THEN s[i] ELSE t[i - Len(s)]
  BY ConcatProperties
<1>3. ASSUME NEW i \in DOMAIN (s \o t)
      PROVE  GoodRule((s \o t)[i])
  <2>1. i \in 1 .. Len(s) + Len(t)
    BY <1>1
  <2>2. CASE i <= Len(s)
    BY <1>1, <1>2, <2>1, <2>2
  <2>3. CASE ~(i <= Len(s))
    BY <1>1, <1>2, <2>1, <2>3
  <2> QED BY <2>2, <2>3
<1> QED BY <1>1, <1>3

\* Every rule of a rule set is a sound one.
LEMMA RulesSound ==
    ASSUME NEW m
    PROVE  /\ Len(RulesForMode(m)) \in Nat
           /\ DOMAIN RulesForMode(m) = 1 .. Len(RulesForMode(m))
           /\ \A i \in DOMAIN RulesForMode(m) : GoodRule(RulesForMode(m)[i])
<1> DEFINE S == {SafeRules[i] : i \in 1 .. 8} \cup {AggressiveRules[i] : i \in 1 .. 2}
<1>1. SafeRules \in Seq(S) /\ AggressiveRules \in Seq(S)
  BY DEF SafeRules, AggressiveRules
<1>2. DOMAIN SafeRules = 1 .. 8 /\ DOMAIN AggressiveRules = 1 .. 2
  BY DEF SafeRules, AggressiveRules
<1> HIDE DEF S
<1>3. \A i \in DOMAIN SafeRules : GoodRule(SafeRules[i])
  BY <1>2, SafeRulesSound, RulesAreLists, RulesAddNoPower DEF GoodRule
<1>4. \A i \in DOMAIN AggressiveRules : GoodRule(AggressiveRules[i])
  BY <1>2, AggressiveRulesSound, RulesAreLists, RulesAddNoPower DEF GoodRule
<1>5. /\ SafeRules \o AggressiveRules \in Seq(S)
      /\ \A i \in DOMAIN (SafeRules \o AggressiveRules) :
            GoodRule((SafeRules \o AggressiveRules)[i])
  BY <1>1, <1>3, <1>4, GoodRulesJoined
<1> DEFINE R == RulesForMode(m)
<1>6. R = SafeRules \/ R = SafeRules \o AggressiveRules
  BY DEF RulesForMode
<1> HIDE DEF R
<1>7. R \in Seq(S) /\ \A i \in DOMAIN R : GoodRule(R[i])
  BY <1>1, <1>3, <1>5, <1>6
<1>8. Len(R) \in Nat /\ DOMAIN R = 1 .. Len(R)
  BY <1>7
<1> QED BY <1>7, <1>8 DEF R

-----------------------------------------------------------------------------
(* Matches *)

\* What a search finds is worth what the left side says.
LEMMA MatchSound ==
    ASSUME NEW g, Sound(g), NEW r, RuleIsList(r), NEW m, IsMatch(g, r, m)
    PROVE  SoundMatch(g, r, m)
<1> DEFINE x == [k \in DOMAIN m |-> g.worth[m[k]]]
<1>1. m \in [1 .. LhsSize(r) -> Classes(g)] /\ Classes(g) \subseteq Ids(g)
  BY DEF IsMatch, Sound
<1>2. m \in [1 .. LhsSize(r) -> Ids(g)]
  BY <1>1
<1>3. ASSUME NEW i \in DOMAIN r.lhs
      PROVE  NodeWorth(r.lhs[i], x) = g.worth[m[r.vars + i]]
  <2> DEFINE K == 1 .. r.vars + i - 1
             c == m[r.vars + i]
             n == Subst(r.lhs[i], m)
  <2>1. i \in Nat /\ i <= Len(r.lhs) /\ r.vars \in Nat /\ Len(r.lhs) \in Nat /\ i # 0
    BY <1>3 DEF RuleIsList
  <2>2. r.lhs[i] \in Nodes(K)
    BY <1>3 DEF RuleIsList, IsList
  <2>3. K \subseteq DOMAIN m /\ r.vars + i \in DOMAIN m
    BY <1>2, <2>1 DEF LhsSize
  <2>4. c \in Classes(g) /\ n \in g.class[c].nodes
    BY <1>1, <1>3, <2>3 DEF IsMatch
  <2> HIDE DEF K, n
  <2>5. <<n, c>> \in Entries(g)
    BY <2>4 DEF Sound, SoundClass
  <2>6. NodeWorth(n, g.worth) = g.worth[c]
    BY <2>5 DEF Entries
  <2>7. \A k \in K : x[k] = g.worth[m[k]]
    BY <2>3
  <2> HIDE DEF x
  <2>8. NodeWorth(Subst(r.lhs[i], m), g.worth) = NodeWorth(r.lhs[i], x)
    BY <2>2, <2>7, SubstWorth
  <2> QED BY <2>6, <2>8 DEF n
<1> QED BY <1>2, <1>3 DEF SoundMatch

LEMMA SoundMatchKept ==
    ASSUME NEW g, NEW h, Extends(g, h), NEW r, RuleIsList(r), NEW m, SoundMatch(g, r, m)
    PROVE  SoundMatch(h, r, m)
<1>1. m \in [1 .. LhsSize(r) -> Ids(g)] /\ DOMAIN m = 1 .. LhsSize(r)
  BY DEF SoundMatch
<1>2. \A k \in DOMAIN m : m[k] \in Ids(g) /\ m[k] \in Ids(h) /\ h.worth[m[k]] = g.worth[m[k]]
  BY <1>1 DEF Extends
<1>3. [k \in DOMAIN m |-> h.worth[m[k]]] = [k \in DOMAIN m |-> g.worth[m[k]]]
  BY <1>2
<1>4. \A i \in DOMAIN r.lhs : r.vars + i \in DOMAIN m
  BY <1>1 DEF RuleIsList, LhsSize
<1>5. m \in [1 .. LhsSize(r) -> Ids(h)]
  BY <1>1, <1>2
<1> QED BY <1>2, <1>3, <1>4, <1>5 DEF SoundMatch

\* s is the right side of r, added after match m.
RhsAdded(g, r, m, s) ==
    /\ DOMAIN s = 1 .. r.vars + Len(r.rhs)
    /\ \A i \in DOMAIN s : s[i] \in Ids(g)
    /\ \A i \in 1 .. r.vars : g.worth[s[i]] = g.worth[m[i]]
    /\ \A i \in 1 .. Len(r.rhs) :
        NodeWorth(r.rhs[i], [k \in DOMAIN s |-> g.worth[s[k]]]) = g.worth[s[r.vars + i]]

\* The number that stands for the right side is worth what the match's class is.
LEMMA RhsWorth ==
    ASSUME NEW g, Sound(g), NEW r, GoodRule(r), NEW m, SoundMatch(g, r, m),
           NEW s, RhsAdded(g, r, m, s)
    PROVE  g.worth[s[r.vars + Len(r.rhs)]] = g.worth[m[LhsSize(r)]]
<1> DEFINE x == [k \in DOMAIN m |-> g.worth[m[k]]]
           y == [k \in DOMAIN s |-> g.worth[s[k]]]
<1>20. /\ DOMAIN s = 1 .. r.vars + Len(r.rhs)
       /\ \A i \in DOMAIN s : s[i] \in Ids(g)
       /\ \A i \in 1 .. r.vars : g.worth[s[i]] = g.worth[m[i]]
       /\ \A i \in 1 .. Len(r.rhs) : NodeWorth(r.rhs[i], y) = g.worth[s[r.vars + i]]
  BY DEF RhsAdded
<1>1. /\ r.vars \in Nat \ {0} /\ Len(r.lhs) \in Nat /\ Len(r.rhs) \in Nat
      /\ DOMAIN r.lhs = 1 .. Len(r.lhs)
  BY DEF GoodRule, RuleIsList
<1>2. DOMAIN m = 1 .. r.vars + Len(r.lhs) /\ \A k \in DOMAIN m : m[k] \in Ids(g)
  BY DEF SoundMatch, LhsSize
<1>3. \A k \in 1 .. r.vars : x[k] \in Worths /\ y[k] = x[k]
  <2> TAKE k \in 1 .. r.vars
  <2>1. k \in DOMAIN m /\ k \in DOMAIN s
    BY <1>1, <1>2, <1>20
  <2>2. x[k] = g.worth[m[k]] /\ y[k] = g.worth[s[k]] /\ m[k] \in Ids(g)
    BY <1>2, <1>20, <2>1
  <2>3. g.worth[s[k]] = g.worth[m[k]]
    BY <1>20
  <2> QED BY <2>2, <2>3, SoundIdsOf
<1>4. \A i \in 1 .. Len(r.lhs) : NodeWorth(r.lhs[i], x) = x[r.vars + i]
  <2> TAKE i \in 1 .. Len(r.lhs)
  <2>1. r.vars + i \in DOMAIN m
    BY <1>1, <1>2, <1>20
  <2>2. NodeWorth(r.lhs[i], x) = g.worth[m[r.vars + i]]
    BY <1>1 DEF SoundMatch
  <2> QED BY <2>1, <2>2
<1>5. \A i \in 1 .. Len(r.rhs) : NodeWorth(r.rhs[i], y) = y[r.vars + i]
  <2> TAKE i \in 1 .. Len(r.rhs)
  <2>1. r.vars + i \in DOMAIN s
    BY <1>1, <1>20
  <2>2. NodeWorth(r.rhs[i], y) = g.worth[s[r.vars + i]]
    BY <1>20
  <2> QED BY <2>1, <2>2
<1>6. /\ y[r.vars + Len(r.rhs)] = g.worth[s[r.vars + Len(r.rhs)]]
      /\ x[r.vars + Len(r.lhs)] = g.worth[m[r.vars + Len(r.lhs)]]
  <2>1. r.vars + Len(r.rhs) \in DOMAIN s /\ r.vars + Len(r.lhs) \in DOMAIN m
    BY <1>1, <1>2, <1>20
  <2> QED BY <2>1
<1> HIDE DEF x, y
<1>7. RuleUse(r, x, y)
  BY <1>3, <1>4, <1>5 DEF RuleUse
<1>8. y[r.vars + Len(r.rhs)] = x[r.vars + Len(r.lhs)]
  BY <1>7 DEF GoodRule, RuleSound
<1> QED BY <1>6, <1>8 DEF LhsSize

-----------------------------------------------------------------------------
(* The runner *)

LEMMA ListType ==
    ASSUME SInv, Adding
    PROVE  /\ Given \in Nat /\ Len(List) \in Nat
           /\ \A i \in 1 .. Len(List) : List[i] \in Nodes(1 .. Given + i - 1)
<1>1. CASE phase = "lower"
  <2>1. List = Lowered(baseline) /\ Given = 0
    BY <1>1 DEF List, Given
  <2>2. Lowered(baseline) \in Seq(Nodes(Nat)) /\ IsList(Lowered(baseline), 0)
    BY LoweredAssumption DEF SInv
  <2>3. Len(List) \in Nat /\ DOMAIN List = 1 .. Len(List)
    BY <2>1, <2>2
  <2> QED BY <2>1, <2>2, <2>3 DEF IsList
<1>2. CASE phase = "instantiate"
  <2>1. List = Rules[rule].rhs /\ Given = Rules[rule].vars
    BY <1>2 DEF List, Given
  <2>2. rule \in DOMAIN Rules
    BY <1>2 DEF SInv, SoundIds
  <2>3. RuleIsList(Rules[rule])
    BY <2>2, RulesSound DEF Rules, GoodRule
  <2> QED BY <2>1, <2>3 DEF RuleIsList, IsList
<1> QED BY <1>1, <1>2 DEF Adding

\* Matches found, and the one applied, stay sound when the graph grows.
LEMMA FoundKept ==
    ASSUME SInv, NEW h, Extends(graph, h)
    PROVE  \A i \in DOMAIN found : \A m \in found[i] : SoundMatch(h, Rules[i], m)
<1> TAKE i \in DOMAIN found
<1> TAKE m \in found[i]
<1>1. i \in DOMAIN Rules /\ SoundMatch(graph, Rules[i], m)
  BY DEF SInv
<1>2. RuleIsList(Rules[i])
  BY <1>1, RulesSound DEF Rules, GoodRule
<1> QED BY <1>1, <1>2, SoundMatchKept

LEMMA EmptyGraphSound == Sound(EmptyGraph)
<1> DEFINE g == EmptyGraph
<1>1. /\ g.leader = <<>> /\ g.class = <<>> /\ g.memo = <<>> /\ g.pending = <<>>
      /\ g.dirty = {} /\ g.worth = <<>> /\ g.defined = <<>>
      /\ g = [leader |-> g.leader, class |-> g.class, memo |-> g.memo, pending |-> g.pending,
              dirty |-> g.dirty, worth |-> g.worth, defined |-> g.defined]
  BY DEF EmptyGraph
<1> HIDE DEF g
<1>2. Ids(g) = {} /\ Classes(g) = {} /\ DOMAIN g.memo = {}
  BY <1>1 DEF Ids, Classes
<1>3. g.leader \in Seq(Classes(g)) /\ g.worth \in Seq(Worths) /\ g.pending \in Seq(Entries(g))
  BY <1>1
<1>4. Len(g.worth) = Len(g.leader)
  BY <1>1
<1>5. Sound(g)
  BY <1>1, <1>2, <1>3, <1>4 DEF Sound
<1> QED BY <1>5 DEF g

LEMMA SInvInit == RunnerInit => SInv
<1> SUFFICES ASSUME RunnerInit PROVE SInv
  OBVIOUS
<1>1. Sound(graph)
  BY EmptyGraphSound DEF RunnerInit
<1>2. SoundIds
  <2>1. ids = <<>> /\ phase = "lower" /\ Given = 0 /\ List = Lowered(baseline)
    BY DEF RunnerInit, Given, List
  <2>2. Len(List) \in Nat
    BY <2>1, LoweredAssumption DEF RunnerInit
  <2>3. ids \in Seq(Ids(graph)) /\ Len(ids) = 0
    BY <2>1
  <2> QED BY <2>1, <2>2, <2>3 DEF SoundIds
<1>3. found \in Seq(Range(found)) /\ DOMAIN found = {}
  BY DEF RunnerInit
<1> QED BY <1>1, <1>2, <1>3 DEF SInv, RunnerInit

\* The node that AddNext takes up.
LEMMA NextNode ==
    ASSUME SInv, Adding, ~ListDone
    PROVE  LET j == Len(ids) - Given + 1
           IN  /\ j \in 1 .. Len(List) /\ Given + j = Len(ids) + 1
               /\ List[j] \in Nodes(1 .. Len(ids))
               /\ Subst(List[j], ids) \in Nodes(Ids(graph))
<1> DEFINE j == Len(ids) - Given + 1
<1>1. Len(ids) # Given + Len(List)
  BY DEF ListDone
<1>2. /\ Given \in Nat /\ Len(List) \in Nat
      /\ \A i \in 1 .. Len(List) : List[i] \in Nodes(1 .. Given + i - 1)
  BY ListType
<1>3. /\ ids \in Seq(Ids(graph)) /\ Len(ids) \in Nat
      /\ Given <= Len(ids) /\ Len(ids) <= Given + Len(List)
  <2>1. ids \in Seq(Ids(graph))
    BY DEF SInv, SoundIds
  <2> QED BY <2>1 DEF SInv, SoundIds
<1>4. j \in 1 .. Len(List) /\ Given + j = Len(ids) + 1
  <2>1. \A N, G, L \in Nat :
            (N # G + L /\ G <= N /\ N <= G + L)
                => (N - G + 1 \in 1 .. L /\ G + (N - G + 1) = N + 1)
    OBVIOUS
  <2> QED BY <1>1, <1>2, <1>3, <2>1
<1>5. List[j] \in Nodes(1 .. Len(ids))
  <2>1. Given + j - 1 = Len(ids)
    BY <1>2, <1>3
  <2>2. List[j] \in Nodes(1 .. Given + j - 1)
    BY <1>2, <1>4
  <2> QED BY <2>1, <2>2
<1>6. \A k \in 1 .. Len(ids) : ids[k] \in Ids(graph)
  BY <1>3
<1> HIDE DEF j
<1>7. Subst(List[j], ids) \in Nodes(Ids(graph))
  BY <1>5, <1>6, SubstIsNode
<1> QED BY <1>4, <1>5, <1>7 DEF j

LEMMA AddNextSound ==
    ASSUME AnalysisSound, SInv, AddNext
    PROVE  SInv'
<1> DEFINE j == Len(ids) - Given + 1
           n == List[j]
           added == AddNode(graph, Subst(n, ids))
           h == added.graph
           x == [k \in DOMAIN ids |-> graph.worth[ids[k]]]
           y == [k \in DOMAIN ids' |-> h.worth[ids'[k]]]
<1>1. /\ Adding /\ Len(ids) # Given + Len(List)
      /\ graph' = h /\ ids' = Append(ids, added.id)
      /\ UNCHANGED <<baseline, mode, root, phase, match, found, rule, applied, over, rounds>>
  BY DEF AddNext, ListDone
<1>2. /\ Given \in Nat /\ Len(List) \in Nat
      /\ \A i \in 1 .. Len(List) : List[i] \in Nodes(1 .. Given + i - 1)
  BY <1>1, ListType
<1>3. /\ ids \in Seq(Ids(graph)) /\ Len(ids) \in Nat /\ DOMAIN ids = 1 .. Len(ids)
      /\ Given <= Len(ids) /\ Len(ids) <= Given + Len(List)
  <2>1. ids \in Seq(Ids(graph))
    BY DEF SInv, SoundIds
  <2> QED BY <1>1, <2>1 DEF SInv, SoundIds
<1>4. j \in 1 .. Len(List) /\ Given + j = Len(ids) + 1
  BY <1>1, NextNode DEF ListDone
<1>5. n \in Nodes(1 .. Len(ids)) /\ Subst(n, ids) \in Nodes(Ids(graph))
  BY <1>1, NextNode DEF ListDone
<1> HIDE DEF n, j
<1>6. \A k \in 1 .. Len(ids) : ids[k] \in Ids(graph) /\ x[k] = graph.worth[ids[k]]
  BY <1>3
<1> HIDE DEF x
<1>7. NodeWorth(Subst(n, ids), graph.worth) = NodeWorth(n, x)
  <2> DEFINE K == 1 .. Len(ids)
             worth == graph.worth
  <2>1. \A k \in K : x[k] = worth[ids[k]]
    BY <1>6
  <2>2. n \in Nodes(K)
    BY <1>5
  <2> HIDE DEF K, worth
  <2>3. NodeWorth(Subst(n, ids), worth) = NodeWorth(n, x)
    BY <2>1, <2>2, SubstWorth
  <2> QED BY <2>3 DEF worth
<1>8. /\ Keeps(graph, h) /\ added.id \in Ids(h)
      /\ h.worth[added.id] = NodeWorth(n, x)
  <2>1. Sound(graph)
    BY DEF SInv
  <2> QED BY <1>5, <1>7, <2>1, AddNodeSound
<1> DEFINE id == added.id
<1>20. ids' = Append(ids, id) /\ id \in Ids(h) /\ h.worth[id] = NodeWorth(n, x)
  BY <1>1, <1>8
<1> HIDE DEF h, id
<1>9. /\ Sound(h) /\ Extends(graph, h)
  BY <1>8 DEF Keeps
<1>10. /\ ids' \in Seq(Ids(h)) /\ Len(ids') = Len(ids) + 1 /\ DOMAIN ids' = 1 .. Len(ids) + 1
       /\ \A k \in 1 .. Len(ids) : ids'[k] = ids[k]
       /\ ids'[Len(ids) + 1] = id
  <2>1. ids \in Seq(Ids(h))
    BY <1>3, <1>9, SeqMonotone DEF Extends
  <2> QED BY <1>3, <1>20, <2>1
<1>11. \A k \in 1 .. Len(ids) : y[k] = x[k]
  BY <1>3, <1>6, <1>9, <1>10 DEF Extends
<1>12. \A k \in 1 .. Len(ids) + 1 : y[k] = h.worth[ids'[k]]
  BY <1>10
<1> HIDE DEF y
<1>13. List' = List /\ Given' = Given /\ Adding' /\ Rules' = Rules
  BY <1>1 DEF List, Given, Adding, Rules
<1>14. ASSUME phase = "instantiate"
       PROVE  /\ rule \in DOMAIN Rules /\ SoundMatch(h, Rules[rule], match)
              /\ \A i \in 1 .. Given : h.worth[ids'[i]] = h.worth[match[i]]
              /\ \A i \in 1 .. Len(ids) + 1 - Given :
                    NodeWorth(List[i], y) = h.worth[ids'[Given + i]]
  <2>1. /\ rule \in DOMAIN Rules /\ SoundMatch(graph, Rules[rule], match)
        /\ \A i \in 1 .. Given : graph.worth[ids[i]] = graph.worth[match[i]]
        /\ \A i \in 1 .. Len(ids) - Given : NodeWorth(List[i], x) = graph.worth[ids[Given + i]]
    BY <1>14 DEF SInv, SoundIds, x
  <2>2. RuleIsList(Rules[rule])
    BY <2>1, RulesSound DEF Rules, GoodRule
  <2>3. SoundMatch(h, Rules[rule], match)
    BY <1>9, <2>1, <2>2, SoundMatchKept
  <2>4. \A i \in 1 .. Given : h.worth[ids'[i]] = h.worth[match[i]]
    <3> TAKE i \in 1 .. Given
    <3>1. i \in DOMAIN match /\ match[i] \in Ids(graph)
      <4>1. Given = Rules[rule].vars /\ match \in [1 .. LhsSize(Rules[rule]) -> Ids(graph)]
        BY <1>14, <2>1 DEF Given, SoundMatch
      <4> QED BY <2>2, <4>1 DEF RuleIsList, LhsSize
    <3>2. i \in 1 .. Len(ids)
      BY <1>2, <1>3
    <3> QED BY <1>6, <1>9, <1>10, <2>1, <3>1, <3>2 DEF Extends
  <2>5. \A i \in 1 .. Len(ids) + 1 - Given : NodeWorth(List[i], y) = h.worth[ids'[Given + i]]
    <3> TAKE i \in 1 .. Len(ids) + 1 - Given
    <3>1. i \in 1 .. Len(List) /\ Given + i \in 1 .. Len(ids) + 1
      <4>1. \A N, G, L \in Nat :
                (N # G + L /\ G <= N /\ N <= G + L)
                    => \A k \in 1 .. N + 1 - G : k \in 1 .. L /\ G + k \in 1 .. N + 1
        OBVIOUS
      <4> QED BY <1>1, <1>2, <1>3, <4>1
    <3>2. NodeWorth(List[i], x) = NodeWorth(List[i], y)
      <4> DEFINE K == 1 .. Given + i - 1
      <4>1. List[i] \in Nodes(K)
        BY <1>2, <3>1
      <4>2. \A k \in K : y[k] = x[k]
        BY <1>2, <1>3, <1>11
      <4> HIDE DEF K
      <4> QED BY <4>1, <4>2, SameWorth
    <3>3. CASE i = j
      <4>1. Given + i = Len(ids) + 1
        BY <1>4, <3>3
      <4> QED BY <1>10, <1>20, <3>2, <3>3, <4>1 DEF n
    <3>4. CASE i # j
      <4>1. i \in 1 .. Len(ids) - Given /\ Given + i \in 1 .. Len(ids)
        BY <1>2, <1>3, <3>4 DEF j
      <4>2. NodeWorth(List[i], x) = graph.worth[ids[Given + i]]
        BY <2>1, <4>1
      <4> QED BY <1>6, <1>9, <1>10, <3>2, <4>1, <4>2 DEF Extends
    <3> QED BY <3>3, <3>4
  <2> QED BY <2>1, <2>3, <2>4, <2>5
<1>15. SoundIds'
  <2>1. phase' = phase /\ rule' = rule /\ match' = match /\ graph' = h
    BY <1>1 DEF h
  <2>2. Given <= Len(ids') /\ Len(ids') <= Given + Len(List)
    <3>1. \A N, G, L \in Nat :
              (N # G + L /\ G <= N /\ N <= G + L) => (G <= N + 1 /\ N + 1 <= G + L)
      OBVIOUS
    <3> QED BY <1>1, <1>2, <1>3, <1>10, <3>1
  <2>3. ids' \in Seq(Ids(graph'))
    BY <1>10, <2>1
  <2>4. Adding' => Given' <= Len(ids') /\ Len(ids') <= Given' + Len(List')
    BY <1>13, <2>2
  <2>5. (phase = "instantiate")' =>
            /\ rule' \in DOMAIN Rules' /\ SoundMatch(graph', Rules'[rule'], match')
            /\ \A i \in 1 .. Given' : graph'.worth[ids'[i]] = graph'.worth[match'[i]]
            /\ \A i \in 1 .. Len(ids') - Given' :
                    NodeWorth(List'[i], y) = graph'.worth[ids'[Given' + i]]
    <3> SUFFICES ASSUME (phase = "instantiate")'
                 PROVE  /\ rule' \in DOMAIN Rules' /\ SoundMatch(graph', Rules'[rule'], match')
                        /\ \A i \in 1 .. Given' : graph'.worth[ids'[i]] = graph'.worth[match'[i]]
                        /\ \A i \in 1 .. Len(ids') - Given' :
                                NodeWorth(List'[i], y) = graph'.worth[ids'[Given' + i]]
      OBVIOUS
    <3>1. phase = "instantiate"
      BY <2>1
    <3>2. /\ rule \in DOMAIN Rules /\ SoundMatch(h, Rules[rule], match)
          /\ \A i \in 1 .. Given : h.worth[ids'[i]] = h.worth[match[i]]
          /\ \A i \in 1 .. Len(ids) + 1 - Given :
                NodeWorth(List[i], y) = h.worth[ids'[Given + i]]
      BY <1>14, <3>1
    <3>3. rule' \in DOMAIN Rules' /\ SoundMatch(graph', Rules'[rule'], match')
      BY <1>13, <2>1, <3>2
    <3>4. \A i \in 1 .. Given' : graph'.worth[ids'[i]] = graph'.worth[match'[i]]
      BY <1>13, <2>1, <3>2
    <3>5. \A i \in 1 .. Len(ids') - Given' :
                NodeWorth(List'[i], y) = graph'.worth[ids'[Given' + i]]
      <4>1. Len(ids') - Given' = Len(ids) + 1 - Given
        <5>1. Len(ids') = Len(ids) + 1
          BY <1>10
        <5>2. Given' = Given
          BY <1>13
        <5> QED BY <1>2, <1>3, <5>1, <5>2
      <4>2. List' = List /\ Given' = Given /\ graph' = h
        BY <1>13, <2>1
      <4> QED BY <3>2, <4>1, <4>2
    <3> QED BY <3>3, <3>4, <3>5
  <2>6. y = [k \in DOMAIN ids' |-> graph'.worth[ids'[k]]]
    BY <2>1 DEF y
  <2> QED BY <2>3, <2>4, <2>5, <2>6 DEF SoundIds
<1>16. \A i \in DOMAIN found : \A m \in found[i] : SoundMatch(h, Rules[i], m)
  BY <1>9, FoundKept
<1> QED BY <1>1, <1>9, <1>13, <1>15, <1>16 DEF SInv, h

\* Steps after which nothing is being added and no match is new.
LEMMA QuietStep ==
    ASSUME SInv, Keeps(graph, graph'), baseline' = baseline, mode' = mode, ~Adding',
           ids' = ids \/ ids' = <<>>, rule' \in Nat \ {0}, found' = found \/ found' = <<>>
    PROVE  SInv'
<1>1. Sound(graph') /\ Extends(graph, graph')
  BY DEF Keeps
<1>2. ids' \in Seq(Ids(graph'))
  <2>1. ids \in Seq(Ids(graph')) /\ <<>> \in Seq(Ids(graph'))
    <3>1. ids \in Seq(Ids(graph))
      BY DEF SInv, SoundIds
    <3> QED BY <1>1, <3>1, SeqMonotone DEF Extends
  <2> QED BY <2>1
<1>3. SoundIds'
  <2>1. (phase # "instantiate")'
    BY DEF Adding
  <2> QED BY <1>2, <2>1 DEF SoundIds
<1>4. Rules' = Rules
  BY DEF Rules
<1>5. /\ found' \in Seq(Range(found')) /\ DOMAIN found' \subseteq DOMAIN Rules'
      /\ \A i \in DOMAIN found' : \A m \in found'[i] : SoundMatch(graph', Rules'[i], m)
  <2>1. CASE found' = found
    <3>1. /\ found \in Seq(Range(found)) /\ DOMAIN found \subseteq DOMAIN Rules
          /\ \A i \in DOMAIN found : \A m \in found[i] : SoundMatch(graph', Rules[i], m)
      BY <1>1, FoundKept DEF SInv
    <3> QED BY <1>4, <2>1, <3>1
  <2>2. CASE found' = <<>>
    <3>1. found' \in Seq(Range(found')) /\ DOMAIN found' = {}
      BY <2>2
    <3> QED BY <3>1
  <2> QED BY <2>1, <2>2
<1>6. baseline' \in Baselines /\ mode' \in Modes
  BY DEF SInv
<1> QED BY <1>1, <1>3, <1>5, <1>6 DEF SInv

\* What UniteMatch unites is worth the same.
LEMMA UnitedWorth ==
    ASSUME SInv, phase = "instantiate", ListDone
    PROVE  LET id == ids[Len(ids)]
               class == match[LhsSize(Rules[rule])]
           IN  /\ id \in Ids(graph) /\ class \in Ids(graph)
               /\ graph.worth[id] = graph.worth[class]
<1> DEFINE r == Rules[rule]
           id == ids[Len(ids)]
           class == match[LhsSize(r)]
<1>1. phase = "instantiate" /\ Len(ids) = Given + Len(List)
  BY DEF ListDone
<1>2. /\ rule \in DOMAIN Rules /\ SoundMatch(graph, r, match)
      /\ \A i \in 1 .. Given : graph.worth[ids[i]] = graph.worth[match[i]]
      /\ \A i \in 1 .. Len(ids) - Given :
            NodeWorth(List[i], [k \in DOMAIN ids |-> graph.worth[ids[k]]]) = graph.worth[ids[Given + i]]
  BY <1>1 DEF SInv, SoundIds
<1>3. ids \in Seq(Ids(graph)) /\ Sound(graph) /\ rule \in Nat \ {0}
  BY DEF SInv, SoundIds
<1>4. Given = r.vars /\ List = r.rhs
  BY <1>1 DEF Given, List
<1>5. GoodRule(r)
  BY <1>2, RulesSound DEF Rules
<1> HIDE DEF r
<1>6. r.vars \in Nat \ {0} /\ Len(r.rhs) \in Nat /\ Len(r.lhs) \in Nat
  BY <1>5 DEF GoodRule, RuleIsList
<1>7. /\ Len(ids) = r.vars + Len(r.rhs) /\ Len(ids) \in Nat \ {0}
      /\ DOMAIN ids = 1 .. r.vars + Len(r.rhs)
  BY <1>1, <1>3, <1>4, <1>6
<1>8. Len(ids) - Given = Len(r.rhs)
  BY <1>4, <1>6, <1>7
<1>9. \A i \in DOMAIN ids : ids[i] \in Ids(graph)
  BY <1>3
<1>10. /\ \A i \in 1 .. r.vars : graph.worth[ids[i]] = graph.worth[match[i]]
       /\ \A i \in 1 .. Len(r.rhs) :
            NodeWorth(r.rhs[i], [k \in DOMAIN ids |-> graph.worth[ids[k]]]) = graph.worth[ids[r.vars + i]]
  BY <1>2, <1>4, <1>8
<1>11. graph.worth[ids[r.vars + Len(r.rhs)]] = graph.worth[match[LhsSize(r)]]
  <2> DEFINE g == graph
             s == ids
             m == match
  <2>1. Sound(g) /\ SoundMatch(g, r, m) /\ RhsAdded(g, r, m, s)
    BY <1>2, <1>3, <1>7, <1>9, <1>10 DEF RhsAdded
  <2> HIDE DEF g, s, m
  <2>2. g.worth[s[r.vars + Len(r.rhs)]] = g.worth[m[LhsSize(r)]]
    BY <1>5, <2>1, RhsWorth
  <2> QED BY <2>2 DEF g, s, m
<1>12. id \in Ids(graph) /\ class \in Ids(graph)
  <2>1. Len(ids) \in DOMAIN ids
    BY <1>7
  <2>2. LhsSize(r) \in 1 .. LhsSize(r)
    BY <1>6 DEF LhsSize
  <2> QED BY <1>2, <1>9, <2>1, <2>2 DEF SoundMatch
<1>13. graph.worth[id] = graph.worth[class]
  BY <1>7, <1>11
<1> QED BY <1>12, <1>13 DEF r

LEMMA UniteMatchSound ==
    ASSUME AnalysisSound, SInv, UniteMatch
    PROVE  SInv'
<1> DEFINE id == ids[Len(ids)]
           class == match[LhsSize(Rules[rule])]
<1>1. /\ phase = "instantiate" /\ ListDone
      /\ graph' = Union(graph, id, class)
      /\ phase' = "apply" /\ ids' = <<>>
      /\ UNCHANGED <<baseline, mode, root, found, rule, over, rounds>>
  BY DEF UniteMatch
<1>2. id \in Ids(graph) /\ class \in Ids(graph) /\ graph.worth[id] = graph.worth[class]
  BY <1>1, UnitedWorth
<1>3. Sound(graph) /\ rule \in Nat \ {0}
  BY DEF SInv
<1> HIDE DEF id, class
<1>4. Keeps(graph, graph')
  BY <1>1, <1>2, <1>3, UnionSound
<1>5. ~Adding'
  BY <1>1 DEF Adding
<1> QED BY <1>1, <1>3, <1>4, <1>5, QuietStep

LEMMA SearchSound ==
    ASSUME SInv, Search
    PROVE  SInv'
<1>0. PICK banned \in Bans :
        found' = IF over' THEN <<>>
                 ELSE [i \in DOMAIN Rules |-> IF i \in banned THEN {} ELSE Matches(graph, Rules[i])]
  BY DEF Search
<1> DEFINE all == [i \in DOMAIN Rules |-> IF i \in banned THEN {} ELSE Matches(graph, Rules[i])]
<1>1. /\ found' = IF over' THEN <<>> ELSE all
      /\ phase' = IF over' THEN "rebuild" ELSE "apply"
      /\ rule' = 1 /\ graph' = graph /\ ids' = ids /\ baseline' = baseline /\ mode' = mode
  BY <1>0 DEF Search
<1>2. Keeps(graph, graph') /\ Sound(graph)
  BY <1>1, KeepsSelf DEF SInv
<1>3. ~Adding'
  BY <1>1 DEF Adding
<1>4. CASE over'
  BY <1>1, <1>2, <1>3, <1>4, QuietStep
<1>5. CASE ~over'
  <2>1. found' = all
    BY <1>1, <1>5
  <2>2. Rules' = Rules /\ Len(Rules) \in Nat /\ DOMAIN Rules = 1 .. Len(Rules)
    BY <1>1, RulesSound DEF Rules
  <2>3. DOMAIN all = DOMAIN Rules /\ \A i \in DOMAIN Rules : all[i] \subseteq Matches(graph, Rules[i])
    OBVIOUS
  <2>4. all \in Seq(Range(all))
    <3> HIDE DEF all
    <3>1. \A i \in 1 .. Len(Rules) : all[i] \in Range(all)
      BY <2>2, <2>3 DEF Range
    <3>2. all = [i \in 1 .. Len(Rules) |-> all[i]]
      BY <2>2 DEF all
    <3> QED BY <2>2, <3>1, <3>2
  <2>5. \A i \in DOMAIN all : \A m \in all[i] : SoundMatch(graph, Rules[i], m)
    <3> TAKE i \in DOMAIN all
    <3> TAKE m \in all[i]
    <3>1. IsMatch(graph, Rules[i], m)
      BY <2>3 DEF Matches
    <3>2. RuleIsList(Rules[i])
      BY <2>3, RulesSound DEF Rules, GoodRule
    <3> QED BY <1>2, <3>1, <3>2, MatchSound
  <2> HIDE DEF all
  <2>6. SoundIds'
    <3>1. (phase # "instantiate")' /\ ids \in Seq(Ids(graph))
      BY <1>1, <1>5 DEF SInv, SoundIds
    <3> QED BY <1>1, <1>3, <3>1 DEF SoundIds
  <2>7. /\ found' \in Seq(Range(found')) /\ DOMAIN found' \subseteq DOMAIN Rules'
        /\ \A i \in DOMAIN found' : \A m \in found'[i] : SoundMatch(graph', Rules'[i], m)
    BY <1>1, <2>1, <2>2, <2>3, <2>4, <2>5
  <2>8. baseline' \in Baselines /\ mode' \in Modes /\ Sound(graph') /\ rule' \in Nat \ {0}
    BY <1>1, <1>2 DEF SInv
  <2> QED BY <2>6, <2>7, <2>8 DEF SInv
<1> QED BY <1>4, <1>5

LEMMA ApplyMatchSound ==
    ASSUME SInv, ApplyMatch
    PROVE  SInv'
<1>1. /\ rule <= Len(found) /\ phase' = "instantiate"
      /\ graph' = graph /\ rule' = rule /\ baseline' = baseline /\ mode' = mode
  BY DEF ApplyMatch
<1>2. PICK m \in found[rule] :
        /\ match' = m /\ ids' = [i \in 1 .. Rules[rule].vars |-> m[i]]
        /\ found' = [found EXCEPT ![rule] = @ \ {m}]
  BY DEF ApplyMatch
<1> DEFINE r == Rules[rule]
<1>3. rule \in DOMAIN found /\ rule \in DOMAIN Rules
  <2>1. found \in Seq(Range(found)) /\ rule \in Nat \ {0}
    BY DEF SInv
  <2> QED BY <1>1, <2>1 DEF SInv
<1>4. SoundMatch(graph, r, m) /\ RuleIsList(r)
  BY <1>3, RulesSound DEF SInv, Rules, GoodRule
<1>5. Rules' = Rules
  BY <1>1 DEF Rules
<1>6. Given' = r.vars /\ List' = r.rhs /\ r.vars \in Nat \ {0} /\ Len(r.rhs) \in Nat
  BY <1>1, <1>4, <1>5 DEF Given, List, RuleIsList
<1> HIDE DEF r
<1>7. /\ ids' \in Seq(Ids(graph)) /\ Len(ids') = r.vars
      /\ \A i \in 1 .. r.vars : ids'[i] = m[i]
  <2>1. ids' = [i \in 1 .. r.vars |-> m[i]]
    BY <1>2 DEF r
  <2>2. \A i \in 1 .. r.vars : m[i] \in Ids(graph)
    BY <1>4 DEF SoundMatch, RuleIsList, LhsSize
  <2> QED BY <1>6, <2>1, <2>2
<1>8. SoundIds'
  <2>1. rule' \in DOMAIN Rules' /\ SoundMatch(graph', Rules'[rule'], match')
    BY <1>1, <1>2, <1>3, <1>4, <1>5 DEF r
  <2>2. \A i \in 1 .. Given' : graph'.worth[ids'[i]] = graph'.worth[match'[i]]
    BY <1>1, <1>2, <1>6, <1>7
  <2>3. Given' <= Len(ids') /\ Len(ids') <= Given' + Len(List') /\ Len(ids') - Given' = 0
    BY <1>6, <1>7
  <2>4. ids' \in Seq(Ids(graph'))
    BY <1>1, <1>7
  <2> QED BY <2>1, <2>2, <2>3, <2>4 DEF SoundIds
<1>9. /\ DOMAIN found' = DOMAIN found
      /\ \A i \in DOMAIN found : \A k \in found'[i] : k \in found[i]
  BY <1>2, <1>3
<1>10. found' \in Seq(Range(found'))
  <2>1. PICK n \in Nat : DOMAIN found = 1 .. n
    <3>1. found \in Seq(Range(found))
      BY DEF SInv
    <3> QED BY <3>1
  <2>2. \A i \in 1 .. n : found'[i] \in Range(found')
    BY <1>9, <2>1 DEF Range
  <2>3. found' = [i \in 1 .. n |-> found'[i]]
    BY <1>2, <2>1
  <2> QED BY <2>2, <2>3
<1>11. \A i \in DOMAIN found' : \A k \in found'[i] : SoundMatch(graph', Rules'[i], k)
  BY <1>1, <1>5, <1>9 DEF SInv
<1>12. /\ baseline' \in Baselines /\ mode' \in Modes /\ Sound(graph') /\ rule' \in Nat \ {0}
       /\ DOMAIN found' \subseteq DOMAIN Rules'
  BY <1>1, <1>5, <1>9 DEF SInv
<1> QED BY <1>8, <1>10, <1>11, <1>12 DEF SInv

LEMMA SInvNext ==
    ASSUME AnalysisSound, SInv, [Rewrite \/ HandOver]_runner
    PROVE  SInv'
<1>1. Sound(graph) /\ Keeps(graph, graph) /\ rule \in Nat \ {0}
  BY KeepsSelf DEF SInv
<1>2. CASE AddNext
  BY <1>2, AddNextSound
<1>3. CASE Start
  <2>1. /\ phase' = "rebuild" /\ ids' = <<>> /\ graph' = graph
        /\ UNCHANGED <<baseline, mode, found, rule>>
    BY <1>3 DEF Start
  <2>2. ~Adding'
    BY <2>1 DEF Adding
  <2> QED BY <1>1, <2>1, <2>2, QuietStep
<1>4. CASE Search
  BY <1>4, SearchSound
<1>5. CASE ApplyMatch
  BY <1>5, ApplyMatchSound
<1>6. CASE UniteMatch
  BY <1>6, UniteMatchSound
<1>7. CASE NextRule
  <2>1. /\ phase' \in {"rebuild", "apply"} /\ rule' = rule + 1 /\ graph' = graph
        /\ found' = found \/ found' = <<>>
        /\ UNCHANGED <<baseline, mode, ids>>
    BY <1>7 DEF NextRule
  <2>2. ~Adding'
    BY <2>1 DEF Adding
  <2> QED BY <1>1, <2>1, <2>2, QuietStep
<1>8. CASE RepairNode
  <2>1. /\ phase = "rebuild" /\ graph.pending # <<>> /\ graph' = RepairMemo(graph)
        /\ UNCHANGED <<baseline, mode, phase, ids, found, rule>>
    BY <1>8 DEF RepairNode
  <2>2. Keeps(graph, graph')
    BY <1>1, <2>1, RepairMemoSound
  <2>3. ~Adding'
    BY <2>1 DEF Adding
  <2> QED BY <1>1, <2>1, <2>2, <2>3, QuietStep
<1>9. CASE RepairAnalysis
  <2>1. /\ phase' \in {"rebuild", "reanalyse"}
        /\ UNCHANGED <<baseline, mode, ids, found, rule>>
    BY <1>9 DEF RepairAnalysis
  <2>2. PICK entry \in graph.dirty : graph' = RepairData(graph, entry)
    BY <1>9 DEF RepairAnalysis
  <2>3. Keeps(graph, graph')
    BY <1>1, <2>2, RepairDataSound
  <2>4. ~Adding'
    BY <2>1 DEF Adding
  <2> QED BY <1>1, <2>1, <2>3, <2>4, QuietStep
<1>10. CASE Rebuilt
  <2>1. /\ phase' \in {"limit", "search", "saturated"} /\ graph' = CanonicalNodes(graph)
        /\ rule' = 1 /\ UNCHANGED <<baseline, mode, ids, found>>
    BY <1>10 DEF Rebuilt
  <2>2. Keeps(graph, graph')
    BY <1>1, <2>1, CanonicalNodesSound
  <2>3. ~Adding'
    BY <2>1 DEF Adding
  <2> QED BY <1>1, <2>1, <2>2, <2>3, QuietStep
<1>11. CASE LastIteration
  <2>1. phase' = "limit" /\ UNCHANGED <<baseline, mode, graph, ids, found, rule>>
    BY <1>11 DEF LastIteration
  <2>2. ~Adding'
    BY <2>1 DEF Adding
  <2> QED BY <1>1, <2>1, <2>2, QuietStep
<1>12. CASE HandOver
  <2>1. phase' = "extracted" /\ UNCHANGED <<baseline, mode, graph, ids, found, rule>>
    BY <1>12 DEF HandOver
  <2>2. ~Adding'
    BY <2>1 DEF Adding
  <2> QED BY <1>1, <2>1, <2>2, QuietStep
<1>13. CASE UNCHANGED runner
  <2>1. UNCHANGED <<baseline, mode, graph, root, phase, ids, match, found, rule>>
    BY <1>13 DEF runner
  <2> QED BY <2>1 DEF SInv, SoundIds, Rules, Adding, Given, List
<1> QED BY <1>2, <1>3, <1>4, <1>5, <1>6, <1>7, <1>8, <1>9, <1>10, <1>11, <1>12, <1>13
        DEF Rewrite

LEMMA SInvClassesSound ==
    ASSUME SInv
    PROVE  ClassesSound
<1>1. Sound(graph)
  BY DEF SInv
<1>2. \A c \in Classes(graph) : \A n \in graph.class[c].nodes :
        NodeWorth(n, graph.worth) = graph.worth[c]
  BY <1>1 DEF Sound, SoundClass, Entries
<1>3. \A id \in DOMAIN graph.leader : graph.worth[id] = graph.worth[graph.leader[id]]
  BY <1>1, SoundIdsOf DEF Sound
<1> QED BY <1>2, <1>3 DEF ClassesSound

\* Whatever is united has one value, for every analysis whose constants are exact.
THEOREM RewritingSound == AnalysisSound => (SaturationSpec => []ClassesSound)
<1> SUFFICES ASSUME AnalysisSound PROVE SaturationSpec => []ClassesSound
  OBVIOUS
<1>1. RunnerInit => SInv
  BY SInvInit
<1>2. SInv /\ [Rewrite \/ HandOver]_runner => SInv'
  BY SInvNext
<1>3. SInv => ClassesSound
  BY SInvClassesSound
<1> QED BY <1>1, <1>2, <1>3, PTL DEF SaturationSpec

-----------------------------------------------------------------------------
(* The two analyses *)

\* simplify_algebra: make, merge and modify fold constants.
FoldAnalysis ==
    /\ \A n, data : Make(n, data) = FoldMake(n, data)
    /\ \A to, from : Merge(to, from) = FoldMerge(to, from)
    /\ \A data : Modify(data) = FoldModify(data)

LEMMA FoldMakeExact ==
    ASSUME NEW K, NEW n \in Nodes(K), NEW data, NEW worth,
           \A k \in K : worth[k] \in Worths,
           \A i \in DOMAIN n.kids :
                data[i] # None => data[i] \in Coeff /\ worth[n.kids[i]] = [p \in Points |-> data[i]],
           FoldMake(n, data) # None
    PROVE  /\ FoldMake(n, data) \in Coeff
           /\ NodeWorth(n, worth) = [p \in Points |-> FoldMake(n, data)]
<1> DEFINE Args(p) == [i \in DOMAIN n.kids |-> worth[n.kids[i]][p]]
<1>1. NodeWorth(n, worth) = [p \in Points |-> ValueOf(n.op, n.val, Args(p), p)]
  BY DEF NodeWorth
<1> SUFFICES /\ FoldMake(n, data) \in Coeff
             /\ \A p \in Points : ValueOf(n.op, n.val, Args(p), p) = FoldMake(n, data)
  BY <1>1
<1>2. CASE n.op = "num" /\ n.val \in Coeff
  BY <1>2 DEF FoldMake, ValueOf
<1>3. CASE n.op \in {"var", "log", "li2"}
  BY <1>3 DEF FoldMake
<1>4. CASE n.op \in {"+", "*", "^"} /\ n.kids \in [1 .. 2 -> K]
  <2>1. data[1] # None /\ data[2] # None
    BY <1>4 DEF FoldMake
  <2>2. 1 \in DOMAIN n.kids /\ 2 \in DOMAIN n.kids
    BY <1>4
  <2>3. /\ data[1] \in Coeff /\ worth[n.kids[1]] = [p \in Points |-> data[1]]
        /\ data[2] \in Coeff /\ worth[n.kids[2]] = [p \in Points |-> data[2]]
    BY <2>1, <2>2
  <2>4. \A p \in Points : Args(p)[1] = data[1] /\ Args(p)[2] = data[2]
    BY <2>2, <2>3
  <2> HIDE DEF Args
  <2>5. CASE n.op = "+"
    <3>1. FoldMake(n, data) = Plus(data[1], data[2])
      BY <2>1, <2>5 DEF FoldMake
    <3>2. Plus(data[1], data[2]) \in Coeff
      BY <2>3, CoeffAssumption
    <3>3. \A p \in Points : ValueOf(n.op, n.val, Args(p), p) = Plus(data[1], data[2])
      BY <2>4, <2>5 DEF ValueOf
    <3> QED BY <3>1, <3>2, <3>3
  <2>6. CASE n.op = "*"
    <3>1. FoldMake(n, data) = Times(data[1], data[2])
      BY <2>1, <2>6 DEF FoldMake
    <3>2. Times(data[1], data[2]) \in Coeff
      BY <2>3, CoeffAssumption
    <3>3. \A p \in Points : ValueOf(n.op, n.val, Args(p), p) = Times(data[1], data[2])
      BY <2>4, <2>6 DEF ValueOf
    <3> QED BY <3>1, <3>2, <3>3
  <2>7. CASE n.op = "^"
    <3> DEFINE e == ExponentOf(data[2])
    <3>1. FoldMake(n, data) = FoldPow(data[1], data[2])
      BY <2>1, <2>7 DEF FoldMake
    <3>2. e # None /\ ~(e < 0 /\ data[1] = Zero) /\ FoldPow(data[1], data[2]) = IntPower(data[1], e)
      BY <3>1 DEF FoldPow
    <3>3. e \in Int
      BY <2>3, <3>2, ValuesAssumption
    <3>4. PowDefined(data[1], data[2])
      BY <3>2 DEF PowDefined
    <3>5. \A p \in Points : ValueOf(n.op, n.val, Args(p), p) = IntPower(data[1], e)
      BY <2>4, <2>7, <3>4 DEF ValueOf
    <3> HIDE DEF e
    <3>6. IntPower(data[1], e) \in Coeff
      BY <2>3, <3>2, <3>3, IntPowerType
    <3> QED BY <3>1, <3>2, <3>5, <3>6
  <2> QED BY <1>4, <2>5, <2>6, <2>7
<1> HIDE DEF Args
<1> QED BY <1>2, <1>3, <1>4, NodeCases

LEMMA FoldAnalysisSound ==
    ASSUME FoldAnalysis
    PROVE  AnalysisSound
<1>1. \A d : Modify(d) = d
  BY DEF FoldAnalysis, FoldModify
<1>2. ASSUME NEW K, NEW n \in Nodes(K), NEW data, NEW worth,
             \A k \in K : worth[k] \in Worths,
             \A i \in DOMAIN n.kids : Exact(data[i], worth[n.kids[i]])
      PROVE  Exact(Make(n, data), NodeWorth(n, worth))
  <2>1. \A i \in DOMAIN n.kids :
            data[i] # None => data[i] \in Coeff /\ worth[n.kids[i]] = [p \in Points |-> data[i]]
    BY <1>1, <1>2 DEF Exact
  <2>2. Make(n, data) = FoldMake(n, data)
    BY DEF FoldAnalysis
  <2>3. ASSUME FoldMake(n, data) # None
        PROVE  /\ FoldMake(n, data) \in Coeff
               /\ NodeWorth(n, worth) = [p \in Points |-> FoldMake(n, data)]
    BY <1>2, <2>1, <2>3, FoldMakeExact
  <2> QED BY <1>1, <2>2, <2>3 DEF Exact
<1>3. ASSUME NEW to, NEW from, NEW worth, Exact(to, worth), Exact(from, worth)
      PROVE  Exact(Merge(to, from).data, worth)
  <2>1. Merge(to, from).data = to \/ Merge(to, from).data = from
    BY DEF FoldAnalysis, FoldMerge
  <2> QED BY <1>3, <2>1
<1> QED BY <1>2, <1>3 DEF AnalysisSound

\* simplify_symbol_aware: modify adds no constants.
LEMMA NoConstantsSound ==
    ASSUME \A data : Modify(data) = None
    PROVE  AnalysisSound
BY DEF AnalysisSound, Exact

\* The classes of simplify_algebra's e-graphs are sound.
THEOREM FoldingSound == FoldAnalysis => (SaturationSpec => []ClassesSound)
BY RewritingSound, FoldAnalysisSound

\* So are those of simplify_symbol_aware, whose analysis adds no numbers.
THEOREM SymbolAwareSound ==
    (\A data : Modify(data) = None) => (SaturationSpec => []ClassesSound)
BY RewritingSound, NoConstantsSound

-----------------------------------------------------------------------------
(* Numbers and exponents stay where they are *)

IsNum(n) == n.op = "num"

\* The nodes of the class that id is in.
NodesAt(g, id) == g.class[Find(g, id)].nodes

\* If the node is a power, its exponent's class has an integer.
ExponentHeld(g, n) == n.op = "^" => \E m \in NodesAt(g, n.kids[2]) : IsInteger(m)

\* Nodes with an id, in whose class a number is itself.
InPlace(g) ==
    {e \in Entries(g) : /\ IsNum(e[1]) => e[1] \in NodesAt(g, e[2])
                        /\ ExponentHeld(g, e[1])}

\* A number that the graph knows from the memo or a list, is in its class too, and
\* no power is without its integer.
Placed(g) ==
    /\ \A c \in Classes(g) : /\ g.leader[c] = c
                             /\ \A n \in g.class[c].nodes : <<n, c>> \in InPlace(g)
                             /\ g.class[c].parents \in Seq(InPlace(g))
    /\ \A n \in DOMAIN g.memo : <<n, g.memo[n]>> \in InPlace(g)
    /\ g.pending \in Seq(InPlace(g))

Tidy(g) == Sound(g) /\ Placed(g)

\* No class loses a number.
NumsKept(g, h) == \A i \in Ids(g) : \A m \in NodesAt(g, i) : IsNum(m) => m \in NodesAt(h, i)

\* Tidy graphs that a step may turn g into.
Stays(g, h) == Tidy(h) /\ Extends(g, h) /\ NumsKept(g, h)

LEMMA StaysSelf ==
    ASSUME NEW g, Tidy(g)
    PROVE  Stays(g, g)
BY DEF Stays, Extends, NumsKept

LEMMA StaysTransitive ==
    ASSUME NEW f, NEW g, NEW h, Stays(f, g), Stays(g, h)
    PROVE  Stays(f, h)
BY DEF Stays, Extends, NumsKept

LEMMA ExponentKept ==
    ASSUME NEW g, NEW h, NumsKept(g, h), NEW n \in Nodes(Ids(g)), ExponentHeld(g, n)
    PROVE  ExponentHeld(h, n)
<1> SUFFICES ASSUME n.op = "^" PROVE \E m \in NodesAt(h, n.kids[2]) : IsInteger(m)
  BY DEF ExponentHeld
<1>1. n.kids[2] \in Ids(g)
  BY NodeCases
<1>2. PICK m \in NodesAt(g, n.kids[2]) : IsInteger(m)
  BY DEF ExponentHeld
<1> QED BY <1>1, <1>2 DEF NumsKept, IsInteger, IsNum

LEMMA InPlaceGrows ==
    ASSUME NEW g, NEW h, Extends(g, h), NumsKept(g, h)
    PROVE  InPlace(g) \subseteq InPlace(h)
<1> SUFFICES ASSUME NEW e \in InPlace(g) PROVE e \in InPlace(h)
  OBVIOUS
<1>1. e \in Entries(g) /\ (IsNum(e[1]) => e[1] \in NodesAt(g, e[2])) /\ ExponentHeld(g, e[1])
  BY DEF InPlace
<1>2. e[1] \in Nodes(Ids(g)) /\ e[2] \in Ids(g)
  BY <1>1 DEF Entries
<1>3. e \in Entries(h)
  BY <1>1, EntriesGrow
<1>4. ExponentHeld(h, e[1])
  BY <1>1, <1>2, ExponentKept
<1> QED BY <1>1, <1>2, <1>3, <1>4 DEF InPlace, NumsKept

\* Leaders lead themselves.
LEMMA FindTwice ==
    ASSUME NEW g, Tidy(g), NEW i \in Ids(g)
    PROVE  /\ Find(g, i) \in Classes(g) /\ Find(g, i) \in Ids(g)
           /\ Find(g, Find(g, i)) = Find(g, i) /\ NodesAt(g, Find(g, i)) = NodesAt(g, i)
<1>1. Find(g, i) \in Classes(g) /\ Find(g, i) \in Ids(g)
  BY SoundIdsOf DEF Tidy, Find
<1>2. Find(g, Find(g, i)) = Find(g, i)
  BY <1>1 DEF Tidy, Placed, Find
<1> QED BY <1>1, <1>2 DEF NodesAt

LEMMA CanonicalInPlace ==
    ASSUME NEW g, Tidy(g), NEW n \in Nodes(Ids(g))
    PROVE  /\ IsNum(n) => Canonical(g, n) = n
           /\ ExponentHeld(g, n) => ExponentHeld(g, Canonical(g, n))
<1>1. \A k \in Ids(g) : g.leader[k] \in Ids(g)
  BY SoundIdsOf DEF Tidy
<1>2. /\ Canonical(g, n).op = n.op
      /\ Canonical(g, n).kids = [i \in DOMAIN n.kids |-> g.leader[n.kids[i]]]
      /\ Canonical(g, n) = [n EXCEPT !.kids = [i \in DOMAIN n.kids |-> g.leader[n.kids[i]]]]
  BY <1>1, SubstIsNode DEF Canonical, Subst
<1>3. ASSUME IsNum(n) PROVE Canonical(g, n) = n
  <2>1. n.kids \in [1 .. 0 -> Ids(g)] /\ n = [op |-> n.op, val |-> n.val, kids |-> n.kids]
    BY <1>3, NodeCases DEF IsNum
  <2> DEFINE kids == [i \in DOMAIN n.kids |-> g.leader[n.kids[i]]]
  <2>2. kids = n.kids
    BY <2>1
  <2> HIDE DEF kids
  <2> QED BY <1>2, <2>1, <2>2 DEF kids
<1>4. ASSUME ExponentHeld(g, n), n.op = "^" PROVE ExponentHeld(g, Canonical(g, n))
  <2>1. n.kids \in [1 .. 2 -> Ids(g)]
    BY <1>4, NodeCases
  <2>2. Canonical(g, n).kids[2] = Find(g, n.kids[2]) /\ n.kids[2] \in Ids(g)
    BY <1>2, <2>1 DEF Find
  <2> QED BY <1>4, <2>2, FindTwice DEF ExponentHeld
<1> QED BY <1>2, <1>3, <1>4 DEF ExponentHeld

\* h is g with a class for the node n, which gets the next id.
AddsClass(g, h, n, id) ==
    /\ id \notin Ids(g) /\ Classes(h) = Classes(g) \cup {id} /\ id \notin Classes(g)
    /\ Find(h, id) = id /\ \A i \in Ids(g) : Find(h, i) = Find(g, i)
    /\ \A c \in Classes(g) :
        /\ h.class[c].nodes = g.class[c].nodes /\ h.class[c].data = g.class[c].data
        /\ h.class[c].parents = g.class[c].parents \o Uses(n, c, id)
    /\ h.class[id].nodes = {n} /\ h.class[id].parents = <<>>
    /\ h.class[id].data = NodeData(g, n)
    /\ h.memo = Put(g.memo, n, id) /\ h.pending = Append(g.pending, <<n, id>>)

LEMMA NewClassParts ==
    ASSUME NEW g, Sound(g), NEW n
    PROVE  AddsClass(g, NewClass(g, n), n, Len(g.leader) + 1)
<1> DEFINE N == Len(g.leader)
           id == N + 1
           h == NewClass(g, n)
           new == [nodes |-> {n}, parents |-> <<>>, data |-> NodeData(g, n)]
<1>1. /\ h.leader = Append(g.leader, id) /\ h.memo = Put(g.memo, n, id)
      /\ h.class = [c \in Classes(g) \cup {id} |->
                        IF c = id THEN new
                        ELSE [g.class[c] EXCEPT !.parents = @ \o Uses(n, c, id)]]
      /\ h.pending = Append(g.pending, <<n, id>>)
  BY DEF NewClass
<1> HIDE DEF h
<1>2. N \in Nat /\ DOMAIN g.leader = Ids(g) /\ Ids(g) = 1 .. N /\ Classes(g) \subseteq Ids(g)
  BY SoundIdsOf DEF Ids, Sound
<1>3. id \notin Ids(g) /\ Classes(h) = Classes(g) \cup {id}
  BY <1>1, <1>2 DEF Classes
<1>4. Find(h, id) = id /\ \A i \in Ids(g) : Find(h, i) = Find(g, i)
  <2>1. g.leader \in Seq(Classes(g)) /\ Len(g.leader) = N
    BY DEF Sound
  <2> QED BY <1>1, <1>2, <2>1 DEF Find
<1>5. \A c \in Classes(g) : /\ h.class[c].nodes = g.class[c].nodes
                            /\ h.class[c].data = g.class[c].data
                            /\ h.class[c].parents = g.class[c].parents \o Uses(n, c, id)
  <2> TAKE c \in Classes(g)
  <2>1. h.class[c] = [g.class[c] EXCEPT !.parents = @ \o Uses(n, c, id)]
    BY <1>1, <1>2, <1>3
  <2>2. g.class[c] = [nodes |-> g.class[c].nodes, parents |-> g.class[c].parents,
                      data |-> g.class[c].data]
    BY DEF Sound, SoundClass
  <2> DEFINE uses == Uses(n, c, id)
             old == g.class[c]
  <2> HIDE DEF uses, old
  <2>3. h.class[c] = [nodes |-> old.nodes, parents |-> old.parents \o uses, data |-> old.data]
    BY <2>1, <2>2 DEF uses, old
  <2>4. /\ h.class[c].nodes = old.nodes /\ h.class[c].data = old.data
        /\ h.class[c].parents = old.parents \o uses
    BY <2>3
  <2> QED BY <2>4 DEF uses, old
<1>6. h.class[id].nodes = {n} /\ h.class[id].parents = <<>> /\ h.class[id].data = NodeData(g, n)
  <2>1. h.class[id] = new
    BY <1>1
  <2> QED BY <2>1
<1>7. id \notin Classes(g)
  BY <1>2, <1>3
<1> HIDE DEF id, N
<1>8. AddsClass(g, h, n, id)
  BY <1>1, <1>3, <1>4, <1>5, <1>6, <1>7 DEF AddsClass
<1> QED BY <1>8 DEF h, id, N

LEMMA NewClassPlaced ==
    ASSUME AnalysisSound, NEW g, Tidy(g), NEW n \in Nodes(Ids(g)), ExponentHeld(g, n)
    PROVE  LET id == Len(g.leader) + 1
               h == NewClass(g, n)
           IN  Stays(g, h) /\ id \in Ids(h) /\ n \in NodesAt(h, id)
<1> DEFINE id == Len(g.leader) + 1
           h == NewClass(g, n)
<1>0. Sound(g)
  BY DEF Tidy
<1>1. /\ Sound(h) /\ Extends(g, h) /\ id \in Ids(h)
      /\ h.worth[id] = NodeWorth(n, g.worth)
  BY <1>0, NewClassSound
<1>2. /\ id \notin Ids(g) /\ Classes(h) = Classes(g) \cup {id} /\ id \notin Classes(g)
      /\ Find(h, id) = id /\ \A i \in Ids(g) : Find(h, i) = Find(g, i)
      /\ \A c \in Classes(g) :
            /\ h.class[c].nodes = g.class[c].nodes /\ h.class[c].data = g.class[c].data
            /\ h.class[c].parents = g.class[c].parents \o Uses(n, c, id)
      /\ h.class[id].nodes = {n} /\ h.class[id].parents = <<>>
      /\ h.class[id].data = NodeData(g, n)
      /\ h.memo = Put(g.memo, n, id) /\ h.pending = Append(g.pending, <<n, id>>)
  <2>1. AddsClass(g, h, n, id)
    BY <1>0, NewClassParts
  <2> HIDE DEF id, h
  <2> QED BY <2>1 DEF AddsClass
<1> HIDE DEF id, h
<1>3. NumsKept(g, h)
  <2>1. \A i \in Ids(g) : NodesAt(h, i) = NodesAt(g, i)
    BY <1>2, FindTwice DEF NodesAt
  <2> QED BY <2>1 DEF NumsKept
<1>4. InPlace(g) \subseteq InPlace(h)
  BY <1>1, <1>3, InPlaceGrows
<1>5. n \in NodesAt(h, id)
  BY <1>2 DEF NodesAt
<1>6. <<n, id>> \in InPlace(h)
  <2>1. n \in Nodes(Ids(h))
    BY <1>1, NodesMonotone DEF Extends
  <2>2. NodeWorth(n, h.worth) = NodeWorth(n, g.worth)
    BY <1>1, SameWorth DEF Extends
  <2>3. <<n, id>> \in Entries(h)
    BY <1>1, <2>1, <2>2 DEF Entries
  <2>4. ExponentHeld(h, n)
    BY <1>3, ExponentKept
  <2> QED BY <1>5, <2>3, <2>4 DEF InPlace
<1>7. \A c \in Classes(h) : /\ h.leader[c] = c
                            /\ \A m \in h.class[c].nodes : <<m, c>> \in InPlace(h)
                            /\ h.class[c].parents \in Seq(InPlace(h))
  <2> TAKE c \in Classes(h)
  <2>1. CASE c \in Classes(g)
    <3>1. /\ g.leader[c] = c /\ c \in Ids(g) /\ \A m \in g.class[c].nodes : <<m, c>> \in InPlace(g)
          /\ g.class[c].parents \in Seq(InPlace(h))
      BY <1>4, <2>1, SeqMonotone DEF Tidy, Placed, Sound
    <3>2. Uses(n, c, id) \in Seq(InPlace(h))
      BY <1>6, UsesAreEntries
    <3>3. g.class[c].parents \o Uses(n, c, id) \in Seq(InPlace(h))
      BY <3>1, <3>2
    <3>4. h.leader[c] = c
      BY <1>2, <3>1 DEF Find
    <3> QED BY <1>2, <1>4, <2>1, <3>1, <3>3, <3>4
  <2>2. CASE c = id
    <3>1. <<>> \in Seq(InPlace(h))
      OBVIOUS
    <3> QED BY <1>2, <1>6, <2>2, <3>1 DEF Find
  <2> QED BY <1>2, <2>1, <2>2
<1>8. \A m \in DOMAIN h.memo : <<m, h.memo[m]>> \in InPlace(h)
  <2>1. \A m \in DOMAIN g.memo : <<m, g.memo[m]>> \in InPlace(h)
    BY <1>4 DEF Tidy, Placed
  <2> QED BY <1>2, <1>6, <2>1 DEF Put
<1>9. h.pending \in Seq(InPlace(h))
  <2>1. g.pending \in Seq(InPlace(h))
    BY <1>4, SeqMonotone DEF Tidy, Placed
  <2> QED BY <1>2, <1>6, <2>1
<1>10. Tidy(h)
  BY <1>1, <1>7, <1>8, <1>9 DEF Tidy, Placed
<1> QED BY <1>1, <1>3, <1>5, <1>10 DEF Stays, h, id

LEMMA JoinPlaced ==
    ASSUME AnalysisSound, NEW g, Tidy(g), NEW x \in Classes(g), NEW y \in Classes(g),
           x # y, g.worth[x] = g.worth[y]
    PROVE  Stays(g, Join(g, x, y))
<1> DEFINE h == Join(g, x, y)
<1>0. Sound(g)
  BY DEF Tidy
<1>1. Sound(h) /\ Extends(g, h) /\ Ids(h) = Ids(g)
  BY <1>0, JoinSound DEF Keeps
<1>2. PICK into \in {x, y}, gone \in {x, y} : into # gone /\ TakesIn(g, h, into, gone)
  BY <1>0, JoinParts
<1> HIDE DEF h
<1>3. /\ h.leader = [i \in DOMAIN g.leader |-> IF g.leader[i] = gone THEN into ELSE g.leader[i]]
      /\ Classes(h) = Classes(g) \ {gone} /\ into \in Classes(h)
      /\ h.class[into].nodes = g.class[into].nodes \cup g.class[gone].nodes
      /\ h.class[into].parents = g.class[into].parents \o g.class[gone].parents
      /\ \A c \in Classes(h) : c # into => h.class[c] = g.class[c]
      /\ h.memo = g.memo /\ h.pending = g.pending \o g.class[gone].parents
  <2> DEFINE nodes == g.class[into].nodes \cup g.class[gone].nodes
             parents == g.class[into].parents \o g.class[gone].parents
             data == Merge(g.class[into].data, g.class[gone].data).data
  <2>1. into \in Classes(h)
    BY <1>2 DEF TakesIn
  <2>2. h.class[into] = [nodes |-> nodes, parents |-> parents, data |-> data]
    BY <1>2 DEF TakesIn
  <2> HIDE DEF nodes, parents, data
  <2>3. h.class[into].nodes = nodes /\ h.class[into].parents = parents
    BY <2>2
  <2> QED BY <1>2, <2>1, <2>3 DEF TakesIn, nodes, parents
<1>4. \A i \in Ids(g) : NodesAt(g, i) \subseteq NodesAt(h, i)
  <2> TAKE i \in Ids(g)
  <2>1. g.leader[i] \in Classes(g) /\ i \in DOMAIN g.leader
    BY <1>0, SoundIdsOf
  <2>2. CASE g.leader[i] \in {into, gone}
    <3>1. h.leader[i] = into
      BY <1>2, <1>3, <2>1, <2>2
    <3> QED BY <1>3, <2>2, <3>1 DEF NodesAt, Find
  <2>3. CASE g.leader[i] \notin {into, gone}
    <3>1. h.leader[i] = g.leader[i] /\ g.leader[i] \in Classes(h) /\ g.leader[i] # into
      BY <1>3, <2>1, <2>3
    <3> QED BY <1>3, <3>1 DEF NodesAt, Find
  <2> QED BY <2>2, <2>3
<1>5. NumsKept(g, h)
  BY <1>4 DEF NumsKept
<1>6. InPlace(g) \subseteq InPlace(h)
  BY <1>1, <1>5, InPlaceGrows
<1>7. \A c \in Classes(g) : /\ c \in DOMAIN g.leader /\ g.leader[c] = c
                            /\ \A n \in g.class[c].nodes : <<n, c>> \in InPlace(h)
                            /\ g.class[c].parents \in Seq(InPlace(h))
  <2> TAKE c \in Classes(g)
  <2>1. c \in DOMAIN g.leader
    BY <1>0, SoundIdsOf DEF Sound
  <2>2. /\ g.leader[c] = c /\ g.class[c].parents \in Seq(InPlace(g))
        /\ \A n \in g.class[c].nodes : <<n, c>> \in InPlace(g)
    BY DEF Tidy, Placed
  <2>3. g.class[c].parents \in Seq(InPlace(h))
    BY <1>6, <2>2, SeqMonotone
  <2> QED BY <1>6, <2>1, <2>2, <2>3
<1>8. \A c \in Classes(h) : h.leader[c] = c
  BY <1>2, <1>3, <1>7
<1>9. ASSUME NEW c \in Classes(h), NEW n \in h.class[c].nodes
      PROVE  <<n, c>> \in InPlace(h)
  <2>1. <<n, c>> \in Entries(h) /\ n \in NodesAt(h, c)
    BY <1>1, <1>8, <1>9 DEF Sound, SoundClass, NodesAt, Find
  <2>2. ExponentHeld(h, n)
    <3>1. \E d \in Classes(g) : n \in g.class[d].nodes
      BY <1>2, <1>3, <1>9
    <3> QED BY <1>7, <3>1 DEF InPlace
  <2> QED BY <2>1, <2>2 DEF InPlace
<1>10. \A c \in Classes(h) : h.class[c].parents \in Seq(InPlace(h))
  <2> TAKE c \in Classes(h)
  <2>1. CASE c = into
    <3>1. /\ g.class[into].parents \in Seq(InPlace(h))
          /\ g.class[gone].parents \in Seq(InPlace(h))
      BY <1>2, <1>7
    <3>2. g.class[into].parents \o g.class[gone].parents \in Seq(InPlace(h))
      BY <3>1
    <3> QED BY <1>3, <2>1, <3>2
  <2>2. CASE c # into
    BY <1>3, <1>7, <2>2
  <2> QED BY <2>1, <2>2
<1>11. h.pending \in Seq(InPlace(h))
  <2>1. g.pending \in Seq(InPlace(h)) /\ g.class[gone].parents \in Seq(InPlace(h))
    BY <1>2, <1>6, <1>7, SeqMonotone DEF Tidy, Placed
  <2>2. g.pending \o g.class[gone].parents \in Seq(InPlace(h))
    BY <2>1
  <2> QED BY <1>3, <2>2
<1>12. \A n \in DOMAIN h.memo : <<n, h.memo[n]>> \in InPlace(h)
  BY <1>3, <1>6 DEF Tidy, Placed
<1>13. Tidy(h)
  BY <1>1, <1>8, <1>9, <1>10, <1>11, <1>12 DEF Tidy, Placed
<1> QED BY <1>1, <1>5, <1>13 DEF Stays, h

LEMMA JoinIdsPlaced ==
    ASSUME AnalysisSound, NEW g, Tidy(g), NEW a \in Ids(g), NEW b \in Ids(g),
           g.worth[a] = g.worth[b]
    PROVE  Stays(g, JoinIds(g, a, b))
<1> DEFINE x == Find(g, a)
           y == Find(g, b)
<1>1. /\ x \in Classes(g) /\ y \in Classes(g)
      /\ g.worth[x] = g.worth[a] /\ g.worth[y] = g.worth[b]
  BY SoundIdsOf DEF Tidy, Sound, Find
<1>2. CASE x = y
  BY <1>2, StaysSelf DEF JoinIds
<1>3. CASE x # y
  <2>1. JoinIds(g, a, b) = Join(g, x, y)
    BY <1>3 DEF JoinIds
  <2> HIDE DEF x, y
  <2> QED BY <1>1, <1>3, <2>1, JoinPlaced
<1> QED BY <1>2, <1>3

\* A number that is looked up or added is in the class that is answered.
LEMMA EnterPlaced ==
    ASSUME AnalysisSound, NEW g, Tidy(g), NEW n \in Nodes(Ids(g)), ExponentHeld(g, n)
    PROVE  LET e == Enter(g, n)
           IN  Stays(g, e.graph) /\ (IsNum(n) => n \in NodesAt(e.graph, e.id))
<1> DEFINE e == Enter(g, n)
<1>1. CASE n \in DOMAIN g.memo
  <2> DEFINE id == g.memo[n]
  <2>1. e.graph = g /\ e.id = Find(g, id)
    BY <1>1 DEF Enter
  <2>2. <<n, id>> \in InPlace(g)
    BY <1>1 DEF Tidy, Placed
  <2> HIDE DEF e, id
  <2>3. id \in Ids(g) /\ (IsNum(n) => n \in NodesAt(g, id))
    BY <2>2 DEF InPlace, Entries
  <2>4. NodesAt(g, e.id) = NodesAt(g, id)
    BY <2>1, <2>3, FindTwice
  <2> QED BY <2>1, <2>3, <2>4, StaysSelf DEF e
<1>2. CASE n \notin DOMAIN g.memo
  <2>1. e.graph = NewClass(g, n) /\ e.id = Len(g.leader) + 1
    BY <1>2 DEF Enter
  <2> HIDE DEF e
  <2>2. Stays(g, NewClass(g, n)) /\ n \in NodesAt(NewClass(g, n), Len(g.leader) + 1)
    BY NewClassPlaced
  <2> QED BY <2>1, <2>2 DEF e
<1> QED BY <1>1, <1>2

LEMMA NumberHoldsExponent ==
    ASSUME NEW g, NEW n, IsNum(n)
    PROVE  ExponentHeld(g, n)
BY DEF IsNum, ExponentHeld

LEMMA ModifyPlaced ==
    ASSUME AnalysisSound, NEW g, Tidy(g), NEW id \in Ids(g)
    PROVE  Stays(g, ModifyClass(g, id))
<1> DEFINE c == Find(g, id)
           const == Modify(g.class[c].data)
           n == Num(const)
           leaf == Enter(g, n)
           h == leaf.graph
           other == leaf.id
<1>0. Sound(g)
  BY DEF Tidy
<1>1. c \in Classes(g) /\ g.worth[c] = g.worth[id] /\ Exact(g.class[c].data, g.worth[c])
  BY <1>0, SoundIdsOf DEF Sound, SoundClass, Find
<1>2. CASE const = None
  BY <1>2, StaysSelf DEF ModifyClass
<1>3. CASE const # None
  <2>1. const \in Coeff /\ g.worth[id] = [p \in Points |-> const]
    BY <1>1, <1>3 DEF Exact
  <2>2. ModifyClass(g, id) = JoinIds(h, id, other)
    BY <1>3 DEF ModifyClass
  <2>3. n \in Nodes(Ids(g)) /\ NodeWorth(n, g.worth) = [p \in Points |-> const] /\ IsNum(n)
    <3>1. n.op = "num"
      BY DEF Num, LeafNode
    <3> QED BY <2>1, <3>1, NumIsNode DEF IsNum
  <2> HIDE DEF n, const, c
  <2>4. Keeps(g, h) /\ other \in Ids(h) /\ h.worth[other] = NodeWorth(n, g.worth)
    BY <1>0, <2>3, EnterSound
  <2>5. Stays(g, h)
    BY <2>3, NumberHoldsExponent, EnterPlaced
  <2> HIDE DEF h, other, leaf
  <2>6. Tidy(h) /\ id \in Ids(h) /\ h.worth[id] = h.worth[other]
    BY <2>1, <2>3, <2>4, <2>5 DEF Stays, Extends
  <2>7. Stays(h, JoinIds(h, id, other))
    BY <2>4, <2>6, JoinIdsPlaced
  <2> QED BY <2>2, <2>5, <2>7, StaysTransitive
<1> QED BY <1>2, <1>3

\* A number that is added is in the class that is answered.
LEMMA AddNodePlaced ==
    ASSUME AnalysisSound, NEW g, Tidy(g), NEW n \in Nodes(Ids(g)), ExponentHeld(g, n)
    PROVE  LET added == AddNode(g, n)
           IN  Stays(g, added.graph) /\ (IsNum(n) => n \in NodesAt(added.graph, added.id))
<1> DEFINE node == Canonical(g, n)
           id == Len(g.leader) + 1
           new == NewClass(g, node)
           h == ModifyClass(new, id)
<1>1. node \in Nodes(Ids(g)) /\ ExponentHeld(g, node) /\ (IsNum(n) => node = n)
  BY CanonicalWorth, CanonicalInPlace DEF Tidy
<1>2. CASE node \in DOMAIN g.memo
  <2>1. AddNode(g, n) = Enter(g, node)
    BY <1>2 DEF AddNode
  <2> HIDE DEF node
  <2>2. Stays(g, Enter(g, node).graph)
        /\ (IsNum(node) => node \in NodesAt(Enter(g, node).graph, Enter(g, node).id))
    BY <1>1, EnterPlaced
  <2> QED BY <1>1, <2>1, <2>2
<1>3. CASE node \notin DOMAIN g.memo
  <2>1. AddNode(g, n).graph = h /\ AddNode(g, n).id = Find(h, id)
    BY <1>3 DEF AddNode
  <2> HIDE DEF node, id, new, h
  <2>2. Stays(g, new) /\ id \in Ids(new) /\ node \in NodesAt(new, id)
    BY <1>1, NewClassPlaced DEF new, id
  <2>3. Stays(new, h)
    BY <2>2, ModifyPlaced DEF Stays, h
  <2>4. Tidy(h) /\ id \in Ids(h) /\ (IsNum(node) => node \in NodesAt(h, id))
    BY <2>2, <2>3 DEF Stays, Extends, NumsKept
  <2>5. NodesAt(h, Find(h, id)) = NodesAt(h, id)
    BY <2>4, FindTwice
  <2> QED BY <1>1, <2>1, <2>2, <2>3, <2>4, <2>5, StaysTransitive
<1> QED BY <1>2, <1>3

LEMMA UnionPlaced ==
    ASSUME AnalysisSound, NEW g, Tidy(g), NEW a \in Ids(g), NEW b \in Ids(g),
           g.worth[a] = g.worth[b]
    PROVE  Stays(g, Union(g, a, b))
<1> DEFINE h == JoinIds(g, a, b)
<1>1. Stays(g, h)
  BY JoinIdsPlaced
<1>2. Tidy(h) /\ a \in Ids(h)
  BY <1>1 DEF Stays, Extends
<1> HIDE DEF h
<1>3. Stays(h, ModifyClass(h, a))
  BY <1>2, ModifyPlaced
<1>4. Stays(g, ModifyClass(h, a))
  BY <1>1, <1>3, StaysTransitive
<1> QED BY <1>4, StaysSelf DEF Union, h

LEMMA SamePlaces ==
    ASSUME NEW g, Sound(g), NEW h, h.leader = g.leader, h.worth = g.worth,
           \A c \in Classes(g) : h.class[c].nodes = g.class[c].nodes
    PROVE  InPlace(h) = InPlace(g) /\ Extends(g, h) /\ NumsKept(g, h)
<1>1. Ids(h) = Ids(g) /\ Entries(h) = Entries(g)
  BY DEF Ids, Entries
<1>2. \A i \in Ids(g) : NodesAt(h, i) = NodesAt(g, i)
  BY SoundIdsOf DEF NodesAt, Find
<1>3. Extends(g, h) /\ NumsKept(g, h) /\ Extends(h, g) /\ NumsKept(h, g)
  BY <1>1, <1>2 DEF Extends, NumsKept
<1>4. InPlace(g) \subseteq InPlace(h) /\ InPlace(h) \subseteq InPlace(g)
  BY <1>3, InPlaceGrows
<1> QED BY <1>3, <1>4

\* A repair of the memo may leave two classes to unite.
LEMMA RepairMemoTidySteps ==
    ASSUME NEW g, Tidy(g), g.pending # <<>>
    PROVE  \E h : /\ Stays(g, h) /\ Classes(h) = Classes(g) /\ h.class = g.class
                  /\ \/ RepairMemo(g) = h
                     \/ \E a, b \in Ids(h) : /\ h.worth[a] = h.worth[b]
                                             /\ RepairMemo(g) = Union(h, a, b)
<1> DEFINE entry == g.pending[Len(g.pending)]
           n == Canonical(g, entry[1])
           id == entry[2]
<1>0. Sound(g)
  BY DEF Tidy
<1>1. PICK h : /\ Sound(h) /\ h.leader = g.leader /\ h.class = g.class /\ h.worth = g.worth
               /\ h.memo = Put(g.memo, n, id) /\ h.pending = Front(g.pending)
               /\ RepairMemo(g) = IF n \in DOMAIN g.memo THEN Union(h, g.memo[n], id) ELSE h
               /\ n \in DOMAIN g.memo => /\ g.memo[n] \in Ids(h) /\ id \in Ids(h)
                                          /\ h.worth[g.memo[n]] = h.worth[id]
  BY <1>0, RepairMemoSteps
<1>2. entry \in InPlace(g) /\ Front(g.pending) \in Seq(InPlace(g))
  <2>1. g.pending \in Seq(InPlace(g))
    BY DEF Tidy, Placed
  <2> QED BY <2>1 DEF Front
<1>3. /\ entry[1] \in Nodes(Ids(g)) /\ id \in Ids(g)
      /\ NodeWorth(entry[1], g.worth) = g.worth[id]
      /\ ExponentHeld(g, entry[1]) /\ (IsNum(entry[1]) => entry[1] \in NodesAt(g, id))
  BY <1>2 DEF InPlace, Entries
<1> HIDE DEF entry
<1>4. <<n, id>> \in InPlace(g)
  <2>1. n \in Nodes(Ids(g)) /\ NodeWorth(n, g.worth) = g.worth[id] /\ n.op = entry[1].op
    BY <1>0, <1>3, CanonicalWorth
  <2>2. ExponentHeld(g, n) /\ (IsNum(entry[1]) => n = entry[1])
    BY <1>3, CanonicalInPlace
  <2> QED BY <1>3, <2>1, <2>2 DEF InPlace, Entries, IsNum
<1> HIDE DEF n, id
<1>5. InPlace(h) = InPlace(g) /\ Extends(g, h) /\ NumsKept(g, h) /\ Classes(h) = Classes(g)
  BY <1>0, <1>1, SamePlaces DEF Classes
<1>6. \A m \in DOMAIN h.memo : <<m, h.memo[m]>> \in InPlace(g)
  <2>1. \A m \in DOMAIN g.memo : <<m, g.memo[m]>> \in InPlace(g)
    BY DEF Tidy, Placed
  <2> QED BY <1>1, <1>4, <2>1 DEF Put
<1>7. Placed(h)
  BY <1>1, <1>2, <1>5, <1>6 DEF Tidy, Placed
<1>8. Stays(g, h)
  BY <1>1, <1>5, <1>7 DEF Stays, Tidy
<1>9. \/ RepairMemo(g) = h
      \/ \E a, b \in Ids(h) : h.worth[a] = h.worth[b] /\ RepairMemo(g) = Union(h, a, b)
  BY <1>1
<1> QED BY <1>1, <1>5, <1>8, <1>9

LEMMA RepairMemoPlaced ==
    ASSUME AnalysisSound, NEW g, Tidy(g), g.pending # <<>>
    PROVE  Stays(g, RepairMemo(g))
<1>1. PICK h : /\ Stays(g, h)
               /\ \/ RepairMemo(g) = h
                  \/ \E a, b \in Ids(h) : /\ h.worth[a] = h.worth[b]
                                          /\ RepairMemo(g) = Union(h, a, b)
  BY RepairMemoTidySteps
<1>2. ASSUME NEW a \in Ids(h), NEW b \in Ids(h), h.worth[a] = h.worth[b]
      PROVE  Stays(h, Union(h, a, b))
  BY <1>1, <1>2, UnionPlaced DEF Stays
<1> QED BY <1>1, <1>2, StaysTransitive

LEMMA RepairedPlaced ==
    ASSUME AnalysisSound, NEW g, Tidy(g), NEW entry \in g.dirty, NEW f, Repaired(g, entry, f)
    PROVE  Stays(g, f)
<1> DEFINE id == Find(g, entry[2])
           old == g.class[id]
           data == Merge(old.data, NodeData(g, entry[1])).data
<1>0. Sound(g)
  BY DEF Tidy
<1>1. /\ f.leader = g.leader /\ f.memo = g.memo /\ f.pending = g.pending /\ f.worth = g.worth
      /\ Classes(f) = Classes(g) /\ \A c \in Classes(g) : c # id => f.class[c] = g.class[c]
      /\ f.class[id] = [nodes |-> old.nodes, parents |-> old.parents, data |-> data]
  BY <1>0, RepairedParts
<1>2. Sound(f)
  BY <1>0, RepairedSound DEF Keeps
<1> HIDE DEF data
<1>3. f.class[id].nodes = old.nodes /\ f.class[id].parents = old.parents
  BY <1>1
<1>4. \A c \in Classes(g) : /\ f.class[c].nodes = g.class[c].nodes
                            /\ f.class[c].parents = g.class[c].parents
  BY <1>1, <1>3
<1> HIDE DEF id, old
<1>5. InPlace(f) = InPlace(g) /\ Extends(g, f) /\ NumsKept(g, f)
  BY <1>0, <1>1, <1>4, SamePlaces
<1>6. Placed(f)
  BY <1>1, <1>4, <1>5 DEF Tidy, Placed
<1> QED BY <1>2, <1>5, <1>6 DEF Stays, Tidy

LEMMA RepairDataPlaced ==
    ASSUME AnalysisSound, NEW g, Tidy(g), NEW entry \in g.dirty
    PROVE  Stays(g, RepairData(g, entry))
<1> DEFINE id == Find(g, entry[2])
           merged == Merge(g.class[id].data, NodeData(g, entry[1]))
<1>1. PICK h, k : /\ Repaired(g, entry, h) /\ Repaired(g, entry, k)
                  /\ RepairData(g, entry) = IF merged.changed THEN ModifyClass(k, id) ELSE h
  BY RepairDataSteps DEF Tidy
<1>2. Stays(g, h) /\ Stays(g, k)
  BY <1>1, RepairedPlaced
<1>3. id \in Ids(g)
  BY SoundIdsOf DEF Tidy, Sound, Entries, Find
<1> HIDE DEF id, merged
<1>4. Stays(k, ModifyClass(k, id))
  BY <1>2, <1>3, ModifyPlaced DEF Stays, Extends
<1> QED BY <1>1, <1>2, <1>4, StaysTransitive

\* The children of the nodes of a rebuilt graph are leaders.
KidsLead(g) ==
    \A c \in Classes(g) : \A n \in g.class[c].nodes :
        \A i \in DOMAIN n.kids : n.kids[i] \in Classes(g)

LEMMA CanonicalNodesPlaced ==
    ASSUME NEW g, Tidy(g)
    PROVE  Stays(g, CanonicalNodes(g)) /\ KidsLead(CanonicalNodes(g))
<1> DEFINE h == CanonicalNodes(g)
<1>0. Sound(g)
  BY DEF Tidy
<1>1. Sound(h) /\ Extends(g, h)
  BY <1>0, CanonicalNodesSound DEF Keeps
<1>2. h = [leader |-> g.leader, class |-> h.class, memo |-> g.memo, pending |-> g.pending,
           dirty |-> g.dirty, worth |-> g.worth, defined |-> g.defined]
  BY <1>0, CanonicalNodesParts
<1>3. /\ Classes(h) = Classes(g)
      /\ \A c \in Classes(g) :
            /\ h.class[c].nodes = {Canonical(g, n) : n \in g.class[c].nodes}
            /\ h.class[c].parents = g.class[c].parents
  BY <1>0, CanonicalNodesParts
<1> HIDE DEF h
<1>4. h.leader = g.leader /\ h.memo = g.memo /\ h.pending = g.pending
  BY <1>2
<1>5. \A c \in Classes(g) : \A n \in g.class[c].nodes :
        n \in Nodes(Ids(g)) /\ ExponentHeld(g, n)
  BY DEF Tidy, Placed, InPlace, Entries
<1>6. NumsKept(g, h)
  <2> SUFFICES ASSUME NEW i \in Ids(g), NEW m \in NodesAt(g, i), IsNum(m)
               PROVE  m \in NodesAt(h, i)
    BY DEF NumsKept
  <2>1. g.leader[i] \in Classes(g) /\ m \in g.class[g.leader[i]].nodes
    BY <1>0, SoundIdsOf DEF NodesAt, Find
  <2>2. Canonical(g, m) = m
    BY <1>5, <2>1, CanonicalInPlace
  <2> QED BY <1>3, <1>4, <2>1, <2>2 DEF NodesAt, Find
<1>7. InPlace(g) \subseteq InPlace(h)
  BY <1>1, <1>6, InPlaceGrows
<1>8. ASSUME NEW c \in Classes(h), NEW m \in h.class[c].nodes
      PROVE  <<m, c>> \in InPlace(h) /\ \A i \in DOMAIN m.kids : m.kids[i] \in Classes(h)
  <2>1. PICK n \in g.class[c].nodes : m = Canonical(g, n)
    BY <1>3, <1>8
  <2>2. n \in Nodes(Ids(g)) /\ ExponentHeld(g, n)
    BY <1>3, <1>8, <1>5
  <2>3. m \in Nodes(Ids(g)) /\ ExponentHeld(g, m)
    BY <1>0, <2>1, <2>2, CanonicalWorth, CanonicalInPlace
  <2>4. ExponentHeld(h, m)
    BY <1>6, <2>3, ExponentKept
  <2>5. <<m, c>> \in Entries(h)
    BY <1>1, <1>8 DEF Sound, SoundClass
  <2>6. m \in NodesAt(h, c)
    BY <1>3, <1>4, <1>8 DEF Tidy, Placed, NodesAt, Find
  <2>7. \A i \in DOMAIN m.kids : m.kids[i] \in Classes(g)
    <3>1. \A k \in Ids(g) : g.leader[k] \in Classes(g)
      BY <1>0, SoundIdsOf
    <3>2. m.kids = [i \in DOMAIN n.kids |-> g.leader[n.kids[i]]]
      BY <2>1, <2>2, <3>1, SubstIsNode DEF Canonical
    <3>3. \A i \in DOMAIN n.kids : n.kids[i] \in Ids(g)
      BY <2>2, NodeCases
    <3> QED BY <3>1, <3>2, <3>3
  <2> QED BY <1>3, <2>4, <2>5, <2>6, <2>7 DEF InPlace
<1>9. \A c \in Classes(h) : h.leader[c] = c /\ h.class[c].parents \in Seq(InPlace(h))
  BY <1>3, <1>4, <1>7, SeqMonotone DEF Tidy, Placed
<1>10. h.pending \in Seq(InPlace(h)) /\ \A n \in DOMAIN h.memo : <<n, h.memo[n]>> \in InPlace(h)
  BY <1>4, <1>7, SeqMonotone DEF Tidy, Placed
<1>11. Tidy(h)
  BY <1>1, <1>8, <1>9, <1>10 DEF Tidy, Placed
<1> QED BY <1>1, <1>6, <1>8, <1>11 DEF Stays, KidsLead, h

LEMMA EmptyGraphTidy == Tidy(EmptyGraph)
<1> DEFINE g == EmptyGraph
<1>1. g.class = <<>> /\ g.memo = <<>> /\ g.pending = <<>>
  BY DEF EmptyGraph
<1>2. Sound(g)
  BY EmptyGraphSound
<1> HIDE DEF g
<1>3. Classes(g) = {} /\ DOMAIN g.memo = {} /\ g.pending \in Seq(InPlace(g))
  BY <1>1 DEF Classes
<1>4. Tidy(g)
  BY <1>2, <1>3 DEF Tidy, Placed
<1> QED BY <1>4 DEF g

\* Numbers of a list that is lowered have been added to their classes.
NumbersPlaced ==
    phase = "lower" =>
        \A i \in 1 .. Len(ids) : IsNum(List[i]) => List[i] \in NodesAt(graph, ids[i])

PInv ==
    /\ Placed(graph) /\ NumbersPlaced
    /\ phase \in {"search"} \cup Stopped => KidsLead(graph)

LEMMA PInvInit == RunnerInit => PInv
<1> SUFFICES ASSUME RunnerInit PROVE PInv
  OBVIOUS
<1>1. graph = EmptyGraph /\ phase = "lower" /\ ids = <<>>
  BY DEF RunnerInit
<1> QED BY <1>1, EmptyGraphTidy DEF PInv, NumbersPlaced, Tidy, Stopped

LEMMA SubstParts ==
    ASSUME NEW K, NEW n \in Nodes(K), NEW sub
    PROVE  /\ Subst(n, sub).op = n.op
           /\ Subst(n, sub).kids = [i \in DOMAIN n.kids |-> sub[n.kids[i]]]
<1> DEFINE L == {sub[k] : k \in K}
<1>1. \A k \in K : sub[k] \in L
  OBVIOUS
<1> HIDE DEF L
<1> QED BY <1>1, SubstIsNode

\* A number has no children to rename.
LEMMA SubstNumber ==
    ASSUME NEW K, NEW n \in Nodes(K), IsNum(n), NEW sub
    PROVE  Subst(n, sub) = n
<1> DEFINE kids == [i \in DOMAIN n.kids |-> sub[n.kids[i]]]
<1>1. n.kids \in [1 .. 0 -> K] /\ n = [op |-> n.op, val |-> n.val, kids |-> n.kids]
  BY NodeCases DEF IsNum
<1>2. Subst(n, sub) = [n EXCEPT !.kids = kids]
  BY DEF Subst
<1>3. kids = n.kids
  BY <1>1
<1> HIDE DEF kids
<1> QED BY <1>1, <1>2, <1>3

\* What is added to the graph is a power only if its exponent has been added.
LEMMA NextExponentHeld ==
    ASSUME SInv, PInv, Adding, ~ListDone
    PROVE  LET j == Len(ids) - Given + 1
           IN  ExponentHeld(graph, Subst(List[j], ids))
<1> DEFINE j == Len(ids) - Given + 1
           n == Subst(List[j], ids)
<1>1. j \in 1 .. Len(List) /\ Given + j = Len(ids) + 1 /\ List[j] \in Nodes(1 .. Len(ids))
  BY NextNode
<1>2. ids \in Seq(Ids(graph))
  BY DEF SInv, SoundIds
<1> HIDE DEF j
<1>3. n.op = List[j].op /\ n.kids = [i \in DOMAIN List[j].kids |-> ids[List[j].kids[i]]]
  BY <1>1, SubstParts
<1>4. Given \in Nat /\ Len(List) \in Nat /\ Len(ids) \in Nat
  BY <1>2, ListType
<1> HIDE DEF n
<1> SUFFICES ASSUME List[j].op = "^"
             PROVE  \E m \in NodesAt(graph, n.kids[2]) : IsInteger(m)
  BY <1>3 DEF ExponentHeld, n, j
<1>5. CASE phase = "lower"
  <2>1. List = Lowered(baseline) /\ List \in Seq(Nodes(Nat))
        /\ \A i \in DOMAIN List : List[i].op = "^" => IsInteger(List[List[i].kids[2]])
    BY <1>5, LoweredAssumption DEF List, SInv
  <2>2. j \in DOMAIN List
    BY <1>1, <2>1
  <2> DEFINE k == List[j].kids[2]
  <2>3. List[j].kids \in [1 .. 2 -> 1 .. Len(ids)]
    BY <1>1, NodeCases
  <2>4. k \in 1 .. Len(ids) /\ n.kids[2] = ids[k]
    BY <1>3, <2>3
  <2>5. IsInteger(List[k])
    BY <2>1, <2>2
  <2>6. List[k] \in NodesAt(graph, ids[k])
    BY <1>5, <2>4, <2>5 DEF PInv, NumbersPlaced, IsInteger, IsNum
  <2> QED BY <2>4, <2>5, <2>6
<1>6. CASE phase = "instantiate"
  <2>1. List = Rules[rule].rhs /\ rule \in DOMAIN Rules
    BY <1>6 DEF List, SInv, SoundIds
  <2>2. GoodRule(Rules[rule])
    BY <2>1, RulesSound DEF Rules
  <2>3. DOMAIN List = 1 .. Len(List) /\ \A i \in DOMAIN List : List[i].op # "^"
    BY <2>1, <2>2 DEF GoodRule, AddsNoPower, RuleIsList
  <2> QED BY <1>1, <2>3
<1> QED BY <1>5, <1>6 DEF Adding

LEMMA AddNextPlaced ==
    ASSUME AnalysisSound, SInv, PInv, AddNext
    PROVE  PInv'
<1> DEFINE j == Len(ids) - Given + 1
           n == Subst(List[j], ids)
           added == AddNode(graph, n)
<1>1. /\ Adding /\ ~ListDone /\ graph' = added.graph /\ ids' = Append(ids, added.id)
      /\ phase' = phase /\ baseline' = baseline /\ mode' = mode /\ rule' = rule
  BY DEF AddNext
<1>2. /\ j \in 1 .. Len(List) /\ Given + j = Len(ids) + 1
      /\ List[j] \in Nodes(1 .. Len(ids)) /\ n \in Nodes(Ids(graph))
  BY <1>1, NextNode
<1>3. ExponentHeld(graph, n)
  BY <1>1, NextExponentHeld
<1>4. ids \in Seq(Ids(graph)) /\ Tidy(graph) /\ Len(ids) \in Nat
  BY DEF SInv, SoundIds, PInv, Tidy
<1>5. List' = List
  BY <1>1 DEF List, Rules
<1>6. IsNum(List[j]) => n = List[j]
  BY <1>2, SubstNumber
<1> HIDE DEF n, j
<1>7. Stays(graph, graph') /\ (IsNum(n) => n \in NodesAt(graph', added.id))
  BY <1>1, <1>2, <1>3, <1>4, AddNodePlaced
<1> HIDE DEF added
<1>8. NumbersPlaced'
  <2> SUFFICES ASSUME phase = "lower", NEW i \in 1 .. Len(ids'), IsNum(List[i])
               PROVE  List[i] \in NodesAt(graph', ids'[i])
    BY <1>1, <1>5 DEF NumbersPlaced, NodesAt, Find
  <2>1. Len(ids') = Len(ids) + 1 /\ ids'[Len(ids) + 1] = added.id
        /\ \A k \in 1 .. Len(ids) : ids'[k] = ids[k]
    BY <1>1, <1>4
  <2>2. CASE i \in 1 .. Len(ids)
    <3>1. List[i] \in NodesAt(graph, ids[i]) /\ ids[i] \in Ids(graph)
      BY <1>4, <2>2 DEF PInv, NumbersPlaced
    <3>2. List[i] \in NodesAt(graph', ids[i])
      BY <1>7, <3>1 DEF Stays, NumsKept
    <3> QED BY <2>1, <2>2, <3>2
  <2>3. CASE i = Len(ids) + 1
    <3>1. Given = 0
      BY DEF Given
    <3>2. i = j
      BY <1>2, <1>4, <2>3, <3>1 DEF j
    <3> QED BY <1>6, <1>7, <2>1, <2>3, <3>2
  <2> QED BY <1>4, <2>1, <2>2, <2>3
<1>9. phase' \notin {"search"} \cup Stopped
  BY <1>1 DEF Adding, Stopped
<1> QED BY <1>7, <1>8, <1>9 DEF PInv, Stays, Tidy, Placed, InPlace, Entries, Ids, NodesAt, ExponentHeld, Find

LEMMA PInvNext ==
    ASSUME AnalysisSound, SInv, PInv, [Rewrite \/ HandOver]_runner
    PROVE  PInv'
<1>1. Tidy(graph)
  BY DEF SInv, PInv, Tidy
<1>2. CASE AddNext
  BY <1>2, AddNextPlaced
<1>3. ASSUME Stays(graph, graph'), phase' # "lower",
             phase' \in {"search"} \cup Stopped => KidsLead(graph')
      PROVE  PInv'
  <2>1. Placed(graph')
    BY <1>3 DEF Stays, Tidy
  <2>2. NumbersPlaced'
    BY <1>3 DEF NumbersPlaced
  <2> QED BY <1>3, <2>1, <2>2 DEF PInv, Placed, InPlace, Entries, Ids, Classes, NodesAt,
                                  ExponentHeld, Find, KidsLead, Stopped
<1>4. CASE UniteMatch
  <2> DEFINE id == ids[Len(ids)]
             class == match[LhsSize(Rules[rule])]
  <2>1. /\ phase = "instantiate" /\ ListDone /\ graph' = Union(graph, id, class)
        /\ phase' = "apply"
    BY <1>4 DEF UniteMatch
  <2>2. id \in Ids(graph) /\ class \in Ids(graph) /\ graph.worth[id] = graph.worth[class]
    BY <2>1, UnitedWorth
  <2> HIDE DEF id, class
  <2>3. Stays(graph, graph')
    BY <1>1, <2>1, <2>2, UnionPlaced
  <2> QED BY <1>3, <2>1, <2>3 DEF Stopped
<1>5. CASE RepairNode
  <2>1. /\ graph.pending # <<>> /\ graph' = RepairMemo(graph)
        /\ phase = "rebuild" /\ phase' = phase
    BY <1>5 DEF RepairNode
  <2>2. Stays(graph, graph')
    BY <1>1, <2>1, RepairMemoPlaced
  <2> QED BY <1>3, <2>1, <2>2 DEF Stopped
<1>6. CASE RepairAnalysis
  <2>1. PICK entry \in graph.dirty : graph' = RepairData(graph, entry)
    BY <1>6 DEF RepairAnalysis
  <2>2. Stays(graph, graph')
    BY <1>1, <2>1, RepairDataPlaced
  <2>3. phase' \in {"rebuild", "reanalyse"}
    BY <1>6 DEF RepairAnalysis
  <2> QED BY <1>3, <2>2, <2>3 DEF Stopped
<1>7. CASE Rebuilt
  <2>1. graph' = CanonicalNodes(graph) /\ phase' \in {"limit", "search", "saturated"}
    BY <1>7 DEF Rebuilt
  <2>2. Stays(graph, graph') /\ KidsLead(graph')
    BY <1>1, <2>1, CanonicalNodesPlaced
  <2> QED BY <1>3, <2>1, <2>2
<1>8. CASE LastIteration
  <2>1. phase = "search" /\ phase' = "limit" /\ graph' = graph
    BY <1>8 DEF LastIteration
  <2>2. Stays(graph, graph') /\ KidsLead(graph')
    BY <1>1, <2>1, StaysSelf DEF PInv
  <2> QED BY <1>3, <2>1, <2>2
<1>9. CASE \/ Start \/ Search \/ ApplyMatch \/ NextRule \/ HandOver
  <2>1. graph' = graph /\ phase' \in {"rebuild", "apply", "instantiate", "extracted"}
    BY <1>9 DEF Start, Search, ApplyMatch, NextRule, HandOver
  <2>2. Stays(graph, graph')
    BY <1>1, <2>1, StaysSelf
  <2> QED BY <1>3, <2>1, <2>2 DEF Stopped
<1>10. CASE UNCHANGED runner
  <2>1. /\ graph' = graph /\ phase' = phase /\ ids' = ids
        /\ baseline' = baseline /\ mode' = mode /\ rule' = rule
    BY <1>10 DEF runner
  <2>2. NumbersPlaced'
    BY <2>1 DEF PInv, NumbersPlaced, List, Rules, NodesAt, Find
  <2>3. Placed(graph)'
    BY <2>1 DEF PInv, Placed, InPlace, Entries, Ids, Classes, NodesAt, ExponentHeld, Find
  <2>4. (phase \in {"search"} \cup Stopped => KidsLead(graph))'
    BY <2>1 DEF PInv, KidsLead, Classes, Stopped
  <2> QED BY <2>2, <2>3, <2>4 DEF PInv
<1> QED BY <1>2, <1>4, <1>5, <1>6, <1>7, <1>8, <1>9, <1>10 DEF Rewrite

\* In a sound class a number is what the class is worth, and so is a variable:
\* the sample points tell one from the other, and a number from another.
LEMMA NumberAlone ==
    ASSUME NEW g, Sound(g), NEW c \in Classes(g), NEW n \in g.class[c].nodes, IsNum(n),
           NEW m \in g.class[c].nodes
    PROVE  m.op # "var" /\ (m.op = "num" => m = n)
<1>1. /\ n \in Nodes(Ids(g)) /\ NodeWorth(n, g.worth) = g.worth[c]
      /\ m \in Nodes(Ids(g)) /\ NodeWorth(m, g.worth) = g.worth[c]
  BY DEF Sound, SoundClass, Entries
<1>2. g.worth[c] = [p \in Points |-> n.val]
  BY <1>1 DEF NodeWorth, ValueOf, IsNum
<1>3. m.op = "num" => g.worth[c] = [p \in Points |-> m.val]
  BY <1>1 DEF NodeWorth, ValueOf
<1>4. m.op = "var" => g.worth[c] = [p \in Points |-> p[m.val]]
  BY <1>1 DEF NodeWorth, ValueOf
<1>5. ASSUME m.op = "var" PROVE FALSE
  <2>1. m.val \in Names
    BY <1>1, <1>5, NodeCases
  <2>2. PICK p, q \in Points : p[m.val] # q[m.val]
    BY <2>1, PointsAssumption
  <2>3. \A r \in Points : g.worth[c][r] = r[m.val] /\ g.worth[c][r] = n.val
    <3>1. g.worth[c] = [r \in Points |-> r[m.val]]
      BY <1>4, <1>5
    <3>2. \A r \in Points : g.worth[c][r] = r[m.val]
      BY <3>1
    <3>3. \A r \in Points : g.worth[c][r] = n.val
      BY <1>2
    <3> QED BY <3>2, <3>3
  <2> QED BY <2>2, <2>3
<1>6. ASSUME m.op = "num" PROVE m = n
  <2>1. PICK p \in Points : TRUE
    BY PointsAssumption
  <2>2. m.val = n.val
    <3>1. g.worth[c][p] = n.val
      BY <1>2, <2>1
    <3>2. g.worth[c][p] = m.val
      BY <1>3, <1>6, <2>1
    <3> QED BY <3>1, <3>2
  <2>3. /\ n = [op |-> n.op, val |-> n.val, kids |-> n.kids] /\ n.kids \in [1 .. 0 -> Ids(g)]
        /\ m = [op |-> m.op, val |-> m.val, kids |-> m.kids] /\ m.kids \in [1 .. 0 -> Ids(g)]
    BY <1>1, <1>6, NodeCases DEF IsNum
  <2>4. m.kids = n.kids
    BY <2>3
  <2> QED BY <1>6, <2>2, <2>3, <2>4 DEF IsNum
<1> QED BY <1>5, <1>6

LEMMA PInvExponents ==
    ASSUME SInv, PInv
    PROVE  ExponentsStayIntegers
<1> SUFFICES ASSUME phase \in Stopped,
                    NEW k \in Classes(graph), NEW n \in graph.class[k].nodes
             PROVE  /\ n.op = "^" => \E m \in graph.class[n.kids[2]].nodes : IsInteger(m)
                    /\ IsInteger(n) => \A m \in graph.class[k].nodes :
                                            m.op # "var" /\ (m.op = "num" => m = n)
  BY DEF ExponentsStayIntegers
<1>1. Sound(graph) /\ Placed(graph) /\ KidsLead(graph)
  BY DEF SInv, PInv
<1>2. <<n, k>> \in InPlace(graph)
  BY <1>1 DEF Placed
<1>3. n \in Nodes(Ids(graph)) /\ ExponentHeld(graph, n)
  BY <1>2 DEF InPlace, Entries
<1>4. ASSUME n.op = "^" PROVE \E m \in graph.class[n.kids[2]].nodes : IsInteger(m)
  <2>1. 2 \in DOMAIN n.kids
    BY <1>3, <1>4, NodeCases
  <2>2. n.kids[2] \in Classes(graph)
    BY <1>1, <2>1 DEF KidsLead
  <2>3. NodesAt(graph, n.kids[2]) = graph.class[n.kids[2]].nodes
    BY <1>1, <2>2 DEF Placed, NodesAt, Find
  <2> QED BY <1>3, <1>4, <2>3 DEF ExponentHeld
<1>5. IsInteger(n) => \A m \in graph.class[k].nodes : m.op # "var" /\ (m.op = "num" => m = n)
  BY <1>1, NumberAlone DEF IsInteger, IsNum
<1> QED BY <1>4, <1>5

\* Whatever the analysis, an exponent's class keeps the integer that the power
\* was lowered with, and lifting cannot meet a variable or two integers there:
\* what the module Extractor takes for granted of an e-graph holds of the
\* graphs that the runner stops with.
THEOREM ExponentsStay == AnalysisSound => (SaturationSpec => []ExponentsStayIntegers)
<1> SUFFICES ASSUME AnalysisSound PROVE SaturationSpec => []ExponentsStayIntegers
  OBVIOUS
<1> DEFINE Inv == SInv /\ PInv
<1>1. RunnerInit => Inv
  BY SInvInit, PInvInit
<1>2. Inv /\ [Rewrite \/ HandOver]_runner => Inv'
  BY SInvNext, PInvNext
<1>3. Inv => ExponentsStayIntegers
  BY PInvExponents
<1> QED BY <1>1, <1>2, <1>3, PTL DEF SaturationSpec

-----------------------------------------------------------------------------
(* Constants and the numbers of a class *)

HasNum(g, c) == \E n \in g.class[c].nodes : IsNum(n)

\* A class has a constant if and only if it holds a number; one in open may
\* have a constant that modify has yet to add.
Folded(g, open) ==
    \A c \in Classes(g) : /\ HasNum(g, c) => g.class[c].data # None
                          /\ g.class[c].data # None => HasNum(g, c) \/ c \in open

LEMMA FoldedWeaker ==
    ASSUME NEW g, NEW open, Folded(g, {})
    PROVE  Folded(g, open)
BY DEF Folded

LEMMA NewClassFolded ==
    ASSUME FoldAnalysis, NEW g, Sound(g), NEW open, Folded(g, open), NEW n \in Nodes(Ids(g))
    PROVE  LET id == Len(g.leader) + 1
               h == NewClass(g, n)
           IN  Folded(h, open \cup {id}) /\ (IsNum(n) => Folded(h, open))
<1> DEFINE id == Len(g.leader) + 1
           h == NewClass(g, n)
<1>1. /\ Classes(h) = Classes(g) \cup {id}
      /\ \A c \in Classes(g) :
            h.class[c].nodes = g.class[c].nodes /\ h.class[c].data = g.class[c].data
      /\ h.class[id].nodes = {n} /\ h.class[id].data = NodeData(g, n) /\ id \notin Classes(g)
  <2>1. AddsClass(g, h, n, id)
    BY NewClassParts
  <2> HIDE DEF id, h
  <2> QED BY <2>1 DEF AddsClass
<1>2. IsNum(n) => NodeData(g, n) # None
  <2>1. ASSUME NEW data, IsNum(n) PROVE Make(n, data) # None
    <3>1. n.op = "num" /\ n.val \in Coeff
      BY <2>1, NodeCases DEF IsNum
    <3> QED BY <3>1, ValuesAssumption DEF FoldAnalysis, FoldMake
  <2> QED BY <2>1 DEF NodeData
<1> HIDE DEF id, h
<1>3. \A c \in Classes(g) : HasNum(h, c) <=> HasNum(g, c)
  BY <1>1 DEF HasNum
<1>4. HasNum(h, id) <=> IsNum(n)
  BY <1>1 DEF HasNum
<1>5. ASSUME NEW more, open \subseteq more, id \in more \/ IsNum(n)
      PROVE  Folded(h, more)
  <2> SUFFICES ASSUME NEW c \in Classes(h)
               PROVE  /\ HasNum(h, c) => h.class[c].data # None
                      /\ h.class[c].data # None => HasNum(h, c) \/ c \in more
    BY DEF Folded
  <2>1. CASE c \in Classes(g)
    BY <1>1, <1>3, <1>5, <2>1 DEF Folded
  <2>2. CASE c = id
    BY <1>1, <1>2, <1>4, <1>5, <2>2
  <2> QED BY <1>1, <2>1, <2>2
<1> QED BY <1>5 DEF h, id

LEMMA JoinFolded ==
    ASSUME FoldAnalysis, NEW g, Sound(g), NEW open, Folded(g, open),
           NEW x \in Classes(g), NEW y \in Classes(g), x # y,
           g.class[x].data # None \/ g.class[y].data # None => HasNum(g, x) \/ HasNum(g, y)
    PROVE  Folded(Join(g, x, y), open \ {x, y})
<1> DEFINE h == Join(g, x, y)
<1>1. PICK into \in {x, y}, gone \in {x, y} : into # gone /\ TakesIn(g, h, into, gone)
  BY JoinParts
<1> HIDE DEF h
<1> DEFINE nodes == g.class[into].nodes \cup g.class[gone].nodes
           parents == g.class[into].parents \o g.class[gone].parents
           data == Merge(g.class[into].data, g.class[gone].data).data
<1>2. Classes(h) = Classes(g) \ {gone} /\ \A c \in Classes(h) : c # into => h.class[c] = g.class[c]
  BY <1>1 DEF TakesIn
<1>3. h.class[into] = [nodes |-> nodes, parents |-> parents, data |-> data]
  BY <1>1 DEF TakesIn
<1>4. data # None <=> g.class[x].data # None \/ g.class[y].data # None
  BY <1>1 DEF FoldAnalysis, FoldMerge
<1>5. nodes = g.class[x].nodes \cup g.class[y].nodes
  BY <1>1
<1> HIDE DEF nodes, parents, data
<1>6. h.class[into].nodes = nodes /\ h.class[into].data = data
  BY <1>3
<1>7. HasNum(h, into) <=> HasNum(g, x) \/ HasNum(g, y)
  BY <1>5, <1>6 DEF HasNum
<1>8. ASSUME NEW c \in Classes(h)
      PROVE  /\ HasNum(h, c) => h.class[c].data # None
             /\ h.class[c].data # None => HasNum(h, c) \/ c \in open \ {x, y}
  <2>1. CASE c = into
    <3>1. /\ HasNum(g, x) => g.class[x].data # None
          /\ HasNum(g, y) => g.class[y].data # None
      BY DEF Folded
    <3> QED BY <1>4, <1>6, <1>7, <2>1, <3>1
  <2>2. CASE c # into
    <3>1. c \in Classes(g) /\ c \notin {x, y} /\ h.class[c] = g.class[c]
      BY <1>1, <1>2, <1>8, <2>2
    <3> QED BY <3>1 DEF Folded, HasNum
  <2> QED BY <2>1, <2>2
<1> QED BY <1>8 DEF Folded, h

\* Modify closes the class it is called for.
LEMMA ModifyFolded ==
    ASSUME FoldAnalysis, NEW g, Tidy(g), NEW id \in Ids(g), Folded(g, {Find(g, id)})
    PROVE  Folded(ModifyClass(g, id), {})
<1> DEFINE c == Find(g, id)
           const == g.class[c].data
           n == Num(const)
           leaf == Enter(g, n)
           h == leaf.graph
           other == leaf.id
           x == Find(h, id)
           y == Find(h, other)
<1>0. Sound(g) /\ AnalysisSound
  BY FoldAnalysisSound DEF Tidy
<1>1. Modify(const) = const
  BY DEF FoldAnalysis, FoldModify
<1>2. c \in Classes(g) /\ g.worth[c] = g.worth[id] /\ Exact(const, g.worth[c])
  BY <1>0, SoundIdsOf DEF Sound, SoundClass, Find
<1>3. CASE const = None
  <2>1. ModifyClass(g, id) = g
    BY <1>1, <1>3 DEF ModifyClass
  <2>2. Folded(g, {})
    BY <1>3 DEF Folded
  <2> QED BY <2>1, <2>2
<1>4. CASE const # None
  <2>1. const \in Coeff /\ g.worth[c] = [p \in Points |-> const]
    BY <1>1, <1>2, <1>4 DEF Exact
  <2>2. ModifyClass(g, id) = JoinIds(h, id, other)
    BY <1>1, <1>4 DEF ModifyClass
  <2>3. n \in Nodes(Ids(g)) /\ IsNum(n) /\ NodeWorth(n, g.worth) = [p \in Points |-> const]
    <3>1. n.op = "num"
      BY DEF Num, LeafNode
    <3> QED BY <2>1, <3>1, NumIsNode DEF IsNum
  <2> HIDE DEF n, c, const
  <2>4. Stays(g, h) /\ n \in NodesAt(h, other)
    BY <1>0, <2>3, NumberHoldsExponent, EnterPlaced
  <2>5. Folded(h, {c}) /\ c \in Classes(h) /\ Find(h, id) = c
    <3>1. CASE n \in DOMAIN g.memo
      <4>1. h = g
        BY <3>1 DEF Enter
      <4> HIDE DEF h
      <4> QED BY <1>2, <4>1 DEF c
    <3>2. CASE n \notin DOMAIN g.memo
      <4>1. h = NewClass(g, n)
        BY <3>2 DEF Enter
      <4> HIDE DEF h
      <4>2. Folded(NewClass(g, n), {c})
        BY <1>0, <2>3, NewClassFolded DEF c
      <4>3. /\ Classes(g) \subseteq Classes(NewClass(g, n))
            /\ \A i \in Ids(g) : Find(NewClass(g, n), i) = Find(g, i)
        <5>1. AddsClass(g, NewClass(g, n), n, Len(g.leader) + 1)
          BY <1>0, NewClassParts
        <5> QED BY <5>1 DEF AddsClass
      <4> QED BY <1>2, <4>1, <4>2, <4>3 DEF c
    <3> QED BY <3>1, <3>2
  <2> HIDE DEF h, other
  <2>6. Sound(h) /\ id \in Ids(h) /\ HasNum(h, y) /\ x = c
    BY <2>3, <2>4, <2>5 DEF Stays, Tidy, Extends, HasNum, NodesAt
  <2>7. CASE x = y
    <3>1. JoinIds(h, id, other) = h
      BY <2>7 DEF JoinIds
    <3>2. Folded(h, {})
      BY <2>5, <2>6, <2>7 DEF Folded
    <3> QED BY <2>2, <3>1, <3>2
  <2>8. CASE x # y
    <3>1. JoinIds(h, id, other) = Join(h, x, y)
      BY <2>8 DEF JoinIds
    <3>2. x \in Classes(h) /\ y \in Classes(h)
      <4>1. other \in Ids(h)
        BY <1>0, <2>3, EnterSound DEF h, other
      <4> QED BY <2>5, <2>6, <4>1, SoundIdsOf DEF Find
    <3> HIDE DEF x, y
    <3>3. Folded(Join(h, x, y), {c} \ {x, y})
      BY <2>5, <2>6, <2>8, <3>2, JoinFolded
    <3>4. {c} \ {x, y} = {}
      BY <2>6
    <3> QED BY <2>2, <3>1, <3>3, <3>4
  <2> QED BY <2>7, <2>8
<1> QED BY <1>3, <1>4

LEMMA AddNodeFolded ==
    ASSUME FoldAnalysis, NEW g, Tidy(g), Folded(g, {}), NEW n \in Nodes(Ids(g)), ExponentHeld(g, n)
    PROVE  Folded(AddNode(g, n).graph, {})
<1> DEFINE node == Canonical(g, n)
           id == Len(g.leader) + 1
           new == NewClass(g, node)
           h == ModifyClass(new, id)
<1>1. node \in Nodes(Ids(g)) /\ ExponentHeld(g, node) /\ Sound(g) /\ AnalysisSound
  BY CanonicalWorth, CanonicalInPlace, FoldAnalysisSound DEF Tidy
<1>2. CASE node \in DOMAIN g.memo
  BY <1>2 DEF AddNode, Enter
<1>3. CASE node \notin DOMAIN g.memo
  <2>1. AddNode(g, n).graph = h
    BY <1>3 DEF AddNode
  <2> HIDE DEF node, id, new
  <2>2. Tidy(new) /\ id \in Ids(new)
    BY <1>1, NewClassPlaced DEF Stays, new, id
  <2>3. Folded(new, {} \cup {id}) /\ Find(new, id) = id
    <3>1. Folded(new, {} \cup {id})
      BY <1>1, NewClassFolded DEF new, id
    <3>2. Find(new, id) = id
      BY <1>1, NewClassParts DEF new, id, AddsClass
    <3> QED BY <3>1, <3>2
  <2>4. {} \cup {id} = {Find(new, id)}
    BY <2>3
  <2>5. Folded(h, {})
    BY <2>2, <2>3, <2>4, ModifyFolded
  <2> QED BY <2>1, <2>5
<1> QED BY <1>2, <1>3

LEMMA UnionFolded ==
    ASSUME FoldAnalysis, NEW g, Tidy(g), Folded(g, {}), NEW a \in Ids(g), NEW b \in Ids(g),
           g.worth[a] = g.worth[b]
    PROVE  Folded(Union(g, a, b), {})
<1> DEFINE x == Find(g, a)
           y == Find(g, b)
           h == Join(g, x, y)
<1>1. CASE x = y
  BY <1>1 DEF Union
<1>2. CASE x # y
  <2>1. Union(g, a, b) = ModifyClass(h, a)
    BY <1>2 DEF Union, JoinIds
  <2>2. x \in Classes(g) /\ y \in Classes(g) /\ g.worth[x] = g.worth[y] /\ Sound(g)
    BY SoundIdsOf DEF Tidy, Sound, Find
  <2> HIDE DEF x, y
  <2>3. Stays(g, h)
    BY <1>2, <2>2, JoinPlaced, FoldAnalysisSound
  <2>4. Tidy(h) /\ a \in Ids(h)
    BY <2>3 DEF Stays, Extends
  <2>5. Folded(h, {} \ {x, y})
    <3>1. g.class[x].data # None \/ g.class[y].data # None => HasNum(g, x) \/ HasNum(g, y)
      BY <2>2 DEF Folded
    <3> QED BY <1>2, <2>2, <3>1, JoinFolded
  <2> HIDE DEF h
  <2>6. Folded(h, {})
    <3>1. {} \ {x, y} = {}
      OBVIOUS
    <3> QED BY <2>5, <3>1
  <2>7. Folded(ModifyClass(h, a), {})
    BY <2>4, <2>6, FoldedWeaker, ModifyFolded
  <2> QED BY <2>1, <2>7
<1> QED BY <1>1, <1>2

LEMMA RepairMemoFolded ==
    ASSUME FoldAnalysis, NEW g, Tidy(g), Folded(g, {}), g.pending # <<>>
    PROVE  Folded(RepairMemo(g), {})
<1>1. PICK h : /\ Stays(g, h) /\ Classes(h) = Classes(g) /\ h.class = g.class
               /\ \/ RepairMemo(g) = h
                  \/ \E a, b \in Ids(h) : /\ h.worth[a] = h.worth[b]
                                          /\ RepairMemo(g) = Union(h, a, b)
  BY RepairMemoTidySteps
<1>2. Folded(h, {})
  BY <1>1 DEF Folded, HasNum
<1>3. ASSUME NEW a \in Ids(h), NEW b \in Ids(h), h.worth[a] = h.worth[b]
      PROVE  Folded(Union(h, a, b), {})
  BY <1>1, <1>2, <1>3, UnionFolded DEF Stays
<1> QED BY <1>1, <1>2, <1>3

LEMMA RepairedFolded ==
    ASSUME FoldAnalysis, NEW g, Sound(g), Folded(g, {}), NEW entry \in g.dirty,
           NEW f, Repaired(g, entry, f), NEW open,
           LET id == Find(g, entry[2])
           IN  id \in open \/ ~Merge(g.class[id].data, NodeData(g, entry[1])).changed
    PROVE  Folded(f, open)
<1> DEFINE id == Find(g, entry[2])
           old == g.class[id]
           merged == Merge(old.data, NodeData(g, entry[1]))
<1>1. /\ Classes(f) = Classes(g) /\ id \in Classes(g)
      /\ \A c \in Classes(g) : c # id => f.class[c] = g.class[c]
      /\ f.class[id] = [nodes |-> old.nodes, parents |-> old.parents, data |-> merged.data]
  BY RepairedParts
<1>2. /\ old.data # None => merged.data # None
      /\ ~merged.changed => merged.data = old.data
  BY DEF FoldAnalysis, FoldMerge
<1>3. id \in open \/ ~merged.changed
  OBVIOUS
<1> HIDE DEF id, merged
<1>4. f.class[id].nodes = old.nodes /\ f.class[id].data = merged.data
  BY <1>1
<1>5. ASSUME NEW c \in Classes(g)
      PROVE  /\ HasNum(f, c) => f.class[c].data # None
             /\ f.class[c].data # None => HasNum(f, c) \/ c \in open
  <2>1. CASE c = id
    <3>1. /\ HasNum(f, c) <=> HasNum(g, c)
          /\ HasNum(g, c) <=> old.data # None
      BY <1>4, <1>5, <2>1 DEF HasNum, Folded
    <3> QED BY <1>2, <1>3, <1>4, <2>1, <3>1
  <2>2. CASE c # id
    BY <1>1, <1>5, <2>2 DEF Folded, HasNum
  <2> QED BY <2>1, <2>2
<1> QED BY <1>1, <1>5 DEF Folded

LEMMA RepairDataFolded ==
    ASSUME FoldAnalysis, NEW g, Tidy(g), Folded(g, {}), NEW entry \in g.dirty
    PROVE  Folded(RepairData(g, entry), {})
<1> DEFINE id == Find(g, entry[2])
           merged == Merge(g.class[id].data, NodeData(g, entry[1]))
<1>0. Sound(g)
  BY DEF Tidy
<1>1. PICK h, k : /\ Repaired(g, entry, h) /\ Repaired(g, entry, k)
                  /\ RepairData(g, entry) = IF merged.changed THEN ModifyClass(k, id) ELSE h
  BY <1>0, RepairDataSteps
<1>2. CASE merged.changed
  <2>1. Stays(g, k)
    BY <1>1, RepairedPlaced, FoldAnalysisSound
  <2>2. id \in Classes(g) /\ k.leader = g.leader
    BY <1>0, <1>1, RepairedParts
  <2>3. Tidy(k) /\ id \in Ids(k) /\ Find(k, id) = id
    BY <1>0, <2>1, <2>2 DEF Stays, Extends, Tidy, Placed, Find, Sound
  <2>4. Folded(k, {id})
    BY <1>0, <1>1, RepairedFolded
  <2> HIDE DEF id
  <2>5. Folded(ModifyClass(k, id), {})
    BY <2>3, <2>4, ModifyFolded
  <2> QED BY <1>1, <1>2, <2>5
<1>3. CASE ~merged.changed
  <2>1. Folded(h, {})
    BY <1>0, <1>1, <1>3, RepairedFolded
  <2> QED BY <1>1, <1>3, <2>1
<1> QED BY <1>2, <1>3

LEMMA CanonicalNodesFolded ==
    ASSUME NEW g, Sound(g), Folded(g, {})
    PROVE  Folded(CanonicalNodes(g), {})
<1> DEFINE h == CanonicalNodes(g)
<1>1. /\ Classes(h) = Classes(g)
      /\ \A c \in Classes(g) : /\ h.class[c].nodes = {Canonical(g, n) : n \in g.class[c].nodes}
                               /\ h.class[c].data = g.class[c].data
  BY CanonicalNodesParts
<1> HIDE DEF h
<1>2. \A c \in Classes(g) : HasNum(h, c) <=> HasNum(g, c)
  <2> TAKE c \in Classes(g)
  <2>1. \A n \in g.class[c].nodes : Canonical(g, n).op = n.op
    <3>1. \A n \in g.class[c].nodes : <<n, c>> \in Entries(g)
      BY DEF Sound, SoundClass
    <3> QED BY <3>1, CanonicalWorth DEF Entries
  <2> QED BY <1>1, <2>1 DEF HasNum, IsNum
<1>3. Folded(h, {})
  BY <1>1, <1>2 DEF Folded
<1> QED BY <1>3 DEF h

LEMMA EmptyGraphFolded == Folded(EmptyGraph, {})
<1>1. Classes(EmptyGraph) = {}
  BY DEF EmptyGraph, Classes
<1> QED BY <1>1 DEF Folded

LEMMA FoldedNext ==
    ASSUME FoldAnalysis, SInv, PInv, Folded(graph, {}), [Rewrite \/ HandOver]_runner
    PROVE  Folded(graph, {})'
<1>1. Sound(graph) /\ Tidy(graph)
  BY DEF SInv, PInv, Tidy
<1>2. CASE AddNext
  <2> DEFINE n == Subst(List[Len(ids) - Given + 1], ids)
  <2>1. Adding /\ ~ListDone /\ graph' = AddNode(graph, n).graph
    BY <1>2 DEF AddNext
  <2>2. n \in Nodes(Ids(graph)) /\ ExponentHeld(graph, n)
    BY <2>1, NextNode, NextExponentHeld
  <2> HIDE DEF n
  <2>3. Folded(AddNode(graph, n).graph, {})
    BY <1>1, <2>2, AddNodeFolded
  <2> QED BY <2>1, <2>3 DEF Folded, HasNum, Classes
<1>3. CASE UniteMatch
  <2> DEFINE id == ids[Len(ids)]
             class == match[LhsSize(Rules[rule])]
  <2>1. phase = "instantiate" /\ ListDone /\ graph' = Union(graph, id, class)
    BY <1>3 DEF UniteMatch
  <2>2. id \in Ids(graph) /\ class \in Ids(graph) /\ graph.worth[id] = graph.worth[class]
    BY <2>1, UnitedWorth
  <2> HIDE DEF id, class
  <2>3. Folded(Union(graph, id, class), {})
    BY <1>1, <2>2, UnionFolded
  <2> QED BY <2>1, <2>3 DEF Folded, HasNum, Classes
<1>4. CASE RepairNode
  <2>1. graph.pending # <<>> /\ graph' = RepairMemo(graph)
    BY <1>4 DEF RepairNode
  <2>2. Folded(RepairMemo(graph), {})
    BY <1>1, <2>1, RepairMemoFolded
  <2> QED BY <2>1, <2>2 DEF Folded, HasNum, Classes
<1>5. CASE RepairAnalysis
  <2>1. PICK entry \in graph.dirty : graph' = RepairData(graph, entry)
    BY <1>5 DEF RepairAnalysis
  <2>2. Folded(RepairData(graph, entry), {})
    BY <1>1, RepairDataFolded
  <2> QED BY <2>1, <2>2 DEF Folded, HasNum, Classes
<1>6. CASE Rebuilt
  <2>1. graph' = CanonicalNodes(graph)
    BY <1>6 DEF Rebuilt
  <2>2. Folded(CanonicalNodes(graph), {})
    BY <1>1, CanonicalNodesFolded
  <2> QED BY <2>1, <2>2 DEF Folded, HasNum, Classes
<1>7. CASE \/ Start \/ Search \/ ApplyMatch \/ NextRule \/ LastIteration \/ HandOver
           \/ UNCHANGED runner
  <2>1. graph' = graph
    BY <1>7 DEF Start, Search, ApplyMatch, NextRule, LastIteration, HandOver, runner
  <2> QED BY <2>1 DEF Folded, HasNum, Classes
<1> QED BY <1>2, <1>3, <1>4, <1>5, <1>6, <1>7 DEF Rewrite

\* A number in a sound class is what the class is worth, and tells what the
\* class' constant is.
LEMMA FoldedExact ==
    ASSUME FoldAnalysis, SInv, Folded(graph, {})
    PROVE  ConstantsExact
<1> SUFFICES ASSUME NEW c \in Classes(graph)
             PROVE  LET data == graph.class[c].data
                    IN  /\ data # None => \A p \in Points : graph.worth[c][p] = data
                        /\ {n.val : n \in {n \in graph.class[c].nodes : n.op = "num"}} =
                                (IF data = None THEN {} ELSE {data})
  BY DEF ConstantsExact
<1> DEFINE data == graph.class[c].data
           nums == {n \in graph.class[c].nodes : n.op = "num"}
           vals == {n.val : n \in nums}
<1>1. SoundClass(graph, c)
  BY DEF SInv, Sound
<1>2. data # None => graph.worth[c] = [p \in Points |-> data]
  <2>1. Exact(data, graph.worth[c])
    BY <1>1 DEF SoundClass
  <2> QED BY <2>1 DEF Exact, FoldAnalysis, FoldModify
<1>3. \A n \in nums : graph.worth[c] = [p \in Points |-> n.val]
  <2> TAKE n \in nums
  <2>1. NodeWorth(n, graph.worth) = graph.worth[c]
    BY <1>1 DEF SoundClass, Entries
  <2>2. NodeWorth(n, graph.worth) = [p \in Points |-> n.val]
    BY DEF NodeWorth, ValueOf
  <2> QED BY <2>1, <2>2
<1>4. nums # {} <=> data # None
  BY DEF Folded, HasNum, IsNum
<1> HIDE DEF data, nums
<1>5. CASE data = None
  BY <1>4, <1>5 DEF data, nums
<1>6. CASE data # None
  <2>1. \A p \in Points : graph.worth[c][p] = data
    BY <1>2, <1>6
  <2>2. \A n \in nums : n.val = data
    <3>1. PICK p \in Points : TRUE
      BY PointsAssumption
    <3>2. \A n \in nums : graph.worth[c][p] = n.val
      BY <1>3, <3>1
    <3> QED BY <2>1, <3>1, <3>2
  <2>3. vals = {data}
    BY <1>4, <1>6, <2>2
  <2> QED BY <1>6, <2>1, <2>3 DEF data, nums
<1> QED BY <1>5, <1>6

\* Constant folding is exact in every graph that simplify_algebra reaches: no
\* class gets two constants, merge loses none, and what modify has added stays.
THEOREM FoldingExact == FoldAnalysis => (SaturationSpec => []ConstantsExact)
<1> SUFFICES ASSUME FoldAnalysis PROVE SaturationSpec => []ConstantsExact
  OBVIOUS
<1> DEFINE Inv == SInv /\ PInv /\ Folded(graph, {})
<1>1. RunnerInit => Inv
  BY SInvInit, PInvInit, EmptyGraphFolded DEF RunnerInit
<1>2. Inv /\ [Rewrite \/ HandOver]_runner => Inv'
  BY SInvNext, PInvNext, FoldAnalysisSound, FoldedNext
<1>3. Inv => ConstantsExact
  BY FoldedExact
<1> QED BY <1>1, <1>2, <1>3, PTL DEF SaturationSpec
=============================================================================
