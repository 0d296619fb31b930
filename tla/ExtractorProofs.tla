--------------------------- MODULE ExtractorProofs ---------------------------
(***************************************************************************)
(* Extraction for every e-graph, every visiting order and every tie hash:  *)
(* recorded costs fall along recorded nodes, penalties are exact, and a    *)
(* class with a number is extracted as a number.                           *)
(***************************************************************************)
EXTENDS Extractor, NaturalLemmas, FiniteSetTheorems

\* Class c has nothing to gain from the costs recorded so far.
Stable(c) ==
    \A n \in Priced(c) : c \in DOMAIN costs /\ ~Less(Cost(c, n), costs[c].cost)

Visited == {order[i] : i \in 1 .. at - 1}

\* What the relaxation knows about its graph, its order and its stack.
Shape ==
    /\ egraph \in EGraphs
    /\ order \in [1 .. Cardinality(Classes) -> Classes]
    /\ {order[i] : i \in DOMAIN order} = Classes
    /\ changed \in BOOLEAN
    /\ status \in {"relax", "panic"} => built = {}
    /\ built \subseteq DOMAIN costs
    /\ status = "build" => todo \in Seq(DOMAIN costs)

\* A recorded penalty is at least the class' own, and within reach; a recorded
\* size counts a node.
CostSound ==
    \A c \in DOMAIN costs :
        /\ 1 <= costs[c].cost.size
        /\ LocalPenalty(c) <= costs[c].cost.penalty
        /\ Within(c, costs[c].cost.penalty)

\* The classes visited since the last change are stable, in the end all.
Settled ==
    /\ status = "relax" /\ ~changed => \A c \in Visited : Stable(c)
    /\ status # "relax" => \A c \in Classes : Stable(c)

\* The inductive invariant.
IInv == Shape /\ TypeOK /\ BestDescends /\ CostSound /\ Settled /\ NumbersStay

-----------------------------------------------------------------------------
(* The cost function *)

\* What the assumption says about the nodes of a graph of Extractor.
LEMMA GraphNodes ==
    ASSUME egraph \in EGraphs, NEW c \in Classes, NEW n \in egraph.nodes[c]
    PROVE  IsNode(n, Classes) /\ Children(n) \subseteq Classes
<1>1. IsNode(n, Classes)
  BY EGraphAssumption DEF Classes, GoodGraph
<1> QED BY <1>1 DEF IsNode, Children

\* penalty_from_fingerprint returns one of the penalties, or zero.
LEMMA LocalPenaltyType ==
    ASSUME egraph \in EGraphs, NEW c \in Classes
    PROVE  LocalPenalty(c) \in Nat
<1> DEFINE fp == egraph.fingerprint[c]
           S == {0} \cup {WeightPenalty(o) : o \in fp.weights}
           b == UnknownPenalty + NonIntegrablePenalty
<1>1. /\ fp.kind \in {"ByWeight", "Unknown", "Conflict"}
      /\ fp.weights \subseteq {"Integrable", "NonIntegrable", "Unknown"}
  BY EGraphAssumption DEF Classes, GoodGraph, FingerprintKinds, WeightOutcomes
<1>2. UnknownPenalty \in Nat /\ NonIntegrablePenalty \in Nat /\ ConflictPenalty \in Nat
  BY EGraphAssumption
<1>3. \A o \in fp.weights : WeightPenalty(o) \in 0 .. b
  BY <1>1, <1>2 DEF WeightPenalty
<1>4. Max(S) \in S
  <2>1. S \subseteq 0 .. b /\ S # {} /\ b \in Nat
    BY <1>2, <1>3
  <2> HIDE DEF S, b
  <2> QED BY <2>1, LargestElement
<1>5. Max(S) \in Nat
  BY <1>2, <1>3, <1>4
<1>6. Penalty(fp) \in Nat
  BY <1>1, <1>2, <1>5 DEF Penalty
<1> QED BY <1>6 DEF LocalPenalty

\* The cost of a node: it has the largest penalty of the class and the
\* children, and is larger than each child.
LEMMA CostBounds ==
    ASSUME egraph \in EGraphs, TypeOK, NEW c \in Classes, NEW n \in Priced(c)
    PROVE  /\ Cost(c, n) \in [penalty : Nat, size : Nat, tie : Ties]
           /\ LocalPenalty(c) <= Cost(c, n).penalty
           /\ \/ Cost(c, n).penalty = LocalPenalty(c)
              \/ \E d \in Children(n) : Cost(c, n).penalty = costs[d].cost.penalty
           /\ \A d \in Children(n) : /\ costs[d].cost.penalty <= Cost(c, n).penalty
                                     /\ costs[d].cost.size < Cost(c, n).size
           /\ Cost(c, n).size >= 1
           /\ n.op \in Leaves => Cost(c, n).size = 1 /\ Cost(c, n).penalty = LocalPenalty(c)
<1> DEFINE P == {LocalPenalty(c)} \cup {costs[d].cost.penalty : d \in Children(n)}
           ties == [i \in DOMAIN n.children |-> costs[n.children[i]].cost.tie]
<1>1. n \in egraph.nodes[c] /\ Children(n) \subseteq DOMAIN costs
  BY DEF Priced
<1>2. IsNode(n, Classes)
  BY <1>1, GraphNodes
<1>3. LocalPenalty(c) \in Nat
  BY LocalPenaltyType
<1>4. \A d \in Children(n) : costs[d].cost \in [penalty : Nat, size : Nat, tie : Ties]
  BY <1>1 DEF TypeOK
<1>5. \A i \in DOMAIN n.children : n.children[i] \in Children(n)
  BY DEF Children
<1>6. Max(P) \in P /\ \A x \in P : x <= Max(P)
  <2>1. \E b \in Nat : P \subseteq 0 .. b
    <3>1. CASE n.op \in Leaves
      <4>1. Children(n) = {}
        BY <1>2, <3>1 DEF IsNode, Leaves, Unary, Binary, Children
      <4> QED BY <1>3, <4>1
    <3>2. CASE n.op \in Unary
      <4>1. Children(n) = {n.children[1]}
        BY <1>2, <3>2 DEF IsNode, Leaves, Unary, Binary, Children
      <4>2. costs[n.children[1]].cost.penalty \in Nat
        BY <4>1, <1>4
      <4>3. P \subseteq 0 .. (LocalPenalty(c) + costs[n.children[1]].cost.penalty)
        BY <1>3, <4>1, <4>2
      <4> QED BY <1>3, <4>2, <4>3
    <3>3. CASE n.op \in Binary
      <4>1. Children(n) = {n.children[1], n.children[2]}
        BY <1>2, <3>3 DEF IsNode, Leaves, Unary, Binary, Children
      <4>2. costs[n.children[1]].cost.penalty \in Nat /\ costs[n.children[2]].cost.penalty \in Nat
        BY <4>1, <1>4
      <4>3. P \subseteq 0 .. (LocalPenalty(c) + costs[n.children[1]].cost.penalty
                                              + costs[n.children[2]].cost.penalty)
        BY <1>3, <4>1, <4>2
      <4> QED BY <1>3, <4>2, <4>3
    <3> QED BY <1>2, <3>1, <3>2, <3>3 DEF IsNode
  <2>2. PICK b \in Nat : P \subseteq 0 .. b
    BY <2>1
  <2>3. P # {}
    OBVIOUS
  <2> HIDE DEF P
  <2> QED BY <2>2, <2>3, LargestElement
<1>7. Max(P) \in Nat
  BY <1>3, <1>4, <1>6
<1>8. ChildSize(n) \in Nat /\ \A d \in Children(n) : costs[d].cost.size <= ChildSize(n)
  <2>1. CASE n.op \in Leaves
    BY <1>2, <2>1 DEF IsNode, Leaves, Unary, Binary, Children, ChildSize
  <2>2. CASE n.op \in Unary
    <3>1. Children(n) = {n.children[1]} /\ n.children # <<>> /\ n.op \notin Binary
      BY <1>2, <2>2 DEF IsNode, Leaves, Unary, Binary, Children
    <3>2. ChildSize(n) = costs[n.children[1]].cost.size
      BY <3>1, <2>2 DEF ChildSize
    <3> QED BY <1>4, <3>1, <3>2
  <2>3. CASE n.op \in Binary
    <3>1. Children(n) = {n.children[1], n.children[2]} /\ n.children # <<>> /\ n.op \notin Unary
      BY <1>2, <2>3 DEF IsNode, Leaves, Unary, Binary, Children
    <3>2. ChildSize(n) = costs[n.children[1]].cost.size + costs[n.children[2]].cost.size
      BY <3>1, <2>3 DEF ChildSize
    <3> QED BY <1>4, <3>1, <3>2
  <2> QED BY <1>2, <2>1, <2>2, <2>3 DEF IsNode
<1>9. TieHash(n.op, ties) \in Ties
  <2>1. CASE n.op \in Leaves
    <3>1. ties = <<>>
      BY <1>2, <2>1 DEF IsNode, Leaves, Unary, Binary
    <3> QED BY <2>1, <3>1, EGraphAssumption
  <2>2. CASE n.op \in Unary
    <3>1. DOMAIN n.children = 1 .. 1
      BY <1>2, <2>2 DEF IsNode, Leaves, Unary, Binary
    <3>2. ties = <<costs[n.children[1]].cost.tie>>
      BY <3>1
    <3>3. costs[n.children[1]].cost.tie \in Ties
      BY <1>4, <1>5, <3>1
    <3> HIDE DEF ties
    <3> QED BY <2>2, <3>2, <3>3, EGraphAssumption
  <2>3. CASE n.op \in Binary
    <3>1. DOMAIN n.children = 1 .. 2
      BY <1>2, <2>3 DEF IsNode, Leaves, Unary, Binary
    <3>2. ties = <<costs[n.children[1]].cost.tie, costs[n.children[2]].cost.tie>>
      BY <3>1
    <3>3. costs[n.children[1]].cost.tie \in Ties /\ costs[n.children[2]].cost.tie \in Ties
      BY <1>4, <1>5, <3>1
    <3> HIDE DEF ties
    <3> QED BY <2>3, <3>2, <3>3, EGraphAssumption
  <2> QED BY <1>2, <2>1, <2>2, <2>3 DEF IsNode
<1>10. Cost(c, n) = [penalty |-> Max(P), size |-> 1 + ChildSize(n), tie |-> TieHash(n.op, ties)]
  BY DEF Cost
<1>11. n.op \in Leaves => ChildSize(n) = 0 /\ Max(P) = LocalPenalty(c)
  <2> SUFFICES ASSUME n.op \in Leaves PROVE ChildSize(n) = 0 /\ Max(P) = LocalPenalty(c)
    OBVIOUS
  <2>1. Children(n) = {} /\ n.children = <<>>
    BY <1>2 DEF IsNode, Leaves, Unary, Binary, Children
  <2>2. P = {LocalPenalty(c)}
    BY <2>1
  <2>3. Max(P) = LocalPenalty(c)
    <3> HIDE DEF P
    <3> QED BY <2>2, <1>6
  <2>4. ChildSize(n) = 0
    BY <2>1 DEF ChildSize, Leaves, Unary, Binary
  <2> QED BY <2>3, <2>4
<1> HIDE DEF ties
<1>12. Max(P) = LocalPenalty(c) \/ \E d \in Children(n) : Max(P) = costs[d].cost.penalty
  BY <1>6
<1>13. LocalPenalty(c) <= Max(P) /\ \A d \in Children(n) : costs[d].cost.penalty <= Max(P)
  BY <1>6
<1>14. \A d \in Children(n) : costs[d].cost.size \in Nat
  BY <1>4
<1> HIDE DEF P
<1> QED BY <1>7, <1>8, <1>9, <1>10, <1>11, <1>12, <1>13, <1>14

\* Less is a strict total order on costs.
LEMMA LessOrder ==
    ASSUME NEW x \in [penalty : Nat, size : Nat, tie : Ties],
           NEW y \in [penalty : Nat, size : Nat, tie : Ties],
           NEW z \in [penalty : Nat, size : Nat, tie : Ties]
    PROVE  /\ ~Less(x, x)
           /\ Less(x, y) /\ Less(y, z) => Less(x, z)
           /\ ~Less(x, y) /\ ~Less(y, z) => ~Less(x, z)
<1>1. /\ x.penalty \in Nat /\ y.penalty \in Nat /\ z.penalty \in Nat
      /\ x.size \in Nat /\ y.size \in Nat /\ z.size \in Nat
      /\ x.tie \in Nat /\ y.tie \in Nat /\ z.tie \in Nat
  BY EGraphAssumption
<1> QED BY <1>1 DEF Less

\* Any nonempty choice of nodes has a cheapest one.
LEMMA CheapestExists ==
    ASSUME egraph \in EGraphs, TypeOK, NEW c \in Classes, Priced(c) # {}
    PROVE  Cheapest(c) # {}
<1> DEFINE K(n) == Cost(c, n)
<1>1. \A n \in Priced(c) : /\ K(n).penalty \in Nat /\ K(n).size \in Nat /\ K(n).tie \in Nat
  BY CostBounds, EGraphAssumption
<1> HIDE DEF K
<1> DEFINE A == Priced(c)
           P == {K(n).penalty : n \in A}
<1>2. PICK p \in P : \A x \in P : p <= x
  <2>1. P \subseteq Nat /\ P # {}
    BY <1>1
  <2> HIDE DEF P
  <2> QED BY <2>1, SmallestElement
<1> DEFINE B == {n \in A : K(n).penalty = p}
           S == {K(n).size : n \in B}
<1>3. PICK q \in S : \A x \in S : q <= x
  <2>1. S \subseteq Nat /\ S # {}
    BY <1>1, <1>2
  <2> HIDE DEF S
  <2> QED BY <2>1, SmallestElement
<1> DEFINE C == {n \in B : K(n).size = q}
           T == {K(n).tie : n \in C}
<1>4. PICK r \in T : \A x \in T : r <= x
  <2>1. T \subseteq Nat /\ T # {}
    BY <1>1, <1>3
  <2> HIDE DEF T
  <2> QED BY <2>1, SmallestElement
<1>5. PICK n \in C : K(n).tie = r
  BY <1>4
<1>6. \A m \in A : ~Less(K(m), K(n))
  <2> TAKE m \in A
  <2>1. n \in A /\ K(n).penalty = p /\ K(n).size = q /\ K(n).tie = r
    BY <1>5
  <2>2. p <= K(m).penalty
    BY <1>2
  <2>3. K(m).penalty = p => q <= K(m).size
    BY <1>3
  <2>4. K(m).penalty = p /\ K(m).size = q => r <= K(m).tie
    BY <1>4
  <2> QED BY <1>1, <2>1, <2>2, <2>3, <2>4 DEF Less
<1>7. n \in A
  BY <1>5
<1>8. \A m \in Priced(c) : ~Less(Cost(c, m), Cost(c, n))
  BY <1>6 DEF K
<1> QED BY <1>7, <1>8 DEF Cheapest

\* A node is not cheaper than the class once the cheapest is not.
LEMMA KeepStable ==
    ASSUME egraph \in EGraphs, TypeOK, NEW c \in Classes,
           \A n \in Cheapest(c) : ~Improves(c, n)
    PROVE  Stable(c)
<1> SUFFICES ASSUME NEW n \in Priced(c)
             PROVE  c \in DOMAIN costs /\ ~Less(Cost(c, n), costs[c].cost)
  BY DEF Stable
<1>1. PICK m \in Cheapest(c) : TRUE
  BY CheapestExists
<1>2. m \in Priced(c) /\ ~Less(Cost(c, n), Cost(c, m))
  BY DEF Cheapest
<1>3. c \in DOMAIN costs /\ ~Less(Cost(c, m), costs[c].cost)
  BY <1>1 DEF Improves
<1>4. costs[c].cost \in [penalty : Nat, size : Nat, tie : Ties]
  BY <1>3 DEF TypeOK
<1>5. Cost(c, n) \in [penalty : Nat, size : Nat, tie : Ties]
  BY CostBounds
<1>6. Cost(c, m) \in [penalty : Nat, size : Nat, tie : Ties]
  BY <1>2, CostBounds
<1> QED BY <1>2, <1>3, <1>4, <1>5, <1>6, LessOrder

-----------------------------------------------------------------------------
(* Reachable penalties *)

\* A set closed under a penalty is closed under every smaller one.
LEMMA ClosedBelow ==
    ASSUME egraph \in EGraphs, NEW S, NEW p \in Nat, NEW q \in Nat, q <= p, Closed(S, p)
    PROVE  Closed(S, q)
<1> SUFFICES ASSUME NEW c \in Classes, LocalPenalty(c) <= q,
                    \E n \in egraph.nodes[c] : Children(n) \subseteq S
             PROVE  c \in S
  BY DEF Closed
<1>1. LocalPenalty(c) <= p
  BY LocalPenaltyType
<1> QED BY <1>1 DEF Closed

\* Whatever the children of a node reach, its class reaches at its cost.
LEMMA CostWithin ==
    ASSUME egraph \in EGraphs, TypeOK, CostSound,
           NEW c \in Classes, NEW n \in Priced(c)
    PROVE  Within(c, Cost(c, n).penalty)
<1> DEFINE p == Cost(c, n).penalty
<1>1. p \in Nat /\ LocalPenalty(c) <= p
  BY CostBounds
<1>2. \A d \in Children(n) : costs[d].cost.penalty <= p
  BY CostBounds
<1> HIDE DEF p
<1> SUFFICES ASSUME NEW S \in SUBSET Classes, Closed(S, p)
             PROVE  c \in S
  BY DEF Within, p
<1>3. \A d \in Children(n) : d \in S
  <2> TAKE d \in Children(n)
  <2>1. d \in DOMAIN costs
    BY DEF Priced
  <2>2. costs[d].cost.penalty \in Nat
    BY <2>1 DEF TypeOK
  <2>3. Closed(S, costs[d].cost.penalty)
    BY <1>1, <1>2, <2>2, ClosedBelow
  <2> QED BY <2>1, <2>3 DEF CostSound, Within
<1>4. n \in egraph.nodes[c]
  BY DEF Priced
<1> QED BY <1>1, <1>3, <1>4 DEF Closed

\* Once all classes are stable the recorded penalties are least.
LEMMA StableIsLeast ==
    ASSUME egraph \in EGraphs, TypeOK, \A c \in Classes : Stable(c),
           NEW d \in Classes, NEW p \in Nat, Within(d, p)
    PROVE  d \in DOMAIN costs /\ costs[d].cost.penalty <= p
<1> DEFINE S == {c \in DOMAIN costs : costs[c].cost.penalty <= p}
<1>1. Closed(S, p)
  <2> SUFFICES ASSUME NEW c \in Classes, LocalPenalty(c) <= p,
                      NEW n \in egraph.nodes[c], Children(n) \subseteq S
               PROVE  c \in S
    BY DEF Closed
  <2>1. n \in Priced(c)
    BY DEF Priced
  <2>2. c \in DOMAIN costs /\ ~Less(Cost(c, n), costs[c].cost)
    BY <2>1 DEF Stable
  <2>3. Cost(c, n).penalty \in Nat /\ costs[c].cost.penalty \in Nat
    BY <2>1, <2>2, CostBounds DEF TypeOK
  <2>4. costs[c].cost.penalty <= Cost(c, n).penalty
    BY <2>2, <2>3 DEF Less
  <2>5. Cost(c, n).penalty <= p
    BY <2>1, CostBounds
  <2> QED BY <2>2, <2>3, <2>4, <2>5
<1>2. S \in SUBSET Classes
  BY DEF TypeOK
<1>3. d \in S
  BY <1>1, <1>2 DEF Within
<1> QED BY <1>3

-----------------------------------------------------------------------------
(* The invariant *)

\* The extraction starts with nothing recorded.
LEMMA InitIInv == Init => IInv
<1> SUFFICES ASSUME Init PROVE IInv
  OBVIOUS
<1>1. IsFiniteSet(Classes)
  BY EGraphAssumption DEF Init, Classes, GoodGraph
<1>2. Cardinality(Classes) \in Nat
  BY <1>1, FS_CardinalityType
<1>3. Len(order) = Cardinality(Classes) /\ DOMAIN order = 1 .. Cardinality(Classes)
  BY <1>2 DEF Init
<1>4. Shape
  BY <1>3 DEF Init, Shape
<1>5. TypeOK
  BY <1>2, <1>3 DEF Init, TypeOK
<1>6. Settled
  <2>1. Visited = {}
    BY DEF Init, Visited
  <2> QED BY <2>1 DEF Init, Settled
<1> QED BY <1>4, <1>5, <1>6 DEF Init, IInv, BestDescends, CostSound, NumbersStay

\* The order of the pass covers the classes.
LEMMA OrderCovers ==
    ASSUME Shape
    PROVE  /\ Len(order) \in Nat /\ DOMAIN order = 1 .. Len(order)
           /\ \A i \in 1 .. Len(order) : order[i] \in Classes
           /\ \A c \in Classes : \E i \in 1 .. Len(order) : order[i] = c
<1>1. IsFiniteSet(Classes)
  BY EGraphAssumption DEF Shape, Classes, GoodGraph
<1>2. Cardinality(Classes) \in Nat
  BY <1>1, FS_CardinalityType
<1>3. Len(order) = Cardinality(Classes) /\ DOMAIN order = 1 .. Cardinality(Classes)
  BY <1>2 DEF Shape
<1> QED BY <1>2, <1>3 DEF Shape

\* What depends on the graph alone stays as it is.
LEMMA GraphFixed ==
    ASSUME egraph' = egraph
    PROVE  /\ Classes' = Classes
           /\ \A c : LocalPenalty(c)' = LocalPenalty(c)
           /\ \A c, p : Within(c, p) => Within(c, p)'
<1>1. Classes' = Classes
  BY DEF Classes
<1>2. \A c : LocalPenalty(c)' = LocalPenalty(c)
  BY DEF LocalPenalty
<1>3. \A S, p : Closed(S, p)' <=> Closed(S, p)
  BY <1>1, <1>2 DEF Closed
<1>4. \A c, p : Within(c, p) => Within(c, p)'
  BY <1>1, <1>3 DEF Within
<1> QED BY <1>1, <1>2, <1>4

\* A class gets a lower cost.
LEMMA ImproveIInv ==
    ASSUME IInv, Improve
    PROVE  IInv'
<1> DEFINE k == order[at]
<1>1. PICK n \in Cheapest(k) :
        /\ Improves(k, n)
        /\ costs' = [c \in DOMAIN costs \cup {k} |->
                        IF c = k THEN [cost |-> Cost(k, n), node |-> n] ELSE costs[c]]
  BY DEF Improve
<1>2. /\ status = "relax" /\ at \in 1 .. Len(order) /\ changed' = TRUE /\ at' = at + 1
      /\ egraph' = egraph /\ order' = order /\ status' = status
      /\ todo' = todo /\ built' = built
  BY OrderCovers DEF Improve, IInv, TypeOK
<1>3. k \in Classes
  BY <1>2, OrderCovers DEF IInv
<1>4. n \in Priced(k) /\ \A m \in Priced(k) : ~Less(Cost(k, m), Cost(k, n))
  BY DEF Cheapest
<1>5. Cost(k, n) \in [penalty : Nat, size : Nat, tie : Ties]
  BY <1>3, <1>4, CostBounds DEF IInv, Shape
<1>6. egraph \in EGraphs /\ TypeOK /\ CostSound /\ BestDescends
  BY DEF IInv, Shape
<1> DEFINE old == costs[k].cost
           new == Cost(k, n)
<1>7. k \in DOMAIN costs =>
        Less(new, old) /\ old \in [penalty : Nat, size : Nat, tie : Ties]
  BY <1>1, <1>6 DEF Improves, TypeOK
<1>8. \A d \in Children(n) : Less(costs[d].cost, new)
  <2> TAKE d \in Children(n)
  <2>1. costs[d].cost \in [penalty : Nat, size : Nat, tie : Ties]
    BY <1>4, <1>6 DEF TypeOK, Priced
  <2>2. costs[d].cost.penalty <= new.penalty /\ costs[d].cost.size < new.size
    BY <1>3, <1>4, <1>6, CostBounds
  <2> QED BY <1>5, <2>1, <2>2 DEF Less
<1>9. k \notin Children(n)
  <2> SUFFICES ASSUME k \in Children(n) PROVE FALSE
    OBVIOUS
  <2>1. k \in DOMAIN costs
    BY <1>4 DEF Priced
  <2>2. Less(old, new)
    BY <1>8
  <2> HIDE DEF old, new, k
  <2>3. Less(new, new)
    BY <1>5, <1>7, <2>1, <2>2, LessOrder DEF new
  <2> QED BY <1>5, <2>3, LessOrder DEF new
<1>10. /\ DOMAIN costs' = DOMAIN costs \cup {k}
       /\ costs'[k].cost = new /\ costs'[k].node = n
       /\ \A c \in DOMAIN costs : c # k => costs'[c] = costs[c]
  BY <1>1
<1>11. \A c : Priced(c) \subseteq Priced(c)'
  BY <1>2, <1>10 DEF Priced
<1>12. Classes' = Classes
  BY <1>2, GraphFixed
<1>13. TypeOK'
  <2>1. \A c \in DOMAIN costs' :
          /\ costs'[c].cost \in [penalty : Nat, size : Nat, tie : Ties]
          /\ costs'[c].node \in Priced(c)'
    <3> TAKE c \in DOMAIN costs'
    <3>1. CASE c = k
      BY <3>1, <1>4, <1>5, <1>10, <1>11
    <3>2. CASE c # k
      BY <3>2, <1>6, <1>10, <1>11 DEF TypeOK
    <3> QED BY <3>1, <3>2
  <2>2. DOMAIN costs' \subseteq Classes'
    BY <1>3, <1>6, <1>10, <1>12 DEF TypeOK
  <2>3. at' \in 1 .. Len(order') + 1
    BY <1>2, OrderCovers DEF IInv
  <2> QED BY <2>1, <2>2, <2>3, <1>2, <1>6 DEF TypeOK
<1>14. BestDescends'
  <2> SUFFICES ASSUME NEW c \in DOMAIN costs', NEW d \in Children(costs'[c].node)
               PROVE  Less(costs'[d].cost, costs'[c].cost)
    BY DEF BestDescends, BestChildren
  <2>1. CASE c = k
    <3>1. d \in Children(n) /\ d # k /\ d \in DOMAIN costs
      BY <2>1, <1>4, <1>9, <1>10 DEF Priced
    <3> QED BY <3>1, <2>1, <1>8, <1>10
  <2>2. CASE c # k
    <3>1. c \in DOMAIN costs /\ costs'[c] = costs[c]
      BY <2>2, <1>10
    <3>2. d \in Children(costs[c].node) /\ d \in DOMAIN costs
      BY <3>1, <1>6 DEF TypeOK, Priced
    <3>3. Less(costs[d].cost, costs[c].cost)
      BY <3>1, <3>2, <1>6 DEF BestDescends, BestChildren
    <3>4. CASE d = k
      <4>1. Less(new, old) /\ Less(old, costs[c].cost) /\ costs'[d].cost = new
        BY <3>2, <3>3, <3>4, <1>7, <1>10
      <4>2. costs[c].cost \in [penalty : Nat, size : Nat, tie : Ties]
        BY <3>1, <1>6 DEF TypeOK
      <4>3. old \in [penalty : Nat, size : Nat, tie : Ties]
        BY <3>2, <3>4, <1>7
      <4> HIDE DEF old, new
      <4>4. Less(new, costs[c].cost)
        BY <4>1, <4>2, <4>3, <1>5, LessOrder DEF new
      <4> QED BY <3>1, <4>1, <4>4
    <3>5. CASE d # k
      BY <3>1, <3>2, <3>3, <3>5, <1>10
    <3> QED BY <3>4, <3>5
  <2> QED BY <2>1, <2>2
<1>15. CostSound'
  <2>1. 1 <= new.size /\ LocalPenalty(k) <= new.penalty /\ Within(k, new.penalty)
    BY <1>3, <1>4, <1>6, CostBounds, CostWithin
  <2>2. \A c : LocalPenalty(c)' = LocalPenalty(c)
    BY <1>2, GraphFixed
  <2> HIDE DEF new, k
  <2>4. \A c \in DOMAIN costs' :
          /\ 1 <= costs'[c].cost.size
          /\ LocalPenalty(c) <= costs'[c].cost.penalty
          /\ Within(c, costs'[c].cost.penalty)
    BY <2>1, <1>6, <1>10 DEF CostSound
  <2>5. \A c \in DOMAIN costs' : Within(c, costs[c].cost.penalty)'
    BY <2>4, <1>2, <1>12 DEF Within, Closed, LocalPenalty
  <2>6. \A c \in DOMAIN costs' : LocalPenalty(c)' <= costs'[c].cost.penalty
    BY <2>2, <2>4
  <2> QED BY <2>4, <2>5, <2>6 DEF CostSound
<1>16. NumbersStay'
  <2>1. (\E m \in egraph.nodes[k] : m.op = "num") => n.op = "num"
    <3> SUFFICES ASSUME NEW m \in egraph.nodes[k], m.op = "num", n.op # "num"
                 PROVE  FALSE
      OBVIOUS
    <3>1. n \in egraph.nodes[k]
      BY <1>4 DEF Priced
    <3>2. m.op \in Leaves /\ n.op \notin {"frac", "var"}
      BY <3>1, <1>3, <1>6, EGraphAssumption DEF Leaves, Classes, GoodGraph
    <3>3. IsNode(m, Classes) /\ IsNode(n, Classes)
      BY <3>1, <1>3, <1>6, GraphNodes
    <3>4. Children(m) = {}
      BY <3>2, <3>3 DEF IsNode, Leaves, Unary, Binary, Children
    <3>5. m \in Priced(k)
      BY <3>4 DEF Priced
    <3>6. Cost(k, m).size = 1 /\ Cost(k, m).penalty = LocalPenalty(k)
      BY <3>2, <3>5, <1>3, <1>6, CostBounds
    <3>7. PICK d \in Children(n) : TRUE
      <4>1. 1 \in DOMAIN n.children
        BY <3>2, <3>3 DEF IsNode, Leaves
      <4> QED BY <4>1 DEF Children
    <3>8. costs[d].cost.size \in Nat
      BY <1>4, <1>6 DEF TypeOK, Priced
    <3>9. costs[d].cost.size < new.size /\ LocalPenalty(k) <= new.penalty
      BY <1>3, <1>4, <1>6, CostBounds
    <3>10. costs[d].cost.size >= 1
      <4>1. d \in DOMAIN costs
        BY <1>4 DEF Priced
      <4> QED BY <4>1, <1>6 DEF CostSound
    <3>11. LocalPenalty(k) \in Nat
      BY <1>3, <1>6, LocalPenaltyType
    <3>12. Less(Cost(k, m), new)
      BY <3>6, <3>8, <3>9, <3>10, <3>11, <1>5 DEF Less
    <3> QED BY <3>5, <3>12, <1>4
  <2>2. \A c \in DOMAIN costs :
          (\E m \in egraph.nodes[c] : m.op = "num") => costs[c].node.op = "num"
    BY DEF IInv, NumbersStay
  <2>3. \A c \in DOMAIN costs' :
          (\E m \in egraph.nodes[c] : m.op = "num") => costs'[c].node.op = "num"
    <3> HIDE DEF k, new
    <3> QED BY <2>1, <2>2, <1>10
  <2>4. status' # "InvalidExponent"
    BY <1>2
  <2> QED BY <2>3, <2>4, <1>2 DEF NumbersStay
<1>17. Shape'
  BY <1>2, <1>10, <1>12 DEF IInv, Shape
<1>18. Settled'
  BY <1>2 DEF Settled
<1> QED BY <1>13, <1>14, <1>15, <1>16, <1>17, <1>18 DEF IInv

\* What depends on the graph and the costs alone.
CostPart ==
    /\ DOMAIN costs \subseteq Classes
    /\ \A c \in DOMAIN costs :
        /\ costs[c].cost \in [penalty : Nat, size : Nat, tie : Ties]
        /\ costs[c].node \in Priced(c)
    /\ BestDescends
    /\ CostSound
    /\ \A c \in DOMAIN costs :
        (\E n \in egraph.nodes[c] : n.op = "num") => costs[c].node.op = "num"

\* The steps that record nothing leave it as it is.
LEMMA CostsKept ==
    ASSUME UNCHANGED <<egraph, costs>>
    PROVE  /\ CostPart => CostPart'
           /\ Classes' = Classes
           /\ \A c : Stable(c)' <=> Stable(c)
<1>1. Classes' = Classes
  BY DEF Classes
<1>2. \A c : Priced(c)' = Priced(c)
  BY DEF Priced
<1>3. \A c, n : Cost(c, n)' = Cost(c, n)
  BY DEF Cost, LocalPenalty, ChildSize
<1>4. \A c : Stable(c)' <=> Stable(c)
  BY <1>2, <1>3 DEF Stable
<1>5. CostPart => CostPart'
  <2>1. BestDescends => BestDescends'
    BY DEF BestDescends, BestChildren
  <2>2. CostSound => CostSound'
    BY <1>1 DEF CostSound, Within, Closed, LocalPenalty
  <2> QED BY <1>1, <1>2, <2>1, <2>2 DEF CostPart
<1> QED BY <1>1, <1>4, <1>5

\* Every step keeps the invariant.
LEMMA StepIInv == IInv /\ [Next]_vars => IInv'
<1> SUFFICES ASSUME IInv, [Next]_vars PROVE IInv'
  OBVIOUS
<1>1. CASE Improve
  BY <1>1, ImproveIInv
<1>2. CASE ~Improve
  <2>1. UNCHANGED <<egraph, order, costs>>
    BY <1>2 DEF Next, Step, Keep, NextPass, FindBest, Pop, Push, Build, Lift, Returned, vars
  <2>2. /\ CostPart' /\ Classes' = Classes
        /\ \A c : Stable(c)' <=> Stable(c)
    BY <2>1, CostsKept DEF IInv, CostPart, TypeOK, NumbersStay
  <2>3. /\ Len(order) \in Nat /\ DOMAIN order = 1 .. Len(order)
        /\ \A i \in 1 .. Len(order) : order[i] \in Classes
        /\ \A c \in Classes : \E i \in 1 .. Len(order) : order[i] = c
    BY OrderCovers DEF IInv
  <2>4. SUFFICES /\ status' \in {"relax", "build"} \cup Ended
                 /\ at' \in 1 .. Len(order) + 1
                 /\ changed' \in BOOLEAN
                 /\ status' \in {"relax", "panic"} => built' = {}
                 /\ built' \subseteq DOMAIN costs
                 /\ status' = "build" => todo' \in Seq(DOMAIN costs)
                 /\ status' # "InvalidExponent"
                 /\ status' = "relax" /\ ~changed' =>
                        \A c \in {order[i] : i \in 1 .. at' - 1} : Stable(c)
                 /\ status' # "relax" => \A c \in Classes : Stable(c)
    <3>1. Shape'
      BY <2>1, <2>2, <2>4 DEF IInv, Shape
    <3>2. TypeOK' /\ BestDescends' /\ CostSound' /\ NumbersStay'
      BY <2>1, <2>2, <2>4 DEF TypeOK, CostPart, NumbersStay
    <3>3. Settled'
      BY <2>1, <2>2, <2>4 DEF Settled, Visited
    <3> QED BY <3>1, <3>2, <3>3 DEF IInv
  <2> USE DEF IInv, Shape, TypeOK, Settled, Visited, Ended
  <2>5. CASE Keep
    <3>1. Stable(order[at])
      BY <2>5, <2>3, KeepStable DEF Keep
    <3> QED BY <2>5, <2>3, <3>1 DEF Keep, NumbersStay
  <2>6. CASE NextPass
    <3>1. 1 .. at' - 1 = {}
      BY <2>6 DEF NextPass
    <3>2. \A c \in {order[i] : i \in 1 .. at' - 1} : Stable(c)
      BY <3>1
    <3>3. /\ status' = "relax" /\ at' = 1 /\ at' \in 1 .. Len(order) + 1
          /\ changed' = FALSE /\ built' = built
      BY <2>6, <2>3 DEF NextPass
    <3>4. built = {}
      BY <2>6 DEF NextPass
    <3> QED BY <3>2, <3>3, <3>4
  <2>7. CASE FindBest
    <3>1. at = Len(order) + 1 /\ \A c \in Classes : Stable(c)
      BY <2>7, <2>3 DEF FindBest
    <3>2. egraph.root \in DOMAIN costs => <<egraph.root>> \in Seq(DOMAIN costs)
      OBVIOUS
    <3> QED BY <2>7, <2>3, <3>1, <3>2 DEF FindBest, NumbersStay
  <2>8. CASE Pop
    <3>1. Front(todo) \in Seq(DOMAIN costs)
      BY <2>8 DEF Pop, Front
    <3> QED BY <2>8, <3>1 DEF Pop, NumbersStay
  <2>9. CASE Push
    <3>1. Top \in DOMAIN costs
      BY <2>9 DEF Push, Top, Last
    <3>2. BestChildren(Top) \subseteq DOMAIN costs
      BY <3>1 DEF Priced, BestChildren
    <3>3. Missing(costs[Top].node.children) \in Seq(DOMAIN costs)
      <4> DEFINE n == costs[Top].node
      <4>1. IsNode(n, Classes)
        BY <3>1, GraphNodes DEF Priced
      <4>2. n.children \in Seq(DOMAIN costs)
        <5>1. \A i \in DOMAIN n.children : n.children[i] \in DOMAIN costs
          BY <3>2 DEF BestChildren, Children
        <5>2. \/ n.children = <<>>
              \/ n.children \in [1 .. 1 -> Classes]
              \/ n.children \in [1 .. 2 -> Classes]
          BY <4>1 DEF IsNode
        <5>3. ASSUME NEW k \in Nat, n.children \in [1 .. k -> Classes]
              PROVE  n.children \in Seq(DOMAIN costs)
          <6>1. n.children \in [1 .. k -> DOMAIN costs]
            BY <5>1, <5>3
          <6> HIDE DEF n
          <6> QED BY <6>1
        <5>4. n.children = <<>> => n.children \in Seq(DOMAIN costs)
          OBVIOUS
        <5> HIDE DEF n
        <5> QED BY <5>2, <5>3, <5>4
      <4>3. (\E c \in Children(n) : c \notin built) =>
              <<CHOOSE c \in Children(n) : c \notin built>> \in Seq(DOMAIN costs)
        BY <3>2 DEF BestChildren
      <4>4. \E c \in Children(n) : c \notin built
        BY <2>9 DEF Push, BestChildren
      <4> QED BY <4>2, <4>3, <4>4 DEF Missing, Children
    <3>4. todo' \in Seq(DOMAIN costs)
      BY <2>9, <3>3 DEF Push
    <3> QED BY <2>9, <3>4 DEF Push, NumbersStay
  <2>10. CASE Build
    <3>1. Top \in DOMAIN costs
      BY <2>10 DEF Build, Top, Last
    <3>2. Front(todo) \in Seq(DOMAIN costs)
      BY <2>10 DEF Build, Front
    <3> QED BY <2>10, <3>1, <3>2 DEF Build, NumbersStay
  <2>11. CASE Lift
    <3>1. ASSUME NEW c \in built, costs[c].node.op = "^"
          PROVE  costs[costs[c].node.children[2]].node.op = "num"
      <4> DEFINE n == costs[c].node
      <4>1. c \in DOMAIN costs /\ n \in egraph.nodes[c] /\ Children(n) \subseteq DOMAIN costs
        BY DEF Priced
      <4>2. IsNode(n, Classes)
        BY <4>1, GraphNodes
      <4>3. n.children[2] \in DOMAIN costs
        <5>1. 2 \in DOMAIN n.children
          BY <3>1, <4>2 DEF IsNode, Leaves, Unary
        <5> QED BY <4>1, <5>1 DEF Children
      <4>4. \E m \in egraph.nodes[n.children[2]] : m.op = "num"
        BY <3>1, <4>1, EGraphAssumption DEF Classes, GoodGraph
      <4> QED BY <4>3, <4>4 DEF NumbersStay
    <3> QED BY <2>11, <3>1 DEF Lift
  <2>12. CASE UNCHANGED vars
    BY <2>12 DEF vars, NumbersStay
  <2>13. CASE Returned
    BY <2>12, <2>13 DEF Returned
  <2> QED BY <1>2, <2>5, <2>6, <2>7, <2>8, <2>9, <2>10, <2>11, <2>12, <2>13 DEF Next, Step
<1> QED BY <1>1, <1>2

-----------------------------------------------------------------------------
(* Theorems *)

\* The inductive invariant holds in every state of every extraction.
THEOREM Invariance == Spec => []IInv
BY InitIInv, StepIInv, PTL DEF Spec

\* No class is reached from itself along the recorded nodes (SymbolCostFn's
\* "1 +"), although costs may be stale.
THEOREM ExtractionAcyclic == Spec => []BestDescends
<1>1. IInv => BestDescends
  BY DEF IInv
<1> QED BY <1>1, Invariance, PTL

\* The recorded penalties are reachable on the way and least at the end.
THEOREM PenaltiesExact == Spec => []PenaltyExact
<1>1. IInv => PenaltyExact
  <2> SUFFICES ASSUME IInv, NEW c \in Classes
               PROVE  /\ c \in DOMAIN costs => Within(c, costs[c].cost.penalty)
                      /\ status \notin {"relax"} =>
                          \A p \in {LocalPenalty(d) : d \in Classes} :
                              Within(c, p) => c \in DOMAIN costs /\ costs[c].cost.penalty <= p
    BY DEF PenaltyExact
  <2>1. \A p \in {LocalPenalty(d) : d \in Classes} : p \in Nat
    BY LocalPenaltyType DEF IInv, Shape
  <2> QED BY <2>1, StableIsLeast DEF IInv, Shape, Settled, CostSound
<1> QED BY <1>1, Invariance, PTL

\* Once nothing is left to gain, every class has a cost: the classes with one
\* are closed, and every class has an expression.
LEMMA AllPriced ==
    ASSUME egraph \in EGraphs, TypeOK, \A c \in Classes : Stable(c)
    PROVE  DOMAIN costs = Classes
<1>1. Grounded(egraph)
  BY EGraphAssumption
<1>2. DOMAIN costs \in SUBSET Classes
  BY DEF TypeOK
<1>3. ASSUME NEW c \in Classes, NEW n \in egraph.nodes[c], Children(n) \subseteq DOMAIN costs
      PROVE  c \in DOMAIN costs
  BY <1>3 DEF Stable, Priced
<1> QED BY <1>1, <1>2, <1>3 DEF Grounded, Classes

\* The pass that is followed by find_best has reached every class: its index
\* into the costs never panics, whatever cycles the rules made and in whatever
\* order the classes were visited.
THEOREM NeverPanics == Spec => [](status # "panic")
<1> DEFINE Safe == status # "panic"
<1>1. Init => Safe
  BY DEF Init
<1>2. IInv /\ IInv' /\ Safe /\ [Next]_vars => Safe'
  <2> SUFFICES ASSUME IInv, IInv', status # "panic", [Next]_vars, status' = "panic"
               PROVE  FALSE
    OBVIOUS
  <2>1. FindBest
    BY DEF Next, Step, Improve, Keep, NextPass, FindBest, Pop, Push, Build, Lift, Returned, vars
  <2>2. egraph.root \notin DOMAIN costs /\ UNCHANGED <<egraph, costs>>
    BY <2>1 DEF FindBest
  <2>3. DOMAIN costs = Classes
    <3>1. \A c \in Classes' : Stable(c)'
      BY DEF IInv, Settled
    <3>2. \A c \in Classes : Stable(c)
      BY <2>2, <3>1, CostsKept
    <3> QED BY <3>2, AllPriced DEF IInv, Shape
  <2>4. egraph.root \in Classes
    BY EGraphAssumption DEF IInv, Shape, Classes, GoodGraph
  <2> QED BY <2>2, <2>3, <2>4
<1>3. Spec => []Safe
  <2> HIDE DEF Safe
  <2> QED BY <1>1, <1>2, Invariance, PTL DEF Spec
<1> QED BY <1>3

\* lift_expr finds a number at every exponent.
THEOREM ExponentsLift == Spec => []NumbersStay
<1>1. IInv => NumbersStay
  BY DEF IInv
<1> QED BY <1>1, Invariance, PTL
=============================================================================
