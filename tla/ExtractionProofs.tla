--------------------------- MODULE ExtractionProofs ---------------------------
(***************************************************************************)
(* Proofs about what saturation hands to extraction.  The graph is one     *)
(* that the module Extractor takes up: every child is a class, exponents   *)
(* hold their integers, and every class has an expression, whatever cycles *)
(* the rules made.  And every expression that can be picked from the class *)
(* of the root is worth what the expression given is worth.                *)
(***************************************************************************)
EXTENDS SaturationProofs, RebuiltGraph

-----------------------------------------------------------------------------
(* Every class has an expression *)

\* Along some node of its class, every id leads to ids that are older.
Founded(g) ==
    \A i \in Ids(g) : \E n \in NodesAt(g, i) :
        \A k \in DOMAIN n.kids :
            \E j \in Ids(g) : j < i /\ Find(g, j) = Find(g, n.kids[k])

LEMMA NodesAtType ==
    ASSUME NEW g, Sound(g), NEW i \in Ids(g), NEW n \in NodesAt(g, i)
    PROVE  /\ n \in Nodes(Ids(g)) /\ NodeWorth(n, g.worth) = g.worth[i]
           /\ \A k \in DOMAIN n.kids : n.kids[k] \in Ids(g)
<1>1. g.leader[i] \in Classes(g) /\ g.worth[g.leader[i]] = g.worth[i]
  BY SoundIdsOf DEF Sound
<1>2. <<n, g.leader[i]>> \in Entries(g)
  BY <1>1 DEF Sound, SoundClass, NodesAt, Find
<1>3. n \in Nodes(Ids(g)) /\ NodeWorth(n, g.worth) = g.worth[i]
  BY <1>1, <1>2 DEF Entries
<1>4. \A k \in DOMAIN n.kids : n.kids[k] \in Ids(g)
  BY <1>3, NodeCases
<1> QED BY <1>3, <1>4

LEMMA NewClassFounded ==
    ASSUME AnalysisSound, NEW g, Sound(g), Founded(g), NEW n \in Nodes(Ids(g))
    PROVE  Founded(NewClass(g, n))
<1> DEFINE id == Len(g.leader) + 1
           h == NewClass(g, n)
<1>1. AddsClass(g, h, n, id) /\ Ids(h) = Ids(g) \cup {id}
  BY NewClassParts, NewClassSound
<1>2. \A j \in Ids(g) : j \in Nat /\ j < id
  BY SoundIdsOf DEF Ids
<1> HIDE DEF id, h
<1>3. /\ Find(h, id) = id /\ \A i \in Ids(g) : Find(h, i) = Find(g, i)
      /\ h.class[id].nodes = {n}
      /\ \A c \in Classes(g) : h.class[c].nodes = g.class[c].nodes
  BY <1>1 DEF AddsClass
<1>4. \A i \in Ids(g) : NodesAt(h, i) = NodesAt(g, i)
  BY <1>3, SoundIdsOf DEF NodesAt, Find
<1>5. ASSUME NEW i \in Ids(g)
      PROVE  \E m \in NodesAt(h, i) : \A k \in DOMAIN m.kids :
                \E j \in Ids(h) : j < i /\ Find(h, j) = Find(h, m.kids[k])
  <2>1. PICK m \in NodesAt(g, i) : \A k \in DOMAIN m.kids :
            \E j \in Ids(g) : j < i /\ Find(g, j) = Find(g, m.kids[k])
    BY DEF Founded
  <2>2. \A k \in DOMAIN m.kids : m.kids[k] \in Ids(g)
    BY NodesAtType
  <2> QED BY <1>1, <1>3, <1>4, <2>1, <2>2
<1>6. \E m \in NodesAt(h, id) : \A k \in DOMAIN m.kids :
        \E j \in Ids(h) : j < id /\ Find(h, j) = Find(h, m.kids[k])
  <2>1. n \in NodesAt(h, id)
    BY <1>3 DEF NodesAt
  <2>2. \A k \in DOMAIN n.kids : n.kids[k] \in Ids(g)
    BY NodeCases
  <2> QED BY <1>1, <1>2, <2>1, <2>2
<1>7. Founded(h)
  BY <1>1, <1>5, <1>6 DEF Founded
<1> QED BY <1>7 DEF h

\* A graph that keeps its ids, unites classes and loses no node stays founded.
LEMMA FoundedKept ==
    ASSUME NEW g, Sound(g), Founded(g), NEW h, Ids(h) = Ids(g),
           \A i, j \in Ids(g) : Find(g, i) = Find(g, j) => Find(h, i) = Find(h, j),
           \A i \in Ids(g) : NodesAt(g, i) \subseteq NodesAt(h, i)
    PROVE  Founded(h)
<1> SUFFICES ASSUME NEW i \in Ids(g)
             PROVE  \E n \in NodesAt(h, i) : \A k \in DOMAIN n.kids :
                        \E j \in Ids(g) : j < i /\ Find(h, j) = Find(h, n.kids[k])
  BY DEF Founded
<1>1. PICK n \in NodesAt(g, i) : \A k \in DOMAIN n.kids :
        \E j \in Ids(g) : j < i /\ Find(g, j) = Find(g, n.kids[k])
  BY DEF Founded
<1>2. \A k \in DOMAIN n.kids : n.kids[k] \in Ids(g)
  BY NodesAtType
<1>3. n \in NodesAt(h, i)
  OBVIOUS
<1> QED BY <1>1, <1>2, <1>3

LEMMA JoinFounded ==
    ASSUME NEW g, Sound(g), Founded(g), NEW x \in Classes(g), NEW y \in Classes(g), x # y
    PROVE  Founded(Join(g, x, y))
<1> DEFINE h == Join(g, x, y)
<1>1. PICK into \in {x, y}, gone \in {x, y} : into # gone /\ TakesIn(g, h, into, gone)
  BY JoinParts
<1> HIDE DEF h
<1>2. /\ h.leader = [i \in DOMAIN g.leader |-> IF g.leader[i] = gone THEN into ELSE g.leader[i]]
      /\ Classes(h) = Classes(g) \ {gone} /\ into \in Classes(h)
      /\ g.class[into].nodes \subseteq h.class[into].nodes
      /\ g.class[gone].nodes \subseteq h.class[into].nodes
      /\ \A c \in Classes(h) : c # into => h.class[c] = g.class[c]
  <2> DEFINE nodes == g.class[into].nodes \cup g.class[gone].nodes
             parents == g.class[into].parents \o g.class[gone].parents
             data == Merge(g.class[into].data, g.class[gone].data).data
  <2>1. into \in Classes(h)
    BY <1>1 DEF TakesIn
  <2>2. h.class[into] = [nodes |-> nodes, parents |-> parents, data |-> data]
    BY <1>1 DEF TakesIn
  <2> HIDE DEF nodes, parents, data
  <2>3. h.class[into].nodes = nodes
    BY <2>2
  <2> QED BY <1>1, <2>1, <2>3 DEF TakesIn, nodes
<1>3. DOMAIN g.leader = Ids(g) /\ Len(g.leader) \in Nat
  BY SoundIdsOf
<1>4. Ids(h) = Ids(g)
  <2>1. DOMAIN h.leader = 1 .. Len(g.leader)
    BY <1>2, <1>3 DEF Ids
  <2>2. Len(h.leader) = Len(g.leader)
    BY <1>2, <1>3, <2>1 DEF Ids
  <2> QED BY <2>2 DEF Ids
<1>5. \A i, j \in Ids(g) : Find(g, i) = Find(g, j) => Find(h, i) = Find(h, j)
  BY <1>2, <1>3 DEF Find
<1>6. \A i \in Ids(g) : NodesAt(g, i) \subseteq NodesAt(h, i)
  <2> TAKE i \in Ids(g)
  <2>1. g.leader[i] \in Classes(g) /\ i \in DOMAIN g.leader
    BY SoundIdsOf
  <2>2. CASE g.leader[i] \in {into, gone}
    <3>1. h.leader[i] = into
      BY <1>1, <1>2, <2>1, <2>2
    <3> QED BY <1>2, <2>2, <3>1 DEF NodesAt, Find
  <2>3. CASE g.leader[i] \notin {into, gone}
    <3>1. h.leader[i] = g.leader[i] /\ g.leader[i] \in Classes(h) /\ g.leader[i] # into
      BY <1>2, <2>1, <2>3
    <3> QED BY <1>2, <3>1 DEF NodesAt, Find
  <2> QED BY <2>2, <2>3
<1>7. Founded(h)
  BY <1>4, <1>5, <1>6, FoundedKept
<1> QED BY <1>7 DEF h

LEMMA JoinIdsFounded ==
    ASSUME NEW g, Sound(g), Founded(g), NEW a \in Ids(g), NEW b \in Ids(g)
    PROVE  Founded(JoinIds(g, a, b))
<1> DEFINE x == Find(g, a)
           y == Find(g, b)
<1>1. x \in Classes(g) /\ y \in Classes(g)
  BY SoundIdsOf DEF Find
<1>2. CASE x = y
  BY <1>2 DEF JoinIds
<1>3. CASE x # y
  <2>1. JoinIds(g, a, b) = Join(g, x, y)
    BY <1>3 DEF JoinIds
  <2> HIDE DEF x, y
  <2> QED BY <1>1, <1>3, <2>1, JoinFounded
<1> QED BY <1>2, <1>3

LEMMA EnterFounded ==
    ASSUME AnalysisSound, NEW g, Sound(g), Founded(g), NEW n \in Nodes(Ids(g))
    PROVE  Founded(Enter(g, n).graph)
<1>1. CASE n \in DOMAIN g.memo
  BY <1>1 DEF Enter
<1>2. CASE n \notin DOMAIN g.memo
  <2>1. Enter(g, n).graph = NewClass(g, n)
    BY <1>2 DEF Enter
  <2> QED BY <2>1, NewClassFounded
<1> QED BY <1>1, <1>2

LEMMA ModifyFounded ==
    ASSUME AnalysisSound, NEW g, Sound(g), Founded(g), NEW id \in Ids(g)
    PROVE  Founded(ModifyClass(g, id))
<1> DEFINE c == Find(g, id)
           const == Modify(g.class[c].data)
           n == Num(const)
           h == Enter(g, n).graph
           other == Enter(g, n).id
<1>1. c \in Classes(g) /\ Exact(g.class[c].data, g.worth[c])
  BY SoundIdsOf DEF Sound, SoundClass, Find
<1>2. CASE const = None
  BY <1>2 DEF ModifyClass
<1>3. CASE const # None
  <2>1. const \in Coeff
    BY <1>1, <1>3 DEF Exact
  <2>2. ModifyClass(g, id) = JoinIds(h, id, other)
    BY <1>3 DEF ModifyClass
  <2>3. n \in Nodes(Ids(g))
    BY <2>1, NumIsNode
  <2> HIDE DEF n, const, c
  <2>4. Keeps(g, h) /\ other \in Ids(h)
    BY <2>3, EnterSound
  <2>5. Founded(h)
    BY <2>3, EnterFounded
  <2> HIDE DEF h, other
  <2>6. Founded(JoinIds(h, id, other))
    BY <2>4, <2>5, JoinIdsFounded DEF Keeps, Extends
  <2> QED BY <2>2, <2>6
<1> QED BY <1>2, <1>3

LEMMA AddNodeFounded ==
    ASSUME AnalysisSound, NEW g, Sound(g), Founded(g), NEW n \in Nodes(Ids(g))
    PROVE  Founded(AddNode(g, n).graph)
<1> DEFINE node == Canonical(g, n)
           id == Len(g.leader) + 1
           new == NewClass(g, node)
           h == ModifyClass(new, id)
<1>1. node \in Nodes(Ids(g))
  BY CanonicalWorth
<1>2. CASE node \in DOMAIN g.memo
  BY <1>2 DEF AddNode, Enter
<1>3. CASE node \notin DOMAIN g.memo
  <2>1. AddNode(g, n).graph = h
    BY <1>3 DEF AddNode
  <2> HIDE DEF node, id, new
  <2>2. Sound(new) /\ id \in Ids(new) /\ Founded(new)
    BY <1>1, NewClassSound, NewClassFounded DEF new, id
  <2>3. Founded(h)
    BY <2>2, ModifyFounded
  <2> QED BY <2>1, <2>3
<1> QED BY <1>2, <1>3

LEMMA UnionFounded ==
    ASSUME AnalysisSound, NEW g, Sound(g), Founded(g), NEW a \in Ids(g), NEW b \in Ids(g),
           g.worth[a] = g.worth[b]
    PROVE  Founded(Union(g, a, b))
<1> DEFINE h == JoinIds(g, a, b)
<1>1. Keeps(g, h) /\ Founded(h)
  BY JoinIdsSound, JoinIdsFounded
<1>2. Sound(h) /\ a \in Ids(h)
  BY <1>1 DEF Keeps, Extends
<1> HIDE DEF h
<1>3. Founded(ModifyClass(h, a))
  BY <1>1, <1>2, ModifyFounded
<1> QED BY <1>3 DEF Union, h

\* The nodes and the leaders are those of g.
LEMMA FoundedAlike ==
    ASSUME NEW g, Sound(g), Founded(g), NEW h, h.leader = g.leader,
           \A c \in Classes(g) : h.class[c].nodes = g.class[c].nodes
    PROVE  Founded(h)
<1>1. Ids(h) = Ids(g) /\ \A i : Find(h, i) = Find(g, i)
  BY DEF Ids, Find
<1>2. \A i \in Ids(g) : NodesAt(h, i) = NodesAt(g, i)
  BY <1>1, SoundIdsOf DEF NodesAt, Find
<1> QED BY <1>1, <1>2, FoundedKept

LEMMA RepairMemoFounded ==
    ASSUME AnalysisSound, NEW g, Sound(g), Founded(g), g.pending # <<>>
    PROVE  Founded(RepairMemo(g))
<1> DEFINE n == Canonical(g, g.pending[Len(g.pending)][1])
           id == g.pending[Len(g.pending)][2]
<1>1. PICK h : /\ Sound(h) /\ h.leader = g.leader /\ h.class = g.class
               /\ RepairMemo(g) = IF n \in DOMAIN g.memo THEN Union(h, g.memo[n], id) ELSE h
               /\ n \in DOMAIN g.memo => /\ g.memo[n] \in Ids(h) /\ id \in Ids(h)
                                          /\ h.worth[g.memo[n]] = h.worth[id]
  BY RepairMemoSteps
<1> HIDE DEF n, id
<1>2. Founded(h)
  BY <1>1, FoundedAlike
<1>3. n \in DOMAIN g.memo => Founded(Union(h, g.memo[n], id))
  BY <1>1, <1>2, UnionFounded
<1> QED BY <1>1, <1>2, <1>3

LEMMA RepairDataFounded ==
    ASSUME AnalysisSound, NEW g, Sound(g), Founded(g), NEW entry \in g.dirty
    PROVE  Founded(RepairData(g, entry))
<1> DEFINE id == Find(g, entry[2])
           merged == Merge(g.class[id].data, NodeData(g, entry[1]))
<1>1. PICK h, k : /\ Repaired(g, entry, h) /\ Repaired(g, entry, k)
                  /\ RepairData(g, entry) = IF merged.changed THEN ModifyClass(k, id) ELSE h
  BY RepairDataSteps
<1>2. ASSUME NEW f, Repaired(g, entry, f)
      PROVE  Sound(f) /\ Ids(f) = Ids(g) /\ Founded(f)
  <2> DEFINE old == g.class[id]
             data == Merge(old.data, NodeData(g, entry[1])).data
  <2>1. /\ f.leader = g.leader /\ id \in Classes(g)
        /\ \A c \in Classes(g) : c # id => f.class[c] = g.class[c]
        /\ f.class[id] = [nodes |-> old.nodes, parents |-> old.parents, data |-> data]
    BY <1>2, RepairedParts
  <2> HIDE DEF data, old
  <2>2. f.class[id].nodes = old.nodes
    BY <2>1
  <2>3. \A c \in Classes(g) : f.class[c].nodes = g.class[c].nodes
    BY <2>1, <2>2 DEF old
  <2>4. Founded(f)
    BY <2>1, <2>3, FoundedAlike
  <2> QED BY <1>2, <2>1, <2>4, RepairedSound DEF Keeps, Ids
<1>3. id \in Ids(g)
  BY SoundIdsOf DEF Sound, Entries, Find
<1> HIDE DEF id, merged
<1>4. Founded(ModifyClass(k, id))
  BY <1>1, <1>2, <1>3, ModifyFounded
<1> QED BY <1>1, <1>2, <1>4

LEMMA CanonicalNodesFounded ==
    ASSUME NEW g, Tidy(g), Founded(g)
    PROVE  Founded(CanonicalNodes(g))
<1> DEFINE h == CanonicalNodes(g)
<1>0. Sound(g)
  BY DEF Tidy
<1>1. /\ h.leader = g.leader
      /\ \A c \in Classes(g) : h.class[c].nodes = {Canonical(g, n) : n \in g.class[c].nodes}
  <2>1. h = [leader |-> g.leader, class |-> h.class, memo |-> g.memo, pending |-> g.pending,
             dirty |-> g.dirty, worth |-> g.worth, defined |-> g.defined]
    BY <1>0, CanonicalNodesParts
  <2>2. \A c \in Classes(g) : h.class[c].nodes = {Canonical(g, n) : n \in g.class[c].nodes}
    BY <1>0, CanonicalNodesParts
  <2> HIDE DEF h
  <2> QED BY <2>1, <2>2
<1> HIDE DEF h
<1>2. Ids(h) = Ids(g) /\ \A i : Find(h, i) = Find(g, i)
  BY <1>1 DEF Ids, Find
<1>3. ASSUME NEW i \in Ids(g)
      PROVE  \E n \in NodesAt(h, i) : \A k \in DOMAIN n.kids :
                \E j \in Ids(g) : j < i /\ Find(g, j) = Find(g, n.kids[k])
  <2>1. PICK n \in NodesAt(g, i) : \A k \in DOMAIN n.kids :
            \E j \in Ids(g) : j < i /\ Find(g, j) = Find(g, n.kids[k])
    BY DEF Founded
  <2>2. n \in Nodes(Ids(g)) /\ \A k \in DOMAIN n.kids : n.kids[k] \in Ids(g)
    BY <1>0, NodesAtType
  <2> DEFINE m == Canonical(g, n)
  <2>3. m \in NodesAt(h, i)
    BY <1>0, <1>1, <1>2, SoundIdsOf DEF NodesAt, Find
  <2>4. m.kids = [k \in DOMAIN n.kids |-> Find(g, n.kids[k])]
    BY <2>2, SubstParts DEF Canonical, Find
  <2> HIDE DEF m
  <2>5. \A k \in DOMAIN n.kids : Find(g, m.kids[k]) = Find(g, n.kids[k])
    BY <2>2, <2>4, FindTwice
  <2> QED BY <2>1, <2>3, <2>4, <2>5
<1>4. Founded(h)
  BY <1>2, <1>3 DEF Founded
<1> QED BY <1>4 DEF h

LEMMA EmptyGraphFounded == Founded(EmptyGraph)
<1>1. Ids(EmptyGraph) = {}
  BY DEF EmptyGraph, Ids
<1> QED BY <1>1 DEF Founded

LEMMA FoundedNext ==
    ASSUME AnalysisSound, SInv, PInv, Founded(graph), [Rewrite \/ HandOver]_runner
    PROVE  Founded(graph')
<1>1. Sound(graph) /\ Tidy(graph)
  BY DEF SInv, PInv, Tidy
<1>2. CASE AddNext
  <2> DEFINE n == Subst(List[Len(ids) - Given + 1], ids)
  <2>1. Adding /\ ~ListDone /\ graph' = AddNode(graph, n).graph
    BY <1>2 DEF AddNext
  <2>2. n \in Nodes(Ids(graph))
    BY <2>1, NextNode
  <2> HIDE DEF n
  <2> QED BY <1>1, <2>1, <2>2, AddNodeFounded
<1>3. CASE UniteMatch
  <2> DEFINE id == ids[Len(ids)]
             class == match[LhsSize(Rules[rule])]
  <2>1. phase = "instantiate" /\ ListDone /\ graph' = Union(graph, id, class)
    BY <1>3 DEF UniteMatch
  <2>2. id \in Ids(graph) /\ class \in Ids(graph) /\ graph.worth[id] = graph.worth[class]
    BY <2>1, UnitedWorth
  <2> HIDE DEF id, class
  <2> QED BY <1>1, <2>1, <2>2, UnionFounded
<1>4. CASE RepairNode
  <2>1. graph.pending # <<>> /\ graph' = RepairMemo(graph)
    BY <1>4 DEF RepairNode
  <2> QED BY <1>1, <2>1, RepairMemoFounded
<1>5. CASE RepairAnalysis
  <2>1. PICK entry \in graph.dirty : graph' = RepairData(graph, entry)
    BY <1>5 DEF RepairAnalysis
  <2> QED BY <1>1, <2>1, RepairDataFounded
<1>6. CASE Rebuilt
  <2>1. graph' = CanonicalNodes(graph)
    BY <1>6 DEF Rebuilt
  <2> QED BY <1>1, <2>1, CanonicalNodesFounded
<1>7. CASE \/ Start \/ Search \/ ApplyMatch \/ NextRule \/ LastIteration \/ HandOver
           \/ UNCHANGED runner
  BY <1>7 DEF Start, Search, ApplyMatch, NextRule, LastIteration, HandOver, runner
<1> QED BY <1>2, <1>3, <1>4, <1>5, <1>6, <1>7 DEF Rewrite

-----------------------------------------------------------------------------
(* What a list of nodes is worth *)

\* The worth of an expression: of each node from those before it, and last of
\* the whole.
ListWorth(nodes) ==
    LET worth[i \in DOMAIN nodes] == NodeWorth(nodes[i], worth)
    IN  worth[Len(nodes)]

\* A list that is not empty, and its children come before their parents.
IsExpression(nodes) ==
    /\ Len(nodes) \in Nat \ {0} /\ DOMAIN nodes = 1 .. Len(nodes)
    /\ IsList(nodes, 0)

\* There is one way to compute it.
LEMMA ListWorthIs ==
    ASSUME NEW nodes, IsExpression(nodes),
           NEW w, w = [i \in DOMAIN nodes |-> NodeWorth(nodes[i], w)]
    PROVE  ListWorth(nodes) = w[Len(nodes)]
<1> DEFINE v == CHOOSE v : v = [i \in DOMAIN nodes |-> NodeWorth(nodes[i], v)]
<1>1. v = [i \in DOMAIN nodes |-> NodeWorth(nodes[i], v)]
  OBVIOUS
<1>2. ListWorth(nodes) = v[Len(nodes)]
  BY DEF ListWorth
<1> HIDE DEF v
<1>3. /\ Len(nodes) \in Nat \ {0} /\ DOMAIN nodes = 1 .. Len(nodes)
      /\ \A i \in DOMAIN nodes : nodes[i] \in Nodes(1 .. i - 1)
  <2>1. \A i \in DOMAIN nodes : nodes[i] \in Nodes(1 .. 0 + i - 1)
    BY DEF IsExpression, IsList
  <2>2. \A i \in 1 .. Len(nodes) : 0 + i - 1 = i - 1
    BY DEF IsExpression
  <2> QED BY <2>1, <2>2 DEF IsExpression
<1> DEFINE Good == {m \in Nat : \A i \in DOMAIN nodes : i <= m => v[i] = w[i]}
<1>4. 0 \in Good
  BY <1>3
<1>5. ASSUME NEW m \in Nat, m \in Good
      PROVE  m + 1 \in Good
  <2> SUFFICES ASSUME NEW i \in DOMAIN nodes, i <= m + 1 PROVE v[i] = w[i]
    OBVIOUS
  <2> DEFINE K == 1 .. i - 1
  <2>1. nodes[i] \in Nodes(K)
    BY <1>3
  <2>2. \A k \in K : w[k] = v[k]
    BY <1>3, <1>5
  <2> HIDE DEF K
  <2>3. NodeWorth(nodes[i], v) = NodeWorth(nodes[i], w)
    BY <2>1, <2>2, SameWorth
  <2>4. v[i] = NodeWorth(nodes[i], v)
    BY <1>1
  <2>5. w[i] = NodeWorth(nodes[i], w)
    OBVIOUS
  <2> QED BY <2>3, <2>4, <2>5
<1>6. Nat \subseteq Good
  <2> HIDE DEF Good
  <2> QED BY <1>4, <1>5, NatSetInduction
<1>7. Len(nodes) \in Good /\ Len(nodes) \in DOMAIN nodes /\ Len(nodes) <= Len(nodes)
  BY <1>3, <1>6
<1> QED BY <1>2, <1>7

\* The ids s of the first nodes of a list are worth what those nodes are.
WorthsOf(g, s, nodes) ==
    \A i \in 1 .. Len(s) :
        NodeWorth(nodes[i], [k \in DOMAIN s |-> g.worth[s[k]]]) = g.worth[s[i]]

LEMMA WorthsAppended ==
    ASSUME NEW nodes, IsExpression(nodes), NEW g, NEW h, Extends(g, h),
           NEW s \in Seq(Ids(g)), Len(s) + 1 \in DOMAIN nodes, WorthsOf(g, s, nodes),
           NEW id, h.worth[id] = NodeWorth(Subst(nodes[Len(s) + 1], s), g.worth)
    PROVE  WorthsOf(h, Append(s, id), nodes)
<1> DEFINE N == Len(s)
           t == Append(s, id)
           x == [k \in DOMAIN s |-> g.worth[s[k]]]
           y == [k \in DOMAIN t |-> h.worth[t[k]]]
<1>1. N \in Nat /\ DOMAIN s = 1 .. N /\ \A k \in 1 .. N : s[k] \in Ids(g)
  OBVIOUS
<1>2. /\ Len(t) = N + 1 /\ DOMAIN t = 1 .. N + 1
      /\ \A k \in 1 .. N : t[k] = s[k]
      /\ t[N + 1] = id
  <2>1. s \in Seq(Ids(g) \cup {id})
    OBVIOUS
  <2> QED BY <1>1, <2>1
<1>3. \A i \in 1 .. N + 1 : nodes[i] \in Nodes(1 .. i - 1)
  <2>1. \A i \in DOMAIN nodes : nodes[i] \in Nodes(1 .. 0 + i - 1)
    BY DEF IsExpression, IsList
  <2>2. \A i \in 1 .. N + 1 : i \in DOMAIN nodes /\ 0 + i - 1 = i - 1
    BY <1>1 DEF IsExpression
  <2> QED BY <2>1, <2>2
<1> HIDE DEF N, t
<1>4. \A k \in 1 .. N : x[k] = g.worth[s[k]] /\ y[k] = x[k]
  BY <1>1, <1>2 DEF Extends
<1>5. \A i \in 1 .. N : NodeWorth(nodes[i], x) = g.worth[s[i]]
  BY DEF WorthsOf, N
<1> HIDE DEF x, y
<1>6. \A i \in 1 .. N + 1 : NodeWorth(nodes[i], y) = NodeWorth(nodes[i], x)
  <2> TAKE i \in 1 .. N + 1
  <2> DEFINE K == 1 .. i - 1
  <2>1. nodes[i] \in Nodes(K) /\ \A k \in K : x[k] = y[k]
    BY <1>1, <1>3, <1>4
  <2> HIDE DEF K
  <2> QED BY <2>1, SameWorth
<1>7. NodeWorth(Subst(nodes[N + 1], s), g.worth) = NodeWorth(nodes[N + 1], x)
  <2> DEFINE K == 1 .. N
             worth == g.worth
  <2>1. nodes[N + 1] \in Nodes(K)
    <3>1. N + 1 \in 1 .. N + 1 /\ (N + 1) - 1 = N
      BY <1>1
    <3> QED BY <1>3, <3>1
  <2>2. \A k \in K : x[k] = worth[s[k]]
    BY <1>4
  <2> HIDE DEF K, worth
  <2>3. NodeWorth(Subst(nodes[N + 1], s), worth) = NodeWorth(nodes[N + 1], x)
    BY <2>1, <2>2, SubstWorth
  <2> QED BY <2>3 DEF worth
<1>8. ASSUME NEW i \in 1 .. N + 1
      PROVE  NodeWorth(nodes[i], y) = h.worth[t[i]]
  <2>1. CASE i \in 1 .. N
    BY <1>1, <1>2, <1>5, <1>6, <1>8, <2>1 DEF Extends
  <2>2. CASE i = N + 1
    BY <1>2, <1>6, <1>7, <1>8, <2>2 DEF N
  <2> QED BY <1>1, <2>1, <2>2
<1> QED BY <1>2, <1>8 DEF WorthsOf, t, y

\* Once all of the list has been added, its last id is worth what it is.
LEMMA WorthsComplete ==
    ASSUME NEW nodes, IsExpression(nodes), NEW g, NEW s \in Seq(Ids(g)),
           Len(s) = Len(nodes), WorthsOf(g, s, nodes)
    PROVE  ListWorth(nodes) = g.worth[s[Len(s)]]
<1> DEFINE w == [k \in DOMAIN s |-> g.worth[s[k]]]
<1>1. DOMAIN s = DOMAIN nodes /\ DOMAIN s = 1 .. Len(s) /\ Len(s) \in DOMAIN s
  BY DEF IsExpression
<1>2. \A i \in DOMAIN s : NodeWorth(nodes[i], w) = w[i]
  BY <1>1 DEF WorthsOf
<1>3. w[Len(s)] = g.worth[s[Len(s)]] /\ DOMAIN w = DOMAIN nodes
  BY <1>1
<1>4. w = [i \in DOMAIN w |-> w[i]]
  OBVIOUS
<1> HIDE DEF w
<1>5. w = [i \in DOMAIN nodes |-> NodeWorth(nodes[i], w)]
  BY <1>1, <1>2, <1>3, <1>4
<1> QED BY <1>3, <1>5, ListWorthIs

-----------------------------------------------------------------------------
(* The root *)

LEMMA LoweredIsExpression ==
    ASSUME SInv
    PROVE  IsExpression(Lowered(baseline))
<1> DEFINE nodes == Lowered(baseline)
<1>1. nodes \in Seq(Nodes(Nat)) \ {<<>>} /\ IsList(nodes, 0)
  BY LoweredAssumption DEF SInv
<1> HIDE DEF nodes
<1>2. IsExpression(nodes)
  BY <1>1 DEF IsExpression
<1> QED BY <1>2 DEF nodes

\* While the expression is being added, the ids so far are worth what its nodes
\* are; after that, the root is worth what it is.
RInv ==
    /\ phase = "lower" => WorthsOf(graph, ids, Lowered(baseline))
    /\ phase # "lower" => /\ root \in Ids(graph)
                          /\ graph.worth[root] = ListWorth(Lowered(baseline))

LEMMA RInvInit == RunnerInit => RInv
<1> SUFFICES ASSUME RunnerInit PROVE RInv
  OBVIOUS
<1>1. ids = <<>> /\ phase = "lower"
  BY DEF RunnerInit
<1>2. 1 .. Len(ids) = {}
  BY <1>1
<1> QED BY <1>1, <1>2 DEF RInv, WorthsOf

\* No step forgets an id or what it is worth.
LEMMA GraphExtends ==
    ASSUME AnalysisSound, SInv, [Rewrite \/ HandOver]_runner
    PROVE  Extends(graph, graph')
<1>1. Sound(graph) /\ Keeps(graph, graph)
  BY KeepsSelf DEF SInv
<1>2. CASE AddNext
  <2> DEFINE n == Subst(List[Len(ids) - Given + 1], ids)
  <2>1. Adding /\ ~ListDone /\ graph' = AddNode(graph, n).graph
    BY <1>2 DEF AddNext
  <2>2. n \in Nodes(Ids(graph))
    BY <2>1, NextNode
  <2> HIDE DEF n
  <2> QED BY <1>1, <2>1, <2>2, AddNodeSound DEF Keeps
<1>3. CASE UniteMatch
  <2> DEFINE id == ids[Len(ids)]
             class == match[LhsSize(Rules[rule])]
  <2>1. phase = "instantiate" /\ ListDone /\ graph' = Union(graph, id, class)
    BY <1>3 DEF UniteMatch
  <2>2. id \in Ids(graph) /\ class \in Ids(graph) /\ graph.worth[id] = graph.worth[class]
    BY <2>1, UnitedWorth
  <2> HIDE DEF id, class
  <2> QED BY <1>1, <2>1, <2>2, UnionSound DEF Keeps
<1>4. CASE RepairNode
  <2>1. graph.pending # <<>> /\ graph' = RepairMemo(graph)
    BY <1>4 DEF RepairNode
  <2> QED BY <1>1, <2>1, RepairMemoSound DEF Keeps
<1>5. CASE RepairAnalysis
  <2>1. PICK entry \in graph.dirty : graph' = RepairData(graph, entry)
    BY <1>5 DEF RepairAnalysis
  <2> QED BY <1>1, <2>1, RepairDataSound DEF Keeps
<1>6. CASE Rebuilt
  <2>1. graph' = CanonicalNodes(graph)
    BY <1>6 DEF Rebuilt
  <2> QED BY <1>1, <2>1, CanonicalNodesSound DEF Keeps
<1>7. CASE \/ Start \/ Search \/ ApplyMatch \/ NextRule \/ LastIteration \/ HandOver
           \/ UNCHANGED runner
  <2>1. graph' = graph
    BY <1>7 DEF Start, Search, ApplyMatch, NextRule, LastIteration, HandOver, runner
  <2> QED BY <1>1, <2>1 DEF Keeps
<1> QED BY <1>2, <1>3, <1>4, <1>5, <1>6, <1>7 DEF Rewrite

LEMMA RInvLower ==
    ASSUME AnalysisSound, SInv, RInv, phase = "lower", AddNext
    PROVE  RInv'
<1> DEFINE nodes == Lowered(baseline)
           N == Len(ids)
           n == Subst(List[Len(ids) - Given + 1], ids)
           id == AddNode(graph, n).id
           h == AddNode(graph, n).graph
<1>1. /\ Adding /\ ~ListDone
      /\ graph' = h /\ ids' = Append(ids, id)
      /\ UNCHANGED <<baseline, phase>>
  BY DEF AddNext
<1>2. Given = 0 /\ List = nodes /\ ids \in Seq(Ids(graph)) /\ Sound(graph) /\ N \in Nat
  <2>1. ids \in Seq(Ids(graph))
    BY DEF SInv, SoundIds
  <2> QED BY <2>1 DEF Given, List, SInv
<1>3. /\ N + 1 \in DOMAIN nodes /\ n = Subst(nodes[N + 1], ids) /\ n \in Nodes(Ids(graph))
      /\ IsExpression(nodes)
  <2>1. IsExpression(nodes)
    BY LoweredIsExpression
  <2>2. N - Given + 1 = N + 1
    BY <1>2
  <2>3. N + 1 \in 1 .. Len(nodes) /\ n \in Nodes(Ids(graph))
    BY <1>1, <1>2, <2>2, NextNode
  <2> QED BY <1>2, <2>1, <2>2, <2>3 DEF IsExpression
<1>4. WorthsOf(graph, ids, nodes)
  BY DEF RInv
<1> HIDE DEF nodes, n
<1>5. Keeps(graph, h) /\ h.worth[id] = NodeWorth(n, graph.worth)
  BY <1>2, <1>3, AddNodeSound
<1> HIDE DEF id, h
<1>6. WorthsOf(h, Append(ids, id), nodes)
  BY <1>2, <1>3, <1>4, <1>5, WorthsAppended DEF Keeps
<1>7. phase' = "lower" /\ nodes' = nodes
  BY <1>1 DEF nodes
<1>8. WorthsOf(graph', ids', nodes')
  BY <1>1, <1>6, <1>7
<1> QED BY <1>7, <1>8 DEF RInv, nodes, WorthsOf

LEMMA RInvStart ==
    ASSUME SInv, RInv, Start
    PROVE  RInv'
<1> DEFINE nodes == Lowered(baseline)
<1>1. /\ phase = "lower" /\ ListDone /\ root' = ids[Len(ids)] /\ phase' = "rebuild"
      /\ graph' = graph /\ baseline' = baseline
  BY DEF Start
<1>2. IsExpression(nodes) /\ ids \in Seq(Ids(graph)) /\ WorthsOf(graph, ids, nodes)
  BY <1>1, LoweredIsExpression DEF SInv, SoundIds, RInv
<1>3. Len(ids) = Len(nodes)
  <2>1. Len(ids) = 0 + Len(nodes)
    BY <1>1 DEF ListDone, Given, List
  <2> QED BY <1>2, <2>1 DEF IsExpression
<1> HIDE DEF nodes
<1>4. ListWorth(nodes) = graph.worth[ids[Len(ids)]]
  BY <1>2, <1>3, WorthsComplete
<1>5. ids[Len(ids)] \in Ids(graph)
  <2>1. Len(ids) \in DOMAIN ids
    BY <1>2, <1>3 DEF IsExpression
  <2> QED BY <1>2, <2>1
<1>6. root' \in Ids(graph') /\ graph'.worth[root'] = ListWorth(nodes)
  BY <1>1, <1>4, <1>5
<1>7. nodes' = nodes
  BY <1>1 DEF nodes
<1> QED BY <1>1, <1>6, <1>7 DEF RInv, nodes, Ids, ListWorth

LEMMA RInvNext ==
    ASSUME AnalysisSound, SInv, RInv, [Rewrite \/ HandOver]_runner
    PROVE  RInv'
<1>1. CASE AddNext /\ phase = "lower"
  BY <1>1, RInvLower
<1>2. CASE Start
  BY <1>2, RInvStart
<1>3. CASE /\ phase # "lower" /\ phase' # "lower"
           /\ UNCHANGED <<baseline, root>>
  <2> DEFINE w == ListWorth(Lowered(baseline))
  <2>1. root \in Ids(graph) /\ graph.worth[root] = w
    BY <1>3 DEF RInv
  <2>2. root' = root /\ w' = w
    BY <1>3
  <2>3. Extends(graph, graph')
    BY GraphExtends
  <2> HIDE DEF w
  <2>4. root' \in Ids(graph') /\ graph'.worth[root'] = w'
    BY <2>1, <2>2, <2>3 DEF Extends
  <2> QED BY <1>3, <2>4 DEF RInv, w, Ids
<1>4. CASE /\ phase # "lower"
           /\ \/ AddNext \/ Search \/ ApplyMatch \/ UniteMatch \/ NextRule \/ RepairNode
              \/ RepairAnalysis \/ Rebuilt \/ LastIteration \/ HandOver
  <2>1. phase' # "lower" /\ UNCHANGED <<baseline, root>>
    BY <1>4 DEF AddNext, Search, ApplyMatch, UniteMatch, NextRule, RepairNode,
                RepairAnalysis, Rebuilt, LastIteration, HandOver
  <2> QED BY <1>3, <1>4, <2>1
<1>5. CASE UNCHANGED runner
  <2>1. UNCHANGED <<baseline, graph, root, phase, ids>>
    BY <1>5 DEF runner
  <2> QED BY <2>1 DEF RInv, WorthsOf, Ids
<1>6. ASSUME Rewrite \/ HandOver PROVE AddNext \/ Start \/ phase # "lower"
  BY <1>6 DEF Rewrite, Search, ApplyMatch, UniteMatch, NextRule, RepairNode,
              RepairAnalysis, Rebuilt, LastIteration, HandOver, Stopped
<1> QED BY <1>1, <1>2, <1>4, <1>5, <1>6 DEF Rewrite

-----------------------------------------------------------------------------
(* What is handed over *)

\* Extraction tells numbers apart by whether they fit an exponent.
OpOf(n) == IF IsInteger(n) THEN "num" ELSE IF IsNum(n) THEN "frac" ELSE n.op

\* The graph as extraction reads it, whatever the fingerprints of its classes.
Handed(g, id, fingerprint) ==
    [nodes |-> [c \in Classes(g) |->
                    {[op |-> OpOf(n), children |-> n.kids] : n \in g.class[c].nodes}],
     root |-> Find(g, id),
     fingerprint |-> fingerprint]

FingerprintValues == [kind : FingerprintKinds, weights : SUBSET WeightOutcomes]

\* A class's nodes and the nodes handed over.
LEMMA HandedParts ==
    ASSUME NEW g, NEW id, NEW fingerprint \in [Classes(g) -> FingerprintValues]
    PROVE  LET h == Handed(g, id, fingerprint)
           IN  /\ h.root = Find(g, id) /\ h.fingerprint = fingerprint
               /\ DOMAIN h.nodes = Classes(g)
               /\ \A c \in Classes(g) :
                    h.nodes[c] = {[op |-> OpOf(n), children |-> n.kids] : n \in g.class[c].nodes}
BY DEF Handed

LEMMA HandedNode ==
    ASSUME NEW K, NEW L, NEW n \in Nodes(K), \A i \in DOMAIN n.kids : n.kids[i] \in L,
           NEW m, m = [op |-> OpOf(n), children |-> n.kids]
    PROVE  IsNode(m, L)
<1>1. m.op = OpOf(n) /\ m.children = n.kids
  OBVIOUS
<1>2. CASE n.op \in {"num", "var"} /\ n.kids \in [1 .. 0 -> K]
  <2>1. n.kids = <<>>
    BY <1>2
  <2>2. OpOf(n) \in Leaves
    BY <1>2 DEF OpOf, IsInteger, IsNum, Leaves
  <2> QED BY <1>1, <2>1, <2>2 DEF IsNode
<1>3. CASE n.op \in {"+", "*", "^"} /\ n.kids \in [1 .. 2 -> K]
  <2>1. n.kids \in [1 .. 2 -> L]
    BY <1>3
  <2>2. OpOf(n) \in Binary
    BY <1>3 DEF OpOf, IsInteger, IsNum, Binary
  <2> QED BY <1>1, <2>1, <2>2 DEF IsNode
<1>4. CASE n.op \in {"log", "li2"} /\ n.kids \in [1 .. 1 -> K]
  <2>1. n.kids \in [1 .. 1 -> L]
    BY <1>4
  <2>2. OpOf(n) \in Unary
    BY <1>4 DEF OpOf, IsInteger, IsNum, Unary
  <2> QED BY <1>1, <2>1, <2>2 DEF IsNode
<1> QED BY <1>2, <1>3, <1>4, NodeCases

LEMMA HandedGood ==
    ASSUME NEW g, Tidy(g), KidsLead(g), Founded(g), NEW id \in Ids(g),
           NEW fingerprint \in [Classes(g) -> FingerprintValues]
    PROVE  GoodGraph(Handed(g, id, fingerprint))
<1> DEFINE h == Handed(g, id, fingerprint)
<1>1. /\ h.root = Find(g, id) /\ h.fingerprint = fingerprint /\ DOMAIN h.nodes = Classes(g)
      /\ \A c \in Classes(g) :
            h.nodes[c] = {[op |-> OpOf(n), children |-> n.kids] : n \in g.class[c].nodes}
  BY HandedParts
<1>2. Sound(g) /\ Placed(g)
  BY DEF Tidy
<1> HIDE DEF h
<1>3. IsFiniteSet(DOMAIN h.nodes)
  <2>1. Len(g.leader) \in Nat /\ Classes(g) \subseteq 1 .. Len(g.leader)
    BY <1>2, SoundIdsOf DEF Sound, Ids
  <2>2. IsFiniteSet(1 .. Len(g.leader))
    BY <2>1, FS_Interval
  <2>3. IsFiniteSet(Classes(g))
    BY <2>1, <2>2, FS_Subset
  <2> QED BY <1>1, <2>3
<1>4. h.root \in DOMAIN h.nodes /\ DOMAIN h.fingerprint = DOMAIN h.nodes
  BY <1>1, FindTwice
<1>5. ASSUME NEW c \in Classes(g)
      PROVE  /\ h.fingerprint[c].kind \in FingerprintKinds
             /\ h.fingerprint[c].weights \subseteq WeightOutcomes
             /\ h.nodes[c] # {}
             /\ \A n \in h.nodes[c] :
                    /\ IsNode(n, DOMAIN h.nodes)
                    /\ n.op = "^" => \E m \in h.nodes[n.children[2]] : m.op = "num"
             /\ \A n, m \in h.nodes[c] : n.op = "num" => m.op \notin {"frac", "var"}
  <2>1. h.fingerprint[c] \in FingerprintValues
    BY <1>1
  <2>2. c \in Ids(g) /\ NodesAt(g, c) = g.class[c].nodes
    BY <1>2 DEF Sound, Placed, NodesAt, Find
  <2>3. h.nodes[c] # {}
    <3>1. PICK n \in g.class[c].nodes : TRUE
      BY <2>2 DEF Founded
    <3> DEFINE m == [op |-> OpOf(n), children |-> n.kids]
    <3>2. m \in h.nodes[c]
      BY <1>1
    <3> QED BY <3>2
  <2>4. ASSUME NEW n \in g.class[c].nodes, NEW m, m = [op |-> OpOf(n), children |-> n.kids]
        PROVE  /\ IsNode(m, DOMAIN h.nodes)
               /\ m.op = "^" => \E k \in h.nodes[m.children[2]] : k.op = "num"
    <3>1. n \in Nodes(Ids(g)) /\ ExponentHeld(g, n)
      BY <1>2 DEF Placed, InPlace, Entries
    <3>2. \A i \in DOMAIN n.kids : n.kids[i] \in Classes(g)
      BY DEF KidsLead
    <3>3. m.op = OpOf(n) /\ m.children = n.kids
      BY <2>4
    <3>4. IsNode(m, DOMAIN h.nodes)
      BY <1>1, <2>4, <3>1, <3>2, HandedNode
    <3>5. ASSUME m.op = "^" PROVE \E k \in h.nodes[m.children[2]] : k.op = "num"
      <4>1. n.op = "^"
        BY <3>3, <3>5 DEF OpOf
      <4>2. n.kids[2] \in Classes(g)
        BY <3>1, <3>2, <4>1, NodeCases
      <4>3. NodesAt(g, n.kids[2]) = g.class[n.kids[2]].nodes
        BY <1>2, <4>2 DEF Placed, NodesAt, Find
      <4>4. PICK k \in g.class[n.kids[2]].nodes : IsInteger(k)
        BY <3>1, <4>1, <4>3 DEF ExponentHeld
      <4> DEFINE l == [op |-> OpOf(k), children |-> k.kids]
      <4>5. l \in h.nodes[n.kids[2]] /\ l.op = "num"
        BY <1>1, <4>2, <4>4 DEF OpOf
      <4> QED BY <3>3, <4>5
    <3> QED BY <3>4, <3>5
  <2>5. \A n \in h.nodes[c] : \E k \in g.class[c].nodes :
            n = [op |-> OpOf(k), children |-> k.kids]
    BY <1>1
  <2>6. ASSUME NEW n \in h.nodes[c], NEW m \in h.nodes[c], n.op = "num"
        PROVE  m.op \notin {"frac", "var"}
    <3>1. PICK k \in g.class[c].nodes : n = [op |-> OpOf(k), children |-> k.kids]
      BY <2>5
    <3>2. PICK l \in g.class[c].nodes : m = [op |-> OpOf(l), children |-> l.kids]
      BY <2>5
    <3>3. n.op = OpOf(k) /\ m.op = OpOf(l)
      BY <3>1, <3>2
    <3>4. IsInteger(k)
      BY <2>6, <3>3 DEF OpOf, IsNum
    <3>5. l.op # "var" /\ (l.op = "num" => l = k)
      BY <1>2, <3>4, NumberAlone DEF IsInteger, IsNum
    <3>6. l.op # "frac"
      <4>1. l \in Nodes(Ids(g))
        BY <1>2 DEF Placed, InPlace, Entries
      <4> QED BY <4>1, NodeCases
    <3> QED BY <3>3, <3>4, <3>5, <3>6 DEF OpOf, IsNum
  <2> QED BY <2>1, <2>3, <2>4, <2>5, <2>6 DEF FingerprintValues
<1>6. GoodGraph(h)
  BY <1>1, <1>3, <1>4, <1>5 DEF GoodGraph
<1> QED BY <1>6 DEF h

\* By the oldest id whose class would have no expression.
LEMMA HandedGrounded ==
    ASSUME NEW g, Tidy(g), KidsLead(g), Founded(g), NEW id \in Ids(g),
           NEW fingerprint \in [Classes(g) -> FingerprintValues]
    PROVE  Grounded(Handed(g, id, fingerprint))
<1> DEFINE h == Handed(g, id, fingerprint)
<1>1. /\ DOMAIN h.nodes = Classes(g)
      /\ \A c \in Classes(g) :
            h.nodes[c] = {[op |-> OpOf(n), children |-> n.kids] : n \in g.class[c].nodes}
  BY HandedParts
<1>2. Sound(g) /\ Placed(g)
  BY DEF Tidy
<1> HIDE DEF h
<1>3. ASSUME NEW S \in SUBSET Classes(g),
             \A c \in Classes(g) : (\E n \in h.nodes[c] : Children(n) \subseteq S) => c \in S
      PROVE  S = Classes(g)
  <2> DEFINE Without == {i \in Ids(g) : Find(g, i) \notin S}
  <2>1. ASSUME Without # {} PROVE FALSE
    <3>1. Without \subseteq Nat
      BY DEF Ids
    <3>2. PICK i \in Without : \A j \in Without : i <= j
      <4> HIDE DEF Without
      <4> QED BY <2>1, <3>1, SmallestElement
    <3>3. i \in Ids(g) /\ Find(g, i) \notin S /\ Find(g, i) \in Classes(g)
      BY FindTwice
    <3>4. PICK n \in NodesAt(g, i) : \A k \in DOMAIN n.kids :
            \E j \in Ids(g) : j < i /\ Find(g, j) = Find(g, n.kids[k])
      BY <3>3 DEF Founded
    <3>5. ASSUME NEW k \in DOMAIN n.kids PROVE n.kids[k] \in S
      <4>1. PICK j \in Ids(g) : j < i /\ Find(g, j) = Find(g, n.kids[k])
        BY <3>4
      <4>2. j \notin Without
        <5>1. j \in Nat /\ i \in Nat
          BY <3>3 DEF Ids
        <5> QED BY <3>2, <4>1, <5>1
      <4>3. n.kids[k] \in Classes(g) /\ Find(g, n.kids[k]) = n.kids[k]
        BY <1>2, <3>3 DEF KidsLead, NodesAt, Placed, Find
      <4> QED BY <4>1, <4>2, <4>3
    <3> DEFINE m == [op |-> OpOf(n), children |-> n.kids]
    <3>6. m \in h.nodes[Find(g, i)]
      BY <1>1, <3>3 DEF NodesAt
    <3>7. Children(m) \subseteq S
      BY <3>5 DEF Children
    <3> QED BY <1>3, <3>3, <3>6, <3>7
  <2>2. \A c \in Classes(g) : c \in Ids(g) /\ Find(g, c) = c
    BY <1>2 DEF Sound, Placed, Find
  <2> QED BY <2>1, <2>2
<1>4. Grounded(h)
  BY <1>1, <1>3 DEF Grounded
<1> QED BY <1>4 DEF h

\* What has been proved of the graph and the root, whatever the phase.
HInv == SInv /\ PInv /\ RInv /\ Founded(graph)

LEMMA HInvInit == RunnerInit => HInv
<1>1. RunnerInit => Founded(graph)
  BY EmptyGraphFounded DEF RunnerInit
<1> QED BY <1>1, SInvInit, PInvInit, RInvInit DEF HInv

LEMMA HInvNext ==
    ASSUME AnalysisSound, HInv, [Rewrite \/ HandOver]_runner
    PROVE  HInv'
<1>1. SInv' /\ PInv' /\ RInv'
  BY SInvNext, PInvNext, RInvNext DEF HInv
<1>2. Founded(graph')
  BY FoundedNext DEF HInv
<1>3. Founded(graph)'
  BY <1>2 DEF Founded, Ids, NodesAt, Find
<1> QED BY <1>1, <1>3 DEF HInv

\* The graph that a stopped runner hands over is one that extraction takes up.
HandedOver ==
    phase \in Stopped =>
        \A fingerprint \in [Classes(graph) -> FingerprintValues] :
            /\ GoodGraph(Handed(graph, root, fingerprint))
            /\ Grounded(Handed(graph, root, fingerprint))

\* Whatever the analysis, what Extractor assumes of every e-graph
\* (EGraphAssumption) holds of the graphs that the runner stops with, by
\* saturation or at a limit: so the costs of all classes are found, and
\* find_best of the root does not panic.
THEOREM GraphsHandedOver == AnalysisSound => (SaturationSpec => []HandedOver)
<1> SUFFICES ASSUME AnalysisSound PROVE SaturationSpec => []HandedOver
  OBVIOUS
<1>1. RunnerInit => HInv
  BY HInvInit
<1>2. HInv /\ [Rewrite \/ HandOver]_runner => HInv'
  BY HInvNext
<1>3. ASSUME HInv, phase \in Stopped,
             NEW fingerprint \in [Classes(graph) -> FingerprintValues]
      PROVE  /\ GoodGraph(Handed(graph, root, fingerprint))
             /\ Grounded(Handed(graph, root, fingerprint))
  <2>1. Tidy(graph) /\ KidsLead(graph) /\ Founded(graph) /\ root \in Ids(graph)
    BY <1>3 DEF HInv, SInv, PInv, RInv, Tidy, Stopped
  <2> QED BY <1>3, <2>1, HandedGood, HandedGrounded
<1>4. HInv => HandedOver
  BY <1>3 DEF HandedOver
<1> HIDE DEF HInv, HandedOver
<1> QED BY <1>1, <1>2, <1>4, PTL DEF SaturationSpec

-----------------------------------------------------------------------------
(* What extraction can pick *)

\* An expression picked from class c: every node of it is a node of a class that
\* has been assigned to it, and its children are assigned those of that node.
PickedFrom(g, c, nodes, class) ==
    /\ IsExpression(nodes)
    /\ class \in [DOMAIN nodes -> Classes(g)]
    /\ \A i \in DOMAIN nodes : Subst(nodes[i], class) \in g.class[class[i]].nodes
    /\ class[Len(nodes)] = c

\* It is worth what the class is.
LEMMA PickedWorth ==
    ASSUME NEW g, Sound(g), NEW c, NEW nodes, NEW class, PickedFrom(g, c, nodes, class)
    PROVE  ListWorth(nodes) = g.worth[c]
<1> DEFINE w == [i \in DOMAIN nodes |-> g.worth[class[i]]]
<1>1. IsExpression(nodes) /\ class \in [DOMAIN nodes -> Classes(g)] /\ class[Len(nodes)] = c
  BY DEF PickedFrom
<1>2. Len(nodes) \in DOMAIN nodes
  BY <1>1 DEF IsExpression
<1>3. ASSUME NEW i \in DOMAIN nodes
      PROVE  w[i] = NodeWorth(nodes[i], w)
  <2> DEFINE K == 1 .. 0 + i - 1
             worth == g.worth
  <2>1. nodes[i] \in Nodes(K)
    BY <1>1 DEF IsExpression, IsList
  <2>2. \A k \in K : w[k] = worth[class[k]]
    <3>1. K \subseteq DOMAIN nodes
      BY <1>1 DEF IsExpression
    <3> QED BY <3>1
  <2>3. Subst(nodes[i], class) \in g.class[class[i]].nodes /\ class[i] \in Classes(g)
    BY <1>1 DEF PickedFrom
  <2>4. NodeWorth(Subst(nodes[i], class), g.worth) = g.worth[class[i]]
    BY <2>3 DEF Sound, SoundClass, Entries
  <2>5. w[i] = g.worth[class[i]]
    OBVIOUS
  <2> HIDE DEF K, worth, w
  <2>6. NodeWorth(Subst(nodes[i], class), worth) = NodeWorth(nodes[i], w)
    BY <2>1, <2>2, SubstWorth
  <2> QED BY <2>4, <2>5, <2>6 DEF worth
<1>4. DOMAIN w = DOMAIN nodes /\ w[Len(nodes)] = g.worth[c]
  BY <1>1, <1>2
<1>5. w = [i \in DOMAIN w |-> w[i]]
  OBVIOUS
<1> HIDE DEF w
<1>6. w = [i \in DOMAIN nodes |-> NodeWorth(nodes[i], w)]
  BY <1>3, <1>4, <1>5
<1> QED BY <1>1, <1>4, <1>6, ListWorthIs

\* Every expression that can be picked from the root's class.
PickedRight ==
    phase \in Stopped =>
        \A nodes, class :
            PickedFrom(graph, Find(graph, root), nodes, class) =>
                ListWorth(nodes) = ListWorth(Lowered(baseline))

\* Whatever the analysis and whichever limit stopped the runner, any expression
\* that extraction may pick from the class of the root is worth, at every sample
\* point, what the expression given to the simplifier is worth: the costs
\* decide how good a result is, never whether it is right.
THEOREM ExtractionSound == AnalysisSound => (SaturationSpec => []PickedRight)
<1> SUFFICES ASSUME AnalysisSound PROVE SaturationSpec => []PickedRight
  OBVIOUS
<1>1. RunnerInit => HInv
  BY HInvInit
<1>2. HInv /\ [Rewrite \/ HandOver]_runner => HInv'
  BY HInvNext
<1>3. ASSUME HInv, phase \in Stopped, NEW nodes, NEW class,
             PickedFrom(graph, Find(graph, root), nodes, class)
      PROVE  ListWorth(nodes) = ListWorth(Lowered(baseline))
  <2>1. /\ Sound(graph) /\ root \in Ids(graph)
        /\ graph.worth[root] = ListWorth(Lowered(baseline))
    BY <1>3 DEF HInv, SInv, RInv, Stopped
  <2>2. graph.worth[Find(graph, root)] = graph.worth[root]
    BY <2>1 DEF Sound, Find
  <2> QED BY <1>3, <2>1, <2>2, PickedWorth
<1>4. HInv => PickedRight
  BY <1>3 DEF PickedRight
<1> HIDE DEF HInv, PickedRight
<1> QED BY <1>1, <1>2, <1>4, PTL DEF SaturationSpec

\* simplify_algebra hands over a graph without gaps and loses no value.
THEOREM AlgebraSound == FoldAnalysis => (SaturationSpec => []HandedOver /\ []PickedRight)
BY GraphsHandedOver, ExtractionSound, FoldAnalysisSound

\* So does simplify_symbol_aware.
THEOREM SymbolAwareKept ==
    (\A data : Modify(data) = None) => (SaturationSpec => []HandedOver /\ []PickedRight)
BY GraphsHandedOver, ExtractionSound, NoConstantsSound
=============================================================================
