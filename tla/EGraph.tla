------------------------------- MODULE EGraph -------------------------------
(***************************************************************************)
(* The e-graph of egg 0.9.5, which mpl-rewrite and mpl-rewrite-symbol      *)
(* build on: a union-find over ids, the classes of equal nodes, the memo   *)
(* that finds a node's class, and the two lists of repairs that a union    *)
(* leaves to the next rebuild.  Modelled from its use, with the calls it   *)
(* makes to the analysis (make, merge, modify) where egg makes them; the   *)
(* analysis itself is a parameter.  A graph is a value; no state is kept   *)
(* here.                                                                   *)
(***************************************************************************)
EXTENDS Coefficients, FiniteSets, SequencesExt, TLC

CONSTANTS
    Make(_, _),     \* the data of a node, from the data of its children
    Merge(_, _),    \* [data, changed] of a class that takes in another's data
    Modify(_)       \* the number modify adds to a class with that data, or None

\* What an expression is worth is history, kept to state what classes are.
CONSTANTS
    Names,              \* the names of variables
    Points,             \* sample points, each with a value for every name
    Opaque(_, _),       \* log and li2 as functions of their argument's value
    ExponentOf(_),      \* the integer that a number is and that fits i32, or None
    Undefined(_, _)     \* a value given to a power that has none

ASSUME ValuesAssumption ==
    /\ None \notin Coeff /\ None \notin Int
    /\ \A p \in Points : \A v \in Names : p[v] \in Coeff
    /\ \A op \in {"log", "li2"} : \A x \in Coeff : Opaque(op, x) \in Coeff
    /\ \A x \in Coeff : ExponentOf(x) \in Int \cup {None}
    /\ ExponentOf(Zero) = 0 /\ ExponentOf(One) = 1
    /\ \A x, y \in Coeff : Undefined(x, y) \in Coeff

\* The sample points tell a variable from a number.
ASSUME PointsAssumption ==
    Points # {} /\ \A v \in Names : \E p, q \in Points : p[v] # q[v]

-----------------------------------------------------------------------------
(* Nodes *)

\* A node of Lang: its operator, the number or name of a leaf, and its children.
LeafNode(op, val) == [op |-> op, val |-> val, kids |-> <<>>]
OpNode(op, kids) == [op |-> op, val |-> 0, kids |-> kids]
Num(c) == LeafNode("num", c)

\* A number that can be an exponent.
IsInteger(n) == n.op = "num" /\ ExponentOf(n.val) # None

\* The nodes with children in K.
Nodes(K) ==
    [op : {"num"}, val : Coeff, kids : [1 .. 0 -> K]]
    \cup [op : {"var"}, val : Names, kids : [1 .. 0 -> K]]
    \cup [op : {"+", "*", "^"}, val : {0}, kids : [1 .. 2 -> K]]
    \cup [op : {"log", "li2"}, val : {0}, kids : [1 .. 1 -> K]]

\* A node whose children are named by their place in ids.
Subst(n, ids) == [n EXCEPT !.kids = [i \in DOMAIN @ |-> ids[@[i]]]]

\* Expressions and patterns are lists of nodes, children first (RecExpr): the
\* children of a node are numbers of nodes before it, or of variables, which
\* have the first numbers.
IsList(nodes, variables) ==
    \A i \in DOMAIN nodes : nodes[i] \in Nodes(1 .. variables + i - 1)

-----------------------------------------------------------------------------
(* What a node is worth *)

PowDefined(x, y) ==
    ExponentOf(y) # None /\ ~(ExponentOf(y) < 0 /\ x = Zero)

\* At sample point p, from the values of the children.
ValueOf(op, val, args, p) ==
    CASE op = "num" -> val
      [] op = "var" -> p[val]
      [] op = "+" -> Plus(args[1], args[2])
      [] op = "*" -> Times(args[1], args[2])
      [] op = "^" -> IF PowDefined(args[1], args[2]) THEN IntPower(args[1], ExponentOf(args[2]))
                     ELSE Undefined(args[1], args[2])
      [] op \in {"log", "li2"} -> Opaque(op, args[1])

NodeWorth(n, worth) ==
    [p \in Points |->
        ValueOf(n.op, n.val, [i \in DOMAIN n.kids |-> worth[n.kids[i]][p]], p)]

\* The sample points where the node has a value of its own.
NodeDefined(n, worth, defined) ==
    {p \in Points :
        /\ \A i \in DOMAIN n.kids : p \in defined[n.kids[i]]
        /\ n.op = "^" => PowDefined(worth[n.kids[1]][p], worth[n.kids[2]][p])}

-----------------------------------------------------------------------------
(* Adding and uniting *)

\* "worth" and "defined" are history: the values of the expression each id was
\* made from.
EmptyGraph ==
    [leader |-> <<>>, class |-> <<>>, memo |-> <<>>, pending |-> <<>>, dirty |-> {},
     worth |-> <<>>, defined |-> <<>>]

Classes(g) == DOMAIN g.class
Find(g, id) == g.leader[id]
Canonical(g, n) == Subst(n, g.leader)
NodeData(g, n) == Make(n, [i \in DOMAIN n.kids |-> g.class[Find(g, n.kids[i])].data])

\* What class c's parents gain from a node of class id: one entry for each use.
Uses(n, c, id) ==
    [i \in 1 .. Cardinality({j \in DOMAIN n.kids : n.kids[j] = c}) |-> <<n, id>>]

Put(memo, n, id) == [m \in DOMAIN memo \cup {n} |-> IF m = n THEN id ELSE memo[m]]

\* make_new_eclass, for a canonical node that the memo does not hold.
NewClass(g, n) ==
    LET id == Len(g.leader) + 1
        new == [nodes |-> {n}, parents |-> <<>>, data |-> NodeData(g, n)]
    IN  [leader |-> Append(g.leader, id),
         class |-> [c \in Classes(g) \cup {id} |->
                        IF c = id THEN new
                        ELSE [g.class[c] EXCEPT !.parents = @ \o Uses(n, c, id)]],
         memo |-> Put(g.memo, n, id),
         pending |-> Append(g.pending, <<n, id>>),
         dirty |-> g.dirty,
         worth |-> Append(g.worth, NodeWorth(n, g.worth)),
         defined |-> Append(g.defined, NodeDefined(n, g.worth, g.defined))]

\* perform_union of the classes x and y, up to its call of modify: the one with
\* fewer parents is taken in by the other.  Only the parents of the survivor
\* are marked for the analysis: both analyses answer DidMerge(_, false).
Survivor(g, x, y) ==
    IF Len(g.class[x].parents) < Len(g.class[y].parents) THEN y ELSE x

Join(g, x, y) ==
    LET into == Survivor(g, x, y)
        gone == IF into = x THEN y ELSE x
        merged == Merge(g.class[into].data, g.class[gone].data)
        joined == [nodes |-> g.class[into].nodes \cup g.class[gone].nodes,
                   parents |-> g.class[into].parents \o g.class[gone].parents,
                   data |-> merged.data]
    IN  [g EXCEPT
            !.leader = [i \in DOMAIN @ |-> IF @[i] = gone THEN into ELSE @[i]],
            !.class = [c \in Classes(g) \ {gone} |-> IF c = into THEN joined ELSE @[c]],
            !.pending = @ \o g.class[gone].parents,
            !.dirty = IF merged.changed THEN @ \cup ToSet(g.class[into].parents) ELSE @]

JoinIds(g, a, b) ==
    IF Find(g, a) = Find(g, b) THEN g ELSE Join(g, Find(g, a), Find(g, b))

\* [graph, id] after looking a canonical node up and adding it if it is new.
Enter(g, n) ==
    IF n \in DOMAIN g.memo THEN [graph |-> g, id |-> Find(g, g.memo[n])]
    ELSE [graph |-> NewClass(g, n), id |-> Len(g.leader) + 1]

\* The call of modify for a class: its constant is added and united with it.
\* Both call modify in turn, for classes in which it finds that constant.
ModifyClass(g, id) ==
    LET const == Modify(g.class[Find(g, id)].data)
        leaf == Enter(g, Num(const))
    IN  IF const = None THEN g ELSE JoinIds(leaf.graph, id, leaf.id)

\* [graph, id] after EGraph::add.
AddNode(g, n) ==
    LET node == Canonical(g, n)
        id == Len(g.leader) + 1
        added == ModifyClass(NewClass(g, node), id)
    IN  IF node \in DOMAIN g.memo THEN Enter(g, node)
        ELSE [graph |-> added, id |-> Find(added, id)]

Union(g, a, b) ==
    IF Find(g, a) = Find(g, b) THEN g ELSE ModifyClass(JoinIds(g, a, b), a)

-----------------------------------------------------------------------------
(* Rebuilding: process_unions and rebuild_classes *)

Clean(g) == g.pending = <<>> /\ g.dirty = {}

\* The last pending node is made canonical; if the memo has it in another
\* class, the two classes are congruent.
RepairMemo(g) ==
    LET n == Canonical(g, g.pending[Len(g.pending)][1])
        id == g.pending[Len(g.pending)][2]
        h == [g EXCEPT !.pending = Front(@), !.memo = Put(@, n, id)]
    IN  IF n \in DOMAIN g.memo THEN Union(h, g.memo[n], id) ELSE h

\* The data of a marked node is made again and merged into its class.
RepairData(g, entry) ==
    LET id == Find(g, entry[2])
        merged == Merge(g.class[id].data, NodeData(g, entry[1]))
        h == [g EXCEPT !.dirty = @ \ {entry}, !.class[id].data = merged.data]
    IN  IF merged.changed
        THEN ModifyClass([h EXCEPT !.dirty = @ \cup ToSet(g.class[id].parents)], id)
        ELSE h

CanonicalClass(g, class) == [class EXCEPT !.nodes = {Canonical(g, n) : n \in @}]

CanonicalNodes(g) == [g EXCEPT !.class = [c \in DOMAIN @ |-> CanonicalClass(g, @[c])]]

-----------------------------------------------------------------------------
(* Searching *)

\* A rule's variables have the numbers up to r.vars; r.lhs and r.rhs are lists.
\* A match names a class for each variable and node of the left side.
LhsSize(r) == r.vars + Len(r.lhs)

IsMatch(g, r, m) ==
    /\ m \in [1 .. LhsSize(r) -> Classes(g)]
    /\ \A i \in DOMAIN r.lhs : Subst(r.lhs[i], m) \in g.class[m[r.vars + i]].nodes

\* The assignments worth a look: from the root of the left side down, a node of
\* the class assigned gives the classes of its children.
Candidates(g, r) ==
    LET Bind(q, n) == [k \in ToSet(q.kids) |-> n.kids[CHOOSE i \in DOMAIN n.kids : q.kids[i] = k]]
        Like(q, c) == {n \in g.class[c].nodes : n.op = q.op /\ n.val = q.val}
        from[i \in r.vars .. LhsSize(r)] ==
            IF i = LhsSize(r) THEN {i :> c : c \in Classes(g)}
            ELSE LET q == r.lhs[i + 1 - r.vars]
                 IN  UNION {{m @@ Bind(q, n) : n \in Like(q, m[i + 1])} : m \in from[i + 1]}
    IN  from[r.vars]

Matches(g, r) == {m \in Candidates(g, r) : IsMatch(g, r, m)}
=============================================================================
