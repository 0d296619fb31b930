------------------------------ MODULE Extractor ------------------------------
(***************************************************************************)
(* Extraction of simplify_symbol_aware: egg's Extractor relaxes the cost   *)
(* of every class with SymbolCostFn, pass by pass and class by class, until*)
(* a pass changes nothing; then find_best builds the expression bottom up  *)
(* from the node recorded for each class, and lift_expr turns it back.     *)
(* The cost is not monotone in the costs of the children (a child may get  *)
(* a smaller penalty and a larger size, and ties are hashes), so recorded  *)
(* costs may be stale; the properties are what holds all the same.         *)
(* The loops of egg 0.9.5 are modelled from their use.                     *)
(***************************************************************************)
EXTENDS RebuiltGraph, SequencesExt

CONSTANTS
    EGraphs,            \* rebuilt e-graphs: nodes and fingerprint by class, root
    UnknownPenalty, NonIntegrablePenalty, ConflictPenalty,  \* PenaltyConfig
    Ties,               \* the hash values
    TieHash(_, _)       \* tie_hash of an operator and the ties of the children

ASSUME EGraphAssumption ==
    /\ UnknownPenalty \in Nat /\ NonIntegrablePenalty \in Nat /\ ConflictPenalty \in Nat
    /\ Ties \subseteq Nat
    /\ \A op \in Leaves : TieHash(op, <<>>) \in Ties
    /\ \A op \in Unary : \A a \in Ties : TieHash(op, <<a>>) \in Ties
    /\ \A op \in Binary : \A a, b \in Ties : TieHash(op, <<a, b>>) \in Ties
    /\ \A g \in EGraphs : GoodGraph(g) /\ Grounded(g)

VARIABLES
    egraph,     \* the e-graph, fixed
    order,      \* the order in which egg visits the classes in each pass
    status,     \* "relax", "build", or how the extraction ended
    at,         \* the next class of the pass
    changed,    \* did_something
    costs,      \* class -> the best cost so far and the node that gave it
    todo,       \* build_recexpr: the stack of classes
    built       \* the classes whose node is in the expression

vars == <<egraph, order, status, at, changed, costs, todo, built>>

Classes == DOMAIN egraph.nodes

-----------------------------------------------------------------------------
(* SymbolCostFn *)

\* Mutant: the size is compared before the penalty.
LessBySize(a, b) ==
    \/ a.size < b.size
    \/ a.size = b.size /\ (a.penalty < b.penalty \/ (a.penalty = b.penalty /\ a.tie < b.tie))

\* Mutant: the tie is compared before the size.
LessByTie(a, b) ==
    \/ a.penalty < b.penalty
    \/ a.penalty = b.penalty /\ (a.tie < b.tie \/ (a.tie = b.tie /\ a.size < b.size))

\* The order of SymbolCost: penalty, then size, then tie.
Less(a, b) ==
    \/ a.penalty < b.penalty
    \/ a.penalty = b.penalty /\ (a.size < b.size \/ (a.size = b.size /\ a.tie < b.tie))

WeightPenalty(outcome) ==
    CASE outcome = "Integrable" -> 0
      [] outcome = "NonIntegrable" -> NonIntegrablePenalty
      [] outcome = "Unknown" -> UnknownPenalty

\* penalty_from_fingerprint; the fingerprint is the class', one for its nodes.
Penalty(fp) ==
    CASE fp.kind = "Unknown" -> UnknownPenalty
      [] fp.kind = "Conflict" -> ConflictPenalty
      [] fp.kind = "ByWeight" -> Max({0} \cup {WeightPenalty(o) : o \in fp.weights})

LocalPenalty(c) == Penalty(egraph.fingerprint[c])

\* The size of the children, of which Lang has at most two.
ChildSize(n) ==
    CASE n.children = <<>> -> 0
      [] n.op \in Unary -> costs[n.children[1]].cost.size
      [] n.op \in Binary -> costs[n.children[1]].cost.size + costs[n.children[2]].cost.size

\* Mutant: the node itself has no size.
CostOfChildren(c, n) ==
    [penalty |-> Max({LocalPenalty(c)} \cup {costs[d].cost.penalty : d \in Children(n)}),
     size |-> ChildSize(n),
     tie |-> TieHash(n.op, [i \in DOMAIN n.children |-> costs[n.children[i]].cost.tie])]

\* The cost of node n of class c from the recorded costs of its children.
Cost(c, n) ==
    [penalty |-> Max({LocalPenalty(c)} \cup {costs[d].cost.penalty : d \in Children(n)}),
     size |-> 1 + ChildSize(n),
     tie |-> TieHash(n.op, [i \in DOMAIN n.children |-> costs[n.children[i]].cost.tie])]

-----------------------------------------------------------------------------
(* The relaxation *)

Init ==
    /\ egraph \in EGraphs
    /\ order \in [1 .. Cardinality(Classes) -> Classes]
    /\ {order[i] : i \in DOMAIN order} = Classes
    /\ status = "relax" /\ at = 1 /\ changed = FALSE
    /\ costs = [c \in {} |-> 0]
    /\ todo = <<>> /\ built = {}

\* make_pass: the nodes whose children all have a cost, and the cheapest ones.
Priced(c) == {n \in egraph.nodes[c] : Children(n) \subseteq DOMAIN costs}
Cheapest(c) == {n \in Priced(c) : \A m \in Priced(c) : ~Less(Cost(c, m), Cost(c, n))}

\* Mutant: an equal cost counts as an improvement.
ImprovesOrTies(c, n) == c \in DOMAIN costs => ~Less(costs[c].cost, Cost(c, n))

\* Node n gives class c its first cost, or a lower one.
Improves(c, n) == c \in DOMAIN costs => Less(Cost(c, n), costs[c].cost)

Improve ==
    /\ status = "relax" /\ at <= Len(order)
    /\ \E n \in Cheapest(order[at]) :
        /\ Improves(order[at], n)
        /\ costs' = [c \in DOMAIN costs \cup {order[at]} |->
                        IF c = order[at] THEN [cost |-> Cost(c, n), node |-> n] ELSE costs[c]]
    /\ changed' = TRUE
    /\ at' = at + 1
    /\ UNCHANGED <<egraph, order, status, todo, built>>

Keep ==
    /\ status = "relax" /\ at <= Len(order)
    /\ \A n \in Cheapest(order[at]) : ~Improves(order[at], n)
    /\ at' = at + 1
    /\ UNCHANGED <<egraph, order, status, changed, costs, todo, built>>

NextPass ==
    /\ status = "relax" /\ at > Len(order) /\ changed
    /\ at' = 1 /\ changed' = FALSE
    /\ UNCHANGED <<egraph, order, status, costs, todo, built>>

-----------------------------------------------------------------------------
(* find_best and lift_expr *)

\* A pass changed nothing; find_best indexes the costs with the root.
FindBest ==
    /\ status = "relax" /\ at > Len(order) /\ ~changed
    /\ IF egraph.root \in DOMAIN costs
       THEN status' = "build" /\ todo' = <<egraph.root>>
       ELSE status' = "panic" /\ UNCHANGED todo
    /\ UNCHANGED <<egraph, order, at, changed, costs, built>>

Top == Last(todo)
BestChildren(c) == Children(costs[c].node)

\* The class was built below another one in the meantime.
Pop ==
    /\ status = "build" /\ todo # <<>> /\ Top \in built
    /\ todo' = Front(todo)
    /\ UNCHANGED <<egraph, order, status, at, changed, costs, built>>

\* The children still to build: one at least, so of two at most one is left out.
Missing(children) ==
    IF \A i \in DOMAIN children : children[i] \notin built THEN children
    ELSE <<CHOOSE c \in {children[i] : i \in DOMAIN children} : c \notin built>>

\* They go on the stack, above their parent.
Push ==
    /\ status = "build" /\ todo # <<>> /\ Top \notin built
    /\ ~(BestChildren(Top) \subseteq built)
    /\ todo' = todo \o Missing(costs[Top].node.children)
    /\ UNCHANGED <<egraph, order, status, at, changed, costs, built>>

Build ==
    /\ status = "build" /\ todo # <<>> /\ Top \notin built
    /\ BestChildren(Top) \subseteq built
    /\ built' = built \cup {Top}
    /\ todo' = Front(todo)
    /\ UNCHANGED <<egraph, order, status, at, changed, costs>>

\* lift_expr accepts a power only if its exponent is an integer that fits.
Lift ==
    /\ status = "build" /\ todo = <<>>
    /\ status' = IF \E c \in built : /\ costs[c].node.op = "^"
                                     /\ costs[costs[c].node.children[2]].node.op # "num"
                 THEN "InvalidExponent" ELSE "ok"
    /\ UNCHANGED <<egraph, order, at, changed, costs, todo, built>>

Ended == {"ok", "InvalidExponent", "panic"}
Returned == status \in Ended /\ UNCHANGED vars

Step == Improve \/ Keep \/ NextPass \/ FindBest \/ Pop \/ Push \/ Build \/ Lift
Next == Step \/ Returned

Spec == Init /\ [][Next]_vars

\* One thread runs the extraction to its end.
FairSpec == Spec /\ WF_vars(Step)

-----------------------------------------------------------------------------
(* Properties *)

\* Types; a class gets a cost only from a node whose children have one.
TypeOK ==
    /\ status \in {"relax", "build"} \cup Ended
    /\ at \in 1 .. Len(order) + 1
    /\ DOMAIN costs \subseteq Classes
    /\ \A c \in DOMAIN costs :
        /\ costs[c].cost \in [penalty : Nat, size : Nat, tie : Ties]
        /\ costs[c].node \in Priced(c)

\* Along the recorded nodes the recorded cost falls strictly, although it may
\* be stale: no class is reached from itself, so build_recexpr cannot go round
\* in a circle.
BestDescends ==
    \A c \in DOMAIN costs : \A d \in BestChildren(c) : Less(costs[d].cost, costs[c].cost)

\* A set of classes is closed under p when it holds every class that has an
\* expression over it and no penalty of its own above p.
Closed(S, p) ==
    \A c \in Classes :
        LocalPenalty(c) <= p /\ (\E n \in egraph.nodes[c] : Children(n) \subseteq S) => c \in S

\* The class has an expression all of whose classes have penalty at most p.
Within(c, p) == \A S \in SUBSET Classes : Closed(S, p) => c \in S

\* The penalty is never underestimated on the way, and exact at the end: no
\* expression of a class has a lower one, whatever order classes are visited in
\* and however stale the sizes are.
PenaltyExact ==
    \A c \in Classes :
        /\ c \in DOMAIN costs => Within(c, costs[c].cost.penalty)
        /\ status \notin {"relax"} =>
            \A p \in {LocalPenalty(d) : d \in Classes} :
                Within(c, p) => c \in DOMAIN costs /\ costs[c].cost.penalty <= p

\* A class with a number keeps it as its best node, in whatever order the
\* class' other nodes get their costs: lift_expr never meets an exponent that
\* is not a number.
NumbersStay ==
    /\ \A c \in DOMAIN costs :
        (\E n \in egraph.nodes[c] : n.op = "num") => costs[c].node.op = "num"
    /\ status # "InvalidExponent"

\* The extraction ends, with an expression for the root.
Extracts == <>(status = "ok" /\ egraph.root \in built)
=============================================================================
