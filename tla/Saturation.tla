----------------------------- MODULE Saturation -----------------------------
(***************************************************************************)
(* Equality saturation as mpl-rewrite and mpl-rewrite-symbol set it up: an *)
(* expression, lowered to the binary language Lang, is added to an e-graph *)
(* node by node, and egg's Runner searches all rules, applies what it      *)
(* found rule by rule, and rebuilds, until nothing is new or a limit is    *)
(* met.  Matches of one rule come in any order, as egg's hash maps yield   *)
(* them.  The analysis is the parameter of EGraph: constant folding        *)
(* (ConstFold) for simplify_algebra, symbol data (SymbolAnalysis) for      *)
(* simplify_symbol_aware.                                                  *)
(***************************************************************************)
EXTENDS EGraph

CONSTANTS
    Baselines,      \* the expressions that are rewritten
    Lowered(_),     \* lower_expr of an expression's normal form, as a list of nodes
    Modes,          \* a subset of {"Safe", "Aggressive"}
    Bans,           \* sets of rules (by number) that may be banned in an iteration
    IterLimit       \* iters

ASSUME LoweredAssumption ==
    \A e \in Baselines :
        LET nodes == Lowered(e)
        IN  /\ nodes \in Seq(Nodes(Nat)) \ {<<>>} /\ IsList(nodes, 0)
            /\ \A i \in DOMAIN nodes : nodes[i].op = "^" => IsInteger(nodes[nodes[i].kids[2]])

\* The runner's scheduler is egg's default, BackoffScheduler: a rule with more
\* than a thousand matches is left out for some iterations.  A small graph bans
\* none.
ASSUME BansAssumption == {} \in Bans

-----------------------------------------------------------------------------
(* The rules *)

\* In a rule, variables come first: a = 1, b = 2, c = 3.  With two patterns
\* "(* ?a ?b)" and "(* ?a ?c)", which get numbers 4 and 5, their sum is number
\* 6.  The right side starts again after the variables; an empty one is the
\* last variable.
Rule(vars, lhs, rhs) == [vars |-> vars, lhs |-> lhs, rhs |-> rhs]
Bin(op, s, t) == OpNode(op, <<s, t>>)

\* Mutant: adding zero gives zero, as multiplying by it does.
SafeRulesAddZero ==
    <<Rule(1, <<Num(Zero), Bin("+", 1, 2)>>, <<Num(Zero)>>),
      Rule(1, <<Num(Zero), Bin("*", 1, 2)>>, <<Num(Zero)>>),
      Rule(1, <<Num(Zero), Bin("*", 2, 1)>>, <<Num(Zero)>>)>>

SafeRules ==
    <<Rule(1, <<Num(Zero), Bin("+", 1, 2)>>, <<>>),
      Rule(1, <<Num(Zero), Bin("+", 2, 1)>>, <<>>),
      Rule(1, <<Num(One), Bin("*", 1, 2)>>, <<>>),
      Rule(1, <<Num(One), Bin("*", 2, 1)>>, <<>>),
      Rule(1, <<Num(Zero), Bin("*", 1, 2)>>, <<Num(Zero)>>),
      Rule(1, <<Num(Zero), Bin("*", 2, 1)>>, <<Num(Zero)>>),
      Rule(1, <<Num(One), Bin("^", 1, 2)>>, <<>>),
      Rule(1, <<Num(Zero), Bin("^", 1, 2)>>, <<Num(One)>>)>>

\* Mutant: the second rule keeps the common factor and loses another.
AggressiveRulesCrossed ==
    <<Rule(3, <<Bin("*", 1, 2), Bin("*", 1, 3), Bin("+", 4, 5)>>, <<Bin("+", 2, 3), Bin("*", 1, 4)>>),
      Rule(3, <<Bin("*", 2, 1), Bin("*", 3, 1), Bin("+", 4, 5)>>, <<Bin("+", 2, 1), Bin("*", 4, 3)>>)>>

AggressiveRules ==
    <<Rule(3, <<Bin("*", 1, 2), Bin("*", 1, 3), Bin("+", 4, 5)>>, <<Bin("+", 2, 3), Bin("*", 1, 4)>>),
      Rule(3, <<Bin("*", 2, 1), Bin("*", 3, 1), Bin("+", 4, 5)>>, <<Bin("+", 2, 3), Bin("*", 4, 1)>>)>>

RulesForMode(m) == IF m = "Aggressive" THEN SafeRules \o AggressiveRules ELSE SafeRules

-----------------------------------------------------------------------------
VARIABLES
    baseline,   \* the expression given
    mode,       \* the rule set
    graph,      \* the e-graph
    root,       \* the id of the expression
    phase,      \* where the runner is, or why it stopped
    ids,        \* of a list that is being added: what its numbers stand for so far
    match,      \* the match that is being applied
    found,      \* what the search found, one set of matches for each rule
    rule,       \* the rule being applied
    applied,    \* the iteration changed something, or left a banned rule out
    over,       \* the node or time limit was met
    rounds      \* the iterations begun

runner == <<baseline, mode, graph, root, phase, ids, match, found, rule, applied, over, rounds>>

Rules == RulesForMode(mode)
Stopped == {"saturated", "limit"}

RunnerInit ==
    /\ baseline \in Baselines /\ mode \in Modes
    /\ graph = EmptyGraph /\ root = None
    /\ phase = "lower" /\ ids = <<>> /\ match = <<>>
    /\ found = <<>> /\ rule = 1 /\ applied = TRUE /\ over = FALSE /\ rounds = 0

\* The list that is being added, and how many numbers it takes as given.
Adding == phase \in {"lower", "instantiate"}
List == IF phase = "lower" THEN Lowered(baseline) ELSE Rules[rule].rhs
Given == IF phase = "lower" THEN 0 ELSE Rules[rule].vars
ListDone == Len(ids) = Given + Len(List)

\* One turn of add_expr (with_expr, phase "lower") or of apply_pat, which adds
\* the right side of a rule.
AddNext ==
    /\ Adding /\ ~ListDone
    /\ LET added == AddNode(graph, Subst(List[Len(ids) - Given + 1], ids))
       IN  graph' = added.graph /\ ids' = Append(ids, added.id)
    /\ UNCHANGED <<baseline, mode, root, phase, match, found, rule, applied, over, rounds>>

\* The graph is rebuilt before the first iteration.
Start ==
    /\ phase = "lower" /\ ListDone
    /\ root' = ids[Len(ids)]
    /\ phase' = "rebuild" /\ ids' = <<>>
    /\ UNCHANGED <<baseline, mode, graph, match, found, rule, applied, over, rounds>>

\* All rules are searched in the rebuilt graph, unless a limit is met on the
\* way: then nothing is applied.  A banned rule has no matches, and keeps the
\* runner from taking the graph for saturated (can_stop).
Search ==
    /\ phase = "search" /\ rounds < IterLimit
    /\ over' \in BOOLEAN
    /\ \E banned \in Bans :
        /\ found' = IF over' THEN <<>>
                    ELSE [i \in DOMAIN Rules |-> IF i \in banned THEN {}
                                                ELSE Matches(graph, Rules[i])]
        /\ applied' = (banned \cap DOMAIN Rules # {})
    /\ phase' = IF over' THEN "rebuild" ELSE "apply"
    /\ rule' = 1 /\ rounds' = rounds + 1
    /\ UNCHANGED <<baseline, mode, graph, root, ids, match>>

\* A match is taken up.  Its classes are those of the search, whatever earlier
\* matches have united since.
ApplyMatch ==
    /\ phase = "apply" /\ rule <= Len(found)
    /\ \E m \in found[rule] :
        /\ match' = m /\ ids' = [i \in 1 .. Rules[rule].vars |-> m[i]]
        /\ found' = [found EXCEPT ![rule] = @ \ {m}]
    /\ phase' = "instantiate"
    /\ UNCHANGED <<baseline, mode, graph, root, rule, applied, over, rounds>>

\* The right side is united with the class matched.
UniteMatch ==
    /\ phase = "instantiate" /\ ListDone
    /\ LET id == ids[Len(ids)]
           class == match[LhsSize(Rules[rule])]
       IN  /\ graph' = Union(graph, id, class)
           /\ applied' = (applied \/ Find(graph, id) # Find(graph, class))
    /\ phase' = "apply" /\ ids' = <<>> /\ match' = <<>>
    /\ UNCHANGED <<baseline, mode, root, found, rule, over, rounds>>

\* The limits are looked at after each rule.
NextRule ==
    /\ phase = "apply" /\ rule <= Len(found) /\ found[rule] = {}
    /\ over' \in BOOLEAN
    /\ rule' = rule + 1
    /\ phase' = IF over' \/ rule' > Len(found) THEN "rebuild" ELSE "apply"
    /\ found' = IF phase' = "rebuild" THEN <<>> ELSE found
    /\ UNCHANGED <<baseline, mode, graph, root, ids, match, applied, rounds>>

RepairNode ==
    /\ phase = "rebuild" /\ graph.pending # <<>>
    /\ graph' = RepairMemo(graph)
    /\ UNCHANGED <<baseline, mode, root, phase, ids, match, found, rule, applied, over, rounds>>

\* Once nothing is pending the nodes marked for the analysis are made again, in
\* any order, until none is left; only then come the nodes that this left pending.
RepairAnalysis ==
    /\ \/ phase = "rebuild" /\ graph.pending = <<>>
       \/ phase = "reanalyse"
    /\ \E entry \in graph.dirty : graph' = RepairData(graph, entry)
    /\ phase' = IF graph'.dirty = {} THEN "rebuild" ELSE "reanalyse"
    /\ UNCHANGED <<baseline, mode, root, ids, match, found, rule, applied, over, rounds>>

\* The end of run_one, also after a limit.
Rebuilt ==
    /\ phase = "rebuild" /\ Clean(graph)
    /\ graph' = CanonicalNodes(graph)
    /\ phase' = IF over THEN "limit" ELSE IF applied THEN "search" ELSE "saturated"
    /\ rule' = 1
    /\ UNCHANGED <<baseline, mode, root, ids, match, found, applied, over, rounds>>

\* The iteration limit.
LastIteration ==
    /\ phase = "search" /\ rounds >= IterLimit
    /\ phase' = "limit"
    /\ UNCHANGED <<baseline, mode, graph, root, ids, match, found, rule, applied, over, rounds>>

Rewrite ==
    \/ AddNext \/ Start
    \/ Search \/ ApplyMatch \/ UniteMatch \/ NextRule
    \/ RepairNode \/ RepairAnalysis \/ Rebuilt \/ LastIteration

\* The stopped graph is handed to extraction, which does not change it.
HandOver ==
    /\ phase \in Stopped
    /\ phase' = "extracted"
    /\ UNCHANGED <<baseline, mode, graph, root, ids, match, found, rule, applied, over, rounds>>

SaturationSpec == RunnerInit /\ [][Rewrite \/ HandOver]_runner

-----------------------------------------------------------------------------
(* What holds for any analysis *)

\* Whatever the rules, congruence and the analysis unite has one value: the
\* expressions that the ids of one class were made from are worth the same at
\* every sample point, and so is every node of the class, and with it every
\* expression that extraction could find there.  Applying a match that was
\* found before other matches of the iteration were applied keeps it so, and so
\* does a limit that cuts an iteration short.
ClassesSound ==
    /\ \A id \in DOMAIN graph.leader : graph.worth[id] = graph.worth[graph.leader[id]]
    /\ \A c \in Classes(graph) :
        \A n \in graph.class[c].nodes : NodeWorth(n, graph.worth) = graph.worth[c]

\* What the module Extractor takes for granted of an e-graph (EGraphAssumption):
\* an exponent's class still holds the integer it was lowered from, and a class
\* with an integer holds neither another number nor a variable.
ExponentsStayIntegers ==
    phase \in Stopped =>
        \A k \in Classes(graph) : \A n \in graph.class[k].nodes :
            /\ n.op = "^" => \E m \in graph.class[n.kids[2]].nodes : IsInteger(m)
            /\ IsInteger(n) =>
                    \A m \in graph.class[k].nodes : m.op # "var" /\ (m.op = "num" => m = n)
=============================================================================
