----------------------------- MODULE RebuiltGraph -----------------------------
(***************************************************************************)
(* A rebuilt e-graph as extraction reads it: the nodes and the fingerprint *)
(* of each class, and the class of the expression.  Saturation hands such  *)
(* a graph over, and Extractor takes it up.                                *)
(***************************************************************************)
EXTENDS Integers, FiniteSets

\* The nodes of Lang: "num" is a number that fits an exponent, "frac" another.
Leaves == {"num", "frac", "var"}
Unary == {"log", "li2"}
Binary == {"+", "*", "^"}

IsNode(n, classes) ==
    \/ n.op \in Leaves /\ n.children = <<>>
    \/ n.op \in Unary /\ n.children \in [1 .. 1 -> classes]
    \/ n.op \in Binary /\ n.children \in [1 .. 2 -> classes]

Children(n) == {n.children[i] : i \in DOMAIN n.children}

FingerprintKinds == {"ByWeight", "Unknown", "Conflict"}
WeightOutcomes == {"Integrable", "NonIntegrable", "Unknown"}

\* The children of every node are classes; an exponent is lowered from an
\* integer and its class keeps that number.
GoodGraph(g) ==
    /\ IsFiniteSet(DOMAIN g.nodes) /\ g.root \in DOMAIN g.nodes
    /\ DOMAIN g.fingerprint = DOMAIN g.nodes
    /\ \A c \in DOMAIN g.nodes :
        /\ g.fingerprint[c].kind \in FingerprintKinds /\ g.fingerprint[c].weights \subseteq WeightOutcomes
        /\ g.nodes[c] # {}
        /\ \A n \in g.nodes[c] :
            /\ IsNode(n, DOMAIN g.nodes)
            /\ n.op = "^" => \E m \in g.nodes[n.children[2]] : m.op = "num"
        /\ \A n, m \in g.nodes[c] : n.op = "num" => m.op \notin {"frac", "var"}

\* Every class has an expression, however many of its nodes lead back to it.
Grounded(g) ==
    \A S \in SUBSET DOMAIN g.nodes :
        (\A c \in DOMAIN g.nodes : (\E n \in g.nodes[c] : Children(n) \subseteq S) => c \in S)
            => S = DOMAIN g.nodes
=============================================================================
