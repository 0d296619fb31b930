----------------------------- MODULE MCExtractor -----------------------------
(***************************************************************************)
(* Instances of Extractor for TLC: e-graphs the rewrite rules make, with   *)
(* every assignment of fingerprints to the classes that the rules reach.   *)
(***************************************************************************)
EXTENDS Extractor, TLC

Leaf(op) == [op |-> op, children |-> <<>>]
Op(op, l, r) == [op |-> op, children |-> <<l, r>>]
Fn(op, d) == [op |-> op, children |-> <<d>>]

\* (^ (+ (log x) 0) 2) after add-zero; the exponent likewise.
Cycle ==
    [nodes |-> ("x" :> {Leaf("var")}) @@ ("log" :> {Fn("log", "x"), Op("+", "log", "zero")})
               @@ ("zero" :> {Leaf("num")})
               @@ ("two" :> {Leaf("num"), Op("+", "two", "zero")})
               @@ ("top" :> {Op("^", "log", "two")}),
     root |-> "top"]

\* (+ (* x (log x)) (* x (log x))) and (* x (+ (log x) (log x))) after factor-left.
Factor ==
    [nodes |-> ("x" :> {Leaf("var")}) @@ ("log" :> {Fn("log", "x")})
               @@ ("left" :> {Op("*", "x", "log")}) @@ ("sum" :> {Op("+", "log", "log")})
               @@ ("top" :> {Op("+", "left", "left"), Op("*", "x", "sum")}),
     root |-> "top"]

Constant == [kind |-> "ByWeight", weights |-> {}]
Integrable == [kind |-> "ByWeight", weights |-> {"Integrable"}]
NonIntegrable == [kind |-> "ByWeight", weights |-> {"Integrable", "NonIntegrable"}]
Partial == [kind |-> "ByWeight", weights |-> {"NonIntegrable", "Unknown"}]
UnknownFp == [kind |-> "Unknown", weights |-> {}]
Conflict == [kind |-> "Conflict", weights |-> {}]
Kinds == {Constant, Integrable, NonIntegrable, Partial, UnknownFp, Conflict}

\* g with one of kinds[c] as the fingerprint of each class c.
WithFingerprints(g, kinds) ==
    {[nodes |-> g.nodes, root |-> g.root, fingerprint |-> f] :
        f \in {f \in [DOMAIN g.nodes -> Kinds] : \A c \in DOMAIN f : f[c] \in kinds[c]}}

MCEGraphs ==
    WithFingerprints(Cycle,
        [c \in DOMAIN Cycle.nodes |->
            CASE c = "log" -> {Integrable, UnknownFp} [] c = "top" -> {NonIntegrable, Conflict}
              [] c = "two" -> {Constant, UnknownFp} [] OTHER -> {Constant}]) \cup
    WithFingerprints(Factor,
        [c \in DOMAIN Factor.nodes |->
            CASE c = "log" -> {Integrable} [] c = "x" -> {Constant}
              [] OTHER -> {Integrable, Partial}])

\* A hash with collisions that is not monotone in the ties of the children.
MCTies == 0 .. 4
MCTieHash(op, ties) ==
    LET code == CASE op = "+" -> 3 [] op = "*" -> 1 [] op = "var" -> 2 [] op = "num" -> 3
                  [] OTHER -> 0
    IN  (code + 3 * FoldSeq(LAMBDA t, acc : 2 * acc + t, 0, ties)) % 5
=============================================================================
