--------------------------- MODULE SimplifyAlgebra ---------------------------
(***************************************************************************)
(* mpl_rewrite::simplify_algebra: equality saturation with constant        *)
(* folding, then the smallest expression of the root's class, lifted back  *)
(* and normalised.                                                         *)
(***************************************************************************)
EXTENDS ConstFold, Lowering

CONSTANT InvalidExponent        \* RewriteError::InvalidExponent

-----------------------------------------------------------------------------
(* extract_best with AstSize, and lift_expr *)

NodeSize(sizes, n) == FoldLeft(LAMBDA sum, k : sum + sizes[k], 1, n.kids)

\* The nodes of class k whose children all have a size.
Sized(g, sizes, k) == {n \in g.class[k].nodes : ToSet(n.kids) \subseteq DOMAIN sizes}

RECURSIVE Sizes(_, _)

\* The size of the smallest tree of each class: passes until nothing changes.
Sizes(g, sizes) ==
    LET next == [k \in {k \in Classes(g) : Sized(g, sizes, k) # {}} |->
                    Min({NodeSize(sizes, n) : n \in Sized(g, sizes, k)})]
    IN  IF next = sizes THEN sizes ELSE Sizes(g, next)

RECURSIVE SmallestTrees(_, _, _)

\* The smallest trees of class k.  egg keeps the node it met first.
SmallestTrees(g, sizes, k) ==
    LET Extend(trees, i, n) ==
            {Append(t, u) : t \in trees, u \in SmallestTrees(g, sizes, n.kids[i])}
    IN  UNION {{[n EXCEPT !.kids = t] :
                    t \in FoldLeft(LAMBDA acc, i : Extend(acc, i, n), {<<>>},
                                   [i \in DOMAIN n.kids |-> i])} :
               n \in {n \in Sized(g, sizes, k) : NodeSize(sizes, n) = sizes[k]}}

RECURSIVE Subtrees(_)
Subtrees(t) == {t} \cup UNION {Subtrees(t.kids[i]) : i \in DOMAIN t.kids}

\* The exponents of the tree are numbers and fit.
Liftable(t) ==
    \A s \in Subtrees(t) : s.op = "^" => IsInteger(s.kids[2])

RECURSIVE Lift(_)
Lift(t) ==
    CASE t.op = "num" -> Rat(t.val)
      [] t.op = "var" -> Var(t.val)
      [] t.op = "+" -> Add(<<Lift(t.kids[1]), Lift(t.kids[2])>>)
      [] t.op = "*" -> Mul(<<Lift(t.kids[1]), Lift(t.kids[2])>>)
      [] t.op = "^" -> Pow(Lift(t.kids[1]), ExponentOf(t.kids[2].val))
      [] t.op \in {"log", "li2"} -> [op |-> t.op, arg |-> Lift(t.kids[1])]

\* Mutant: the lifted tree is returned as it is.
LiftExprRaw(t) == IF Liftable(t) THEN Lift(t) ELSE InvalidExponent

\* lift_expr, which normalises.
LiftExpr(t) == IF Liftable(t) THEN Norm(Lift(t)) ELSE InvalidExponent

-----------------------------------------------------------------------------
VARIABLE candidate      \* what simplify_algebra returns

vars == <<runner, candidate>>

Init == RunnerInit /\ candidate = None

Extract ==
    /\ HandOver
    /\ \E t \in SmallestTrees(graph, Sizes(graph, <<>>), Find(graph, root)) :
        candidate' = LiftExpr(t)

Step == (Rewrite /\ UNCHANGED candidate) \/ Extract
Returned == phase = "extracted" /\ UNCHANGED vars
Next == Step \/ Returned

Spec == Init /\ [][Next]_vars

\* One thread rewrites and waits for nothing: weak fairness of Step, which can
\* be taken until the expression is extracted (no state deadlocks before).
Fairness == []<>(phase = "extracted") \/ []<><<TRUE>>_vars
FairSpec == Spec /\ Fairness

-----------------------------------------------------------------------------
(* Properties *)

\* Simplifying keeps the value: the result is an expression, and has the
\* baseline's value wherever the baseline has one.
ValueKept ==
    phase = "extracted" =>
        /\ candidate # InvalidExponent
        /\ Refines(Lower(candidate), Lower(baseline))

\* Nothing is left to fold in the result, except a power of zero.  Folding in
\* the e-graph is incomplete: the parents of a class taken in by one with a
\* constant are not analysed again, since merge reports that the class taken in
\* did not change.
NothingLeftToFold ==
    phase = "extracted" =>
        \A t \in Subterms(candidate) :
            t.op \in {"add", "mul", "neg", "pow"} /\ (t.op = "pow" => t.arg # Rat(Zero))
                => \E i \in DOMAIN Operands(t) : Operands(t)[i].op # "rat"

\* The run ends and returns: rebuilding after any union comes to an end, and
\* the analysis settles.
Returns == <>(phase = "extracted")
=============================================================================
