------------------------------ MODULE ConstFold ------------------------------
(***************************************************************************)
(* The analysis of simplify_algebra: the data of a class is its constant,  *)
(* or None.  Make, Merge and Modify of EGraph are the operators FoldMake,  *)
(* FoldMerge and FoldModify below.                                         *)
(***************************************************************************)
EXTENDS Saturation

\* Mutant: the sign of the exponent is lost.
FoldPowUnsigned(base, exp) ==
    LET n == ExponentOf(exp)
    IN  IF n = None \/ (n < 0 /\ base = Zero) THEN None ELSE Power(base, Max({n, 0 - n}))

FoldPow(base, exp) ==
    LET n == ExponentOf(exp)
    IN  IF n = None \/ (n < 0 /\ base = Zero) THEN None ELSE IntPower(base, n)

FoldMake(n, data) ==
    CASE n.op = "num" -> n.val
      [] n.op \in {"var", "log", "li2"} -> None
      [] n.op \in {"+", "*", "^"} ->
            CASE None \in {data[1], data[2]} -> None
              [] n.op = "+" /\ None \notin {data[1], data[2]} -> Plus(data[1], data[2])
              [] n.op = "*" /\ None \notin {data[1], data[2]} -> Times(data[1], data[2])
              [] n.op = "^" /\ None \notin {data[1], data[2]} -> FoldPow(data[1], data[2])

\* Mutant: every merge is reported as a change.
FoldMergeAlwaysChanged(to, from) ==
    [data |-> IF to = None THEN from ELSE to, changed |-> TRUE]

FoldMerge(to, from) ==
    LET merged == IF to = None THEN from ELSE to
    IN  [data |-> merged, changed |-> merged # to]

\* Mutant: constants are not added to their classes.
FoldModifyNothing(data) == None

FoldModify(data) == data

\* Folding is exact although merge keeps one constant without a look at the
\* other: a class' constant is what its ids are worth, and the class holds that
\* number and no other.  A class without a constant holds no number.
ConstantsExact ==
    \A c \in Classes(graph) :
        LET data == graph.class[c].data
        IN  /\ data # None => \A p \in Points : graph.worth[c][p] = data
            /\ {n.val : n \in {n \in graph.class[c].nodes : n.op = "num"}} =
                    (IF data = None THEN {} ELSE {data})
=============================================================================
