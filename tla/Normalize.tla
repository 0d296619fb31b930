------------------------------ MODULE Normalize ------------------------------
(***************************************************************************)
(* An expression that is normalised again and again, as the pipeline does  *)
(* before and after rewriting.                                             *)
(***************************************************************************)
EXTENDS CanonicalForm

CONSTANTS
    Inputs,             \* the expressions that are normalised
    Envs                \* sample points, for the properties

VARIABLES
    input,      \* the expression parsed
    expr,       \* what has become of it
    fresh       \* it was not normalised yet

vars == <<input, expr, fresh>>

Init == input \in Inputs /\ expr = input /\ fresh = TRUE

\* One call of normalize.
Normalise ==
    /\ expr' = Norm(expr)
    /\ fresh' = FALSE
    /\ UNCHANGED input

Next == Normalise

Spec == Init /\ [][Next]_vars

-----------------------------------------------------------------------------
(* mpl-verify *)

\* equiv_on_samples: both have a value, and the same one, on every sample.
EquivOnSamples(a, b, samples) ==
    \A i \in DOMAIN samples :
        Eval(a, samples[i]) \notin Errors /\ Eval(b, samples[i]) = Eval(a, samples[i])

-----------------------------------------------------------------------------
(* Properties *)

\* The expression with the operands of every sum and product reversed.
RECURSIVE Mirror(_)
Mirror(e) ==
    CASE e.op \in {"add", "mul"} ->
            [e EXCEPT !.args = Reverse([i \in DOMAIN @ |-> Mirror(@[i])])]
      [] e.op \in {"neg", "pow", "log", "li2"} -> [e EXCEPT !.arg = Mirror(@)]
      [] OTHER -> e

\* An upper bound on the exponents, in magnitude, that merging and nesting of
\* powers can make.
RECURSIVE Reach(_)
Reach(e) ==
    CASE e.op = "pow" -> Reach(e.arg) * (IF e.exp < 0 THEN 0 - e.exp ELSE e.exp)
      [] e.op \in {"rat", "var"} -> 1
      [] OTHER -> FoldLeft(LAMBDA n, a : n + Reach(a), 1, Operands(e))

\* No exponent can overflow.
InRange == Reach(input) <= MaxExp

\* Types: coefficients are coefficients, and no exponent leaves the i32 range
\* however often powers are merged (accumulate_pow) or nested (normalize_pow).
TypeOK ==
    \A t \in Subterms(expr) : /\ t.op = "rat" => t.val \in Coeff
                              /\ t.op = "pow" => t.exp \in Exponents

\* Normalising keeps the value: on samples where the input can be evaluated,
\* equiv_on_samples of mpl-verify accepts the result, also when exponents
\* overflow and factors are set aside; on a sample where it cannot, never.
SameValue ==
    \A env \in Envs : EquivOnSamples(input, expr, <<env>>) <=> Eval(input, env) \notin Errors

\* Commuting operands normalise alike: normalize of an expression does not
\* depend on the order in which its sums and products were written, although
\* normalize_mul takes factors off a stack and reads them back from a hash map.  (Which factor is
\* set aside when exponents overflow does depend on it.)
OrderBlind == fresh /\ InRange => Norm(expr) = Norm(Mirror(expr))

\* Normalising never makes an expression larger, and normalising again either
\* changes nothing or makes it smaller; so repeated calls reach a fixpoint,
\* although one call may not.
Shrinks ==
    [][InRange => /\ Size(expr') <= Size(expr)
                  /\ fresh \/ expr' = expr \/ Size(expr') < Size(expr)]_vars

NoneTwice(s) == \A i, j \in DOMAIN s : s[i] = s[j] => i = j

BaseOf(e) == IF e.op = "pow" THEN e.arg ELSE e

\* What normalisation leaves alone has the form that docs/canonical_form.md
\* describes: no sum in a sum and no product or negation in a product, at most
\* one rational operand and that one first, no base twice in a product, no
\* operand list shorter than two.
FixpointsCanonical ==
    ~fresh /\ InRange /\ Norm(expr) = expr =>
        \A t \in Subterms(expr) : t.op \in {"add", "mul"} =>
            /\ Len(t.args) >= 2
            /\ \A i \in DOMAIN t.args : /\ t.args[i].op # t.op
                                        /\ t.args[i].op = "rat" => i = 1
            /\ t.op = "mul" => /\ \A i \in DOMAIN t.args : t.args[i].op # "neg"
                               /\ NoneTwice([i \in DOMAIN t.args |-> BaseOf(t.args[i])])

\* docs/canonical_form.md promises "Idempotence: N(N(E)) = N(E)".  The code
\* breaks it where the powers merged in a product leave a product as a factor.
Idempotent == ~fresh => Norm(expr) = expr
=============================================================================
