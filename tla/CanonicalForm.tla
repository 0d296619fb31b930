---------------------------- MODULE CanonicalForm ----------------------------
(***************************************************************************)
(* mpl_ir::Expr::normalize and to_canonical_string.  Exponents are i32 in  *)
(* the code; here they are any range of integers.  Rational powers that    *)
(* pow_rational cannot represent are given by PowFits.                     *)
(***************************************************************************)
EXTENDS Expressions, TLC

CONSTANTS
    MaxExp,             \* i32::MAX
    PowFits(_, _)       \* checked_pow succeeds on numerator and denominator

MinExp == 0 - MaxExp - 1
Exponents == MinExp .. MaxExp

-----------------------------------------------------------------------------
(* Expressions as trees *)

\* The operands of a node.
Operands(e) ==
    CASE e.op \in {"add", "mul"} -> e.args
      [] e.op \in {"neg", "pow", "log", "li2"} -> <<e.arg>>
      [] OTHER -> <<>>

RECURSIVE Subterms(_)
Subterms(e) == {e} \cup UNION {Subterms(Operands(e)[i]) : i \in DOMAIN Operands(e)}

RECURSIVE Size(_)
Size(e) ==
    1 + FoldLeft(LAMBDA n, a : n + Size(a), 0, Operands(e))

-----------------------------------------------------------------------------
(* Canonical strings and the order of operands *)

Opening == [add |-> 2, log |-> 6, li2 |-> 5, mul |-> 1, neg |-> 3, pow |-> 4]
Closing == 1000
Number(n) == 100 + n

\* to_canonical_string as a sequence of tokens, numbered so that they compare
\* like the characters they start with (numerals in numerical order, for exponents
\* above -90).
RECURSIVE Text(_)
Text(e) ==
    CASE e.op = "rat" -> <<200 + e.val>>
      [] e.op = "var" -> <<400 + e.name>>
      [] e.op \in {"add", "mul"} ->
            <<Opening[e.op]>> \o FlattenSeq([i \in DOMAIN e.args |-> Text(e.args[i])])
                              \o <<Closing>>
      [] e.op = "pow" -> <<Opening.pow>> \o Text(e.arg) \o <<Number(e.exp), Closing>>
      [] OTHER -> <<Opening[e.op]>> \o Text(e.arg) \o <<Closing>>

TextLess(s, t) ==
    \E i \in DOMAIN s \cap DOMAIN t : s[i] < t[i] /\ \A j \in 1 .. i - 1 : s[j] = t[j]

\* Rationals come first, then the canonical strings decide.
Before(a, b) ==
    \/ a.op = "rat" /\ b.op # "rat"
    \/ (a.op = "rat") = (b.op = "rat") /\ TextLess(Text(a), Text(b))

\* Mutant: the operands stay in the order they were met.
Unsorted(children) == children

\* sort_children
Sorted(children) == SortSeq(children, Before)

-----------------------------------------------------------------------------
(* Sums *)

\* normalize_add; the arguments are normalised already.
NormalizeAdd(children) ==
    LET terms == FlattenSeq([i \in DOMAIN children |->
                    IF children[i].op = "add" THEN children[i].args ELSE <<children[i]>>])
        sum == FoldLeft(LAMBDA acc, t : IF t.op = "rat" THEN Plus(acc, t.val) ELSE acc,
                        Zero, terms)
        flat == SelectSeq(terms, LAMBDA t : t.op # "rat")
    IN  Node(Add, Zero, Sorted(IF sum = Zero THEN flat ELSE Append(flat, Rat(sum))))

-----------------------------------------------------------------------------
(* Products *)

NoFactors == [product |-> One, pows |-> [b \in {} |-> 0], overflow |-> <<>>]

\* Mutant: the sum of two exponents wraps.
AccumulatePowWrapping(acc, base, n) ==
    LET old == IF base \in DOMAIN acc.pows THEN acc.pows[base] ELSE 0
        sum == ((old + n - MinExp) % (MaxExp - MinExp + 1)) + MinExp
    IN  [acc EXCEPT !.pows = IF sum = 0 THEN Restrict(@, DOMAIN @ \ {base})
                             ELSE (base :> sum) @@ @]

\* Mutant: the sum of two exponents is not checked.
AccumulatePowUnchecked(acc, base, n) ==
    LET old == IF base \in DOMAIN acc.pows THEN acc.pows[base] ELSE 0
    IN  [acc EXCEPT !.pows = IF old + n = 0 THEN Restrict(@, DOMAIN @ \ {base})
                             ELSE (base :> old + n) @@ @]

\* accumulate_pow: a power of a base that is in pow_map already is merged, or
\* set aside if the exponent overflows.
AccumulatePow(acc, base, n) ==
    IF n = 0 THEN acc
    ELSE IF base \notin DOMAIN acc.pows THEN [acc EXCEPT !.pows = @ @@ (base :> n)]
    ELSE LET sum == acc.pows[base] + n
         IN  IF sum \notin Exponents THEN [acc EXCEPT !.overflow = Append(@, Pow(base, n))]
             ELSE IF sum = 0 THEN [acc EXCEPT !.pows = Restrict(@, DOMAIN @ \ {base})]
             ELSE [acc EXCEPT !.pows[base] = sum]

RECURSIVE Multiply(_, _)

\* Mutant: a product inside a product is taken for one factor.
MultiplyNested(stack, acc) ==
    IF stack = <<>> \/ acc.product = Zero THEN acc
    ELSE LET e == Last(stack)
         IN  CASE e.op = "rat" -> Multiply(Front(stack), [acc EXCEPT !.product = Times(@, e.val)])
               [] e.op = "neg" -> Multiply(Append(Front(stack), e.arg),
                                           [acc EXCEPT !.product = Minus(Zero, @)])
               [] e.op = "pow" -> Multiply(Front(stack), AccumulatePow(acc, e.arg, e.exp))
               [] OTHER -> Multiply(Front(stack), AccumulatePow(acc, e, 1))

\* The loop of normalize_mul, which takes the factors off the end of its stack
\* and stops at a zero.
Multiply(stack, acc) ==
    IF stack = <<>> \/ acc.product = Zero THEN acc
    ELSE LET e == Last(stack)
             rest == Front(stack)
         IN  CASE e.op = "mul" -> Multiply(rest \o e.args, acc)
               [] e.op = "rat" -> Multiply(rest, [acc EXCEPT !.product = Times(@, e.val)])
               [] e.op = "neg" -> Multiply(Append(rest, e.arg),
                                           [acc EXCEPT !.product = Minus(Zero, @)])
               [] e.op = "pow" -> Multiply(rest, AccumulatePow(acc, e.arg, e.exp))
               [] OTHER -> Multiply(rest, AccumulatePow(acc, e, 1))

Factors(pows) ==
    LET bases == SetToSeq(DOMAIN pows)
    IN  [i \in DOMAIN bases |->
            IF pows[bases[i]] = 1 THEN bases[i] ELSE Pow(bases[i], pows[bases[i]])]

\* Mutant: the constant is written even if it is one.
ProductWithOne(acc) ==
    IF acc.product = Zero THEN Rat(Zero)
    ELSE Node(Mul, One, Sorted(Factors(acc.pows) \o acc.overflow \o <<Rat(acc.product)>>))

\* The end of normalize_mul: powers, set-aside factors and the constant.
Product(acc) ==
    IF acc.product = Zero THEN Rat(Zero)
    ELSE Node(Mul, One, Sorted(Factors(acc.pows) \o acc.overflow \o
                               IF acc.product = One THEN <<>> ELSE <<Rat(acc.product)>>))

NormalizeMul(children) == Product(Multiply(children, NoFactors))

-----------------------------------------------------------------------------
(* Powers *)

RECURSIVE Norm(_)
RECURSIVE NormalizePow(_, _)

\* pow_rational, when it returns a value.
PowRationalDefined(c, n) == n # MinExp /\ ~(n < 0 /\ c = Zero) /\ PowFits(c, n)

\* normalize_pow, which normalises the inner base a second time.
NormalizePow(base, n) ==
    LET b == Norm(base)
    IN  IF n = 0 THEN Rat(One)
        ELSE IF n = 1 THEN b
        ELSE CASE b.op = "pow" /\ b.exp * n \in Exponents -> NormalizePow(b.arg, b.exp * n)
               [] b.op = "rat" /\ PowRationalDefined(b.val, n) -> Rat(EvalPow(b.val, n))
               [] b.op = "neg" -> LET inner == NormalizePow(b.arg, n)
                                  IN  IF n % 2 = 0 THEN inner ELSE Negate(inner)
               [] OTHER -> Pow(b, n)

-----------------------------------------------------------------------------
(* Expr::normalize *)

NormalizeNeg(e) ==
    CASE e.op = "rat" -> Rat(Minus(Zero, e.val))
      [] e.op = "neg" -> e.arg
      [] OTHER -> Negate(e)

Norm(e) ==
    CASE e.op \in {"rat", "var"} -> e
      [] e.op = "neg" -> NormalizeNeg(Norm(e.arg))
      [] e.op = "add" -> NormalizeAdd([i \in DOMAIN e.args |-> Norm(e.args[i])])
      [] e.op = "mul" -> NormalizeMul([i \in DOMAIN e.args |-> Norm(e.args[i])])
      [] e.op = "pow" -> NormalizePow(e.arg, e.exp)
      [] e.op \in {"log", "li2"} -> [e EXCEPT !.arg = Norm(@)]
=============================================================================
