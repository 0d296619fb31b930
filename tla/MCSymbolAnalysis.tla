--------------------------- MODULE MCSymbolAnalysis ---------------------------
(***************************************************************************)
(* An instance of SymbolAnalysis for TLC: logarithms of sums that can be   *)
(* factored, products of logarithms that have a symbol until they are      *)
(* factored, and numbers among them.                                       *)
(***************************************************************************)
EXTENDS SymbolAnalysis, PrimeField

MCExponentOf(k) == IF 2 * k < P THEN k ELSE k - P
MCPowFits(k, n) == TRUE
MCPoints == {<<u, v, IF u = v THEN 7 ELSE 9>> : u, v \in {0, 2}}
MCUndefined(v, w) == (v + 2 * w + 17) % P
MCOpaque(op, v) == IF op = "log" THEN (v * v + 3) % P ELSE (v * v * v + 5) % P

\* A hash of an expression by its canonical string, and of a fingerprint by its words.
MCExprHash(e) == FoldLeft(LAMBDA h, t : (31 * h + t) % 9973, 7, Text(e))
WordHash(w, c) == FoldLeft(LAMBDA h, l : (17 * h + MCExprHash(l)) % 9973, c, w)
OutcomeHash(o) ==
    IF "failed" \in DOMAIN o THEN o.hash + Len(o.failed)
    ELSE FoldFunction(LAMBDA a, b : (a + b) % 9973, 11,
                      [w \in DOMAIN o.words |-> WordHash(w, o.words[w])])
MCDigest(f) == FoldFunction(LAMBDA a, b : (a + b) % 9973, 13, [n \in DOMAIN f |-> OutcomeHash(f[n])])

x == Var(1)
y == Var(2)
z == Var(3)
C(n) == Rat(ModFromInt(n))
Sum2(s, t) == Add(<<s, t>>)
Prod(s, t) == Mul(<<s, t>>)
Factorable == Sum2(Prod(x, y), Prod(x, z))
Cancelled == Sum2(Prod(C(3), x), Prod(C(-3), x))

\* No basis over the letters x and x + y, for want of samples.
MCBasisFails(letters) == letters = {x, Norm(Sum2(x, y))}

MCInputs ==
    {Log(Factorable), Pow(Sum2(C(2), Cancelled), -2), Sum2(Log(x), Prod(C(2), y)),
     Sum2(Prod(Log(x), Log(y)), Prod(Log(x), Log(z))),
     Sum2(Prod(C(2), Log(x)), Prod(C(2), Li2(Pow(x, -1)))),
     Sum2(Prod(C(3), Log(y)), Prod(C(-3), Log(y))), Prod(x, Log(Factorable)),
     Prod(Log(x), Log(Sum2(x, y))), Sum2(Pow(Log(Factorable), 2), C(5)),
     Sum2(Log(Sum2(Prod(x, z), Prod(y, z))), Log(Prod(Sum2(x, y), z))),
     Sum2(C(1), Li2(Sum2(Prod(C(2), x), Prod(C(-1), x)))),
     Log(Mul(<<C(2), Pow(Prod(x, Negate(y)), -2), Pow(Prod(x, Negate(y)), 3)>>))}

MCBaselines == {Norm(e) : e \in MCInputs}
=============================================================================
