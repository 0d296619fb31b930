------------------------------ MODULE MCPipeline ------------------------------
(***************************************************************************)
(* An instance of Pipeline for TLC: logarithms and dilogarithms, alone, in *)
(* sums and in products, of arguments that can be rewritten.               *)
(***************************************************************************)
EXTENDS Pipeline, PrimeField

SampleValues ==
    <<Ratio(2, 7), Ratio(3, 7), Ratio(2, 5), Ratio(3, 5), Ratio(4, 9), Ratio(5, 11)>>

MCExponentOf(k) == IF 2 * k < P THEN k ELSE k - P
MCPowFits(k, n) == TRUE
MCPoints == {<<u, v, IF u = v THEN 7 ELSE 9>> : u, v \in {0, 2}}
MCUndefined(v, w) == (v + 2 * w + 17) % P
MCOpaque(op, v) == IF op = "log" THEN (v * v + 3) % P ELSE (v * v * v + 5) % P

x == Var(1)
y == Var(2)
z == Var(3)
C(n) == Rat(ModFromInt(n))
Sum2(s, t) == Add(<<s, t>>)
Prod(s, t) == Mul(<<s, t>>)
Factorable == Sum2(Prod(x, y), Prod(x, z))
OneTimes(e) == Sum2(Prod(C(2), e), Prod(C(-1), e))

MCInputs ==
    {Log(Sum2(x, Prod(C(0), y))), Log(Factorable), Li2(OneTimes(x)),
     Sum2(Log(x), Log(OneTimes(x))), Sum2(Log(x), Negate(Log(x))),
     Sum2(Prod(C(2), Log(x)), Prod(C(-2), Log(y))),
     Prod(Log(x), Log(y)), Prod(Log(x), Log(x)), Mul(<<C(3), Negate(Log(y)), Log(x)>>),
     Sum2(Prod(Log(x), Log(y)), Prod(Log(x), Log(z))),
     Sum2(Li2(x), Prod(Log(x), Log(Sum2(C(1), Negate(x))))),
     Sum2(Li2(Prod(x, y)), Negate(Li2(Prod(y, x)))),
     Sum2(Li2(Pow(x, -1)), Pow(Log(Sum2(x, y)), 2)),
     Prod(x, Log(y)), Log(Log(x)), Pow(Log(x), 3), Prod(C(0), Log(Log(x))),
     Sum2(Pow(Log(Factorable), 2), Prod(x, Pow(y, -1))),
     Sum2(Prod(x, y), Prod(x, Negate(z))),
     Log(Mul(<<C(2), Pow(Prod(x, Negate(y)), -2), Pow(Prod(x, Negate(y)), 3)>>))}

MCBaselines == {Norm(e) : e \in MCInputs}
=============================================================================
