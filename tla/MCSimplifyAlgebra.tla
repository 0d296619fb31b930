-------------------------- MODULE MCSimplifyAlgebra --------------------------
(***************************************************************************)
(* Instances of SimplifyAlgebra for TLC: sums with common factors, some of *)
(* which cancel, in places where the zero or the one that is left matters. *)
(***************************************************************************)
EXTENDS SimplifyAlgebra, PrimeField

\* The representatives from -50 to 50, but for one half, which is 51 or -50.
MCExponentOf(k) ==
    IF k = Ratio(1, 2) THEN None ELSE IF 2 * k < P THEN k ELSE k - P

MCPowFits(k, n) == TRUE

MCPoints == {<<u, v, IF u = v THEN 7 ELSE 9>> : u, v \in {0, 2}}

MCUndefined(v, w) == (v + 2 * w + 17) % P
MCOpaque(op, v) == IF op = "log" THEN (v * v + 3) % P ELSE (v * v * v + 5) % P

x == Var(1)
y == Var(2)
z == Var(3)
C(n) == Rat(ModFromInt(n))
Half == Rat(Ratio(1, 2))
Times2(n, e) == Mul(<<C(n), e>>)
Cancelled(e) == Add(<<Times2(2, e), Times2(-2, e)>>)
Cancelled3(e) == Add(<<Times2(3, e), Times2(-3, e)>>)
Prod(s, t) == Mul(<<s, t>>)
Sum2(s, t) == Add(<<s, t>>)

MCInputs ==
    {Cancelled(x), Pow(Cancelled(x), 3), Pow(Cancelled(x), -1), Log(Cancelled(x)),
     Sum2(Times2(2, x), Times2(3, x)), Sum2(Times2(2, x), Times2(-1, x)),
     Sum2(Prod(x, y), Prod(x, z)), Sum2(Prod(x, z), Prod(y, z)),
     Sum2(Prod(x, y), Prod(x, y)), Sum2(Prod(Half, x), Prod(Half, y)),
     Add(<<Prod(x, y), Prod(x, z), Prod(y, z)>>),
     Sum2(Prod(Log(x), Log(y)), Prod(Log(x), Log(z))),
     Sum2(Pow(Cancelled(x), 3), Pow(Cancelled(y), 3)),
     Sum2(y, Li2(Sum2(Times2(2, x), Times2(-1, x)))),
     Sum2(Prod(Pow(x, -1), C(2)), Prod(Pow(x, -1), C(-2))),
     Prod(y, Pow(Cancelled(Pow(x, -1)), 2)),
     Sum2(Times2(2, Pow(x, 2)), Times2(2, Pow(y, 2))),
     Pow(Sum2(C(2), Cancelled(x)), 3), Pow(Sum2(C(2), Cancelled(x)), -1),
     Sum2(Cancelled(x), Cancelled(y)), Prod(Cancelled(x), Log(y)),
     Add(<<Times2(2, x), Times2(3, x), Times2(-5, x)>>),
     Sum2(Prod(x, Sum2(y, Cancelled(z))), Prod(x, z)),
     Negate(Sum2(Prod(x, y), Negate(Prod(x, z)))),
     Pow(Sum2(Prod(x, y), Prod(x, z)), -2), Li2(Pow(Cancelled(x), -2)),
     Prod(Log(Cancelled3(x)), Sum2(C(2), Cancelled3(x))),
     Sum2(Pow(Sum2(C(2), Cancelled3(x)), -2), Log(Sum2(C(2), Cancelled3(x))))}

MCBaselines == {Norm(e) : e \in MCInputs}
=============================================================================
