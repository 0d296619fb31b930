----------------------------- MODULE MCNormalize -----------------------------
(***************************************************************************)
(* Instances of Normalize for TLC: sums, products, powers and negations in *)
(* two variables, nested three deep, with coefficients modulo a prime.     *)
(***************************************************************************)
EXTENDS Normalize, PrimeField

\* Numerators and denominators that fit: cubes of anything, any power of 1, 0, -1.
MCPowFits(c, n) == c \in {0, 1, P - 1} \/ n \in -3 .. 3

MCEnvs == [1 .. 2 -> {0, 1, 2, P - 3}]

x == Var(1)
y == Var(2)
C(n) == Rat(ModFromInt(n))

Atoms == {x, y, C(0), C(2)}
Small ==
    Atoms \cup {Negate(a) : a \in Atoms}
          \cup {Pow(a, n) : a \in {x, C(0), C(2)}, n \in {-2, -1, 0, 3}}
          \cup {Add(<<a, b>>) : a \in {x, C(2)}, b \in {y, C(-2)}}
          \cup {Mul(<<a, b>>) : a \in {x, C(0)}, b \in {x, y, Negate(y)}}
Pairs == {Mul(<<a, b>>) : a, b \in Small} \cup {Add(<<a, b>>) : a, b \in Small}
Powers == {Pow(a, n) : a \in Small, n \in {-1, 2, 3}}

\* Sums, products and powers of small expressions, and products in which
\* powers of one small expression meet.
MCInputs ==
    Small \cup Pairs \cup Powers \cup {Negate(Mul(<<C(2), a>>)) : a \in Small}
    \cup {Negate(a) : a \in Powers} \cup {Pow(a, n) : a \in Powers, n \in {-1, 3}}
    \cup {Mul(<<a, Pow(b, m), Pow(b, n)>>) : a \in {x, C(2)}, b \in Small, m, n \in {-2, -1, 2, 3}}
    \cup {Mul(<<Mul(<<x, a>>), Add(<<b, Pow(c, 2), Pow(c, -1)>>)>>) : a, b, c \in {x, Negate(y), C(2)}}
    \cup {Log(Mul(<<Pow(a, 2), Pow(a, -1)>>)) : a \in Small} \cup {Li2(Add(<<>>)), Mul(<<>>)}
=============================================================================
