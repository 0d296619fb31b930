----------------------------- MODULE PrimeField -----------------------------
(***************************************************************************)
(* Coefficients for TLC: the integers modulo a prime P.                    *)
(***************************************************************************)
EXTENDS Integers

CONSTANT P

ModField == 0 .. P - 1
ModPlus(x, y) == (x + y) % P
ModMinus(x, y) == (x - y) % P
ModTimes(x, y) == (x * y) % P
Recips == [x \in 1 .. P - 1 |-> CHOOSE y \in 1 .. P - 1 : (x * y) % P = 1]
ModRecip(x) == Recips[x]
ModFromInt(n) == n % P
Ratio(n, d) == (n * Recips[d]) % P
=============================================================================
