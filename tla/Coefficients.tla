---------------------------- MODULE Coefficients ----------------------------
(***************************************************************************)
(* Exact coefficients.  The crates compute with num_rational::Rational64;  *)
(* the modules use only the field operations below, so that TLC can run    *)
(* them over a prime field and the proofs hold for any field.  The i64     *)
(* range of Rational64 is not represented.                                 *)
(***************************************************************************)
EXTENDS Integers

CONSTANTS
    Coeff,          \* the coefficients
    Zero, One,
    Plus(_, _), Minus(_, _), Times(_, _),
    Recip(_),       \* One / x, for x # Zero
    None            \* Option::None

NonZero == Coeff \ {Zero}

\* The coefficients are a field.
ASSUME CoeffAssumption ==
    /\ Zero \in Coeff
    /\ One \in NonZero
    /\ \A x, y \in Coeff : /\ Plus(x, y) \in Coeff
                           /\ Minus(x, y) \in Coeff
                           /\ Times(x, y) \in Coeff
                           /\ Plus(x, y) = Plus(y, x)
                           /\ Times(x, y) = Times(y, x)
                           /\ Plus(Minus(x, y), y) = x
    /\ \A x, y, z \in Coeff : /\ Plus(Plus(x, y), z) = Plus(x, Plus(y, z))
                              /\ Times(Times(x, y), z) = Times(x, Times(y, z))
                              /\ Times(x, Plus(y, z)) = Plus(Times(x, y), Times(x, z))
    /\ \A x \in Coeff : Plus(x, Zero) = x /\ Times(x, One) = x
    /\ \A x \in NonZero : Recip(x) \in NonZero /\ Times(x, Recip(x)) = One

Neg(x) == Minus(Zero, x)

Power(x, n) ==
    LET p[k \in Nat] == IF k = 0 THEN One ELSE Times(x, p[k - 1])
    IN  p[n]

\* A power with an integer exponent; a negative one needs x # Zero.
IntPower(x, n) == IF n < 0 THEN Power(Recip(x), 0 - n) ELSE Power(x, n)
=============================================================================
