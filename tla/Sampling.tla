------------------------------ MODULE Sampling ------------------------------
(***************************************************************************)
(* What the integrability tests of mpl-symbol share: the sample points of  *)
(* build_envs, the logarithmic derivatives of letters at them, the number  *)
(* of valid samples a test needs, and the order of words.                  *)
(***************************************************************************)
EXTENDS Coefficients, Integers, FiniteSets, SequencesExt

CONSTANTS
    VarsOf(_),          \* the variables of a letter (collect_vars)
    Samples,            \* the sample values of build_envs, in order
    DlogAt(_, _, _),    \* dlog(letter, var, env); None if singular
    Fail                \* an EvalError other than a singular sample

EnvCount == 5           \* the sample points of build_envs
MinValid == 2           \* the valid samples a constraint must have

LexLess(s, t) ==
    \E i \in DOMAIN s : s[i] < t[i] /\ \A j \in 1 .. i - 1 : s[j] = t[j]

\* The elements of S in ascending order.
Ascending(S, Less(_, _)) ==
    [i \in 1 .. Cardinality(S) |->
        CHOOSE x \in S : Cardinality({y \in S : Less(y, x)}) = i - 1]

\* Mutant: the values do not rotate along the variables.
EnvAlike(vs, e) == [v \in ToSet(vs) |-> Samples[e]]

\* Sample point e: the values rotate by one from a sample point to the next.
Env(vs, e) ==
    [v \in ToSet(vs) |->
        LET j == CHOOSE j \in DOMAIN vs : vs[j] = v
        IN  Samples[(((e - 1) + (j - 1)) % Len(Samples)) + 1]]

Sum(f, S) == FoldFunctionOnSet(Plus, Zero, f, S)
=============================================================================
