------------------------------- MODULE MCSpace -------------------------------
(***************************************************************************)
(* Instances of SpaceQueries for TLC: coefficients modulo a prime, letters *)
(* in up to three variables, or in seven, at the values of build_envs.     *)
(***************************************************************************)
EXTENDS SpaceQueries, PrimeField

CONSTANT NegativePowerOfZero

\* The values array of build_envs.
SampleValues ==
    <<Ratio(2, 7), Ratio(3, 7), Ratio(2, 5), Ratio(3, 5), Ratio(4, 9), Ratio(5, 11)>>

E == INSTANCE Expressions WITH FromInt <- ModFromInt
MCDlog(letter, v, at) == E!Dlog(letter, v, at)
MCVarsOf(letter) == E!VarsIn(letter)

x == E!Var(1)
y == E!Var(2)
z == E!Var(3)
C(n) == E!Rat(ModFromInt(n))
OneMinus(e) == E!Add(<<C(1), E!Mul(<<C(-1), e>>)>>)
\* A letter that vanishes where its variable has one of the values.
Vanishing(v, values) ==
    E!Mul([i \in DOMAIN values |-> E!Add(<<v, E!Rat(ModMinus(0, values[i]))>>)])

Free == [first |-> None, pairs |-> None]
FirstIn(S) == [first |-> S, pairs |-> None]
Pairs(n, forbidden) ==
    [first |-> None, pairs |-> [i \in 1 .. n |-> [j \in 1 .. n |-> <<i, j>> \notin forbidden]]]
Job(letters, c, n) == [letters |-> letters, constraints |-> c, weight |-> n]

xy == <<x, y>>
curve == <<x, y, E!Add(<<x, y>>)>>
plane == <<x, OneMinus(x), y, OneMinus(E!Mul(<<x, y>>))>>
space == <<x, y, z>>

\* Calls that return a basis, calls at the edge of the sampling, refusals.
MCJobs ==
    {Job(xy, Free, n) : n \in 0 .. 3} \cup
    {Job(curve, Free, 2), Job(curve, FirstIn({1, 3}), 2),
     Job(curve, Pairs(3, {<<1, 2>>}), 3), Job(curve, FirstIn({}), 2)} \cup
    {Job(plane, Free, 2), Job(space, Free, 2),
     Job(<<x, y, OneMinus(E!Add(<<x, y>>))>>, Free, 2),
     Job(<<x, E!Pow(E!Add(<<x, y>>), -2), E!Negate(y)>>, Free, 2),
     Job(<<Vanishing(x, SubSeq(SampleValues, 1, 3)), y>>, Free, 2),
     Job(<<Vanishing(x, SubSeq(SampleValues, 1, 4)), y>>, Free, 2),
     Job(<<x, y, Vanishing(x, SubSeq(SampleValues, 1, 4))>>, Pairs(3, {<<3, 1>>, <<3, 2>>}), 3),
     Job(<<E!Log(x), x, y>>, Free, 2),
     Job(xy, FirstIn({3}), 2), Job(xy, Pairs(3, {}), 2)}

\* An alphabet in more variables than build_envs has values: the first and the
\* last have one value at every sample point.
seven == [i \in 1 .. 7 |-> E!Var(i)] \o <<E!Add(<<E!Var(1), E!Var(7)>>)>>
MCSevenJobs == {Job(seven, Free, 2)}

MCElsewhere(vs) == [v \in ToSet(vs) |-> 30 + v * v]

\* Words alone, and with two neighbouring letters swapped, added or subtracted.
Swap(w, k) == [i \in DOMAIN w |-> w[IF i = k THEN k + 1 ELSE IF i = k + 1 THEN k ELSE i]]
MCSymbols(call) ==
    LET ws == ToSet(Words(call))
    IN  {[v \in {w} |-> One] : w \in ws} \cup
        {[v \in {w, Swap(w, k)} |-> IF v = w THEN One ELSE c] :
            w \in ws, k \in 1 .. call.weight - 1, c \in {1, P - 1}}

\* What the theorem about the two integrability tests supposes of letters and
\* symbols holds in these instances.
ASSUME ComparableInstances == ChecksComparable
=============================================================================
