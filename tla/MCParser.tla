------------------------------ MODULE MCParser ------------------------------
(***************************************************************************)
(* Instances of Parser for TLC: all short texts over a small alphabet, and *)
(* longer ones made by printing expressions, whole or with a token lost,   *)
(* doubled or replaced.                                                    *)
(***************************************************************************)
EXTENDS Parser, PrimeField

Half == Ratio(1, 2)
MCIntegerOf(c) == IF c = Half THEN None ELSE IF c <= 20 THEN c ELSE c - P
MCPowFits(c, n) == c \in {0, 1, P - 1} \/ (c \in {2, P - 2, Half} /\ n \in -3 .. 3)

x == Var(8)
y == Var(9)
C(n) == Rat(ModFromInt(n))

Short ==
    UNION {[1 .. n -> {LParen, RParen, WordOf("+"), WordOf("^"), WordOf("/"), Word(8),
                       IntToken(2)}] : n \in 0 .. 5}

Printed ==
    {CanonicalString(e) : e \in
        {Add(<<x, C(0), Mul(<<y, C(3), Rat(Half)>>)>>), Negate(Negate(Log(x))), Add(<<>>),
         Pow(Pow(Li2(Negate(y)), -2), 3), Mul(<<Pow(x, -1), Negate(Pow(x, 2)), y>>),
         Log(Pow(C(0), -1)), Mul(<<Pow(C(2), -3), Var(1), Mul(<<>>)>>), Pow(C(7), 4),
         Negate(Add(<<x, Negate(C(2))>>))}}
Divided ==
    {<<LParen, WordOf("/"), Word(8)>> \o ts \o <<RParen>> : ts \in
        {<<Word(9)>>, <<Word(9), IntToken(2)>>, <<IntToken(0)>>, <<>>,
         <<LParen, WordOf("-"), Word(9), RParen, Word(1)>>}}
Whole == Printed \cup Divided

Tokens == {LParen, RParen, BadToken, IntToken(12), RatioToken(Half), WordOf("li2"), Word(8)}
Damaged ==
    UNION {{RemoveAt(ts, i), InsertAt(ts, i, ts[i])} : <<ts, i>> \in
            {<<ts, i>> \in Whole \X (1 .. 20) : i \in DOMAIN ts}}
    \cup {[ts EXCEPT ![i] = t] : <<ts, i, t>> \in
            {<<ts, i, t>> \in Whole \X (1 .. 20) \X Tokens : i \in DOMAIN ts}}

MCTexts == Short \cup Whole \cup Damaged
=============================================================================
