---------------------------- MODULE MCFingerprint ----------------------------
(***************************************************************************)
(* Instances of FingerprintCache for TLC.  A name of a letter is the       *)
(* sequence of its characters; a basis is named by what it was built from, *)
(* and the coordinates by the expression's part and the basis.             *)
(***************************************************************************)
EXTENDS FingerprintCache, TLC

a == <<"a">>
b == <<"b">>
bc == <<"b", "c">>
ab == <<"a", "b">>
c == <<"c">>
sum == <<"(", "+", " ", "a", " ", "b", "c", ")">>

\* "mixed" has weights 0, 1 and 2, "pair" shares its weight-2 alphabet,
\* "singular" has no basis, "power" has no symbol; the alphabets of "left" and
\* "right" are {a + bc, a, bc} and {a + bc, ab, c}.
MCSymbolOf(e) ==
    CASE e = "mixed" -> [error |-> Ok, letters |-> (1 :> <<a>>) @@ (2 :> <<a, b>>)]
      [] e = "pair" -> [error |-> Ok, letters |-> (2 :> <<a, b>>)]
      [] e = "singular" -> [error |-> Ok, letters |-> (2 :> <<a, c>>)]
      [] e = "power" -> [error |-> "SymbolNotImplemented", letters |-> Empty]
      [] e = "left" -> [error |-> Ok, letters |-> (2 :> <<sum, a, bc>>)]
      [] e = "right" -> [error |-> Ok, letters |-> (2 :> <<sum, ab, c>>)]

MCHasConstant(e) == e = "mixed"

MCBuild(letters, constraints, w) ==
    IF letters = <<a, c>> THEN [error |-> "InsufficientSamples", basis |-> Ok]
    ELSE [error |-> Ok, basis |-> <<letters, constraints, w>>]

\* The word b a is no column under the constraint.
MCReduce(e, w, from) ==
    IF e = "pair" /\ from[2] = "first" THEN
        [error |-> "SymbolNotImplemented", kind |-> Ok, coords |-> Ok]
    ELSE [error |-> Ok, kind |-> IF e = "pair" THEN "NonIntegrable" ELSE "Integrable",
          coords |-> <<e, w, from>>]

Plain(n) == [limit |-> NoLimit, fuel |-> n, timed |-> FALSE, constraints |-> "free"]
Limited == [Plain(2) EXCEPT !.limit = 1]
First == [Plain(3) EXCEPT !.constraints = "first"]
Timed == [Plain(3) EXCEPT !.timed = TRUE]

\* Requests that meet in the caches, and every way a call can end.
MCRequests ==
    {<<"mixed", Plain(3)>>, <<"mixed", Plain(2)>>, <<"mixed", Limited>>,
     <<"pair", Plain(3)>>, <<"pair", First>>, <<"pair", Timed>>,
     <<"singular", Plain(3)>>, <<"power", Plain(3)>>, <<"pair", Plain(0)>>}

ThreadSymmetry == Permutations(Threads)

CollidingRequests == {<<"left", Plain(1)>>, <<"right", Plain(1)>>}
=============================================================================
