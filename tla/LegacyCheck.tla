----------------------------- MODULE LegacyCheck -----------------------------
(***************************************************************************)
(* mpl_symbol::check_integrable, the integrability test for weight two.  A *)
(* symbol is a function from words, sequences of letter numbers, to its    *)
(* nonzero coefficients.                                                   *)
(***************************************************************************)
EXTENDS Sampling

WordsOfWeight(sym, n) == {w \in DOMAIN sym : Len(w) = n}

LettersIn(ws) == UNION {ToSet(w) : w \in ws}

VarsOfLetters(letters, used) == Ascending(UNION {VarsOf(letters[l]) : l \in used}, <)

\* The loops stop at the first outcome that is not "true".
FirstNotTrue(outcomes) ==
    LET bad == {i \in DOMAIN outcomes : outcomes[i] # "true"}
    IN  IF bad = {} THEN "true" ELSE outcomes[Min(bad)]

\* Mutant: the wedge is symmetrised.
WedgeTermSymmetric(q) == Plus(Times(q[1], q[2]), Times(q[3], q[4]))

WedgeTerm(q) == Minus(Times(q[1], q[2]), Times(q[3], q[4]))

\* Where the evaluation of a word's four values stops.
Stops(q) == {k \in DOMAIN q : q[k] \in {None, Fail}}

\* check_integrable: no contexts, every pair of variables over the whole
\* weight-2 part, evaluated word by word at each sample point.
WedgeValue(letters, sym, vi, vj, at) ==
    LET ws == Ascending(WordsOfWeight(sym, 2), LexLess)
        D(w, i, v) == DlogAt(letters[w[i]], v, at)
        quads == [i \in DOMAIN ws |->
                    <<D(ws[i], 1, vi), D(ws[i], 2, vj), D(ws[i], 1, vj), D(ws[i], 2, vi)>>]
        stopped == {i \in DOMAIN ws : Stops(quads[i]) # {}}
        first == quads[Min(stopped)]
    IN  IF stopped # {} THEN first[Min(Stops(first))]
        ELSE Sum([i \in DOMAIN ws |-> Times(sym[ws[i]], WedgeTerm(quads[i]))], DOMAIN ws)

PairOutcome(letters, sym, vs, vi, vj) ==
    LET value == [e \in 1 .. EnvCount |->
                    WedgeValue(letters, sym, vs[vi], vs[vj], Env(vs, e))]
        stops == {e \in 1 .. EnvCount : value[e] \notin {None, Zero}}
        sampled == {e \in 1 .. EnvCount : value[e] # None}
    IN  IF stops # {}
        THEN IF value[Min(stops)] = Fail THEN "Eval" ELSE "false"
        ELSE IF Cardinality(sampled) < MinValid THEN "InsufficientSamples" ELSE "true"

CheckIntegrable(letters, sym) ==
    LET vs == VarsOfLetters(letters, LettersIn(WordsOfWeight(sym, 2)))
        pairs == Ascending({p \in (DOMAIN vs) \X (DOMAIN vs) : p[1] < p[2]}, LexLess)
    IN  IF \E w \in DOMAIN sym : Len(w) > 2 THEN "NotImplemented"
        ELSE IF WordsOfWeight(sym, 2) = {} \/ Len(vs) < 2 THEN "true"
        ELSE FirstNotTrue([i \in DOMAIN pairs |->
                PairOutcome(letters, sym, vs, pairs[i][1], pairs[i][2])])
=============================================================================
