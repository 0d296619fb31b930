---------------------------- MODULE SpaceQueries ----------------------------
(***************************************************************************)
(* The questions mpl-symbol answers about a symbol: reduce_to_basis        *)
(* against a basis that build_integrable_basis returned, and the two       *)
(* direct tests, check_integrable_n (any weight) and check_integrable      *)
(* (weight at most 2).  A symbol is a function from words, sequences of    *)
(* letter numbers, to its nonzero coefficients.                            *)
(***************************************************************************)
EXTENDS IntegrableBasis, LegacyCheck

CONSTANTS
    Symbols(_),         \* the symbols asked about, for a call of Jobs
    Elsewhere(_)        \* a point for some variables, each with a value of its own

\* A symbol does not store a zero.
ASSUME SymbolsAssumption ==
    \A j \in Jobs : \A sym \in Symbols(j) : \A w \in DOMAIN sym : sym[w] \in NonZero

-----------------------------------------------------------------------------
(* reduce_to_basis *)

BasisWeight == IF words = <<>> THEN 0 ELSE Len(words[1])

\* reduce_to_basis refuses a word of the right weight that is no column.
Reducible(sym) == WordsOfWeight(sym, BasisWeight) \subseteq ToSet(words)

\* Mutant: the coefficients are read at the first columns.
CoordinatesAtFront(sym) == [i \in DOMAIN basis.free |-> At(sym, words[i])]

Coordinates(sym) == [i \in DOMAIN basis.free |-> At(sym, words[basis.free[i]])]

Reconstruct(coeffs, col) ==
    Sum([i \in DOMAIN coeffs |-> Times(coeffs[i], basis.vectors[i][col])], DOMAIN coeffs)

\* What the basis leaves of sym: other weights, and the columns that differ.
Residual(sym) ==
    LET coeffs == Coordinates(sym)
        diff == [w \in ToSet(words) |->
                    LET col == CHOOSE c \in DOMAIN words : words[c] = w
                    IN  Minus(At(sym, w), Reconstruct(coeffs, col))]
        differ == {w \in ToSet(words) : diff[w] # Zero}
        other == DOMAIN sym \ WordsOfWeight(sym, BasisWeight)
    IN  [w \in differ \cup other |-> IF w \in differ THEN diff[w] ELSE sym[w]]

-----------------------------------------------------------------------------
(* check_integrable_n *)

\* Mutant: the coefficients are left out of the sum.
TotalUnweighted(sym, ws, d, t, e) ==
    LET group == {w \in ws : Context(w, t.k) = t.context}
        wedge == [w \in group |-> Wedge(d, e, w[t.k], w[t.k + 1], t.vi, t.vj)]
    IN  IF \E w \in group : wedge[w] = None THEN None ELSE Sum(wedge, group)

\* The value of constraint t at sample point e for the words ws of sym:
\* the coefficient-weighted sum of wedges, or None.
Total(sym, ws, d, t, e) ==
    LET group == {w \in ws : Context(w, t.k) = t.context}
        wedge == [w \in group |-> Wedge(d, e, w[t.k], w[t.k + 1], t.vi, t.vj)]
    IN  IF \E w \in group : wedge[w] = None THEN None
        ELSE Sum([w \in group |-> Times(sym[w], wedge[w])], group)

\* One constraint of the check: violated at a sample, or sampled too little.
Outcome(sym, ws, d, t) ==
    LET total == [e \in 1 .. EnvCount |-> Total(sym, ws, d, t, e)]
        sampled == {e \in 1 .. EnvCount : total[e] # None}
    IN  CASE \E e \in sampled : total[e] # Zero -> "false"
          [] \A e \in sampled : total[e] = Zero ->
                IF Cardinality(sampled) < MinValid THEN "InsufficientSamples" ELSE "true"

\* check_integrable_n on the words ws of one weight, all of them in sym.
CheckWeight(letters, sym, ws, n) ==
    LET used == LettersIn(ws)
        vs == VarsOfLetters(letters, used)
        d == DlogTable([l \in used |-> letters[l]], vs)
        ts == Constraints(Ascending(ws, LexLess), Len(vs), n)
    IN  IF n <= 1 \/ ws = {} \/ Len(vs) < 2 THEN "true"
        ELSE IF DlogFails(d) THEN "Eval"
        ELSE FirstNotTrue([i \in DOMAIN ts |-> Outcome(sym, ws, d, ts[i])])

CheckIntegrableN(letters, sym) ==
    LET top == Max({Len(w) : w \in DOMAIN sym} \cup {0})
    IN  FirstNotTrue([n \in 1 .. top |->
                        CheckWeight(letters, sym, WordsOfWeight(sym, n), n)])

-----------------------------------------------------------------------------
(* Properties of a returned basis *)

BasisSymbol(i) ==
    LET v == basis.vectors[i]
    IN  [w \in {words[c] : c \in {c \in DOMAIN words : v[c] # Zero}} |->
            v[CHOOSE c \in DOMAIN words : words[c] = w]]

\* The symbols asked about that reduce_to_basis accepts, and the basis itself.
Asked ==
    {sym \in Symbols(job) : Reducible(sym)} \cup {BasisSymbol(i) : i \in DOMAIN basis.vectors}

SampledRows ==
    {SampledRow(table, words, t, e) : t \in Sampled, e \in 1 .. EnvCount} \ {None}

Annihilates(r, sym) ==
    Sum([c \in DOMAIN r |-> Times(r[c], At(sym, words[c]))], DOMAIN r) = Zero

\* reduce_to_basis leaves no residual exactly for the symbols of the basis'
\* weight that satisfy every sampled row: elimination and back substitution
\* lose no constraint and add none.
NullSpaceExact ==
    status = "ok" =>
        LET rows == SampledRows IN
        \A sym \in Asked :
            DOMAIN Residual(sym) = {} <=>
                /\ DOMAIN sym = WordsOfWeight(sym, BasisWeight)
                /\ \A r \in rows : Annihilates(r, sym)

\* The vectors are integrable, not only at the sample points: they satisfy each
\* constraint at a point where the variables are as different as they can be.
VectorsIntegrable ==
    status = "ok" =>
        LET vs == AlphabetVars(job.letters)
            d == <<[l \in DOMAIN job.letters |-> [v \in DOMAIN vs |->
                        DlogAt(job.letters[l], vs[v], Elsewhere(vs))]]>>
        IN  \A t \in Sampled :
                LET r == SampledRow(d, words, t, 1)
                IN  r # None => \A i \in DOMAIN basis.vectors : Annihilates(r, BasisSymbol(i))

\* Reading the coefficients at the free columns recovers the coordinates: the
\* i-th basis vector has coordinate one at i, zero elsewhere and no residual,
\* and a residual has no word at a free column.
CoordinatesCanonical ==
    status = "ok" =>
        /\ \A i \in DOMAIN basis.vectors :
            /\ Coordinates(BasisSymbol(i)) = IdentityBasis(Len(basis.vectors))[i]
            /\ DOMAIN Residual(BasisSymbol(i)) = {}
        /\ \A sym \in Asked :
            \A f \in ToSet(basis.free) : words[f] \notin DOMAIN Residual(sym)

\* The direct test and the fingerprint's test agree: when check_integrable_n
\* answers, its answer is whether reduce_to_basis leaves no residual.
CheckMatchesBasis ==
    status = "ok" =>
        \A sym \in Asked :
            LET answer == CheckIntegrableN(job.letters, sym)
            IN  answer \in {"true", "false"} =>
                    (answer = "true" <=> DOMAIN Residual(sym) = {})

\* Up to weight 2 check_integrable_n and check_integrable give one answer,
\* errors included.
ChecksAgree ==
    status \in Ended /\ ValidConstraints(job.letters, job.constraints) /\ job.weight <= 2 =>
        \A sym \in Symbols(job) :
            CheckIntegrableN(job.letters, sym) = CheckIntegrable(job.letters, sym)

\* The values of each letter at the sample points of a check.
LetterValues(letters, used) ==
    LET vs == VarsOfLetters(letters, used)
    IN  [l \in used |-> {DlogAt(letters[l], vs[v], Env(vs, e)) :
                            v \in DOMAIN vs, e \in 1 .. EnvCount}]

\* No letter fails, or none is singular.
NoFailure == (Coeff \cup {None}) \ {Fail}
NoSingularity == (Coeff \cup {Fail}) \ {None}

\* No letter fails; or one fails at every sample point and none is singular.
\* check_integrable_n evaluates all letters before it tests anything, and
\* check_integrable word by word, so that otherwise the one may end with an
\* error where the other finds a violation, or skips the point, before.
ErrorsComparable(letters, used) ==
    LET values == LetterValues(letters, used)
    IN  \/ \A l \in used : values[l] \subseteq NoFailure
        \/ /\ \A l \in used : values[l] \subseteq NoSingularity
           /\ \E l \in used : values[l] \subseteq {Fail}

\* The symbols asked about have finitely many words, over the letters of the
\* call and no longer than its weight.
ChecksComparable ==
    \A j \in Jobs :
        /\ \A used \in SUBSET DOMAIN j.letters : ErrorsComparable(j.letters, used)
        /\ \A sym \in Symbols(j) :
            /\ IsFiniteSet(DOMAIN sym)
            /\ \A w \in DOMAIN sym : w \in Seq(DOMAIN j.letters) /\ Len(w) <= j.weight
=============================================================================
