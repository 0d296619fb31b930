--------------------------- MODULE IntegrableBasis ---------------------------
(***************************************************************************)
(* mpl_symbol::space::build_integrable_basis: enumerate the words of one   *)
(* weight, sample the integrability condition of every adjacent pair of    *)
(* letters, insert the sampled rows one by one in a row echelon form and   *)
(* read the null space off it.  One action per iteration of a loop whose   *)
(* body changes state; columns, letters and variables are numbered from 1. *)
(***************************************************************************)
EXTENDS Sampling

CONSTANT Jobs           \* the calls: alphabet, constraints and weight

-----------------------------------------------------------------------------
(* Words and constraint groups *)

\* WordConstraints::allow_step at one position of a word.
AllowStep(c, w, pos) ==
    /\ (pos = 1 /\ c.first # None) => w[pos] \in c.first
    /\ (pos > 1 /\ c.pairs # None) => c.pairs[w[pos - 1]][w[pos]]

ValidConstraints(letters, c) ==
    /\ c.first # None => c.first \subseteq DOMAIN letters
    /\ c.pairs # None => /\ Len(c.pairs) = Len(letters)
                         /\ \A i \in DOMAIN c.pairs : Len(c.pairs[i]) = Len(letters)

Words(job) ==
    Ascending({w \in [1 .. job.weight -> DOMAIN job.letters] :
                  \A pos \in DOMAIN w : AllowStep(job.constraints, w, pos)}, LexLess)

\* The word without its letters k and k + 1.
Context(w, k) == [i \in 1 .. Len(w) - 2 |-> IF i < k THEN w[i] ELSE w[i + 2]]

\* The variables of the alphabet, in the order of their names.
AlphabetVars(letters) ==
    Ascending(UNION {VarsOf(letters[i]) : i \in DOMAIN letters}, <)

DlogTable(letters, vs) ==
    [e \in 1 .. EnvCount |-> [l \in DOMAIN letters |-> [v \in DOMAIN vs |->
        DlogAt(letters[l], vs[v], Env(vs, e))]]]

\* Alphabets are sequences of letters in finitely many variables; a letter has
\* a logarithmic derivative, or none, or an error at every sample point.
ASSUME JobsAssumption ==
    /\ None \notin Coeff /\ Fail \notin Coeff
    /\ \A j \in Jobs :
        /\ j.weight \in Nat
        /\ Len(j.letters) \in Nat /\ DOMAIN j.letters = 1 .. Len(j.letters)
        /\ \A l \in DOMAIN j.letters :
            IsFiniteSet(VarsOf(j.letters[l])) /\ VarsOf(j.letters[l]) \subseteq Nat
        /\ LET d == DlogTable(j.letters, AlphabetVars(j.letters))
           IN  \A e \in DOMAIN d : \A l \in DOMAIN d[e] : \A v \in DOMAIN d[e][l] :
                    d[e][l][v] \in Coeff \cup {None, Fail}

DlogFails(d) ==
    \E e \in DOMAIN d : \E l \in DOMAIN d[e] : \E v \in DOMAIN d[e][l] : d[e][l][v] = Fail

\* wedge_from_cache: None as soon as one of the four values is.
Wedge(d, e, a, b, vi, vj) ==
    IF None \in {d[e][a][vi], d[e][b][vj], d[e][a][vj], d[e][b][vi]}
    THEN None
    ELSE Minus(Times(d[e][a][vi], d[e][b][vj]), Times(d[e][a][vj], d[e][b][vi]))

\* The constraints: an adjacent position, a context and a pair of variables.
ConstraintSet(ws, nvars, weight) ==
    {t \in {[k |-> k, context |-> Context(ws[c], k), vi |-> vi, vj |-> vj] :
                k \in 1 .. weight - 1, c \in DOMAIN ws,
                vi \in 1 .. nvars, vj \in 1 .. nvars} : t.vi < t.vj}

\* The same in loop order.
LoopKey(t, weight) ==
    [i \in 1 .. weight + 1 |->
        CASE i = 1 -> t.k
          [] i = weight -> t.vi
          [] i = weight + 1 -> t.vj
          [] OTHER -> t.context[i - 1]]

Constraints(ws, nvars, weight) ==
    Ascending(ConstraintSet(ws, nvars, weight),
              LAMBDA s, t : LexLess(LoopKey(s, weight), LoopKey(t, weight)))

Columns(ws, t) == {c \in DOMAIN ws : Context(ws[c], t.k) = t.context}

\* The row constraint t gives at sample point e, zeros left out; None when
\* one letter of the context is singular there.
SampledRow(d, ws, t, e) ==
    LET wedge == [c \in Columns(ws, t) |->
                    Wedge(d, e, ws[c][t.k], ws[c][t.k + 1], t.vi, t.vj)]
    IN  IF \E c \in DOMAIN wedge : wedge[c] = None
        THEN None
        ELSE RestrictValues(wedge, LAMBDA x : x # Zero)

-----------------------------------------------------------------------------
(* Sparse rows and the null space *)

At(row, c) == IF c \in DOMAIN row THEN row[c] ELSE Zero

Lead(row) == Min(DOMAIN row)

\* Mutants of add_scaled_row: zeros are kept; the factor is not used.
AddScaledRowKeepingZeros(row, factor, other) ==
    [c \in DOMAIN row \cup DOMAIN other |->
        Minus(At(row, c), Times(factor, At(other, c)))]

AddScaledRowUnscaled(row, factor, other) ==
    RestrictValues([c \in DOMAIN row \cup DOMAIN other |-> Minus(At(row, c), At(other, c))],
                   LAMBDA x : x # Zero)

\* add_scaled_row(row, factor, other): row - factor * other, zeros removed.
AddScaledRow(row, factor, other) ==
    RestrictValues([c \in DOMAIN row \cup DOMAIN other |->
                       Minus(At(row, c), Times(factor, At(other, c)))],
                   LAMBDA x : x # Zero)

\* Mutant: scaled by the leading value, not by its inverse.
NormalisedByLead(row) == [c \in DOMAIN row |-> Times(row[c], row[Lead(row)])]

\* scale_row by the inverse of the leading value.
Normalised(row) == [c \in DOMAIN row |-> Times(row[c], Recip(row[Lead(row)]))]

FreeCols(ncols, pivots) ==
    Ascending((1 .. ncols) \ DOMAIN pivots, <)

\* Mutant: the pivots are solved from the first to the last.
PivotsAscending(pivots) == Ascending(DOMAIN pivots, <)

\* pivot_cols_desc: back substitution solves the last pivot first.
PivotsDescending(pivots) == Reverse(Ascending(DOMAIN pivots, <))

\* One column of the null space.
NullVector(ncols, pivots, free) ==
    LET Solve(vec, p) ==
            [vec EXCEPT ![p] =
                Neg(Sum([c \in DOMAIN pivots[p] |-> Times(pivots[p][c], vec[c])],
                        DOMAIN pivots[p] \ {p}))]
    IN  FoldLeft(Solve, [c \in 1 .. ncols |-> IF c = free THEN One ELSE Zero],
                 PivotsDescending(pivots))

NullVectors(ncols, pivots, freeCols) ==
    [i \in DOMAIN freeCols |-> NullVector(ncols, pivots, freeCols[i])]

IdentityBasis(n) == [i \in 1 .. n |-> [c \in 1 .. n |-> IF c = i THEN One ELSE Zero]]

-----------------------------------------------------------------------------
VARIABLES
    job,        \* the call
    status,     \* where the call is, or how it ended
    words,      \* the columns
    table,      \* DlogCache
    todo,       \* the constraints still to sample, the first one under way
    env,        \* the next sample point of the first constraint
    valid,      \* its valid samples so far
    row,        \* the row being inserted
    pivots,     \* pivot_rows: leading column -> row
    stats,      \* the counters of BasisStats about rows
    basis       \* the result

vars == <<job, status, words, table, todo, env, valid, row, pivots, stats, basis>>

EmptyRow == [c \in {} |-> Zero]
NoStats == [attempted |-> 0, skipped |-> 0, used |-> 0, inserted |-> 0]
NoBasis == [vectors |-> <<>>, free |-> <<>>]

Init ==
    /\ job \in Jobs
    /\ status = "start"
    /\ words = <<>> /\ table = <<>> /\ todo = <<>>
    /\ env = 1 /\ valid = 0 /\ row = EmptyRow
    /\ pivots = EmptyRow
    /\ stats = NoStats
    /\ basis = NoBasis

\* validate_constraints refuses the call.
Refuse ==
    /\ status = "start"
    /\ ~ValidConstraints(job.letters, job.constraints)
    /\ status' = "NotImplemented"
    /\ UNCHANGED <<job, words, table, todo, env, valid, row, pivots, stats, basis>>

\* Nothing to constrain: no column, weight below 2 or fewer than two variables.
BuildUnconstrained ==
    /\ status = "start"
    /\ ValidConstraints(job.letters, job.constraints)
    /\ words' = Words(job)
    /\ words' = <<>> \/ job.weight < 2 \/ Len(AlphabetVars(job.letters)) < 2
    /\ basis' = [vectors |-> IdentityBasis(Len(words')),
                 free |-> [i \in 1 .. Len(words') |-> i]]
    /\ status' = "ok"
    /\ UNCHANGED <<job, table, todo, env, valid, row, pivots, stats>>

\* Evaluate the letters at the sample points and lay out the constraints.
BuildTable ==
    /\ status = "start"
    /\ ValidConstraints(job.letters, job.constraints)
    /\ words' = Words(job)
    /\ words' # <<>> /\ job.weight >= 2
    /\ LET vs == AlphabetVars(job.letters) IN
        /\ Len(vs) >= 2
        /\ table' = DlogTable(job.letters, vs)
        /\ todo' = Constraints(words', Len(vs), job.weight)
        /\ status' = IF DlogFails(table') THEN "Eval" ELSE "sample"
    /\ UNCHANGED <<job, env, valid, row, pivots, stats, basis>>

\* One sample point of one constraint: skipped, or a row (empty or not).
Sample ==
    /\ status = "sample" /\ todo # <<>> /\ env <= EnvCount
    /\ LET r == SampledRow(table, words, Head(todo), env) IN
        IF r = None
        THEN /\ stats' = [stats EXCEPT !.attempted = @ + 1, !.skipped = @ + 1]
             /\ UNCHANGED <<valid, row, status>>
        ELSE /\ stats' = [stats EXCEPT !.attempted = @ + 1, !.used = @ + 1]
             /\ valid' = valid + 1
             /\ row' = r
             /\ status' = IF DOMAIN r = {} THEN "sample" ELSE "insert"
    /\ env' = env + 1
    /\ UNCHANGED <<job, words, table, todo, pivots, basis>>

\* insert_row, one turn of its loop: the leading column has a pivot already.
Reduce ==
    /\ status = "insert" /\ DOMAIN row # {}
    /\ Lead(row) \in DOMAIN pivots
    /\ row' = AddScaledRow(row, row[Lead(row)], pivots[Lead(row)])
    /\ UNCHANGED <<job, status, words, table, todo, env, valid, pivots, stats, basis>>

\* insert_row returns None: the row depends on the ones before.
DropRow ==
    /\ status = "insert" /\ DOMAIN row = {}
    /\ status' = "sample"
    /\ UNCHANGED <<job, words, table, todo, env, valid, row, pivots, stats, basis>>

\* insert_row stores the row under a new leading column.
StoreRow ==
    /\ status = "insert" /\ DOMAIN row # {}
    /\ Lead(row) \notin DOMAIN pivots
    /\ pivots' = [c \in DOMAIN pivots \cup {Lead(row)} |->
                    IF c = Lead(row) THEN Normalised(row) ELSE pivots[c]]
    /\ stats' = [stats EXCEPT !.inserted = @ + 1]
    /\ row' = EmptyRow
    /\ status' = "sample"
    /\ UNCHANGED <<job, words, table, todo, env, valid, basis>>

\* Mutant: the valid samples of one constraint count for the next.
CloseConstraintNoReset ==
    /\ status = "sample" /\ todo # <<>> /\ env > EnvCount
    /\ IF valid < MinValid
       THEN status' = "InsufficientSamples" /\ UNCHANGED <<todo, env, row>>
       ELSE todo' = Tail(todo) /\ env' = 1 /\ row' = EmptyRow /\ UNCHANGED status
    /\ UNCHANGED <<job, words, table, valid, pivots, stats, basis>>

\* The sample points of a constraint are used up.
CloseConstraint ==
    /\ status = "sample" /\ todo # <<>> /\ env > EnvCount
    /\ IF valid < MinValid
       THEN status' = "InsufficientSamples" /\ UNCHANGED <<todo, env, valid, row>>
       ELSE todo' = Tail(todo) /\ env' = 1 /\ valid' = 0 /\ row' = EmptyRow
            /\ UNCHANGED status
    /\ UNCHANGED <<job, words, table, pivots, stats, basis>>

\* All constraints are in: compute the free columns and the null space.
Finish ==
    /\ status = "sample" /\ todo = <<>>
    /\ LET free == FreeCols(Len(words), pivots)
       IN  basis' = [vectors |-> NullVectors(Len(words), pivots, free), free |-> free]
    /\ status' = "ok"
    /\ UNCHANGED <<job, words, table, todo, env, valid, row, pivots, stats>>

Ended == {"ok", "NotImplemented", "Eval", "InsufficientSamples"}

\* The call has returned.
Returned == status \in Ended /\ UNCHANGED vars

Next ==
    \/ Refuse \/ BuildUnconstrained \/ BuildTable
    \/ Sample \/ Reduce \/ DropRow \/ StoreRow \/ CloseConstraint
    \/ Finish \/ Returned

Spec == Init /\ [][Next]_vars

-----------------------------------------------------------------------------
(* Properties *)

IsRow(r) == r \in [DOMAIN r -> NonZero] /\ DOMAIN r \subseteq DOMAIN words

\* Types; in particular a stored row, and the row being inserted, never holds
\* a zero (add_scaled_row and the sampling drop them) and never leaves the
\* columns of the words.
TypeOK ==
    /\ job \in Jobs
    /\ status \in {"start", "sample", "insert"} \cup Ended
    /\ env \in 1 .. EnvCount + 1 /\ valid \in 0 .. env - 1
    /\ IsRow(row)
    /\ DOMAIN pivots \subseteq DOMAIN words
    /\ \A p \in DOMAIN pivots : IsRow(pivots[p])
    /\ stats \in [attempted : Nat, skipped : Nat, used : Nat, inserted : Nat]

\* pivot_rows is a row echelon form at every step of the insertion: each row
\* is filed under its smallest column and has the value one there.  The back
\* substitution of build_nullspace_vectors solves each row for that column.
EchelonForm ==
    \A p \in DOMAIN pivots :
        /\ p \in DOMAIN pivots[p] /\ pivots[p][p] = One
        /\ \A c \in DOMAIN pivots[p] : p <= c

\* What is left to do: the call, its constraints, the sample points of the
\* first one, and the columns right of the leading one of the row under way.
Left ==
    <<IF status = "start" THEN 2 ELSE IF status \in Ended THEN 0 ELSE 1,
      Len(todo), EnvCount + 1 - env,
      IF status # "insert" THEN 0
      ELSE IF DOMAIN row = {} THEN 1 ELSE Len(words) + 2 - Lead(row)>>

\* Every step of a call leaves less to do, so every call returns: in
\* particular one turn of insert_row moves the leading column to the right or
\* empties the row, and no loop starts over.
Progress == [][LexLess(Left', Left)]_vars

\* The constraints the basis was sampled for.
Sampled ==
    IF table = <<>> THEN {}
    ELSE ConstraintSet(words, Len(AlphabetVars(job.letters)), job.weight)

\* A basis is returned only if each constraint had two samples at which no
\* letter of its context is singular.
EnoughSamples ==
    status = "ok" =>
        \A t \in Sampled :
            Cardinality({e \in 1 .. EnvCount : SampledRow(table, words, t, e) # None}) >= MinValid
=============================================================================
