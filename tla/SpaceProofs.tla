------------------------------ MODULE SpaceProofs ------------------------------
(***************************************************************************)
(* build_integrable_basis and reduce_to_basis for every alphabet,          *)
(* constraint set, weight, symbol and field of coefficients: the rows stay *)
(* well formed, the pivots stay in echelon form, every step makes          *)
(* progress, elimination and back substitution lose no sampled row and add *)
(* none, and the free columns are coordinates.  The two direct tests,      *)
(* check_integrable_n and check_integrable, agree up to weight two, and    *)
(* check_integrable_n agrees with the basis.                               *)
(***************************************************************************)
EXTENDS SpaceQueries, IntegrableBasisLemmas

VarCount(j) == Len(AlphabetVars(j.letters))

\* What the calls of a job work on while it samples.
Prepared ==
    /\ job.weight >= 2
    /\ words = Words(job)
    /\ table = DlogTable(job.letters, AlphabetVars(job.letters)) /\ ~DlogFails(table)
    /\ todo \in Seq(ConstraintSet(words, VarCount(job), job.weight))

\* The inductive invariant: the types and the echelon form need to know where
\* the columns and the table come from, and that a call starts empty.
IInv ==
    /\ TypeOK
    /\ EchelonForm
    /\ status = "start" => row = EmptyRow /\ pivots = EmptyRow /\ todo = <<>>
    /\ status \in {"sample", "insert"} => Prepared
    /\ status = "insert" => todo # <<>>

-----------------------------------------------------------------------------
\* A sampled row has a nonzero coefficient at each of its columns.
LEMMA SampledRowType ==
    ASSUME NEW j \in Jobs, j.weight >= 2, NEW d, d = DlogTable(j.letters, AlphabetVars(j.letters)),
           ~DlogFails(d), NEW t \in ConstraintSet(Words(j), VarCount(j), j.weight),
           NEW e \in 1 .. EnvCount
    PROVE  LET r == SampledRow(d, Words(j), t, e)
           IN  r # None => r \in [DOMAIN r -> NonZero] /\ DOMAIN r \subseteq DOMAIN Words(j)
<1> DEFINE ws == Words(j)
           nv == VarCount(j)
           L == DOMAIN j.letters
           C == Columns(ws, t)
           wedge == [c \in C |-> Wedge(d, e, ws[c][t.k], ws[c][t.k + 1], t.vi, t.vj)]
           r == SampledRow(d, ws, t, e)
<1>1. nv \in Nat /\ DOMAIN AlphabetVars(j.letters) = 1 .. nv
  BY AlphabetVarsType DEF VarCount
<1>2. j.weight \in Nat
  BY JobsAssumption
<1>3. t.k \in 1 .. j.weight - 1 /\ t.vi \in 1 .. nv /\ t.vj \in 1 .. nv
  <2>1. ConstraintSet(Words(j), nv, j.weight) \subseteq
          [k : 1 .. j.weight - 1, context : [1 .. j.weight - 2 -> L], vi : 1 .. nv, vj : 1 .. nv]
    <3> HIDE DEF nv
    <3> QED BY <1>1, ConstraintsType
  <2> QED BY <2>1
<1>4. ASSUME NEW l \in L, NEW v \in 1 .. nv
      PROVE  d[e][l][v] \in Coeff \cup {None}
  <2>1. DOMAIN d = 1 .. EnvCount /\ DOMAIN d[e] = L /\ DOMAIN d[e][l] = 1 .. nv
    BY <1>1 DEF DlogTable
  <2>2. d[e][l][v] \in Coeff \cup {None, Fail}
    BY <2>1, JobsAssumption
  <2>3. d[e][l][v] # Fail
    BY <2>1 DEF DlogFails
  <2> QED BY <2>2, <2>3
<1>5. \A c \in C : c \in DOMAIN ws /\ ws[c][t.k] \in L /\ ws[c][t.k + 1] \in L
  <2>1. ws \in [DOMAIN ws -> [1 .. j.weight -> L]]
    BY WordsType
  <2>2. t.k \in 1 .. j.weight /\ t.k + 1 \in 1 .. j.weight
    BY <1>2, <1>3
  <2> QED BY <2>1, <2>2 DEF Columns
<1>6. ASSUME NEW c \in C, wedge[c] # None
      PROVE  wedge[c] \in Coeff
  <2> DEFINE a == ws[c][t.k]
             b == ws[c][t.k + 1]
  <2>1. a \in L /\ b \in L
    BY <1>5
  <2>2. /\ d[e][a][t.vi] \in Coeff \cup {None} /\ d[e][b][t.vj] \in Coeff \cup {None}
        /\ d[e][a][t.vj] \in Coeff \cup {None} /\ d[e][b][t.vi] \in Coeff \cup {None}
    BY <2>1, <1>3, <1>4
  <2>3. wedge[c] = Wedge(d, e, a, b, t.vi, t.vj)
    OBVIOUS
  <2> HIDE DEF a, b, wedge
  <2>4. None \notin {d[e][a][t.vi], d[e][b][t.vj], d[e][a][t.vj], d[e][b][t.vi]}
    BY <2>3, <1>6 DEF Wedge
  <2>5. /\ d[e][a][t.vi] \in Coeff /\ d[e][b][t.vj] \in Coeff
        /\ d[e][a][t.vj] \in Coeff /\ d[e][b][t.vi] \in Coeff
    BY <2>2, <2>4
  <2>6. \A x, y, z, u \in Coeff : Minus(Times(x, y), Times(z, u)) \in Coeff
    BY CoeffAssumption
  <2>7. wedge[c] = Minus(Times(d[e][a][t.vi], d[e][b][t.vj]), Times(d[e][a][t.vj], d[e][b][t.vi]))
    BY <2>3, <2>4 DEF Wedge
  <2>8. Minus(Times(d[e][a][t.vi], d[e][b][t.vj]), Times(d[e][a][t.vj], d[e][b][t.vi])) \in Coeff
    BY <2>5, <2>6, Zenon
  <2> QED BY <2>7, <2>8
<1> SUFFICES ASSUME r # None
             PROVE  r \in [DOMAIN r -> NonZero] /\ DOMAIN r \subseteq DOMAIN ws
  OBVIOUS
<1> DEFINE D == {c \in DOMAIN wedge : wedge[c] # Zero}
<1>7. (\A c \in C : wedge[c] # None) /\ r = [c \in D |-> wedge[c]]
  BY DEF SampledRow, RestrictValues, Restrict
<1>8. D \subseteq C
  OBVIOUS
<1> HIDE DEF wedge, r, ws, C
<1>9. \A c \in D : wedge[c] \in NonZero
  BY <1>6, <1>7, <1>8 DEF NonZero
<1> QED BY <1>5, <1>7, <1>8, <1>9

\* One turn of insert_row: the row loses its leading column to the pivot row
\* and keeps only columns to the right of it.
LEMMA ReduceMovesRight ==
    ASSUME IInv, Reduce
    PROVE  /\ IsRow(row)'
           /\ \A c \in DOMAIN row' : Lead(row) < c
<1> DEFINE p == Lead(row)
<1>1. DOMAIN words = 1 .. Len(words) /\ Len(words) \in Nat
  BY WordsType DEF IInv, TypeOK, Reduce, Prepared
<1>2. row \in [DOMAIN row -> NonZero] /\ DOMAIN row \subseteq DOMAIN words /\ DOMAIN row # {}
  BY DEF IInv, TypeOK, IsRow, Reduce
<1>3. p \in DOMAIN row /\ \A c \in DOMAIN row : p <= c
  BY <1>1, <1>2, LeadIsSmallest
<1>4. p \in DOMAIN pivots /\ row' = AddScaledRow(row, row[p], pivots[p]) /\ words' = words
  BY DEF Reduce
<1>5. pivots[p] \in [DOMAIN pivots[p] -> NonZero] /\ DOMAIN pivots[p] \subseteq DOMAIN words
  BY <1>4 DEF IInv, TypeOK, IsRow
<1>6. p \in DOMAIN pivots[p] /\ pivots[p][p] = One /\ \A c \in DOMAIN pivots[p] : p <= c
  BY <1>4 DEF IInv, EchelonForm
<1> HIDE DEF p
<1>7. row' \in [DOMAIN row' -> NonZero] /\ DOMAIN row' \subseteq (DOMAIN row \cup DOMAIN pivots[p]) \ {p}
  BY <1>2, <1>3, <1>4, <1>5, <1>6, AddScaledRowClears
<1>8. IsRow(row)'
  BY <1>2, <1>4, <1>5, <1>7 DEF IsRow
<1>9. \A c \in DOMAIN row' : p < c
  BY <1>1, <1>2, <1>3, <1>5, <1>6, <1>7
<1> QED BY <1>8, <1>9 DEF p

LEMMA EmptyIsRow == DOMAIN EmptyRow = {} /\ IsRow(EmptyRow)
BY DEF EmptyRow, IsRow

LEMMA InitIInv == Init => IInv
<1> SUFFICES ASSUME Init PROVE IInv
  OBVIOUS
<1>1. TypeOK
  <2>1. IsRow(row) /\ DOMAIN pivots = {}
    BY EmptyIsRow DEF Init
  <2> QED BY <2>1 DEF Init, TypeOK, NoStats, EnvCount
<1>2. EchelonForm
  BY EmptyIsRow DEF Init, EchelonForm
<1> QED BY <1>1, <1>2 DEF Init, IInv

LEMMA StepIInv == IInv /\ [Next]_vars => IInv'
<1> SUFFICES ASSUME IInv, [Next]_vars PROVE IInv'
  OBVIOUS
<1> USE DEF Ended
<1>1. ASSUME status = "start", status' \in Ended,
             job' = job, UNCHANGED <<env, valid, row, pivots, stats>>
      PROVE  IInv'
  <2>1. row = EmptyRow /\ pivots = EmptyRow
    BY <1>1 DEF IInv
  <2>2. IsRow(row)' /\ DOMAIN pivots' = {}
    BY <1>1, <2>1, EmptyIsRow DEF IsRow
  <2> QED BY <1>1, <2>2 DEF IInv, TypeOK, EchelonForm
<1>2. ASSUME Refuse PROVE IInv'
  BY <1>1, <1>2 DEF Refuse
<1>3. ASSUME BuildUnconstrained PROVE IInv'
  BY <1>1, <1>3 DEF BuildUnconstrained
<1>4. ASSUME BuildTable PROVE IInv'
  <2>1. CASE status' = "Eval"
    BY <1>1, <1>4, <2>1 DEF BuildTable
  <2>2. CASE status' # "Eval"
    <3>1. status = "start" /\ status' = "sample" /\ UNCHANGED <<job, env, valid, row, pivots, stats>>
      BY <1>4, <2>2 DEF BuildTable
    <3>2. row' = EmptyRow /\ pivots' = EmptyRow
      BY <3>1 DEF IInv
    <3>3. IsRow(row)' /\ DOMAIN pivots' = {}
      BY <3>2, EmptyIsRow DEF IsRow
    <3>4. TypeOK' /\ EchelonForm'
      BY <3>1, <3>3 DEF IInv, TypeOK, EchelonForm
    <3>5. Prepared'
      <4>1. job \in Jobs
        BY DEF IInv, TypeOK
      <4>2. /\ job.weight >= 2 /\ words' = Words(job)
            /\ table' = DlogTable(job.letters, AlphabetVars(job.letters))
            /\ todo' = Constraints(words', VarCount(job), job.weight)
            /\ ~DlogFails(table')
        BY <1>4, <2>2 DEF BuildTable, VarCount
      <4>3. VarCount(job) \in Nat
        BY <4>1, AlphabetVarsType DEF VarCount
      <4>4. todo' \in Seq(ConstraintSet(words', VarCount(job), job.weight))
        BY <4>1, <4>2, <4>3, ConstraintsType
      <4> QED BY <3>1, <4>2, <4>4 DEF Prepared
    <3> QED BY <3>1, <3>4, <3>5 DEF IInv
  <2> QED BY <2>1, <2>2
<1>5. ASSUME Sample PROVE IInv'
  <2>1. Prepared /\ todo # <<>> /\ job \in Jobs
    BY <1>5 DEF Sample, IInv, TypeOK
  <2> DEFINE r == SampledRow(table, words, Head(todo), env)
  <2>2. r # None => IsRow(r)
    <3>1. Head(todo) \in ConstraintSet(words, VarCount(job), job.weight)
      BY <2>1 DEF Prepared
    <3>2. env \in 1 .. EnvCount
      BY <1>5 DEF Sample, IInv, TypeOK, EnvCount
    <3> QED BY <2>1, <3>1, <3>2, SampledRowType DEF Prepared, IsRow
  <2>3. /\ UNCHANGED <<job, words, table, todo, pivots>> /\ env' = env + 1 /\ env <= EnvCount
        /\ status = "sample" /\ status' \in {"sample", "insert"}
        /\ valid' \in {valid, valid + 1} /\ row' = (IF r = None THEN row ELSE r)
        /\ \/ stats' = [stats EXCEPT !.attempted = @ + 1, !.skipped = @ + 1]
           \/ stats' = [stats EXCEPT !.attempted = @ + 1, !.used = @ + 1]
    BY <1>5 DEF Sample
  <2> HIDE DEF r
  <2>4. IsRow(row)' /\ \A p \in DOMAIN pivots : IsRow(pivots[p])'
    BY <2>2, <2>3 DEF IInv, TypeOK, IsRow
  <2>5. env' \in 1 .. EnvCount + 1 /\ valid' \in 0 .. env' - 1
    BY <2>3 DEF IInv, TypeOK, EnvCount
  <2>6. stats' \in [attempted : Nat, skipped : Nat, used : Nat, inserted : Nat]
    <3>1. stats \in [attempted : Nat, skipped : Nat, used : Nat, inserted : Nat]
      BY DEF IInv, TypeOK
    <3> DEFINE one == [stats EXCEPT !.attempted = stats.attempted + 1]
               skip == [one EXCEPT !.skipped = one.skipped + 1]
               use == [one EXCEPT !.used = one.used + 1]
    <3>2. /\ one \in [attempted : Nat, skipped : Nat, used : Nat, inserted : Nat]
          /\ one.skipped = stats.skipped /\ one.used = stats.used
      BY <3>1
    <3>3. /\ skip \in [attempted : Nat, skipped : Nat, used : Nat, inserted : Nat]
          /\ use \in [attempted : Nat, skipped : Nat, used : Nat, inserted : Nat]
      <4> HIDE DEF one
      <4> QED BY <3>2
    <3>4. [stats EXCEPT !.attempted = @ + 1, !.skipped = @ + 1] = skip
      <4>1. [stats EXCEPT !.attempted = @ + 1, !.skipped = @ + 1]
              = [one EXCEPT !.skipped = stats.skipped + 1]
        BY Zenon
      <4> HIDE DEF one
      <4> QED BY <3>2, <4>1, Zenon
    <3>5. [stats EXCEPT !.attempted = @ + 1, !.used = @ + 1] = use
      <4>1. [stats EXCEPT !.attempted = @ + 1, !.used = @ + 1]
              = [one EXCEPT !.used = stats.used + 1]
        BY Zenon
      <4> HIDE DEF one
      <4> QED BY <3>2, <4>1, Zenon
    <3> HIDE DEF skip, use
    <3> QED BY <2>3, <3>3, <3>4, <3>5
  <2>7. TypeOK' /\ EchelonForm'
    BY <2>3, <2>4, <2>5, <2>6 DEF IInv, TypeOK, EchelonForm
  <2> QED BY <2>1, <2>3, <2>7 DEF IInv, Prepared
<1>6. ASSUME Reduce PROVE IInv'
  <2>1. IsRow(row)'
    BY <1>6, ReduceMovesRight
  <2>2. UNCHANGED <<job, status, words, table, todo, env, valid, pivots, stats, basis>> /\ status = "insert"
    BY <1>6 DEF Reduce
  <2> QED BY <2>1, <2>2 DEF IInv, TypeOK, EchelonForm, Prepared, IsRow
<1>7. ASSUME DropRow PROVE IInv'
  BY <1>7 DEF DropRow, IInv, TypeOK, EchelonForm, Prepared, IsRow
<1>8. ASSUME StoreRow PROVE IInv'
  <2> DEFINE p == Lead(row)
             q == Normalised(row)
  <2>1. /\ DOMAIN row # {} /\ p \notin DOMAIN pivots
        /\ pivots' = [c \in DOMAIN pivots \cup {p} |-> IF c = p THEN q ELSE pivots[c]]
        /\ stats' = [stats EXCEPT !.inserted = @ + 1] /\ row' = EmptyRow
        /\ status = "insert" /\ status' = "sample"
        /\ UNCHANGED <<job, words, table, todo, env, valid>>
    BY <1>8 DEF StoreRow
  <2>2. row \in [DOMAIN row -> NonZero] /\ DOMAIN row \subseteq DOMAIN words
    BY DEF IInv, TypeOK, IsRow
  <2>3. DOMAIN words = 1 .. Len(words) /\ Len(words) \in Nat
    BY <2>1, WordsType DEF IInv, TypeOK, Prepared
  <2>4. p \in DOMAIN row /\ \A c \in DOMAIN row : p <= c
    BY <2>1, <2>2, <2>3, LeadIsSmallest
  <2>5. q \in [DOMAIN row -> NonZero] /\ q[p] = One
    BY <2>2, <2>4, NormalisedLeadsWithOne
  <2> HIDE DEF p, q
  <2>6. IsRow(q) /\ p \in DOMAIN q /\ \A c \in DOMAIN q : p <= c
    BY <2>2, <2>4, <2>5 DEF IsRow
  <2>7. \A c \in DOMAIN pivots : IsRow(pivots[c])
    BY DEF IInv, TypeOK
  <2>8. /\ DOMAIN pivots' \subseteq DOMAIN words'
        /\ \A c \in DOMAIN pivots' : IsRow(pivots[c])'
    <3>1. DOMAIN pivots' = DOMAIN pivots \cup {p} /\ p \in DOMAIN words
      BY <2>1, <2>2, <2>4
    <3>2. \A c \in DOMAIN pivots' : pivots'[c] = IF c = p THEN q ELSE pivots[c]
      BY <2>1
    <3>3. \A c \in DOMAIN pivots' : IsRow(pivots'[c])
      BY <2>6, <2>7, <3>1, <3>2
    <3>4. \A c \in DOMAIN pivots' : IsRow(pivots[c])'
      BY <2>1, <3>3 DEF IsRow
    <3> QED BY <2>1, <3>1, <3>4 DEF IInv, TypeOK
  <2>9. EchelonForm'
    BY <2>1, <2>5, <2>6 DEF IInv, EchelonForm
  <2>10. IsRow(row)'
    BY <2>1, EmptyIsRow DEF IsRow
  <2>11. stats' \in [attempted : Nat, skipped : Nat, used : Nat, inserted : Nat]
    BY <2>1 DEF IInv, TypeOK
  <2>12. TypeOK'
    BY <2>1, <2>8, <2>10, <2>11 DEF IInv, TypeOK
  <2> QED BY <2>1, <2>9, <2>12 DEF IInv, Prepared
<1>9. ASSUME CloseConstraint PROVE IInv'
  <2>1. CASE valid < MinValid
    BY <1>9, <2>1 DEF CloseConstraint, IInv, TypeOK, EchelonForm, Prepared, IsRow
  <2>2. CASE ~(valid < MinValid)
    <3>1. /\ todo' = Tail(todo) /\ env' = 1 /\ valid' = 0 /\ row' = EmptyRow /\ todo # <<>>
          /\ status = "sample" /\ UNCHANGED <<job, status, words, table, pivots, stats>>
      BY <1>9, <2>2 DEF CloseConstraint
    <3>2. IsRow(row)'
      BY <3>1, EmptyIsRow DEF IsRow
    <3>3. TypeOK' /\ EchelonForm'
      BY <3>1, <3>2 DEF IInv, TypeOK, EchelonForm, IsRow, EnvCount
    <3>4. Prepared'
      BY <3>1 DEF IInv, Prepared
    <3> QED BY <3>1, <3>3, <3>4 DEF IInv
  <2> QED BY <2>1, <2>2
<1>10. ASSUME Finish PROVE IInv'
  BY <1>10 DEF Finish, IInv, TypeOK, EchelonForm, IsRow
<1>11. ASSUME UNCHANGED vars PROVE IInv'
  BY <1>11 DEF vars, IInv, TypeOK, EchelonForm, Prepared, IsRow
<1> QED BY <1>2, <1>3, <1>4, <1>5, <1>6, <1>7, <1>8, <1>9, <1>10, <1>11 DEF Next, Returned

-----------------------------------------------------------------------------
(* Progress *)

LEMMA LexLess4 ==
    ASSUME NEW a1, NEW a2, NEW a3, NEW a4, NEW b1, NEW b2, NEW b3, NEW b4,
           \/ a1 < b1
           \/ a1 = b1 /\ a2 < b2
           \/ a1 = b1 /\ a2 = b2 /\ a3 < b3
           \/ a1 = b1 /\ a2 = b2 /\ a3 = b3 /\ a4 < b4
    PROVE  LexLess(<<a1, a2, a3, a4>>, <<b1, b2, b3, b4>>)
<1> DEFINE s == <<a1, a2, a3, a4>>
           t == <<b1, b2, b3, b4>>
<1>1. DOMAIN s = 1 .. 4
  OBVIOUS
<1>2. ASSUME NEW i \in 1 .. 4, s[i] < t[i], \A j \in 1 .. i - 1 : s[j] = t[j]
      PROVE  LexLess(s, t)
  BY <1>1, <1>2 DEF LexLess
<1>3. CASE a1 < b1
  BY <1>2, <1>3
<1>4. CASE a1 = b1 /\ a2 < b2
  BY <1>2, <1>4
<1>5. CASE a1 = b1 /\ a2 = b2 /\ a3 < b3
  <2>1. \A j \in 1 .. 3 - 1 : j = 1 \/ j = 2
    OBVIOUS
  <2>2. \A j \in 1 .. 3 - 1 : s[j] = t[j]
    BY <1>5, <2>1
  <2>3. 3 \in 1 .. 4 /\ s[3] < t[3]
    BY <1>5
  <2>4. LexLess(s, t)
    <3> HIDE DEF s, t
    <3> QED BY <1>2, <2>2, <2>3
  <2> QED BY <2>4
<1>6. CASE a1 = b1 /\ a2 = b2 /\ a3 = b3 /\ a4 < b4
  <2>1. \A j \in 1 .. 4 - 1 : j = 1 \/ j = 2 \/ j = 3
    OBVIOUS
  <2>2. \A j \in 1 .. 4 - 1 : s[j] = t[j]
    BY <1>6, <2>1
  <2>3. 4 \in 1 .. 4 /\ s[4] < t[4]
    BY <1>6
  <2>4. LexLess(s, t)
    <3> HIDE DEF s, t
    <3> QED BY <1>2, <2>2, <2>3
  <2> QED BY <2>4
<1> QED BY <1>3, <1>4, <1>5, <1>6

\* The components of Left.
Phase == IF status = "start" THEN 2 ELSE IF status \in Ended THEN 0 ELSE 1
Inserting ==
    IF status # "insert" THEN 0
    ELSE IF DOMAIN row = {} THEN 1 ELSE Len(words) + 2 - Lead(row)

LEMMA LessLeft ==
    ASSUME \/ Phase' < Phase
           \/ Phase' = Phase /\ Len(todo') < Len(todo)
           \/ /\ Phase' = Phase /\ Len(todo') = Len(todo)
              /\ EnvCount + 1 - env' < EnvCount + 1 - env
           \/ Phase' = Phase /\ todo' = todo /\ env' = env /\ Inserting' < Inserting
    PROVE  LexLess(Left', Left)
<1>1. Left = <<Phase, Len(todo), EnvCount + 1 - env, Inserting>>
  BY DEF Left, Phase, Inserting
<1>2. Left' = <<Phase', Len(todo'), EnvCount + 1 - env', Inserting'>>
  BY DEF Left, Phase, Inserting
<1>3. LexLess(<<Phase', Len(todo'), EnvCount + 1 - env', Inserting'>>,
              <<Phase, Len(todo), EnvCount + 1 - env, Inserting>>)
  BY LexLess4
<1> QED BY <1>1, <1>2, <1>3

LEMMA StepProgress == IInv /\ [Next]_vars => [LexLess(Left', Left)]_vars
<1> SUFFICES ASSUME IInv, Next PROVE LexLess(Left', Left) \/ UNCHANGED vars
  OBVIOUS
<1> USE DEF Ended
<1>1. ASSUME Refuse \/ BuildUnconstrained \/ BuildTable PROVE LexLess(Left', Left)
  <2>1. Phase = 2 /\ Phase' < 2
    BY <1>1 DEF Refuse, BuildUnconstrained, BuildTable, Phase
  <2> QED BY <2>1, LessLeft
<1>2. ASSUME Sample PROVE LexLess(Left', Left)
  <2>1. Phase' = Phase /\ todo' = todo
    BY <1>2 DEF Sample, Phase
  <2>2. EnvCount + 1 - env' < EnvCount + 1 - env
    BY <1>2 DEF Sample, IInv, TypeOK, EnvCount
  <2> QED BY <2>1, <2>2, LessLeft
<1>3. ASSUME status = "insert", DOMAIN row # {}
      PROVE  /\ Inserting = Len(words) + 2 - Lead(row) /\ Len(words) \in Nat
             /\ Lead(row) \in 1 .. Len(words)
  <2>1. DOMAIN words = 1 .. Len(words) /\ Len(words) \in Nat
    BY <1>3, WordsType DEF IInv, TypeOK, Prepared
  <2>2. DOMAIN row \subseteq DOMAIN words
    BY DEF IInv, TypeOK, IsRow
  <2>3. Lead(row) \in DOMAIN row
    BY <1>3, <2>1, <2>2, LeadIsSmallest
  <2> QED BY <1>3, <2>1, <2>2, <2>3 DEF Inserting
<1>4. ASSUME Reduce PROVE LexLess(Left', Left)
  <2>1. /\ status = "insert" /\ DOMAIN row # {}
        /\ status' = status /\ todo' = todo /\ env' = env /\ words' = words
    BY <1>4 DEF Reduce
  <2>2. /\ Inserting = Len(words) + 2 - Lead(row) /\ Len(words) \in Nat
        /\ Lead(row) \in 1 .. Len(words)
    BY <1>3, <2>1
  <2>3. Inserting' < Inserting
    <3>1. CASE DOMAIN row' = {}
      BY <2>1, <2>2, <3>1 DEF Inserting
    <3>2. CASE DOMAIN row' # {}
      <4>1. DOMAIN row' \subseteq DOMAIN words /\ \A c \in DOMAIN row' : Lead(row) < c
        BY <1>4, <2>1, ReduceMovesRight DEF IsRow
      <4>2. DOMAIN words = 1 .. Len(words)
        BY <2>1, WordsType DEF IInv, TypeOK, Prepared
      <4>3. Lead(row') \in DOMAIN row'
        BY <2>2, <4>1, <4>2, <3>2, LeadIsSmallest
      <4>4. Inserting' = Len(words) + 2 - Lead(row')
        BY <2>1, <3>2 DEF Inserting
      <4> QED BY <2>2, <4>1, <4>2, <4>3, <4>4
    <3> QED BY <3>1, <3>2
  <2>4. Phase' = Phase
    BY <2>1 DEF Phase
  <2> QED BY <2>1, <2>3, <2>4, LessLeft
<1>5. ASSUME DropRow PROVE LexLess(Left', Left)
  <2>1. Phase' = Phase /\ todo' = todo /\ env' = env
    BY <1>5 DEF DropRow, Phase
  <2>2. Inserting = 1 /\ Inserting' = 0
    BY <1>5 DEF DropRow, Inserting
  <2> QED BY <2>1, <2>2, LessLeft
<1>6. ASSUME StoreRow PROVE LexLess(Left', Left)
  <2>1. Phase' = Phase /\ todo' = todo /\ env' = env
    BY <1>6 DEF StoreRow, Phase
  <2>2. Inserting' = 0
    BY <1>6 DEF StoreRow, Inserting
  <2>3. Inserting \in Nat /\ Inserting >= 2
    BY <1>3, <1>6 DEF StoreRow
  <2> QED BY <2>1, <2>2, <2>3, LessLeft
<1>7. ASSUME CloseConstraint PROVE LexLess(Left', Left)
  <2>1. CASE valid < MinValid
    <3>1. Phase = 1 /\ Phase' = 0
      BY <1>7, <2>1 DEF CloseConstraint, Phase
    <3> QED BY <3>1, LessLeft
  <2>2. CASE ~(valid < MinValid)
    <3>1. Phase' = Phase
      BY <1>7, <2>2 DEF CloseConstraint, Phase
    <3>2. todo # <<>> /\ todo' = Tail(todo)
      BY <1>7, <2>2 DEF CloseConstraint
    <3>3. todo \in Seq(ConstraintSet(words, VarCount(job), job.weight))
      BY <1>7 DEF CloseConstraint, IInv, Prepared
    <3>4. Len(todo') < Len(todo)
      BY <3>2, <3>3
    <3> QED BY <3>1, <3>4, LessLeft
  <2> QED BY <2>1, <2>2
<1>8. ASSUME Finish PROVE LexLess(Left', Left)
  <2>1. Phase = 1 /\ Phase' = 0
    BY <1>8 DEF Finish, Phase
  <2> QED BY <2>1, LessLeft
<1> QED BY <1>1, <1>2, <1>4, <1>5, <1>6, <1>7, <1>8 DEF Next, Returned

-----------------------------------------------------------------------------
(* Enough samples *)

\* The constraints of the call, the first sample points at which a constraint
\* has a row, and whether a constraint has rows enough.
Given == ConstraintSet(words, VarCount(job), job.weight)
ValidUpTo(t, n) == {e \in 1 .. n : SampledRow(table, words, t, e) # None}
Enough(t) == Cardinality(ValidUpTo(t, EnvCount)) >= MinValid

\* While a call samples, a constraint has rows enough or is still on the list,
\* and valid counts the rows of the first one on it.
Counted ==
    /\ \A t \in Given : Enough(t) \/ \E i \in DOMAIN todo : todo[i] = t
    /\ todo # <<>> => valid = Cardinality(ValidUpTo(Head(todo), env - 1))

SInv ==
    /\ status = "start" => table = <<>> /\ env = 1 /\ valid = 0
    /\ status \in {"sample", "insert"} => Counted
    /\ EnoughSamples

\* One sample point more.
LEMMA OneMoreSample ==
    ASSUME NEW t, NEW n \in Nat
    PROVE  /\ Cardinality(ValidUpTo(t, n)) \in Nat
           /\ Cardinality(ValidUpTo(t, n + 1)) =
                IF SampledRow(table, words, t, n + 1) = None
                THEN Cardinality(ValidUpTo(t, n)) ELSE Cardinality(ValidUpTo(t, n)) + 1
<1>1. IsFiniteSet(ValidUpTo(t, n)) /\ Cardinality(ValidUpTo(t, n)) \in Nat
  <2>1. IsFiniteSet(1 .. n) /\ ValidUpTo(t, n) \in SUBSET (1 .. n)
    BY FS_Interval DEF ValidUpTo
  <2> QED BY <2>1, FS_Subset, FS_CardinalityType
<1>2. ValidUpTo(t, n + 1) =
        IF SampledRow(table, words, t, n + 1) = None
        THEN ValidUpTo(t, n) ELSE ValidUpTo(t, n) \cup {n + 1}
  <2>1. 1 .. n + 1 = (1 .. n) \cup {n + 1}
    OBVIOUS
  <2> QED BY <2>1 DEF ValidUpTo
<1>3. n + 1 \notin ValidUpTo(t, n)
  BY DEF ValidUpTo
<1>4. Cardinality(ValidUpTo(t, n) \cup {n + 1}) = Cardinality(ValidUpTo(t, n)) + 1
  BY <1>1, <1>3, FS_AddElement
<1> QED BY <1>1, <1>2, <1>4

LEMMA InitSInv == Init => SInv
BY DEF Init, SInv, EnoughSamples

LEMMA StepSInv == IInv /\ SInv /\ [Next]_vars => SInv'
<1> SUFFICES ASSUME IInv, SInv, [Next]_vars PROVE SInv'
  OBVIOUS
<1>1. ASSUME status' \in {"NotImplemented", "Eval", "InsufficientSamples"} PROVE SInv'
  BY <1>1 DEF SInv, EnoughSamples
<1>2. ASSUME Refuse PROVE SInv'
  BY <1>1, <1>2 DEF Refuse
<1>3. ASSUME BuildUnconstrained PROVE SInv'
  <2>1. table' = <<>> /\ status' = "ok"
    BY <1>3 DEF BuildUnconstrained, SInv
  <2> QED BY <2>1 DEF SInv, EnoughSamples, Sampled
<1>4. ASSUME BuildTable PROVE SInv'
  <2>1. CASE status' = "Eval"
    BY <1>1, <2>1
  <2>2. CASE status' # "Eval"
    <3>1. /\ status = "start" /\ status' = "sample" /\ job' = job /\ job \in Jobs
          /\ env' = 1 /\ valid' = 0 /\ job.weight >= 2 /\ words' = Words(job)
          /\ todo' = Constraints(words', VarCount(job), job.weight)
      BY <1>4, <2>2 DEF BuildTable, VarCount, SInv, IInv, TypeOK
    <3>2. VarCount(job) \in Nat
      BY <3>1, AlphabetVarsType DEF VarCount
    <3>3. \A t \in Given' : \E i \in DOMAIN todo' : todo'[i] = t
      <4>1. Given' = ConstraintSet(Words(job), VarCount(job), job.weight)
        BY <3>1 DEF Given, VarCount
      <4> QED BY <3>1, <3>2, <4>1, ConstraintsType
    <3>4. \A t : Cardinality(ValidUpTo(t, env - 1))' = 0
      <4>1. \A t : ValidUpTo(t, env - 1)' = {}
        BY <3>1 DEF ValidUpTo
      <4> QED BY <4>1, FS_EmptySet
    <3>5. valid' = Cardinality(ValidUpTo(Head(todo), env - 1))'
      BY <3>1, <3>4
    <3> QED BY <3>1, <3>3, <3>5 DEF SInv, Counted, EnoughSamples
  <2> QED BY <2>1, <2>2
<1>5. ASSUME status \in {"sample", "insert"}, status' \in {"sample", "insert"},
             UNCHANGED <<job, words, table, todo, env, valid>>
      PROVE  SInv'
  <2>1. Counted'
    BY <1>5 DEF SInv, Counted, Given, VarCount, Enough, ValidUpTo
  <2> QED BY <1>5, <2>1 DEF SInv, EnoughSamples
<1>6. ASSUME Sample PROVE SInv'
  <2>1. /\ status = "sample" /\ status' \in {"sample", "insert"} /\ todo # <<>> /\ env <= EnvCount
        /\ UNCHANGED <<job, words, table, todo>> /\ env' = env + 1
        /\ valid' = (IF SampledRow(table, words, Head(todo), env) = None THEN valid ELSE valid + 1)
    BY <1>6 DEF Sample
  <2>2. env - 1 \in Nat /\ (env - 1) + 1 = env /\ env' - 1 = env
    BY <2>1 DEF IInv, TypeOK, EnvCount
  <2>3. \A t \in Given' : Enough(t)' \/ \E i \in DOMAIN todo' : todo'[i] = t
    BY <2>1 DEF SInv, Counted, Given, VarCount, Enough, ValidUpTo
  <2>4. valid' = Cardinality(ValidUpTo(Head(todo), env))
    <3>1. valid = Cardinality(ValidUpTo(Head(todo), env - 1))
      BY <2>1 DEF SInv, Counted
    <3> QED BY <2>1, <2>2, <3>1, OneMoreSample
  <2>5. ValidUpTo(Head(todo), env - 1)' = ValidUpTo(Head(todo), env)
    BY <2>1, <2>2 DEF ValidUpTo
  <2> QED BY <2>1, <2>3, <2>4, <2>5 DEF SInv, Counted, EnoughSamples
<1>7. ASSUME Reduce \/ DropRow \/ StoreRow PROVE SInv'
  BY <1>5, <1>7 DEF Reduce, DropRow, StoreRow
<1>8. ASSUME CloseConstraint PROVE SInv'
  <2>1. CASE valid < MinValid
    BY <1>1, <1>8, <2>1 DEF CloseConstraint
  <2>2. CASE ~(valid < MinValid)
    <3>1. /\ status = "sample" /\ status' = "sample" /\ todo # <<>> /\ env > EnvCount
          /\ todo' = Tail(todo) /\ env' = 1 /\ valid' = 0 /\ UNCHANGED <<job, words, table>>
      BY <1>8, <2>2 DEF CloseConstraint
    <3>2. env - 1 = EnvCount
      BY <3>1 DEF IInv, TypeOK, EnvCount
    <3>3. Enough(Head(todo))
      <4>1. valid = Cardinality(ValidUpTo(Head(todo), EnvCount))
        BY <3>1, <3>2 DEF SInv, Counted
      <4>2. valid \in Nat
        BY DEF IInv, TypeOK
      <4> QED BY <2>2, <4>1, <4>2 DEF Enough, MinValid
    <3>4. todo \in Seq(Given)
      BY <3>1 DEF IInv, Prepared, Given
    <3>5. ASSUME NEW t \in Given, ~Enough(t)
          PROVE  \E i \in DOMAIN Tail(todo) : Tail(todo)[i] = t
      <4>1. PICK i \in DOMAIN todo : todo[i] = t
        BY <3>1, <3>5 DEF SInv, Counted
      <4>2. i # 1
        BY <3>1, <3>3, <3>4, <3>5, <4>1
      <4>3. i - 1 \in DOMAIN Tail(todo) /\ Tail(todo)[i - 1] = todo[i]
        BY <3>1, <3>4, <4>1, <4>2
      <4> QED BY <4>1, <4>3
    <3>6. \A t \in Given' : Enough(t)' \/ \E i \in DOMAIN todo' : todo'[i] = t
      BY <3>1, <3>5 DEF Given, VarCount, Enough, ValidUpTo
    <3>7. valid' = Cardinality(ValidUpTo(Head(todo), env - 1))'
      <4>1. ValidUpTo(Head(todo), env - 1)' = {}
        BY <3>1 DEF ValidUpTo
      <4> QED BY <3>1, <4>1, FS_EmptySet
    <3> QED BY <3>1, <3>6, <3>7 DEF SInv, Counted, EnoughSamples
  <2> QED BY <2>1, <2>2
<1>9. ASSUME Finish PROVE SInv'
  <2>1. status = "sample" /\ todo = <<>> /\ status' = "ok" /\ UNCHANGED <<job, words, table>>
    BY <1>9 DEF Finish
  <2>2. \A t \in Given : Enough(t)
    BY <2>1 DEF SInv, Counted
  <2>3. \A t \in Sampled' : Enough(t)'
    BY <2>1, <2>2 DEF Sampled, Given, VarCount, Enough, ValidUpTo
  <2> QED BY <2>1, <2>3 DEF SInv, EnoughSamples, Enough, ValidUpTo
<1>10. ASSUME UNCHANGED vars PROVE SInv'
  BY <1>10 DEF vars, SInv, Counted, Given, VarCount, Enough, ValidUpTo, EnoughSamples, Sampled
<1> QED BY <1>2, <1>3, <1>4, <1>6, <1>7, <1>8, <1>9, <1>10 DEF Next, Returned

-----------------------------------------------------------------------------
(* Theorems about build_integrable_basis *)

\* The inductive invariant holds in every state of every call.
THEOREM Invariance == Spec => []IInv
BY InitIInv, StepIInv, PTL DEF Spec

\* No stored row and no row under way ever holds a zero or leaves the columns
\* (insert_row and add_scaled_row in space/mod.rs).
THEOREM RowsWellFormed == Spec => []TypeOK
<1>1. IInv => TypeOK
  BY DEF IInv
<1> QED BY <1>1, Invariance, PTL

\* pivot_rows is in echelon form with leading ones after every step.
THEOREM PivotsInEchelonForm == Spec => []EchelonForm
<1>1. IInv => EchelonForm
  BY DEF IInv
<1> QED BY <1>1, Invariance, PTL

\* Every step of build_integrable_basis leaves less to do, so no call loops.
THEOREM CallsProgress == Spec => Progress
<1>1. IInv /\ [Next]_vars => [LexLess(Left', Left)]_vars
  BY StepProgress
<1> QED BY <1>1, Invariance, PTL DEF Spec, Progress

\* A basis is returned only if each constraint had two valid samples: valid
\* counts for one constraint only, and the loops leave no constraint out.
THEOREM BasisWellSampled == Spec => []EnoughSamples
<1>1. SInv => EnoughSamples
  BY DEF SInv
<1> QED BY <1>1, InitSInv, StepSInv, Invariance, PTL DEF Spec

-----------------------------------------------------------------------------
(* The kernel of the rows held *)

Cols == 1 .. Len(words)
Vectors == [Cols -> Coeff]

\* The row r annihilates the vector v.
Kills(r, v, C) == RowValue(r, v, C) = Zero

PivotsKill(v) == \A p \in DOMAIN pivots : Kills(pivots[p], v, Cols)

\* The rows insert_row holds: the pivots and the row under way.
HeldKill(v) == PivotsKill(v) /\ (status = "insert" => Kills(row, v, Cols))

SampleKills(v, t, e) ==
    SampledRow(table, words, t, e) # None => Kills(SampledRow(table, words, t, e), v, Cols)

\* Every vector all samples annihilate is annihilated by the rows held.
NoneAdded ==
    \A v \in Vectors :
        (\A t \in Given : \A e \in 1 .. EnvCount : SampleKills(v, t, e)) => HeldKill(v)

\* A vector the rows held annihilate is annihilated by every sample so far.
NoneLost ==
    \A v \in Vectors : HeldKill(v) =>
        /\ \A t \in Given : \/ \A e \in 1 .. EnvCount : SampleKills(v, t, e)
                            \/ \E i \in DOMAIN todo : todo[i] = t
        /\ todo # <<>> => \A e \in 1 .. env - 1 : SampleKills(v, Head(todo), e)

\* What a returned basis is: a basis of the vectors that the sampled rows
\* annihilate, one for each column without a pivot.
Solved ==
    /\ words = Words(job)
    /\ Echelon(pivots, Cols)
    /\ IsNullBasis(basis.vectors, basis.free, pivots, Cols)
    /\ \A r \in SampledRows : IsSparse(r, Cols)
    /\ \A v \in Vectors : PivotsKill(v) <=> \A r \in SampledRows : Kills(r, v, Cols)

\* The kernel invariant: no step of the elimination changes which vectors the
\* rows sampled so far annihilate.
KInv ==
    /\ status \in {"sample", "insert"} => NoneAdded /\ NoneLost
    /\ status = "ok" => Solved

-----------------------------------------------------------------------------
(* The kernel invariant *)

LEMMA InitKInv == Init => KInv
BY DEF Init, KInv

\* The columns while a call samples.
LEMMA ColsOfWords ==
    ASSUME IInv, status \in {"sample", "insert"}
    PROVE  /\ Len(words) \in Nat /\ DOMAIN words = Cols /\ IsFiniteSet(Cols)
           /\ \A r : IsRow(r) => IsSparse(r, Cols)
<1>1. Len(words) \in Nat /\ DOMAIN words = Cols
  BY WordsType DEF IInv, TypeOK, Prepared, Cols
<1>2. IsFiniteSet(Cols)
  <2>1. 1 \in Int /\ Len(words) \in Int
    BY <1>1
  <2> QED BY <2>1, FS_Interval DEF Cols
<1>3. \A r : IsRow(r) => IsSparse(r, Cols)
  BY <1>1 DEF IsRow, IsSparse
<1> QED BY <1>1, <1>2, <1>3

\* A step that keeps the kernel of the rows held keeps the invariant.
LEMMA SameKernel ==
    ASSUME KInv, status \in {"sample", "insert"}, status' \in {"sample", "insert"},
           UNCHANGED <<job, words, table, todo, env>>,
           \A v \in Vectors : HeldKill(v)' <=> HeldKill(v)
    PROVE  KInv'
<1>1. Vectors' = Vectors /\ Given' = Given
  BY DEF Vectors, Cols, Given, VarCount
<1>2. \A v, t, e : SampleKills(v, t, e)' <=> SampleKills(v, t, e)
  BY DEF SampleKills, Cols
<1>3. NoneAdded /\ NoneLost
  BY DEF KInv
<1>4. NoneAdded'
  BY <1>1, <1>2, <1>3 DEF NoneAdded
<1>5. NoneLost'
  BY <1>1, <1>2, <1>3 DEF NoneLost
<1>6. status' # "ok"
  OBVIOUS
<1> QED BY <1>4, <1>5, <1>6 DEF KInv

LEMMA SampleKInv ==
    ASSUME IInv, KInv, Sample
    PROVE  KInv'
<1> DEFINE t0 == Head(todo)
           r == SampledRow(table, words, t0, env)
<1>1. /\ status = "sample" /\ status' \in {"sample", "insert"} /\ todo # <<>>
      /\ UNCHANGED <<job, words, table, todo, pivots>> /\ env' = env + 1
      /\ r = None => status' = "sample"
      /\ r # None => row' = r /\ status' = (IF DOMAIN r = {} THEN "sample" ELSE "insert")
  BY DEF Sample
<1>2. env \in 1 .. EnvCount /\ env' - 1 = env
  BY <1>1 DEF Sample, IInv, TypeOK, EnvCount
<1>3. t0 \in Given
  BY <1>1 DEF IInv, Prepared, Given
<1>4. IsFiniteSet(Cols) /\ Cols' = Cols /\ Vectors' = Vectors /\ Given' = Given
  BY <1>1, ColsOfWords DEF Vectors, Cols, Given, VarCount
<1>5. \A v, t, e : SampleKills(v, t, e)' <=> SampleKills(v, t, e)
  BY <1>1 DEF SampleKills, Cols
<1>6. ASSUME NEW v \in Vectors
      PROVE  HeldKill(v)' <=> HeldKill(v) /\ SampleKills(v, t0, env)
  <2>1. PivotsKill(v)' <=> PivotsKill(v)
    BY <1>1, <1>4 DEF PivotsKill
  <2>2. CASE r = None
    BY <1>1, <2>1, <2>2 DEF HeldKill, SampleKills
  <2>3. CASE r # None /\ DOMAIN r = {}
    <3>1. Kills(r, v, Cols)
      <4> HIDE DEF r
      <4> QED BY <1>4, <2>3, EmptyRowValue DEF Kills, Vectors
    <3> QED BY <1>1, <2>1, <2>3, <3>1 DEF HeldKill, SampleKills
  <2>4. CASE r # None /\ DOMAIN r # {}
    BY <1>1, <1>4, <2>1, <2>4 DEF HeldKill, SampleKills
  <2> QED BY <2>2, <2>3, <2>4
<1>7. NoneAdded /\ NoneLost
  BY <1>1 DEF KInv
<1> HIDE DEF t0, r
<1>8. NoneAdded'
  BY <1>2, <1>3, <1>4, <1>5, <1>6, <1>7 DEF NoneAdded
<1>9. NoneLost'
  <2> SUFFICES ASSUME NEW v \in Vectors, HeldKill(v)'
               PROVE  /\ \A t \in Given : \/ \A e \in 1 .. EnvCount : SampleKills(v, t, e)
                                          \/ \E i \in DOMAIN todo : todo[i] = t
                      /\ \A e \in 1 .. env : SampleKills(v, t0, e)
    BY <1>1, <1>2, <1>4, <1>5 DEF NoneLost, t0
  <2>1. HeldKill(v) /\ SampleKills(v, t0, env)
    BY <1>6
  <2>2. \A e \in 1 .. env - 1 : SampleKills(v, t0, e)
    BY <1>1, <1>7, <2>1 DEF NoneLost, t0
  <2>3. \A e \in 1 .. env : e = env \/ e \in 1 .. env - 1
    BY <1>2
  <2> QED BY <1>7, <2>1, <2>2, <2>3 DEF NoneLost
<1> QED BY <1>1, <1>8, <1>9 DEF KInv

\* A turn of insert_row subtracts a multiple of a pivot row.
LEMMA ReduceKInv ==
    ASSUME IInv, KInv, Reduce
    PROVE  KInv'
<1> DEFINE p == Lead(row)
<1>1. /\ status = "insert" /\ p \in DOMAIN pivots /\ DOMAIN row # {}
      /\ row' = AddScaledRow(row, row[p], pivots[p])
      /\ UNCHANGED <<job, status, words, table, todo, env, pivots>>
  BY DEF Reduce
<1>2. /\ Len(words) \in Nat /\ DOMAIN words = Cols /\ IsFiniteSet(Cols) /\ Cols' = Cols
      /\ IsSparse(row, Cols) /\ IsSparse(pivots[p], Cols)
  BY <1>1, ColsOfWords DEF IInv, TypeOK, Cols
<1>3. p \in DOMAIN row
  BY <1>1, <1>2, LeadIsSmallest DEF IsSparse, Cols
<1>4. row[p] \in Coeff
  BY <1>2, <1>3 DEF IsSparse, NonZero
<1> HIDE DEF p
<1>5. ASSUME NEW v \in Vectors
      PROVE  HeldKill(v)' <=> HeldKill(v)
  <2>1. PivotsKill(v)' <=> PivotsKill(v)
    BY <1>1, <1>2 DEF PivotsKill
  <2>2. ASSUME PivotsKill(v)
        PROVE  Kills(row', v, Cols) <=> Kills(row, v, Cols)
    <3>1. RowValue(pivots[p], v, Cols) = Zero
      BY <1>1, <2>2 DEF PivotsKill, Kills
    <3> QED BY <1>1, <1>2, <1>4, <3>1, AddScaledRowKeepsKernel DEF Kills, Vectors
  <2> QED BY <1>1, <1>2, <2>1, <2>2 DEF HeldKill
<1> QED BY <1>1, <1>5, SameKernel

LEMMA DropRowKInv ==
    ASSUME IInv, KInv, DropRow
    PROVE  KInv'
<1>1. /\ status = "insert" /\ status' = "sample" /\ DOMAIN row = {}
      /\ UNCHANGED <<job, words, table, todo, env, pivots>>
  BY DEF DropRow
<1>2. IsFiniteSet(Cols) /\ Cols' = Cols
  BY <1>1, ColsOfWords DEF Cols
<1>3. ASSUME NEW v \in Vectors
      PROVE  HeldKill(v)' <=> HeldKill(v)
  <2>1. Kills(row, v, Cols)
    BY <1>1, <1>2, EmptyRowValue DEF Kills, Vectors
  <2> QED BY <1>1, <1>2, <2>1 DEF HeldKill, PivotsKill
<1> QED BY <1>1, <1>3, SameKernel

LEMMA StoreRowKInv ==
    ASSUME IInv, KInv, StoreRow
    PROVE  KInv'
<1> DEFINE p == Lead(row)
           q == Normalised(row)
<1>1. /\ DOMAIN row # {} /\ p \notin DOMAIN pivots
      /\ pivots' = [c \in DOMAIN pivots \cup {p} |-> IF c = p THEN q ELSE pivots[c]]
      /\ status = "insert" /\ status' = "sample"
      /\ UNCHANGED <<job, words, table, todo, env>>
  BY DEF StoreRow
<1>2. /\ Len(words) \in Nat /\ DOMAIN words = Cols /\ IsFiniteSet(Cols) /\ Cols' = Cols
      /\ IsSparse(row, Cols)
  BY <1>1, ColsOfWords DEF IInv, TypeOK, Cols
<1>3. p \in DOMAIN row
  BY <1>1, <1>2, LeadIsSmallest DEF IsSparse, Cols
<1>4. ASSUME NEW v \in Vectors
      PROVE  Kills(q, v, Cols) <=> Kills(row, v, Cols)
  BY <1>2, <1>3, <1>4, NormalisedKeepsKernel DEF Kills, Vectors
<1> HIDE DEF p, q
<1>5. /\ DOMAIN pivots' = DOMAIN pivots \cup {p} /\ pivots'[p] = q
      /\ \A c \in DOMAIN pivots : pivots'[c] = pivots[c]
  BY <1>1
<1>6. ASSUME NEW v \in Vectors
      PROVE  HeldKill(v)' <=> HeldKill(v)
  BY <1>1, <1>2, <1>4, <1>5 DEF HeldKill, PivotsKill
<1> QED BY <1>1, <1>6, SameKernel

LEMMA CloseConstraintKInv ==
    ASSUME IInv, KInv, CloseConstraint
    PROVE  KInv'
<1>1. CASE valid < MinValid
  <2>1. status' = "InsufficientSamples"
    BY <1>1 DEF CloseConstraint
  <2> QED BY <2>1 DEF KInv
<1>2. CASE ~(valid < MinValid)
  <2>1. /\ status = "sample" /\ status' = "sample" /\ todo # <<>> /\ env > EnvCount
        /\ todo' = Tail(todo) /\ env' = 1 /\ UNCHANGED <<job, words, table, pivots>>
    BY <1>2 DEF CloseConstraint
  <2>2. env - 1 = EnvCount /\ env' - 1 = 0
    BY <2>1 DEF IInv, TypeOK, EnvCount
  <2>3. todo \in Seq(Given)
    BY <2>1 DEF IInv, Prepared, Given
  <2>4. Vectors' = Vectors /\ Given' = Given
    BY <2>1 DEF Vectors, Cols, Given, VarCount
  <2>5. \A v, t, e : SampleKills(v, t, e)' <=> SampleKills(v, t, e)
    BY <2>1 DEF SampleKills, Cols
  <2>6. \A v : HeldKill(v)' <=> HeldKill(v)
    BY <2>1 DEF HeldKill, PivotsKill, Cols
  <2>7. NoneAdded /\ NoneLost
    BY <2>1 DEF KInv
  <2>8. NoneAdded'
    BY <2>4, <2>5, <2>6, <2>7 DEF NoneAdded
  <2>9. \A t \in Given :
          (\E i \in DOMAIN todo : todo[i] = t) =>
              t = Head(todo) \/ \E i \in DOMAIN Tail(todo) : Tail(todo)[i] = t
    <3> TAKE t \in Given
    <3> HAVE \E i \in DOMAIN todo : todo[i] = t
    <3>1. PICK i \in DOMAIN todo : todo[i] = t
      OBVIOUS
    <3>2. CASE i = 1
      BY <2>1, <2>3, <3>1, <3>2
    <3>3. CASE i # 1
      <4>1. i - 1 \in DOMAIN Tail(todo) /\ Tail(todo)[i - 1] = todo[i]
        BY <2>1, <2>3, <3>1, <3>3
      <4> QED BY <3>1, <4>1
    <3> QED BY <3>2, <3>3
  <2>10. NoneLost'
    <3> SUFFICES ASSUME NEW v \in Vectors, HeldKill(v)
                 PROVE  \A t \in Given : \/ \A e \in 1 .. EnvCount : SampleKills(v, t, e)
                                         \/ \E i \in DOMAIN Tail(todo) : Tail(todo)[i] = t
      BY <2>1, <2>2, <2>4, <2>5, <2>6 DEF NoneLost
    <3>1. \A e \in 1 .. EnvCount : SampleKills(v, Head(todo), e)
      BY <2>1, <2>2, <2>7 DEF NoneLost
    <3>2. \A t \in Given : \/ \A e \in 1 .. EnvCount : SampleKills(v, t, e)
                           \/ \E i \in DOMAIN todo : todo[i] = t
      BY <2>7 DEF NoneLost
    <3> QED BY <2>9, <3>1, <3>2
  <2> QED BY <2>1, <2>8, <2>10 DEF KInv
<1> QED BY <1>1, <1>2

\* The first sample point of the first constraint: no row is held yet.
LEMMA BuildTableKInv ==
    ASSUME IInv, SInv, KInv, BuildTable
    PROVE  KInv'
<1>1. CASE status' = "Eval"
  BY <1>1 DEF KInv
<1>2. CASE status' # "Eval"
  <2>1. /\ status = "start" /\ status' = "sample" /\ job' = job /\ job \in Jobs /\ job.weight >= 2
        /\ env' = 1 /\ pivots' = pivots /\ words' = Words(job)
        /\ todo' = Constraints(words', VarCount(job), job.weight)
    BY <1>2 DEF BuildTable, VarCount, SInv, IInv, TypeOK
  <2>2. \A v : HeldKill(v)'
    <3>1. DOMAIN pivots' = {}
      BY <2>1, EmptyIsRow DEF IInv
    <3> QED BY <2>1, <3>1 DEF HeldKill, PivotsKill
  <2>3. \A t \in Given' : \E i \in DOMAIN todo' : todo'[i] = t
    <3>1. Given' = ConstraintSet(Words(job), VarCount(job), job.weight)
      BY <2>1 DEF Given, VarCount
    <3>2. VarCount(job) \in Nat
      BY <2>1, AlphabetVarsType DEF VarCount
    <3> QED BY <2>1, <3>1, <3>2, ConstraintsType
  <2>4. NoneAdded'
    BY <2>2 DEF NoneAdded
  <2>5. NoneLost'
    <3>1. \A e : e \notin 1 .. env' - 1
      BY <2>1
    <3> QED BY <2>3, <3>1 DEF NoneLost
  <2> QED BY <2>1, <2>4, <2>5 DEF KInv
<1> QED BY <1>1, <1>2

\* Without constraints every column is free and its own basis vector.
LEMMA IdentityIsBasis ==
    ASSUME NEW n \in Nat
    PROVE  /\ Echelon(EmptyRow, 1 .. n)
           /\ IsNullBasis(IdentityBasis(n), [i \in 1 .. n |-> i], EmptyRow, 1 .. n)
<1> DEFINE free == [i \in 1 .. n |-> i]
           vecs == IdentityBasis(n)
<1>1. DOMAIN EmptyRow = {}
  BY EmptyIsRow
<1>2. DOMAIN free = 1 .. n /\ \A i \in 1 .. n : free[i] = i
  OBVIOUS
<1>3. /\ DOMAIN vecs = 1 .. n
      /\ \A i \in 1 .. n : vecs[i] = [c \in 1 .. n |-> IF c = i THEN One ELSE Zero]
  BY DEF IdentityBasis
<1>4. \A i \in 1 .. n : vecs[i] \in [1 .. n -> Coeff]
  <2>1. Zero \in Coeff /\ One \in Coeff
    BY CoeffAssumption DEF NonZero
  <2> HIDE DEF vecs
  <2> QED BY <1>3, <2>1
<1>5. \A i, j \in 1 .. n : vecs[i][free[j]] = IF j = i THEN One ELSE Zero
  BY <1>2, <1>3
<1>6. vecs = [i \in 1 .. n |-> vecs[i]] /\ free = [i \in 1 .. n |-> free[i]]
  BY DEF IdentityBasis
<1> HIDE DEF free, vecs
<1>7. Len(free) = n /\ Len(vecs) = n
  BY <1>6, EnumerationLength
<1>8. Echelon(EmptyRow, 1 .. n)
  BY <1>1 DEF Echelon
<1>9. IsNullBasis(vecs, free, EmptyRow, 1 .. n)
  BY <1>1, <1>2, <1>3, <1>4, <1>5, <1>7 DEF IsNullBasis
<1> QED BY <1>8, <1>9 DEF free, vecs

LEMMA BuildUnconstrainedKInv ==
    ASSUME IInv, SInv, KInv, BuildUnconstrained
    PROVE  KInv'
<1> DEFINE n == Len(Words(job))
<1>1. /\ status' = "ok" /\ job' = job /\ job \in Jobs /\ words' = Words(job)
      /\ pivots' = EmptyRow /\ table' = <<>>
      /\ basis' = [vectors |-> IdentityBasis(n), free |-> [i \in 1 .. n |-> i]]
  BY DEF BuildUnconstrained, IInv, SInv, TypeOK
<1>2. n \in Nat /\ Cols' = 1 .. n
  BY <1>1, WordsType DEF Cols
<1>3. /\ basis'.vectors = IdentityBasis(n) /\ basis'.free = [i \in 1 .. n |-> i]
  BY <1>1
<1> HIDE DEF n
<1>4. Echelon(pivots', Cols') /\ IsNullBasis(basis'.vectors, basis'.free, pivots', Cols')
  BY <1>1, <1>2, <1>3, IdentityIsBasis
<1>5. SampledRows' = {}
  BY <1>1 DEF SampledRows, Sampled
<1>6. \A v : PivotsKill(v)'
  BY <1>1, EmptyIsRow DEF PivotsKill
<1>7. Solved'
  BY <1>1, <1>4, <1>5, <1>6 DEF Solved
<1> QED BY <1>1, <1>7 DEF KInv

\* The last constraint is in: every sampled row is accounted for.
LEMMA FinishKInv ==
    ASSUME IInv, KInv, Finish
    PROVE  KInv'
<1> DEFINE free == FreeCols(Len(words), pivots)
<1>1. /\ status = "sample" /\ todo = <<>> /\ status' = "ok"
      /\ UNCHANGED <<job, words, table, pivots>>
      /\ basis'.free = free /\ basis'.vectors = NullVectors(Len(words), pivots, free)
  BY DEF Finish
<1>2. Prepared /\ NoneAdded /\ NoneLost
  BY <1>1 DEF IInv, KInv
<1>3. /\ Len(words) \in Nat /\ DOMAIN words = Cols /\ Cols' = Cols /\ Vectors' = Vectors
      /\ \A r : IsRow(r) => IsSparse(r, Cols)
  BY <1>1, ColsOfWords DEF Cols, Vectors
<1>4. Echelon(pivots, Cols)
  BY <1>3 DEF IInv, TypeOK, EchelonForm, Echelon
<1>5. IsNullBasis(basis'.vectors, basis'.free, pivots, Cols)
  <2> HIDE DEF free
  <2> QED BY <1>1, <1>3, <1>4, NullVectorsAreBasis DEF Cols, free
<1>6. Sampled' = Given
  <2>1. table # <<>>
    <3>1. DOMAIN table = 1 .. EnvCount
      BY <1>2 DEF Prepared, DlogTable
    <3>2. 1 \in DOMAIN table
      BY <3>1 DEF EnvCount
    <3>3. DOMAIN <<>> = {}
      OBVIOUS
    <3> QED BY <3>2, <3>3
  <2> QED BY <1>1, <2>1 DEF Sampled, Given, VarCount
<1>7. /\ \A t \in Given : \A e \in 1 .. EnvCount :
            SampledRow(table, words, t, e) # None => SampledRow(table, words, t, e) \in SampledRows'
      /\ \A r \in SampledRows' : \E t \in Given : \E e \in 1 .. EnvCount :
            r = SampledRow(table, words, t, e) /\ r # None
  BY <1>1, <1>6 DEF SampledRows
<1>8. \A r \in SampledRows' : IsSparse(r, Cols)
  <2> TAKE r \in SampledRows'
  <2>1. PICK t \in Given, e \in 1 .. EnvCount : r = SampledRow(table, words, t, e) /\ r # None
    BY <1>7
  <2>2. job \in Jobs
    BY DEF IInv, TypeOK
  <2>3. IsRow(r)
    BY <1>2, <2>1, <2>2, SampledRowType DEF Prepared, IsRow, Given
  <2> QED BY <1>3, <2>3
<1>9. ASSUME NEW v \in Vectors
      PROVE  PivotsKill(v) <=> \A r \in SampledRows' : Kills(r, v, Cols)
  <2>1. HeldKill(v) <=> PivotsKill(v)
    BY <1>1 DEF HeldKill
  <2>2. (\A r \in SampledRows' : Kills(r, v, Cols))
          <=> \A t \in Given : \A e \in 1 .. EnvCount : SampleKills(v, t, e)
    BY <1>7 DEF SampleKills
  <2>3. (\A t \in Given : \A e \in 1 .. EnvCount : SampleKills(v, t, e)) => HeldKill(v)
    BY <1>2 DEF NoneAdded
  <2>4. HeldKill(v) => \A t \in Given : \A e \in 1 .. EnvCount : SampleKills(v, t, e)
    BY <1>1, <1>2 DEF NoneLost
  <2> QED BY <2>1, <2>2, <2>3, <2>4
<1>10. \A v : PivotsKill(v)' <=> PivotsKill(v)
  BY <1>1, <1>3 DEF PivotsKill
<1> HIDE DEF free
<1>11. Solved'
  BY <1>1, <1>2, <1>3, <1>4, <1>5, <1>8, <1>9, <1>10 DEF Solved, Prepared
<1> QED BY <1>1, <1>11 DEF KInv

LEMMA StepKInv == IInv /\ SInv /\ KInv /\ [Next]_vars => KInv'
<1> SUFFICES ASSUME IInv, SInv, KInv, [Next]_vars PROVE KInv'
  OBVIOUS
<1>1. ASSUME Refuse PROVE KInv'
  BY <1>1 DEF Refuse, KInv
<1>2. ASSUME UNCHANGED vars PROVE KInv'
  <2>1. status' = status /\ (NoneAdded' <=> NoneAdded)
    BY <1>2 DEF vars, NoneAdded, Vectors, Cols, Given, VarCount, SampleKills, HeldKill, PivotsKill
  <2>2. NoneLost' <=> NoneLost
    BY <1>2 DEF vars, NoneLost, Vectors, Cols, Given, VarCount, SampleKills, HeldKill, PivotsKill
  <2>3. Solved' <=> Solved
    BY <1>2 DEF vars, Solved, Vectors, Cols, PivotsKill, SampledRows, Sampled
  <2> QED BY <2>1, <2>2, <2>3 DEF KInv
<1> QED BY <1>1, <1>2, SampleKInv, ReduceKInv, DropRowKInv, StoreRowKInv, CloseConstraintKInv,
           BuildTableKInv, BuildUnconstrainedKInv, FinishKInv DEF Next, Returned

-----------------------------------------------------------------------------
(* Symbols as vectors *)

\* The coefficients of a symbol at the columns.
VectorOf(sym) == [c \in Cols |-> At(sym, words[c])]

NoZeros(sym) == \A w \in DOMAIN sym : sym[w] \in NonZero

\* The combination of basis vectors with the coordinates of the symbol.
Spanned(sym) == Combination(Coordinates(sym), basis.vectors, Len(basis.free), Cols)

LEMMA SolvedColumns ==
    ASSUME job \in Jobs, Solved
    PROVE  /\ Len(words) \in Nat /\ DOMAIN words = Cols /\ IsFiniteSet(Cols)
           /\ \A a, b \in Cols : words[a] = words[b] => a = b
           /\ \A c \in Cols : Len(words[c]) = BasisWeight
<1>1. /\ Len(words) \in Nat /\ DOMAIN words = Cols
      /\ words \in [Cols -> [1 .. job.weight -> DOMAIN job.letters]]
      /\ \A a, b \in Cols : words[a] = words[b] => a = b
  BY WordsType DEF Solved, Cols
<1>2. IsFiniteSet(Cols)
  <2>1. 1 \in Int /\ Len(words) \in Int
    BY <1>1
  <2> QED BY <2>1, FS_Interval DEF Cols
<1>3. \A c \in Cols : Len(words[c]) = job.weight
  <2> TAKE c \in Cols
  <2>1. job.weight \in Nat
    BY JobsAssumption
  <2>2. words[c] = [i \in 1 .. job.weight |-> words[c][i]]
    BY <1>1
  <2> QED BY <2>1, <2>2, EnumerationLength
<1>4. ASSUME NEW c \in Cols
      PROVE  BasisWeight = job.weight
  <2>1. 1 \in Cols /\ Len(words) >= 1
    BY <1>1 DEF Cols
  <2>2. words # <<>>
    BY <2>1
  <2> QED BY <1>3, <2>1, <2>2 DEF BasisWeight
<1> QED BY <1>1, <1>2, <1>3, <1>4

LEMMA VectorOfType ==
    ASSUME NEW sym, NoZeros(sym)
    PROVE  VectorOf(sym) \in Vectors
<1>1. \A w : At(sym, w) \in Coeff
  BY CoeffAssumption DEF At, NoZeros, NonZero
<1> QED BY <1>1 DEF VectorOf, Vectors

\* The coordinates are the values at the free columns, so the basis theorem
\* applies to the vector of the symbol.
LEMMA SpannedType ==
    ASSUME job \in Jobs, Solved, NEW sym, NoZeros(sym)
    PROVE  /\ Coordinates(sym) \in [1 .. Len(basis.free) -> Coeff]
           /\ Spanned(sym) \in Vectors
           /\ PivotsKill(Spanned(sym))
           /\ PivotsKill(VectorOf(sym)) <=> VectorOf(sym) = Spanned(sym)
<1> DEFINE v == VectorOf(sym)
           a == Coordinates(sym)
           free == basis.free
           vecs == basis.vectors
<1>1. Len(words) \in Nat /\ IsFiniteSet(Cols)
  BY SolvedColumns
<1>2. Echelon(pivots, Cols) /\ IsNullBasis(vecs, free, pivots, Cols)
  BY DEF Solved
<1>3. v \in Vectors
  BY VectorOfType
<1>4. a = [i \in 1 .. Len(free) |-> v[free[i]]]
  <2>1. DOMAIN free = 1 .. Len(free) /\ \A i \in DOMAIN free : free[i] \in Cols
    BY <1>2 DEF IsNullBasis
  <2>2. \A i \in DOMAIN free : v[free[i]] = At(sym, words[free[i]])
    BY <2>1 DEF VectorOf
  <2> HIDE DEF v, free
  <2> QED BY <2>1, <2>2 DEF Coordinates, free
<1> HIDE DEF v, a, free, vecs
<1>5. /\ a \in [1 .. Len(free) -> Coeff]
      /\ \A p \in DOMAIN pivots :
            RowValue(pivots[p], Combination(a, vecs, Len(free), Cols), Cols) = Zero
      /\ (\A p \in DOMAIN pivots : RowValue(pivots[p], v, Cols) = Zero)
            <=> v = Combination(a, vecs, Len(free), Cols)
  BY <1>1, <1>2, <1>3, <1>4, NullBasisSpans DEF Cols, Vectors
<1>6. ASSUME NEW c \in Cols
      PROVE  Summable([i \in 1 .. Len(free) |-> Times(a[i], vecs[i][c])], 1 .. Len(free))
  <2>1. Len(free) \in Nat /\ \A i \in 1 .. Len(free) : vecs[i][c] \in Coeff /\ a[i] \in Coeff
    BY <1>2, <1>5 DEF IsNullBasis
  <2>2. IsFiniteSet(1 .. Len(free))
    <3>1. 1 \in Int /\ Len(free) \in Int
      BY <2>1
    <3> QED BY <3>1, FS_Interval
  <2>3. \A i \in 1 .. Len(free) : Times(a[i], vecs[i][c]) \in Coeff
    BY <2>1, CoeffAssumption
  <2> QED BY <2>2, <2>3 DEF Summable
<1>7. Combination(a, vecs, Len(free), Cols) \in Vectors
  BY <1>6, SumType DEF Combination, Vectors
<1>8. Spanned(sym) = Combination(a, vecs, Len(free), Cols)
  BY DEF Spanned, a, vecs, free
<1> QED BY <1>5, <1>7, <1>8 DEF PivotsKill, Kills, v, a, free

\* What reduce_to_basis leaves: the columns at which the symbol differs from
\* the combination, and the words of other weights.
LEMMA ResidualWords ==
    ASSUME job \in Jobs, Solved, NEW sym, NoZeros(sym), NEW w
    PROVE  w \in DOMAIN Residual(sym) <=>
              \/ \E c \in Cols : w = words[c] /\ VectorOf(sym)[c] # Spanned(sym)[c]
              \/ w \in DOMAIN sym \ WordsOfWeight(sym, BasisWeight)
<1> DEFINE a == Coordinates(sym)
           k == Len(basis.free)
           col(x) == CHOOSE c \in DOMAIN words : words[c] = x
           diff == [x \in ToSet(words) |-> Minus(At(sym, x), Reconstruct(a, col(x)))]
           other == DOMAIN sym \ WordsOfWeight(sym, BasisWeight)
           differs == {x \in ToSet(words) : diff[x] # Zero}
<1>1. DOMAIN Residual(sym) = differs \cup other
  BY DEF Residual
<1>2. /\ DOMAIN words = Cols /\ IsFiniteSet(Cols) /\ Len(words) \in Nat
      /\ \A c, d \in Cols : words[c] = words[d] => c = d
  BY SolvedColumns
<1>3. \A x : x \in ToSet(words) <=> \E c \in Cols : x = words[c]
  BY <1>2 DEF ToSet
<1>4. \A c \in Cols : col(words[c]) = c
  BY <1>2
<1>5. DOMAIN a = 1 .. k
  BY DEF Solved, IsNullBasis, Coordinates
<1>6. \A c \in Cols : Reconstruct(a, c) = Spanned(sym)[c]
  <2> HIDE DEF a, k
  <2> QED BY <1>5 DEF Reconstruct, Spanned, Combination, a, k
<1>7. VectorOf(sym) \in Vectors /\ \A c \in Cols : VectorOf(sym)[c] = At(sym, words[c])
  BY VectorOfType DEF VectorOf
<1>8. Spanned(sym) \in Vectors
  BY SpannedType
<1> HIDE DEF a, col
<1>9. \A c \in Cols : diff[words[c]] = Minus(VectorOf(sym)[c], Spanned(sym)[c])
  BY <1>3, <1>4, <1>6, <1>7
<1> HIDE DEF diff
<1>10. \A c \in Cols : diff[words[c]] = Zero <=> VectorOf(sym)[c] = Spanned(sym)[c]
  <2> TAKE c \in Cols
  <2>1. VectorOf(sym)[c] \in Coeff /\ Spanned(sym)[c] \in Coeff
    BY <1>7, <1>8 DEF Vectors
  <2> QED BY <1>9, <2>1, MinusIsZero
<1>11. w \in differs <=> \E c \in Cols : w = words[c] /\ VectorOf(sym)[c] # Spanned(sym)[c]
  BY <1>3, <1>10
<1> QED BY <1>1, <1>11

\* A basis vector as a symbol.
LEMMA BasisSymbolVector ==
    ASSUME job \in Jobs, Solved, NEW i \in DOMAIN basis.vectors
    PROVE  /\ NoZeros(BasisSymbol(i))
           /\ DOMAIN BasisSymbol(i) \subseteq ToSet(words)
           /\ VectorOf(BasisSymbol(i)) = basis.vectors[i]
<1> DEFINE v == basis.vectors[i]
           sym == BasisSymbol(i)
           W == {words[c] : c \in {c \in DOMAIN words : v[c] # Zero}}
<1>1. /\ DOMAIN words = Cols /\ \A c, d \in Cols : words[c] = words[d] => c = d
  BY SolvedColumns
<1>2. v \in [Cols -> Coeff]
  BY DEF Solved, IsNullBasis
<1>3. sym = [w \in W |-> v[CHOOSE c \in DOMAIN words : words[c] = w]]
  BY DEF BasisSymbol
<1> HIDE DEF v, sym
<1>4. \A c \in Cols : (CHOOSE d \in DOMAIN words : words[d] = words[c]) = c
  BY <1>1
<1>5. \A c \in Cols : words[c] \in W <=> v[c] # Zero
  BY <1>1
<1>6. DOMAIN sym = W
  BY <1>3
<1>7. \A c \in Cols : v[c] # Zero => sym[words[c]] = v[c]
  BY <1>3, <1>4, <1>5
<1>8. W \subseteq ToSet(words) /\ \A w \in W : \E c \in Cols : w = words[c] /\ v[c] # Zero
  BY <1>1 DEF ToSet
<1>9. NoZeros(sym)
  <2> HIDE DEF W
  <2> QED BY <1>2, <1>6, <1>7, <1>8 DEF NoZeros, NonZero
<1>10. \A c \in Cols : At(sym, words[c]) = v[c]
  <2> HIDE DEF W
  <2> QED BY <1>5, <1>6, <1>7 DEF At
<1>11. VectorOf(sym) = v
  BY <1>2, <1>10 DEF VectorOf
<1> QED BY <1>6, <1>8, <1>9, <1>11 DEF sym, v

\* Every symbol asked about stores no zero, and its words of the basis' weight
\* are columns.
LEMMA AskedType ==
    ASSUME job \in Jobs, Solved, NEW sym \in Asked
    PROVE  /\ NoZeros(sym)
           /\ WordsOfWeight(sym, BasisWeight) \subseteq ToSet(words)
<1>1. CASE sym \in Symbols(job) /\ Reducible(sym)
  BY <1>1, SymbolsAssumption DEF Reducible, NoZeros
<1>2. CASE \E i \in DOMAIN basis.vectors : sym = BasisSymbol(i)
  BY <1>2, BasisSymbolVector DEF WordsOfWeight
<1> QED BY <1>1, <1>2 DEF Asked

\* No residual: the symbol is the combination, and has no other words.
LEMMA NoResidual ==
    ASSUME job \in Jobs, Solved, NEW sym, NoZeros(sym)
    PROVE  DOMAIN Residual(sym) = {}
              <=> /\ VectorOf(sym) = Spanned(sym)
                  /\ DOMAIN sym = WordsOfWeight(sym, BasisWeight)
<1>1. VectorOf(sym) \in Vectors /\ Spanned(sym) \in Vectors
  BY VectorOfType, SpannedType
<1>2. VectorOf(sym) = Spanned(sym) <=> \A c \in Cols : VectorOf(sym)[c] = Spanned(sym)[c]
  BY <1>1 DEF Vectors
<1>3. WordsOfWeight(sym, BasisWeight) \subseteq DOMAIN sym
  BY DEF WordsOfWeight
<1>4. (\A c \in Cols : words[c] \notin DOMAIN Residual(sym))
         => \A c \in Cols : VectorOf(sym)[c] = Spanned(sym)[c]
  BY ResidualWords
<1>5. \A w \in DOMAIN sym \ WordsOfWeight(sym, BasisWeight) : w \in DOMAIN Residual(sym)
  BY ResidualWords
<1>6. ASSUME \A c \in Cols : VectorOf(sym)[c] = Spanned(sym)[c],
             DOMAIN sym = WordsOfWeight(sym, BasisWeight), NEW w
      PROVE  w \notin DOMAIN Residual(sym)
  BY <1>6, ResidualWords
<1> QED BY <1>2, <1>3, <1>4, <1>5, <1>6

LEMMA AnnihilatesVector ==
    ASSUME job \in Jobs, Solved, NEW r \in SampledRows, NEW sym, NoZeros(sym)
    PROVE  Annihilates(r, sym) <=> Kills(r, VectorOf(sym), Cols)
<1>1. IsSparse(r, Cols) /\ IsFiniteSet(Cols) /\ VectorOf(sym) \in [Cols -> Coeff]
  BY SolvedColumns, VectorOfType DEF Solved, Vectors
<1>2. RowValue(r, VectorOf(sym), Cols)
        = Sum([c \in DOMAIN r |-> Times(r[c], VectorOf(sym)[c])], DOMAIN r)
  BY <1>1, RowValueOfRow
<1>3. [c \in DOMAIN r |-> Times(r[c], VectorOf(sym)[c])]
        = [c \in DOMAIN r |-> Times(r[c], At(sym, words[c]))]
  BY <1>1 DEF IsSparse, VectorOf
<1> QED BY <1>2, <1>3 DEF Annihilates, Kills

LEMMA SolvedNullSpaceExact ==
    ASSUME job \in Jobs, Solved, NEW sym \in Asked
    PROVE  DOMAIN Residual(sym) = {} <=>
              /\ DOMAIN sym = WordsOfWeight(sym, BasisWeight)
              /\ \A r \in SampledRows : Annihilates(r, sym)
<1>1. NoZeros(sym)
  BY AskedType
<1>2. VectorOf(sym) \in Vectors
  BY <1>1, VectorOfType
<1>3. PivotsKill(VectorOf(sym)) <=> VectorOf(sym) = Spanned(sym)
  BY <1>1, SpannedType
<1>4. PivotsKill(VectorOf(sym)) <=> \A r \in SampledRows : Kills(r, VectorOf(sym), Cols)
  BY <1>2 DEF Solved
<1>5. \A r \in SampledRows : Annihilates(r, sym) <=> Kills(r, VectorOf(sym), Cols)
  BY <1>1, AnnihilatesVector
<1>6. DOMAIN Residual(sym) = {}
        <=> VectorOf(sym) = Spanned(sym) /\ DOMAIN sym = WordsOfWeight(sym, BasisWeight)
  BY <1>1, NoResidual
<1> QED BY <1>3, <1>4, <1>5, <1>6

\* A basis vector has one coordinate, one, and leaves no residual.
LEMMA SolvedUnitCoordinates ==
    ASSUME job \in Jobs, Solved, NEW i \in DOMAIN basis.vectors
    PROVE  /\ Coordinates(BasisSymbol(i)) = IdentityBasis(Len(basis.vectors))[i]
           /\ DOMAIN Residual(BasisSymbol(i)) = {}
<1> DEFINE sym == BasisSymbol(i)
           free == basis.free
           k == Len(basis.free)
<1>1. NoZeros(sym) /\ DOMAIN sym \subseteq ToSet(words) /\ VectorOf(sym) = basis.vectors[i]
  BY BasisSymbolVector
<1>2. /\ DOMAIN free = 1 .. k /\ DOMAIN basis.vectors = 1 .. k /\ Len(basis.vectors) = k
      /\ \A j \in 1 .. k : free[j] \in Cols
      /\ \A j \in 1 .. k : basis.vectors[i][free[j]] = IF j = i THEN One ELSE Zero
      /\ PivotsKill(basis.vectors[i])
  BY DEF Solved, IsNullBasis, PivotsKill, Kills
<1>3. Coordinates(sym) = IdentityBasis(Len(basis.vectors))[i]
  <2>1. \A j \in 1 .. k : At(sym, words[free[j]]) = VectorOf(sym)[free[j]]
    BY <1>2 DEF VectorOf
  <2>2. Coordinates(sym) = [j \in 1 .. k |-> At(sym, words[free[j]])]
    BY <1>2 DEF Coordinates
  <2>3. IdentityBasis(k)[i] = [j \in 1 .. k |-> IF j = i THEN One ELSE Zero]
    BY <1>2 DEF IdentityBasis
  <2> HIDE DEF sym, free, k
  <2> QED BY <1>1, <1>2, <2>1, <2>2, <2>3
<1>4. VectorOf(sym) = Spanned(sym)
  BY <1>1, <1>2, SpannedType
<1>5. DOMAIN sym = WordsOfWeight(sym, BasisWeight)
  <2>1. \A w \in ToSet(words) : Len(w) = BasisWeight
    BY SolvedColumns DEF ToSet
  <2> QED BY <1>1, <2>1 DEF WordsOfWeight
<1>6. DOMAIN Residual(sym) = {}
  <2> HIDE DEF sym
  <2> QED BY <1>1, <1>4, <1>5, NoResidual
<1> QED BY <1>3, <1>6

\* A residual is zero at every free column.
LEMMA SolvedFreeColumns ==
    ASSUME job \in Jobs, Solved, NEW sym \in Asked, NEW f \in ToSet(basis.free)
    PROVE  words[f] \notin DOMAIN Residual(sym)
<1> DEFINE a == Coordinates(sym)
           free == basis.free
<1>1. NoZeros(sym) /\ a \in [1 .. Len(free) -> Coeff]
  BY AskedType, SpannedType
<1>2. /\ DOMAIN free = 1 .. Len(free) /\ \A j \in 1 .. Len(free) : free[j] \in Cols
      /\ IsNullBasis(basis.vectors, free, pivots, Cols)
  BY DEF Solved, IsNullBasis
<1>3. PICK j \in 1 .. Len(free) : f = free[j]
  BY <1>2 DEF ToSet
<1>4. Spanned(sym)[f] = a[j]
  <2> HIDE DEF a, free
  <2>1. Combination(a, basis.vectors, Len(free), Cols)[free[j]] = a[j]
    BY <1>1, <1>2, CombinationAtFree
  <2> QED BY <1>3, <2>1 DEF Spanned, a, free
<1>5. a[j] = VectorOf(sym)[f]
  BY <1>2, <1>3 DEF Coordinates, VectorOf
<1>6. /\ f \in Cols /\ Len(words[f]) = BasisWeight
      /\ \A c \in Cols : words[f] = words[c] => f = c
  BY <1>2, <1>3, SolvedColumns
<1>7. words[f] \notin DOMAIN sym \ WordsOfWeight(sym, BasisWeight)
  BY <1>6 DEF WordsOfWeight
<1> HIDE DEF a, free
<1> QED BY <1>1, <1>4, <1>5, <1>6, <1>7, ResidualWords

-----------------------------------------------------------------------------
(* Theorems about reduce_to_basis *)

\* Elimination preserves the kernel of the sampled rows at every step, and the
\* basis returned is a basis of it.
THEOREM KernelKept == Spec => []KInv
BY InitIInv, InitSInv, InitKInv, StepIInv, StepSInv, StepKInv, PTL DEF Spec

\* reduce_to_basis leaves no residual exactly for the symbols of the basis'
\* weight that every sampled row annihilates (insert_row, Finish's back
\* substitution and reduce_to_basis in space/mod.rs).
THEOREM NullSpacesExact == Spec => []NullSpaceExact
<1>1. IInv /\ KInv => NullSpaceExact
  BY SolvedNullSpaceExact DEF KInv, NullSpaceExact, IInv, TypeOK
<1> QED BY <1>1, Invariance, KernelKept, PTL

\* The values at the free columns are coordinates: one at its own free column
\* for each basis vector, and nothing left there by any symbol.
THEOREM CoordinatesAreCanonical == Spec => []CoordinatesCanonical
<1>1. IInv /\ KInv => CoordinatesCanonical
  BY SolvedUnitCoordinates, SolvedFreeColumns DEF KInv, CoordinatesCanonical, IInv, TypeOK
<1> QED BY <1>1, Invariance, KernelKept, PTL

-----------------------------------------------------------------------------
(* check_integrable_n and check_integrable *)

\* The pairs of variables check_integrable goes through, and the constraint
\* check_integrable_n has for each.
VarPairs(n) == {p \in (1 .. n) \X (1 .. n) : p[1] < p[2]}
PairConstraint(p) == [k |-> 1, context |-> <<>>, vi |-> p[1], vj |-> p[2]]

ConstraintLess(s, t) == LexLess(LoopKey(s, 2), LoopKey(t, 2))

LEMMA NoContext ==
    ASSUME NEW L, NEW w \in [1 .. 2 -> L]
    PROVE  Context(w, 1) = <<>>
<1>1. w \in Seq(L) /\ Len(w) = 2
  OBVIOUS
<1>2. 1 .. Len(w) - 2 = {}
  BY <1>1
<1>3. Context(w, 1) = [i \in {} |-> IF i < 1 THEN w[i] ELSE w[i + 2]]
  BY <1>2 DEF Context
<1> QED BY <1>3

\* Words of weight two have no context: a constraint is a pair of variables.
LEMMA ConstraintsArePairs ==
    ASSUME NEW L, NEW ws, DOMAIN ws # {}, \A c \in DOMAIN ws : ws[c] \in [1 .. 2 -> L],
           NEW n \in Nat
    PROVE  ConstraintSet(ws, n, 2) = {PairConstraint(p) : p \in VarPairs(n)}
<1> DEFINE CS == ConstraintSet(ws, n, 2)
<1>1. ASSUME NEW t \in CS
      PROVE  \E p \in VarPairs(n) : t = PairConstraint(p)
  <2>1. PICK k \in 1 .. 2 - 1, c \in DOMAIN ws, vi \in 1 .. n, vj \in 1 .. n :
          /\ t = [k |-> k, context |-> Context(ws[c], k), vi |-> vi, vj |-> vj]
          /\ t.vi < t.vj
    BY DEF ConstraintSet
  <2>2. k = 1
    OBVIOUS
  <2>3. Context(ws[c], 1) = <<>>
    BY NoContext
  <2>4. <<vi, vj>> \in VarPairs(n) /\ t = PairConstraint(<<vi, vj>>)
    BY <2>1, <2>2, <2>3 DEF VarPairs, PairConstraint
  <2> QED BY <2>4
<1>2. ASSUME NEW p \in VarPairs(n)
      PROVE  PairConstraint(p) \in CS
  <2>1. p[1] \in 1 .. n /\ p[2] \in 1 .. n /\ p[1] < p[2]
    BY DEF VarPairs
  <2>2. PICK c \in DOMAIN ws : TRUE
    OBVIOUS
  <2>3. PairConstraint(p) = [k |-> 1, context |-> Context(ws[c], 1), vi |-> p[1], vj |-> p[2]]
    BY NoContext DEF PairConstraint
  <2>4. PairConstraint(p).vi < PairConstraint(p).vj /\ 1 \in 1 .. 2 - 1
    BY <2>1 DEF PairConstraint
  <2> QED BY <2>1, <2>3, <2>4 DEF ConstraintSet
<1> HIDE DEF CS
<1> QED BY <1>1, <1>2 DEF CS

\* The loops take the constraints in the order of the pairs.
LEMMA PairsInOrder ==
    ASSUME NEW n \in Nat, NEW p \in VarPairs(n), NEW q \in VarPairs(n)
    PROVE  ConstraintLess(PairConstraint(p), PairConstraint(q)) <=> LexLess(p, q)
<1> DEFINE a == LoopKey(PairConstraint(p), 2)
           b == LoopKey(PairConstraint(q), 2)
<1>1. /\ p[1] \in Nat /\ p[2] \in Nat /\ DOMAIN p = 1 .. 2
      /\ q[1] \in Nat /\ q[2] \in Nat /\ DOMAIN q = 1 .. 2
  BY DEF VarPairs
<1>2. ASSUME NEW r \in VarPairs(n)
      PROVE  LET k == LoopKey(PairConstraint(r), 2)
             IN  DOMAIN k = 1 .. 3 /\ k[1] = 1 /\ k[2] = r[1] /\ k[3] = r[2]
  BY DEF LoopKey, PairConstraint
<1>3. /\ DOMAIN a = 1 .. 3 /\ a[1] = 1 /\ a[2] = p[1] /\ a[3] = p[2]
      /\ b[1] = 1 /\ b[2] = q[1] /\ b[3] = q[2]
  BY <1>2
<1> HIDE DEF a, b
<1>4. LexLess(a, b) <=> p[1] < q[1] \/ (p[1] = q[1] /\ p[2] < q[2])
  <2>1. ASSUME LexLess(a, b)
        PROVE  p[1] < q[1] \/ (p[1] = q[1] /\ p[2] < q[2])
    <3>1. PICK i \in 1 .. 3 : a[i] < b[i] /\ \A j \in 1 .. i - 1 : a[j] = b[j]
      BY <1>3, <2>1 DEF LexLess
    <3>2. i = 1 \/ i = 2 \/ i = 3
      OBVIOUS
    <3>3. i # 1
      BY <1>3, <3>1
    <3>4. i = 3 => 2 \in 1 .. i - 1
      OBVIOUS
    <3> QED BY <1>1, <1>3, <3>1, <3>2, <3>3, <3>4
  <2>2. CASE p[1] < q[1]
    <3>1. 2 \in 1 .. 3 /\ a[2] < b[2] /\ \A j \in 1 .. 2 - 1 : a[j] = b[j]
      BY <1>3, <2>2
    <3> QED BY <1>3, <3>1 DEF LexLess
  <2>3. CASE p[1] = q[1] /\ p[2] < q[2]
    <3>1. 3 \in 1 .. 3 /\ a[3] < b[3]
      BY <1>3, <2>3
    <3>2. \A j \in 1 .. 3 - 1 : j = 1 \/ j = 2
      OBVIOUS
    <3>3. \A j \in 1 .. 3 - 1 : a[j] = b[j]
      BY <1>3, <2>3, <3>2
    <3> QED BY <1>3, <3>1, <3>3 DEF LexLess
  <2> QED BY <2>1, <2>2, <2>3
<1>5. LexLess(p, q) <=> p[1] < q[1] \/ (p[1] = q[1] /\ p[2] < q[2])
  <2>1. ASSUME LexLess(p, q)
        PROVE  p[1] < q[1] \/ (p[1] = q[1] /\ p[2] < q[2])
    <3>1. PICK i \in 1 .. 2 : p[i] < q[i] /\ \A j \in 1 .. i - 1 : p[j] = q[j]
      BY <1>1, <2>1 DEF LexLess
    <3>2. i = 1 \/ i = 2
      OBVIOUS
    <3>3. i = 2 => 1 \in 1 .. i - 1
      OBVIOUS
    <3> QED BY <3>1, <3>2, <3>3
  <2>2. CASE p[1] < q[1]
    <3>1. 1 \in 1 .. 2 /\ \A j \in 1 .. 1 - 1 : p[j] = q[j]
      OBVIOUS
    <3> QED BY <1>1, <2>2, <3>1 DEF LexLess
  <2>3. CASE p[1] = q[1] /\ p[2] < q[2]
    <3>1. 2 \in 1 .. 2 /\ \A j \in 1 .. 2 - 1 : p[j] = q[j]
      BY <2>3
    <3> QED BY <1>1, <2>3, <3>1 DEF LexLess
  <2> QED BY <2>1, <2>2, <2>3
<1> QED BY <1>4, <1>5 DEF ConstraintLess, a, b

\* The two checks go through the same pairs in the same order.
LEMMA PairsOneByOne ==
    ASSUME NEW L, NEW ws, DOMAIN ws # {}, \A c \in DOMAIN ws : ws[c] \in [1 .. 2 -> L],
           NEW n \in Nat
    PROVE  LET ts == Constraints(ws, n, 2)
               pairs == Ascending(VarPairs(n), LexLess)
           IN  /\ Len(pairs) \in Nat /\ DOMAIN pairs = 1 .. Len(pairs) /\ DOMAIN ts = DOMAIN pairs
               /\ {pairs[i] : i \in DOMAIN pairs} = VarPairs(n)
               /\ \A i \in DOMAIN pairs : ts[i] = PairConstraint(pairs[i])
<1> DEFINE PS == VarPairs(n)
           CS == ConstraintSet(ws, n, 2)
           ts == Constraints(ws, n, 2)
           pairs == Ascending(PS, LexLess)
           con == [p \in PS |-> PairConstraint(p)]
           rank(p) == Cardinality({q \in PS : LexLess(q, p)})
           crank(t) == Cardinality({s \in CS : ConstraintLess(s, t)})
           at(i) == CHOOSE t \in CS : crank(t) = i - 1
<1>1. PS \in SUBSET [1 .. 2 -> Int] /\ IsFiniteSet(PS)
  <2>1. IsFiniteSet(1 .. n)
    <3>1. 1 \in Int /\ n \in Int
      OBVIOUS
    <3> QED BY <3>1, FS_Interval
  <2>2. IsFiniteSet((1 .. n) \X (1 .. n))
    BY <2>1, FS_Product
  <2>3. PS \in SUBSET ((1 .. n) \X (1 .. n))
    BY DEF VarPairs
  <2>4. ASSUME NEW p \in PS
        PROVE  p \in [1 .. 2 -> Int]
    <3>1. p = <<p[1], p[2]>> /\ p[1] \in Int /\ p[2] \in Int
      BY DEF VarPairs
    <3> QED BY <3>1
  <2> HIDE DEF PS
  <2> QED BY <2>2, <2>3, <2>4, FS_Subset
<1>2. /\ Len(pairs) = Cardinality(PS) /\ Len(pairs) \in Nat /\ DOMAIN pairs = 1 .. Len(pairs)
      /\ \A i \in DOMAIN pairs : pairs[i] \in PS /\ rank(pairs[i]) = i - 1
      /\ {pairs[i] : i \in DOMAIN pairs} = PS
      /\ \A i, k \in DOMAIN pairs : pairs[i] = pairs[k] => i = k
  <2> HIDE DEF PS
  <2> QED BY <1>1, AscendingWords
<1>3. CS = {PairConstraint(p) : p \in PS}
  BY ConstraintsArePairs
<1>4. \A p, q \in PS : PairConstraint(p) = PairConstraint(q) => p = q
  <2> TAKE p, q \in PS
  <2> HAVE PairConstraint(p) = PairConstraint(q)
  <2>1. PairConstraint(p).vi = PairConstraint(q).vi /\ PairConstraint(p).vj = PairConstraint(q).vj
    OBVIOUS
  <2>2. p[1] = q[1] /\ p[2] = q[2]
    BY <2>1 DEF PairConstraint
  <2>3. p = <<p[1], p[2]>> /\ q = <<q[1], q[2]>>
    BY DEF VarPairs
  <2> QED BY <2>2, <2>3
<1>5. con \in Bijection(PS, CS)
  <2>1. con \in [PS -> CS]
    BY <1>3
  <2>2. \A p, q \in PS : con[p] = con[q] => p = q
    BY <1>4
  <2>3. \A t \in CS : \E p \in PS : con[p] = t
    BY <1>3
  <2> HIDE DEF con, PS, CS
  <2> QED BY <2>1, <2>2, <2>3 DEF Bijection, Injection, Surjection, IsInjective
<1>6. IsFiniteSet(CS) /\ Cardinality(CS) = Cardinality(PS)
  <2> HIDE DEF con, PS, CS
  <2> QED BY <1>1, <1>5, FS_Bijection DEF ExistsBijection
<1>7. ASSUME NEW p \in PS
      PROVE  crank(PairConstraint(p)) = rank(p)
  <2> DEFINE lo == {q \in PS : LexLess(q, p)}
             clo == {s \in CS : ConstraintLess(s, PairConstraint(p))}
             f == [q \in lo |-> PairConstraint(q)]
  <2>1. \A q \in PS : ConstraintLess(PairConstraint(q), PairConstraint(p)) <=> LexLess(q, p)
    BY PairsInOrder
  <2>2. IsFiniteSet(lo)
    <3>1. lo \in SUBSET PS
      OBVIOUS
    <3> HIDE DEF lo, PS
    <3> QED BY <1>1, <3>1, FS_Subset
  <2>3. clo = {PairConstraint(q) : q \in lo}
    <3> HIDE DEF PS, CS
    <3> QED BY <1>3, <2>1
  <2>4. f \in Bijection(lo, clo)
    <3>1. f \in [lo -> clo] /\ \A t \in clo : \E q \in lo : f[q] = t
      BY <2>3
    <3>2. \A q, r \in lo : f[q] = f[r] => q = r
      BY <1>4
    <3> HIDE DEF f, lo, clo
    <3> QED BY <3>1, <3>2 DEF Bijection, Injection, Surjection, IsInjective
  <2>5. Cardinality(clo) = Cardinality(lo)
    <3> HIDE DEF f, lo, clo
    <3> QED BY <2>2, <2>4, FS_Bijection DEF ExistsBijection
  <2> QED BY <2>5
<1>8. ts = [i \in 1 .. Cardinality(CS) |-> at(i)]
  BY DEF Constraints, Ascending, ConstraintLess
<1> HIDE DEF PS, CS, rank, crank, con, pairs
<1>9. ASSUME NEW i \in DOMAIN pairs
      PROVE  at(i) = PairConstraint(pairs[i])
  <2>1. PairConstraint(pairs[i]) \in CS /\ crank(PairConstraint(pairs[i])) = i - 1
    BY <1>2, <1>3, <1>7
  <2>2. at(i) \in CS /\ crank(at(i)) = i - 1
    BY <2>1
  <2> HIDE DEF at
  <2>3. PICK q \in PS : at(i) = PairConstraint(q)
    BY <1>3, <2>2
  <2>4. PICK k \in DOMAIN pairs : q = pairs[k]
    BY <1>2
  <2>5. k - 1 = i - 1
    BY <1>2, <1>7, <2>2, <2>3, <2>4
  <2>6. k = i
    BY <1>2, <2>5
  <2> QED BY <2>3, <2>4, <2>6
<1>10. DOMAIN ts = DOMAIN pairs /\ \A i \in DOMAIN pairs : ts[i] = PairConstraint(pairs[i])
  <2>1. 1 .. Cardinality(CS) = DOMAIN pairs
    BY <1>2, <1>6
  <2> HIDE DEF at, ts
  <2> QED BY <1>8, <1>9, <2>1
<1> QED BY <1>2, <1>10 DEF pairs, PS

\* The words of weight two of sym are finitely many, over the letters used.
PairSymbol(sym, used) ==
    LET W == WordsOfWeight(sym, 2)
    IN  /\ W \in SUBSET [1 .. 2 -> Int] /\ IsFiniteSet(W)
        /\ \A w \in W : sym[w] \in Coeff /\ w[1] \in used /\ w[2] \in used
        /\ \A l \in used : \E w \in W : l = w[1] \/ l = w[2]

\* The logarithmic derivatives at the sample points are values of V.
SampledIn(V, letters, used, vs) ==
    \A e \in 1 .. EnvCount : \A l \in used : \A v \in DOMAIN vs :
        DlogAt(letters[l], vs[v], Env(vs, e)) \in V

\* At a sample point where no letter of the words fails, wedge_value and the
\* sum of check_integrable_n are the same coefficient, or both None.
LEMMA ValuesAgree ==
    ASSUME NEW sym, NEW used, PairSymbol(sym, used), NEW letters, NEW vs,
           SampledIn(NoFailure, letters, used, vs),
           NEW e \in 1 .. EnvCount, NEW vi \in DOMAIN vs, NEW vj \in DOMAIN vs
    PROVE  LET d == DlogTable([l \in used |-> letters[l]], vs)
               total == Total(sym, WordsOfWeight(sym, 2), d, PairConstraint(<<vi, vj>>), e)
           IN  /\ WedgeValue(letters, sym, vs[vi], vs[vj], Env(vs, e)) = total
               /\ total \in Coeff \cup {None}
<1> DEFINE W == WordsOfWeight(sym, 2)
           d == DlogTable([l \in used |-> letters[l]], vs)
           t == PairConstraint(<<vi, vj>>)
           at == Env(vs, e)
           q == [w \in W |-> <<DlogAt(letters[w[1]], vs[vi], at), DlogAt(letters[w[2]], vs[vj], at),
                               DlogAt(letters[w[1]], vs[vj], at), DlogAt(letters[w[2]], vs[vi], at)>>]
           ws == Ascending(W, LexLess)
           D(w, i, v) == DlogAt(letters[w[i]], v, at)
           quads == [i \in DOMAIN ws |->
                       <<D(ws[i], 1, vs[vi]), D(ws[i], 2, vs[vj]),
                         D(ws[i], 1, vs[vj]), D(ws[i], 2, vs[vi])>>]
           stopped == {i \in DOMAIN ws : Stops(quads[i]) # {}}
           first == quads[Min(stopped)]
           wedge == [w \in W |-> Wedge(d, e, w[t.k], w[t.k + 1], t.vi, t.vj)]
           singular(w) == \E k \in 1 .. 4 : q[w][k] = None
           term == [w \in W |-> Times(sym[w], wedge[w])]
           terms == [i \in DOMAIN ws |-> Times(sym[ws[i]], WedgeTerm(quads[i]))]
<1>1. WedgeValue(letters, sym, vs[vi], vs[vj], at) =
        IF stopped # {} THEN first[Min(Stops(first))] ELSE Sum(terms, DOMAIN ws)
  BY Zenon DEF WedgeValue
<1>2. W \in SUBSET [1 .. 2 -> Int] /\ IsFiniteSet(W) /\ \A w \in W : sym[w] \in Coeff
  BY DEF PairSymbol
<1>3. \A w \in W : w[1] \in used /\ w[2] \in used
  BY DEF PairSymbol
<1>4. \A l \in used : \A v \in DOMAIN vs :
          DlogAt(letters[l], vs[v], Env(vs, e)) \in (Coeff \cup {None}) \ {Fail}
  BY DEF SampledIn, NoFailure
<1> HIDE DEF W
<1>5. None \notin Coeff /\ Fail \notin Coeff
  BY JobsAssumption
<1>6. t.k = 1 /\ t.context = <<>> /\ t.vi = vi /\ t.vj = vj
  BY DEF PairConstraint
<1>7. {w \in W : Context(w, t.k) = t.context} = W
  BY <1>2, <1>6, NoContext
<1>8. ASSUME NEW w \in W
      PROVE  /\ DOMAIN q[w] = 1 .. 4
             /\ \A k \in 1 .. 4 : q[w][k] \in Coeff \cup {None} /\ q[w][k] # Fail
             /\ Stops(q[w]) = {k \in 1 .. 4 : q[w][k] = None}
             /\ wedge[w] = IF singular(w) THEN None ELSE WedgeTerm(q[w])
  <2>1. w[1] \in used /\ w[2] \in used
    BY <1>3
  <2>2. /\ d[e][w[1]][vi] = q[w][1] /\ d[e][w[2]][vj] = q[w][2]
        /\ d[e][w[1]][vj] = q[w][3] /\ d[e][w[2]][vi] = q[w][4]
    BY <2>1 DEF DlogTable
  <2>3. /\ q[w][1] \in Coeff \cup {None} /\ q[w][1] # Fail
        /\ q[w][2] \in Coeff \cup {None} /\ q[w][2] # Fail
        /\ q[w][3] \in Coeff \cup {None} /\ q[w][3] # Fail
        /\ q[w][4] \in Coeff \cup {None} /\ q[w][4] # Fail
    BY <1>4, <2>1
  <2>4. DOMAIN q[w] = 1 .. 4
    OBVIOUS
  <2> HIDE DEF q, d, t
  <2>5. \A k \in 1 .. 4 : k = 1 \/ k = 2 \/ k = 3 \/ k = 4
    OBVIOUS
  <2>6. \A k \in 1 .. 4 : q[w][k] \in Coeff \cup {None} /\ q[w][k] # Fail
    BY <2>3, <2>5
  <2>7. Stops(q[w]) = {k \in 1 .. 4 : q[w][k] = None}
    BY <2>4, <2>6 DEF Stops
  <2>8. singular(w) <=> None \in {q[w][1], q[w][2], q[w][3], q[w][4]}
    BY <2>5
  <2>9. wedge[w] = Wedge(d, e, w[1], w[2], vi, vj)
    BY <1>6
  <2>10. wedge[w] = IF singular(w) THEN None ELSE WedgeTerm(q[w])
    BY <2>2, <2>8, <2>9 DEF Wedge, WedgeTerm
  <2> QED BY <2>4, <2>6, <2>7, <2>10
<1>9. /\ Len(ws) \in Nat /\ DOMAIN ws = 1 .. Len(ws)
      /\ \A i \in DOMAIN ws : ws[i] \in W
      /\ \A i, k \in DOMAIN ws : ws[i] = ws[k] => i = k
      /\ {ws[i] : i \in DOMAIN ws} = W
  <2> DEFINE n == 2
  <2>1. n \in Nat /\ W \in SUBSET [1 .. n -> Int]
    BY <1>2
  <2> HIDE DEF n
  <2> QED BY <1>2, <2>1, AscendingWords
<1>10. \A i \in DOMAIN ws : quads[i] = q[ws[i]]
  <2> HIDE DEF ws
  <2> QED BY <1>9
<1>11. Total(sym, W, d, t, e) =
        IF \E w \in W : wedge[w] = None THEN None ELSE Sum(term, W)
  BY <1>7 DEF Total
<1> HIDE DEF q, ws, quads, d, t, wedge
<1>12. \A w \in W : singular(w) \/ (wedge[w] \in Coeff /\ wedge[w] = WedgeTerm(q[w]))
  <2> TAKE w \in W
  <2>1. CASE ~singular(w)
    <3>1. q[w][1] \in Coeff /\ q[w][2] \in Coeff /\ q[w][3] \in Coeff /\ q[w][4] \in Coeff
      BY <1>8, <2>1
    <3>2. Times(q[w][1], q[w][2]) \in Coeff /\ Times(q[w][3], q[w][4]) \in Coeff
      BY <3>1, CoeffAssumption
    <3>3. WedgeTerm(q[w]) \in Coeff
      BY <3>2, CoeffAssumption DEF WedgeTerm
    <3> QED BY <1>8, <2>1, <3>3
  <2> QED BY <2>1
<1>13. \A w \in W : wedge[w] = None <=> singular(w)
  BY <1>5, <1>8, <1>12
<1>14. CASE \E w \in W : singular(w)
  <2>1. stopped # {} /\ stopped \subseteq Nat
    <3>1. PICK w \in W : singular(w)
      BY <1>14
    <3>2. PICK i \in DOMAIN ws : ws[i] = w
      BY <1>9
    <3>3. Stops(quads[i]) # {}
      BY <1>8, <1>10, <3>1, <3>2
    <3>4. i \in stopped
      BY <3>3
    <3>5. stopped \subseteq DOMAIN ws
      OBVIOUS
    <3> HIDE DEF stopped
    <3>6. DOMAIN ws \subseteq Nat
      BY <1>9
    <3> QED BY <3>4, <3>5, <3>6
  <2>2. Min(stopped) \in stopped
    <3> HIDE DEF stopped
    <3> QED BY <2>1, MinIsElement
  <2>3. PICK w \in W : first = q[w] /\ Stops(q[w]) # {}
    BY <1>9, <1>10, <2>2
  <2>4. Min(Stops(q[w])) \in Stops(q[w])
    <3> DEFINE s == Stops(q[w])
    <3>1. s # {} /\ s \subseteq Nat
      BY <1>8, <2>3
    <3> HIDE DEF s
    <3>2. Min(s) \in s
      BY <3>1, MinIsElement
    <3> QED BY <3>2 DEF s
  <2>5. first[Min(Stops(first))] = None
    BY <1>8, <2>3, <2>4
  <2> HIDE DEF first, stopped, term, terms
  <2>6. WedgeValue(letters, sym, vs[vi], vs[vj], at) = None
    BY <1>1, <2>1, <2>5
  <2>7. Total(sym, W, d, t, e) = None
    BY <1>11, <1>13, <1>14
  <2> QED BY <2>6, <2>7 DEF d, t, W
<1>15. CASE ~\E w \in W : singular(w)
  <2>1. stopped = {}
    <3>1. \A w \in W : Stops(q[w]) = {}
      BY <1>8, <1>15
    <3>2. \A i \in DOMAIN ws : Stops(quads[i]) = {}
      BY <1>9, <1>10, <3>1
    <3> QED BY <3>2
  <2>2. \A w \in W : wedge[w] \in Coeff /\ wedge[w] = WedgeTerm(q[w])
    BY <1>12, <1>15
  <2>3. \A i \in DOMAIN ws : term[ws[i]] = terms[i] /\ terms[i] \in Coeff
    <3> TAKE i \in DOMAIN ws
    <3>1. ws[i] \in W /\ sym[ws[i]] \in Coeff /\ wedge[ws[i]] \in Coeff
      BY <1>2, <1>9, <2>2
    <3>2. WedgeTerm(quads[i]) = wedge[ws[i]]
      BY <1>10, <2>2, <3>1
    <3>3. terms[i] = Times(sym[ws[i]], wedge[ws[i]]) /\ term[ws[i]] = Times(sym[ws[i]], wedge[ws[i]])
      BY <3>1, <3>2
    <3>4. Times(sym[ws[i]], wedge[ws[i]]) \in Coeff
      BY <3>1, CoeffAssumption
    <3> QED BY <3>3, <3>4
  <2> HIDE DEF term, terms, stopped, first
  <2>4. IsFiniteSet(DOMAIN ws)
    <3>1. 1 \in Int /\ Len(ws) \in Int
      BY <1>9
    <3>2. IsFiniteSet(1 .. Len(ws))
      BY <3>1, FS_Interval
    <3> QED BY <1>9, <3>2
  <2>5. Summable(terms, DOMAIN ws)
    BY <2>3, <2>4 DEF Summable
  <2>6. Sum(terms, DOMAIN ws) = Sum(term, {ws[i] : i \in DOMAIN ws})
    <3> DEFINE I == DOMAIN ws
    <3>1. Summable(terms, I) /\ \A x, y \in I : ws[x] = ws[y] => x = y
      BY <1>9, <2>5
    <3>2. \A x \in I : term[ws[x]] = terms[x]
      BY <2>3
    <3> HIDE DEF I
    <3>3. Sum(terms, I) = Sum(term, {ws[i] : i \in I})
      BY <3>1, <3>2, SumReindexed
    <3> QED BY <3>3 DEF I
  <2>7. Sum(terms, DOMAIN ws) \in Coeff
    BY <2>5, SumType
  <2>8. WedgeValue(letters, sym, vs[vi], vs[vj], at) = Sum(terms, DOMAIN ws)
    BY <1>1, <2>1
  <2>9. Total(sym, W, d, t, e) = Sum(term, W)
    BY <1>11, <1>13, <1>15
  <2> QED BY <1>9, <2>6, <2>7, <2>8, <2>9 DEF d, t, W
<1> QED BY <1>14, <1>15

\* Where no letter of the words fails, one pair of variables has the same
\* outcome in both checks.
LEMMA OutcomesAgree ==
    ASSUME NEW sym, NEW used, PairSymbol(sym, used), NEW letters,
           NEW vs, Len(vs) \in Nat, DOMAIN vs = 1 .. Len(vs),
           SampledIn(NoFailure, letters, used, vs),
           NEW p \in VarPairs(Len(vs))
    PROVE  Outcome(sym, WordsOfWeight(sym, 2), DlogTable([l \in used |-> letters[l]], vs),
                   PairConstraint(p))
             = PairOutcome(letters, sym, vs, p[1], p[2])
<1> DEFINE W == WordsOfWeight(sym, 2)
           d == DlogTable([l \in used |-> letters[l]], vs)
           Es == 1 .. EnvCount
           total == [e \in Es |-> Total(sym, W, d, PairConstraint(p), e)]
           sampled == {e \in Es : total[e] # None}
           value == [e \in Es |-> WedgeValue(letters, sym, vs[p[1]], vs[p[2]], Env(vs, e))]
           stops == {e \in Es : value[e] \notin {None, Zero}}
           valued == {e \in Es : value[e] # None}
           few == Cardinality(sampled) < MinValid
<1>1. p[1] \in DOMAIN vs /\ p[2] \in DOMAIN vs /\ p = <<p[1], p[2]>>
  BY DEF VarPairs
<1>2. \A e \in Es : value[e] = total[e] /\ total[e] \in Coeff \cup {None}
  <2> TAKE e \in Es
  <2> DEFINE vi == p[1]
             vj == p[2]
  <2>1. PairConstraint(p) = PairConstraint(<<vi, vj>>)
    BY <1>1
  <2>2. vi \in DOMAIN vs /\ vj \in DOMAIN vs
    BY <1>1
  <2> HIDE DEF vi, vj
  <2>3. /\ WedgeValue(letters, sym, vs[vi], vs[vj], Env(vs, e))
              = Total(sym, W, d, PairConstraint(<<vi, vj>>), e)
        /\ Total(sym, W, d, PairConstraint(<<vi, vj>>), e) \in Coeff \cup {None}
    BY <2>2, ValuesAgree
  <2> HIDE DEF W, d
  <2> QED BY <2>1, <2>3 DEF vi, vj
<1>3. None \notin Coeff /\ Fail \notin Coeff /\ Zero \in Coeff
  BY JobsAssumption, CoeffAssumption
<1>4. Outcome(sym, W, d, PairConstraint(p)) =
        CASE \E e \in sampled : total[e] # Zero -> "false"
          [] \A e \in sampled : total[e] = Zero ->
                IF few THEN "InsufficientSamples" ELSE "true"
  BY Zenon DEF Outcome
<1>5. PairOutcome(letters, sym, vs, p[1], p[2]) =
        IF stops # {} THEN IF value[Min(stops)] = Fail THEN "Eval" ELSE "false"
        ELSE IF Cardinality(valued) < MinValid THEN "InsufficientSamples" ELSE "true"
  BY Zenon DEF PairOutcome
<1>6. valued = sampled
  <2> HIDE DEF value, total
  <2> QED BY <1>2
<1>7. stops = {e \in sampled : total[e] # Zero} /\ stops \subseteq Nat
  <2>1. Es \subseteq Nat
    OBVIOUS
  <2> HIDE DEF value, total, Es
  <2> QED BY <1>2, <2>1
<1>8. Cardinality(valued) < MinValid <=> few
  BY <1>6
<1>9. CASE stops # {}
  <2>1. Min(stops) \in stops
    <3> HIDE DEF stops
    <3> QED BY <1>7, <1>9, MinIsElement
  <2>2. value[Min(stops)] # Fail
    <3>1. Min(stops) \in Es /\ value[Min(stops)] # None
      BY <2>1
    <3> HIDE DEF value, total, stops, Es
    <3> QED BY <1>2, <1>3, <3>1
  <2>3. \E e \in sampled : total[e] # Zero
    <3> HIDE DEF stops, sampled, total
    <3> QED BY <1>7, <1>9
  <2>4. ~\A e \in sampled : total[e] = Zero
    <3> HIDE DEF sampled, total
    <3> QED BY <2>3
  <2>5. Outcome(sym, W, d, PairConstraint(p)) = "false"
    <3> HIDE DEF sampled, total, few, W, d
    <3> QED BY <1>4, <2>3, <2>4
  <2>6. PairOutcome(letters, sym, vs, p[1], p[2]) = "false"
    <3> HIDE DEF stops, value, valued
    <3> QED BY <1>5, <1>9, <2>2
  <2> QED BY <2>5, <2>6
<1>10. CASE stops = {}
  <2>1. \A e \in sampled : total[e] = Zero
    <3> HIDE DEF stops, sampled, total
    <3> QED BY <1>7, <1>10
  <2>2. ~\E e \in sampled : total[e] # Zero
    <3> HIDE DEF sampled, total
    <3> QED BY <2>1
  <2>3. Outcome(sym, W, d, PairConstraint(p)) = IF few THEN "InsufficientSamples" ELSE "true"
    <3> HIDE DEF sampled, total, few, W, d
    <3> QED BY <1>4, <2>1, <2>2
  <2>4. PairOutcome(letters, sym, vs, p[1], p[2]) = IF few THEN "InsufficientSamples" ELSE "true"
    <3> HIDE DEF stops, value, valued, few
    <3> QED BY <1>5, <1>8, <1>10
  <2> QED BY <2>3, <2>4
<1> QED BY <1>9, <1>10

\* Where a letter of the words fails at every sample point and none is
\* singular, the first pair of variables ends check_integrable with an error.
LEMMA ErrorsStop ==
    ASSUME NEW sym, NEW used, PairSymbol(sym, used), NEW letters,
           NEW vs, Len(vs) \in Nat, DOMAIN vs = 1 .. Len(vs),
           SampledIn(NoSingularity, letters, used, vs),
           NEW bad \in used, SampledIn({Fail}, letters, {bad}, vs),
           NEW vi \in DOMAIN vs, NEW vj \in DOMAIN vs
    PROVE  PairOutcome(letters, sym, vs, vi, vj) = "Eval"
<1> DEFINE W == WordsOfWeight(sym, 2)
           ws == Ascending(W, LexLess)
           Es == 1 .. EnvCount
           value == [e \in Es |-> WedgeValue(letters, sym, vs[vi], vs[vj], Env(vs, e))]
           stops == {e \in Es : value[e] \notin {None, Zero}}
           valued == {e \in Es : value[e] # None}
<1>1. W \in SUBSET [1 .. 2 -> Int] /\ IsFiniteSet(W)
  BY DEF PairSymbol
<1>2. \A w \in W : w[1] \in used /\ w[2] \in used
  BY DEF PairSymbol
<1>3. PICK w \in W : bad = w[1] \/ bad = w[2]
  BY DEF PairSymbol
<1>4. /\ \A e \in Es : \A l \in used : \A v \in DOMAIN vs :
              DlogAt(letters[l], vs[v], Env(vs, e)) # None
      /\ \A e \in Es : \A v \in DOMAIN vs : DlogAt(letters[bad], vs[v], Env(vs, e)) = Fail
  BY DEF SampledIn, NoSingularity
<1>5. ASSUME NEW e \in Es
      PROVE  WedgeValue(letters, sym, vs[vi], vs[vj], Env(vs, e)) = Fail
  <2> DEFINE at == Env(vs, e)
             D(u, i, v) == DlogAt(letters[u[i]], v, at)
             q == [u \in W |-> <<D(u, 1, vs[vi]), D(u, 2, vs[vj]),
                                 D(u, 1, vs[vj]), D(u, 2, vs[vi])>>]
             quads == [i \in DOMAIN ws |->
                         <<D(ws[i], 1, vs[vi]), D(ws[i], 2, vs[vj]),
                           D(ws[i], 1, vs[vj]), D(ws[i], 2, vs[vi])>>]
             stopped == {i \in DOMAIN ws : Stops(quads[i]) # {}}
             first == quads[Min(stopped)]
             terms == [i \in DOMAIN ws |-> Times(sym[ws[i]], WedgeTerm(quads[i]))]
  <2>1. WedgeValue(letters, sym, vs[vi], vs[vj], at) =
          IF stopped # {} THEN first[Min(Stops(first))] ELSE Sum(terms, DOMAIN ws)
    BY Zenon DEF WedgeValue
  <2> HIDE DEF W
  <2>2. ASSUME NEW u \in W
        PROVE  DOMAIN q[u] = 1 .. 4 /\ \A k \in 1 .. 4 : q[u][k] # None
    <3>1. u[1] \in used /\ u[2] \in used
      BY <1>2
    <3>2. q[u][1] # None /\ q[u][2] # None /\ q[u][3] # None /\ q[u][4] # None
      BY <1>4, <3>1
    <3>3. DOMAIN q[u] = 1 .. 4
      OBVIOUS
    <3>4. \A k \in 1 .. 4 : k = 1 \/ k = 2 \/ k = 3 \/ k = 4
      OBVIOUS
    <3> HIDE DEF q
    <3> QED BY <3>2, <3>3, <3>4
  <2>3. DOMAIN q[w] = 1 .. 4 /\ (q[w][1] = Fail \/ q[w][2] = Fail)
    BY <1>3, <1>4
  <2>4. /\ Len(ws) \in Nat /\ DOMAIN ws = 1 .. Len(ws)
        /\ \A i \in DOMAIN ws : ws[i] \in W
        /\ {ws[i] : i \in DOMAIN ws} = W
    <3> DEFINE n == 2
    <3>1. n \in Nat /\ W \in SUBSET [1 .. n -> Int]
      BY <1>1
    <3> HIDE DEF n
    <3> QED BY <1>1, <3>1, AscendingWords
  <2>5. \A i \in DOMAIN ws : quads[i] = q[ws[i]]
    <3> HIDE DEF ws
    <3> QED BY <2>4
  <2> HIDE DEF q, quads, ws
  <2>6. Stops(q[w]) # {}
    <3>1. 1 \in Stops(q[w]) \/ 2 \in Stops(q[w])
      BY <2>3 DEF Stops
    <3> QED BY <3>1
  <2>7. stopped # {} /\ stopped \subseteq Nat
    <3>1. PICK i \in DOMAIN ws : ws[i] = w
      BY <2>4
    <3>2. i \in stopped
      BY <2>5, <2>6, <3>1
    <3>3. stopped \subseteq DOMAIN ws
      OBVIOUS
    <3> HIDE DEF stopped
    <3>4. DOMAIN ws \subseteq Nat
      BY <2>4
    <3> QED BY <3>2, <3>3, <3>4
  <2>8. Min(stopped) \in stopped
    <3> HIDE DEF stopped
    <3> QED BY <2>7, MinIsElement
  <2>9. PICK u \in W : first = q[u] /\ Stops(q[u]) # {}
    BY <2>4, <2>5, <2>8
  <2>10. Min(Stops(q[u])) \in Stops(q[u])
    <3> DEFINE s == Stops(q[u])
    <3>1. s # {} /\ s \subseteq Nat
      <4>1. s # {}
        BY <2>9
      <4>2. s \subseteq DOMAIN q[u]
        BY DEF Stops
      <4>3. DOMAIN q[u] \subseteq Nat
        BY <2>2
      <4> HIDE DEF s
      <4> QED BY <4>1, <4>2, <4>3
    <3> HIDE DEF s
    <3>2. Min(s) \in s
      BY <3>1, MinIsElement
    <3> QED BY <3>2 DEF s
  <2>11. q[u][Min(Stops(q[u]))] = Fail
    BY <2>2, <2>10 DEF Stops
  <2>12. first[Min(Stops(first))] = Fail
    <3> HIDE DEF first
    <3> QED BY <2>9, <2>11
  <2> HIDE DEF first, stopped, terms
  <2> QED BY <2>1, <2>7, <2>12
<1>6. PairOutcome(letters, sym, vs, vi, vj) =
        IF stops # {} THEN IF value[Min(stops)] = Fail THEN "Eval" ELSE "false"
        ELSE IF Cardinality(valued) < MinValid THEN "InsufficientSamples" ELSE "true"
  BY Zenon DEF PairOutcome
<1>7. Fail # Zero /\ Fail # None
  <2>1. Fail \notin Coeff /\ Zero \in Coeff
    BY JobsAssumption, CoeffAssumption
  <2>2. 1 \in Es
    BY DEF EnvCount
  <2>3. DlogAt(letters[bad], vs[vi], Env(vs, 1)) = Fail
    BY <1>4, <2>2
  <2>4. DlogAt(letters[bad], vs[vi], Env(vs, 1)) # None
    BY <1>4, <2>2
  <2> QED BY <2>1, <2>3, <2>4
<1>8. stops = Es
  BY <1>5, <1>7
<1>9. Min(stops) \in Es
  <2>1. 1 \in Es /\ Es \subseteq Nat
    BY DEF EnvCount
  <2> HIDE DEF Es, stops
  <2> QED BY <1>8, <2>1, MinIsElement
<1>10. value[Min(stops)] = Fail /\ stops # {}
  <2>1. \A e \in Es : value[e] = Fail
    BY <1>5
  <2> HIDE DEF value, stops
  <2> QED BY <1>8, <1>9, <2>1
<1> HIDE DEF value, stops, valued
<1> QED BY <1>6, <1>10

\* The variables of some letters are enumerated one by one.
LEMMA VarsOfLettersType ==
    ASSUME NEW j \in Jobs, NEW used \in SUBSET DOMAIN j.letters
    PROVE  LET vs == VarsOfLetters(j.letters, used)
           IN  Len(vs) \in Nat /\ DOMAIN vs = 1 .. Len(vs)
<1> DEFINE F == {VarsOf(j.letters[l]) : l \in used}
           f == [l \in used |-> VarsOf(j.letters[l])]
<1>1. IsFiniteSet(used)
  <2>1. Len(j.letters) \in Nat /\ DOMAIN j.letters = 1 .. Len(j.letters)
    BY JobsAssumption
  <2>2. IsFiniteSet(DOMAIN j.letters)
    <3>1. 1 \in Int /\ Len(j.letters) \in Int
      BY <2>1
    <3> QED BY <2>1, <3>1, FS_Interval
  <2> QED BY <2>2, FS_Subset
<1>2. IsFiniteSet(F)
  <2>1. f \in Surjection(used, F)
    BY DEF Surjection
  <2> HIDE DEF f, F
  <2> QED BY <1>1, <2>1, FS_Surjection
<1>3. \A T \in F : IsFiniteSet(T) /\ T \subseteq Int
  BY JobsAssumption
<1>4. VarsOfLetters(j.letters, used) = AscendingInts(UNION F)
  BY Zenon DEF VarsOfLetters, AscendingInts
<1> HIDE DEF F
<1>5. IsFiniteSet(UNION F) /\ UNION F \subseteq Int
  BY <1>2, <1>3, FS_UNION
<1> DEFINE D == UNION F
<1>6. Len(AscendingInts(D)) \in Nat /\ DOMAIN AscendingInts(D) = 1 .. Len(AscendingInts(D))
  <2> HIDE DEF D
  <2> QED BY <1>5, AscendingNumbers DEF D
<1> QED BY <1>4, <1>6

\* The words of weight two.
LEMMA PairWords ==
    ASSUME ChecksComparable, NEW j \in Jobs, NEW sym \in Symbols(j)
    PROVE  LET used == LettersIn(WordsOfWeight(sym, 2))
           IN  used \in SUBSET DOMAIN j.letters /\ PairSymbol(sym, used)
<1> DEFINE W == WordsOfWeight(sym, 2)
           used == LettersIn(W)
<1>1. IsFiniteSet(DOMAIN sym) /\ \A w \in DOMAIN sym : w \in Seq(DOMAIN j.letters)
  BY DEF ChecksComparable
<1>2. W \subseteq DOMAIN sym /\ \A w \in W : Len(w) = 2
  BY DEF WordsOfWeight
<1>3. IsFiniteSet(W)
  BY <1>1, <1>2, FS_Subset
<1>4. \A w \in W : w \in [1 .. 2 -> DOMAIN j.letters] /\ DOMAIN w = 1 .. 2
  BY <1>1, <1>2
<1>5. \A w \in W : sym[w] \in Coeff
  BY <1>2, SymbolsAssumption DEF NonZero
<1> HIDE DEF W
<1>6. used = UNION {ToSet(w) : w \in W}
  BY DEF LettersIn
<1>7. \A w \in W : ToSet(w) = {w[1], w[2]}
  <2> TAKE w \in W
  <2>1. ToSet(w) = {w[i] : i \in 1 .. 2}
    BY <1>4 DEF ToSet
  <2>2. \A i \in 1 .. 2 : i = 1 \/ i = 2
    OBVIOUS
  <2> QED BY <2>1, <2>2
<1> HIDE DEF used
<1>8. \A w \in W : w[1] \in used /\ w[2] \in used
  BY <1>6, <1>7
<1>9. \A l \in used : \E w \in W : l = w[1] \/ l = w[2]
  BY <1>6, <1>7
<1>10. used \in SUBSET DOMAIN j.letters
  BY <1>4, <1>9
<1>11. DOMAIN j.letters \in SUBSET Int
  BY JobsAssumption
<1>12. W \in SUBSET [1 .. 2 -> Int]
  BY <1>4, <1>11
<1> QED BY <1>3, <1>5, <1>8, <1>9, <1>10, <1>12 DEF PairSymbol, used, W

\* Only the words of weight two are constrained.
LEMMA OnlyPairsConstrained ==
    ASSUME ChecksComparable, NEW j \in Jobs, j.weight <= 2, NEW sym \in Symbols(j)
    PROVE  LET W == WordsOfWeight(sym, 2)
           IN  CheckIntegrableN(j.letters, sym) =
                 IF W = {} THEN "true" ELSE CheckWeight(j.letters, sym, W, 2)
<1> DEFINE W == WordsOfWeight(sym, 2)
           S == {Len(w) : w \in DOMAIN sym} \cup {0}
           top == Max(S)
           answers == [n \in 1 .. top |-> CheckWeight(j.letters, sym, WordsOfWeight(sym, n), n)]
           bad == {n \in DOMAIN answers : answers[n] # "true"}
<1>1. S \subseteq 0 .. 2 /\ 0 \in S
  <2>1. \A w \in DOMAIN sym : Len(w) \in Nat /\ Len(w) <= j.weight
    BY DEF ChecksComparable
  <2>2. j.weight \in Nat
    BY JobsAssumption
  <2> QED BY <2>1, <2>2
<1>2. top \in S /\ \A m \in S : top >= m
  <2>1. \E x \in S : \A m \in S : x >= m
    <3> HIDE DEF S
    <3>1. CASE 2 \in S
      BY <1>1, <3>1
    <3>2. CASE 2 \notin S /\ 1 \in S
      BY <1>1, <3>2
    <3>3. CASE 2 \notin S /\ 1 \notin S
      BY <1>1, <3>3
    <3> QED BY <3>1, <3>2, <3>3
  <2>2. top = CHOOSE x \in S : \A m \in S : x >= m
    BY DEF Max
  <2> HIDE DEF S, top
  <2> QED BY <2>1, <2>2
<1>3. CheckIntegrableN(j.letters, sym) = IF bad = {} THEN "true" ELSE answers[Min(bad)]
  BY Zenon DEF CheckIntegrableN, FirstNotTrue
<1>4. W # {} => 2 \in S
  BY DEF WordsOfWeight
<1>5. top \in 0 .. 2
  <2> HIDE DEF S, top
  <2> QED BY <1>1, <1>2
<1>6. \A n \in DOMAIN answers : n = 1 \/ n = 2
  <2> HIDE DEF S, top
  <2> QED BY <1>5
<1>7. 1 \in DOMAIN answers => answers[1] = "true"
  <2> HIDE DEF S, top
  <2> QED BY DEF CheckWeight
<1>8. 2 \in DOMAIN answers => answers[2] = CheckWeight(j.letters, sym, W, 2)
  <2> HIDE DEF S, top
  <2> QED OBVIOUS
<1>9. W = {} => CheckWeight(j.letters, sym, W, 2) = "true"
  <2> HIDE DEF W
  <2> QED BY DEF CheckWeight
<1> HIDE DEF W
<1>10. CASE W = {}
  <2>1. bad = {}
    <3> HIDE DEF answers
    <3> QED BY <1>6, <1>7, <1>8, <1>9, <1>10
  <2> HIDE DEF bad, answers
  <2> QED BY <1>3, <1>10, <2>1 DEF W
<1>11. CASE W # {}
  <2>1. 2 \in DOMAIN answers
    <3>1. top = 2
      <4> HIDE DEF S, top
      <4> QED BY <1>2, <1>4, <1>5, <1>11
    <3> HIDE DEF top
    <3> QED BY <3>1
  <2>2. bad \subseteq {2}
    <3> HIDE DEF answers
    <3> QED BY <1>6, <1>7
  <2>3. bad = {} => answers[2] = "true"
    <3> HIDE DEF answers
    <3> QED BY <2>1
  <2>4. bad # {} => Min(bad) = 2
    <3> HIDE DEF bad
    <3>1. bad # {} => bad = {2}
      BY <2>2
    <3>2. Min({2}) = 2
      BY DEF Min
    <3> QED BY <3>1, <3>2
  <2> HIDE DEF bad, answers
  <2> QED BY <1>3, <1>8, <1>11, <2>1, <2>3, <2>4 DEF W
<1> QED BY <1>10, <1>11

\* check_integrable_n and check_integrable answer alike up to weight two.
LEMMA OneAnswer ==
    ASSUME ChecksComparable, NEW j \in Jobs, j.weight <= 2, NEW sym \in Symbols(j)
    PROVE  CheckIntegrableN(j.letters, sym) = CheckIntegrable(j.letters, sym)
<1> DEFINE letters == j.letters
           W == WordsOfWeight(sym, 2)
           used == LettersIn(W)
           vs == VarsOfLetters(j.letters, used)
           d == DlogTable([l \in used |-> letters[l]], vs)
           ws == Ascending(W, LexLess)
           ts == Constraints(ws, Len(vs), 2)
           pairs == Ascending(VarPairs(Len(vs)), LexLess)
           new == [i \in DOMAIN ts |-> Outcome(sym, W, d, ts[i])]
           old == [i \in DOMAIN pairs |->
                     PairOutcome(letters, sym, vs, pairs[i][1], pairs[i][2])]
           value(l, v, e) == DlogAt(letters[l], vs[v], Env(vs, e))
<1>1. used \in SUBSET DOMAIN j.letters /\ PairSymbol(sym, used)
  BY PairWords
<1>2. Len(vs) \in Nat /\ DOMAIN vs = 1 .. Len(vs)
  <2> DEFINE u == used
  <2>1. u \in SUBSET DOMAIN j.letters
    BY <1>1
  <2> HIDE DEF u
  <2>2. LET vv == VarsOfLetters(j.letters, u) IN Len(vv) \in Nat /\ DOMAIN vv = 1 .. Len(vv)
    BY <2>1, VarsOfLettersType
  <2> QED BY <2>2 DEF u
<1>3. ~\E w \in DOMAIN sym : Len(w) > 2
  <2>1. \A w \in DOMAIN sym : Len(w) \in Nat /\ Len(w) <= j.weight
    BY DEF ChecksComparable
  <2>2. j.weight \in Nat
    BY JobsAssumption
  <2> QED BY <2>1, <2>2
<1>4. CheckIntegrable(j.letters, sym) =
        IF \E w \in DOMAIN sym : Len(w) > 2 THEN "NotImplemented"
        ELSE IF W = {} \/ Len(vs) < 2 THEN "true" ELSE FirstNotTrue(old)
  <2>1. VarPairs(Len(vs)) = {p \in (DOMAIN vs) \X (DOMAIN vs) : p[1] < p[2]}
    <3> HIDE DEF vs
    <3> QED BY <1>2 DEF VarPairs
  <2> DEFINE PS == {p \in (DOMAIN vs) \X (DOMAIN vs) : p[1] < p[2]}
  <2>2. pairs = Ascending(PS, LexLess)
    BY Zenon, <2>1
  <2> DEFINE pp == Ascending(PS, LexLess)
  <2>3. CheckIntegrable(j.letters, sym) =
          IF \E w \in DOMAIN sym : Len(w) > 2 THEN "NotImplemented"
          ELSE IF W = {} \/ Len(vs) < 2 THEN "true"
          ELSE FirstNotTrue([i \in DOMAIN pp |->
                  PairOutcome(j.letters, sym, vs, pp[i][1], pp[i][2])])
    BY Zenon DEF CheckIntegrable
  <2>4. pp = pairs
    BY <2>2
  <2> HIDE DEF pp, pairs, W, vs
  <2> QED BY <2>3, <2>4
<1>5. CheckWeight(j.letters, sym, W, 2) =
        IF 2 <= 1 \/ W = {} \/ Len(vs) < 2 THEN "true"
        ELSE IF DlogFails(d) THEN "Eval" ELSE FirstNotTrue(new)
  BY Zenon DEF CheckWeight
<1>6. CheckIntegrableN(j.letters, sym) =
        IF W = {} THEN "true" ELSE CheckWeight(j.letters, sym, W, 2)
  BY OnlyPairsConstrained
<1>7. CASE W = {} \/ Len(vs) < 2
  <2> HIDE DEF W, vs, d, old, new
  <2> QED BY <1>3, <1>4, <1>5, <1>6, <1>7
<1>8. CASE W # {} /\ ~(Len(vs) < 2)
  <2>1. CheckIntegrableN(j.letters, sym) = IF DlogFails(d) THEN "Eval" ELSE FirstNotTrue(new)
    <3> HIDE DEF W, vs, d, old, new
    <3> QED BY <1>5, <1>6, <1>8
  <2>2. CheckIntegrable(j.letters, sym) = FirstNotTrue(old)
    <3> HIDE DEF W, vs, d, old, new
    <3> QED BY <1>3, <1>4, <1>8
  <2>3. /\ Len(pairs) \in Nat /\ DOMAIN pairs = 1 .. Len(pairs) /\ DOMAIN ts = DOMAIN pairs
        /\ {pairs[i] : i \in DOMAIN pairs} = VarPairs(Len(vs))
        /\ \A i \in DOMAIN pairs : ts[i] = PairConstraint(pairs[i])
    <3>1. DOMAIN ws # {} /\ \A c \in DOMAIN ws : ws[c] \in [1 .. 2 -> Int]
      <4> DEFINE n == 2
      <4>1. n \in Nat /\ W \in SUBSET [1 .. n -> Int] /\ IsFiniteSet(W)
        BY <1>1 DEF PairSymbol
      <4> HIDE DEF n, W
      <4>2. (\A i \in DOMAIN ws : ws[i] \in W) /\ {ws[i] : i \in DOMAIN ws} = W
        BY <4>1, AscendingWords
      <4> HIDE DEF ws
      <4> QED BY <1>8, <4>1, <4>2 DEF n
    <3> DEFINE nv == Len(vs)
    <3>2. nv \in Nat
      BY <1>2
    <3> HIDE DEF ws, nv
    <3>3. LET tt == Constraints(ws, nv, 2)
              pp == Ascending(VarPairs(nv), LexLess)
          IN  /\ Len(pp) \in Nat /\ DOMAIN pp = 1 .. Len(pp) /\ DOMAIN tt = DOMAIN pp
              /\ {pp[i] : i \in DOMAIN pp} = VarPairs(nv)
              /\ \A i \in DOMAIN pp : tt[i] = PairConstraint(pp[i])
      BY <3>1, <3>2, PairsOneByOne
    <3> QED BY <3>3 DEF nv
  <2>4. ErrorsComparable(j.letters, used)
    <3> DEFINE u == used
    <3>1. u \in SUBSET DOMAIN j.letters
      BY <1>1
    <3> HIDE DEF u
    <3>2. ErrorsComparable(j.letters, u)
      BY <3>1 DEF ChecksComparable
    <3> QED BY <3>2 DEF u
  <2>5. \A l \in used : LetterValues(j.letters, used)[l] =
                          {value(l, v, e) : v \in DOMAIN vs, e \in 1 .. EnvCount}
    BY DEF LetterValues
  <2>6. \A e \in 1 .. EnvCount : \A l \in used : \A v \in DOMAIN vs : d[e][l][v] = value(l, v, e)
    <3> HIDE DEF used, vs
    <3> QED BY DEF DlogTable
  <2>7. /\ DOMAIN d = 1 .. EnvCount
        /\ \A e \in DOMAIN d : DOMAIN d[e] = used /\ \A l \in used : DOMAIN d[e][l] = DOMAIN vs
    <3> HIDE DEF used, vs
    <3> QED BY DEF DlogTable
  <2>8. CASE \A l \in used : LetterValues(j.letters, used)[l] \subseteq NoFailure
    <3>1. SampledIn(NoFailure, letters, used, vs)
      <4> HIDE DEF used, vs
      <4> QED BY <2>5, <2>8 DEF SampledIn
    <3>2. ~DlogFails(d)
      <4> HIDE DEF used, vs, d
      <4> QED BY <2>6, <2>7, <3>1 DEF DlogFails, SampledIn, NoFailure
    <3>3. ASSUME NEW i \in DOMAIN pairs
          PROVE  Outcome(sym, W, d, ts[i])
                   = PairOutcome(letters, sym, vs, pairs[i][1], pairs[i][2])
      <4> DEFINE p == pairs[i]
      <4>1. p \in VarPairs(Len(vs))
        BY <2>3
      <4>2. ts[i] = PairConstraint(p)
        BY <2>3
      <4> HIDE DEF p, used, vs, ts, pairs, letters
      <4>3. Outcome(sym, W, d, PairConstraint(p)) = PairOutcome(letters, sym, vs, p[1], p[2])
        BY <1>1, <1>2, <3>1, <4>1, OutcomesAgree
      <4> HIDE DEF W, d
      <4> QED BY <4>2, <4>3 DEF p
    <3>4. new = old
      <4> HIDE DEF W, d, vs, ts, pairs
      <4> QED BY <2>3, <3>3
    <3> HIDE DEF new, old, d
    <3> QED BY <2>1, <2>2, <3>2, <3>4
  <2>9. CASE /\ \A l \in used : LetterValues(j.letters, used)[l] \subseteq NoSingularity
             /\ \E l \in used : LetterValues(j.letters, used)[l] \subseteq {Fail}
    <3>1. SampledIn(NoSingularity, letters, used, vs)
      <4> HIDE DEF used, vs
      <4> QED BY <2>5, <2>9 DEF SampledIn
    <3>2. PICK fails \in used : SampledIn({Fail}, letters, {fails}, vs)
      <4> HIDE DEF used, vs
      <4>1. PICK l \in used : LetterValues(j.letters, used)[l] \subseteq {Fail}
        BY <2>9
      <4>2. \A e \in 1 .. EnvCount : \A v \in DOMAIN vs : value(l, v, e) = Fail
        <5> TAKE e \in 1 .. EnvCount
        <5> TAKE v \in DOMAIN vs
        <5>1. value(l, v, e) \in LetterValues(j.letters, used)[l]
          BY <2>5
        <5> HIDE DEF letters
        <5> QED BY <4>1, <5>1
      <4>3. SampledIn({Fail}, letters, {l}, vs)
        BY <4>2 DEF SampledIn
      <4> QED BY <4>3
    <3>3. 1 \in DOMAIN vs /\ 2 \in DOMAIN vs /\ 1 \in 1 .. EnvCount
      <4> HIDE DEF vs
      <4> QED BY <1>2, <1>8 DEF EnvCount
    <3>4. DlogFails(d)
      <4> HIDE DEF used, vs, d
      <4> QED BY <2>6, <2>7, <3>2, <3>3 DEF DlogFails, SampledIn
    <3>5. \A i \in DOMAIN pairs : old[i] = "Eval"
      <4> TAKE i \in DOMAIN pairs
      <4> DEFINE p == pairs[i]
                 vi == p[1]
                 vj == p[2]
      <4>1. p \in VarPairs(Len(vs))
        BY <2>3
      <4>2. vi \in DOMAIN vs /\ vj \in DOMAIN vs
        <5> HIDE DEF p, vs
        <5> QED BY <1>2, <4>1 DEF VarPairs
      <4> HIDE DEF vi, vj, used, vs, letters
      <4>3. PairOutcome(letters, sym, vs, vi, vj) = "Eval"
        BY <1>1, <1>2, <3>1, <3>2, <4>2, ErrorsStop
      <4> HIDE DEF pairs
      <4> QED BY <4>3 DEF vi, vj
    <3>6. DOMAIN old # {} /\ DOMAIN old \subseteq Nat
      <4>1. <<1, 2>> \in VarPairs(Len(vs))
        <5> HIDE DEF vs
        <5> QED BY <1>2, <3>3 DEF VarPairs
      <4>2. DOMAIN pairs # {} /\ DOMAIN pairs \subseteq Nat
        <5> HIDE DEF pairs, vs
        <5> QED BY <2>3, <4>1
      <4> HIDE DEF pairs, vs
      <4> QED BY <4>2
    <3>7. FirstNotTrue(old) = "Eval"
      <4> DEFINE bad == {i \in DOMAIN old : old[i] # "true"}
      <4>1. FirstNotTrue(old) = IF bad = {} THEN "true" ELSE old[Min(bad)]
        BY DEF FirstNotTrue
      <4> HIDE DEF old
      <4>2. \A i \in DOMAIN old : old[i] = "Eval"
        BY <3>5 DEF old
      <4>3. bad = DOMAIN old
        BY <4>2
      <4> HIDE DEF bad
      <4>4. Min(bad) \in bad
        BY <3>6, <4>3, MinIsElement
      <4> QED BY <3>6, <4>1, <4>2, <4>3, <4>4
    <3> HIDE DEF new, old, d
    <3> QED BY <2>1, <2>2, <3>4, <3>7
  <2> QED BY <2>4, <2>8, <2>9 DEF ErrorsComparable
<1> QED BY <1>7, <1>8

\* Up to weight two the general and the older integrability test give one
\* answer, errors included (check_integrable_n in space/mod.rs and
\* check_integrable in integrability.rs), for letters whose errors the two
\* meet at the same place.
THEOREM ChecksGiveOneAnswer == ChecksComparable => (Spec => []ChecksAgree)
<1> SUFFICES ASSUME ChecksComparable PROVE Spec => []ChecksAgree
  OBVIOUS
<1>1. IInv => ChecksAgree
  BY OneAnswer DEF ChecksAgree, IInv, TypeOK
<1> QED BY <1>1, Invariance, PTL

-----------------------------------------------------------------------------
(* check_integrable_n and the basis *)

\* What a returned basis was computed from: nothing to constrain, or the table
\* of all letters.
LaidOut ==
    /\ job \in Jobs /\ words = Words(job) /\ job.weight >= 2
    /\ table = DlogTable(job.letters, AlphabetVars(job.letters)) /\ ~DlogFails(table)

Tabled ==
    \/ table = <<>> /\ (words = <<>> \/ job.weight < 2 \/ VarCount(job) < 2)
    \/ LaidOut /\ VarCount(job) >= 2

TInv ==
    /\ status \in {"sample", "insert"} => VarCount(job) >= 2
    /\ status = "ok" => Tabled

\* No sample was skipped because a letter is singular there.
NoneSkipped == \A t \in Sampled : \A e \in 1 .. EnvCount : SampledRow(table, words, t, e) # None

\* Every step keeps it.
LEMMA StepTInv == IInv /\ SInv /\ TInv /\ [Next]_vars => TInv'
<1> SUFFICES ASSUME IInv, SInv, TInv, [Next]_vars PROVE TInv'
  OBVIOUS
<1>1. ASSUME Refuse PROVE TInv'
  BY <1>1 DEF Refuse, TInv
<1>2. ASSUME BuildUnconstrained PROVE TInv'
  <2>1. status' = "ok" /\ job' = job /\ table' = <<>>
    BY <1>2 DEF BuildUnconstrained, SInv
  <2>2. words' = <<>> \/ job.weight < 2 \/ Len(AlphabetVars(job.letters)) < 2
    BY <1>2 DEF BuildUnconstrained
  <2> QED BY <2>1, <2>2 DEF TInv, Tabled, VarCount
<1>3. ASSUME BuildTable PROVE TInv'
  BY <1>3 DEF BuildTable, TInv, VarCount
<1>4. ASSUME Finish PROVE TInv'
  <2>1. status = "sample" /\ status' = "ok" /\ UNCHANGED <<job, words, table>>
    BY <1>4 DEF Finish
  <2>2. Prepared /\ VarCount(job) >= 2 /\ job \in Jobs
    BY <2>1 DEF IInv, TypeOK, TInv
  <2>3. LaidOut
    BY <2>2 DEF Prepared, LaidOut
  <2>4. LaidOut'
    BY <2>1, <2>3 DEF LaidOut
  <2> QED BY <2>1, <2>2, <2>4 DEF TInv, Tabled, VarCount
<1>5. ASSUME status \in {"sample", "insert"}, status' \in {"sample", "insert", "InsufficientSamples"},
             job' = job
      PROVE  TInv'
  BY <1>5 DEF TInv, VarCount
<1>6. ASSUME Sample \/ Reduce \/ DropRow \/ StoreRow \/ CloseConstraint PROVE TInv'
  BY <1>5, <1>6 DEF Sample, Reduce, DropRow, StoreRow, CloseConstraint
<1>7. ASSUME UNCHANGED vars PROVE TInv'
  <2>1. UNCHANGED <<job, status, words, table>>
    BY <1>7 DEF vars
  <2> QED BY <2>1 DEF TInv, Tabled, LaidOut, VarCount
<1> QED BY <1>1, <1>2, <1>3, <1>4, <1>6, <1>7 DEF Next, Returned

\* The columns, the constraints and the table of such a call.
LEMMA LaidOutTypes ==
    ASSUME LaidOut
    PROVE  /\ job.weight \in Nat /\ VarCount(job) \in Nat
           /\ DOMAIN AlphabetVars(job.letters) = 1 .. VarCount(job)
           /\ Len(words) \in Nat /\ DOMAIN words = Cols /\ IsFiniteSet(Cols)
           /\ words \in [Cols -> [1 .. job.weight -> DOMAIN job.letters]]
           /\ \A a, b \in Cols : words[a] = words[b] => a = b
           /\ Given \subseteq [k : 1 .. job.weight - 1,
                               context : [1 .. job.weight - 2 -> DOMAIN job.letters],
                               vi : 1 .. VarCount(job), vj : 1 .. VarCount(job)]
           /\ DOMAIN table = 1 .. EnvCount
           /\ \A e \in 1 .. EnvCount :
                /\ DOMAIN table[e] = DOMAIN job.letters
                /\ \A l \in DOMAIN job.letters :
                    /\ DOMAIN table[e][l] = 1 .. VarCount(job)
                    /\ \A v \in 1 .. VarCount(job) :
                        /\ table[e][l][v] \in Coeff \cup {None}
                        /\ table[e][l][v] = DlogAt(job.letters[l], AlphabetVars(job.letters)[v],
                                                   Env(AlphabetVars(job.letters), e))
<1> DEFINE nv == VarCount(job)
           L == DOMAIN job.letters
           vs == AlphabetVars(job.letters)
<1>1. nv \in Nat /\ DOMAIN vs = 1 .. nv
  BY AlphabetVarsType DEF VarCount, LaidOut
<1>2. job.weight \in Nat /\ job.weight >= 2
  BY JobsAssumption DEF LaidOut
<1>3. /\ Len(words) \in Nat /\ DOMAIN words = Cols
      /\ words \in [Cols -> [1 .. job.weight -> L]]
      /\ \A a, b \in Cols : words[a] = words[b] => a = b
  BY WordsType DEF LaidOut, Cols
<1>4. IsFiniteSet(Cols)
  <2>1. 1 \in Int /\ Len(words) \in Int
    BY <1>3
  <2> QED BY <2>1, FS_Interval DEF Cols
<1>5. Given \subseteq [k : 1 .. job.weight - 1, context : [1 .. job.weight - 2 -> L],
                       vi : 1 .. nv, vj : 1 .. nv]
  <2> HIDE DEF nv
  <2>1. ConstraintSet(Words(job), nv, job.weight) \subseteq
          [k : 1 .. job.weight - 1, context : [1 .. job.weight - 2 -> L],
           vi : 1 .. nv, vj : 1 .. nv]
    BY <1>1, <1>2, ConstraintsType DEF LaidOut
  <2> QED BY <2>1 DEF Given, LaidOut, nv
<1>6. DOMAIN table = 1 .. EnvCount
  BY DEF DlogTable, LaidOut
<1>7. ASSUME NEW e \in 1 .. EnvCount
      PROVE  /\ DOMAIN table[e] = L
             /\ \A l \in L : /\ DOMAIN table[e][l] = 1 .. nv
                             /\ \A v \in 1 .. nv :
                                  table[e][l][v] = DlogAt(job.letters[l], vs[v], Env(vs, e))
  <2>1. table[e] = [l \in L |-> [v \in DOMAIN vs |-> DlogAt(job.letters[l], vs[v], Env(vs, e))]]
    BY Zenon DEF DlogTable, LaidOut
  <2> HIDE DEF vs, nv
  <2> QED BY <1>1, <2>1
<1>8. ASSUME NEW e \in 1 .. EnvCount, NEW l \in L, NEW v \in 1 .. nv
      PROVE  table[e][l][v] \in Coeff \cup {None}
  <2>1. e \in DOMAIN table /\ l \in DOMAIN table[e] /\ v \in DOMAIN table[e][l]
    BY <1>6, <1>7
  <2>2. table[e][l][v] \in Coeff \cup {None, Fail}
    BY <2>1, JobsAssumption DEF LaidOut
  <2>3. table[e][l][v] # Fail
    BY <2>1 DEF DlogFails, LaidOut
  <2> QED BY <2>2, <2>3
<1> HIDE DEF nv, vs
<1> QED BY <1>1, <1>2, <1>3, <1>4, <1>5, <1>6, <1>7, <1>8 DEF nv, vs

\* The wedge of column c's letters that constraint t asks for.
ColumnWedge(c, t, e) == Wedge(table, e, words[c][t.k], words[c][t.k + 1], t.vi, t.vj)

\* A sampled row holds the wedges of its columns.
LEMMA RowAt ==
    ASSUME LaidOut, NEW t \in Given, NEW e \in 1 .. EnvCount,
           SampledRow(table, words, t, e) # None
    PROVE  LET r == SampledRow(table, words, t, e) IN
           /\ \A c \in Columns(words, t) : /\ ColumnWedge(c, t, e) \in Coeff
                                           /\ At(r, c) = ColumnWedge(c, t, e)
           /\ \A c \in Cols \ Columns(words, t) : At(r, c) = Zero
<1> DEFINE C == Columns(words, t)
           L == DOMAIN job.letters
           nv == VarCount(job)
           wedge == [c \in C |-> ColumnWedge(c, t, e)]
           r == SampledRow(table, words, t, e)
           D == {c \in DOMAIN wedge : wedge[c] # Zero}
<1>1. r = IF \E c \in DOMAIN wedge : wedge[c] = None THEN None ELSE [c \in D |-> wedge[c]]
  BY DEF SampledRow, RestrictValues, Restrict, ColumnWedge
<1>2. \A c \in C : c \in Cols /\ words[c][t.k] \in L /\ words[c][t.k + 1] \in L
  <2>1. job.weight \in Nat /\ t.k \in 1 .. job.weight - 1
    BY LaidOutTypes
  <2>2. t.k \in 1 .. job.weight /\ t.k + 1 \in 1 .. job.weight
    BY <2>1
  <2>3. words \in [Cols -> [1 .. job.weight -> L]] /\ C \subseteq Cols
    BY LaidOutTypes DEF Columns
  <2> QED BY <2>2, <2>3
<1>3. t.vi \in 1 .. nv /\ t.vj \in 1 .. nv
  BY LaidOutTypes
<1>4. (\A c \in C : ColumnWedge(c, t, e) # None) /\ r = [c \in D |-> wedge[c]]
  BY <1>1
<1>5. ASSUME NEW c \in C PROVE ColumnWedge(c, t, e) \in Coeff
  <2> DEFINE a == words[c][t.k]
             b == words[c][t.k + 1]
             q == table[e]
  <2>1. a \in L /\ b \in L
    BY <1>2
  <2>2. /\ e \in DOMAIN table /\ DOMAIN q = L
        /\ \A l \in L : DOMAIN q[l] = 1 .. nv /\ \A v \in 1 .. nv : q[l][v] \in Coeff \cup {None}
    BY LaidOutTypes
  <2> HIDE DEF a, b, L, nv, q
  <2>3. /\ q[a][t.vi] \in Coeff \cup {None} /\ q[b][t.vj] \in Coeff \cup {None}
        /\ q[a][t.vj] \in Coeff \cup {None} /\ q[b][t.vi] \in Coeff \cup {None}
    BY <2>1, <2>2, <1>3
  <2>4. \A x, y, z, u \in Coeff : Minus(Times(x, y), Times(z, u)) \in Coeff
    BY CoeffAssumption
  <2>5. ColumnWedge(c, t, e) =
          IF None \in {q[a][t.vi], q[b][t.vj], q[a][t.vj], q[b][t.vi]} THEN None
          ELSE Minus(Times(q[a][t.vi], q[b][t.vj]), Times(q[a][t.vj], q[b][t.vi]))
    BY DEF ColumnWedge, Wedge, a, b, q
  <2>6. None \notin {q[a][t.vi], q[b][t.vj], q[a][t.vj], q[b][t.vi]}
    BY <1>4, <2>5
  <2>7. q[a][t.vi] \in Coeff /\ q[b][t.vj] \in Coeff /\ q[a][t.vj] \in Coeff /\ q[b][t.vi] \in Coeff
    BY <2>3, <2>6
  <2>8. Minus(Times(q[a][t.vi], q[b][t.vj]), Times(q[a][t.vj], q[b][t.vi])) \in Coeff
    BY <2>4, <2>7, Zenon
  <2> QED BY <2>5, <2>6, <2>8
<1>6. C \subseteq Cols
  BY <1>2
<1> HIDE DEF r, C
<1>7. \A c : At(r, c) = IF c \in D THEN wedge[c] ELSE Zero
  BY <1>4 DEF At
<1> QED BY <1>5, <1>7 DEF r, C

\* A symbol over the columns whose letters have all the variables of the
\* alphabet: check_integrable_n samples it where the basis was sampled.
SameSamples(sym) ==
    /\ NoZeros(sym) /\ DOMAIN sym \subseteq ToSet(words)
    /\ VarsOfLetters(job.letters, LettersIn(DOMAIN sym)) = AlphabetVars(job.letters)

\* The table check_integrable_n builds for such a symbol.
TableOf(sym) ==
    DlogTable([l \in LettersIn(DOMAIN sym) |-> job.letters[l]], AlphabetVars(job.letters))

\* Its entries are those of the basis' table.
LEMMA SameTable ==
    ASSUME LaidOut, NEW sym, SameSamples(sym)
    PROVE  /\ LettersIn(DOMAIN sym) \subseteq DOMAIN job.letters
           /\ \A w \in DOMAIN sym : \A i \in 1 .. job.weight : w[i] \in LettersIn(DOMAIN sym)
           /\ \A e \in 1 .. EnvCount : \A l \in LettersIn(DOMAIN sym) :
                TableOf(sym)[e][l] = table[e][l]
           /\ ~DlogFails(TableOf(sym))
<1> DEFINE used == LettersIn(DOMAIN sym)
           vs == AlphabetVars(job.letters)
           d == TableOf(sym)
<1>1. \A w \in DOMAIN sym : w \in [1 .. job.weight -> DOMAIN job.letters]
  <2>1. words \in [Cols -> [1 .. job.weight -> DOMAIN job.letters]]
    BY LaidOutTypes
  <2> QED BY <2>1 DEF SameSamples, ToSet
<1>2. used = UNION {ToSet(w) : w \in DOMAIN sym}
  BY DEF LettersIn
<1>3. \A w \in DOMAIN sym : ToSet(w) = {w[i] : i \in 1 .. job.weight}
  BY <1>1 DEF ToSet
<1>4. used \subseteq DOMAIN job.letters
  <2> SUFFICES ASSUME NEW w \in DOMAIN sym, NEW l \in ToSet(w)
               PROVE  l \in DOMAIN job.letters
    <3> HIDE DEF used
    <3> QED BY <1>2
  <2>1. PICK i \in 1 .. job.weight : l = w[i]
    BY <1>3
  <2> QED BY <2>1, <1>1
<1>5. \A w \in DOMAIN sym : \A i \in 1 .. job.weight : w[i] \in used
  BY <1>2, <1>3
<1> HIDE DEF used
<1>6. d = [e \in 1 .. EnvCount |-> [l \in used |-> [v \in DOMAIN vs |->
             DlogAt(job.letters[l], vs[v], Env(vs, e))]]]
  BY DEF TableOf, DlogTable, used
<1>7. table = [e \in 1 .. EnvCount |-> [l \in DOMAIN job.letters |-> [v \in DOMAIN vs |->
                 DlogAt(job.letters[l], vs[v], Env(vs, e))]]]
  BY DEF LaidOut, DlogTable
<1> HIDE DEF vs, d
<1>8. \A e \in 1 .. EnvCount : \A l \in used : d[e][l] = table[e][l]
  BY <1>4, <1>6, <1>7
<1>9. ~DlogFails(d)
  <2>1. ~DlogFails(table)
    BY DEF LaidOut
  <2> SUFFICES ASSUME NEW e \in DOMAIN d, NEW l \in DOMAIN d[e], NEW v \in DOMAIN d[e][l]
               PROVE  d[e][l][v] # Fail
    BY DEF DlogFails
  <2>2. e \in 1 .. EnvCount /\ l \in used
    BY <1>6
  <2>3. e \in DOMAIN table /\ l \in DOMAIN table[e] /\ d[e][l] = table[e][l]
    BY <2>2, <1>4, <1>7, <1>8
  <2> QED BY <2>1, <2>3 DEF DlogFails
<1> QED BY <1>4, <1>5, <1>8, <1>9 DEF used, d

\* The sum check_integrable_n forms is the value of the sampled row.
LEMMA TotalIsRowValue ==
    ASSUME LaidOut, NEW sym, SameSamples(sym), NEW t \in Given, NEW e \in 1 .. EnvCount,
           SampledRow(table, words, t, e) # None
    PROVE  /\ Total(sym, DOMAIN sym, TableOf(sym), t, e)
                = RowValue(SampledRow(table, words, t, e), VectorOf(sym), Cols)
           /\ Total(sym, DOMAIN sym, TableOf(sym), t, e) # None
<1> DEFINE r == SampledRow(table, words, t, e)
           v == VectorOf(sym)
           f == [c \in Cols |-> Times(At(r, c), v[c])]
           W == DOMAIN sym
           d == TableOf(sym)
           G == {w \in W : Context(w, t.k) = t.context}
           K == {c \in Cols : words[c] \in G}
           wedge == [w \in G |-> Wedge(d, e, w[t.k], w[t.k + 1], t.vi, t.vj)]
           g == [w \in G |-> Times(sym[w], wedge[w])]
           C == Columns(words, t)
<1>1. /\ Len(words) \in Nat /\ DOMAIN words = Cols /\ IsFiniteSet(Cols)
      /\ \A a, b \in Cols : words[a] = words[b] => a = b
  BY LaidOutTypes
<1>2. /\ \A c \in C : ColumnWedge(c, t, e) \in Coeff /\ At(r, c) = ColumnWedge(c, t, e)
      /\ \A c \in Cols \ C : At(r, c) = Zero
  BY RowAt
<1>3. C = {c \in Cols : Context(words[c], t.k) = t.context}
  BY <1>1 DEF Columns
<1>4. \A c \in Cols : v[c] = IF words[c] \in W THEN sym[words[c]] ELSE Zero
  BY DEF VectorOf, At
<1>5. \A w \in W : sym[w] \in Coeff
  BY DEF SameSamples, NoZeros, NonZero
<1>6. \A w \in W : \E c \in Cols : words[c] = w
  BY <1>1 DEF SameSamples, ToSet
<1>7. \A w \in G : wedge[w] = Wedge(table, e, w[t.k], w[t.k + 1], t.vi, t.vj)
  <2> TAKE w \in G
  <2>1. w[t.k] \in LettersIn(W) /\ w[t.k + 1] \in LettersIn(W)
    <3>1. job.weight \in Nat /\ t.k \in 1 .. job.weight - 1
      BY LaidOutTypes
    <3>2. t.k \in 1 .. job.weight /\ t.k + 1 \in 1 .. job.weight
      BY <3>1
    <3> QED BY <3>2, SameTable
  <2>2. d[e][w[t.k]] = table[e][w[t.k]] /\ d[e][w[t.k + 1]] = table[e][w[t.k + 1]]
    BY <2>1, SameTable
  <2> HIDE DEF d
  <2> QED BY <2>2 DEF Wedge
<1> HIDE DEF r, v, W, d, wedge, C
<1>8. \A c \in K : c \in C /\ wedge[words[c]] = ColumnWedge(c, t, e)
  BY <1>3, <1>7 DEF ColumnWedge
<1>9. \A w \in G : wedge[w] \in Coeff
  BY <1>2, <1>6, <1>8
<1>10. \A c \in Cols : At(r, c) \in Coeff /\ v[c] \in Coeff
  <2>1. Zero \in Coeff
    BY CoeffAssumption
  <2> TAKE c \in Cols
  <2>2. At(r, c) \in Coeff
    BY <2>1, <1>2
  <2>3. v[c] \in Coeff
    BY <2>1, <1>4, <1>5
  <2> QED BY <2>2, <2>3
<1>11. Summable(f, Cols)
  <2>1. \A c \in Cols : At(r, c) \in Coeff /\ v[c] \in Coeff
    BY <1>10
  <2>2. \A c \in Cols : f[c] \in Coeff
    BY <2>1, CoeffAssumption
  <2> HIDE DEF f
  <2> QED BY <1>1, <2>2 DEF Summable
<1>12. \A c \in Cols \ K : f[c] = Zero
  <2> TAKE c \in Cols \ K
  <2>1. At(r, c) \in Coeff /\ v[c] \in Coeff
    BY <1>10
  <2>2. CASE words[c] \in W
    <3>1. c \notin C
      BY <2>2, <1>3
    <3> QED BY <2>1, <3>1, <1>2, TimesZero
  <2>3. CASE words[c] \notin W
    BY <2>1, <2>3, <1>4, TimesZero
  <2> QED BY <2>2, <2>3
<1>13. \A c \in K : g[words[c]] = f[c]
  <2> TAKE c \in K
  <2>1. c \in Cols /\ words[c] \in G /\ words[c] \in W
    OBVIOUS
  <2>2. At(r, c) = wedge[words[c]] /\ v[c] = sym[words[c]]
    BY <2>1, <1>2, <1>4, <1>8
  <2>3. wedge[words[c]] \in Coeff /\ sym[words[c]] \in Coeff
    BY <2>1, <1>5, <1>9
  <2>4. Times(wedge[words[c]], sym[words[c]]) = Times(sym[words[c]], wedge[words[c]])
    BY <2>3, CoeffAssumption
  <2> QED BY <2>1, <2>2, <2>4
<1>14. {words[c] : c \in K} = G
  BY <1>6
<1>15. Sum(f, Cols) = Sum(f, K)
  <2> DEFINE T == K
  <2>1. T \in SUBSET Cols /\ \A c \in Cols \ T : f[c] = Zero
    BY <1>12
  <2> HIDE DEF T, f
  <2>2. Sum(f, Cols) = Sum(f, T)
    BY <2>1, <1>11, SumSupport
  <2> QED BY <2>2 DEF T
<1>16. Sum(f, K) = Sum(g, G)
  <2> DEFINE T == K
  <2>1. Summable(f, T)
    <3>1. T \in SUBSET Cols
      OBVIOUS
    <3> HIDE DEF T, f
    <3> QED BY <1>11, <3>1, SummableParts
  <2>2. \A x, y \in T : words[x] = words[y] => x = y
    BY <1>1
  <2>3. \A x \in T : g[words[x]] = f[x]
    BY <1>13
  <2> HIDE DEF T, f, g
  <2>4. Sum(f, T) = Sum(g, {words[x] : x \in T})
    BY <2>1, <2>2, <2>3, SumReindexed
  <2> QED BY <2>4, <1>14 DEF T
<1>17. RowValue(r, v, Cols) = Sum(f, Cols)
  BY DEF RowValue
<1>18. None \notin Coeff
  BY JobsAssumption
<1>19. Total(sym, W, d, t, e) = Sum(g, G)
  <2>1. Total(sym, W, d, t, e) = IF \E w \in G : wedge[w] = None THEN None ELSE Sum(g, G)
    BY Zenon DEF Total, wedge
  <2>2. ~\E w \in G : wedge[w] = None
    BY <1>9, <1>18
  <2> HIDE DEF G, g
  <2> QED BY <2>1, <2>2
<1>20. Sum(f, Cols) \in Coeff
  <2> HIDE DEF f
  <2> QED BY <1>11, SumType
<1> HIDE DEF f, g, G, K
<1> QED BY <1>15, <1>16, <1>17, <1>18, <1>19, <1>20 DEF r, v, W, d

\* What the first outcome that is not "true" says of all outcomes.
LEMMA FirstOutcome ==
    ASSUME NEW o, DOMAIN o \subseteq Nat
    PROVE  /\ FirstNotTrue(o) = "true" => \A i \in DOMAIN o : o[i] = "true"
           /\ FirstNotTrue(o) = "false" => \E i \in DOMAIN o : o[i] = "false"
<1> DEFINE bad == {i \in DOMAIN o : o[i] # "true"}
<1>1. FirstNotTrue(o) = IF bad = {} THEN "true" ELSE o[Min(bad)]
  BY DEF FirstNotTrue
<1>2. bad # {} => Min(bad) \in bad
  <2>1. bad \subseteq Nat
    OBVIOUS
  <2> HIDE DEF bad
  <2> QED BY <2>1, MinIsElement
<1> QED BY <1>1, <1>2

\* A symbol of one weight has one check.
LEMMA CheckOfOneWeight ==
    ASSUME NEW n \in Nat, NEW letters, NEW sym, \A w \in DOMAIN sym : Len(w) = n
    PROVE  CheckIntegrableN(letters, sym) =
              IF DOMAIN sym = {} THEN "true" ELSE CheckWeight(letters, sym, DOMAIN sym, n)
<1> DEFINE W == DOMAIN sym
           S == {Len(w) : w \in DOMAIN sym} \cup {0}
           top == Max(S)
           check(m) == CheckWeight(letters, sym, WordsOfWeight(sym, m), m)
           answers == [m \in 1 .. top |-> check(m)]
           bad == {m \in DOMAIN answers : answers[m] # "true"}
<1>1. S = IF W = {} THEN {0} ELSE {0, n}
  OBVIOUS
<1>2. top = IF W = {} THEN 0 ELSE n
  <2>1. top = CHOOSE x \in S : \A m \in S : x >= m
    BY DEF Max
  <2>2. \E x \in S : \A m \in S : x >= m
    <3> HIDE DEF S
    <3>1. CASE W = {}
      BY <1>1, <3>1
    <3>2. CASE W # {}
      BY <1>1, <3>2
    <3> QED BY <3>1, <3>2
  <2>3. top \in S /\ \A m \in S : top >= m
    <3> HIDE DEF S, top
    <3> QED BY <2>1, <2>2
  <2> HIDE DEF S, top
  <2> QED BY <1>1, <2>3
<1>3. CheckIntegrableN(letters, sym) = IF bad = {} THEN "true" ELSE answers[Min(bad)]
  BY Zenon DEF CheckIntegrableN, FirstNotTrue
<1>4. \A m : WordsOfWeight(sym, m) = IF m = n THEN W ELSE {}
  BY DEF WordsOfWeight
<1>5. \A m : m # n => check(m) = "true"
  <2> TAKE m
  <2> SUFFICES ASSUME m # n PROVE check(m) = "true"
    OBVIOUS
  <2>1. WordsOfWeight(sym, m) = {}
    BY <1>4
  <2>2. CheckWeight(letters, sym, {}, m) = "true"
    BY DEF CheckWeight
  <2> QED BY <2>1, <2>2, Zenon
<1>6. check(n) = CheckWeight(letters, sym, W, n)
  BY <1>4, Zenon
<1> HIDE DEF S, top, check
<1>7. bad \subseteq {n}
  BY <1>5
<1>8. bad # {} => bad = {n} /\ Min(bad) = n
  <2>1. Min({n}) = n
    BY DEF Min
  <2> HIDE DEF bad
  <2> QED BY <1>7, <2>1
<1>9. CASE W = {}
  <2>1. DOMAIN answers = {}
    BY <1>2, <1>9
  <2> HIDE DEF answers
  <2> QED BY <1>3, <1>9, <2>1
<1>10. CASE W # {} /\ n \in 1 .. top
  <2>1. answers[n] = check(n)
    BY <1>10
  <2>2. n \in bad <=> check(n) # "true"
    BY <1>10
  <2> HIDE DEF answers, bad
  <2> QED BY <1>3, <1>6, <1>8, <1>10, <2>1, <2>2
<1>11. CASE W # {} /\ n \notin 1 .. top
  <2>1. n <= 1
    BY <1>2, <1>11
  <2>2. CheckWeight(letters, sym, W, n) = "true"
    BY <2>1 DEF CheckWeight
  <2>3. bad = {}
    BY <1>7, <1>11
  <2> HIDE DEF answers, bad
  <2> QED BY <1>3, <1>11, <2>2, <2>3
<1> QED BY <1>9, <1>10, <1>11

\* The constraints check_integrable_n goes through for such a symbol.
ConstraintsOf(sym) ==
    Constraints(Ascending(DOMAIN sym, LexLess), VarCount(job), job.weight)

\* They are those of the basis whose context is the rest of one of its words.
LEMMA ConstraintsOfSymbol ==
    ASSUME LaidOut, NEW sym, SameSamples(sym)
    PROVE  /\ DOMAIN ConstraintsOf(sym) \subseteq Nat
           /\ \A i \in DOMAIN ConstraintsOf(sym) : ConstraintsOf(sym)[i] \in Given
           /\ \A t \in Given : \A w \in DOMAIN sym : Context(w, t.k) = t.context =>
                \E i \in DOMAIN ConstraintsOf(sym) : ConstraintsOf(sym)[i] = t
<1> DEFINE n == job.weight
           nv == VarCount(job)
           L == DOMAIN job.letters
           W == DOMAIN sym
           ws == Ascending(W, LexLess)
           S == ConstraintSet(ws, nv, n)
           ts == Constraints(ws, nv, n)
<1>1. /\ n \in Nat /\ n >= 2 /\ nv \in Nat
      /\ DOMAIN words = Cols /\ IsFiniteSet(Cols) /\ words \in [Cols -> [1 .. n -> L]]
  BY LaidOutTypes DEF LaidOut
<1>2. L \subseteq Int /\ IsFiniteSet(L)
  <2>1. Len(job.letters) \in Nat /\ L = 1 .. Len(job.letters)
    BY JobsAssumption DEF LaidOut
  <2>2. 1 \in Int /\ Len(job.letters) \in Int
    BY <2>1
  <2>3. IsFiniteSet(L)
    BY <2>1, <2>2, FS_Interval
  <2> QED BY <2>1, <2>3
<1>3. \A w \in W : \E c \in Cols : words[c] = w
  BY <1>1 DEF SameSamples, ToSet
<1>4. W \in SUBSET [1 .. n -> Int] /\ IsFiniteSet(W)
  <2>1. \A w \in W : w \in [1 .. n -> L]
    BY <1>1, <1>3
  <2>2. \A w \in [1 .. n -> L] : w \in [1 .. n -> Int]
    BY <1>2
  <2> DEFINE R == {words[c] : c \in Cols}
  <2>3. IsFiniteSet(R)
    <3>1. words \in Surjection(Cols, R)
      BY <1>1 DEF Surjection
    <3> HIDE DEF R
    <3> QED BY <1>1, <3>1, FS_Surjection
  <2>4. W \subseteq R
    BY <1>3
  <2>5. IsFiniteSet(W)
    <3> HIDE DEF R, W
    <3> QED BY <2>3, <2>4, FS_Subset
  <2> QED BY <2>1, <2>2, <2>5
<1>5. (\A i \in DOMAIN ws : ws[i] \in W) /\ {ws[i] : i \in DOMAIN ws} = W
  <2> HIDE DEF W, n
  <2> QED BY <1>1, <1>4, AscendingWords
<1> HIDE DEF W, ws, n, nv, L
<1>6. WordsAre(ws, n, L)
  <2>1. \A c \in DOMAIN ws : ws[c] \in [1 .. n -> L]
    BY <1>1, <1>3, <1>5
  <2> QED BY <1>1, <1>2, <2>1 DEF WordsAre
<1>7. ConstraintsNamed(ws, nv, n, L)
  BY <1>1, <1>6, ConstraintsOfWords
<1>8. DOMAIN ts \subseteq Nat /\ \A i \in DOMAIN ts : ts[i] \in S
  <2>1. ts \in Seq(S)
    BY <1>7 DEF ConstraintsNamed
  <2> HIDE DEF S, ts
  <2> QED BY <2>1
<1>9. Given = ConstraintSet(words, nv, n)
  BY DEF Given, nv, n
<1>10. ASSUME NEW t \in S PROVE t \in Given
  <2>1. PICK k \in 1 .. n - 1, c \in DOMAIN ws, vi \in 1 .. nv, vj \in 1 .. nv :
          t = [k |-> k, context |-> Context(ws[c], k), vi |-> vi, vj |-> vj] /\ t.vi < t.vj
    BY DEF ConstraintSet
  <2>2. PICK b \in Cols : words[b] = ws[c]
    BY <1>3, <1>5
  <2>3. b \in DOMAIN words /\ t = [k |-> k, context |-> Context(words[b], k), vi |-> vi, vj |-> vj]
    BY <1>1, <2>1, <2>2
  <2> QED BY <1>9, <2>1, <2>3 DEF ConstraintSet
<1>11. ASSUME NEW t \in Given, NEW w \in W, Context(w, t.k) = t.context
       PROVE  \E i \in DOMAIN ts : ts[i] = t
  <2>1. PICK k \in 1 .. n - 1, c \in DOMAIN words, vi \in 1 .. nv, vj \in 1 .. nv :
          t = [k |-> k, context |-> Context(words[c], k), vi |-> vi, vj |-> vj] /\ t.vi < t.vj
    BY <1>9 DEF ConstraintSet
  <2>2. PICK b \in DOMAIN ws : ws[b] = w
    BY <1>5
  <2>3. t = [k |-> k, context |-> Context(ws[b], k), vi |-> vi, vj |-> vj]
    BY <1>11, <2>1, <2>2
  <2>4. t \in S
    BY <2>1, <2>3 DEF ConstraintSet
  <2> HIDE DEF S, ts
  <2>5. \A s \in S : \E i \in DOMAIN ts : ts[i] = s
    BY <1>7 DEF ConstraintsNamed, S, ts
  <2> QED BY <2>4, <2>5
<1> HIDE DEF S
<1> QED BY <1>8, <1>10, <1>11 DEF ConstraintsOf, ts, ws, W, nv, n

\* The direct test answers by the samples the basis was built from.
LEMMA AnswerBySamples ==
    ASSUME LaidOut, VarCount(job) >= 2, NEW sym, SameSamples(sym)
    PROVE  LET answer == CheckIntegrableN(job.letters, sym)
               kills == \A t \in Given : \A e \in 1 .. EnvCount : SampleKills(VectorOf(sym), t, e)
           IN  /\ answer = "true" => kills
               /\ kills /\ (\A t \in Given : \A e \in 1 .. EnvCount :
                               SampledRow(table, words, t, e) # None)
                    => answer # "false"
<1> DEFINE n == job.weight
           letters == job.letters
           W == DOMAIN sym
           d == TableOf(sym)
           ts == ConstraintsOf(sym)
           outcomes == [i \in DOMAIN ts |-> Outcome(sym, W, d, ts[i])]
           answer == CheckIntegrableN(letters, sym)
           total(t, e) == Total(sym, W, d, t, e)
           value(t, e) == RowValue(SampledRow(table, words, t, e), VectorOf(sym), Cols)
<1>1. n \in Nat /\ n >= 2 /\ \A w \in W : Len(w) = n
  <2>1. n \in Nat /\ n >= 2 /\ DOMAIN words = Cols /\ words \in [Cols -> [1 .. n -> DOMAIN letters]]
    BY LaidOutTypes DEF LaidOut
  <2>2. \A w \in W : \E c \in Cols : words[c] = w
    BY <2>1 DEF SameSamples, ToSet
  <2>3. \A w \in [1 .. n -> DOMAIN letters] : Len(w) = n
    BY <2>1
  <2> QED BY <2>1, <2>2, <2>3
<1>2. answer = IF W = {} THEN "true" ELSE CheckWeight(letters, sym, W, n)
  <2> HIDE DEF n, letters
  <2> QED BY <1>1, CheckOfOneWeight
<1>3. CheckWeight(letters, sym, W, n) =
        IF n <= 1 \/ W = {} \/ VarCount(job) < 2 THEN "true"
        ELSE IF DlogFails(d) THEN "Eval" ELSE FirstNotTrue(outcomes)
  <2>1. VarsOfLetters(letters, LettersIn(W)) = AlphabetVars(letters)
    BY DEF SameSamples
  <2> DEFINE vv == VarsOfLetters(letters, LettersIn(W))
             dd == DlogTable([l \in LettersIn(W) |-> letters[l]], vv)
             tt == Constraints(Ascending(W, LexLess), Len(vv), n)
  <2>2. CheckWeight(letters, sym, W, n) =
          IF n <= 1 \/ W = {} \/ Len(vv) < 2 THEN "true"
          ELSE IF DlogFails(dd) THEN "Eval"
          ELSE FirstNotTrue([i \in DOMAIN tt |-> Outcome(sym, W, dd, tt[i])])
    BY Zenon DEF CheckWeight
  <2>3. vv = AlphabetVars(letters) /\ Len(vv) = VarCount(job)
    BY <2>1 DEF VarCount
  <2>4. dd = d
    BY <2>3 DEF TableOf
  <2>5. tt = ts
    BY <2>3 DEF ConstraintsOf
  <2> HIDE DEF vv, dd, tt, ts, d, n
  <2> QED BY <2>2, <2>3, <2>4, <2>5
<1>4. ~DlogFails(d)
  BY SameTable
<1>5. W # {} => answer = FirstNotTrue(outcomes)
  <2>1. VarCount(job) \in Nat
    BY LaidOutTypes
  <2> HIDE DEF answer, outcomes, W, n, d
  <2> QED BY <1>1, <1>2, <1>3, <1>4, <2>1
<1>6. /\ DOMAIN ts \subseteq Nat /\ \A i \in DOMAIN ts : ts[i] \in Given
      /\ \A t \in Given : \A w \in W : Context(w, t.k) = t.context => \E i \in DOMAIN ts : ts[i] = t
  BY ConstraintsOfSymbol
<1>7. ASSUME NEW t \in Given, NEW e \in 1 .. EnvCount, SampledRow(table, words, t, e) # None
      PROVE  total(t, e) = value(t, e) /\ total(t, e) # None
  BY <1>7, TotalIsRowValue
<1>8. \A t : LET all == [e \in 1 .. EnvCount |-> total(t, e)]
                 sampled == {e \in 1 .. EnvCount : all[e] # None}
             IN  Outcome(sym, W, d, t) =
                   CASE \E e \in sampled : all[e] # Zero -> "false"
                     [] \A e \in sampled : all[e] = Zero ->
                          IF Cardinality(sampled) < MinValid THEN "InsufficientSamples" ELSE "true"
  BY DEF Outcome
<1>9. ASSUME NEW t, Outcome(sym, W, d, t) = "true", NEW e \in 1 .. EnvCount, total(t, e) # None
      PROVE  total(t, e) = Zero
  <2> HIDE DEF total
  <2> QED BY <1>8, <1>9
<1>10. ASSUME NEW t, \A e \in 1 .. EnvCount : total(t, e) = Zero
       PROVE  Outcome(sym, W, d, t) # "false"
  <2> HIDE DEF total
  <2> QED BY <1>8, <1>10
<1>11. ASSUME answer = "true", NEW t \in Given, NEW e \in 1 .. EnvCount,
              SampledRow(table, words, t, e) # None
       PROVE  value(t, e) = Zero
  <2>1. CASE \E w \in W : Context(w, t.k) = t.context
    <3>1. PICK i \in DOMAIN ts : ts[i] = t
      BY <1>6, <2>1
    <3>2. outcomes[i] = "true"
      <4>1. DOMAIN outcomes \subseteq Nat /\ FirstNotTrue(outcomes) = "true"
        BY <1>5, <1>6, <1>11, <2>1
      <4> HIDE DEF outcomes
      <4>2. \A k \in DOMAIN outcomes : outcomes[k] = "true"
        BY <4>1, FirstOutcome
      <4> QED BY <4>2 DEF outcomes
    <3>3. Outcome(sym, W, d, t) = "true"
      BY <3>1, <3>2
    <3> HIDE DEF total, value
    <3> QED BY <1>7, <1>9, <1>11, <3>3
  <2>2. CASE ~\E w \in W : Context(w, t.k) = t.context
    <3> DEFINE G == {w \in W : Context(w, t.k) = t.context}
               wedge == [w \in G |-> Wedge(d, e, w[t.k], w[t.k + 1], t.vi, t.vj)]
               g == [w \in G |-> Times(sym[w], wedge[w])]
    <3>1. total(t, e) = IF \E w \in G : wedge[w] = None THEN None ELSE Sum(g, G)
      BY Zenon DEF Total
    <3>2. G = {}
      BY <2>2
    <3> HIDE DEF G, g, total
    <3>3. total(t, e) = Sum(g, {})
      BY <3>1, <3>2
    <3> QED BY <3>3, <1>7, <1>11, SumEmpty DEF total
  <2> QED BY <2>1, <2>2
<1>12. ASSUME \A t \in Given : \A e \in 1 .. EnvCount : SampleKills(VectorOf(sym), t, e),
              \A t \in Given : \A e \in 1 .. EnvCount : SampledRow(table, words, t, e) # None,
              answer = "false"
       PROVE  FALSE
  <2>1. W # {}
    BY <1>2, <1>12
  <2>2. DOMAIN outcomes \subseteq Nat /\ FirstNotTrue(outcomes) = "false"
    BY <1>5, <1>6, <1>12, <2>1
  <2>3. PICK i \in DOMAIN outcomes : outcomes[i] = "false"
    <3> HIDE DEF outcomes
    <3> QED BY <2>2, FirstOutcome
  <2>4. ts[i] \in Given /\ Outcome(sym, W, d, ts[i]) = "false"
    BY <1>6, <2>3
  <2>5. \A e \in 1 .. EnvCount : total(ts[i], e) = Zero
    <3> TAKE e \in 1 .. EnvCount
    <3>1. SampleKills(VectorOf(sym), ts[i], e) /\ SampledRow(table, words, ts[i], e) # None
      BY <1>12, <2>4
    <3>2. value(ts[i], e) = Zero
      BY <3>1 DEF SampleKills, Kills
    <3> HIDE DEF total, value, ts
    <3> QED BY <1>7, <2>4, <3>1, <3>2
  <2> QED BY <1>10, <2>4, <2>5
<1>13. answer = "true" =>
         \A t \in Given : \A e \in 1 .. EnvCount : SampleKills(VectorOf(sym), t, e)
  BY <1>11 DEF SampleKills, Kills
<1> HIDE DEF answer
<1> QED BY <1>12, <1>13 DEF answer, letters

\* For a symbol over the columns that has all the variables, check_integrable_n
\* accepts only what reduce_to_basis reduces without residual, and, unless a
\* singular letter made the basis skip a sample, refuses nothing that it does.
CheckAnswersBasis ==
    status = "ok" =>
        \A sym \in Asked :
            /\ DOMAIN sym = WordsOfWeight(sym, BasisWeight)
            /\ VarsOfLetters(job.letters, LettersIn(DOMAIN sym)) = AlphabetVars(job.letters)
            => LET answer == CheckIntegrableN(job.letters, sym)
               IN  /\ answer = "true" => DOMAIN Residual(sym) = {}
                   /\ DOMAIN Residual(sym) = {} /\ NoneSkipped => answer # "false"

\* In a basis with nothing to constrain no symbol leaves a residual, and the
\* direct test refuses none.
LEMMA UnconstrainedAnswer ==
    ASSUME job \in Jobs, Solved, table = <<>>,
           words = <<>> \/ job.weight < 2 \/ VarCount(job) < 2,
           NEW sym \in Asked, SameSamples(sym), DOMAIN sym = WordsOfWeight(sym, BasisWeight)
    PROVE  CheckIntegrableN(job.letters, sym) = "true" /\ DOMAIN Residual(sym) = {}
<1> DEFINE n == job.weight
           W == DOMAIN sym
<1>1. SampledRows = {}
  BY DEF SampledRows, Sampled
<1>2. DOMAIN Residual(sym) = {}
  BY <1>1, SolvedNullSpaceExact
<1>3. n \in Nat
  BY JobsAssumption
<1>4. words = Words(job) /\ DOMAIN words = Cols /\ Cols = 1 .. Len(words)
  BY SolvedColumns DEF Solved, Cols
<1>5. \A w \in W : \E c \in DOMAIN words : words[c] = w
  BY DEF SameSamples, ToSet
<1>6. \A w \in W : Len(w) = n
  <2>1. words \in [DOMAIN words -> [1 .. n -> DOMAIN job.letters]]
    BY <1>4, WordsType
  <2>2. \A w \in [1 .. n -> DOMAIN job.letters] : Len(w) = n
    BY <1>3
  <2> QED BY <1>5, <2>1, <2>2
<1>7. CheckIntegrableN(job.letters, sym) =
        IF W = {} THEN "true" ELSE CheckWeight(job.letters, sym, W, n)
  <2> HIDE DEF n
  <2> QED BY <1>3, <1>6, CheckOfOneWeight
<1>8. CASE words = <<>>
  <2>1. W = {}
    BY <1>5, <1>8
  <2> QED BY <1>2, <1>7, <2>1
<1>9. CASE n < 2 \/ VarCount(job) < 2
  <2>1. n <= 1 \/ Len(VarsOfLetters(job.letters, LettersIn(W))) < 2
    BY <1>3, <1>9 DEF SameSamples, VarCount
  <2>2. CheckWeight(job.letters, sym, W, n) = "true"
    <3> HIDE DEF n, W
    <3> QED BY <2>1 DEF CheckWeight
  <2> QED BY <1>2, <1>7, <2>2
<1> QED BY <1>8, <1>9

\* In the other bases its samples are the rows of the elimination.
LEMMA ConstrainedAnswer ==
    ASSUME job \in Jobs, Solved, LaidOut, VarCount(job) >= 2,
           NEW sym \in Asked, SameSamples(sym), DOMAIN sym = WordsOfWeight(sym, BasisWeight)
    PROVE  LET answer == CheckIntegrableN(job.letters, sym)
           IN  /\ answer = "true" => DOMAIN Residual(sym) = {}
               /\ DOMAIN Residual(sym) = {} /\ NoneSkipped => answer # "false"
<1> DEFINE kills == \A t \in Given : \A e \in 1 .. EnvCount : SampleKills(VectorOf(sym), t, e)
           whole == \A t \in Given : \A e \in 1 .. EnvCount : SampledRow(table, words, t, e) # None
           answer == CheckIntegrableN(job.letters, sym)
<1>1. Sampled = Given
  <2>1. table # <<>>
    <3>1. DOMAIN table = 1 .. EnvCount /\ 1 \in 1 .. EnvCount
      BY LaidOutTypes DEF EnvCount
    <3>2. DOMAIN <<>> = {}
      OBVIOUS
    <3>3. DOMAIN table # {}
      <4> HIDE DEF kills, whole, answer
      <4> QED BY <3>1
    <3> QED BY <3>2, <3>3, Zenon
  <2> QED BY <2>1 DEF Sampled, Given, VarCount
<1>2. SampledRows = {SampledRow(table, words, t, e) : t \in Given, e \in 1 .. EnvCount} \ {None}
  BY <1>1 DEF SampledRows
<1>3. kills <=> \A r \in SampledRows : Kills(r, VectorOf(sym), Cols)
  BY <1>2 DEF SampleKills
<1>4. \A r \in SampledRows : Annihilates(r, sym) <=> Kills(r, VectorOf(sym), Cols)
  <2>1. NoZeros(sym)
    BY DEF SameSamples
  <2> QED BY <2>1, AnnihilatesVector
<1>5. DOMAIN Residual(sym) = {} <=> \A r \in SampledRows : Annihilates(r, sym)
  BY SolvedNullSpaceExact
<1>6. DOMAIN Residual(sym) = {} <=> kills
  <2> HIDE DEF kills
  <2> QED BY <1>3, <1>4, <1>5
<1>7. NoneSkipped <=> whole
  BY <1>1 DEF NoneSkipped
<1>8. (answer = "true" => kills) /\ (kills /\ whole => answer # "false")
  BY AnswerBySamples
<1> HIDE DEF kills, whole
<1> QED BY <1>6, <1>7, <1>8

\* check_integrable_n (space/mod.rs) and reduce_to_basis give compatible answers
\* about such a symbol: the one tests the symbol at the sample points, the
\* other compares it with a basis eliminated from the same samples.
THEOREM CheckSamplesTheBasis == Spec => []CheckAnswersBasis
<1>1. Init => TInv
  BY DEF Init, TInv
<1>2. IInv /\ KInv /\ TInv => CheckAnswersBasis
  <2> SUFFICES ASSUME IInv, KInv, TInv, status = "ok", NEW sym \in Asked,
                      DOMAIN sym = WordsOfWeight(sym, BasisWeight),
                      VarsOfLetters(job.letters, LettersIn(DOMAIN sym)) = AlphabetVars(job.letters)
               PROVE  LET answer == CheckIntegrableN(job.letters, sym)
                      IN  /\ answer = "true" => DOMAIN Residual(sym) = {}
                          /\ DOMAIN Residual(sym) = {} /\ NoneSkipped => answer # "false"
    BY DEF CheckAnswersBasis
  <2>1. job \in Jobs /\ Solved /\ Tabled
    BY DEF IInv, TypeOK, KInv, TInv
  <2>2. NoZeros(sym) /\ DOMAIN sym \subseteq ToSet(words)
    BY <2>1, AskedType
  <2>3. SameSamples(sym)
    BY <2>2 DEF SameSamples
  <2>4. CASE LaidOut /\ VarCount(job) >= 2
    BY <2>1, <2>3, <2>4, ConstrainedAnswer
  <2>5. CASE table = <<>> /\ (words = <<>> \/ job.weight < 2 \/ VarCount(job) < 2)
    BY <2>1, <2>3, <2>5, UnconstrainedAnswer
  <2> QED BY <2>1, <2>4, <2>5 DEF Tabled
<1>3. Spec => []TInv
  <2>1. Spec => []SInv
    BY InitIInv, InitSInv, StepIInv, StepSInv, PTL DEF Spec
  <2> QED BY <1>1, <2>1, StepTInv, Invariance, PTL DEF Spec
<1> QED BY <1>2, <1>3, Invariance, KernelKept, PTL
=============================================================================
