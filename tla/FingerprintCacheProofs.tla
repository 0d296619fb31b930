------------------------ MODULE FingerprintCacheProofs ------------------------
(***************************************************************************)
(* fingerprint_expr on a shared cache, for any number of threads, calls,   *)
(* expressions and configurations: the types, one Arc per expression, and, *)
(* provided that the hash tells the alphabets of the requests apart, that  *)
(* it implements FingerprintService.                                       *)
(***************************************************************************)
EXTENDS FingerprintCache, NaturalLemmas, FiniteSetTheorems

\* What TypeOK does not say of the variables of the threads.
PerThread ==
    /\ key = [t \in Threads |-> key[t]]
    /\ rest = [t \in Threads |-> rest[t]]
    /\ fuel = [t \in Threads |-> fuel[t]]

\* The inductive invariant: InternedOnce holds step by step because an entry of
\* the interner is never replaced, and a thread leaves the two intern steps
\* only with the Arc that is there at the time.
IInv == TypeOK /\ PerThread /\ InternedOnce

\* The fuel of a call is a number.
LEMMA FuelIsNat ==
    ASSUME NEW t \in Threads, call[t] \in Requests
    PROVE  Cfg(t).fuel \in Nat
BY RequestAssumption DEF Cfg

LEMMA InitIInv == Init => IInv
<1> SUFFICES ASSUME Init PROVE IInv
  OBVIOUS
<1>1. PerThread
  BY DEF Init, PerThread
<1>2. TypeOK
  BY MaxCallsAssumption DEF Init, TypeOK, At
<1>3. InternedOnce
  BY DEF Init, InternedOnce, At, Keyed
<1> QED BY <1>1, <1>2, <1>3 DEF IInv

\* The steps that neither begin a call nor touch the interner: the thread stays
\* where its key is held, or returns.
LEMMA KeyedStep ==
    ASSUME IInv, NEW t \in Threads, NEW where \in Keyed \cup {"idle"},
           pc[t] \in Keyed, Goto(t, where),
           UNCHANGED <<interner, call, calls, key>>,
           rest' = [u \in Threads |-> rest'[u]], fuel' = [u \in Threads |-> fuel'[u]],
           \A u \in Threads \ {t} : rest'[u] = rest[u],
           \A u \in Threads : fuel'[u] \in Nat,
           where = "build" => rest'[t] # {}
    PROVE  IInv'
<1>1. pc \in [Threads -> {"idle", "intern", "internWrite"} \cup Keyed]
  BY DEF IInv, TypeOK
<1>2. pc' = [pc EXCEPT ![t] = where]
  BY DEF Goto
<1>3. TypeOK'
  <2>1. pc' \in [Threads -> {"idle", "intern", "internWrite"} \cup Keyed]
    BY <1>1, <1>2
  <2>2. \A u \in Threads : ~At(u, "idle")' => call'[u] \in Requests
    BY <1>1, <1>2 DEF IInv, TypeOK, At, Keyed
  <2>3. \A u \in Threads : At(u, "build")' => rest'[u] # {}
    BY <1>1, <1>2 DEF IInv, TypeOK, At
  <2> QED BY <2>1, <2>2, <2>3 DEF IInv, TypeOK
<1>4. PerThread'
  BY DEF IInv, PerThread
<1>5. InternedOnce'
  BY <1>1, <1>2 DEF IInv, TypeOK, InternedOnce, At, Keyed, Expr
<1> QED BY <1>3, <1>4, <1>5 DEF IInv

\* A computation that ends gives up what it was weighing.
LEMMA EndStep ==
    ASSUME IInv, NEW t \in Threads, NEW fp, pc[t] \in Keyed, End(t, fp),
           UNCHANGED <<interner, call, calls, key>>
    PROVE  IInv'
<1>1. Goto(t, "store")
  BY DEF End
<1>2. /\ rest' = [u \in Threads |-> rest'[u]]
      /\ \A u \in Threads \ {t} : rest'[u] = rest[u]
  BY DEF End, IInv, PerThread
<1>3. /\ fuel' = [u \in Threads |-> fuel'[u]]
      /\ \A u \in Threads : fuel'[u] \in Nat
  BY DEF End, IInv, PerThread, TypeOK
<1> QED BY <1>1, <1>2, <1>3, KeyedStep DEF Keyed

\* A computation that has its symbol starts with the fuel of its call.
LEMMA StartStep ==
    ASSUME IInv, NEW t \in Threads, NEW s, pc[t] \in Keyed, Start(t, s),
           UNCHANGED <<interner, call, calls, key>>
    PROVE  IInv'
<1>1. Goto(t, "weights")
  BY DEF Start
<1>2. /\ rest' = [u \in Threads |-> rest'[u]]
      /\ \A u \in Threads \ {t} : rest'[u] = rest[u]
  BY DEF Start, IInv, PerThread
<1>3. call[t] \in Requests
  BY DEF IInv, TypeOK, At, Keyed
<1>4. /\ fuel' = [u \in Threads |-> fuel'[u]]
      /\ \A u \in Threads : fuel'[u] \in Nat
  <2>1. Cfg(t).fuel \in Nat
    BY <1>3, FuelIsNat
  <2> QED BY <2>1 DEF Start, IInv, PerThread, TypeOK
<1> QED BY <1>1, <1>2, <1>4, KeyedStep DEF Keyed

\* A weight that is done is taken off the list.
LEMMA WeighedStep ==
    ASSUME IInv, NEW t \in Threads, NEW wf, pc[t] \in Keyed, Weighed(t, wf),
           UNCHANGED <<interner, call, calls, key>>,
           fuel' = [u \in Threads |-> fuel'[u]], \A u \in Threads : fuel'[u] \in Nat
    PROVE  IInv'
<1>1. Goto(t, "weights")
  BY DEF Weighed
<1>2. /\ rest' = [u \in Threads |-> rest'[u]]
      /\ \A u \in Threads \ {t} : rest'[u] = rest[u]
  BY DEF Weighed, IInv, PerThread
<1> QED BY <1>1, <1>2, KeyedStep DEF Keyed

LEMMA CallKeeps == ASSUME IInv, NEW t \in Threads, Call(t) PROVE IInv'
<1>1. PICK r \in Requests : call' = [call EXCEPT ![t] = r]
  BY DEF Call
<1>2. pc' = [pc EXCEPT ![t] = "intern"] /\ calls' = [calls EXCEPT ![t] = @ + 1]
  BY DEF Call, Goto
<1>3. TypeOK'
  <2>1. calls' \in [Threads -> 0 .. MaxCalls]
    BY <1>2, MaxCallsAssumption DEF Call, IInv, TypeOK
  <2>2. \A u \in Threads : (~At(u, "idle"))' => call'[u] \in Requests
    BY <1>1, <1>2 DEF IInv, TypeOK, At
  <2>3. \A u \in Threads : At(u, "build")' => rest'[u] # {}
    BY <1>2 DEF Call, weighing, IInv, TypeOK, At
  <2> QED BY <1>1, <1>2, <2>1, <2>2, <2>3 DEF Call, weighing, IInv, TypeOK
<1>4. PerThread'
  BY DEF Call, weighing, IInv, PerThread
<1>5. InternedOnce'
  BY <1>1, <1>2 DEF Call, caches, IInv, TypeOK, InternedOnce, At, Keyed, Expr
<1> QED BY <1>3, <1>4, <1>5 DEF IInv

\* The steps of intern: the thread gets the entry that is there now.
LEMMA InternReadKeeps == ASSUME IInv, NEW t \in Threads, InternRead(t) PROVE IInv'
<1>1. PICK where \in {"lookup", "internWrite"} :
          /\ pc' = [pc EXCEPT ![t] = where]
          /\ where = "lookup" =>
                Expr(t) \in DOMAIN interner /\ key' = [key EXCEPT ![t] = interner[Expr(t)]]
          /\ where = "internWrite" => key' = key
  BY DEF InternRead, Goto
<1>2. TypeOK'
  BY <1>1 DEF InternRead, weighing, IInv, TypeOK, At, Keyed
<1>3. PerThread'
  BY <1>1 DEF InternRead, weighing, IInv, PerThread
<1>4. InternedOnce'
  BY <1>1 DEF InternRead, caches, IInv, TypeOK, PerThread, InternedOnce, At, Keyed, Expr
<1> QED BY <1>2, <1>3, <1>4 DEF IInv

LEMMA InternWriteKeeps == ASSUME IInv, NEW t \in Threads, InternWrite(t) PROVE IInv'
<1>1. pc' = [pc EXCEPT ![t] = "lookup"] /\ key' = [key EXCEPT ![t] = interner'[Expr(t)]]
  BY DEF InternWrite, Goto
<1>2. /\ Expr(t) \in DOMAIN interner'
      /\ \A e \in DOMAIN interner : e \in DOMAIN interner' /\ interner'[e] = interner[e]
  BY DEF InternWrite, Put
<1>3. TypeOK'
  BY <1>1 DEF InternWrite, weighing, IInv, TypeOK, At, Keyed
<1>4. PerThread'
  BY <1>1 DEF InternWrite, weighing, IInv, PerThread
<1>5. InternedOnce'
  BY <1>1, <1>2 DEF InternWrite, IInv, TypeOK, PerThread, InternedOnce, At, Keyed, Expr
<1> QED BY <1>3, <1>4, <1>5 DEF IInv

LEMMA StepKeeps == ASSUME IInv, NEW t \in Threads, Step(t) PROVE IInv'
<1>0. /\ rest = [u \in Threads |-> rest[u]] /\ fuel = [u \in Threads |-> fuel[u]]
      /\ \A u \in Threads : fuel[u] \in Nat
  BY DEF IInv, PerThread, TypeOK
<1>1. CASE InternRead(t)
  BY <1>1, InternReadKeeps
<1>2. CASE InternWrite(t)
  BY <1>2, InternWriteKeeps
<1>3. CASE LookupFingerprint(t)
  <2>1. PICK where \in {"idle", "compute"} : Goto(t, where)
    BY <1>3 DEF LookupFingerprint
  <2>2. pc[t] \in Keyed /\ UNCHANGED <<interner, call, calls, key, rest, fuel>>
    BY <1>3 DEF LookupFingerprint, At, Keyed, caches, weighing
  <2> QED BY <1>0, <2>1, <2>2, KeyedStep DEF Keyed
<1>4. CASE LookupSymbol(t)
  <2>1. pc[t] \in Keyed /\ UNCHANGED <<interner, call, calls, key>>
    BY <1>4 DEF LookupSymbol, At, Keyed, caches
  <2>2. CASE Cfg(t).fuel = 0
    BY <1>4, <2>1, <2>2, EndStep DEF LookupSymbol
  <2>3. CASE Cfg(t).fuel # 0 /\ Expr(t) \in DOMAIN symbol
    BY <1>4, <2>1, <2>3, StartStep DEF LookupSymbol
  <2>4. CASE Cfg(t).fuel # 0 /\ Expr(t) \notin DOMAIN symbol
    <3>1. Goto(t, "symbolize") /\ UNCHANGED <<rest, fuel>>
      BY <1>4, <2>4 DEF LookupSymbol, weighing
    <3> QED BY <1>0, <2>1, <3>1, KeyedStep DEF Keyed
  <2> QED BY <2>2, <2>3, <2>4
<1>5. CASE Symbolize(t)
  <2>1. pc[t] \in Keyed /\ UNCHANGED <<interner, call, calls, key>>
    BY <1>5 DEF Symbolize, At, Keyed
  <2>2. CASE SymbolOf(Expr(t)).error # Ok
    BY <1>5, <2>1, <2>2, EndStep DEF Symbolize
  <2>3. CASE SymbolOf(Expr(t)).error = Ok
    BY <1>5, <2>1, <2>3, StartStep DEF Symbolize
  <2> QED BY <2>2, <2>3
<1>6. CASE SkipWeight(t)
  <2>1. pc[t] \in Keyed /\ UNCHANGED <<interner, call, calls, key, fuel>>
    BY <1>6 DEF SkipWeight, At, Keyed, caches
  <2> QED BY <1>0, <1>6, <2>1, WeighedStep DEF SkipWeight
<1>7. CASE GiveUp(t)
  <2>1. pc[t] \in Keyed /\ UNCHANGED <<interner, call, calls, key>>
    BY <1>7 DEF GiveUp, At, Keyed, caches
  <2> QED BY <1>7, <2>1, EndStep DEF GiveUp
<1>8. CASE LookupBasis(t)
  <2>1. pc[t] \in Keyed /\ UNCHANGED <<interner, call, calls, key>>
    BY <1>8 DEF LookupBasis, At, Keyed, caches
  <2>2. /\ fuel' = [u \in Threads |-> fuel'[u]]
        /\ \A u \in Threads : fuel'[u] \in Nat
    <3>1. fuel[t] > 0 /\ fuel' = [fuel EXCEPT ![t] = @ - 1]
      BY <1>8 DEF LookupBasis, Spend
    <3> QED BY <1>0, <3>1
  <2>3. CASE BasisKeyOf(t) \in DOMAIN basis
    BY <1>8, <2>1, <2>2, <2>3, WeighedStep DEF LookupBasis
  <2>4. CASE BasisKeyOf(t) \notin DOMAIN basis
    <3>1. Goto(t, "build") /\ UNCHANGED rest /\ rest[t] # {}
      BY <1>8, <2>4 DEF LookupBasis
    <3> QED BY <1>0, <2>1, <2>2, <3>1, KeyedStep DEF Keyed
  <2> QED BY <2>3, <2>4
<1>9. CASE BuildBasis(t)
  <2>1. pc[t] \in Keyed /\ UNCHANGED <<interner, call, calls, key, fuel>>
    BY <1>9 DEF BuildBasis, At, Keyed
  <2> QED BY <1>0, <1>9, <2>1, WeighedStep DEF BuildBasis
<1>10. CASE FinishWeights(t)
  <2>1. pc[t] \in Keyed /\ UNCHANGED <<interner, call, calls, key>>
    BY <1>10 DEF FinishWeights, At, Keyed, caches
  <2> QED BY <1>10, <2>1, EndStep DEF FinishWeights
<1>11. CASE Store(t)
  <2>1. pc[t] \in Keyed /\ UNCHANGED <<interner, call, calls, key, rest, fuel>>
    BY <1>11 DEF Store, At, Keyed, weighing
  <2>2. Goto(t, "idle")
    BY <1>11 DEF Store
  <2> QED BY <1>0, <2>1, <2>2, KeyedStep DEF Keyed
<1> QED BY <1>1, <1>2, <1>3, <1>4, <1>5, <1>6, <1>7, <1>8, <1>9, <1>10, <1>11 DEF Step

\* The invariant holds in every state.
THEOREM Invariant == Spec => []IInv
<1>1. Init => IInv
  BY InitIInv
<1>2. IInv /\ [Next]_vars => IInv'
  <2> SUFFICES ASSUME IInv, [Next]_vars PROVE IInv'
    OBVIOUS
  <2>1. ASSUME NEW t \in Threads, Call(t) PROVE IInv'
    BY <2>1, CallKeeps
  <2>2. ASSUME NEW t \in Threads, Step(t) PROVE IInv'
    BY <2>2, StepKeeps
  <2>3. CASE UNCHANGED vars
    BY <2>3 DEF vars, caches, weighing, IInv, TypeOK, PerThread, InternedOnce, At, Expr
  <2> QED BY <2>1, <2>2, <2>3 DEF Next, Done
<1> QED BY <1>1, <1>2, PTL DEF Spec

\* The types: in particular no call spends fuel it does not have, and no thread
\* builds a basis without a weight to build it for.
THEOREM TypeCorrect == Spec => []TypeOK
<1>1. IInv => TypeOK
  BY DEF IInv
<1> QED BY <1>1, Invariant, PTL

\* However the threads interleave in intern, between the lookup under the read
\* lock and the insertion under the write lock, all keys of one expression hold
\* one Arc.
THEOREM OneArcPerExpression == Spec => []InternedOnce
<1>1. IInv => InternedOnce
  BY DEF IInv
<1> QED BY <1>1, Invariant, PTL

-----------------------------------------------------------------------------
(* The hypothesis, and what a call should be answered with *)

\* Two alphabets of one weight that are fed to the hash alike are alike.  The run
\* fingerprint_collision shows what happens without.
AlphabetsApart ==
    \A r \in Requests, s \in Requests : \A w :
        LET mine == Alphabet(SymbolOf(r[1]), w)
            other == Alphabet(SymbolOf(s[1]), w)
        IN  AlphabetHash(mine) = AlphabetHash(other) => mine = other

\* All weights of a call, those that are not over its limit, and the fingerprint
\* of a weight from a basis of its own.
AllWeights(t) == Weights(Expr(t), SymbolOf(Expr(t)))
Costly(t) == {w \in AllWeights(t) : ~OverLimit(Cfg(t), w)}
Fresh(t, w) == Build(Alphabet(SymbolOf(Expr(t)), w), Cfg(t).constraints, w)
Weighs(t, w) ==
    IF OverLimit(Cfg(t), w) THEN WeightUnknown(w, "BudgetExhausted", Expr(t))
    ELSE WeightFingerprint(Expr(t), Cfg(t), SymbolOf(Expr(t)), w, Fresh(t, w))

\* The answers the service allows a call.
Answers(t) == Service!Allowed(Expr(t), Cfg(t))

-----------------------------------------------------------------------------
(* The invariant *)

Functions ==
    /\ sym = [t \in Threads |-> sym[t]]
    /\ by_weight = [t \in Threads |-> by_weight[t]]
    /\ fingerprint = [t \in Threads |-> fingerprint[t]]
    /\ answer = [t \in Threads |-> answer[t]]

\* What is cached is an answer for its key, the symbol of its expression, or a
\* basis of its alphabet.
CachesRight ==
    /\ \A k \in DOMAIN expr_fp : expr_fp[k] \in Service!Allowed(k.expr, k.cfg)
    /\ \A e \in DOMAIN symbol : symbol[e] = SymbolOf(e) /\ SymbolOf(e).error = Ok
    /\ \A r \in Requests : \A w :
        LET letters == Alphabet(SymbolOf(r[1]), w)
            k == BasisKey(w, letters, r[2])
            built == Build(letters, r[2].constraints, w)
        IN  k \in DOMAIN basis => built.error = Ok /\ built.basis = basis[k]

\* The weights a call has paid for.
Paid(t) == Costly(t) \ (IF At(t, "build") THEN rest[t] \ {Min(rest[t])} ELSE rest[t])

\* A call that weighs has its symbol; the weights it has done got what they
\* should, and its fuel is what the others have left of it.
WeighingRight(t) ==
    /\ sym[t] = SymbolOf(Expr(t)) /\ SymbolOf(Expr(t)).error = Ok
    /\ Cfg(t).fuel > 0
    /\ rest[t] \subseteq AllWeights(t)
    /\ by_weight[t] = [w \in AllWeights(t) \ rest[t] |-> Weighs(t, w)]
    /\ Cfg(t).fuel = fuel[t] + Cardinality(Paid(t))
    /\ At(t, "build") => rest[t] # {} /\ ~OverLimit(Cfg(t), Weight(t))

CallRight(t) ==
    /\ pc[t] \in {"weights", "build"} => WeighingRight(t)
    /\ At(t, "symbolize") => Cfg(t).fuel > 0
    /\ At(t, "store") => fingerprint[t] \in Answers(t)

\* The inductive invariant, together with IInv.
Right == Functions /\ CachesRight /\ \A t \in Threads : CallRight(t)

-----------------------------------------------------------------------------
(* The answers of the service *)

\* The weights of a call are finitely many natural numbers.
LEMMA WeightsFinite ==
    ASSUME NEW r \in Requests
    PROVE  /\ Weights(r[1], SymbolOf(r[1])) \subseteq Nat
           /\ IsFiniteSet(Weights(r[1], SymbolOf(r[1])))
<1> DEFINE D == DOMAIN SymbolOf(r[1]).letters
<1>1. D \subseteq Nat /\ IsFiniteSet(D)
  BY RequestAssumption
<1>2. IsFiniteSet(D \cup {0})
  <2> HIDE DEF D
  <2> QED BY <1>1, FS_AddElement
<1> QED BY <1>1, <1>2 DEF Weights

\* The cardinalities of the instance are the usual ones.
LEMMA SameCardinality ==
    ASSUME NEW S
    PROVE  Service!Cardinality(S) = Cardinality(S)
BY Zenon DEF Service!Cardinality, Cardinality

\* The service counts the weights that are not over the limit.
LEMMA CountedCostly ==
    ASSUME NEW r \in Requests
    PROVE  Service!Counted(r[1], r[2]) =
               {w \in Weights(r[1], SymbolOf(r[1])) : ~OverLimit(r[2], w)}
<1>1. \A w \in Weights(r[1], SymbolOf(r[1])) : Service!Within(r[2], w) <=> ~OverLimit(r[2], w)
  <2> TAKE w \in Weights(r[1], SymbolOf(r[1]))
  <2>1. w \in Nat /\ r[2].limit \in Nat \cup {NoLimit}
    BY WeightsFinite, RequestAssumption
  <2> QED BY <2>1 DEF Service!Within, OverLimit
<1> QED BY <1>1 DEF Service!Counted, Service!Weights, Weights

\* No fuel, or no symbol.
LEMMA AnswerNoSymbol ==
    ASSUME NEW r \in Requests
    PROVE  /\ r[2].fuel = 0 => Unknown("BudgetExhausted", r[1]) \in Service!Allowed(r[1], r[2])
           /\ r[2].fuel > 0 /\ SymbolOf(r[1]).error # Ok =>
                  Unknown(SymbolOf(r[1]).error, r[1]) \in Service!Allowed(r[1], r[2])
<1>1. r[2].fuel \in Nat
  BY RequestAssumption
<1>2. r[2].fuel = 0 => Service!Reference(r[1], r[2]) = Unknown("BudgetExhausted", r[1])
  BY <1>1 DEF Service!Reference, Service!Unknown, Unknown
<1>3. r[2].fuel > 0 /\ SymbolOf(r[1]).error # Ok =>
          Service!Reference(r[1], r[2]) = Unknown(SymbolOf(r[1]).error, r[1])
  BY <1>1 DEF Service!Reference, Service!Unknown, Unknown
<1> QED BY <1>2, <1>3 DEF Service!Allowed

\* The fuel does not last, or the time runs out.
LEMMA AnswerExhausted ==
    ASSUME NEW r \in Requests, r[2].fuel > 0, SymbolOf(r[1]).error = Ok,
           LET costly == {w \in Weights(r[1], SymbolOf(r[1])) : ~OverLimit(r[2], w)}
           IN  Cardinality(costly) > r[2].fuel \/ (r[2].timed /\ costly # {})
    PROVE  Unknown("BudgetExhausted", r[1]) \in Service!Allowed(r[1], r[2])
<1>1. r[2].fuel \in Nat
  BY RequestAssumption
<1>2. CASE Cardinality(Service!Counted(r[1], r[2])) > r[2].fuel
  <2>1. r[2].fuel # 0 /\ SymbolOf(r[1]).error = Ok
    BY <1>1
  <2>2. Service!Reference(r[1], r[2]) = Service!Unknown("BudgetExhausted", r[1])
    BY <1>2, <2>1, SameCardinality DEF Service!Reference
  <2> QED BY <2>2 DEF Service!Allowed, Service!Unknown, Unknown
<1>3. CASE r[2].timed /\ Service!Counted(r[1], r[2]) # {}
  BY <1>3 DEF Service!Allowed, Service!Unknown, Unknown
<1> QED BY <1>2, <1>3, CountedCostly

\* The instance's fingerprint of a weight is the usual one.
LEMMA SameWeightFingerprint ==
    ASSUME NEW r, NEW w
    PROVE  /\ Service!WeightUnknown(w, "BudgetExhausted", r[1]) =
                   WeightUnknown(w, "BudgetExhausted", r[1])
           /\ \A built :
                Service!WeightFingerprint(r[1], r[2], SymbolOf(r[1]), w, built) =
                    WeightFingerprint(r[1], r[2], SymbolOf(r[1]), w, built)
<1>1. Service!Alphabet(SymbolOf(r[1]), w) = Alphabet(SymbolOf(r[1]), w)
  BY DEF Service!Alphabet, Alphabet
<1>2. \A s : Service!AlphabetHash(s) = AlphabetHash(s)
  BY Zenon DEF Service!AlphabetHash, AlphabetHash, Service!FlattenSeq, FlattenSeq
<1>3. Service!BasisKey(w, Service!Alphabet(SymbolOf(r[1]), w), r[2]) =
          BasisKey(w, Alphabet(SymbolOf(r[1]), w), r[2])
  BY <1>1, <1>2, Zenon DEF Service!BasisKey, BasisKey
<1> QED BY <1>3, Zenon DEF Service!WeightFingerprint, WeightFingerprint,
                           Service!WeightUnknown, WeightUnknown

\* All weights are done within the fuel.
LEMMA AnswerComplete ==
    ASSUME NEW r \in Requests, r[2].fuel > 0, SymbolOf(r[1]).error = Ok,
           LET costly == {w \in Weights(r[1], SymbolOf(r[1])) : ~OverLimit(r[2], w)}
           IN  ~(Cardinality(costly) > r[2].fuel)
    PROVE  ByWeight([w \in Weights(r[1], SymbolOf(r[1])) |->
               IF OverLimit(r[2], w) THEN WeightUnknown(w, "BudgetExhausted", r[1])
               ELSE WeightFingerprint(r[1], r[2], SymbolOf(r[1]), w,
                        Build(Alphabet(SymbolOf(r[1]), w), r[2].constraints, w))])
               \in Service!Allowed(r[1], r[2])
<1> DEFINE W == Weights(r[1], SymbolOf(r[1]))
           Of(w) == IF OverLimit(r[2], w) THEN WeightUnknown(w, "BudgetExhausted", r[1])
                    ELSE WeightFingerprint(r[1], r[2], SymbolOf(r[1]), w,
                             Build(Alphabet(SymbolOf(r[1]), w), r[2].constraints, w))
           ServiceOf(w) == IF ~Service!Within(r[2], w)
                           THEN Service!WeightUnknown(w, "BudgetExhausted", r[1])
                           ELSE Service!WeightFingerprint(r[1], r[2], SymbolOf(r[1]), w,
                                    Build(Service!Alphabet(SymbolOf(r[1]), w), r[2].constraints, w))
<1>1. r[2].fuel # 0 /\ ~(Service!Cardinality(Service!Counted(r[1], r[2])) > r[2].fuel)
  BY CountedCostly, SameCardinality
<1>2. Service!Reference(r[1], r[2]) =
          Service!ByWeight([w \in Service!Weights(r[1], SymbolOf(r[1])) |-> ServiceOf(w)])
  BY <1>1 DEF Service!Reference
<1>3. \A w \in W : ServiceOf(w) = Of(w)
  <2> TAKE w \in W
  <2>1. Service!Within(r[2], w) <=> ~OverLimit(r[2], w)
    <3>1. w \in Nat /\ r[2].limit \in Nat \cup {NoLimit}
      BY WeightsFinite, RequestAssumption
    <3> QED BY <3>1 DEF Service!Within, OverLimit
  <2>2. Service!Alphabet(SymbolOf(r[1]), w) = Alphabet(SymbolOf(r[1]), w)
    BY DEF Service!Alphabet, Alphabet
  <2> QED BY <2>1, <2>2, SameWeightFingerprint
<1>4. Service!Weights(r[1], SymbolOf(r[1])) = W
  BY DEF Service!Weights, Weights
<1>5. [w \in Service!Weights(r[1], SymbolOf(r[1])) |-> ServiceOf(w)] = [w \in W |-> Of(w)]
  <2> HIDE DEF W, Of, ServiceOf
  <2> QED BY <1>3, <1>4
<1>6. ByWeight([w \in W |-> Of(w)]) \in Service!Allowed(r[1], r[2])
  <2> HIDE DEF W, Of, ServiceOf
  <2> QED BY <1>2, <1>5 DEF Service!Allowed, Service!ByWeight, ByWeight
<1> QED BY <1>6

-----------------------------------------------------------------------------
(* What a step of one thread leaves as it is *)

LEMMA LeastWeight ==
    ASSUME NEW S, S \subseteq Nat, S # {}
    PROVE  Min(S) \in S
BY SmallestElement DEF Min

\* Taking one weight off the list.
LEMMA OnePaid ==
    ASSUME NEW C, IsFiniteSet(C), NEW R, NEW w \in R
    PROVE  /\ Cardinality(C \ R) \in Nat
           /\ w \in C => Cardinality(C \ (R \ {w})) = Cardinality(C \ R) + 1
           /\ w \notin C => C \ (R \ {w}) = C \ R
<1>1. IsFiniteSet(C \ R)
  <2>1. C \ R \in SUBSET C
    OBVIOUS
  <2> QED BY <2>1, FS_Subset
<1>2. Cardinality(C \ R) \in Nat
  BY <1>1, FS_CardinalityType
<1>3. ASSUME w \in C PROVE Cardinality(C \ (R \ {w})) = Cardinality(C \ R) + 1
  <2>1. C \ (R \ {w}) = (C \ R) \cup {w} /\ w \notin C \ R
    BY <1>3
  <2> QED BY <1>1, <2>1, FS_AddElement
<1> QED BY <1>2, <1>3

\* What depends on the call of a thread only.
LEMMA SameCall ==
    ASSUME NEW t \in Threads, call'[t] = call[t]
    PROVE  /\ Expr(t)' = Expr(t) /\ Cfg(t)' = Cfg(t)
           /\ AllWeights(t)' = AllWeights(t) /\ Costly(t)' = Costly(t)
           /\ \A w : Weighs(t, w)' = Weighs(t, w)
           /\ Answers(t)' = Answers(t)
<1>1. Expr(t)' = Expr(t) /\ Cfg(t)' = Cfg(t)
  BY DEF Expr, Cfg
<1>2. AllWeights(t)' = AllWeights(t)
  BY <1>1 DEF AllWeights
<1>3. Costly(t)' = Costly(t)
  BY <1>1, <1>2 DEF Costly
<1>4. \A w : Weighs(t, w)' = Weighs(t, w)
  BY <1>1 DEF Weighs, Fresh
<1>5. Answers(t)' = Answers(t)
  BY <1>1 DEF Answers
<1> QED BY <1>1, <1>2, <1>3, <1>4, <1>5

\* A thread that does nothing stays right.
LEMMA IdleRight ==
    ASSUME NEW u \in Threads, CallRight(u),
           call'[u] = call[u], pc'[u] = pc[u], sym'[u] = sym[u], rest'[u] = rest[u],
           fuel'[u] = fuel[u], by_weight'[u] = by_weight[u], fingerprint'[u] = fingerprint[u]
    PROVE  CallRight(u)'
<1>1. Paid(u)' = Paid(u) /\ Weight(u)' = Weight(u)
  BY SameCall DEF Paid, At, Weight
<1>2. WeighingRight(u) => WeighingRight(u)'
  <2> SUFFICES ASSUME WeighingRight(u) PROVE WeighingRight(u)'
    OBVIOUS
  <2>1. [w \in AllWeights(u)' \ rest'[u] |-> Weighs(u, w)'] =
            [w \in AllWeights(u) \ rest[u] |-> Weighs(u, w)]
    BY SameCall
  <2>2. by_weight'[u] = [w \in AllWeights(u)' \ rest'[u] |-> Weighs(u, w)']
    BY <2>1 DEF WeighingRight
  <2> QED BY <1>1, <2>2, SameCall DEF WeighingRight, At
<1> QED BY <1>2, SameCall DEF CallRight, At

\* A step of one thread.
LEMMA ThreadStep ==
    ASSUME IInv, Right, NEW t \in Threads, NEW where, Goto(t, where),
           call' = call, Functions', CachesRight', CallRight(t)',
           \A u \in Threads \ {t} :
               /\ sym'[u] = sym[u] /\ rest'[u] = rest[u] /\ fuel'[u] = fuel[u]
               /\ by_weight'[u] = by_weight[u] /\ fingerprint'[u] = fingerprint[u]
    PROVE  Right'
<1>1. \A u \in Threads \ {t} : pc'[u] = pc[u]
  BY DEF Goto, IInv, TypeOK
<1>2. ASSUME NEW u \in Threads PROVE CallRight(u)'
  <2>1. CASE u = t
    BY <2>1
  <2>2. CASE u # t
    BY <1>1, <2>2, IdleRight DEF Right
  <2> QED BY <2>1, <2>2
<1> QED BY <1>2 DEF Right

LEMMA SameCaches ==
    ASSUME CachesRight, UNCHANGED <<expr_fp, symbol, basis>>
    PROVE  CachesRight'
BY DEF CachesRight

\* A computation that ends with an answer.
LEMMA EndRight ==
    ASSUME IInv, Right, NEW t \in Threads, NEW fp \in Answers(t), End(t, fp),
           UNCHANGED <<call, answer>>, CachesRight'
    PROVE  Right'
<1>1. Goto(t, "store")
  BY DEF End
<1>2. Functions'
  BY DEF End, Right, Functions
<1>3. CallRight(t)'
  <2>1. pc'[t] = "store"
    BY DEF End, Goto, IInv, TypeOK
  <2>2. fingerprint'[t] = fp
    BY DEF End, Right, Functions
  <2> QED BY <2>1, <2>2, SameCall DEF CallRight, At
<1>4. \A u \in Threads \ {t} :
          /\ sym'[u] = sym[u] /\ rest'[u] = rest[u] /\ fuel'[u] = fuel[u]
          /\ by_weight'[u] = by_weight[u] /\ fingerprint'[u] = fingerprint[u]
  BY DEF End, Right, Functions, IInv, PerThread
<1> QED BY <1>1, <1>2, <1>3, <1>4, ThreadStep

\* A computation that has its symbol has paid for nothing yet.
LEMMA StartRight ==
    ASSUME IInv, Right, NEW t \in Threads, pc[t] \in Keyed, Start(t, SymbolOf(Expr(t))),
           SymbolOf(Expr(t)).error = Ok, Cfg(t).fuel > 0,
           UNCHANGED <<call, answer, fingerprint>>, CachesRight'
    PROVE  Right'
<1>1. Goto(t, "weights") /\ pc'[t] = "weights"
  BY DEF Start, Goto, IInv, TypeOK
<1>2. Functions'
  BY DEF Start, Right, Functions
<1>3. /\ sym'[t] = SymbolOf(Expr(t)) /\ rest'[t] = AllWeights(t)
      /\ fuel'[t] = Cfg(t).fuel /\ by_weight'[t] = Empty
  BY DEF Start, Right, Functions, IInv, PerThread, AllWeights
<1>4. WeighingRight(t)'
  <2>1. by_weight'[t] = [w \in AllWeights(t)' \ rest'[t] |-> Weighs(t, w)']
    <3>1. AllWeights(t)' \ rest'[t] = {}
      BY <1>3, SameCall
    <3> QED BY <1>3, <3>1 DEF Empty
  <2>2. Cfg(t)'.fuel = fuel'[t] + Cardinality(Paid(t)')
    <3>1. Paid(t)' = {}
      BY <1>1, <1>3, SameCall DEF Paid, At, Costly
    <3>2. Cfg(t).fuel \in Nat
      BY FuelIsNat DEF IInv, TypeOK, At, Keyed
    <3> QED BY <1>3, <3>1, <3>2, SameCall, FS_EmptySet
  <2>3. ~At(t, "build")'
    BY <1>1 DEF At
  <2>4. rest'[t] \subseteq AllWeights(t)'
    BY <1>3, SameCall
  <2>5. sym'[t] = SymbolOf(Expr(t)') /\ SymbolOf(Expr(t)').error = Ok /\ Cfg(t)'.fuel > 0
    BY <1>3, SameCall
  <2> QED BY <2>1, <2>2, <2>3, <2>4, <2>5 DEF WeighingRight
<1>5. CallRight(t)'
  BY <1>1, <1>4 DEF CallRight, At
<1>6. \A u \in Threads \ {t} :
          /\ sym'[u] = sym[u] /\ rest'[u] = rest[u] /\ fuel'[u] = fuel[u]
          /\ by_weight'[u] = by_weight[u] /\ fingerprint'[u] = fingerprint[u]
  BY DEF Start, Right, Functions, IInv, PerThread
<1> QED BY <1>1, <1>2, <1>5, <1>6, ThreadStep

\* A weight that gets its fingerprint, for which the call has the fuel.
LEMMA WeighedRight ==
    ASSUME IInv, Right, NEW t \in Threads, pc[t] \in {"weights", "build"}, rest[t] # {},
           Weighed(t, Weighs(t, Weight(t))),
           UNCHANGED <<call, answer, fingerprint, sym>>, CachesRight',
           \A u \in Threads \ {t} : fuel'[u] = fuel[u],
           Cfg(t).fuel = fuel'[t] + Cardinality(Costly(t) \ (rest[t] \ {Weight(t)}))
    PROVE  Right'
<1> DEFINE left == rest[t] \ {Weight(t)}
<1>1. Goto(t, "weights") /\ pc'[t] = "weights"
  BY DEF Weighed, Goto, IInv, TypeOK
<1>2. Functions'
  BY DEF Weighed, Right, Functions
<1>3. rest'[t] = left /\ by_weight'[t] = Put(by_weight[t], Weight(t), Weighs(t, Weight(t)))
  BY DEF Weighed, Right, Functions, IInv, PerThread
<1>4. WeighingRight(t)
  BY DEF Right, CallRight
<1>5. call[t] \in Requests
  BY DEF IInv, TypeOK, At
<1>6. Weight(t) \in rest[t] /\ rest[t] \subseteq AllWeights(t)
  <2>1. AllWeights(t) \subseteq Nat
    BY <1>5, WeightsFinite DEF AllWeights, Expr
  <2> QED BY <1>4, <2>1, LeastWeight DEF WeighingRight, Weight
<1>7. WeighingRight(t)'
  <2>1. by_weight'[t] = [w \in AllWeights(t) \ left |-> Weighs(t, w)]
    <3>1. by_weight[t] = [w \in AllWeights(t) \ rest[t] |-> Weighs(t, w)]
      BY <1>4 DEF WeighingRight
    <3>2. AllWeights(t) \ left = (AllWeights(t) \ rest[t]) \cup {Weight(t)}
      BY <1>6
    <3> QED BY <1>3, <3>1, <3>2 DEF Put
  <2>2. by_weight'[t] = [w \in AllWeights(t)' \ rest'[t] |-> Weighs(t, w)']
    BY <1>3, <2>1, SameCall
  <2>3. Cfg(t)'.fuel = fuel'[t] + Cardinality(Paid(t)')
    <3>1. Paid(t)' = Costly(t) \ left
      BY <1>1, <1>3, SameCall DEF Paid, At
    <3> QED BY <3>1, SameCall
  <2>4. ~At(t, "build")'
    BY <1>1 DEF At
  <2>5. rest'[t] \subseteq AllWeights(t)'
    BY <1>3, <1>6, SameCall
  <2>6. sym'[t] = SymbolOf(Expr(t)') /\ SymbolOf(Expr(t)').error = Ok /\ Cfg(t)'.fuel > 0
    BY <1>4, SameCall DEF WeighingRight
  <2> QED BY <2>2, <2>3, <2>4, <2>5, <2>6 DEF WeighingRight
<1>8. CallRight(t)'
  BY <1>1, <1>7 DEF CallRight, At
<1>9. \A u \in Threads \ {t} :
          /\ sym'[u] = sym[u] /\ rest'[u] = rest[u] /\ fuel'[u] = fuel[u]
          /\ by_weight'[u] = by_weight[u] /\ fingerprint'[u] = fingerprint[u]
  BY DEF Weighed, Right, Functions, IInv, PerThread
<1> QED BY <1>1, <1>2, <1>8, <1>9, ThreadStep

\* What a call that weighs may rely on.
LEMMA Weighing ==
    ASSUME IInv, Right, NEW t \in Threads, pc[t] \in {"weights", "build"}
    PROVE  /\ call[t] \in Requests /\ WeighingRight(t) /\ fuel[t] \in Nat
           /\ Cfg(t).fuel \in Nat /\ IsFiniteSet(Costly(t))
           /\ rest[t] # {} => Weight(t) \in rest[t] /\ Weight(t) \in AllWeights(t)
<1>1. call[t] \in Requests /\ WeighingRight(t) /\ fuel[t] \in Nat
  BY DEF Right, CallRight, IInv, TypeOK, At
<1>2. AllWeights(t) \subseteq Nat /\ IsFiniteSet(AllWeights(t))
  BY <1>1, WeightsFinite DEF AllWeights, Expr
<1>3. IsFiniteSet(Costly(t))
  <2>1. Costly(t) \in SUBSET AllWeights(t)
    BY DEF Costly
  <2> QED BY <1>2, <2>1, FS_Subset
<1>4. rest[t] # {} => Weight(t) \in rest[t] /\ Weight(t) \in AllWeights(t)
  BY <1>1, <1>2, LeastWeight DEF WeighingRight, Weight
<1> QED BY <1>1, <1>3, <1>4, FuelIsNat

-----------------------------------------------------------------------------
(* The steps that insert into a cache *)

LEMMA SymbolInserted ==
    ASSUME CachesRight, NEW e, SymbolOf(e).error = Ok, symbol' = Put(symbol, e, SymbolOf(e)),
           UNCHANGED <<expr_fp, basis>>
    PROVE  CachesRight'
BY DEF CachesRight, Put

LEMMA FingerprintInserted ==
    ASSUME CachesRight, NEW t \in Threads, NEW fp \in Answers(t),
           expr_fp' = Put(expr_fp, FingerprintKey(t), fp), UNCHANGED <<symbol, basis>>
    PROVE  CachesRight'
<1>1. FingerprintKey(t).expr = Expr(t) /\ FingerprintKey(t).cfg = Cfg(t)
  BY DEF FingerprintKey
<1>2. \A k \in DOMAIN expr_fp' : expr_fp'[k] \in Service!Allowed(k.expr, k.cfg)
  BY <1>1 DEF CachesRight, Put, Answers
<1> QED BY <1>2 DEF CachesRight

\* The basis that is inserted is one for all alphabets with its key, because the
\* hash tells the alphabets apart.
LEMMA BasisInserted ==
    ASSUME AlphabetsApart, CachesRight, NEW s \in Requests, NEW w,
           LET letters == Alphabet(SymbolOf(s[1]), w)
               built == Build(letters, s[2].constraints, w)
           IN  built.error = Ok /\ basis' = Put(basis, BasisKey(w, letters, s[2]), built.basis),
           UNCHANGED <<expr_fp, symbol>>
    PROVE  CachesRight'
<1> DEFINE Letters(r, v) == Alphabet(SymbolOf(r[1]), v)
           Key(r, v) == BasisKey(v, Letters(r, v), r[2])
           Built(r, v) == Build(Letters(r, v), r[2].constraints, v)
<1>1. ASSUME NEW r \in Requests, NEW v, Key(r, v) \in DOMAIN basis'
      PROVE  Built(r, v).error = Ok /\ Built(r, v).basis = basis'[Key(r, v)]
  <2>1. CASE Key(r, v) = Key(s, w)
    <3>1. v = w /\ r[2].constraints = s[2].constraints
      BY <2>1 DEF BasisKey
    <3>2. AlphabetHash(Letters(r, v)) = AlphabetHash(Letters(s, w))
      BY <2>1 DEF BasisKey
    <3>3. Letters(r, v) = Letters(s, w)
      BY <3>1, <3>2 DEF AlphabetsApart
    <3>4. Built(r, v) = Built(s, w)
      BY <3>1, <3>3
    <3>5. basis'[Key(r, v)] = Built(s, w).basis
      BY <2>1 DEF Put
    <3> QED BY <3>4, <3>5
  <2>2. CASE Key(r, v) # Key(s, w)
    <3>1. Key(r, v) \in DOMAIN basis /\ basis'[Key(r, v)] = basis[Key(r, v)]
      BY <1>1, <2>2 DEF Put
    <3> QED BY <3>1 DEF CachesRight
  <2> QED BY <2>1, <2>2
<1> QED BY <1>1 DEF CachesRight

-----------------------------------------------------------------------------
(* The actions *)

LEMMA CallRightly == ASSUME IInv, Right, NEW t \in Threads, Call(t) PROVE Right'
<1>1. PICK r \in Requests : call' = [call EXCEPT ![t] = r]
  BY DEF Call
<1>2. pc' = [pc EXCEPT ![t] = "intern"]
  BY DEF Call, Goto
<1>3. CachesRight'
  BY SameCaches DEF Call, caches, Right
<1>4. Functions'
  BY DEF Call, weighing, Right, Functions
<1>5. CallRight(t)'
  BY <1>2 DEF CallRight, At, IInv, TypeOK
<1>6. ASSUME NEW u \in Threads, u # t PROVE CallRight(u)'
  <2>1. call'[u] = call[u] /\ pc'[u] = pc[u]
    BY <1>1, <1>2, <1>6 DEF IInv, TypeOK
  <2>2. CallRight(u) /\ UNCHANGED <<sym, rest, fuel, by_weight, fingerprint>>
    BY DEF Call, weighing, Right
  <2> QED BY <2>1, <2>2, IdleRight
<1> QED BY <1>3, <1>4, <1>5, <1>6 DEF Right

\* A step to a place where nothing is computed or stored yet.
LEMMA MoveRight ==
    ASSUME IInv, Right, NEW t \in Threads, NEW where, where \notin {"weights", "build", "store"},
           Goto(t, where), where = "symbolize" => Cfg(t).fuel > 0,
           UNCHANGED <<call, sym, rest, fuel, by_weight>>, CachesRight',
           answer' = [u \in Threads |-> answer'[u]],
           fingerprint' = [u \in Threads |-> fingerprint'[u]],
           \A u \in Threads \ {t} : fingerprint'[u] = fingerprint[u]
    PROVE  Right'
<1>1. pc'[t] = where
  BY DEF Goto, IInv, TypeOK
<1>2. CallRight(t)'
  BY <1>1, SameCall DEF CallRight, At
<1>3. Functions'
  BY DEF Right, Functions
<1> QED BY <1>2, <1>3, ThreadStep

LEMMA InternRight ==
    ASSUME IInv, Right, NEW t \in Threads, InternRead(t) \/ InternWrite(t)
    PROVE  Right'
<1>1. PICK where \in {"lookup", "internWrite"} : Goto(t, where)
  BY DEF InternRead, InternWrite
<1>2. UNCHANGED <<expr_fp, symbol, basis, call, sym, rest, fuel, by_weight, fingerprint, answer>>
  BY DEF InternRead, InternWrite, caches, weighing
<1>3. CachesRight'
  BY <1>2, SameCaches DEF Right
<1> QED BY <1>1, <1>2, <1>3, MoveRight DEF Right, Functions

LEMMA LookupFingerprintRight ==
    ASSUME IInv, Right, NEW t \in Threads, LookupFingerprint(t)
    PROVE  Right'
<1>1. PICK where \in {"idle", "compute"} : Goto(t, where)
  BY DEF LookupFingerprint
<1>2. UNCHANGED <<expr_fp, symbol, basis, call, sym, rest, fuel, by_weight, fingerprint>>
  BY DEF LookupFingerprint, caches, weighing
<1>3. CachesRight'
  BY <1>2, SameCaches DEF Right
<1>4. answer' = [u \in Threads |-> answer'[u]]
  BY DEF LookupFingerprint, Right, Functions
<1> QED BY <1>1, <1>2, <1>3, <1>4, MoveRight DEF Right, Functions

LEMMA LookupSymbolRight ==
    ASSUME IInv, Right, NEW t \in Threads, LookupSymbol(t)
    PROVE  Right'
<1>1. /\ UNCHANGED <<expr_fp, symbol, basis, call, answer>>
      /\ call[t] \in Requests /\ pc[t] = "compute" /\ Cfg(t).fuel \in Nat
  BY FuelIsNat DEF LookupSymbol, caches, At, IInv, TypeOK
<1>2. CachesRight'
  BY <1>1, SameCaches DEF Right
<1>3. CASE Cfg(t).fuel = 0
  <2>1. Unknown("BudgetExhausted", Expr(t)) \in Answers(t)
    BY <1>1, <1>3, AnswerNoSymbol DEF Answers, Expr, Cfg
  <2> QED BY <1>1, <1>2, <1>3, <2>1, EndRight DEF LookupSymbol
<1>4. CASE Cfg(t).fuel # 0 /\ Expr(t) \in DOMAIN symbol
  <2>1. symbol[Expr(t)] = SymbolOf(Expr(t)) /\ SymbolOf(Expr(t)).error = Ok
    BY <1>4 DEF Right, CachesRight
  <2>2. Start(t, SymbolOf(Expr(t))) /\ UNCHANGED fingerprint
    BY <1>4, <2>1 DEF LookupSymbol
  <2>3. pc[t] \in Keyed /\ Cfg(t).fuel > 0
    BY <1>1, <1>4 DEF Keyed
  <2> QED BY <1>1, <1>2, <2>1, <2>2, <2>3, StartRight
<1>5. CASE Cfg(t).fuel # 0 /\ Expr(t) \notin DOMAIN symbol
  <2>1. Goto(t, "symbolize") /\ UNCHANGED <<sym, rest, fuel, by_weight, fingerprint>>
    BY <1>5 DEF LookupSymbol, weighing
  <2>2. Cfg(t).fuel > 0
    BY <1>1, <1>5
  <2> QED BY <1>1, <1>2, <2>1, <2>2, MoveRight DEF Right, Functions
<1> QED BY <1>3, <1>4, <1>5

LEMMA SymbolizeRight ==
    ASSUME IInv, Right, NEW t \in Threads, Symbolize(t)
    PROVE  Right'
<1>1. /\ UNCHANGED <<expr_fp, basis, call, answer>>
      /\ call[t] \in Requests /\ pc[t] \in Keyed /\ Cfg(t).fuel > 0
  BY DEF Symbolize, At, Keyed, IInv, TypeOK, Right, CallRight
<1>2. CASE SymbolOf(Expr(t)).error # Ok
  <2>1. Unknown(SymbolOf(Expr(t)).error, Expr(t)) \in Answers(t)
    BY <1>1, <1>2, AnswerNoSymbol DEF Answers, Expr, Cfg
  <2>2. End(t, Unknown(SymbolOf(Expr(t)).error, Expr(t))) /\ UNCHANGED symbol
    BY <1>2 DEF Symbolize
  <2>3. CachesRight'
    BY <1>1, <2>2, SameCaches DEF Right
  <2> QED BY <1>1, <2>1, <2>2, <2>3, EndRight
<1>3. CASE SymbolOf(Expr(t)).error = Ok
  <2>1. /\ symbol' = Put(symbol, Expr(t), SymbolOf(Expr(t)))
        /\ Start(t, SymbolOf(Expr(t))) /\ UNCHANGED fingerprint
    BY <1>3 DEF Symbolize
  <2>2. CachesRight'
    BY <1>1, <1>3, <2>1, SymbolInserted DEF Right
  <2> QED BY <1>1, <1>3, <2>1, <2>2, StartRight
<1> QED BY <1>2, <1>3

LEMMA SkipWeightRight ==
    ASSUME IInv, Right, NEW t \in Threads, SkipWeight(t)
    PROVE  Right'
<1>1. /\ UNCHANGED <<expr_fp, symbol, basis, call, sym, fuel, fingerprint, answer>>
      /\ pc[t] = "weights" /\ rest[t] # {} /\ OverLimit(Cfg(t), Weight(t))
  BY DEF SkipWeight, caches, At
<1>2. CachesRight'
  BY <1>1, SameCaches DEF Right
<1>3. Weighed(t, Weighs(t, Weight(t)))
  BY <1>1 DEF SkipWeight, Weighs
<1>4. Cfg(t).fuel = fuel'[t] + Cardinality(Costly(t) \ (rest[t] \ {Weight(t)}))
  <2>1. Cfg(t).fuel = fuel[t] + Cardinality(Costly(t) \ rest[t])
    BY <1>1, Weighing DEF WeighingRight, Paid, At
  <2>2. Weight(t) \notin Costly(t) /\ Weight(t) \in rest[t]
    BY <1>1, Weighing DEF Costly
  <2>3. Costly(t) \ (rest[t] \ {Weight(t)}) = Costly(t) \ rest[t]
    BY <2>2
  <2> QED BY <1>1, <2>1, <2>3
<1> QED BY <1>1, <1>2, <1>3, <1>4, WeighedRight

\* A call that gives up had less fuel than weights to spend it on, or a clock.
LEMMA GiveUpRight ==
    ASSUME IInv, Right, NEW t \in Threads, GiveUp(t)
    PROVE  Right'
<1>1. /\ UNCHANGED <<expr_fp, symbol, basis, call, answer>>
      /\ pc[t] = "weights" /\ rest[t] # {} /\ ~OverLimit(Cfg(t), Weight(t))
      /\ fuel[t] = 0 \/ Cfg(t).timed
  BY DEF GiveUp, caches, At
<1>2. CachesRight'
  BY <1>1, SameCaches DEF Right
<1>3. WeighingRight(t) /\ call[t] \in Requests /\ Weight(t) \in Costly(t)
  BY <1>1, Weighing DEF Costly
<1>4. Cardinality(Costly(t)) > Cfg(t).fuel \/ (Cfg(t).timed /\ Costly(t) # {})
  <2>1. CASE Cfg(t).timed
    BY <1>3, <2>1
  <2>2. CASE fuel[t] = 0
    <3>1. Cfg(t).fuel = Cardinality(Costly(t) \ rest[t])
      <4>1. Cfg(t).fuel = fuel[t] + Cardinality(Costly(t) \ rest[t])
        BY <1>1, <1>3 DEF WeighingRight, Paid, At
      <4>2. Cardinality(Costly(t) \ rest[t]) \in Nat
        BY <1>1, Weighing, OnePaid
      <4> QED BY <2>2, <4>1, <4>2
    <3>2. Weight(t) \in rest[t] /\ IsFiniteSet(Costly(t)) /\ Cfg(t).fuel \in Nat
      BY <1>1, Weighing
    <3>3. Cardinality(Costly(t) \ (rest[t] \ {Weight(t)})) = Cfg(t).fuel + 1
      BY <1>3, <3>1, <3>2, OnePaid
    <3>4. Cardinality(Costly(t)) >= Cardinality(Costly(t) \ (rest[t] \ {Weight(t)}))
      <4>1. Costly(t) \ (rest[t] \ {Weight(t)}) \in SUBSET Costly(t)
        OBVIOUS
      <4>2. /\ Cardinality(Costly(t) \ (rest[t] \ {Weight(t)})) <= Cardinality(Costly(t))
            /\ Cardinality(Costly(t)) \in Nat
        BY <3>2, <4>1, FS_Subset, FS_CardinalityType
      <4> QED BY <3>2, <3>3, <4>2
    <3>5. Cardinality(Costly(t)) \in Nat
      BY <3>2, FS_CardinalityType
    <3> QED BY <3>2, <3>3, <3>4, <3>5
  <2> QED BY <1>1, <2>1, <2>2
<1>5. Unknown("BudgetExhausted", Expr(t)) \in Answers(t)
  <2>1. call[t][2].fuel > 0 /\ SymbolOf(call[t][1]).error = Ok
    BY <1>3 DEF WeighingRight, Expr, Cfg
  <2> QED BY <1>3, <1>4, <2>1, AnswerExhausted DEF Answers, Costly, AllWeights, Expr, Cfg
<1> QED BY <1>1, <1>2, <1>5, EndRight DEF GiveUp

LEMMA LookupBasisRight ==
    ASSUME IInv, Right, NEW t \in Threads, LookupBasis(t)
    PROVE  Right'
<1>1. /\ UNCHANGED <<expr_fp, symbol, basis, call, sym, fingerprint, answer>>
      /\ pc[t] = "weights" /\ rest[t] # {} /\ ~OverLimit(Cfg(t), Weight(t)) /\ fuel[t] > 0
      /\ fuel' = [fuel EXCEPT ![t] = @ - 1]
  BY DEF LookupBasis, Spend, caches, At
<1>2. CachesRight'
  BY <1>1, SameCaches DEF Right
<1>3. /\ WeighingRight(t) /\ call[t] \in Requests
      /\ Weight(t) \in Costly(t) /\ Weight(t) \in rest[t]
  BY <1>1, Weighing DEF Costly
<1>4. fuel'[t] = fuel[t] - 1 /\ \A u \in Threads \ {t} : fuel'[u] = fuel[u]
  BY <1>1 DEF IInv, PerThread
<1>5. Cfg(t).fuel = fuel'[t] + Cardinality(Costly(t) \ (rest[t] \ {Weight(t)}))
  <2>1. Cfg(t).fuel = fuel[t] + Cardinality(Costly(t) \ rest[t])
    BY <1>1, <1>3 DEF WeighingRight, Paid, At
  <2>2. fuel[t] \in Nat /\ IsFiniteSet(Costly(t))
    BY <1>1, Weighing
  <2>3. /\ Cardinality(Costly(t) \ rest[t]) \in Nat
        /\ Cardinality(Costly(t) \ (rest[t] \ {Weight(t)})) = Cardinality(Costly(t) \ rest[t]) + 1
    BY <1>3, <2>2, OnePaid
  <2> QED BY <1>4, <2>1, <2>2, <2>3
<1>6. CASE BasisKeyOf(t) \in DOMAIN basis
  <2>1. Fresh(t, Weight(t)).error = Ok /\ Fresh(t, Weight(t)).basis = basis[BasisKeyOf(t)]
    BY <1>3, <1>6 DEF Right, CachesRight, WeighingRight, BasisKeyOf, Fresh, Expr, Cfg
  <2>2. WeightFingerprint(Expr(t), Cfg(t), sym[t], Weight(t),
                          [error |-> Ok, basis |-> basis[BasisKeyOf(t)]])
            = Weighs(t, Weight(t))
    BY <1>1, <1>3, <2>1 DEF Weighs, WeightFingerprint, WeighingRight
  <2>3. Weighed(t, Weighs(t, Weight(t)))
    BY <1>6, <2>2 DEF LookupBasis
  <2> QED BY <1>1, <1>2, <1>4, <1>5, <2>3, WeighedRight
<1>7. CASE BasisKeyOf(t) \notin DOMAIN basis
  <2>1. Goto(t, "build") /\ UNCHANGED <<rest, by_weight>>
    BY <1>7 DEF LookupBasis
  <2>2. pc'[t] = "build"
    BY <2>1 DEF Goto, IInv, TypeOK
  <2>3. WeighingRight(t)'
    <3>1. Paid(t)' = Costly(t) \ (rest[t] \ {Weight(t)})
      BY <2>1, <2>2, SameCall, <1>1 DEF Paid, At, Weight
    <3>2. Cfg(t)'.fuel = fuel'[t] + Cardinality(Paid(t)')
      BY <1>1, <1>5, <3>1, SameCall
    <3>3. by_weight'[t] = [w \in AllWeights(t)' \ rest'[t] |-> Weighs(t, w)']
      BY <1>1, <1>3, <2>1, SameCall DEF WeighingRight
    <3>4. (At(t, "build") => rest[t] # {} /\ ~OverLimit(Cfg(t), Weight(t)))'
      BY <1>1, <2>1, SameCall DEF At, Weight
    <3>5. /\ sym'[t] = SymbolOf(Expr(t)') /\ SymbolOf(Expr(t)').error = Ok
          /\ Cfg(t)'.fuel > 0 /\ rest'[t] \subseteq AllWeights(t)'
      BY <1>1, <1>3, <2>1, SameCall DEF WeighingRight
    <3> QED BY <3>2, <3>3, <3>4, <3>5 DEF WeighingRight
  <2>4. CallRight(t)'
    BY <2>2, <2>3 DEF CallRight, At
  <2>5. Functions'
    BY <1>1, <2>1 DEF Right, Functions
  <2> QED BY <1>1, <1>2, <1>4, <2>1, <2>4, <2>5, ThreadStep
<1> QED BY <1>6, <1>7

LEMMA BuildBasisRight ==
    ASSUME AlphabetsApart, IInv, Right, NEW t \in Threads, BuildBasis(t)
    PROVE  Right'
<1>1. /\ UNCHANGED <<expr_fp, symbol, call, sym, fuel, fingerprint, answer>>
      /\ pc[t] = "build"
  BY DEF BuildBasis, At
<1>2. WeighingRight(t) /\ call[t] \in Requests
  BY <1>1, Weighing
<1>3. rest[t] # {} /\ ~OverLimit(Cfg(t), Weight(t)) /\ sym[t] = SymbolOf(Expr(t))
  BY <1>1, <1>2 DEF WeighingRight, At
<1>4. Weighed(t, Weighs(t, Weight(t)))
  BY <1>3 DEF BuildBasis, Weighs, Fresh
<1>5. CachesRight'
  <2>1. CASE Fresh(t, Weight(t)).error # Ok
    <3>1. UNCHANGED basis
      BY <1>3, <2>1 DEF BuildBasis, Fresh
    <3> QED BY <1>1, <3>1, SameCaches DEF Right
  <2>2. CASE Fresh(t, Weight(t)).error = Ok
    <3>1. basis' = Put(basis, BasisKey(Weight(t), Alphabet(SymbolOf(call[t][1]), Weight(t)), call[t][2]),
                       Fresh(t, Weight(t)).basis)
      BY <1>3, <2>2 DEF BuildBasis, Fresh, BasisKeyOf, Expr, Cfg
    <3> QED BY <1>1, <1>2, <2>2, <3>1, BasisInserted DEF Right, Fresh, Expr, Cfg
  <2> QED BY <2>1, <2>2
<1>6. Cfg(t).fuel = fuel'[t] + Cardinality(Costly(t) \ (rest[t] \ {Weight(t)}))
  BY <1>1, <1>2 DEF WeighingRight, Paid, At, Weight
<1> QED BY <1>1, <1>3, <1>4, <1>5, <1>6, WeighedRight

\* All weights are done, and the fuel has lasted.
LEMMA FinishWeightsRight ==
    ASSUME IInv, Right, NEW t \in Threads, FinishWeights(t)
    PROVE  Right'
<1>1. /\ UNCHANGED <<expr_fp, symbol, basis, call, answer>>
      /\ pc[t] = "weights" /\ rest[t] = {}
  BY DEF FinishWeights, caches, At
<1>2. CachesRight'
  BY <1>1, SameCaches DEF Right
<1>3. /\ WeighingRight(t) /\ call[t] \in Requests /\ fuel[t] \in Nat
      /\ Cfg(t).fuel \in Nat /\ IsFiniteSet(Costly(t))
  BY <1>1, Weighing
<1>4. ~(Cardinality(Costly(t)) > Cfg(t).fuel)
  <2>1. Paid(t) = Costly(t)
    BY <1>1 DEF Paid, At
  <2>2. Cardinality(Costly(t)) \in Nat
    BY <1>3, FS_CardinalityType
  <2>3. Cfg(t).fuel = fuel[t] + Cardinality(Costly(t))
    BY <1>3, <2>1 DEF WeighingRight
  <2> QED BY <1>3, <2>2, <2>3
<1>5. by_weight[t] = [w \in AllWeights(t) |-> Weighs(t, w)]
  BY <1>1, <1>3 DEF WeighingRight
<1>6. ByWeight(by_weight[t]) \in Answers(t)
  <2>1. call[t][2].fuel > 0 /\ SymbolOf(call[t][1]).error = Ok
    BY <1>3 DEF WeighingRight, Expr, Cfg
  <2> QED BY <1>3, <1>4, <1>5, <2>1, AnswerComplete
            DEF Answers, Costly, AllWeights, Weighs, Fresh, Expr, Cfg
<1> QED BY <1>1, <1>2, <1>6, EndRight DEF FinishWeights

LEMMA StoreRight ==
    ASSUME IInv, Right, NEW t \in Threads, Store(t)
    PROVE  Right'
<1>1. /\ UNCHANGED <<symbol, basis, call, sym, rest, fuel, by_weight>>
      /\ Goto(t, "idle") /\ fingerprint[t] \in Answers(t)
      /\ expr_fp' = Put(expr_fp, FingerprintKey(t), fingerprint[t])
  BY DEF Store, weighing, Right, CallRight
<1>2. CachesRight'
  BY <1>1, FingerprintInserted DEF Right
<1>3. /\ answer' = [u \in Threads |-> answer'[u]]
      /\ fingerprint' = [u \in Threads |-> fingerprint'[u]]
      /\ \A u \in Threads \ {t} : fingerprint'[u] = fingerprint[u]
  BY DEF Store, Right, Functions
<1> QED BY <1>1, <1>2, <1>3, MoveRight

-----------------------------------------------------------------------------
(* The invariant, and what follows *)

LEMMA InitRight == Init => Right
<1> SUFFICES ASSUME Init PROVE Right
  OBVIOUS
<1>1. Functions
  BY DEF Init, Functions
<1>2. CachesRight
  BY DEF Init, CachesRight, Empty
<1>3. \A t \in Threads : CallRight(t)
  BY DEF Init, CallRight, At
<1> QED BY <1>1, <1>2, <1>3 DEF Right

LEMMA NextRight == ASSUME AlphabetsApart, IInv, Right, [Next]_vars PROVE Right'
<1>1. ASSUME NEW t \in Threads, Step(t) PROVE Right'
  BY <1>1, InternRight, LookupFingerprintRight, LookupSymbolRight, SymbolizeRight,
     SkipWeightRight, GiveUpRight, LookupBasisRight, BuildBasisRight, FinishWeightsRight,
     StoreRight DEF Step
<1>2. CASE UNCHANGED vars
  <2>1. UNCHANGED <<expr_fp, symbol, basis, call, pc, sym, rest, fuel, by_weight, fingerprint, answer>>
    BY <1>2 DEF vars, caches, weighing
  <2>2. CachesRight'
    BY <2>1, SameCaches DEF Right
  <2>3. \A t \in Threads : CallRight(t)'
    BY <2>1, IdleRight DEF Right
  <2> QED BY <2>1, <2>2, <2>3 DEF Right, Functions
<1> QED BY <1>1, <1>2, CallRightly DEF Next, Done

\* What every cache holds, and what every call has computed so far, is right for
\* the call alone, in every state.
THEOREM CachesStayRight == AlphabetsApart => (Spec => [](IInv /\ Right))
<1> SUFFICES ASSUME AlphabetsApart PROVE Spec => [](IInv /\ Right)
  OBVIOUS
<1>1. Init => Right
  BY InitRight
<1>2. IInv /\ Right /\ [Next]_vars => Right'
  BY NextRight
<1>3. Spec => []IInv
  BY Invariant
<1> QED BY <1>1, <1>2, <1>3, PTL DEF Spec

\* A step of the cache is a step of the service, or none.
LEMMA ServiceStep ==
    ASSUME IInv, Right, [Next]_vars
    PROVE  [Service!Next]_<<call, {t \in Threads : ~At(t, "idle")}, answer>>
<1> DEFINE Busy == {t \in Threads : ~At(t, "idle")}
<1>1. pc \in [Threads -> {"idle", "intern", "internWrite"} \cup Keyed]
  BY DEF IInv, TypeOK
<1>2. ASSUME NEW t \in Threads, NEW where, Goto(t, where)
      PROVE  Busy' = IF where = "idle" THEN Busy \ {t} ELSE Busy \cup {t}
  BY <1>1, <1>2 DEF Goto, At
<1>3. ASSUME NEW t \in Threads, Call(t)
      PROVE  Service!Ask(t)
  <2>1. t \notin Busy /\ UNCHANGED answer /\ \E r \in Requests : call' = [call EXCEPT ![t] = r]
    BY <1>3 DEF Call, At
  <2>2. Busy' = Busy \cup {t}
    BY <1>2, <1>3 DEF Call
  <2> QED BY <2>1, <2>2 DEF Service!Ask
<1>4. ASSUME NEW t \in Threads, NEW fp \in Answers(t), pc[t] # "idle", Goto(t, "idle"),
             answer' = [answer EXCEPT ![t] = fp], UNCHANGED call
      PROVE  Service!Answer(t)
  <2>1. t \in Busy
    BY <1>4 DEF At
  <2>2. Busy' = Busy \ {t}
    BY <1>2, <1>4
  <2>3. fp \in Service!Allowed(call[t][1], call[t][2])
    BY <1>4 DEF Answers, Expr, Cfg
  <2> QED BY <1>4, <2>1, <2>2, <2>3 DEF Service!Answer
<1>5. ASSUME NEW t \in Threads, NEW where, where # "idle", pc[t] # "idle", Goto(t, where),
             UNCHANGED <<call, answer>>
      PROVE  UNCHANGED <<call, Busy, answer>>
  <2>1. Busy' = Busy \cup {t} /\ t \in Busy
    BY <1>2, <1>5 DEF At
  <2> QED BY <1>5, <2>1
<1>6. ASSUME NEW t \in Threads, Step(t)
      PROVE  Service!Answer(t) \/ UNCHANGED <<call, Busy, answer>>
  <2>1. CASE InternRead(t) \/ InternWrite(t)
    <3>1. PICK where \in {"lookup", "internWrite"} : Goto(t, where)
      BY <2>1 DEF InternRead, InternWrite
    <3>2. pc[t] # "idle" /\ UNCHANGED <<call, answer>>
      BY <2>1 DEF InternRead, InternWrite, At
    <3> QED BY <1>5, <3>1, <3>2
  <2>2. CASE LookupFingerprint(t) /\ FingerprintKey(t) \in DOMAIN expr_fp
    <3>1. /\ pc[t] # "idle" /\ Goto(t, "idle") /\ UNCHANGED call
          /\ answer' = [answer EXCEPT ![t] = expr_fp[FingerprintKey(t)]]
      BY <2>2 DEF LookupFingerprint, At
    <3>2. expr_fp[FingerprintKey(t)] \in Answers(t)
      <4>1. expr_fp[FingerprintKey(t)]
                \in Service!Allowed(FingerprintKey(t).expr, FingerprintKey(t).cfg)
        BY <2>2 DEF Right, CachesRight
      <4> QED BY <4>1 DEF FingerprintKey, Answers
    <3> QED BY <1>4, <3>1, <3>2
  <2>3. CASE LookupFingerprint(t) /\ FingerprintKey(t) \notin DOMAIN expr_fp
    <3>1. pc[t] # "idle" /\ Goto(t, "compute") /\ UNCHANGED <<call, answer>>
      BY <2>3 DEF LookupFingerprint, At
    <3> QED BY <1>5, <3>1
  <2>4. CASE LookupSymbol(t) \/ Symbolize(t)
    <3>1. PICK where \in {"store", "weights", "symbolize"} : Goto(t, where)
      BY <2>4 DEF LookupSymbol, Symbolize, End, Start
    <3>2. pc[t] # "idle" /\ UNCHANGED <<call, answer>>
      BY <2>4 DEF LookupSymbol, Symbolize, At
    <3> QED BY <1>5, <3>1, <3>2
  <2>5. CASE SkipWeight(t) \/ GiveUp(t) \/ LookupBasis(t) \/ BuildBasis(t) \/ FinishWeights(t)
    <3>1. PICK where \in {"store", "weights", "build"} : Goto(t, where)
      BY <2>5 DEF SkipWeight, GiveUp, LookupBasis, BuildBasis, FinishWeights, End, Weighed
    <3>2. pc[t] # "idle" /\ UNCHANGED <<call, answer>>
      BY <2>5 DEF SkipWeight, GiveUp, LookupBasis, BuildBasis, FinishWeights, At
    <3> QED BY <1>5, <3>1, <3>2
  <2>6. CASE Store(t)
    <3>1. /\ pc[t] # "idle" /\ Goto(t, "idle") /\ UNCHANGED call
          /\ answer' = [answer EXCEPT ![t] = fingerprint[t]]
      BY <2>6 DEF Store, At
    <3>2. fingerprint[t] \in Answers(t)
      BY <2>6 DEF Store, Right, CallRight
    <3> QED BY <1>4, <3>1, <3>2
  <2> QED BY <1>6, <2>1, <2>2, <2>3, <2>4, <2>5, <2>6 DEF Step
<1>7. CASE UNCHANGED vars
  <2>1. UNCHANGED <<call, pc, answer>>
    BY <1>7 DEF vars
  <2>2. Busy' = Busy
    BY <2>1 DEF At
  <2> QED BY <2>1, <2>2
<1> QED BY <1>3, <1>6, <1>7 DEF Next, Done, Service!Next

\* Refinement: whatever is cached and whoever else computes at the same time,
\* fingerprint_expr answers each call as the service does, from the call alone.
THEOREM CacheImplementsService == AlphabetsApart => (Spec => ImplementsService)
<1> SUFFICES ASSUME AlphabetsApart PROVE Spec => ImplementsService
  OBVIOUS
<1>1. Init => Service!Init
  BY DEF Init, At, Service!Init
<1>2. IInv /\ Right /\ [Next]_vars =>
          [Service!Next]_<<call, {t \in Threads : ~At(t, "idle")}, answer>>
  BY ServiceStep
<1>3. Spec => [](IInv /\ Right)
  BY CachesStayRight
<1> QED BY <1>1, <1>2, <1>3, PTL DEF Spec, ImplementsService, Service!Spec

\* A call without a time limit has one answer.
LEMMA OneAnswer ==
    ASSUME NEW e, NEW cfg, ~cfg.timed, NEW a \in Service!Allowed(e, cfg),
           NEW b \in Service!Allowed(e, cfg)
    PROVE  a = b
BY DEF Service!Allowed

\* Two threads that compute one fingerprint and store it one after the other, with
\* the lock given up in between, store the same: a stored fingerprint without a
\* time limit never changes.
THEOREM StoredForGood == AlphabetsApart => (Spec => EntriesStable)
<1> SUFFICES ASSUME AlphabetsApart PROVE Spec => EntriesStable
  OBVIOUS
<1>1. ASSUME IInv, Right, [Next]_vars, NEW k \in DOMAIN expr_fp, ~k.cfg.timed
      PROVE  k \in DOMAIN expr_fp' /\ expr_fp'[k] = expr_fp[k]
  <2>1. Right'
    BY <1>1, NextRight
  <2>2. k \in DOMAIN expr_fp'
    <3>1. ASSUME NEW t \in Threads, Step(t) PROVE UNCHANGED expr_fp \/ Store(t)
      BY <3>1 DEF Step, InternRead, InternWrite, LookupFingerprint, LookupSymbol, Symbolize,
                  SkipWeight, GiveUp, LookupBasis, BuildBasis, FinishWeights, caches
    <3>2. ASSUME NEW t \in Threads, Store(t) PROVE k \in DOMAIN expr_fp'
      BY <1>1, <3>2 DEF Store, Put
    <3>3. ASSUME NEW t \in Threads, Call(t) PROVE UNCHANGED expr_fp
      BY <3>3 DEF Call, caches
    <3>4. CASE UNCHANGED vars
      BY <1>1, <3>4 DEF vars, caches
    <3> QED BY <1>1, <3>1, <3>2, <3>3, <3>4 DEF Next, Done
  <2>3. /\ expr_fp[k] \in Service!Allowed(k.expr, k.cfg)
        /\ expr_fp'[k] \in Service!Allowed(k.expr, k.cfg)
    BY <1>1, <2>1, <2>2 DEF Right, CachesRight
  <2> QED BY <1>1, <2>2, <2>3, OneAnswer
<1>2. IInv /\ Right /\ [Next]_vars =>
          [\A k \in DOMAIN expr_fp :
              ~k.cfg.timed => k \in DOMAIN expr_fp' /\ expr_fp'[k] = expr_fp[k]]_vars
  BY <1>1
<1>3. Spec => [](IInv /\ Right)
  BY CachesStayRight
<1> QED BY <1>2, <1>3, PTL DEF Spec, EntriesStable
=============================================================================
