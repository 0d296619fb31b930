--------------------------- MODULE FingerprintCache ---------------------------
(***************************************************************************)
(* mpl_rewrite_symbol::fingerprint_expr on a FingerprintCache shared by    *)
(* several threads.  Every lock of the cache is taken for one lookup or    *)
(* one insertion and released before anything else happens, so a critical  *)
(* section is one step; between two steps of a call other threads run.     *)
(* Poisoned locks are entered all the same (into_inner).                   *)
(***************************************************************************)
EXTENDS Fingerprints

CONSTANTS
    Threads,
    MaxCalls            \* bound: the calls of one thread

ASSUME MaxCallsAssumption == MaxCalls \in Nat

VARIABLES
    interner,           \* canonical string -> Arc
    expr_fp,            \* FingerprintKey -> Fingerprint
    symbol,             \* ExprKey -> Symbol
    basis,              \* BasisKey -> Basis
    pc, call, calls,    \* where each thread is, its call and their number
    key,                \* the Arc of the call's ExprKey, by thread
    sym,                \* the symbol of the call
    rest, fuel,         \* weights still to fingerprint, and the fuel left
    by_weight,          \* fingerprints of the weights done
    fingerprint,        \* the result being stored
    answer              \* the last answer of each thread, or Ok

caches == <<interner, expr_fp, symbol, basis>>
weighing == <<sym, rest, fuel, by_weight>>
vars == <<caches, pc, call, calls, key, weighing, fingerprint, answer>>

Empty == [x \in {} |-> Ok]
Put(f, k, v) == [x \in DOMAIN f \cup {k} |-> IF x = k THEN v ELSE f[x]]

Init ==
    /\ interner = Empty /\ expr_fp = Empty /\ symbol = Empty /\ basis = Empty
    /\ pc = [t \in Threads |-> "idle"]
    /\ call = [t \in Threads |-> Ok] /\ calls = [t \in Threads |-> 0]
    /\ key = [t \in Threads |-> Ok] /\ sym = [t \in Threads |-> Ok]
    /\ rest = [t \in Threads |-> {}] /\ fuel = [t \in Threads |-> 0]
    /\ by_weight = [t \in Threads |-> Empty]
    /\ fingerprint = [t \in Threads |-> Ok] /\ answer = [t \in Threads |-> Ok]

At(t, where) == pc[t] = where
Goto(t, where) == pc' = [pc EXCEPT ![t] = where]
Expr(t) == call[t][1]
Cfg(t) == call[t][2]

-----------------------------------------------------------------------------
(* The call and its key *)

Call(t) ==
    /\ At(t, "idle") /\ calls[t] < MaxCalls
    /\ \E r \in Requests : call' = [call EXCEPT ![t] = r]
    /\ calls' = [calls EXCEPT ![t] = @ + 1]
    /\ Goto(t, "intern")
    /\ UNCHANGED <<caches, key, weighing, fingerprint, answer>>

\* intern: the first lookup, under the read lock.
InternRead(t) ==
    /\ At(t, "intern")
    /\ IF Expr(t) \in DOMAIN interner
       THEN key' = [key EXCEPT ![t] = interner[Expr(t)]] /\ Goto(t, "lookup")
       ELSE Goto(t, "internWrite") /\ UNCHANGED key
    /\ UNCHANGED <<caches, call, calls, weighing, fingerprint, answer>>

\* A new Arc, named by the call that makes it.
NewArc(t) == <<t, calls[t]>>

\* Mutant: the write lock inserts without looking again.
InternUnchecked(t) ==
    /\ At(t, "internWrite")
    /\ interner' = Put(interner, Expr(t), NewArc(t))
    /\ key' = [key EXCEPT ![t] = NewArc(t)]
    /\ Goto(t, "lookup")
    /\ UNCHANGED <<expr_fp, symbol, basis, call, calls, weighing, fingerprint, answer>>

\* intern: look again and insert, under the write lock.
InternWrite(t) ==
    /\ At(t, "internWrite")
    /\ IF Expr(t) \in DOMAIN interner
       THEN UNCHANGED interner
       ELSE interner' = Put(interner, Expr(t), NewArc(t))
    /\ key' = [key EXCEPT ![t] = interner'[Expr(t)]]
    /\ Goto(t, "lookup")
    /\ UNCHANGED <<expr_fp, symbol, basis, call, calls, weighing, fingerprint, answer>>

\* Mutant: the fuel is left out of the hash of the configuration.
FingerprintKeyNoFuel(t) ==
    [expr |-> Expr(t), cfg |-> [Cfg(t) EXCEPT !.fuel = 0]]

\* fingerprint_cfg_hash covers every field of the configuration.
FingerprintKey(t) == [expr |-> Expr(t), cfg |-> Cfg(t)]

\* expr_fp.read: answer from the cache, or compute.
LookupFingerprint(t) ==
    /\ At(t, "lookup")
    /\ IF FingerprintKey(t) \in DOMAIN expr_fp
       THEN answer' = [answer EXCEPT ![t] = expr_fp[FingerprintKey(t)]] /\ Goto(t, "idle")
       ELSE Goto(t, "compute") /\ UNCHANGED answer
    /\ UNCHANGED <<caches, call, calls, key, weighing, fingerprint>>

-----------------------------------------------------------------------------
(* fingerprint_expr_uncached *)

\* The computation ends with fp, which is then stored.
End(t, fp) ==
    /\ fingerprint' = [fingerprint EXCEPT ![t] = fp]
    /\ sym' = [sym EXCEPT ![t] = Ok] /\ rest' = [rest EXCEPT ![t] = {}]
    /\ fuel' = [fuel EXCEPT ![t] = 0] /\ by_weight' = [by_weight EXCEPT ![t] = Empty]
    /\ Goto(t, "store")

\* The weights of the symbol, or the empty fingerprint when there are none.
Start(t, s) ==
    /\ sym' = [sym EXCEPT ![t] = s]
    /\ rest' = [rest EXCEPT ![t] = Weights(Expr(t), s)]
    /\ fuel' = [fuel EXCEPT ![t] = Cfg(t).fuel]
    /\ by_weight' = [by_weight EXCEPT ![t] = Empty]
    /\ Goto(t, "weights")

\* No fuel at all, or the lookup of symbol_cached.
LookupSymbol(t) ==
    /\ At(t, "compute")
    /\ IF Cfg(t).fuel = 0
       THEN End(t, Unknown("BudgetExhausted", Expr(t)))
       ELSE /\ IF Expr(t) \in DOMAIN symbol
               THEN Start(t, symbol[Expr(t)])
               ELSE Goto(t, "symbolize") /\ UNCHANGED weighing
            /\ UNCHANGED fingerprint
    /\ UNCHANGED <<caches, call, calls, key, answer>>

\* symbol_cached computes; only a symbol is inserted, an error is not.
Symbolize(t) ==
    /\ At(t, "symbolize")
    /\ LET s == SymbolOf(Expr(t)) IN
        IF s.error # Ok
        THEN End(t, Unknown(s.error, Expr(t))) /\ UNCHANGED symbol
        ELSE /\ symbol' = Put(symbol, Expr(t), s)
             /\ Start(t, s) /\ UNCHANGED fingerprint
    /\ UNCHANGED <<interner, expr_fp, basis, call, calls, key, answer>>

Weight(t) == Min(rest[t])

\* The weight is done: its fingerprint goes to by_weight.
Weighed(t, wf) ==
    /\ by_weight' = [by_weight EXCEPT ![t] = Put(@, Weight(t), wf)]
    /\ rest' = [rest EXCEPT ![t] = @ \ {Weight(t)}]
    /\ Goto(t, "weights")

SkipWeight(t) ==
    /\ At(t, "weights") /\ rest[t] # {}
    /\ OverLimit(Cfg(t), Weight(t))
    /\ Weighed(t, WeightUnknown(Weight(t), "BudgetExhausted", Expr(t)))
    /\ UNCHANGED <<caches, call, calls, key, sym, fuel, fingerprint, answer>>

\* The fuel or the time is used up: what was done is thrown away.
GiveUp(t) ==
    /\ At(t, "weights") /\ rest[t] # {}
    /\ ~OverLimit(Cfg(t), Weight(t))
    /\ fuel[t] = 0 \/ Cfg(t).timed
    /\ End(t, Unknown("BudgetExhausted", Expr(t)))
    /\ UNCHANGED <<caches, call, calls, key, answer>>

BasisKeyOf(t) == BasisKey(Weight(t), Alphabet(sym[t], Weight(t)), Cfg(t))

\* Mutant: the fuel is not checked.
SpendUnchecked(t) == fuel' = [fuel EXCEPT ![t] = @ - 1]

\* Each weight within the limit costs one unit of fuel.
Spend(t) == fuel[t] > 0 /\ fuel' = [fuel EXCEPT ![t] = @ - 1]

\* basis_cached: the lookup.
LookupBasis(t) ==
    /\ At(t, "weights") /\ rest[t] # {}
    /\ ~OverLimit(Cfg(t), Weight(t))
    /\ Spend(t)
    /\ IF BasisKeyOf(t) \in DOMAIN basis
       THEN Weighed(t, WeightFingerprint(Expr(t), Cfg(t), sym[t], Weight(t),
                                         [error |-> Ok, basis |-> basis[BasisKeyOf(t)]]))
       ELSE Goto(t, "build") /\ UNCHANGED <<rest, by_weight>>
    /\ UNCHANGED <<caches, call, calls, key, sym, fingerprint, answer>>

\* Mutant: a failed build is tried again.
BuildBasisRetry(t) ==
    /\ At(t, "build")
    /\ LET built == Build(Alphabet(sym[t], Weight(t)), Cfg(t).constraints, Weight(t)) IN
        IF built.error # Ok THEN UNCHANGED <<basis, by_weight, rest, pc>>
        ELSE /\ basis' = Put(basis, BasisKeyOf(t), built.basis)
             /\ Weighed(t, WeightFingerprint(Expr(t), Cfg(t), sym[t], Weight(t), built))
    /\ UNCHANGED <<interner, expr_fp, symbol, call, calls, key, sym, fuel, fingerprint, answer>>

\* basis_cached: build and insert; an error is not inserted.
BuildBasis(t) ==
    /\ At(t, "build")
    /\ LET built == Build(Alphabet(sym[t], Weight(t)), Cfg(t).constraints, Weight(t)) IN
        /\ IF built.error # Ok THEN UNCHANGED basis
           ELSE basis' = Put(basis, BasisKeyOf(t), built.basis)
        /\ Weighed(t, WeightFingerprint(Expr(t), Cfg(t), sym[t], Weight(t), built))
    /\ UNCHANGED <<interner, expr_fp, symbol, call, calls, key, sym, fuel, fingerprint, answer>>

FinishWeights(t) ==
    /\ At(t, "weights") /\ rest[t] = {}
    /\ End(t, ByWeight(by_weight[t]))
    /\ UNCHANGED <<caches, call, calls, key, answer>>

\* expr_fp.write: insert whatever another thread may have stored, and return.
Store(t) ==
    /\ At(t, "store")
    /\ expr_fp' = Put(expr_fp, FingerprintKey(t), fingerprint[t])
    /\ answer' = [answer EXCEPT ![t] = fingerprint[t]]
    /\ fingerprint' = [fingerprint EXCEPT ![t] = Ok]
    /\ Goto(t, "idle")
    /\ UNCHANGED <<interner, symbol, basis, call, calls, key, weighing>>

Step(t) ==
    \/ InternRead(t) \/ InternWrite(t) \/ LookupFingerprint(t)
    \/ LookupSymbol(t) \/ Symbolize(t)
    \/ SkipWeight(t) \/ GiveUp(t) \/ LookupBasis(t) \/ BuildBasis(t)
    \/ FinishWeights(t) \/ Store(t)

\* Every thread has made its calls.
Done == (\A t \in Threads : At(t, "idle") /\ calls[t] = MaxCalls) /\ UNCHANGED vars

Next == (\E t \in Threads : Call(t) \/ Step(t)) \/ Done

Spec == Init /\ [][Next]_vars

\* A thread that is inside a call is scheduled again and again.
FairSpec == Spec /\ \A t \in Threads : WF_vars(Step(t))

-----------------------------------------------------------------------------
(* Properties *)

\* Where a thread holds the key of its call.
Keyed == {"lookup", "compute", "symbolize", "weights", "build", "store"}

\* Types; a thread that builds a basis has a weight to build it for.
TypeOK ==
    /\ pc \in [Threads -> {"idle", "intern", "internWrite"} \cup Keyed]
    /\ call \in [Threads -> Requests \cup {Ok}]
    /\ calls \in [Threads -> 0 .. MaxCalls]
    /\ \A t \in Threads :
        /\ ~At(t, "idle") => call[t] \in Requests
        /\ fuel[t] \in Nat
        /\ At(t, "build") => rest[t] # {}

\* Equal canonical strings share one Arc: all ExprKeys that are in use hold the
\* Arc of the interner, whatever the order in which threads interned them.
InternedOnce ==
    \A t \in Threads :
        (At(t, "idle") /\ calls[t] > 0) \/ pc[t] \in Keyed =>
            Expr(t) \in DOMAIN interner /\ key[t] = interner[Expr(t)]

\* fingerprint_expr implements the service: whatever is cached and whoever else
\* is computing, the answer is the fingerprint of the call.
Service ==
    INSTANCE FingerprintService WITH
        asked <- call, busy <- {t \in Threads : ~At(t, "idle")}

ImplementsService == Service!Spec

\* A stored fingerprint never changes unless its configuration has a time
\* limit: a thread that finishes late stores what is there already.
EntriesStable ==
    [][\A k \in DOMAIN expr_fp :
        ~k.cfg.timed => k \in DOMAIN expr_fp' /\ expr_fp'[k] = expr_fp[k]]_vars

\* "Cached bases keyed by alphabet/constraints/weight" (cache.rs): the basis a
\* thread finds for its weight was built from its alphabet.
BasisOfAlphabet ==
    \A t \in Threads :
        At(t, "weights") /\ rest[t] # {} /\ BasisKeyOf(t) \in DOMAIN basis =>
            basis[BasisKeyOf(t)] =
                Build(Alphabet(sym[t], Weight(t)), Cfg(t).constraints, Weight(t)).basis

\* Every call returns.
CallsReturn == \A t \in Threads : ~At(t, "idle") ~> At(t, "idle")
=============================================================================
