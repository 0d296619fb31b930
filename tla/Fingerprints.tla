---------------------------- MODULE Fingerprints ----------------------------
(***************************************************************************)
(* The values mpl-rewrite-symbol's fingerprinting works with: expressions  *)
(* and configurations, and the fingerprints they get.  symbol(),           *)
(* build_integrable_basis and reduce_to_basis are parameters here; the     *)
(* modules IntegrableBasis and SpaceQueries say what the last two do.      *)
(***************************************************************************)
EXTENDS Integers, FiniteSets, SequencesExt

CONSTANTS
    Requests,           \* calls: <<expression, configuration>>; an expression
                        \* is its canonical string, a configuration a record
                        \* [limit, fuel, timed, constraints]
    Ok,                 \* no error
    NoLimit,            \* weight_limit = None
    SymbolOf(_),        \* [error, letters]: the alphabet of each weight
    HasConstant(_),     \* extract_constant finds a nonzero constant
    Build(_, _, _),     \* [error, basis] of an alphabet, constraints, weight
    Reduce(_, _, _)     \* [error, kind, coords] of an expression's part of
                        \* one weight against a basis

ASSUME RequestAssumption ==
    \A r \in Requests :
        /\ r[2].fuel \in Nat /\ r[2].timed \in BOOLEAN
        /\ r[2].limit \in Nat \cup {NoLimit}
        /\ DOMAIN SymbolOf(r[1]).letters \subseteq Nat
        /\ IsFiniteSet(DOMAIN SymbolOf(r[1]).letters)

Unknown(reason, e) == [kind |-> "Unknown", reason |-> reason, expr |-> e]
ByWeight(f) == [kind |-> "ByWeight", weights |-> f]
WeightUnknown(w, reason, e) ==
    [kind |-> "Unknown", weight |-> w, reason |-> reason, expr |-> e]

\* terms_by_weight: the weights of the symbol, and 0 for a constant.
Weights(e, sym) == DOMAIN sym.letters \cup (IF HasConstant(e) THEN {0} ELSE {})

\* build_alphabet: the names of the letters of one weight in order.
Alphabet(sym, w) == IF w \in DOMAIN sym.letters THEN sym.letters[w] ELSE <<>>

\* What the hasher of build_alphabet is fed: the number of letters and then
\* their names, one after the other.
AlphabetHash(letters) == <<Len(letters), FlattenSeq(letters)>>

\* A weight over the limit gets no fingerprint; weight 0 always does.
OverLimit(cfg, w) == cfg.limit # NoLimit /\ w # 0 /\ w > cfg.limit

\* Mutant: the constraints are left out of the key.
BasisKeyUnconstrained(w, letters, cfg) ==
    [weight |-> w, alphabet |-> AlphabetHash(letters), constraints |-> Ok]

BasisKey(w, letters, cfg) ==
    [weight |-> w, alphabet |-> AlphabetHash(letters), constraints |-> cfg.constraints]

\* fingerprint_weight, once basis_cached has answered.
WeightFingerprint(e, cfg, sym, w, built) ==
    IF built.error # Ok THEN WeightUnknown(w, built.error, e)
    ELSE LET r == Reduce(e, w, built.basis)
         IN  IF r.error # Ok THEN WeightUnknown(w, r.error, e)
             ELSE [kind |-> r.kind, weight |-> w, coords |-> r.coords,
                   basis_id |-> BasisKey(w, Alphabet(sym, w), cfg)]
=============================================================================
