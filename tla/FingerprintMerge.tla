--------------------------- MODULE FingerprintMerge ---------------------------
(***************************************************************************)
(* merge_fingerprints of the e-class analysis (analysis.rs): what is known *)
(* of a class when two classes with fingerprints become one.  Hashes of    *)
(* expressions and digests of fingerprints are natural numbers; nothing is *)
(* said of how they are computed.                                          *)
(***************************************************************************)
EXTENDS Integers

CONSTANTS
    Outcomes,       \* the contents of ByWeight
    Digest(_)       \* fingerprint_digest, of a ByWeight

ASSUME DigestAssumption == \A o \in Outcomes : Digest(o) \in Nat

\* reason_tag
ReasonTag ==
    [SymbolNotImplemented |-> 1, SymbolEval |-> 2, InsufficientSamples |-> 3,
     BudgetExhausted |-> 4, InvalidExponent |-> 5, InvalidArity |-> 6, UnsupportedNode |-> 7]

ByWeight(outcome) == [kind |-> "ByWeight", weights |-> outcome]
Unknown(reason, hash) == [kind |-> "Unknown", reason |-> reason, hash |-> hash]
Conflict(left, right) == [kind |-> "Conflict", left |-> left, right |-> right]

Fingerprint ==
    [kind : {"ByWeight"}, weights : Outcomes]
    \cup [kind : {"Unknown"}, reason : DOMAIN ReasonTag, hash : Nat]
    \cup [kind : {"Conflict"}, left : Nat, right : Nat]

\* Pairs of numbers in lexicographic order.
PairLeq(a, b, c, d) == a < c \/ (a = c /\ b <= d)

\* Mutant: two different known fingerprints make no conflict.
MergeFingerprintsKeep(left, right) ==
    IF left.kind = "Conflict" THEN left
    ELSE IF right.kind = "Conflict" THEN right
    ELSE IF left.kind = "Unknown" THEN left
    ELSE IF right.kind = "Unknown" THEN right ELSE left

\* Mutant: what is known wins over what is not.
MergeFingerprintsKnown(left, right) ==
    IF left.kind = "ByWeight" THEN left ELSE right

\* merge_fingerprints.  Equal fingerprints merge to themselves; a conflict
\* absorbs everything, then an unknown; of two conflicts or two unknowns the
\* smaller one stays.
MergeFingerprints(left, right) ==
    CASE left = right -> left
      [] left # right /\ left.kind = "Conflict" /\ right.kind = "Conflict" ->
            IF PairLeq(left.left, left.right, right.left, right.right) THEN left ELSE right
      [] left # right /\ left.kind = "Conflict" /\ right.kind # "Conflict" -> left
      [] left # right /\ left.kind # "Conflict" /\ right.kind = "Conflict" -> right
      [] left # right /\ left.kind = "Unknown" /\ right.kind = "Unknown" ->
            IF PairLeq(ReasonTag[left.reason], left.hash, ReasonTag[right.reason], right.hash)
            THEN left ELSE right
      [] left # right /\ left.kind = "Unknown" /\ right.kind = "ByWeight" -> left
      [] left # right /\ left.kind = "ByWeight" /\ right.kind = "Unknown" -> right
      [] left # right /\ left.kind = "ByWeight" /\ right.kind = "ByWeight" ->
            IF Digest(left.weights) <= Digest(right.weights)
            THEN Conflict(Digest(left.weights), Digest(right.weights))
            ELSE Conflict(Digest(right.weights), Digest(left.weights))

\* How little a fingerprint says.
Rank(fp) == CASE fp.kind = "ByWeight" -> 0 [] fp.kind = "Unknown" -> 1 [] fp.kind = "Conflict" -> 2

\* Fingerprint g says as much as f or less, or the same kind of thing with a
\* smaller key.
NoBetter(g, f) ==
    \/ Rank(g) > Rank(f)
    \/ g = f
    \/ g.kind = "Unknown" /\ f.kind = "Unknown"
       /\ PairLeq(ReasonTag[g.reason], g.hash, ReasonTag[f.reason], f.hash)
    \/ g.kind = "Conflict" /\ f.kind = "Conflict"
       /\ PairLeq(g.left, g.right, f.left, f.right)
=============================================================================
