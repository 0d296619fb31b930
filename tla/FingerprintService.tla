------------------------- MODULE FingerprintService -------------------------
(***************************************************************************)
(* What fingerprint_expr promises to the threads that call it: an answer   *)
(* that depends on the expression and the configuration alone, and not on  *)
(* what was asked before or is being asked by others.                      *)
(***************************************************************************)
EXTENDS Fingerprints

CONSTANT Threads
VARIABLES
    asked,      \* the call of each thread, or the last one
    busy,       \* the threads inside fingerprint_expr
    answer      \* the last answer of each thread, or Ok

\* The weights that use fuel and get a fingerprint: those within the limit,
\* and the constant part in any case.
Within(cfg, w) == w = 0 \/ (cfg.limit # NoLimit => w <= cfg.limit)
Counted(e, cfg) == {w \in Weights(e, SymbolOf(e)) : Within(cfg, w)}

\* The fingerprint of an expression, from a fresh basis for each weight.
Reference(e, cfg) ==
    LET sym == SymbolOf(e) IN
    CASE cfg.fuel = 0 -> Unknown("BudgetExhausted", e)
      [] cfg.fuel > 0 /\ sym.error # Ok -> Unknown(sym.error, e)
      [] cfg.fuel > 0 /\ sym.error = Ok /\ Cardinality(Counted(e, cfg)) > cfg.fuel ->
            Unknown("BudgetExhausted", e)
      [] OTHER ->
            ByWeight([w \in Weights(e, sym) |->
                IF ~Within(cfg, w) THEN WeightUnknown(w, "BudgetExhausted", e)
                ELSE WeightFingerprint(e, cfg, sym, w,
                        Build(Alphabet(sym, w), cfg.constraints, w))])

\* A time limit may end the computation before any of its weights.
Allowed(e, cfg) ==
    {Reference(e, cfg)} \cup
    IF cfg.timed /\ Counted(e, cfg) # {} /\ SymbolOf(e).error = Ok
    THEN {Unknown("BudgetExhausted", e)} ELSE {}

Init == asked = [t \in Threads |-> Ok] /\ busy = {} /\ answer = [t \in Threads |-> Ok]

Ask(t) ==
    /\ t \notin busy
    /\ \E r \in Requests : asked' = [asked EXCEPT ![t] = r]
    /\ busy' = busy \cup {t}
    /\ UNCHANGED answer

Answer(t) ==
    /\ t \in busy
    /\ \E fp \in Allowed(asked[t][1], asked[t][2]) : answer' = [answer EXCEPT ![t] = fp]
    /\ busy' = busy \ {t}
    /\ UNCHANGED asked

Next == \E t \in Threads : Ask(t) \/ Answer(t)

Spec == Init /\ [][Next]_<<asked, busy, answer>>
=============================================================================
