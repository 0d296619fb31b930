------------------------------ MODULE Pipeline ------------------------------
(***************************************************************************)
(* simplify_expr of the command line (pipeline.rs) without --symbol-aware: *)
(* the parsed expression is normalised, rewritten by simplify_algebra, and *)
(* the result is accepted, or given up for the normalised expression, by   *)
(* the symbol guard.                                                       *)
(***************************************************************************)
EXTENDS SimplifyAlgebra, SymbolRules

CONSTANTS
    Inputs,         \* parsed expressions
    Samples         \* the sample values of build_envs

Check == INSTANCE LegacyCheck WITH VarsOf <- VarsIn, DlogAt <- Dlog

Integrable(sym) == Check!CheckIntegrable(Alphabet(sym), Numbered(sym))

VARIABLES
    input,          \* the parsed expression
    noRewrite,      \* --no-rewrite
    noGuard,        \* --no-symbol-guard
    result          \* what simplify_expr returns

pipeline == <<vars, input, noRewrite, noGuard, result>>

\* The symbols agree, and the symbol is integrable or cannot be checked; a symbol
\* that cannot be computed is not compared.
Accepted(before, after) ==
    LET sb == Symbol(before)
        sc == Symbol(after)
    IN  sb # NotImplemented /\ sc # NotImplemented => sb = sc /\ Integrable(sc) # "false"

PipelineInit ==
    /\ input \in Inputs
    /\ baseline = Norm(input)
    /\ noRewrite \in BOOLEAN /\ noGuard \in BOOLEAN
    /\ result = None
    /\ Init

\* --no-rewrite returns the normalised expression.
SkipRewrite ==
    /\ noRewrite /\ result = None
    /\ result' = baseline
    /\ UNCHANGED <<vars, input, noRewrite, noGuard>>

\* simplify_algebra
Simplify ==
    /\ ~noRewrite /\ Step
    /\ UNCHANGED <<input, noRewrite, noGuard, result>>

\* Mutant: any rewriting with an integrable symbol is accepted.
GuardIntegrableOnly ==
    /\ ~noRewrite /\ phase = "extracted" /\ result = None
    /\ LET sc == Symbol(candidate)
       IN  result' = IF noGuard \/ sc = NotImplemented \/ Integrable(sc) # "false"
                     THEN candidate ELSE baseline
    /\ UNCHANGED <<vars, input, noRewrite, noGuard>>

\* An error of simplify_algebra is passed on.  lower_expr fails on no normal
\* form, which holds no empty sum or product, so InvalidArity is left out.
Guard ==
    /\ ~noRewrite /\ phase = "extracted" /\ result = None
    /\ result' = IF noGuard \/ candidate = InvalidExponent \/ Accepted(baseline, candidate)
                 THEN candidate ELSE baseline
    /\ UNCHANGED <<vars, input, noRewrite, noGuard>>

Done == result # None /\ UNCHANGED pipeline

PipelineNext == SkipRewrite \/ Simplify \/ Guard \/ Done

PipelineSpec == PipelineInit /\ [][PipelineNext]_pipeline

-----------------------------------------------------------------------------
(* Properties *)

\* End to end: simplify_expr returns an expression, and it has the value of the
\* input wherever the input has one, whether or not it was rewritten, and
\* whether or not its symbol could be compared.
InputValueKept ==
    result # None =>
        /\ result # InvalidExponent
        /\ Refines(Lower(result), Lower(input))

RECURSIVE Settled(_)
Settled(e) == IF Norm(e) = e THEN e ELSE Settled(Norm(e))

\* A symbol over letters that no further call of normalize changes.
SettledSymbol(sym) ==
    LET Word(w) == [i \in DOMAIN w |-> Settled(w[i])]
    IN  FoldLeft(LAMBDA acc, w : AddSymbols(acc, Term(Word(w), sym[w])), ZeroSymbol,
                 SetToSeq(DOMAIN sym))

\* With the guard on, what is returned has the symbol of the input itself, not
\* only of its normal form, unless one of the two has no computed symbol.  The
\* letters are compared when they are normalised for good: the input's letters
\* are normalised once and the result's several times, which can differ.
SymbolKept ==
    result # None /\ ~noGuard =>
        \/ NotImplemented \in {Symbol(input), Symbol(result)}
        \/ SettledSymbol(Symbol(result)) = SettledSymbol(Symbol(input))

\* A symbol that the rules compute is never found to be non-integrable: the
\* guard gives up a candidate only because its symbol differs.  (Half the symbol
\* of a logarithm times itself would be integrable; it is SymbolKept that
\* compares it with the square's.)
RulesIntegrable ==
    \A e \in {baseline} \cup ({candidate} \ {None, InvalidExponent}) :
        \A t \in Subterms(e) :
            Symbol(t) # NotImplemented => Integrable(Symbol(t)) # "false"
=============================================================================
