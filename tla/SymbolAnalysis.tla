---------------------------- MODULE SymbolAnalysis ----------------------------
(***************************************************************************)
(* mpl_rewrite_symbol::simplify_symbol_aware: equality saturation with the *)
(* analysis SymbolAnalysis, whose data are those of SymbolData with normal *)
(* forms for representatives and the fingerprints of their symbols.  What  *)
(* extraction picks among the expressions of the root's class is left open *)
(* here; the module Extractor models the choice.  Fingerprints are         *)
(* computed without the cache, whose module shows that it changes no       *)
(* answer.                                                                 *)
(***************************************************************************)
EXTENDS SimplifyAlgebra, SymbolRules, SymbolData

CONSTANTS
    Fuel,               \* symbol_fuel
    WeightLimit,        \* symbol_weight_limit, or None
    BasisFails(_),      \* no basis is built over these letters
    ExprHash(_)         \* ExprKey.hash of an expression

-----------------------------------------------------------------------------
(* fingerprint_expr *)

\* The constant that extract_constant finds, or zero.
ConstantPart(e) ==
    LET rats == SelectSeq(IF e.op = "add" THEN e.args ELSE <<e>>, LAMBDA t : t.op = "rat")
    IN  IF rats = <<>> THEN Zero ELSE rats[1].val

\* Symbol and constant as one sum of words.
Terms(e) == AddSymbols(Term(<<>>, ConstantPart(e)), Symbol(e))

LettersOf(sym) == UNION {ToSet(w) : w \in DOMAIN sym}
WeightPart(sym, n) == Restrict(sym, {w \in DOMAIN sym : Len(w) = n})

\* A weight over the limit gets no fingerprint; weight 0 always does.
OverLimit(n) == WeightLimit # None /\ n # 0 /\ n > WeightLimit

\* build_alphabet normalises the letters once more.
AlphabetOf(part) == {Norm(l) : l \in LettersOf(part)}

\* reduce_to_basis looks the normalised letters up in an alphabet that it has
\* normalised again: a letter that a further call still changes is not found.
LettersFound(alphabet) == alphabet \subseteq {Norm(l) : l \in alphabet}

\* The words over the letters of the alphabet.
WordsIn(part) ==
    LET Letters(w) == [i \in DOMAIN w |-> Norm(w[i])]
    IN  FoldLeft(LAMBDA sym, w : AddSymbols(sym, Term(Letters(w), part[w])), ZeroSymbol,
                 SetToSeq(DOMAIN part))

\* The coordinates and the residual of one weight over the basis of its own
\* letters determine its words, and are determined by them.
Outcome(e, n, part) ==
    LET alphabet == AlphabetOf(part)
        Failed(reason) == [failed |-> reason, hash |-> ExprHash(e)]
    IN  CASE OverLimit(n) -> Failed("BudgetExhausted")
          [] ~OverLimit(n) /\ BasisFails(alphabet) -> Failed("InsufficientSamples")
          [] ~OverLimit(n) /\ ~BasisFails(alphabet) ->
                IF LettersFound(alphabet) THEN [words |-> WordsIn(part)]
                ELSE Failed("SymbolNotImplemented")

\* The expression is normalised, although representatives are already.  Fuel is
\* looked at before the symbol, and spent on each weight within the limit.
FingerprintOf(expr) ==
    LET e == Norm(expr)
        weights == {Len(w) : w \in DOMAIN Terms(e)}
        spent == Cardinality({n \in weights : ~OverLimit(n)})
    IN  IF Fuel = 0 THEN Unknown("BudgetExhausted", ExprHash(e))
        ELSE IF Symbol(e) = NotImplemented THEN Unknown("SymbolNotImplemented", ExprHash(e))
        ELSE IF spent > Fuel THEN Unknown("BudgetExhausted", ExprHash(e))
        ELSE ByWeight([n \in weights |-> Outcome(e, n, WeightPart(Terms(e), n))])

-----------------------------------------------------------------------------
(* SymbolAnalysis *)

\* invalid_pow_placeholder; no variable has this name.
Placeholder == Var(0)

\* The number an exponent stands for: its constant, or else its representative.
ExponentData(d) ==
    IF d.const # None THEN d.const
    ELSE IF d.repr.op = "rat" THEN d.repr.val ELSE None

Exponent(d) == IF ExponentData(d) = None THEN None ELSE ExponentOf(ExponentData(d))

\* Mutant: base and exponent are mixed up.
ReprFromEnodeSwapped(n, data) ==
    CASE n.op = "num" -> Rat(n.val)
      [] n.op = "var" -> Var(n.val)
      [] n.op = "+" -> Add(<<data[1].repr, data[2].repr>>)
      [] n.op = "*" -> Mul(<<data[1].repr, data[2].repr>>)
      [] n.op \in {"log", "li2"} -> [op |-> n.op, arg |-> data[1].repr]
      [] n.op = "^" -> IF Exponent(data[1]) = None THEN Placeholder
                       ELSE Pow(data[2].repr, Exponent(data[1]))

ReprFromEnode(n, data) ==
    CASE n.op = "num" -> Rat(n.val)
      [] n.op = "var" -> Var(n.val)
      [] n.op = "+" -> Add(<<data[1].repr, data[2].repr>>)
      [] n.op = "*" -> Mul(<<data[1].repr, data[2].repr>>)
      [] n.op \in {"log", "li2"} -> [op |-> n.op, arg |-> data[1].repr]
      [] n.op = "^" -> IF Exponent(data[2]) = None THEN Placeholder
                       ELSE Pow(data[1].repr, Exponent(data[2]))

\* The representatives are normal forms.
NormalRepr(n, data) == Norm(ReprFromEnode(n, data))

\* The placeholder is not asked for a symbol.
FingerprintOfRepr(repr) ==
    IF repr = Placeholder THEN Unknown("InvalidExponent", ExprHash(repr)) ELSE FingerprintOf(repr)

\* Canonical strings decide between representatives of one size.
TextBefore(e, f) == TextLess(Text(e), Text(f))

-----------------------------------------------------------------------------
(* simplify_symbol_aware *)

RECURSIVE AnyTrees(_, _, _)

\* The expressions of class k in which no class is below itself.
AnyTrees(g, k, above) ==
    LET Extend(trees, n, i) ==
            {Append(t, u) : t \in trees, u \in AnyTrees(g, n.kids[i], above \cup {k})}
        Below(n) == FoldLeft(LAMBDA acc, i : Extend(acc, n, i), {<<>>}, [i \in DOMAIN n.kids |-> i])
    IN  UNION {{[n EXCEPT !.kids = t] : t \in Below(n)} :
               n \in {n \in g.class[k].nodes : ToSet(n.kids) \cap (above \cup {k}) = {}}}

\* find_best and lift_expr, whose result is normalised again; no symbol guard
\* follows.
ExtractAware ==
    /\ HandOver
    /\ \E t \in AnyTrees(graph, Find(graph, root), {}) :
        candidate' = IF Liftable(t) THEN Norm(LiftExpr(t)) ELSE InvalidExponent

AwareNext == (Rewrite /\ UNCHANGED candidate) \/ ExtractAware \/ Returned

AwareSpec == Init /\ [][AwareNext]_vars

-----------------------------------------------------------------------------
(* Properties *)

\* The representative stands for its class: it has the value of whatever the ids
\* of the class were made from, and the placeholder for a bad exponent is in
\* none, although nodes are made from the representatives that their children
\* have at the time.  The constant is the value too.
ReprStandsForClass ==
    \A id \in DOMAIN graph.leader :
        LET data == DataOf(graph, id)
        IN  /\ Placeholder \notin Subterms(data.repr)
            /\ AgreesWith(graph, id, Lower(data.repr))
            /\ data.const # None => AgreesWith(graph, id, <<Num(data.const)>>)
=============================================================================
