----------------------------- MODULE SymbolRules -----------------------------
(***************************************************************************)
(* mpl_symbol::symbol: the symbol of an expression, a function from words  *)
(* to their nonzero coefficients.  A word is a sequence of letters, and a  *)
(* letter is a normalised expression; the code compares words by the       *)
(* canonical strings of their letters, which name expressions one to one.  *)
(***************************************************************************)
EXTENDS CanonicalForm

CONSTANT NotImplemented         \* SymbolError::NotImplemented

-----------------------------------------------------------------------------
(* Symbol (tensor.rs) *)

ZeroSymbol == [w \in {} |-> Zero]

\* One term, which is not kept if its coefficient is zero.
Term(word, c) == IF c = Zero THEN ZeroSymbol ELSE word :> c

CoeffOf(sym, word) == IF word \in DOMAIN sym THEN sym[word] ELSE Zero

\* add_term and add_assign: words whose coefficients cancel are dropped.
AddSymbols(sym, other) ==
    LET total == [w \in DOMAIN sym \cup DOMAIN other |->
                    Plus(CoeffOf(sym, w), CoeffOf(other, w))]
    IN  Restrict(total, {w \in DOMAIN total : total[w] # Zero})

Scale(sym, c) ==
    IF c = Zero THEN ZeroSymbol ELSE [w \in DOMAIN sym |-> Times(sym[w], c)]

-----------------------------------------------------------------------------
(* The rules (rules.rs) *)

IsAlgebraic(e) == \A t \in Subterms(e) : t.op \notin {"log", "li2"}

SymbolLog(inner) ==
    LET letter == Norm(inner)
    IN  IF IsAlgebraic(letter) THEN Term(<<letter>>, One) ELSE NotImplemented

SymbolLi2(inner) ==
    LET letter == Norm(inner)
        oneMinus == Norm(Add(<<Rat(One), Mul(<<Rat(Neg(One)), letter>>)>>))
    IN  IF IsAlgebraic(letter) THEN Term(<<oneMinus, letter>>, Neg(One)) ELSE NotImplemented

\* Mutant: only one of the two shuffles is added.
LogTimesLogOnce(left, right, c) ==
    LET s == Norm(left)
        t == Norm(right)
    IN  IF IsAlgebraic(s) /\ IsAlgebraic(t) THEN Term(<<s, t>>, c) ELSE NotImplemented

\* The shuffle product of two logarithms.
LogTimesLog(left, right, c) ==
    LET s == Norm(left)
        t == Norm(right)
    IN  IF IsAlgebraic(s) /\ IsAlgebraic(t)
        THEN AddSymbols(Term(<<s, t>>, c), Term(<<t, s>>, c))
        ELSE NotImplemented

SymbolPow(base, n) ==
    CASE base.op = "log" /\ n = 2 ->
            LET letter == Norm(base.arg)
            IN  IF IsAlgebraic(letter) THEN Term(<<letter, letter>>, FromInt(2)) ELSE NotImplemented
      [] base.op # "log" /\ IsAlgebraic(base) -> ZeroSymbol
      [] OTHER -> NotImplemented

RECURSIVE Symbol(_)

\* The constant of a product: its numbers, and a sign for each negation.
ProductSign(args) ==
    FoldLeft(LAMBDA c, e : CASE e.op = "rat" -> Times(c, e.val)
                             [] e.op = "neg" -> Neg(c)
                             [] OTHER -> c, One, args)

SymbolMul(args) ==
    LET c == ProductSign(args)
        rest == SelectSeq(args, LAMBDA e : e.op # "rat")
        factors == [i \in DOMAIN rest |-> IF rest[i].op = "neg" THEN rest[i].arg ELSE rest[i]]
    IN  CASE c = Zero \/ factors = <<>> -> ZeroSymbol
          [] c # Zero /\ Len(factors) = 1 ->
                LET inner == Symbol(factors[1])
                IN  IF inner = NotImplemented THEN inner ELSE Scale(inner, c)
          [] c # Zero /\ Len(factors) > 1 ->
                IF Len(factors) = 2 /\ \A i \in 1 .. 2 : factors[i].op = "log"
                THEN LogTimesLog(factors[1].arg, factors[2].arg, c)
                ELSE IF \A i \in DOMAIN factors : IsAlgebraic(factors[i]) THEN ZeroSymbol
                ELSE NotImplemented

Symbol(e) ==
    CASE e.op = "log" -> SymbolLog(e.arg)
      [] e.op = "li2" -> SymbolLi2(e.arg)
      [] e.op = "add" ->
            LET parts == [i \in DOMAIN e.args |-> Symbol(e.args[i])]
            IN  IF \E i \in DOMAIN parts : parts[i] = NotImplemented THEN NotImplemented
                ELSE FoldLeft(AddSymbols, ZeroSymbol, parts)
      [] e.op = "mul" -> SymbolMul(e.args)
      [] e.op = "neg" ->
            LET inner == Symbol(e.arg)
            IN  IF inner = NotImplemented THEN inner ELSE Scale(inner, Neg(One))
      [] e.op = "pow" -> SymbolPow(e.arg, e.exp)
      [] e.op \in {"rat", "var"} -> ZeroSymbol

-----------------------------------------------------------------------------
(* Letters as numbers *)

\* A symbol as check_integrable and the space engine take it here: its letters
\* in the order of their strings, and its words over their numbers.
Alphabet(sym) ==
    SortSeq(SetToSeq(UNION {ToSet(w) : w \in DOMAIN sym}), LAMBDA a, b : TextLess(Text(a), Text(b)))

Numbered(sym) ==
    LET letters == Alphabet(sym)
        Index(l) == CHOOSE i \in DOMAIN letters : letters[i] = l
        Code(w) == [i \in DOMAIN w |-> Index(w[i])]
    IN  [v \in {Code(w) : w \in DOMAIN sym} |-> sym[[i \in DOMAIN v |-> letters[v[i]]]]]
=============================================================================
