------------------------------- MODULE Parser -------------------------------
(***************************************************************************)
(* mpl_ir::parse_sexpr and to_canonical_string, over tokens.  A token is a *)
(* parenthesis or an atom, and an atom is what it denotes: an integer, a   *)
(* proper fraction, a fraction that is no number (1/0, 1/x), or a word.    *)
(* The first words name the operators; any word but / is a variable where  *)
(* an argument is expected.                                                *)
(***************************************************************************)
EXTENDS CanonicalForm

CONSTANTS
    IntegerOf(_),   \* the integer that a coefficient is, or None
    Texts           \* sequences of tokens

LParen == <<"(">>
RParen == <<")">>
IntToken(n) == <<"int", n>>
RatioToken(c) == <<"ratio", c>>
BadToken == <<"bad">>
Word(w) == <<"word", w>>

Operators == <<"+", "*", "-", "^", "/", "log", "li2">>
OperatorOf(token) ==
    IF token[1] = "word" /\ token[2] \in DOMAIN Operators THEN Operators[token[2]] ELSE "unknown"
WordOf(op) == Word(CHOOSE w \in DOMAIN Operators : Operators[w] = op)

-----------------------------------------------------------------------------
(* parse_sexpr: an error, or an expression and the index after it *)

Parsed(e, next) == [err |-> None, expr |-> e, next |-> next]
Error(kind) == [err |-> kind, expr |-> None, next |-> 0]

\* parse_atom looks for a slash before anything else, so the word / alone is a
\* fraction of two empty numbers.
ParseAtom(token, next) ==
    CASE token[1] = "int" -> Parsed(Rat(FromInt(token[2])), next)
      [] token[1] = "ratio" -> Parsed(Rat(token[2]), next)
      [] token[1] = "bad" \/ token = WordOf("/") -> Error("InvalidNumber")
      [] token[1] = "word" /\ token # WordOf("/") -> Parsed(Var(token[2]), next)

RECURSIVE ParseExpr(_, _)
RECURSIVE ParseArgs(_, _, _)

\* The arguments up to the closing parenthesis, as a sequence.
ParseArgs(ts, i, args) ==
    IF i \notin DOMAIN ts THEN Error("ExpectedRParen")
    ELSE IF ts[i] = RParen THEN Parsed(args, i + 1)
    ELSE LET arg == ParseExpr(ts, i)
         IN  IF arg.err # None THEN arg ELSE ParseArgs(ts, arg.next, Append(args, arg.expr))

\* parse_pow_list and parse_exponent
ParsePow(ts, i) ==
    LET base == ParseExpr(ts, i)
        j == base.next
        atom == j \in DOMAIN ts /\ ts[j] \notin {LParen, RParen}
    IN  CASE base.err # None -> base
          [] base.err = None /\ ~atom -> Error("ExpectedExponent")
          [] base.err = None /\ atom ->
                IF ts[j][1] # "int" \/ ts[j][2] \notin Exponents THEN Error("InvalidExponent")
                ELSE IF j + 1 \notin DOMAIN ts THEN Error("ExpectedRParen")
                ELSE IF ts[j + 1] # RParen THEN Error("InvalidPowArity")
                ELSE Parsed(Pow(base.expr, ts[j][2]), j + 2)

\* An operator applied to its arguments, or an error.
Apply(op, args, next) ==
    CASE op = "+" -> Parsed(Add(args), next)
      [] op = "*" -> Parsed(Mul(args), next)
      [] op = "-" -> IF Len(args) = 1 THEN Parsed(Negate(args[1]), next)
                     ELSE Error("InvalidUnaryMinus")
      [] op = "log" -> IF Len(args) = 1 THEN Parsed(Log(args[1]), next)
                       ELSE Error("InvalidLogArity")
      [] op = "li2" -> IF Len(args) = 1 THEN Parsed(Li2(args[1]), next)
                       ELSE Error("InvalidLi2Arity")
      [] op = "/" -> IF Len(args) >= 2
                     THEN Parsed(Mul([i \in DOMAIN args |->
                                        IF i = 1 THEN args[1] ELSE Pow(args[i], -1)]), next)
                     ELSE Error("InvalidDivisionArity")
      [] op = "unknown" -> Error("UnknownOperator")

\* parse_list; i is the index after the opening parenthesis.
ParseList(ts, i) ==
    CASE i \notin DOMAIN ts -> Error("ExpectedOperator")
      [] i \in DOMAIN ts /\ ts[i] \in {LParen, RParen} -> Error("UnexpectedToken")
      [] i \in DOMAIN ts /\ ts[i] \notin {LParen, RParen} ->
            LET op == OperatorOf(ts[i])
                args == ParseArgs(ts, i + 1, <<>>)
            IN  IF op = "^" THEN ParsePow(ts, i + 1)
                ELSE IF args.err # None THEN args
                ELSE Apply(op, args.expr, args.next)

ParseExpr(ts, i) ==
    CASE i \notin DOMAIN ts -> Error("Eof")
      [] i \in DOMAIN ts /\ ts[i] = LParen -> ParseList(ts, i + 1)
      [] i \in DOMAIN ts /\ ts[i] = RParen -> Error("UnexpectedToken")
      [] i \in DOMAIN ts /\ ts[i] \notin {LParen, RParen} -> ParseAtom(ts[i], i + 1)

\* Mutant: tokens after the expression are not looked at.
ParseSexprPrefix(ts) == ParseExpr(ts, 1)

ParseSexpr(ts) ==
    LET r == ParseExpr(ts, 1)
    IN  IF r.err = None /\ r.next # Len(ts) + 1 THEN Error("UnexpectedToken") ELSE r

-----------------------------------------------------------------------------
(* to_canonical_string *)

NumberToken(c) == IF IntegerOf(c) = None THEN RatioToken(c) ELSE IntToken(IntegerOf(c))

RECURSIVE CanonicalString(_)

InList(op, tokens) == <<LParen, WordOf(op)>> \o tokens \o <<RParen>>

\* Mutant: an inverse is printed as a division.
CanonicalStringInverse(e) ==
    LET sign == [add |-> "+", mul |-> "*", neg |-> "-", log |-> "log", li2 |-> "li2"]
    IN  CASE e.op = "rat" -> <<NumberToken(e.val)>>
          [] e.op = "var" -> <<Word(e.name)>>
          [] e.op = "pow" /\ e.exp = -1 -> InList("/", CanonicalString(e.arg))
          [] e.op = "pow" /\ e.exp # -1 -> InList("^", Append(CanonicalString(e.arg), IntToken(e.exp)))
          [] OTHER -> InList(sign[e.op],
                             FlattenSeq([i \in DOMAIN Operands(e) |-> CanonicalString(Operands(e)[i])]))

CanonicalString(e) ==
    LET sign == [add |-> "+", mul |-> "*", neg |-> "-", log |-> "log", li2 |-> "li2"]
    IN  CASE e.op = "rat" -> <<NumberToken(e.val)>>
          [] e.op = "var" -> <<Word(e.name)>>
          [] e.op = "pow" -> InList("^", Append(CanonicalString(e.arg), IntToken(e.exp)))
          [] OTHER -> InList(sign[e.op],
                             FlattenSeq([i \in DOMAIN Operands(e) |-> CanonicalString(Operands(e)[i])]))

-----------------------------------------------------------------------------
VARIABLES
    text,       \* the tokens given to parse_sexpr
    outcome     \* what it returned, or None

vars == <<text, outcome>>

Init == text \in Texts /\ outcome = None

Parse ==
    /\ outcome = None
    /\ outcome' = ParseSexpr(text)
    /\ UNCHANGED text

Done == outcome # None /\ UNCHANGED vars

Next == Parse \/ Done

Spec == Init /\ [][Next]_vars

-----------------------------------------------------------------------------
(* The language: what a text may stand for, with no order of reading and no *)
(* word of the parser's                                                     *)

\* What an atom stands for: a number, or a name free of the division sign.
AtomReadings(token) ==
    CASE token[1] = "int" -> {Rat(FromInt(token[2]))}
      [] token[1] = "ratio" -> {Rat(token[2])}
      [] token[1] = "word" /\ token # WordOf("/") -> {Var(token[2])}
      [] OTHER -> {}

\* What an operator, other than a power, can be applied to, and what it makes.
OperatorReadings(op, args) ==
    LET first == Head(args)
        divided == <<first>> \o [i \in DOMAIN Tail(args) |-> Pow(args[i + 1], -1)]
    IN  CASE op = "+" -> {Add(args)}
          [] op = "*" -> {Mul(args)}
          [] op = "/" /\ Len(args) > 1 -> {Mul(divided)}
          [] op = "-" /\ Len(args) = 1 -> {Negate(first)}
          [] op = "log" /\ Len(args) = 1 -> {Log(first)}
          [] op = "li2" /\ Len(args) = 1 -> {Li2(first)}
          [] OTHER -> {}

RECURSIVE Readings(_)
RECURSIVE ListReadings(_)

\* The sequences of expressions that s can be cut into.
ListReadings(s) ==
    IF s = <<>> THEN {<<>>}
    ELSE UNION {{<<e>> \o rest : e \in Readings(SubSeq(s, 1, k)),
                                 rest \in ListReadings(SubSeq(s, k + 1, Len(s)))} :
                k \in DOMAIN s}

\* The expressions that s can be read as: an atom, or an operator and a list of
\* its arguments in parentheses, the last argument of a power being an integer
\* in range.
Readings(s) ==
    LET inner == SubSeq(s, 3, Len(s) - 1)
        op == OperatorOf(s[2])
        list == Len(s) >= 3 /\ s[1] = LParen /\ s[Len(s)] = RParen
    IN  CASE Len(s) = 1 /\ s[1] \notin {LParen, RParen} -> AtomReadings(s[1])
          [] list /\ op = "^" /\ inner # <<>> ->
                IF Last(inner)[1] = "int" /\ Last(inner)[2] \in Exponents
                THEN {Pow(e, Last(inner)[2]) : e \in Readings(Front(inner))} ELSE {}
          [] list /\ op # "^" -> UNION {OperatorReadings(op, args) : args \in ListReadings(inner)}
          [] OTHER -> {}

(* Properties *)

\* The parser accepts the language and reads it in the only way there is: an
\* error means that the text has no reading, and no text has two.
GrammarExact ==
    outcome # None =>
        Readings(text) = (IF outcome.err = None THEN {outcome.expr} ELSE {})

\* What is printed is parsed back to the same expression, of the expression
\* parsed and of its normal form (the code hashes and compares strings in place
\* of expressions).
RoundTrip ==
    outcome # None /\ outcome.err = None =>
        \A e \in {outcome.expr, Norm(outcome.expr)} :
            LET again == ParseSexpr(CanonicalString(e))
            IN  again.err = None /\ again.expr = e
=============================================================================
