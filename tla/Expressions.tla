----------------------------- MODULE Expressions -----------------------------
(***************************************************************************)
(* Algebraic expressions (mpl_ir::Expr) and what mpl-symbol computes from  *)
(* them: the value at a sample point (eval.rs), the partial derivative     *)
(* (calculus.rs), and the logarithmic derivative of a letter               *)
(* (integrability_utils.rs).  Rational constants are coefficients and the  *)
(* overflow checks of eval_pow are left out.                               *)
(***************************************************************************)
EXTENDS Coefficients, Integers, SequencesExt

CONSTANTS
    Fail,                   \* an EvalError other than NegativePowerOfZero
    NegativePowerOfZero,
    FromInt(_)              \* Rational64::from_integer

Rat(c) == [op |-> "rat", val |-> c]
Var(v) == [op |-> "var", name |-> v]
Add(args) == [op |-> "add", args |-> args]
Mul(args) == [op |-> "mul", args |-> args]
Negate(e) == [op |-> "neg", arg |-> e]
Pow(e, n) == [op |-> "pow", arg |-> e, exp |-> n]
Log(e) == [op |-> "log", arg |-> e]
Li2(e) == [op |-> "li2", arg |-> e]

Errors == {Fail, NegativePowerOfZero}

\* An error in either operand is the result, the left one first (`?`).
Strict(Op(_, _), x, y) == IF x \in Errors THEN x ELSE IF y \in Errors THEN y ELSE Op(x, y)

EvalPow(x, n) == IF n < 0 /\ x = Zero THEN NegativePowerOfZero ELSE IntPower(x, n)

RECURSIVE Eval(_, _)
Eval(e, env) ==
    CASE e.op = "rat" -> e.val
      [] e.op = "var" -> IF e.name \in DOMAIN env THEN env[e.name] ELSE Fail
      [] e.op = "add" -> FoldLeft(LAMBDA x, y : Strict(Plus, x, y), Zero,
                                  [i \in DOMAIN e.args |-> Eval(e.args[i], env)])
      [] e.op = "mul" -> FoldLeft(LAMBDA x, y : Strict(Times, x, y), One,
                                  [i \in DOMAIN e.args |-> Eval(e.args[i], env)])
      [] e.op = "neg" -> Strict(Minus, Zero, Eval(e.arg, env))
      [] e.op = "pow" -> LET x == Eval(e.arg, env)
                         IN  IF x \in Errors THEN x ELSE EvalPow(x, e.exp)
      [] OTHER -> Fail

\* make_add and make_mul: no node for fewer than two operands.
Node(Op(_), neutral, args) ==
    CASE args = <<>> -> Rat(neutral) [] Len(args) = 1 -> args[1] [] OTHER -> Op(args)

IsZero(e) == e = Rat(Zero)

\* Partial derivative of an expression without log and li2.
RECURSIVE Deriv(_, _)
Deriv(e, v) ==
    CASE e.op = "rat" -> Rat(Zero)
      [] e.op = "var" -> Rat(IF e.name = v THEN One ELSE Zero)
      [] e.op = "add" ->
            Node(Add, Zero, SelectSeq([i \in DOMAIN e.args |-> Deriv(e.args[i], v)],
                                      LAMBDA d : ~IsZero(d)))
      [] e.op = "mul" ->
            LET terms == [i \in DOMAIN e.args |->
                            LET d == Deriv(e.args[i], v)
                            IN  IF IsZero(d) THEN Rat(Zero)
                                ELSE Node(Mul, One, <<d>> \o RemoveAt(e.args, i))]
            IN  Node(Add, Zero, SelectSeq(terms, LAMBDA t : ~IsZero(t)))
      [] e.op = "neg" -> Negate(Deriv(e.arg, v))
      [] e.op = "pow" ->
            LET d == Deriv(e.arg, v)
            IN  IF e.exp = 0 \/ IsZero(d) THEN Rat(Zero)
                ELSE IF e.exp = 1 THEN d
                ELSE Mul(<<Rat(FromInt(e.exp)), Pow(e.arg, e.exp - 1), d>>)

\* Some(value), None at a singular point, or an error.
Dlog(letter, v, env) ==
    LET denom == Eval(letter, env)
    IN  CASE denom = Fail -> Fail
          [] denom \in {NegativePowerOfZero, Zero} -> None
          [] OTHER -> LET numer == Eval(Deriv(letter, v), env)
                      IN  CASE numer = Fail -> Fail
                            [] numer = NegativePowerOfZero -> None
                            [] OTHER -> Times(numer, Recip(denom))

RECURSIVE VarsIn(_)
VarsIn(e) ==
    CASE e.op = "var" -> {e.name}
      [] e.op \in {"add", "mul"} -> UNION {VarsIn(e.args[i]) : i \in DOMAIN e.args}
      [] e.op \in {"neg", "pow"} -> VarsIn(e.arg)
      [] OTHER -> {}
=============================================================================
