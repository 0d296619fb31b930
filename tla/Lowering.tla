------------------------------ MODULE Lowering ------------------------------
(***************************************************************************)
(* lower_expr, which makes an expression a list of nodes of the binary     *)
(* language Lang, and the value of such a list at a sample point.          *)
(***************************************************************************)
EXTENDS EGraph, CanonicalForm

RECURSIVE LowerInto(_, _)

\* lower_nary: the operands are nested to the right, the last one comes first.
\* The node added last is the last of the list.
LowerNary(list, op, args) ==
    LET Nest(e, acc) == LET left == LowerInto(acc, e)
                        IN  Append(left, OpNode(op, <<Len(left), Len(acc)>>))
    IN  FoldRight(Nest, Front(args), LowerInto(list, Last(args)))

\* lower_into.  Sums and products have operands: no normal form has an empty
\* one, and lower_expr would return InvalidArity.
LowerInto(list, e) ==
    CASE e.op = "rat" -> Append(list, Num(e.val))
      [] e.op = "var" -> Append(list, LeafNode("var", e.name))
      [] e.op = "add" -> LowerNary(list, "+", e.args)
      [] e.op = "mul" -> LowerNary(list, "*", e.args)
      [] e.op = "pow" -> LET base == LowerInto(list, e.arg)
                         IN  base \o <<Num(FromInt(e.exp)), OpNode("^", <<Len(base), Len(base) + 1>>)>>
      [] e.op = "neg" -> LET minus == Append(list, Num(Neg(One)))
                             inner == LowerInto(minus, e.arg)
                         IN  Append(inner, OpNode("*", <<Len(minus), Len(inner)>>))
      [] e.op \in {"log", "li2"} -> LET inner == LowerInto(list, e.arg)
                                    IN  Append(inner, OpNode(e.op, <<Len(inner)>>))

Lower(e) == LowerInto(<<>>, e)

\* What simplify_algebra and simplify_symbol_aware give the runner: they
\* normalise the expression, whether it is already or not.
LowerNormal(e) == Lower(Norm(e))

ValuePow(x, n) == IF n = None THEN Fail ELSE EvalPow(x, n)

\* The value of a list of nodes, or an error.
Value(list, env) ==
    LET v[i \in DOMAIN list] ==
            LET n == list[i]
                x == v[n.kids[1]]
                y == v[n.kids[2]]
            IN  CASE n.op = "num" -> n.val
                  [] n.op = "var" -> env[n.val]
                  [] n.op = "+" -> Strict(Plus, x, y)
                  [] n.op = "*" -> Strict(Times, x, y)
                  [] n.op = "^" -> IF x \in Errors THEN x ELSE IF y \in Errors THEN y
                                   ELSE ValuePow(x, ExponentOf(y))
                  [] n.op \in {"log", "li2"} -> IF x \in Errors THEN x ELSE Opaque(n.op, x)
    IN  v[Len(list)]

\* The list t has the value of s wherever s has one.
Refines(t, s) ==
    \A env \in Points : Value(s, env) \notin Errors => Value(t, env) = Value(s, env)

\* The list t has the value of id, wherever both have one.
AgreesWith(g, id, t) ==
    \A env \in g.defined[id] : Value(t, env) \in Errors \cup {g.worth[id][env]}
=============================================================================
