------------------------------ MODULE TinyExpr -------------------------------
(***************************************************************************)
(* The arithmetic of catalogue expressions: the recursive-descent parser    *)
(* of tiny_expr/expr_eval.rs, which builds a tree and folds it at once, and *)
(* the prefix notation of math/polish_notation.rs, tried when it fails.     *)
(*                                                                         *)
(* A text is its sequence of tokens; numbers are fractions <<n, d>>, so     *)
(* that a division is exact.  Angles are quarter turns.                     *)
(***************************************************************************)
EXTENDS Integers, Sequences, SequencesExt, TLC

Whole(n) == <<n, 1>>
NaN == <<0, 0>>
N(v) == [k |-> "num", v |-> v]
Sym(c) == [k |-> "sym", c |-> c]
Fun(f, glued) == [k |-> "fun", f |-> f, glued |-> glued]
(* Tokens that are gone before the parser reads a text: parameters, words,  *)
(* properties of the data set, attributes of a neighbour.                   *)
P(name, i, bracket) == [k |-> "par", name |-> name, i |-> i, bracket |-> bracket]
W(word) == [k |-> "word", w |-> word]
R(key) == [k |-> "rpro", key |-> key]
O(att, of) == [k |-> "of", att |-> att, of |-> of]
Glued == [k |-> "glued"]   \* a minus written against what follows it
Infix == {"+", "-", "*", "/", "^", "%"}

Less(p, q) == p[1] * q[2] < q[1] * p[2]
Negated(q) == <<-q[1], q[2]>>
QuarterTurns(q) == (q[1] \div (90 * q[2])) % 4
AnglesOf == "sin" :> <<0, 1, 0, -1>> @@ "cos" :> <<1, 0, -1, 0>>

Unary == {"abs", "int", "floor", "sin", "cos", "neg"}
Binary == {"min", "max", "pow"}
arity(f) == IF f \in Unary THEN 1 ELSE 2
(* Exponents are whole; the remainder has the sign of what is divided.      *)
Over(n, d) == IF d < 0 THEN <<-n, -d>> ELSE <<n, d>>
Power(q, n) == IF n >= 0 THEN <<q[1] ^ n, q[2] ^ n>> ELSE Over(q[2] ^ (-n), q[1] ^ (-n))
Remainder(a, b) ==
  LET x == a[1] * b[2] y == b[1] * a[2] Size(n) == IF n < 0 THEN -n ELSE n rest == Size(x) % Size(y)
  IN IF y = 0 THEN NaN ELSE <<IF x < 0 THEN -rest ELSE rest, a[2] * b[2]>>
Apply(f, a, b) ==
  CASE f = "+" -> <<a[1] * b[2] + b[1] * a[2], a[2] * b[2]>>
    [] f = "-" -> <<a[1] * b[2] - b[1] * a[2], a[2] * b[2]>>
    [] f = "*" -> <<a[1] * b[1], a[2] * b[2]>>
    [] f = "/" -> Over(a[1] * b[2], a[2] * b[1])
    [] f = "%" -> Remainder(a, b)
    [] f \in {"^", "pow"} -> Power(a, b[1] \div b[2])
    [] f = "," -> b
    [] f = "neg" -> Negated(a)
    [] f = "abs" -> IF Less(a, Whole(0)) THEN Negated(a) ELSE a
    [] f \in {"int", "floor"} -> Whole(a[1] \div a[2])
    [] f = "min" -> IF Less(b, a) THEN b ELSE a
    [] f = "max" -> IF Less(a, b) THEN b ELSE a
    [] f \in {"sin", "cos"} -> Whole(AnglesOf[f][QuarterTurns(a) + 1])

(* The reader: the place in the text, the operator last seen (it outlives   *)
(* the token it came from) and how the reading goes; a sign followed by     *)
(* another operator makes the loop over signs turn for ever.                *)
End == [k |-> "end"]
Token(ts, s) == IF s.at > Len(ts) THEN End ELSE ts[s.at]
Reads(s) == s.st = "ok"
IsSym(ts, s, cs) == Reads(s) /\ Token(ts, s).k = "sym" /\ Token(ts, s).c \in cs
next_token(ts, s) ==
  LET n == [s EXCEPT !.at = @ + 1] IN
  IF IsSym(ts, n, Infix) THEN [n EXCEPT !.op = ts[n.at].c] ELSE n
Failed(s, why) == [s |-> IF Reads(s) THEN [s EXCEPT !.st = why] ELSE s, v |-> Whole(0)]

RECURSIVE signs(_, _, _)
signs(ts, s, sign) ==
  IF ~IsSym(ts, s, Infix) THEN [s |-> s, sign |-> sign]
  ELSE IF s.op \notin {"+", "-"} THEN [s |-> [s EXCEPT !.st = "spins"], sign |-> sign]
  ELSE signs(ts, next_token(ts, s), IF s.op = "+" THEN 1 ELSE -1)

(* factor, term, expr and list are one loop over their operators: each      *)
(* operator takes what was read so far as its left side.                    *)
Operators == <<{"^"}, {"*", "/", "%"}, {"+", "-"}, {","}>>
Expr == 3
List == 4

RECURSIVE base(_, _), power(_, _), Level(_, _, _), Rest(_, _, _), Level_right(_, _, _)
base(ts, s) ==
  LET t == Token(ts, s) IN
  IF ~Reads(s) THEN Failed(s, "error")
  ELSE IF t.k = "num" THEN [s |-> next_token(ts, s), v |-> t.v]
  ELSE IF IsSym(ts, s, {"("})
  THEN LET r == Level(ts, next_token(ts, s), List)
       IN IF IsSym(ts, r.s, {")"}) THEN [s |-> next_token(ts, r.s), v |-> r.v] ELSE Failed(r.s, "error")
  ELSE IF t.k = "fun" /\ t.f \in Unary
  THEN LET r == power(ts, next_token(ts, s)) IN [s |-> r.s, v |-> Apply(t.f, r.v, Whole(0))]
  ELSE IF t.k = "fun" /\ t.f \in Binary /\ IsSym(ts, next_token(ts, s), {"("})
  THEN LET a == Level(ts, next_token(ts, next_token(ts, s)), Expr)
           b == Level(ts, next_token(ts, a.s), Expr)
       IN IF IsSym(ts, a.s, {","}) /\ IsSym(ts, b.s, {")"})
          THEN [s |-> next_token(ts, b.s), v |-> Apply(t.f, a.v, b.v)]
          ELSE Failed(IF IsSym(ts, a.s, {","}) THEN b.s ELSE a.s, "error")
  ELSE Failed(s, "error")
power(ts, s) ==
  LET r == IF s.op \in {"+", "-"} THEN signs(ts, s, 1) ELSE [s |-> s, sign |-> 1]
      b == base(ts, r.s)
  IN IF r.sign = 1 THEN b ELSE [b EXCEPT !.v = Negated(@)]
Rest(ts, r, l) ==
  IF ~IsSym(ts, r.s, Operators[l]) THEN r
  ELSE LET n == Level(ts, next_token(ts, r.s), l - 1)
       IN Rest(ts, [s |-> n.s, v |-> Apply(Token(ts, r.s).c, r.v, n.v)], l)
(* A bug in the loop: what follows an operator is read to its end first, so *)
(* that a - b - c becomes a - (b - c).                                      *)
Level_right(ts, s, l) ==
  IF l = 0 THEN power(ts, s)
  ELSE LET r == Level_right(ts, s, l - 1) IN
       IF ~IsSym(ts, r.s, Operators[l]) THEN r
       ELSE LET n == Level_right(ts, next_token(ts, r.s), l)
            IN [s |-> n.s, v |-> Apply(Token(ts, r.s).c, r.v, n.v)]

Level(ts, s, l) == IF l = 0 THEN power(ts, s) ELSE Rest(ts, Level(ts, s, l - 1), l)

(* The value, none for a text that is not an expression to its very end.    *)
ReadToTheEnd(ts, r) == IF Reads(r.s) /\ Token(ts, r.s) = End THEN <<r.v>> ELSE <<>>
interp(ts) == ReadToTheEnd(ts, Level(ts, next_token(ts, [at |-> 0, op |-> "", st |-> "ok"]), List))

(* The prefix notation: the text is taken from its end; an operator is      *)
(* applied to all numbers read since the last one, and the number left when *)
(* the text is used up is the value, whatever else waits in the queue.      *)
RECURSIVE Collapse(_, _)
Collapse(op, queue) ==
  IF Len(queue) < 2 THEN queue
  ELSE LET left == Last(queue) right == queue[Len(queue) - 1]
       IN Collapse(op, Append(Front(Front(queue)), Apply(op, left, right)))
RECURSIVE StackEval(_, _)
StackEval(stack, queue) ==
  IF stack = <<>> THEN <<>>
  ELSE LET item == Last(stack) rest == Front(stack) IN
       IF item.k = "num"
       THEN IF rest = <<>> THEN <<item.v>> ELSE StackEval(rest, Append(queue, item.v))
       ELSE LET q == Collapse(item.c, queue)
            IN IF q = <<>> THEN <<>> ELSE StackEval(Append(rest, N(q[1])), <<>>)
PrefixText(ts) == \A i \in DOMAIN ts : ts[i].k = "num" \/ (ts[i].k = "sym" /\ ts[i].c \in {"+", "-", "*", "/"})
polish(ts) == IF ts # <<>> /\ PrefixText(ts) THEN StackEval(ts, <<>>) ELSE <<>>
=============================================================================
