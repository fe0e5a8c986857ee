----------------------------- MODULE Expressions -----------------------------
(***************************************************************************)
(* Catalogue expressions of a design element (rs_surreal/resolve.rs): the   *)
(* context its parameters are collected in, the substitutions that turn an  *)
(* expression into plain arithmetic, and its value.                         *)
(*                                                                         *)
(* The expressions of one element are evaluated one after the other in one  *)
(* context, and evaluating one leaves a mark there: EXPR_HAS_DEFAULT.       *)
(* Comparisons (IFTRUE, left to the evalexpr library) are not in the texts. *)
(***************************************************************************)
EXTENDS TinyExpr

CONSTANTS Designs,      \* the design elements, by name
          Components    \* [design, tubi, exprs]: an element and its expressions, as trees

Missing == [k |-> "NaN"]

(* What the catalogue writes down: a tree, and its text with the brackets   *)
(* it needs.  A minus stands alone ("symbol") or against what follows.      *)
TLevel(op) == CASE op = "^" -> 1 [] op \in {"*", "/", "%"} -> 2 [] OTHER -> 3
Said == [x \in {"+", "-", "*", "/"} |-> CASE x = "+" -> "ADD" [] x = "-" -> "SUBTRACT" [] x = "*" -> "TIMES" [] OTHER -> "DIV"]
RECURSIVE Text(_, _)
Text(t, room) ==
  CASE t.t = "leaf" -> <<t.token>>
    [] t.t = "bin" ->
         LET n == TLevel(t.op)
             op == CASE t.as = "symbol" -> Sym(t.op) [] t.as = "word" -> W(Said[t.op]) [] OTHER -> Glued
             text == Text(t.l, n) \o <<op>> \o Text(t.r, n - 1)
         IN IF n <= room THEN text ELSE <<Sym("(")>> \o text \o <<Sym(")")>>
    [] t.t = "neg" -> <<IF t.glued THEN Glued ELSE Sym("-")>> \o Text(t.a, 0)
    [] t.t = "fn" -> <<Fun(t.f, t.glued), Sym("(")>> \o Text(t.a, 3)
                     \o (IF t.f \in Binary THEN <<Sym(",")>> \o Text(t.b, 3) ELSE <<>>) \o <<Sym(")")>>
    [] OTHER -> <<W(t.w)>> \o Text(t.a, 0) \o (IF t.w \in {"TWICE", "ATTRIB"} THEN <<>> ELSE Text(t.b, 0))

Values(name, seq) == [p \in {<<name, i>> : i \in DOMAIN seq} |-> Whole(seq[p[2]])]
Zeros(seq) == [i \in DOMAIN seq |-> 0]
Opt(o, default) == IF o = <<>> THEN default ELSE o[1]

(* The nearest owner with a GTYP or a zone; the search for it goes on past   *)
(* the topmost owner, to nothing.                                           *)
OwnerOf(owners) ==
  LET n == SelectInSeq(owners, LAMBDA o : o.gtyp \/ o.zone)
  IN IF n = 0 THEN [desp |-> <<>>, para |-> <<>>] ELSE [desp |-> owners[n].desp, para |-> owners[n].para]

(* Parameters, attributes, the data set of the catalogue and the attributes *)
(* the neighbours' models left behind; without a catalogue element only the *)
(* design element's own.                                                    *)
FromCatalogue(d) ==
  IF d.para = <<>> THEN <<>>
  ELSE LET own == d.para[1] owner == OwnerOf(d.owners) IN
       Values("CPAR", own) @@ Values("PARA", own) @@ Values("IPARA", Zeros(own)) @@ Values("IPAR", Zeros(own))
       @@ Values("ODES", owner.desp) @@ Values("OPAR", owner.para)
       @@ (IF d.attached = <<>> THEN <<>> ELSE Values("ADES", d.attached[1].desp) @@ Values("APAR", d.attached[1].para))
DataOf(data) == [expr |-> Text(data.tree, 3), default |-> Text(data.other, 3), type |-> data.type]
get_or_create_cata_context(d, tubi) ==
  [par |-> FromCatalogue(d) @@ [p \in {<<a, 0>> : a \in DOMAIN d.atts} |-> Whole(d.atts[p[1]])]
           @@ Values("DESP", d.desp) @@ Values("DESI", d.desp)
           @@ Values("DDES", [i \in DOMAIN d.desp |-> IF i \in d.words THEN 0 ELSE d.desp[i]])
           @@ [p \in {<<a, 0>> : a \in {"DDHEIGHT", "DDANGLE", "DDRADIUS"}} |-> Whole(Opt(d.dd[p[1]], 0))],
   uda |-> d.udas, rpro |-> IF d.para = <<>> THEN <<>> ELSE [k \in DOMAIN d.dtse |-> DataOf(d.dtse[k])], tubi |-> tubi, near |-> d.near]

check_unit_compatible(a, b) ==
  a = b \/ {a, b} \intersect {"REAL", "NUME", "DATA"} # {} \/ {a, b} = {"INT", "DIST"}
SomeParam == {"PARA", "DESP", "CPAR", "IPAR", "OPAR", "ODES", "ADES", "DDES", "APAR"}

prepare_eval_str(ts) ==
  LET kept == SelectSeq(ts, LAMBDA t : t # W("ATTRIB"))
  IN [i \in DOMAIN kept |-> IF kept[i].k = "par" /\ kept[i].name = "DESIGN PARAM"
                            THEN [kept[i] EXCEPT !.name = "DESP"] ELSE kept[i]]

(* An attribute OF a neighbour: what the model of the neighbour's catalogue *)
(* left behind; a straight tube asks itself for what came before.           *)
OfValue(t, ctx) ==
  LET who == IF t.of = "PREV" /\ ctx.tubi THEN "SELF" ELSE t.of
  IN IF who \in DOMAIN ctx.near /\ t.att \in DOMAIN ctx.near[who] THEN Whole(ctx.near[who][t.att]) ELSE Whole(0)

(* The pattern that looks for it takes all words that stand before, up to   *)
(* the last OF among them, and the blank before those.  More than a name is *)
(* no attribute and counts as nothing.                                      *)
Lettered(t) == t.k \in {"word", "fun", "rpro", "of"} \/ (t.k = "par" /\ t.i = 0)
FromWord(ts, i) == CHOOSE j \in 1 .. i : (\A n \in j .. i : Lettered(ts[n])) /\ (j = 1 \/ ~Lettered(ts[j - 1]))
EndsOf(ts, i) == ts[i].k = "of" /\ ~\E j \in i + 1 .. Len(ts) : ts[j].k = "of" /\ \A n \in i .. j : Lettered(ts[n])
HasBlank(ts, i) == i > 1 /\ ts[i - 1] \notin {Glued, Sym("(")}
OfMatch(ts, i, ctx) ==
  LET j == FromWord(ts, i)
  IN [text |-> SubSeq(ts, j, i), blank |-> HasBlank(ts, j), v |-> IF j = i THEN OfValue(ts[i], ctx) ELSE Whole(0)]
OfMatches(ts, ctx) == FlattenSeq([i \in DOMAIN ts |-> IF EndsOf(ts, i) THEN <<OfMatch(ts, i, ctx)>> ELSE <<>>])

(* The value takes the place of what was matched wherever that stands; where *)
(* a blank went with it, it stands against the token before: digits grow,   *)
(* a name or word becomes another one.                                      *)
Join == [k |-> "join"]
Digits(u, n) ==
  LET k == CHOOSE k \in 1 .. 9 : n < 10 ^ k /\ (k = 1 \/ n >= 10 ^ (k - 1))
  IN u * 10 ^ k + (IF u < 0 THEN -n ELSE n)
Against(acc, v) ==
  LET t == Last(acc) IN
  CASE t.k = "num" /\ v[1] >= 0 -> Append(Front(acc), N(Whole(Digits(t.v[1], v[1]))))
    [] t.k = "num" -> acc \o <<Glued, N(Negated(v))>>
    [] t = Sym("-") -> Front(acc) \o <<Glued, N(v)>>
    [] t.k \in {"sym", "glued"} -> Append(acc, N(v))
    [] t.k = "par" /\ t.bracket -> acc \o <<Join, N(v)>>
    [] t.k = "par" -> Append(Front(acc), [t EXCEPT !.i = Digits(@, v[1])])
    [] t.k = "rpro" -> Append(Front(acc), R("another"))
    [] OTHER -> Append(Front(acc), W("another"))
Joined(ts) ==
  FoldLeft(LAMBDA acc, t : IF acc # <<>> /\ Last(acc) = Join THEN Against(Front(acc), t.v) ELSE Append(acc, t), <<>>, ts)
PutFor(ts, m) ==
  LET n == Len(m.text)
      Is(i) == i \in 1 .. Len(ts) - n + 1 /\ SubSeq(ts, i, i + n - 1) = m.text /\ (m.blank => HasBlank(ts, i))
      At(i) == IF Is(i) THEN (IF m.blank THEN <<Join>> ELSE <<>>) \o <<N(m.v)>>
               ELSE IF \E j \in i - n + 1 .. i - 1 : Is(j) THEN <<>> ELSE <<ts[i]>>
  IN Joined(FlattenSeq([i \in DOMAIN ts |-> At(i)]))
OfTexts(ts, ctx) == FoldLeft(PutFor, ts, OfMatches(ts, ctx))

(* A value takes the place of a text wherever it stands: also at the front  *)
(* of a longer number when no bracket closes it.                            *)
Substitute(ts, p, v) ==
  LET Longer(t) == ~p.bracket /\ ~t.bracket /\ t.name = p.name /\ t.i \div 10 = p.i /\ p.i > 0
      LongerBy(t) == Whole(v[1] * 10 + (IF v[1] < 0 THEN -(t.i % 10) ELSE t.i % 10))
  IN [i \in DOMAIN ts |-> LET t == ts[i] IN
        IF t.k # "par" THEN t ELSE IF t = p THEN N(v) ELSE IF Longer(t) THEN N(LongerBy(t)) ELSE t]
(* Without a value: a call of it alone, written without a space, is zero,   *)
(* and so is what is left of it.                                            *)
ZeroAt(ts, p) ==
  LET Is(i) == i \in DOMAIN ts /\ ts[i] = p
      Call(i) == i \in DOMAIN ts /\ ts[i].k = "fun" /\ ts[i].glued /\ Is(i + 2) /\ ts[i + 3] = Sym(")")
      At(i) == IF Call(i) THEN <<N(Whole(0))>>
               ELSE IF Call(i - 1) \/ Call(i - 2) \/ Call(i - 3) THEN <<>>
               ELSE IF Is(i) THEN <<N(Whole(0))>> ELSE <<ts[i]>>
  IN FlattenSeq([i \in DOMAIN ts |-> At(i)])

(* One round over the names in the text. *)
Replaced(ts, ctx, unit, hasDefault) ==
  LET ps == SelectSeq(ts, LAMBDA t : t.k = "par")
      One(acc, p) ==
        LET key == <<p.name, p.i>> IN
        IF ~acc.ok THEN acc
        ELSE IF key \in DOMAIN ctx.par THEN [acc EXCEPT !.ts = Substitute(@, p, ctx.par[key])]
        ELSE IF key \in DOMAIN ctx.uda THEN [acc EXCEPT !.ts = Substitute(@, p, Whole(ctx.uda[key]))]
        ELSE IF p.name \notin SomeParam THEN acc
        ELSE IF unit = "DIST" /\ ~hasDefault THEN [acc EXCEPT !.ts = ZeroAt(@, p)]
        ELSE [acc EXCEPT !.ok = FALSE]
  IN FoldLeft(One, [ts |-> ts, ok |-> TRUE], ps)
Raw(ts, ctx) ==
  FlattenSeq([i \in DOMAIN ts |-> IF ts[i].k # "rpro" THEN <<ts[i]>>
              ELSE IF ts[i].key \in DOMAIN ctx.rpro THEN ctx.rpro[ts[i].key].expr ELSE <<N(Whole(0))>>])
RECURSIVE Rounds(_, _, _, _, _)
Rounds(ts, ctx, unit, hasDefault, n) ==
  LET r == Replaced(ts, ctx, unit, hasDefault) next == Raw(r.ts, ctx) IN
  IF ~r.ok \/ n = 0 \/ next = ts THEN [ts |-> next, ok |-> r.ok]
  ELSE Rounds(next, ctx, unit, hasDefault, n - 1)

(* Words for operators; TWICE x, TANF x angle, SUM x y, DIFFERENCE x y.     *)
OperatorOf == "TIMES" :> "*" @@ "MULT" :> "*" @@ "DIV" :> "/" @@ "ADD" :> "+" @@ "SUBTRACT" :> "-"
Spoken(ts) == [i \in DOMAIN ts |-> IF ts[i].k = "word" /\ ts[i].w \in DOMAIN OperatorOf THEN Sym(OperatorOf[ts[i].w]) ELSE ts[i]]
TanHalf(q) == IF q = Whole(90) THEN Whole(1) ELSE Whole(0)
Nums(ts, from, to) == to <= Len(ts) /\ \A i \in from .. to : ts[i].k = "num"
RECURSIVE Twices(_)
Twices(ts) ==
  IF ts = <<>> THEN ts
  ELSE IF Head(ts) = W("TWICE")
  THEN (IF Nums(ts, 2, 2) THEN <<N(Apply("*", ts[2].v, Whole(2)))>> ELSE <<>>) \o Twices(SubSeq(ts, 3, Len(ts)))
  ELSE IF Head(ts) = W("TANF")
  THEN (IF Nums(ts, 2, 3) THEN <<N(Apply("*", ts[2].v, TanHalf(ts[3].v)))>> ELSE <<>>) \o Twices(SubSeq(ts, 4, Len(ts)))
  ELSE <<Head(ts)>> \o Twices(Tail(ts))
RECURSIVE Sums(_)
Sums(ts) ==
  IF ts = <<>> THEN ts
  ELSE IF Head(ts) \in {W("SUM"), W("DIFFERENCE")} /\ Len(ts) > 2
  THEN <<Sym("("), ts[2], Sym(IF Head(ts) = W("SUM") THEN "+" ELSE "-"), ts[3], Sym(")")>> \o Sums(SubSeq(ts, 4, Len(ts)))
  ELSE <<Head(ts)>> \o Sums(Tail(ts))

(* Two minus signs side by side are dropped. *)
Below0(ts, i) == i \in DOMAIN ts /\ ts[i].k = "num" /\ Less(ts[i].v, Whole(0))
Undoubled(ts) ==
  FlattenSeq([i \in DOMAIN ts |->
    IF ts[i] = Glued THEN (IF Below0(ts, i + 1) THEN <<>> ELSE <<Sym("-")>>)
    ELSE IF Below0(ts, i) /\ i > 1 /\ ts[i - 1] = Glued THEN <<N(Negated(ts[i].v))>> ELSE <<ts[i]>>])
Signed(ts) == FlattenSeq([i \in DOMAIN ts |-> IF Below0(ts, i) THEN <<Sym("-"), N(Negated(ts[i].v))>> ELSE <<ts[i]>>])
OrElse(v, w) == IF v # <<>> THEN v ELSE w
Read(text) == OrElse(interp(Signed(text)), polish(text))
Arithmetic(ts) == Read(Undoubled(Sums(Twices(Spoken(Joined(ts))))))

Error(mark) == [v |-> <<>>, mark |-> mark]
Ok(v, mark) == [v |-> <<v>>, mark |-> mark]
RECURSIVE eval_str_to_f64(_, _, _, _), Inner(_, _, _)
OrDefault(r, default) ==
  IF r.v # <<>> THEN [ts |-> <<N(r.v[1])>>, mark |-> r.mark] ELSE [ts |-> default, mark |-> FALSE]
(* The data set property RPRO key: its own value, else its default as it is  *)
(* written; the mark is set while it is evaluated and taken off on failure.  *)
Inner(t, ctx, mark) ==
  IF t.key \notin DOMAIN ctx.rpro THEN [ts |-> <<N(Whole(0))>>, mark |-> TRUE]
  ELSE OrDefault(eval_str_to_f64(ctx.rpro[t.key].expr, ctx, "DIST", TRUE), ctx.rpro[t.key].default)
OtherUnit(t, ctx, unit) ==
  t.k = "rpro" /\ t.key \in DOMAIN ctx.rpro /\ ctx.rpro[t.key].type # "" /\ ~check_unit_compatible(unit, ctx.rpro[t.key].type)
Taken(acc, n) == [acc EXCEPT !.ts = @ \o n.ts, !.mark = n.mark]
Known(ts, ctx, unit, mark) ==
  LET One(acc, t) ==
        IF ~acc.ok \/ OtherUnit(t, ctx, unit) THEN [acc EXCEPT !.ok = FALSE]
        ELSE IF t.k = "rpro"
        THEN Taken(acc, Inner(t, ctx, acc.mark))
        ELSE [acc EXCEPT !.ts = Append(@, t)]
  IN FoldLeft(One, [ts |-> <<>>, ok |-> TRUE, mark |-> mark], OfTexts(ts, ctx))
Result(known, r, v) ==
  IF ~known.ok \/ ~r.ok \/ (r.ts # <<>> /\ v = <<>>) THEN Error(known.mark)
  ELSE Ok(IF r.ts = <<>> THEN Whole(0) ELSE v[1], known.mark)
Reckoned(known, r) == Result(known, r, Arithmetic(r.ts))
Substituted(known, ctx, unit) == Reckoned(known, Rounds(known.ts, ctx, unit, known.mark, 30))
eval_str_to_f64(ts, ctx, unit, mark) ==
  IF ts = <<>> THEN Ok(Whole(0), mark) ELSE Substituted(Known(prepare_eval_str(ts), ctx, unit, mark), ctx, unit)

-----------------------------------------------------------------------------
VARIABLES component, pending, mark, last
exprVars == <<component, pending, mark, last>>
Idle == [t |-> "none"]
ExprInit ==
  /\ \E c \in Components : component = [design |-> c.design, tubi |-> c.tubi] /\ pending = c.exprs
  /\ mark = FALSE
  /\ last = [tree |-> Idle]

(* The next expression of the element, in the context of the ones before. *)
Evaluate ==
  /\ pending # <<>>
  /\ LET e == Head(pending)
         ctx == get_or_create_cata_context(Designs[component.design], component.tubi)
     IN \E r \in {eval_str_to_f64(Text(e.tree, 3), ctx, e.unit, mark)} :
          /\ last' = [tree |-> e.tree, unit |-> e.unit, before |-> mark, v |-> r.v]
          /\ mark' = r.mark
  /\ pending' = Tail(pending)
  /\ UNCHANGED component
ExprNext == Evaluate

-----------------------------------------------------------------------------
(* What a parameter stands for, said directly; none if there is no such one. *)
Bounds(d) == {n \in DOMAIN d.owners : d.owners[n].gtyp \/ d.owners[n].zone}
Nearest(d) == CHOOSE n \in Bounds(d) : \A m \in Bounds(d) : n <= m
ParameterList(name, d) ==
  CASE name \in {"DESP", "DESIGN PARAM", "DESI"} -> d.desp
    [] d.para = <<>> -> <<>>
    [] name \in {"PARA", "CPAR"} -> d.para[1]
    [] name = "ODES" /\ Bounds(d) # {} -> d.owners[Nearest(d)].desp
    [] name = "OPAR" /\ Bounds(d) # {} -> d.owners[Nearest(d)].para
    [] name = "APAR" /\ d.attached # <<>> -> d.attached[1].para
    [] OTHER -> <<>>
D(c) == Designs[c.design]
ValueOf(p, c) ==
  IF p.k = "num" THEN <<p.v>>
  ELSE IF p.k = "of" THEN <<OfValue(p, [near |-> D(c).near, tubi |-> c.tubi])>>
  ELSE IF p.i = 0 THEN (IF p.name \in DOMAIN D(c).atts THEN <<Whole(D(c).atts[p.name])>> ELSE <<>>)
  ELSE LET list == ParameterList(p.name, D(c)) IN IF p.i \in DOMAIN list THEN <<Whole(list[p.i])>> ELSE <<>>

Operands(t) == CASE t.t = "leaf" -> {} [] t.t = "bin" -> {t.l, t.r} [] t.t = "neg" -> {t.a} [] OTHER -> {t.a, t.b}
RECURSIVE Parts(_)
Parts(t) == {t} \union UNION {Parts(a) : a \in Operands(t)}
Is(t, kind) == t.t = "leaf" /\ t.token.k = kind
Lost(t, c) == Is(t, "par") /\ ValueOf(t.token, c) = <<>>
HasLost(t, c) == \E p \in Parts(t) : Lost(p, c)
Data(t, c) == IF D(c).para # <<>> /\ t.token.key \in DOMAIN D(c).dtse THEN <<D(c).dtse[t.token.key]>> ELSE <<>>

(* What the operators mean, of fractions: said without the parser's own      *)
(* arithmetic, from what sums and products are.                              *)
Num(q) == q[1]
Den(q) == q[2]
Integral(q) == Num(q) % Den(q) = 0
IntOf(q) == CHOOSE n \in -(Num(q) * Num(q)) - 1 .. Num(q) * Num(q) : n * Den(q) <= Num(q) /\ Num(q) < (n + 1) * Den(q)
Minus(q) == <<-Num(q), Den(q)>>
Sum(p, q) == <<Num(p) * Den(q) + Num(q) * Den(p), Den(p) * Den(q)>>
Product(p, q) == <<Num(p) * Num(q), Den(p) * Den(q)>>
Inverse_(q) == IF Num(q) < 0 THEN <<-Den(q), -Num(q)>> ELSE <<Den(q), Num(q)>>
Size(q) == IF Num(q) < 0 THEN Minus(q) ELSE q
(* Of the remainders of whole numbers the one with the sign of the first.   *)
Rest_(a, b) == CHOOSE r \in -a .. a \union -b .. b \union a .. -a \union b .. -b :
  /\ r * a >= 0 /\ r * r < b * b /\ \E k \in -(a * a) .. a * a : a = k * b + r
Raised(q, n) == FoldSeq(Product, Whole(1), [i \in 1 .. (IF n < 0 THEN -n ELSE n) |-> IF n < 0 THEN Inverse_(q) ELSE q])
Computed(op, p, q) ==
  CASE op = "+" -> Sum(p, q)
    [] op = "-" -> Sum(p, Minus(q))
    [] op = "*" -> Product(p, q)
    [] op = "/" -> Product(p, Inverse_(q))
    [] op = "%" -> Whole(Rest_(Num(p), Num(q)))
    [] op \in {"^", "pow"} -> Raised(p, IntOf(q))
    [] op = "min" -> IF Num(Sum(p, Minus(q))) < 0 THEN p ELSE q
    [] op = "max" -> IF Num(Sum(p, Minus(q))) < 0 THEN q ELSE p
    [] op = "abs" -> Size(p)
    [] op \in {"int", "floor"} -> Whole(IntOf(p))
    [] op = "sin" -> Whole(CASE IntOf(p) % 360 = 90 -> 1 [] IntOf(p) % 360 = 270 -> -1 [] OTHER -> 0)
    [] op = "cos" -> Whole(CASE IntOf(p) % 360 = 0 -> 1 [] IntOf(p) % 360 = 180 -> -1 [] OTHER -> 0)

RECURSIVE Meaning(_, _)
Meaning(t, c) ==
  CASE Lost(t, c) -> Whole(0)
    [] Is(t, "rpro") -> LET d == Data(t, c) IN
         IF d = <<>> THEN Whole(0) ELSE Meaning(IF HasLost(d[1].tree, c) THEN d[1].other ELSE d[1].tree, c)
    [] t.t = "leaf" -> ValueOf(t.token, c)[1]
    [] t.t = "bin" -> Computed(t.op, Meaning(t.l, c), Meaning(t.r, c))
    [] t.t = "neg" -> Minus(Meaning(t.a, c))
    [] t.t = "fn" -> IF Lost(t.a, c) /\ t.f \in Unary THEN Whole(0) ELSE Computed(t.f, Meaning(t.a, c), Meaning(t.b, c))
    [] t.w = "ATTRIB" -> Meaning(t.a, c)
    [] t.w = "TWICE" -> Sum(Meaning(t.a, c), Meaning(t.a, c))
    [] t.w = "TANF" -> Product(Meaning(t.a, c), TanHalf(Meaning(t.b, c)))
    [] t.w = "SUM" -> Sum(Meaning(t.a, c), Meaning(t.b, c))
    [] OTHER -> Sum(Meaning(t.a, c), Minus(Meaning(t.b, c)))
(* An expression of another unit than asked for has no value, nor has one    *)
(* that names what is missing, unless a length is asked for.                 *)
HasValue(e, c) ==
  /\ e.unit = "DIST" \/ ~HasLost(e.tree, c)
  /\ \A p \in Parts(e.tree) : Is(p, "rpro") /\ Data(p, c) # <<>> =>
       Data(p, c)[1].type = "" \/ check_unit_compatible(e.unit, Data(p, c)[1].type)
Equal(p, q) == p[1] * q[2] = q[1] * p[2] /\ (p[2] = 0 <=> q[2] = 0)

(* Where the texts mislead the code: a number without bracket that begins    *)
(* another; a minus in front of a negative number; a bare default within a   *)
(* larger expression; a function of a missing parameter written apart; a     *)
(* missing parameter after a data set property, which leaves the mark; and a *)
(* word or number right before an attribute OF a neighbour, which the        *)
(* pattern takes for part of its name.                                       *)
Clash(t) == \E p, q \in Parts(t) :
  /\ Is(p, "par") /\ Is(q, "par") /\ p # q
  /\ ~p.token.bracket /\ ~q.token.bracket /\ q.token.i \div 10 = p.token.i
Begins(t, c) == t.t \in {"leaf", "pre"} /\ Less(Meaning(t, c), Whole(0))
RECURSIVE First(_)
First(t) == IF t.t = "bin" THEN First(t.l) ELSE t
DoubleMinus(t, c) == \E p \in Parts(t) :
  \/ p.t = "neg" /\ (p.a.t = "neg" \/ (Begins(p.a, c) /\ ~p.glued))
  \/ p.t = "bin" /\ (p.as = "glued" \/ (p.op = "-" /\ Is(First(p.r), "of"))) /\ Begins(First(p.r), c)
BareDefault(t, c) == \E p \in Parts(t) \ {t} : Is(p, "rpro") /\ Data(p, c) # <<>> /\ Data(p, c)[1].other.t = "bin" /\ HasLost(Data(p, c)[1].tree, c)
Apart(t, c) == \E p \in Parts(t) : p.t = "fn" /\ p.f = "cos" /\ ~p.glued /\ Lost(p.a, c)
Marked(e, c) == HasLost(e.tree, c) /\ (e.before \/ \E p \in Parts(e.tree) : Is(p, "rpro"))
Swallowing(t) ==
  LET ts == prepare_eval_str(Text(t, 3)) IN \E i \in 2 .. Len(ts) : ts[i].k = "of" /\ ts[i - 1].k \notin {"sym", "glued"}
Swallows(t, c) == Swallowing(t) \/ \E p \in Parts(t) : Is(p, "rpro") /\ Data(p, c) # <<>> /\ Swallowing(Data(p, c)[1].tree)
Misleading(e, c) ==
  \/ Swallows(e.tree, c)
  \/ Clash(e.tree) \/ DoubleMinus(e.tree, c) \/ BareDefault(e.tree, c) \/ Apart(e.tree, c) \/ Marked(e, c)

(* An expression of the catalogue has the value of what it says, in the     *)
(* element's own parameters, whichever expressions came before it: operators *)
(* bind and associate as usual, a data set property that cannot be           *)
(* evaluated has its default, and what is missing counts as nothing.         *)
ExpressionsMeanWhatTheySay ==
  last.tree # Idle /\ ~Misleading(last, component) =>
    IF HasValue(last, component) THEN last.v # <<>> /\ Equal(last.v[1], Meaning(last.tree, component)) ELSE last.v = <<>>
=============================================================================
