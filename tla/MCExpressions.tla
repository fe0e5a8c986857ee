---------------------------- MODULE MCExpressions ----------------------------
EXTENDS TinyExpr
L(token) == [t |-> "leaf", token |-> token]
Num(n) == L(N(Whole(n)))
Par(name, i) == L(P(name, i, TRUE))
Bin(op, l, r, as) == [t |-> "bin", op |-> op, l |-> l, r |-> r, as |-> as]
Neg(a, glued) == [t |-> "neg", a |-> a, glued |-> glued]
Fn(f, a, b, glued) == [t |-> "fn", f |-> f, a |-> a, b |-> b, glued |-> glued]
Pre(w, a, b) == [t |-> "pre", w |-> w, a |-> a, b |-> b]

Lost9 == Par("PARA", 9)
MCData ==
  "A" :> [tree |-> Bin("+", Par("PARA", 1), Num(1), "symbol"), other |-> Num(7), type |-> ""] @@
  "B" :> [tree |-> Bin("+", Lost9, Num(1), "symbol"), other |-> Num(7), type |-> "DIST"] @@
  "C" :> [tree |-> Num(4), other |-> Num(7), type |-> "BORE"] @@
  "D" :> [tree |-> L(R("B")), other |-> Num(8), type |-> "REAL"] @@
  "E" :> [tree |-> Lost9, other |-> Bin("+", Num(1), Num(2), "symbol"), type |-> ""]
Owner(gtyp, zone, n) == [gtyp |-> gtyp, zone |-> zone, desp |-> <<n>>, para |-> <<n + 1>>]
Plain == [desp |-> <<6, 90>>, words |-> {2}, atts |-> "HEIG" :> 11, dd |-> [a \in {"DDHEIGHT", "DDANGLE", "DDRADIUS"} |-> <<>>],
          para |-> <<<<3, -5, 2, 1, 1, 1, 1, 1>>>>, dtse |-> MCData, owners |-> <<Owner(FALSE, FALSE, 20), Owner(FALSE, TRUE, 30), Owner(FALSE, FALSE, 40)>>,
          attached |-> <<>>, udas |-> <<":TH", 0>> :> 13, near |-> "PREV" :> ("PWID" :> 17 @@ "PLEN" :> -4) @@ "SELF" :> ("PWID" :> 19)]
Long == [Plain EXCEPT !.para = <<<<3, -5, 2, 1, 1, 1, 1, 1, 1, 4>>>>]
Bare == [Plain EXCEPT !.para = <<>>]
Grouped == [Plain EXCEPT !.owners = <<Owner(FALSE, FALSE, 20), Owner(TRUE, FALSE, 25), Owner(FALSE, TRUE, 30)>>, !.attached = <<[desp |-> <<1>>, para |-> <<50>>]>>]
Alone == [Plain EXCEPT !.owners = <<Owner(FALSE, FALSE, 20), Owner(FALSE, FALSE, 40)>>]

MCDesigns == "plain" :> Plain @@ "long" :> Long @@ "bare" :> Bare @@ "grouped" :> Grouped @@ "alone" :> Alone

Some == {Num(2), Par("PARA", 1), Par("PARA", 2)}
Leaf == Some \union {Num(90), Lost9, L(P("PARA", 1, FALSE)), L(P("PARA", 10, FALSE)), Par("DESIGN PARAM", 1), Par("ODES", 1), Par("OPAR", 1), Par("APAR", 1),
          L(P("HEIG", 0, FALSE)), L(O("PWID", "PREV")), L(O("PWID", "NEXT"))} \union {L(R(k)) : k \in {"A", "B", "C", "D", "E", "F"}}
Ops == {"+", "-", "*", "/"}
Bins == {Bin(op, l, r, "symbol") : op \in Ops, l, r \in Leaf} \union {Bin(op, l, r, "word") : op \in Ops, l, r \in Some}
  \union {Bin("-", l, r, "glued") : l, r \in Some}
  \union {Bin("%", l, r, "symbol") : l \in {Num(9), Par("PARA", 1), Par("PARA", 2)}, r \in {Num(2), Par("PARA", 2)}}
(* An attribute of a neighbour with words, numbers and other ones around it. *)
Width == L(O("PWID", "PREV"))
Of == {Width, L(O("PLEN", "PREV"))}
OfNeighbours ==
  {Bin(op, l, r, as) : op \in Ops, l, r \in Of \union {Num(4), Par("PARA", 1)}, as \in {"symbol", "word"}}
  \union {Pre(w, l, r) : w \in {"SUM", "TWICE", "ATTRIB"}, l, r \in Of \union {Num(4), Par("PARA", 2), L(P("HEIG", 0, FALSE)), L(R("A"))}}
  \union {Bin("-", Bin("+", Width, a, "symbol"), b, "symbol") : a, b \in Of \union {Pre("TWICE", Width, Width)}}
  \union {Fn("max", a, b, TRUE) : a, b \in Of} \union {Neg(a, g) : a \in Of, g \in BOOLEAN}
Deep == UNION {{Bin(op, Bin(q, l, r, "symbol"), x, "symbol"), Bin(op, x, Bin(q, l, r, "symbol"), "symbol")} : op, q \in Ops, l, r, x \in Some}
  \union {Bin("^", Num(2), Bin("^", Num(3), Num(2), "symbol"), "symbol"), Bin("^", Bin("^", Num(2), Num(3), "symbol"), Num(2), "symbol"),
          Bin("*", Num(3), Bin("^", Par("PARA", 2), Num(2), "symbol"), "symbol"), Bin("^", Neg(Num(3), TRUE), Num(2), "symbol"),
          Bin("^", Par("PARA", 2), Neg(Num(1), TRUE), "symbol"), Bin("^", Num(2), Num(5), "symbol")}
Small == {Bin(op, Par("PARA", 1), r, "symbol") : op \in Ops, r \in {Num(2), Par("PARA", 2), Lost9}}
Others == {Neg(a, g) : a \in Leaf \union Small, g \in BOOLEAN}
  \union {Bin(op, Num(5), Neg(a, g), "symbol") : op \in Ops, a \in Some, g \in BOOLEAN} \union {Neg(Neg(Num(2), FALSE), FALSE)}
  \union {Fn("abs", a, a, g) : a \in Leaf \union Small, g \in BOOLEAN} \union {Fn("cos", a, a, g) : a \in {Num(90), Lost9}, g \in BOOLEAN}
  \union {Fn(f, a, b, TRUE) : f \in {"min", "max"}, a \in Some \union Small, b \in Some}
  \union {Bin(op, Fn("abs", a, a, TRUE), Num(4), "symbol") : op \in Ops \union {"^"}, a \in Some}
  \union {Bin(op, Num(4), Pre(w, a, b), "word") : op \in Ops, w \in {"SUM", "DIFFERENCE", "TWICE"}, a \in Some, b \in Some \union {Lost9}}
  \union {Pre("TANF", a, Num(90)) : a \in Some}
All == Leaf \union OfNeighbours \union Bins \union Deep \union Others
E(tree, unit) == [tree |-> tree, unit |-> unit]
C(design, exprs) == [design |-> design, exprs |-> exprs, tubi |-> FALSE]
First_ == {L(R("A")), L(R("B")), L(R("D")), Lost9}
MCComponents ==
  {C("plain", <<E(t, "DIST")>>) : t \in All} \union {C("plain", <<E(t, "ANGL")>>) : t \in Leaf \union Small}
  \union {C("plain", <<E(f, "DIST"), E(t, "DIST")>>) : f \in First_, t \in Leaf \union Small}
  \union {C(d, <<E(t, "DIST")>>) : d \in {"bare", "grouped", "long", "alone"}, t \in Leaf \union Small}
  \union {C("long", <<E(t, "DIST")>>) : t \in Bins}
  \union {[C("plain", <<E(L(O("PWID", "PREV")), "DIST")>>) EXCEPT !.tubi = TRUE]}
=============================================================================
