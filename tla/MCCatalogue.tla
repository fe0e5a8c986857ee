----------------------------- MODULE MCCatalogue -----------------------------
EXTENDS MCExpressions, FiniteSetsExt
NoDir == [by |-> "none"]
Para1 == Par("PARA", 1)
Ax(sign) == [by |-> "axis", sign |-> sign]
Pt(n, neg) == [by |-> "point", n |-> n, neg |-> neg, pp |-> FALSE, spaced |-> FALSE]
PP(n) == [Pt(n, FALSE) EXCEPT !.pp = TRUE]
Spaced(n, neg) == [Pt(n, neg) EXCEPT !.spaced = TRUE]
Turned(sign, angle) == [by |-> "turned", sign |-> sign, angle |-> angle]
To(tree, neg) == [by |-> "to", to |-> tree, neg |-> neg]
Point(refno, n, type, rest) == [refno |-> refno, NUMB |-> n, type |-> type] @@ rest
PTAX(n, dir) == Point(100 + n, n, "PTAX", [PDIS |-> Num(10 * n), PAXI |-> dir])
PTCA(n, dir) == Point(100 + n, n, "PTCA", [PY |-> Num(5 * n), PTCD |-> dir])
PTMI(n, dir) == Point(100 + n, n, "PTMI", [PY |-> Para1, PAXI |-> dir])
PTPOS(n, dir, at) == Point(100 + n, n, "PTPOS", [PTCD |-> dir, PTCPOS |-> <<at>>])
Seconds == {Ax(1), Ax(-1), NoDir, Turned(1, Num(180)), Turned(-1, Num(0)), To(Num(7), TRUE), To(Num(0), FALSE)}
  \union {Pt(1, s) : s \in BOOLEAN} \union {Spaced(1, TRUE), PP(1), Pt(9, FALSE)}
Second(d) == {PTAX(2, d), PTCA(2, d), PTMI(2, d), PTPOS(2, d, 1), PTPOS(2, d, 9)}
Firsts == {PTAX(1, Ax(1)), PTAX(1, Ax(-1)), PTCA(1, Ax(-1)), PTMI(1, Turned(1, Num(180)))}
Third == {PTAX(3, Pt(2, s)) : s \in BOOLEAN} \union {PTPOS(3, Pt(1, TRUE), 2), PTCA(3, Pt(2, TRUE))}
Turnable == {PTAX(1, Ax(1)) @@ [PZAXI |-> d] : d \in {Ax(-1), Pt(2, FALSE), To(Num(3), FALSE)}}
Odd(points) == {<<[refno |-> 90, NUMB |-> 1, type |-> "PLIN"]>> \o points,
                <<[refno |-> 91, NUMB |-> 1, type |-> "PTAX", PDIS |-> Num(1)]>> \o points,
                points \o <<Point(92, 1, "PTAX", [PDIS |-> Num(77), PAXI |-> Ax(-1)])>>,
                <<[refno |-> 93, type |-> "PTAX", PDIS |-> Num(2), PAXI |-> Ax(-1)]>> \o points}

Geom(type, rest) == [att |-> [refno |-> 7, type |-> type, TUFL |-> TRUE] @@ rest, loop |-> <<[PY |-> Num(1)], [PY |-> Para1, PRAD |-> Num(2)]>>]
Sizes == [PDIA |-> Num(4), PBDM |-> Num(6), PTDM |-> Num(8), PDIS |-> Num(3), PBDI |-> Num(2), PTDI |-> Para1,
          PHEI |-> Num(-5), PRAD |-> Num(1), PXLE |-> Num(1), PYLE |-> Num(2), PZLE |-> Num(3), POFF |-> Num(1)]
OnOne == {"LCYL", "SCYL", "SSLC", "SCON", "SDSH", "SSPH", "SBOX", "TUBE", "BOXI", "SANN", "SREC", "SPRO", "NSCY", "PNTS", "SLINE"}
OnMore == {"LSNO", "SCTO", "SRTO", "LPYR", "LINE", "SEXT", "SREV"}
Named == {Ax(1), Ax(-1), Pt(1, FALSE), Pt(1, TRUE), Pt(2, TRUE), Spaced(1, FALSE), PP(1), Pt(9, FALSE), NoDir, Turned(1, Num(180))}
Geoms == {Geom(t, [PAXI |-> a] @@ Sizes) : t \in OnOne, a \in Named} \union {Geom(t, Sizes) : t \in OnOne \union OnMore}
  \union {Geom(t, [PAAX |-> a, PBAX |-> b] @@ Sizes) : t \in OnMore, a, b \in Named}
  \union {Geom(t, [PBAX |-> Pt(1, FALSE)] @@ Sizes) : t \in OnMore}
  \union {Geom(t, [PAAX |-> Pt(1, FALSE), PLAX |-> Ax(-1)] @@ Sizes) : t \in OnMore}
  \union {Geom("LPYR", [PAAX |-> Ax(1), PBAX |-> Ax(1), PCAX |-> Ax(-1)] @@ Sizes)}
Hidden == [att |-> [refno |-> 8, type |-> "SCYL", PAXI |-> Ax(1)] @@ Sizes, loop |-> <<>>]
Empty == [Geom("SPRO", Sizes) EXCEPT !.loop = <<>>]
Pair == <<PTAX(1, Ax(-1)), PTCA(2, Pt(1, TRUE))>>
Lines == "NA" :> [PY |-> Num(3), DY |-> Num(4), PLAX |-> Ax(1)] @@ "TOS" :> [PY |-> Para1, PLAX |-> Ax(-1)]
Comp(points, geoms) == [design |-> "plain", points |-> points, geoms |-> geoms, negatives |-> <<>>, plins |-> Lines, jusl |-> "TOS"]
PointSets == {<<f, s>> : f \in Firsts, s \in UNION {Second(d) : d \in Seconds}}
  \union {<<f, s, t>> : f \in Firsts, s \in Second(Pt(1, TRUE)), t \in Third}
  \union {<<t, s>> : t \in Turnable, s \in Second(Ax(-1))}
  \union UNION {Odd(<<f, s>>) : f \in Firsts, s \in Second(Pt(1, FALSE))}
MCCatalogue == {Comp(p, <<>>) : p \in PointSets} \union {Comp(Pair, <<Hidden, g, Empty>>) : g \in Geoms}
  \union {[Comp(Pair, <<g>>) EXCEPT !.negatives = <<Hidden, g>>, !.jusl = "NONE", !.design = "bare"] : g \in {h \in Geoms : h.att.type = "LSNO"}}
=============================================================================
