------------------------------- MODULE MCUnit -------------------------------
(* Scenes for UnitMesh: the elements of a batch, solids of every kind and    *)
(* size, some cut and some described by the catalogue.                      *)
EXTENDS CatalogueShapes, TLC

NoLimit == <<>>
Element(n, hash, own, neg, source) == [refno |-> n, sesno |-> 1, hash |-> hash, own |-> own, neg |-> neg, source |-> source]
Noun(noun, att) == [by |-> "noun", noun |-> noun, att |-> att, limit |-> NoLimit]
Cut(noun, att, limit) == [by |-> "noun", noun |-> noun, att |-> att, limit |-> <<limit>>]
Cata(d) == [by |-> "catalogue", param |-> d]
Up == <<Axis(0, <<1>>, 1)>>
Down == <<Axis(500, <<-1>>, 1)>>
Flag(n) == <<Axis(0, <<>>, n)>>

CylinderDs == {[type |-> "SCylinder", pa |-> a, btm |-> b, hei |-> h, dia |-> 5000] : a \in {Up, Down, Flag(-1)}, b \in {0, 300}, h \in {2000, -2000}}
LCylinderDs == {[type |-> "LCylinder", pa |-> a, btm |-> 300, top |-> t, dia |-> d] : a \in {Up, Down, <<>>}, t \in {1300, -700}, d \in {5000, 20000}}
SlopeDs == {[type |-> "SlopeBottomCylinder", pa |-> Up, btm |-> 0, hei |-> h, dia |-> 5000, shear |-> <<0, 0, s, 0>>] :
            h \in {2000, -2000}, s \in {0, 30, 135, -45, 180, 271}}
DishDs == {[type |-> "Dish", pa |-> a, btm |-> 100, hei |-> h, dia |-> d, rad |-> r] :
           a \in {Up, Down, Flag(-1)}, h \in {2500, -2500}, d \in {5000, 10000, 20000}, r \in {0, 1000}}
SnoutDs == {[type |-> "Snout", pa |-> a, btm |-> 0, top |-> t, dbtm |-> b, dtop |-> w, off |-> o] :
            a \in {Up, Down}, t \in {2000, -2000}, b \in {0, 900, 10000}, w \in {0, 500}, o \in {0, 100}}
Circle(r, meet) == <<[radius |-> r, angle |-> 90, centre |-> 0, meet |-> meet]>>
OtherDs == {[type |-> "Torus", pa |-> Up, circle |-> c, dia |-> 1000] : c \in {<<>>, Circle(3000, FALSE), Circle(500, TRUE)}}
   \union {[type |-> "RectTorus", pa |-> Up, circle |-> c, dia |-> 1000, hei |-> 700] : c \in {<<>>, Circle(3000, FALSE)}}
   \union {[type |-> "Sphere", pa |-> Up, dia |-> d] : d \in {0, 1000, 90000}}
   \union {[type |-> "Box", pa |-> <<>>, offset |-> 5, size |-> <<1000, 2000, z>>] : z \in {0, 3000}}
   \union {[type |-> "Pyramid", pa |-> Up, btm |-> 0, top |-> t, size |-> <<100, 100, 200, 200, 0, 0>>] : t \in {1000, 2000}}
   \union {[type |-> "Extrusion", pa |-> Up, parallel |-> p, verts |-> v, outline |-> o, hei |-> h] :
             p \in BOOLEAN, v \in {2, 4}, o \in {"square", "ell"}, h \in {-100, 500, 20000}}
   \union {[type |-> "Revolution", pa |-> Up, parallel |-> FALSE, verts |-> v, outline |-> o, angle |-> 90] : v \in {2, 4}, o \in {"square", "ell"}}
   \union {[type |-> "Unknown", pa |-> Up]}
Descriptions == CylinderDs \union LCylinderDs \union SlopeDs \union DishDs \union SnoutDs \union OtherDs

Nouns ==
  {Noun("CTOR", [RINS |-> i, ROUT |-> o, ANGL |-> a]) : i \in {-100, 5000, 5200, 5250}, o \in {10000, 10400, 10500}, a \in {90, 360}}
  \union {Noun("RTOR", [RINS |-> i, ROUT |-> o, ANGL |-> a, HEIG |-> 700]) : i \in {-100, 5000, 5250}, o \in {10000, 10500}, a \in {90, -270}}
  \union {Noun("CYLI", [DIAM |-> d, HEIG |-> 3000]) : d \in {0, 5000, 5100, 20000}}
  \union {Cut("NCYL", [DIAM |-> 5000, HEIG |-> 3000], 2000), Cut("NBOX", [XLEN |-> 900, YLEN |-> 900, ZLEN |-> 900], 500), Cut("NSPH", <<>>, 5)}
  \union {Noun("SPHE", [RADI |-> d]) : d \in {2500, 2550, 20000}}
  \union {Noun("CONE", [DTOP |-> t, DBOT |-> b, HEIG |-> 2000]) : t \in {0, 500, 5000}, b \in {0, 900, 9000}}
  \union {Noun("DISH", [DIAM |-> d, HEIG |-> 2500, RADI |-> r]) : d \in {5000, 10000, 20000}, r \in {0, 4, 1000, 2000}}
  \union {Noun("BOX", [XLEN |-> x, YLEN |-> 1000, ZLEN |-> 700]) : x \in {300, 500}}
  \union {Noun("PYRA", [XTOP |-> 1, YTOP |-> 1, XBOT |-> x, YBOT |-> 4, HEIG |-> 10]) : x \in {-4, 4}}
Sweeps == {[by |-> "sweep", solid |-> SweepSolid(p, <<s, e>>, path, turn)] :
   p \in {"I", "U"}, s \in {"none", "square", "slanted"}, e \in {"none", "grazing"}, path \in {<<"line", 1000>>, <<"line", 2500>>, <<"arc", 90>>}, turn \in {<<0, "Y", FALSE>>, <<90, "X", TRUE>>}}
Undirected == {[w EXCEPT !.solid.dir = "none"] : w \in {v \in Sweeps : v.solid.profile = "I"}}
Tubes == {[by |-> "tube", tube |-> [start |-> 0, end |-> e, size |-> s]] : e \in {0, 700}, s \in {<<>>, <<100>>, <<100, 50>>}}

All == {Cata(d) : d \in Descriptions} \union Nouns \union Sweeps \union Undirected \union Tubes
One_(a) == {Element(1, "", FALSE, 0, a)}
Two(a, b) == {Element(1, "", FALSE, 0, a), Element(2, "", FALSE, 0, b)}
Spheres(o, n) == {Element(1, "h", o, n, Noun("SPHE", [RADI |-> 2500])), Element(2, "h", o, 0, Noun("SPHE", [RADI |-> 2500]))}
OfNoun(noun) == {n \in Nouns : n.noun = noun}
Kinds == {"CTOR", "RTOR", "CYLI", "SPHE", "CONE", "DISH", "BOX", "NBOX", "PYRA"}
MCScenes == {One_(a) : a \in All} \union UNION {{Two(a, b) : a \in OfNoun(k), b \in OfNoun(k)} : k \in Kinds}
   \union {Spheres(o, n) : o \in BOOLEAN, n \in {0, 2}}
   \union {Two(Cata(a), Cata(b)) : a, b \in {d \in OtherDs : d.type = "Extrusion"}}
   \union {Two(a, b) : a, b \in {w \in Sweeps : w.solid.ends[2] = "none" /\ w.solid.ends[1] # "square"}}
=============================================================================
