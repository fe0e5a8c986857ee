---------------------------- MODULE PrimShapes ------------------------------
(***************************************************************************)
(* The primitive shapes of prim_geo/: what they are, when they are valid,   *)
(* the facets they are drawn with, and the shapes of elements read from     *)
(* their attributes (create_brep_shape).                                    *)
(*                                                                         *)
(* A shape is a record; seg holds the segment counts a unit row carries and *)
(* is Uncounted in a shape of its true size.  Outlines, profiles and the    *)
(* points of pyramids and polyhedra are names: they are only hashed and     *)
(* compared.                                                                *)
(***************************************************************************)
EXTENDS Facets

Uncounted == <<>>
Abs(n) == IF n >= 0 THEN n ELSE -n

LCylinder(dia, btm, top, seg) == [kind |-> "LCylinder", dia |-> dia, btm |-> btm, top |-> top, seg |-> seg]
SCylinder(dia, hei, shear, mid) ==
  [kind |-> "SCylinder", dia |-> dia, hei |-> hei, shear |-> shear, mid |-> mid, seg |-> Uncounted]
Dish(dia, hei, rad, seg) == [kind |-> "Dish", dia |-> dia, hei |-> hei, rad |-> rad, seg |-> seg]
CTorus(rins, rout, angle, seg) ==
  [kind |-> "CTorus", rins |-> rins, rout |-> rout, angle |-> angle, seg |-> seg]
RTorus(rins, rout, hei, angle, seg) ==
  [kind |-> "RTorus", rins |-> rins, rout |-> rout, hei |-> hei, angle |-> angle, seg |-> seg]
LSnout(btm, top, dbtm, dtop, off, upside, seg) ==
  [kind |-> "LSnout", btm |-> btm, top |-> top, dbtm |-> dbtm, dtop |-> dtop, off |-> off,
   upside |-> upside, seg |-> seg]
Sphere(radius, seg) == [kind |-> "Sphere", radius |-> radius, seg |-> seg]
SBox(size) == [kind |-> "SBox", size |-> size, seg |-> Uncounted]
Pyramid(kind, btm, top, size, points) ==
  [kind |-> kind, btm |-> btm, top |-> top, size |-> size, points |-> points, seg |-> Uncounted]
Extrusion(outline, hei, curve) ==
  [kind |-> "Extrusion", outline |-> outline, hei |-> hei, curve |-> curve, seg |-> Uncounted]
Revolution(outline, angle) == [kind |-> "Revolution", outline |-> outline, angle |-> angle, seg |-> Uncounted]
Polyhedron(polygons) == [kind |-> "Polyhedron", polygons |-> polygons, seg |-> Uncounted]
(* A profile swept along a line or an arc; ends are the requested cut planes. *)
(* A sweep made otherwise may have no direction to be extruded in.          *)
SweepSolid(profile, ends, path, turn) ==
  [kind |-> "SweepSolid", profile |-> profile, ends |-> ends, path |-> path, turn |-> turn, dir |-> "Z", seg |-> Uncounted]

(* Cylinders whose ends are cut at an angle: 180 degrees either way is the  *)
(* same plane, and one subtraction or addition is made.                     *)
fold_shear_angle_deg(deg) ==
  LET d == IF deg > 90 THEN deg - 180 ELSE deg IN IF d < -90 THEN d + 180 ELSE d
folded(s) == [s EXCEPT !.shear = [i \in 1 .. 4 |-> fold_shear_angle_deg(s.shear[i])]]
is_sscl(s) == s.kind = "SCylinder" /\ \E i \in 1 .. 4 : folded(s).shear[i] # 0

is_elliptical(s) == s.rad > 0
is_eccentric(s) == s.off # 0

(* A cut plane across the path, the square end, is no mitre, nor is one that *)
(* contains the path, which cannot be worked; everything else is.           *)
set_mitre_planes(plane) == plane \notin {"none", "square", "grazing"}
is_sloped(s) == \E i \in 1 .. 2 : set_mitre_planes(s.ends[i])
is_reuse_unit(s) == s.path[1] = "line" /\ ~is_sloped(s)

segment_counts(s) ==
  IF s.seg # Uncounted THEN s.seg
  ELSE CASE s.kind \in {"LCylinder", "SCylinder"} -> <<circle_segments(s.dia \div 2)>>
         [] s.kind = "Sphere" -> <<circle_segments(s.radius)>>
         [] s.kind = "LSnout" -> <<snout_segments(s.dbtm, s.dtop)>>
         [] s.kind = "CTorus" -> <<torus_ring_segments(s.rout, s.angle),
                                   circular_torus_tube_segments(s.rins, s.rout)>>
         [] s.kind = "RTorus" -> <<torus_ring_segments(s.rout, s.angle)>>
         [] s.kind = "Dish" -> IF is_elliptical(s) THEN elliptical_dish_facets(s.dia \div 2, s.hei)
                               ELSE spherical_dish_facets(s.dia \div 2, s.hei)

LCylinderIsValid(s) == s.dia > 0 /\ s.btm # s.top
SCylinderIsValid(s) == s.dia > 0 /\ s.hei # 0 /\ \A i \in 1 .. 4 : Abs(folded(s).shear[i]) < 90
DishIsValid(s) == s.dia > 0 /\ s.hei > 0
CTorusIsValid(s) == s.rout > 0 /\ s.rins >= 0 /\ s.angle # 0 /\ s.rout > s.rins
RTorusIsValid(s) == CTorusIsValid(s) /\ s.hei > 0
LSnoutIsValid(s) == s.dtop >= 0 /\ s.dbtm >= 0 /\ s.dtop + s.dbtm > 0 /\ s.top > s.btm
PyramidIsValid(s) ==
  /\ s.size[1] * s.size[2] > 0 \/ s.size[3] * s.size[4] > 0
  /\ \A i \in 1 .. 4 : s.size[i] >= 0

check_valid(s) ==
  CASE s.kind = "LCylinder" -> LCylinderIsValid(s)
    [] s.kind = "SCylinder" -> SCylinderIsValid(s)
    [] s.kind = "Dish" -> DishIsValid(s)
    [] s.kind = "CTorus" -> CTorusIsValid(s)
    [] s.kind = "RTorus" -> RTorusIsValid(s)
    [] s.kind = "LSnout" -> LSnoutIsValid(s)
    [] s.kind = "Sphere" -> s.radius > 0
    [] s.kind = "SBox" -> \A i \in 1 .. 3 : s.size[i] > 0
    [] s.kind \in {"Pyramid", "LPyramid"} -> PyramidIsValid(s)
    [] s.kind = "Extrusion" -> s.hei > 0
    [] s.kind = "Polyhedron" -> s.polygons # <<>>
    [] s.kind = "SweepSolid" -> s.dir # "none"
    [] s.kind = "Revolution" -> TRUE

(* The element's own length limit cuts boxes and cylinders (and extrusions, *)
(* which no element is read as); other shapes ignore it.                    *)
apply_limit_by_size(s, limit) ==
  CASE s.kind = "SBox" -> SBox([i \in 1 .. 3 |-> Smaller(s.size[i], limit)])
    [] s.kind = "SCylinder" -> [s EXCEPT !.hei = Smaller(s.hei, limit), !.dia = Smaller(s.dia, limit)]
    [] OTHER -> s

(* Elements by their noun; the nouns that begin with N are negatives.  An   *)
(* attribute that is missing counts as zero.                                *)
F(att, name) == IF name \in DOMAIN att THEN att[name] ELSE 0
BoxFrom(att) == SBox(<<F(att, "XLEN"), F(att, "YLEN"), F(att, "ZLEN")>>)
SCylinderFrom(att) == SCylinder(F(att, "DIAM"), F(att, "HEIG"), <<0, 0, 0, 0>>, TRUE)
SphereFrom(att) == Sphere(F(att, "RADI"), Uncounted)
LSnoutFrom(att) ==
  LSnout(-(F(att, "HEIG") \div 2), F(att, "HEIG") \div 2, F(att, "DBOT"), F(att, "DTOP"), 0, FALSE, Uncounted)
DishFrom(att) == Dish(F(att, "DIAM"), F(att, "HEIG"), F(att, "RADI"), Uncounted)
CTorusFrom(att) == CTorus(Larger(F(att, "RINS"), 0), F(att, "ROUT"), F(att, "ANGL"), Uncounted)
RTorusFrom(att) == RTorus(Larger(F(att, "RINS"), 0), F(att, "ROUT"), F(att, "HEIG"), F(att, "ANGL"), Uncounted)
PyramidFrom(att) ==
  Pyramid("Pyramid", -(F(att, "HEIG") \div 2), F(att, "HEIG") \div 2,
          [i \in 1 .. 6 |-> F(att, <<"XTOP", "YTOP", "XBOT", "YBOT", "XOFF", "YOFF">>[i])], <<>>)
OfAttributes(noun, att) ==
  CASE noun \in {"BOX", "NBOX"} -> <<BoxFrom(att)>>
    [] noun \in {"CYLI", "SLCY", "NCYL"} -> <<SCylinderFrom(att)>>
    [] noun = "SPHE" -> <<SphereFrom(att)>>
    [] noun \in {"CONE", "NCON", "SNOU", "NSNO"} -> <<LSnoutFrom(att)>>
    [] noun \in {"DISH", "NDIS"} -> <<DishFrom(att)>>
    [] noun \in {"CTOR", "NCTO"} -> <<CTorusFrom(att)>>
    [] noun \in {"RTOR", "NRTO"} -> <<RTorusFrom(att)>>
    [] noun \in {"PYRA", "NPYR"} -> <<PyramidFrom(att)>>
    [] OTHER -> <<>>

(* limit: <<>> for none. *)
create_brep_shape(noun, att, limit) ==
  LET r == OfAttributes(noun, att)
  IN IF r = <<>> \/ limit = <<>> THEN r ELSE <<apply_limit_by_size(r[1], limit[1])>>
=============================================================================
