-------------------------- MODULE CatalogueShapes ---------------------------
(***************************************************************************)
(* The shapes a catalogue describes (prim_geo/category.rs,                  *)
(* convert_to_brep_shapes) and implied tubing (prim_geo/tubing.rs).         *)
(*                                                                         *)
(* One dimension stands for the three: everything lies on the line of its   *)
(* axis, an axis is a position on it and a direction along it (dir: <<>>    *)
(* none given, <<0>> the zero vector; flag the sign for an axis without     *)
(* direction).  Turns about the axis are left out.                          *)
(***************************************************************************)
EXTENDS PrimShapes

Axis(at, dir, flag) == [at |-> at, dir |-> dir, flag |-> flag]
(* A description holds the axes it has; without the one it needs there is no *)
(* shape.                                                                   *)
Pa(d) == d.pa[1]
Direction(d) == IF Pa(d).dir = <<>> THEN Pa(d).flag ELSE Pa(d).dir[1]

(* A shape, where its own origin is and which way its own z axis points. *)
Placed(shape, at, dir) == <<[shape |-> shape, at |-> at, dir |-> dir]>>
Rejected == <<>>

(* A negative height turns the shape round at its bottom. *)
SCylinderOf(d) ==
  LET dir == Direction(d) IN
  Placed(SCylinder(d.dia, Abs(d.hei), <<0, 0, 0, 0>>, FALSE), Pa(d).at + dir * d.btm,
         IF d.hei < 0 THEN -dir ELSE dir)
LCylinderOf_unturned(d) ==
  Placed(LCylinder(d.dia, d.btm, d.top, Uncounted), Pa(d).at + Direction(d) * d.btm, Direction(d))
LCylinderOf(d) ==
  LET dir == Direction(d) IN
  Placed(LCylinder(d.dia, d.btm, d.top, Uncounted), Pa(d).at + dir * d.btm,
         IF d.top < d.btm THEN -dir ELSE dir)
(* Without a direction the x axis is taken, whatever the flag says. *)
DishOf(d) ==
  LET dir == IF Pa(d).dir = <<>> THEN 1 ELSE Pa(d).dir[1] IN
  IF dir = 0 THEN Rejected
  ELSE Placed(Dish(d.dia, Abs(d.hei), d.rad, Uncounted), Pa(d).at + dir * d.btm,
              IF d.hei < 0 THEN -dir ELSE dir)
(* The ends are exchanged when the top is below the bottom; the offset stays. *)
SnoutOf(d) ==
  LET dir == Direction(d)
      height == d.top - d.btm
      mid == Pa(d).at + (dir * (d.btm + d.top)) \div 2
      h == Abs(height)
  IN IF height < 0
     THEN Placed(LSnout(-(h \div 2), h \div 2, d.dtop, d.dbtm, d.off, TRUE, Uncounted), mid, dir)
     ELSE Placed(LSnout(-(h \div 2), h \div 2, d.dbtm, d.dtop, d.off, FALSE, Uncounted), mid, dir)
SlopeBottomOf(d) ==
  LET dir == Direction(d) IN
  IF dir = 0 THEN Rejected
  ELSE Placed(SCylinder(d.dia, d.hei, d.shear, FALSE), Pa(d).at + dir * d.btm, dir)
PyramidOf(d) ==
  LET dir == Direction(d) IN
  Placed(Pyramid("LPyramid", d.btm, d.top, d.size, d.pa), Pa(d).at + (dir * (d.btm + d.top)) \div 2, dir)

(* The circle through both ends of a torus (RotateInfo): none when the ends *)
(* do not face each other; ends that meet leave no x axis, and the code     *)
(* halves the outside of a circular torus then.                             *)
TorusOf(d) ==
  IF d.circle = <<>> THEN Rejected
  ELSE LET c == d.circle[1] half == d.dia \div 2
           rout == c.radius + half
       IN Placed(CTorus(c.radius - half, IF c.meet THEN rout \div 2 ELSE rout, c.angle, Uncounted), c.centre, 1)
RectTorusOf(d) ==
  IF d.circle = <<>> THEN Rejected
  ELSE LET c == d.circle[1] half == d.dia \div 2
       IN Placed(RTorus(c.radius - half, c.radius + half, d.hei, c.angle, Uncounted), c.centre, 1)

(* Outlines of two points and less are refused: they would all share a row. *)
HasPlane(d) == ~d.parallel /\ d.verts > 2
RevolutionOf(d) == IF HasPlane(d) THEN Placed(Revolution(d.outline, d.angle), Pa(d).at, 1) ELSE Rejected
ExtrusionOf(d) == IF HasPlane(d) THEN Placed(Extrusion(d.outline, d.hei, "Fill"), Pa(d).at, 1) ELSE Rejected

convert_to_brep_shapes(d) ==
  CASE d.type # "Box" /\ d.pa = <<>> -> Rejected
    [] d.type = "Box" -> Placed(SBox(d.size), d.offset, 1)
    [] OTHER ->
  CASE d.type = "Pyramid" -> PyramidOf(d)
    [] d.type = "Torus" -> TorusOf(d)
    [] d.type = "RectTorus" -> RectTorusOf(d)
    [] d.type = "Dish" -> DishOf(d)
    [] d.type \in {"Snout", "Cone"} -> SnoutOf(d)
    [] d.type = "SCylinder" -> SCylinderOf(d)
    [] d.type = "LCylinder" -> LCylinderOf(d)
    [] d.type = "SlopeBottomCylinder" -> SlopeBottomOf(d)
    [] d.type = "Sphere" -> Placed(Sphere(d.dia \div 2, Uncounted), Pa(d).at, 1)
    [] d.type = "Revolution" -> RevolutionOf(d)
    [] d.type = "Extrusion" -> ExtrusionOf(d)
    [] OTHER -> Rejected

(* Implied tubing from start to end: a pipe (size of one) or a duct.        *)
convert_to_shape(t) ==
  IF t.size = <<>> THEN Rejected
  ELSE LET len == Abs(t.end - t.start)
           dir == IF t.end >= t.start THEN 1 ELSE -1
       IN IF Len(t.size) = 1 THEN Placed(SCylinder(t.size[1], len, <<0, 0, 0, 0>>, FALSE), t.start, dir)
          ELSE Placed(SBox(<<t.size[1], t.size[2], len>>), t.start, dir)
(* Where the same tube is drawn from the shared unit rows: a pipe stands on  *)
(* its start, a duct is centred.                                            *)
get_transform(t) ==
  IF t.size = <<>> \/ t.start = t.end THEN <<>>
  ELSE LET len == Abs(t.end - t.start)
           dir == IF t.end >= t.start THEN 1 ELSE -1
       IN IF Len(t.size) = 1 THEN <<[scale |-> <<t.size[1], t.size[1], len>>, at |-> t.start, dir |-> dir]>>
          ELSE <<[scale |-> <<t.size[1], len, t.size[2]>>, at |-> t.start + (t.end - t.start) \div 2, dir |-> dir]>>
=============================================================================
