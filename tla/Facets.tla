------------------------------- MODULE Facets -------------------------------
(***************************************************************************)
(* The number of facets a curved primitive is drawn with                    *)
(* (prim_geo/libgm_discretise.rs).  Lengths are hundredths of a millimetre, *)
(* angles degrees; ratios are ten-thousandths (One is 1.0).                 *)
(*                                                                         *)
(* A circle gets the least multiple of four of at least eight chords whose  *)
(* sagitta R(1 - cos(pi/n)) is within the tolerance.  The code computes n   *)
(* with acos; here it is found from the largest radius n chords suffice     *)
(* for, 0.5 / (1 - cos(pi/n)) mm = n^2/pi^2 + 1/12 mm up to a micrometre.   *)
(* MaxSegments stands for the cap of 1000 (MAX_SEGMENTS, radii of 100 m),   *)
(* which circles of the sizes below do not reach.                           *)
(***************************************************************************)
EXTENDS Integers, Sequences, FiniteSets

One == 10000
MaxSegments == 144
CeilDiv(a, b) == -((-a) \div b)
Larger(a, b) == IF a >= b THEN a ELSE b
Smaller(a, b) == IF a <= b THEN a ELSE b

LargestRadius(n) == (n * n * 101321) \div 10000 + 8

circle_segments(radius) ==
  IF radius <= 0 THEN 1
  ELSE LET TooFew == {k \in 2 .. MaxSegments \div 4 : LargestRadius(4 * k) < radius}
       IN Smaller(4 * (2 + Cardinality(TooFew)), MaxSegments)

(* The sweep of a partial revolution, in (0, 360]: 0 and 360 are the whole. *)
Sweep(start, end) == LET d == (end - start) % 360 IN IF d = 0 THEN 360 ELSE d

part_rev_segments(radius, start, end) ==
  LET n == circle_segments(radius) s == Sweep(start, end)
  IN IF s = 360 THEN n ELSE Larger(CeilDiv(n * s, 360), 2)

snout_segments(bottom, top) == circle_segments(Larger(bottom, top) \div 2)
torus_ring_segments(rout, angle) == part_rev_segments(rout, 0, angle)
circular_torus_tube_segments(rins, rout) == circle_segments((rout - rins) \div 2)

(* The shape of a dish follows from its height over its base radius: the    *)
(* half angle of a spherical one, and of an elliptical one the radii of     *)
(* knuckle and hub over the base radius and the angle between them, here    *)
(* for four ratios, in hundredths of a degree.                              *)
Profile(polar, sphere, knuckle, hub, transition) ==
  [polar |-> polar, sphere |-> sphere, knuckle |-> knuckle, hub |-> hub, transition |-> transition]
DishProfile ==
  [h \in {2500, 5000, 10000, 20000} |->
     CASE h = 2500  -> Profile(2807, 21250, 1447, 36712, 1404)
       [] h = 5000  -> Profile(5313, 12500, 3455, 18090, 2657)
       [] h = 10000 -> Profile(9000, 10000, 10000, 10000, 4500)
       [] h = 20000 -> Profile(12687, 12500, 36180, 6910, 6343)]
Of(radius, ratio) == ((radius \div 10) * ratio) \div (One \div 10)

spherical_dish_facets(a, h) ==
  LET p == DishProfile[(h * One) \div a]
      around == circle_segments(IF h >= a THEN Of(a, p.sphere) ELSE a)
  IN <<around, Larger(CeilDiv(p.polar * around, 36000), 1)>>

(* Above the cap the code bounds hub and knuckle at 250 as well. *)
elliptical_dish_facets(a, h) ==
  LET p == DishProfile[(h * One) \div a]
      hub == Larger(CeilDiv(circle_segments(Of(a, p.hub)) * p.transition, 36000), 2)
      knuckle == Larger(CeilDiv(circle_segments(Of(a, p.knuckle)) * (9000 - p.transition), 36000), 2)
  IN <<circle_segments(a), hub, knuckle>>

(* What the unit tests of the file say of these functions. *)
ASSUME CirclesAsTested ==
  \A c \in {<<100, 8>>, <<2500, 16>>, <<10000, 32>>, <<25000, 52>>} : circle_segments(c[1]) = c[2]
ASSUME SweepsAsTested ==
  \A c \in {<<90, 90>>, <<360, 360>>, <<0, 360>>, <<-30, 330>>, <<-360, 360>>, <<450, 90>>, <<720, 360>>} :
    Sweep(0, c[1]) = c[2]
ASSUME CallsAsTested ==
  /\ torus_ring_segments(25000, 90) = 13 /\ torus_ring_segments(25000, 360) = 52
  /\ circular_torus_tube_segments(5000, 25000) = 32
  /\ spherical_dish_facets(10000, 2500) = <<32, 3>>
  /\ elliptical_dish_facets(50000, 12500)[1] = circle_segments(50000)
=============================================================================
