------------------------------ MODULE UnitMesh ------------------------------
(***************************************************************************)
(* Meshes are shared: shapes that differ only in size are drawn from one    *)
(* unit shape, kept in the row of table inst_geo their key names (geometry/ *)
(* mod.rs over prim_geo/).  Elements are collected in batches               *)
(* (ShapeInstancesData), batches are merged, and the unit shape of every    *)
(* geometry of the whole is written to its row, over what was there.        *)
(*                                                                         *)
(* Which elements come, and when batches are merged and saved, is up to the *)
(* program that uses this library (gen-model); the order of two writes of   *)
(* one row is any.  A key is the tuple of what the code hashes.             *)
(***************************************************************************)
EXTENDS CatalogueShapes

CONSTANT Scenes     \* sets of elements that are collected in any order

(* collected remembers, for the properties, the elements that were read.    *)
VARIABLES todo, collected, batch, total, rows
unitVars == <<todo, collected, batch, total, rows>>

Ratio(n, d) == (n * One) \div d
Round3(r) == ((r + 5) \div 10) * 10
Upright == <<0, "Y", FALSE>>          \* no turn about the axis, no mirror

-----------------------------------------------------------------------------
(* What each shape makes of BrepShapeTrait: the key of the row it is drawn   *)
(* from, its unit shape, and how it is drawn from that: scaled, shifted and  *)
(* turned.                                                                  *)
Brep(key, unit, scale) == [key |-> key, unit |-> unit, scale |-> scale, shift |-> 0, turn |-> Upright]
Same == <<One, One, One>>
Splat(n) == <<n, n, n>>

UnitCylinder(seg) == LCylinder(One, -(One \div 2), One \div 2, seg)
LCylinderBrep(s, seg) == Brep(<<"cylinder", seg>>, UnitCylinder(seg), <<s.dia, s.dia, Abs(s.btm - s.top)>>)
SCylinderBrep(s, seg) ==
  [IF is_sscl(s) THEN Brep(<<"SSCL", folded(s)>>, folded(s), Same)
   ELSE Brep(<<"cylinder", seg>>, UnitCylinder(seg), <<s.dia, s.dia, Abs(s.hei)>>)
   EXCEPT !.shift = IF s.mid THEN -(s.hei \div 2) ELSE 0]
DishBrep(s, seg) ==
  Brep(<<"dish", Round3(Ratio(2 * s.hei, s.dia)), Round3(Ratio(s.rad, s.dia)), seg>>,
       Dish(One, Ratio(s.hei, s.dia), Round3(Ratio(s.rad, s.dia)), seg),
       IF is_elliptical(s) THEN <<s.dia, s.dia, 2 * s.hei>> ELSE Splat(s.dia))
TorusKey_ring_only(tag, s, seg) == <<tag, Round3(Ratio(s.rins, s.rout)), s.angle, <<seg[1]>>>>
TorusKey(tag, s, seg) == <<tag, Round3(Ratio(s.rins, s.rout)), s.angle, seg>>
CTorusBrep(s, seg) ==
  Brep(TorusKey("ctorus", s, seg), CTorus(Ratio(s.rins, s.rout), One, s.angle, seg), Splat(s.rout))
RTorusBrep(s, seg) ==
  Brep(TorusKey("rtorus", s, seg), RTorus(Ratio(s.rins, s.rout), One, One, s.angle, seg), <<s.rout, s.rout, s.hei>>)
UnitSnout(dbtm, dtop, seg) == LSnout(-(One \div 2), One \div 2, dbtm, dtop, 0, FALSE, seg)
SnoutUnit(s, seg) ==
  IF s.dtop = 0 THEN UnitSnout(One, 0, seg)
  ELSE IF s.dbtm = 0 THEN UnitSnout(0, One, seg)
  ELSE UnitSnout(One, Round3(Ratio(s.dtop, s.dbtm)), seg)
LSnoutBrep(s, seg) ==
  LET d == IF s.dbtm = 0 THEN s.dtop ELSE s.dbtm
      ratio == IF s.dbtm # 0 THEN Round3(Ratio(s.dtop, s.dbtm)) ELSE 0
  IN IF is_eccentric(s) THEN Brep(<<"eccentric", s>>, s, Same)
     ELSE Brep(<<"snout", ratio, s.top > s.btm, seg>>, SnoutUnit(s, seg), <<d, d, Abs(s.top - s.btm)>>)
SphereUnit_uncounted(seg) == Sphere(One, Uncounted)
SphereUnit(seg) == Sphere(One, seg)
SphereBrep(s, seg) == Brep(<<"sphere", seg>>, SphereUnit(seg), Splat(s.radius))
BOX_GEO_HASH == <<"1">>
SBoxBrep(s) == Brep(BOX_GEO_HASH, SBox(Same), s.size)
ExtrusionBrep(s) == Brep(<<"Extrusion", s.outline>>, Extrusion(s.outline, 10000, s.curve), <<One, One, s.hei>>)
RevolutionBrep(s) == Brep(<<"Revolution", s.outline, s.angle>>, s, Same)
OwnBrep(s) == Brep(<<s.kind, s>>, s, Same)      \* pyramids and polyhedra share nothing
UnitPath == <<"line", 1000>>
SweepSolidBrep(s) ==
  LET scale == IF is_sloped(s) \/ s.path[1] = "arc" THEN Same ELSE <<One, One, 10 * s.path[2]>>
  IN IF ~is_reuse_unit(s) THEN Brep(<<"own_loft", s>>, s, scale)
     ELSE [Brep(<<"loft", s.profile>>, SweepSolid(s.profile, <<"none", "none">>, UnitPath, Upright), scale) EXCEPT !.turn = s.turn]

Shaped(s, seg) ==
  CASE s.kind = "LCylinder" -> LCylinderBrep(s, seg)
    [] s.kind = "SCylinder" -> SCylinderBrep(s, seg)
    [] s.kind = "Dish" -> DishBrep(s, seg)
    [] s.kind = "CTorus" -> CTorusBrep(s, seg)
    [] s.kind = "RTorus" -> RTorusBrep(s, seg)
    [] s.kind = "LSnout" -> LSnoutBrep(s, seg)
    [] s.kind = "Sphere" -> SphereBrep(s, seg)
    [] s.kind = "SBox" -> SBoxBrep(s)
    [] s.kind = "Extrusion" -> ExtrusionBrep(s)
    [] s.kind = "Revolution" -> RevolutionBrep(s)
    [] s.kind \in {"Pyramid", "LPyramid", "Polyhedron"} -> OwnBrep(s)
    [] s.kind = "SweepSolid" -> SweepSolidBrep(s)
BrepOf(s) == Shaped(s, segment_counts(s))
hash_unit_mesh_params(s) == BrepOf(s).key
gen_unit_shape(s) == BrepOf(s).unit
Trans(b) == [scale |-> b.scale, shift |-> b.shift, turn |-> b.turn]
get_trans(s) == Trans(BrepOf(s))

-----------------------------------------------------------------------------
(* Batches of instances.                                                    *)
Nobody == [info |-> <<>>, tubi |-> <<>>, geos |-> <<>>, negs |-> <<>>, ngmr |-> <<>>]

(* Elements of one catalogue hash share geometry; a hash with an underscore *)
(* is the element's own, and none at all is as good.                        *)
id_str(e) == IF e.hash = "" \/ e.own THEN <<e.refno, e.sesno>> ELSE <<e.hash>>

(* A hash map in which k now has v, and one into which another was put:     *)
(* the newer entry wins.                                                    *)
Inserted(f, k, v) == [x \in DOMAIN f \union {k} |-> IF x = k THEN v ELSE f[x]]
Extended(f, g) == [x \in DOMAIN f \union DOMAIN g |-> IF x \in DOMAIN g THEN g[x] ELSE f[x]]

insert_info(d, refno, key) == [d EXCEPT !.info = Inserted(d.info, refno, key)]
insert_tubi(d, refno, key) == [d EXCEPT !.tubi = Inserted(d.tubi, refno, key)]
ListOf(f, k) == IF k \in DOMAIN f THEN f[k] ELSE <<>>
insert_geos_data_first(d, key, insts) ==
  [d EXCEPT !.geos = Inserted(d.geos, key, IF key \in DOMAIN d.geos THEN d.geos[key] ELSE insts)]
insert_geos_data(d, key, insts) == [d EXCEPT !.geos = Inserted(d.geos, key, ListOf(d.geos, key) \o insts)]
insert_negs(d, refno, negs) == [d EXCEPT !.negs = Inserted(d.negs, refno, ListOf(d.negs, refno) \o negs)]
insert_ngmr(d, refno, owner) ==
  LET had == IF owner \in DOMAIN d.ngmr THEN d.ngmr[owner] ELSE {}
  IN [d EXCEPT !.ngmr = Inserted(d.ngmr, owner, had \union {refno})]

Instance(brep, p) ==
  [geo_hash |-> brep.key, geo_param |-> p.shape, trans |-> Trans(brep), at |-> p.at, dir |-> p.dir]
Inst(p) == Instance(BrepOf(p.shape), p)

(* The shared rows of tubing: a cylinder of one millimetre and a box.       *)
TUBI_GEO_HASH == <<"2">>
BOXI_GEO_HASH == BOX_GEO_HASH
BasicInst(hash, shape) ==
  [geo_hash |-> hash, geo_param |-> shape, trans |-> get_trans(SBox(Same)), at |-> 0, dir |-> 1]
fill_basic_shapes(d) ==
  insert_geos_data(insert_geos_data(d, TUBI_GEO_HASH, <<BasicInst(TUBI_GEO_HASH, SCylinder(100, 100, <<0, 0, 0, 0>>, FALSE))>>),
                   BOXI_GEO_HASH, <<BasicInst(BOXI_GEO_HASH, SBox(Same))>>)

(* Infos, geometry and tubes are merged; the relations of negatives are not. *)
merge_ref(d, o) ==
  [d EXCEPT !.info = Extended(d.info, o.info), !.tubi = Extended(d.tubi, o.tubi),
            !.geos = [k \in DOMAIN d.geos \union DOMAIN o.geos |-> ListOf(d.geos, k) \o ListOf(o.geos, k)]]
(* clear forgets all but the cross negatives.                               *)
clear(d) == [Nobody EXCEPT !.ngmr = d.ngmr]

get_show_refnos(d) == DOMAIN d.info \union DOMAIN d.tubi

-----------------------------------------------------------------------------
(* What an element of a scene is: its shapes and where they stand.          *)
Centrally(r) == IF r = <<>> THEN <<>> ELSE Placed(r[1], 0, 1)
ShapesOf(e) ==
  LET src == e.source IN
  CASE src.by = "noun" -> Centrally(create_brep_shape(src.noun, src.att, src.limit))
    [] src.by = "catalogue" -> convert_to_brep_shapes(src.param)
    [] src.by = "sweep" -> Placed(src.solid, 0, 1)
    [] src.by = "tube" -> convert_to_shape(src.tube)

Valid(all) == IF all = <<>> \/ ~check_valid(all[1].shape) THEN <<>> ELSE <<Inst(all[1])>>
Insts(e) == Valid(ShapesOf(e))

HasEnds == {"SCylinder", "SlopeBottomCylinder", "LCylinder", "Dish", "Snout", "Cone"}

(* What a scene may hold.  Lengths are whole numbers, of a unit so small     *)
(* that half of what stands between two ends is whole; a dish has one of    *)
(* the profiles its facets are given for; directions are those of the line. *)
IsAxis(a) == a.at \in Int /\ a.flag \in {-1, 1} /\ a.dir \in {<<>>, <<-1>>, <<0>>, <<1>>}
HasProfile(dia, hei) ==
  dia > 0 /\ hei > 0 => \E r \in {2500, 5000, 10000, 20000} : dia % 2 = 0 /\ hei * One = r * (dia \div 2)
IsCircle(c) == c.radius \in Int /\ c.angle \in Int /\ c.centre \in Int /\ c.meet \in BOOLEAN
IsDescription(d) ==
  /\ d.type \in HasEnds \union {"Box", "Torus", "RectTorus", "Sphere", "Pyramid", "Extrusion", "Revolution", "Unknown"}
  /\ d.type = "Box" \/ d.pa = <<>> \/ IsAxis(Pa(d))
  /\ d.type = "Box" => d.size \in [1 .. 3 -> Int] /\ d.offset \in Int
  /\ d.type \in {"SCylinder", "SlopeBottomCylinder", "LCylinder", "Dish", "Torus", "RectTorus", "Sphere"} => d.dia \in Int
  /\ d.type \in HasEnds => d.btm \in Int
  /\ d.type \in {"SCylinder", "SlopeBottomCylinder", "Dish", "RectTorus", "Extrusion"} => d.hei \in Int
  /\ d.type \in {"LCylinder", "Snout", "Cone"} => d.top \in Int
  /\ d.type = "SlopeBottomCylinder" => d.shear \in [1 .. 4 -> Int]
  /\ d.type = "Dish" => d.rad \in Int /\ HasProfile(d.dia, Abs(d.hei))
  /\ d.type \in {"Snout", "Cone"} =>
       d.dbtm \in Int /\ d.dtop \in Int /\ d.off \in Int /\ d.btm % 2 = 0 /\ d.top % 2 = 0
  /\ d.type \in {"Torus", "RectTorus"} => d.circle = <<>> \/ IsCircle(d.circle[1])
IsAttributes(noun, att) ==
  /\ \A n \in DOMAIN att : att[n] \in Int
  /\ noun \in {"DISH", "NDIS"} => HasProfile(F(att, "DIAM"), F(att, "HEIG"))
IsSource(src) ==
  CASE src.by = "noun" -> IsAttributes(src.noun, src.att) /\ (src.limit = <<>> \/ src.limit[1] \in Int)
    [] src.by = "catalogue" -> IsDescription(src.param)
    [] src.by = "sweep" -> /\ src.solid.kind = "SweepSolid" /\ src.solid.path[1] \in {"line", "arc"}
                          /\ src.solid.path[2] \in Int
    [] OTHER -> src.by = "tube"
(* The keys of the two shared rows are the hash of no element.              *)
IsElement(e) == e.hash \notin {"1", "2"} /\ IsSource(e.source)
ASSUME ScenesAssumption == \A scene \in Scenes : IsFiniteSet(scene) /\ \A e \in scene : IsElement(e)

(* A tube is put in the batch by its transform; its geometry is basic.      *)
WithTube(e) ==
  IF get_transform(e.source.tube) = <<>> THEN batch
  ELSE insert_tubi(batch, e.refno, IF Len(e.source.tube.size) = 1 THEN TUBI_GEO_HASH ELSE BOXI_GEO_HASH)
Negative(d, e) == IF e.neg = 0 THEN d ELSE insert_ngmr(insert_negs(d, e.neg, <<e.refno>>), e.refno, e.neg)
WithShape(e, insts) ==
  IF insts = <<>> THEN batch
  ELSE Negative(insert_geos_data(insert_info(batch, e.refno, id_str(e)), id_str(e), insts), e)
Collect(e) ==
  /\ todo' = todo \ {e} /\ collected' = collected \union {e}
  /\ IF e.source.by = "tube" THEN batch' = WithTube(e)
     ELSE \E insts \in {Insts(e)} : batch' = WithShape(e, insts)
  /\ UNCHANGED <<total, rows>>

Merge ==
  /\ batch.info # <<>> \/ batch.tubi # <<>>
  /\ total' = merge_ref(total, batch)
  /\ batch' = clear(batch)
  /\ UNCHANGED <<todo, collected, rows>>

(* Every geometry's unit shape goes to its row.  rows holds all that was     *)
(* ever written to a row: any of it may have been written last.             *)
Geometries(d) == UNION {{d.geos[k][i] : i \in DOMAIN d.geos[k]} : k \in DOMAIN d.geos}
gen_unit_geo_sur_json(g) == [id |-> g.geo_hash, param |-> gen_unit_shape(g.geo_param)]
SaveRows ==
  /\ collected # {}
  /\ rows' = rows \union {gen_unit_geo_sur_json(g) : g \in Geometries(total)}
  /\ UNCHANGED <<todo, collected, batch, total>>

UnitInit ==
  /\ todo \in Scenes /\ collected = {}
  /\ batch = Nobody
  /\ total = fill_basic_shapes(Nobody)
  /\ rows = {}
UnitNext == (\E e \in todo : Collect(e)) \/ Merge \/ SaveRows
UnitSpec == UnitInit /\ [][UnitNext]_unitVars

-----------------------------------------------------------------------------
(* The solid a shape describes: its two ends along its z axis (where, how   *)
(* wide, how far aside), its other lengths by the axis that scales them,    *)
(* what no scaling changes, and its turn.                                   *)
End(z, dia, off) == [z |-> z, dia |-> dia, off |-> off]
Solid(form, ends, lengths, fixed) ==
  [form |-> form, ends |-> ends, lengths |-> lengths, fixed |-> fixed, turn |-> Upright]
Standing(h, dia) == <<End(0, dia, 0), End(h, dia, 0)>>
Centred(h, dia) == <<End(-(h \div 2), dia, 0), End(h \div 2, dia, 0)>>
Plane(deg) == (deg + 90) % 180

Drawn(s, seg) ==
  CASE s.kind = "LCylinder" -> Solid("cylinder", Standing(Abs(s.top - s.btm), s.dia), <<>>, seg)
    [] s.kind = "SCylinder" ->
         IF is_sscl(s) THEN Solid("sheared", Standing(s.hei, s.dia), <<>>, [i \in 1 .. 4 |-> Plane(s.shear[i])])
         ELSE Solid("cylinder", IF s.mid THEN Centred(s.hei, s.dia) ELSE Standing(s.hei, s.dia), <<>>, seg)
    [] s.kind = "Dish" -> Solid(IF is_elliptical(s) THEN "elliptical" ELSE "spherical",
                                <<End(0, s.dia, 0), End(s.hei, 0, 0)>>, <<>>, seg)
    [] s.kind = "CTorus" -> Solid("ctorus", <<>>, << <<1, s.rins>>, <<1, s.rout>> >>, <<Sweep(0, s.angle), seg>>)
    [] s.kind = "RTorus" -> Solid("rtorus", Centred(s.hei, 0), << <<1, s.rins>>, <<1, s.rout>> >>, <<Sweep(0, s.angle), seg>>)
    [] s.kind = "LSnout" -> Solid("snout", <<End(s.btm, s.dbtm, -(s.off \div 2)), End(s.top, s.dtop, s.off \div 2)>>,
                                  <<>>, seg)
    [] s.kind = "Sphere" -> Solid("sphere", <<>>, << <<1, s.radius>>, <<3, s.radius>> >>, seg)
    [] s.kind = "SBox" -> Solid("box", Centred(s.size[3], 0), << <<1, s.size[1]>>, <<2, s.size[2]>> >>, <<>>)
    [] s.kind = "Extrusion" -> Solid("extrusion", Standing(s.hei, 0), <<>>, <<s.outline, s.curve>>)
    [] s.kind = "SweepSolid" /\ s.path[1] = "line" /\ ~is_sloped(s) ->
         [Solid("sweep", Standing(s.path[2], 0), <<>>, s.profile) EXCEPT !.turn = s.turn]
    [] OTHER -> Solid("as_it_is", <<>>, <<>>, s)
Described(s) == Drawn(s, segment_counts(s))

Scaled(n, by) == (n * by) \div One
StretchedEnd(e, t) == End(Scaled(e.z, t.scale[3]) + t.shift, Scaled(e.dia, t.scale[1]), Scaled(e.off, t.scale[1]))
StretchedLength(l, t) == <<l[1], Scaled(l[2], t.scale[l[1]])>>
Stretched(u, t) ==
  [form |-> u.form, fixed |-> u.fixed,
   ends |-> [i \in DOMAIN u.ends |-> StretchedEnd(u.ends[i], t)],
   lengths |-> [i \in DOMAIN u.lengths |-> StretchedLength(u.lengths[i], t)],
   turn |-> IF u.turn = Upright THEN t.turn ELSE u.turn]
DrawnFrom(unit, t) == Stretched(Described(unit), t)

(* Alike up to the thousandth that keys are rounded to.                     *)
Near(a, b, size) == Abs(a - b) * 1000 <= size + 2000
NearEnd(a, b, size) == Near(a.z, b.z, size) /\ Near(a.dia, b.dia, size) /\ Near(a.off, b.off, size)
Alike(a, b, size) ==
  /\ a.form = b.form /\ a.fixed = b.fixed /\ a.turn = b.turn
  /\ Len(a.ends) = Len(b.ends) /\ \A i \in DOMAIN a.ends : NearEnd(a.ends[i], b.ends[i], size)
  /\ Len(a.lengths) = Len(b.lengths)
  /\ \A i \in DOMAIN a.lengths : Near(a.lengths[i][2], b.lengths[i][2], size)
Size(t) == Larger(t.scale[1], t.scale[3])

(* What the code does not get right: a cone standing on its point and one   *)
(* that ends in it have one key; an elliptical dish is scaled as though it  *)
(* were a hemisphere; a knuckle radius under a two-thousandth of the        *)
(* diameter is rounded away, which leaves a spherical dish; and a sloped    *)
(* cylinder of negative height is turned only if its ends are sheared.      *)
SharedPoint(g) ==
  \E h \in Geometries(total) :
    h.geo_hash = g.geo_hash /\ h.geo_param.kind = "LSnout" /\ (h.geo_param.dbtm = 0) # (g.geo_param.dbtm = 0)
ScaledAsHemisphere(s) == s.kind = "Dish" /\ is_elliptical(s) /\ 2 * s.hei # s.dia
KnuckleRoundedAway(s) == s.kind = "Dish" /\ is_elliptical(s) /\ Round3(Ratio(s.rad, s.dia)) = 0
NotTurned(s) == s.kind = "SCylinder" /\ ~is_sscl(s) /\ s.hei < 0
Spoilt(g) ==
  \/ g.geo_param.kind = "LSnout" /\ SharedPoint(g)
  \/ ScaledAsHemisphere(g.geo_param) \/ KnuckleRoundedAway(g.geo_param) \/ NotTurned(g.geo_param)

(* Whatever the order in which shapes of one row are written to it, every   *)
(* shape is drawn with its own dimensions, facets, cuts and turn.           *)
SolidsAreReproduced ==
  \A g \in Geometries(total) : \A row \in rows :
    g.geo_hash = TUBI_GEO_HASH \/ row.id # g.geo_hash \/ Spoilt(g)
    \/ Alike(DrawnFrom(row.param, g.trans), Described(g.geo_param), Size(g.trans))

(* A row read back has the key it is stored under, though its shape has     *)
(* another size: the tests of every primitive ask for it.                   *)
UnitsKeepTheirKey ==
  \A row \in rows : hash_unit_mesh_params(row.param) = row.id \/ row.id = TUBI_GEO_HASH

(* The ends a catalogue description asks for, along its axis.               *)
WantedEnds(d) ==
  LET at(z) == Pa(d).at + Direction(d) * z IN
  CASE d.type \in {"SCylinder", "SlopeBottomCylinder"} -> {End(at(d.btm), d.dia, 0), End(at(d.btm + d.hei), d.dia, 0)}
    [] d.type = "LCylinder" -> {End(at(d.btm), d.dia, 0), End(at(d.top), d.dia, 0)}
    [] d.type = "Dish" -> {End(at(d.btm), d.dia, 0), End(at(d.btm + d.hei), 0, 0)}
    [] d.type \in {"Snout", "Cone"} ->
         {End(at(d.btm), d.dbtm, -(d.off \div 2)), End(at(d.top), d.dtop, d.off \div 2)}
    [] OTHER -> {}
EndsOf(ends, p) == {End(p.at + p.dir * ends[i].z, ends[i].dia, ends[i].off) : i \in DOMAIN ends}
EndsAt(p) == EndsOf(Described(p.shape).ends, p)

(* An offset is not turned round with the ends of a snout whose top is below *)
(* its bottom, and a dish without a direction does not heed the flag.       *)
KeepsItsOffset(d) == d.type \in {"Snout", "Cone"} /\ d.top < d.btm /\ d.off # 0
FlagUnheeded(d) == d.type = "Dish" /\ Pa(d).dir = <<>> /\ Pa(d).flag # 1

(* Reversed, shifted or shortened, a catalogue solid has its bottom and its  *)
(* top where the description puts them, each as wide as it says.            *)
InPlace(d) ==
  \A p \in {convert_to_brep_shapes(d)} :
    p = Rejected \/ ~check_valid(p[1].shape) \/ EndsAt(p[1]) = WantedEnds(d) \/ KeepsItsOffset(d) \/ FlagUnheeded(d)
CatalogueEndsStayInPlace ==
  \A e \in collected :
    e.source.by = "catalogue" /\ e.source.param.type \in HasEnds => InPlace(e.source.param)

(* Collecting and merging lose and double no geometry: under its key, the   *)
(* batch and the whole hold each shape once for every element of that key.  *)
Keeping(key) == {o \in collected : o.source.by # "tube" /\ id_str(o) = key /\ Insts(o) # <<>>}
GeometryIsKept ==
  \A e \in collected : \A insts \in {Insts(e)} :
    e.source.by = "tube" \/ insts = <<>> \/
       /\ e.refno \in get_show_refnos(batch) \union get_show_refnos(total)
       /\ Len(ListOf(batch.geos, id_str(e))) + Len(ListOf(total.geos, id_str(e))) = Cardinality(Keeping(id_str(e)))
       /\ insts[1] \in Geometries(batch) \union Geometries(total)
=============================================================================
