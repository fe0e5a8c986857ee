------------------------------ MODULE CataPoints -----------------------------
(***************************************************************************)
(* A catalogue component resolved for a design element: its numbered points *)
(* (expression/query_cata.rs, expression/resolve.rs) and the geometry that  *)
(* stands on them (expression/resolve_helper.rs).                           *)
(*                                                                         *)
(* One dimension stands for the three, the line of the y axis.  A direction *)
(* is an axis, an axis turned right round or not at all, a point ("P 3",    *)
(* "-P 3", "PP 3"), "TO" a place on the line, or nothing.  Attributes are   *)
(* expressions, kept as trees; what an element lacks is not among them.     *)
(***************************************************************************)
EXTENDS Expressions

CONSTANT Catalogue   \* the components, [points, geoms, plins, jusl]

F(att, name) == IF name \in DOMAIN att THEN Text(att[name], 3) ELSE <<>>
Has(att, names) == names \subseteq DOMAIN att
NoDir == [by |-> "none"]
AxisY == [by |-> "axis", sign |-> 1]
DirOr(att, name, default) == IF name \in DOMAIN att THEN att[name] ELSE default

(* The expressions a component holds, and the context they are resolved in:  *)
(* what each of them evaluates to for the design element (the mark that      *)
(* Expressions follows from one to the next is left aside).                 *)
Sizes == {"PDIS", "PY", "DY", "PBOR", "PWID", "PHEI", "PTCP", "PDIA", "PBDM", "PTDM", "DIAM", "PBDI", "PTDI", "PXTS", "PYTS", "PXBS", "PYBS",
          "PRAD", "PANG", "POFF", "PXLE", "PYLE", "PZLE", "PX", "PZ", "PBBT", "PCBT", "PBTP", "PCTP", "PBOF", "PCOF"}
Directions == {"PAXI", "PAAX", "PBAX", "PCAX", "PLAX", "PTCD", "PZAXI"}
Trees(c) ==
  LET geoms == Range(c.geoms) \union Range(c.negatives)
      atts == Range(c.points) \union Range(c.plins) \union {g.att : g \in geoms} \union UNION {Range(g.loop) : g \in geoms}
      dirs == UNION {{att[n] : n \in Directions \intersect DOMAIN att} : att \in atts}
  IN UNION {{att[n] : n \in Sizes \intersect DOMAIN att} : att \in atts}
     \union {d.to : d \in {x \in dirs : x.by = "to"}} \union {d.angle : d \in {x \in dirs : x.by = "turned"}}
Context(c) ==
  LET ctx == get_or_create_cata_context(Designs[c.design], FALSE)
      texts == {<<>>} \union {Text(t, 3) : t \in Trees(c)}
  IN [q \in texts \X {"DIST", "ANGL", ""} |-> eval_str_to_f64(q[1], ctx, q[2], FALSE).v]
Dist(text, ctx) == Opt(ctx[<<text, "DIST">>], Whole(0))

(* A direction without points: none when it cannot be read.                 *)
SignOf(q) == CASE Less(Whole(0), q) -> 1 [] Less(q, Whole(0)) -> -1 [] OTHER -> 0
parse_coordinate(d) == [value |-> Text(d.to, 3), neg |-> d.neg]
parse_to_direction(d, ctx) ==
  LET y == parse_coordinate(d)
      v == ctx[<<y.value, "">>]
  IN IF v = <<>> THEN 0 ELSE IF y.neg THEN -SignOf(v[1]) ELSE SignOf(v[1])
parse_rotation_struct(d, angle) == [origin_axis |-> d.sign, rot1 |-> angle]
parse_expr_to_dir(d, angle) ==
  LET rs == parse_rotation_struct(d, angle) IN rs.origin_axis * Apply("cos", rs.rot1, Whole(0))[1]
parse_str_axis_to_vec3(d, ctx) ==
  CASE d.by = "axis" -> <<d.sign>>
    [] d.by = "to" -> <<parse_to_direction(d, ctx)>>
    [] d.by = "turned" -> LET v == ctx[<<Text(d.angle, 3), "ANGL">>]
                          IN IF v = <<>> THEN <<>> ELSE <<parse_expr_to_dir(d, v[1])>>
    [] OTHER -> <<>>
FirstWord(d) == CASE d.by \in {"axis", "turned"} -> <<d.sign>> [] d.by = "to" -> <<0>> [] OTHER -> <<>>

-----------------------------------------------------------------------------
(* A point as the catalogue has it: what a type needs and an element lacks  *)
(* leaves the point out.                                                    *)
AxisParam(att, y, distance, direction, index) ==
  [refno |-> att.refno, type |-> att.type, number |-> IF Has(att, {"NUMB"}) THEN att.NUMB ELSE 0, y |-> y, distance |-> distance,
   direction |-> direction, ref |-> DirOr(att, "PZAXI", NoDir), index |-> index,
   sizes |-> <<F(att, "PBOR"), F(att, "PWID"), F(att, "PHEI")>>]
get_axis_param(att) ==
  CASE att.type = "PTAX" -> IF Has(att, {"PDIS", "PAXI"}) THEN <<AxisParam(att, <<>>, F(att, "PDIS"), att.PAXI, <<>>)>> ELSE <<>>
    [] att.type = "PTCA" -> IF Has(att, {"PY"}) THEN <<AxisParam(att, F(att, "PY"), <<>>, DirOr(att, "PTCD", AxisY), <<>>)>> ELSE <<>>
    [] att.type = "PTMI" -> IF Has(att, {"PY", "PAXI"}) THEN <<AxisParam(att, F(att, "PY"), <<>>, att.PAXI, <<>>)>> ELSE <<>>
    [] att.type = "PTPOS" -> <<AxisParam(att, <<>>, F(att, "PTCP"), DirOr(att, "PTCD", AxisY), DirOr(att, "PTCPOS", <<>>))>>
    [] OTHER -> <<AxisParam(att, <<>>, <<>>, NoDir, <<>>)>>

(* Under its number, the first child that has it; reference lines aside. *)
query_axis_params(children) ==
  LET One(map, att) ==
        LET p == get_axis_param(att) n == IF Has(att, {"NUMB"}) THEN att.NUMB ELSE -1
        IN IF att.type = "PLIN" \/ p = <<>> \/ n \in DOMAIN map THEN map ELSE map @@ (n :> p[1])
  IN FoldLeft(One, <<>>, children)

(* A point worked out: its place and its direction, none for the zero vector. *)
CateAxisParam(refno, number, pt, dir, ref, sizes) ==
  [refno |-> refno, number |-> number, pt |-> pt, dir |-> dir, flag |-> 1, ref |-> ref, sizes |-> sizes]
DefaultAxis == CateAxisParam(0, 0, Whole(0), <<1>>, <<>>, <<>>)
Neg_(axis) == [axis EXCEPT !.dir = IF @ = <<>> THEN @ ELSE <<-@[1]>>, !.flag = -1]
Normalized(dir) == IF dir = 0 THEN <<>> ELSE <<dir>>
Vector(dir) == Opt(dir, 0)
Plus(p, q) == Apply("+", p, q)
Times(dir, q) == <<dir * q[1], q[2]>>

RECURSIVE resolve_axis(_, _, _), resolve_axis_param(_, _, _), resolve_axis_unsigned(_, _, _)
(* Direction, reference direction and place to start from, none when a      *)
(* point it names is not there.  A reference direction that is a point is   *)
(* looked up under the number -1, whichever number it gives.                *)
resolve_axis_unsigned(p, scom, ctx) ==
  LET d == p.direction r == p.ref
      at == IF d.by = "point" /\ d.n \in DOMAIN scom THEN resolve_axis_param(scom[d.n], scom, ctx) ELSE DefaultAxis
      dir == IF d.by = "point" THEN Vector(at.dir) ELSE Opt(parse_str_axis_to_vec3(d, ctx), 0)
      pos == IF d.by = "point" /\ ~d.pp THEN at.pt ELSE Whole(0)
  IN IF d.by = "point" /\ d.n \notin DOMAIN scom THEN <<>>
     ELSE <<[dir |-> dir, ref |-> IF r.by = "point" THEN 0 ELSE Opt(parse_str_axis_to_vec3(r, ctx), 0), pos |-> pos]>>
resolve_axis(p, scom, ctx) ==
  LET d == p.direction r == p.ref
      Unknown(e, n) == e.by = "point" /\ n \notin DOMAIN scom
      Signed_(e, axis) == (IF e.neg THEN -1 ELSE 1) * Vector(axis.dir)
      at == IF d.by = "point" /\ ~Unknown(d, d.n) THEN resolve_axis_param(scom[d.n], scom, ctx) ELSE DefaultAxis
      dir == IF d.by = "point" THEN Signed_(d, at) ELSE Opt(parse_str_axis_to_vec3(d, ctx), 0)
      ref == IF Unknown(r, -1) THEN 0
             ELSE IF r.by = "point" THEN Signed_(r, resolve_axis_param(scom[-1], scom, ctx))
             ELSE Opt(parse_str_axis_to_vec3(r, ctx), 0)
  IN IF Unknown(d, d.n) \/ Unknown(r, -1) THEN <<>>
     ELSE <<[dir |-> dir, ref |-> ref, pos |-> IF d.by = "point" /\ ~d.pp THEN at.pt ELSE Whole(0)]>>
resolve_axis_param(p, scom, ctx) ==
  LET axis == resolve_axis(p, scom, ctx)
      sizes == [i \in DOMAIN p.sizes |-> Dist(p.sizes[i], ctx)]
      Point(pt, dir) == CateAxisParam(p.refno, p.number, pt, dir, Normalized(axis[1].ref), sizes)
      named == IF p.index # <<>> /\ p.index[1] \in DOMAIN scom THEN scom[p.index[1]] ELSE p
  IN IF axis = <<>> THEN DefaultAxis
     ELSE CASE p.type = "PTAX" -> Point(Plus(Times(axis[1].dir, Dist(p.distance, ctx)), axis[1].pos), Normalized(axis[1].dir))
            [] p.type \in {"PTCA", "PTMI"} ->
                 Point(Plus(axis[1].pos, Dist(p.y, ctx)),
                       IF axis[1].dir = 0 THEN FirstWord(p.direction) ELSE Normalized(axis[1].dir))
            [] p.type = "PTPOS" ->
                 IF named = p THEN [Point(Whole(0), Normalized(axis[1].dir)) EXCEPT !.refno = 0]
                 ELSE Point(resolve_axis_param(named, scom, ctx).pt, Normalized(axis[1].dir))
            [] OTHER -> DefaultAxis
resolve_axis_params(scom, ctx) == [n \in DOMAIN scom |-> resolve_axis_param(scom[n], scom, ctx)]

-----------------------------------------------------------------------------
(* A geometry element as the catalogue has it.  The axes it lacks leave no   *)
(* gap; the points of PTS and the plane PLAX come after them.                *)
Texts(att, names) == [i \in DOMAIN names |-> F(att, names[i])]
PresentAxes(att) ==
  LET names == SelectSeq(<<"PAXI", "PAAX", "PBAX", "PCAX">>, LAMBDA n : n \in DOMAIN att)
  IN [i \in DOMAIN names |-> att[names[i]]]
Outlined == {"SEXT", "NSEX", "SREV", "NSRE"}
OwnVert(att) == [y |-> F(att, "PY"), rad |-> F(att, "PRAD"), dy |-> F(att, "DY")]
query_gm_param_swapped(att, loop, spro) ==
  [refno |-> att.refno, type |-> att.type, diameters |-> Texts(att, <<"PDIA", "PTDM", "PBDM", "DIAM">>),
   distances |-> Texts(att, <<"PDIS", "PBDI", "PTDI">>), shears |-> Texts(att, <<"PXTS", "PYTS", "PXBS", "PYBS">>),
   phei |-> F(att, "PHEI"), prad |-> F(att, "PRAD"), pang |-> F(att, "PANG"), offset |-> F(att, "POFF"), pwid |-> F(att, "PWID"),
   lengths |-> Texts(att, <<"PXLE", "PYLE", "PZLE">>),
   xyz |-> Texts(att, <<"PX", "PY", "PZ", "PBBT", "PCBT", "PBTP", "PCTP", "PBOF", "PCOF">>),
   verts |-> IF att.type \in Outlined \/ (spro /\ att.type = "SPRO") THEN [i \in DOMAIN loop |-> OwnVert(loop[i])] ELSE <<OwnVert(att)>>,
   paxises |-> PresentAxes(att) \o (IF Has(att, {"PLAX"}) THEN <<att.PLAX>> ELSE <<>>),
   visible |-> Has(att, {"TUFL"}), plax |-> DirOr(att, "PLAX", NoDir)]
query_gm_param(att, loop, spro) ==
  [refno |-> att.refno, type |-> att.type, diameters |-> Texts(att, <<"PDIA", "PBDM", "PTDM", "DIAM">>),
   distances |-> Texts(att, <<"PDIS", "PBDI", "PTDI">>), shears |-> Texts(att, <<"PXTS", "PYTS", "PXBS", "PYBS">>),
   phei |-> F(att, "PHEI"), prad |-> F(att, "PRAD"), pang |-> F(att, "PANG"), offset |-> F(att, "POFF"), pwid |-> F(att, "PWID"),
   lengths |-> Texts(att, <<"PXLE", "PYLE", "PZLE">>),
   xyz |-> Texts(att, <<"PX", "PY", "PZ", "PBBT", "PCBT", "PBTP", "PCTP", "PBOF", "PCOF">>),
   verts |-> IF att.type \in Outlined \/ (spro /\ att.type = "SPRO") THEN [i \in DOMAIN loop |-> OwnVert(loop[i])] ELSE <<OwnVert(att)>>,
   paxises |-> PresentAxes(att) \o (IF Has(att, {"PTS"}) THEN [i \in DOMAIN att.PTS |-> NoDir] ELSE <<>>)
               \o (IF Has(att, {"PLAX"}) THEN <<att.PLAX>> ELSE <<>>),
   visible |-> Has(att, {"TUFL"}), plax |-> DirOr(att, "PLAX", NoDir)]

-----------------------------------------------------------------------------
(* The same, worked out for the design element.  A point is named without a  *)
(* space ("P3", "-P3"): written otherwise it is passed over, and the axes     *)
(* after it move up.  A point that is not there leaves no axis in its place.  *)
Dists(texts, ctx) == [i \in DOMAIN texts |-> Dist(texts[i], ctx)]
AxisAt(d, ctx, axes) ==
  IF d.by # "point" THEN <<<<CateAxisParam(0, 0, Whole(0), parse_str_axis_to_vec3(d, ctx), <<>>, <<>>)>>>>
  ELSE IF d.pp \/ d.spaced THEN <<>>
  ELSE IF d.n \notin DOMAIN axes THEN <<<<>>>>
  ELSE <<<<IF d.neg THEN Neg_(axes[d.n]) ELSE axes[d.n]>>>>
PlinAt(plin, ctx) == [at |-> Plus(Dist(plin.y, ctx), Dist(plin.dy, ctx)), dir |-> parse_str_axis_to_vec3(plin.plax, ctx)]
resolve_gmse_params(gm, jusl, na, ctx, axes) ==
  [gm EXCEPT !.diameters = Dists(@, ctx), !.distances = Dists(@, ctx), !.shears = Dists(@, ctx), !.lengths = Dists(@, ctx),
             !.xyz = Dists(@, ctx), !.phei = Dist(@, ctx), !.prad = Dist(@, ctx), !.pang = Dist(@, ctx), !.offset = Dist(@, ctx),
             !.pwid = Dist(@, ctx), !.verts = [i \in DOMAIN @ |-> [y |-> Dist(@[i].y, ctx), rad |-> Dist(@[i].rad, ctx), dy |-> Dist(@[i].dy, ctx)]],
             !.paxises = FlattenSeq([i \in DOMAIN @ |-> AxisAt(@[i], ctx, axes)]), !.plax = parse_str_axis_to_vec3(@, ctx)]
  @@ [plin |-> IF jusl = <<>> THEN [at |-> Whole(0), dir |-> <<>>] ELSE PlinAt(jusl[1], ctx),
      na |-> IF na = <<>> THEN <<>> ELSE parse_str_axis_to_vec3(na[1].plax, ctx)]

(* The descriptions of the shapes: the axis that is not there is <<>>. *)
UpTo(dir) == Opt(dir, 1)
SannData(g) == [type |-> "SANN", at |-> g.verts[1].y, dy |-> g.verts[1].dy, pa |-> g.paxises[1], angle |-> g.pang, radius |-> g.prad,
                width |-> g.pwid, plin |-> g.plin.at, axis |-> UpTo(g.plin.dir), plax |-> UpTo(g.plax), na |-> UpTo(g.na)]
SProfileData(g) == [type |-> "SPRO", verts |-> [i \in DOMAIN g.verts |-> <<g.verts[i].y, g.verts[i].rad>>], plin |-> g.plin.at,
                    axis |-> UpTo(g.plin.dir), plax |-> UpTo(g.plax), na |-> UpTo(g.na)]
SRectData(g) == [type |-> "SREC", center |-> g.xyz[2], size |-> g.lengths[2], dy |-> g.verts[1].dy, plin |-> g.plin.at,
                 axis |-> UpTo(g.plin.dir), plax |-> UpTo(g.plax), na |-> UpTo(g.na)]
CateBoxImpliedParam(g) == [type |-> "BoxImplied", width |-> g.lengths[3], height |-> g.lengths[1]]
CateTubeImpliedParam(g) == [type |-> "TubeImplied", dia |-> g.diameters[1]]
CateBoxParam(g) == [type |-> "Box", size |-> g.lengths, offset |-> SubSeq(g.xyz, 1, 3)]
CateLCylinderParam(g) == [type |-> "LCylinder", pa |-> g.paxises[1], btm |-> g.distances[2], top |-> g.distances[3], dia |-> g.diameters[1]]
CateSCylinderParam(g) == [type |-> "SCylinder", pa |-> g.paxises[1], btm |-> g.distances[1], hei |-> g.phei, dia |-> g.diameters[1]]
CateLineParam(g) == [type |-> "Line", pa |-> g.paxises[1], pb |-> g.paxises[2]]
CatePyramidParam(g) == [type |-> "Pyramid", pa |-> g.paxises[1], pb |-> g.paxises[2], pc |-> g.paxises[3], size |-> SubSeq(g.xyz, 4, 7),
                        btm |-> g.distances[2], top |-> g.distances[3], off |-> SubSeq(g.xyz, 8, 9)]
CateSlopeBottomCylinderParam(g) == [type |-> "SlopeBottomCylinder", pa |-> g.paxises[1], hei |-> g.phei, dia |-> g.diameters[1],
                                    btm |-> g.distances[1], shear |-> g.shears]
CateSnoutParam(type, pa, pb, btm, top, dbtm, dtop, off) ==
  [type |-> type, pa |-> pa, pb |-> pb, btm |-> btm, top |-> top, dbtm |-> dbtm, dtop |-> dtop, off |-> off]
CateTorusParam(g) == [type |-> "Torus", pa |-> g.paxises[1], pb |-> g.paxises[2], dia |-> g.diameters[1]]
CateRectTorusParam(g) == [type |-> "RectTorus", pa |-> g.paxises[1], pb |-> g.paxises[2], hei |-> g.phei, dia |-> g.diameters[1]]
CateDishParam(g) == [type |-> "Dish", pa |-> g.paxises[1], btm |-> g.distances[1], hei |-> g.phei, dia |-> g.diameters[1], rad |-> g.prad]
CateSphereParam(g) == [type |-> "Sphere", pa |-> g.paxises[1], centre |-> g.distances[1], dia |-> g.diameters[1]]
Outline(g) == [i \in DOMAIN g.verts |-> <<g.verts[i].y, g.verts[i].rad>>]
CateExtrusionParam(g) == [type |-> "Extrusion", pa |-> g.paxises[1], pb |-> g.paxises[2], hei |-> g.phei, at |-> g.xyz[2], verts |-> Outline(g)]
CateRevolutionParam(g) == [type |-> "Revolution", pa |-> g.paxises[1], pb |-> g.paxises[2], angle |-> g.pang, at |-> g.xyz[2], verts |-> Outline(g)]
CateSplineParam(g) == [type |-> "Sline", start |-> Whole(0), end |-> Whole(0), dia |-> g.diameters[1]]
Unknown_ == [type |-> "Unknown"]

(* Profiles, tubing and what stands on one axis; the rest. *)
OnOneAxis(g) ==
  CASE g.type = "SANN" -> SannData(g)
    [] g.type = "SPRO" -> SProfileData(g)
    [] g.type = "SREC" -> SRectData(g)
    [] g.type = "BOXI" -> CateBoxImpliedParam(g)
    [] g.type \in {"LCYL", "NLCY"} -> CateLCylinderParam(g)
    [] g.type \in {"SCYL", "NSCY"} -> CateSCylinderParam(g)
    [] g.type = "LINE" -> CateLineParam(g)
    [] g.type \in {"LPYR", "NLPY"} -> CatePyramidParam(g)
    [] g.type \in {"SSLC", "NSSL"} -> IF g.paxises = <<>> THEN Unknown_ ELSE CateSlopeBottomCylinderParam(g)
    [] OTHER -> Unknown_
OnItsAxes(g) ==
  CASE g.type \in {"LSNO", "NLSN"} ->
         IF Len(g.paxises) < 2 THEN Unknown_
         ELSE CateSnoutParam("Snout", g.paxises[1], g.paxises[2], g.distances[2], g.distances[3], g.diameters[2], g.diameters[3], g.offset)
    [] g.type \in {"SBOX", "NSBO"} -> CateBoxParam(g)
    [] g.type \in {"SCON", "NSCO"} ->
         CateSnoutParam("Cone", g.paxises[1], <<>>, Whole(0), g.distances[1], Whole(0), g.diameters[1], Whole(0))
    [] g.type \in {"SCTO", "NSCT"} -> CateTorusParam(g)
    [] g.type \in {"SDSH", "NSDS"} -> CateDishParam(g)
    [] g.type \in {"SEXT", "NSEX"} -> CateExtrusionParam(g)
    [] g.type \in {"SREV", "NSRE"} -> CateRevolutionParam(g)
    [] g.type \in {"SRTO", "NSRT"} -> CateRectTorusParam(g)
    [] g.type \in {"SSPH", "NSSP"} -> CateSphereParam(g)
    [] g.type = "TUBE" -> CateTubeImpliedParam(g)
    [] g.type = "SLINE" -> CateSplineParam(g)
    [] OTHER -> OnOneAxis(g)
(* The axes a type is read from; with fewer the code panics, and the panic   *)
(* is caught.                                                               *)
AxesOf(type) ==
  CASE type \in {"LPYR", "NLPY"} -> 3
    [] type \in {"LINE", "SCTO", "NSCT", "SEXT", "NSEX", "SREV", "NSRE", "SRTO", "NSRT"} -> 2
    [] type \in {"SANN", "LCYL", "NLCY", "SCYL", "NSCY", "SCON", "NSCO", "SDSH", "NSDS", "SSPH", "NSSP"} -> 1
    [] OTHER -> 0
resolve_to_cate_geo_params(g) == IF Len(g.paxises) < AxesOf(g.type) THEN <<>> ELSE <<OnItsAxes(g)>>

(* What cannot be resolved is left out, and so is what is not shown. *)
resolve_gms(gms, jusl, na, ctx, axes) ==
  LET shown == SelectSeq(gms, LAMBDA g : g.visible /\ ~(g.type = "SPRO" /\ g.verts = <<>>))
  IN FlattenSeq([i \in DOMAIN shown |->
       LET p == resolve_to_cate_geo_params(resolve_gmse_params(shown[i], jusl, na, ctx, axes))
       IN IF p = <<>> THEN <<>> ELSE <<[refno |-> shown[i].refno, param |-> p[1]]>>])
resolve_cata_comp(scom, ctx, jusl) ==
  LET axes == resolve_axis_params(scom.axes, ctx)
      Plin(key) == IF key \in DOMAIN scom.plins THEN <<scom.plins[key]>> ELSE <<>>
      gms(list) == resolve_gms(list, Plin(jusl), Plin("NA"), ctx, axes)
  IN [axes |-> axes, geometries |-> gms(scom.gms), n_geometries |-> gms(scom.ngms)]

-----------------------------------------------------------------------------
(* A component is read from the catalogue, then resolved for an element.     *)
VARIABLES scene, scom, info
cataVars == <<scene, scom, info>>
None == <<>>
CataInit == (\E c \in Catalogue : scene = c) /\ scom = None /\ info = None
ReadComponent ==
  /\ scom = None
  /\ LET gm(g) == query_gm_param(g.att, g.loop, TRUE)
         plin(l) == [y |-> F(l, "PY"), dy |-> F(l, "DY"), plax |-> l.PLAX]
     IN scom' = <<[axes |-> query_axis_params(scene.points), plins |-> [k \in DOMAIN scene.plins |-> plin(scene.plins[k])],
                   gms |-> [i \in DOMAIN scene.geoms |-> gm(scene.geoms[i])], ngms |-> [i \in DOMAIN scene.negatives |-> gm(scene.negatives[i])]]>>
  /\ UNCHANGED <<scene, info>>
ResolveComponent ==
  /\ scom # None /\ info = None
  /\ \E ctx \in {Context(scene)} : info' = <<resolve_cata_comp(scom[1], ctx, scene.jusl)>>
  /\ UNCHANGED <<scene, scom>>
CataNext == ReadComponent \/ ResolveComponent

-----------------------------------------------------------------------------
(* The catalogue read directly, with what its expressions mean.             *)
Meant == scene @@ "means" :> [t \in Trees(scene) |-> Meaning(t, [design |-> scene.design, tubi |-> FALSE])]
(* The point of a number is the first one that has what its type needs.     *)
Needs(type) == CASE type = "PTAX" -> {"PDIS", "PAXI"} [] type = "PTCA" -> {"PY"} [] type = "PTMI" -> {"PY", "PAXI"} [] OTHER -> {}
Numbered(n, c) == {i \in DOMAIN c.points : LET p == c.points[i] IN
  p.type # "PLIN" /\ Has(p, {"NUMB"}) /\ p.NUMB = n /\ Has(p, Needs(p.type))}
ThePoint(n, c) == c.points[CHOOSE i \in Numbered(n, c) : \A j \in Numbered(n, c) : i <= j]
Length(att, name, c) == IF name \in DOMAIN att THEN c.means[att[name]] ELSE Whole(0)
DirSaid(p) == IF p.type \in {"PTAX", "PTMI"} THEN p.PAXI ELSE DirOr(p, "PTCD", AxisY)
(* A point is well said when its direction and the points it stands on are,  *)
(* without going round; a reference direction that is a point is not, the    *)
(* code looks for it under another number.                                  *)
RECURSIVE WellSaid(_, _, _), DirOfSaid(_, _), WayOf(_, _), PlaceOf(_, _)
WellSaid(n, c, seen) ==
  /\ n \notin seen /\ Numbered(n, c) # {}
  /\ LET p == ThePoint(n, c) d == DirSaid(p) IN
     /\ p.type \in {"PTAX", "PTCA", "PTMI", "PTPOS"}
     /\ DirOr(p, "PZAXI", NoDir).by # "point"
     /\ CASE d.by = "point" -> WellSaid(d.n, c, seen \union {n})
          [] d.by = "to" -> c.means[d.to] # Whole(0)
          [] OTHER -> d.by # "none"
     /\ p.type = "PTPOS" => Has(p, {"PTCPOS"}) /\ WellSaid(p.PTCPOS[1], c, seen \union {n})
DirOfSaid(d, c) ==
  CASE d.by = "axis" -> d.sign
    [] d.by = "turned" -> IF c.means[d.angle] = Whole(180) THEN -d.sign ELSE d.sign
    [] d.by = "to" -> IF Less(Whole(0), c.means[d.to]) = d.neg THEN -1 ELSE 1
    [] OTHER -> IF d.neg THEN -WayOf(d.n, c) ELSE WayOf(d.n, c)
WayOf(n, c) == DirOfSaid(DirSaid(ThePoint(n, c)), c)
PlaceOf(n, c) ==
  LET p == ThePoint(n, c) d == DirSaid(p)
      from == IF d.by = "point" /\ ~d.pp THEN PlaceOf(d.n, c) ELSE Whole(0)
  IN CASE p.type = "PTAX" -> Plus(from, Times(WayOf(n, c), Length(p, "PDIS", c)))
       [] p.type = "PTPOS" -> PlaceOf(p.PTCPOS[1], c)
       [] OTHER -> Plus(from, Length(p, "PY", c))

(* Every point of a component is where its catalogue says and points the way *)
(* it says, through however many other points.                              *)
PointsAreWhereTheyAreSaid ==
  info # None => \A c \in {Meant} : \A n \in {p.NUMB : p \in {q \in Range(scene.points) : Has(q, {"NUMB"})}} :
    WellSaid(n, c, {}) =>
      /\ n \in DOMAIN info[1].axes
      /\ LET a == info[1].axes[n] IN
         /\ Equal(a.pt, PlaceOf(n, c)) /\ a.dir = <<WayOf(n, c)>>
         /\ a.refno = ThePoint(n, c).refno

(* Where a shape ends and how wide it is there: as it was described, and as  *)
(* the attributes of the geometry say, on the points it names.              *)
Way(a) == Opt(a.dir, a.flag)
On(a, q) == Plus(a.pt, Times(Way(a), q))
Ends(p) ==
  CASE p.type = "LCylinder" -> {<<On(p.pa[1], p.btm), p.dia>>, <<On(p.pa[1], p.top), p.dia>>}
    [] p.type \in {"SCylinder", "SlopeBottomCylinder"} -> {<<On(p.pa[1], p.btm), p.dia>>, <<On(p.pa[1], Plus(p.btm, p.hei)), p.dia>>}
    [] p.type \in {"Snout", "Cone"} -> {<<On(p.pa[1], p.btm), p.dbtm>>, <<On(p.pa[1], p.top), p.dtop>>}
    [] p.type = "Dish" -> {<<On(p.pa[1], p.btm), p.dia>>}
    [] p.type = "Sphere" -> {<<On(p.pa[1], p.centre), p.dia>>}
    [] p.type = "Torus" -> {<<p.pa[1].pt, p.dia>>, <<p.pb[1].pt, p.dia>>}
    [] OTHER -> {}
AxesSaid(type) == IF type \in {"LSNO", "SCTO"} THEN {"PAAX", "PBAX"} ELSE {"PAXI"}
WellDrawn(att, c) ==
  /\ att.type \in {"LCYL", "SCYL", "SSLC", "LSNO", "SCON", "SDSH", "SSPH", "SCTO"}
  /\ Has(att, AxesSaid(att.type) \union {"TUFL"})
  /\ \A name \in AxesSaid(att.type) : LET d == att[name] IN
       d.by \in {"axis", "turned"} \/ (d.by = "point" /\ ~d.pp /\ ~d.spaced /\ WellSaid(d.n, c, {}))
EndsSaid(att, c) ==
  LET L_(name) == Length(att, name, c)
      d(name) == att[name]
      At(name) == IF d(name).by = "point" THEN PlaceOf(d(name).n, c) ELSE Whole(0)
      Edge(q, dia) == LET name == IF att.type = "LSNO" THEN "PAAX" ELSE "PAXI"
                     IN <<Plus(At(name), Times(DirOfSaid(d(name), c), q)), dia>>
  IN CASE att.type = "LCYL" -> {Edge(L_("PBDI"), L_("PDIA")), Edge(L_("PTDI"), L_("PDIA"))}
       [] att.type \in {"SCYL", "SSLC"} -> {Edge(L_("PDIS"), L_("PDIA")), Edge(Plus(L_("PDIS"), L_("PHEI")), L_("PDIA"))}
       [] att.type = "LSNO" -> {Edge(L_("PBDI"), L_("PBDM")), Edge(L_("PTDI"), L_("PTDM"))}
       [] att.type = "SCON" -> {Edge(Whole(0), Whole(0)), Edge(L_("PDIS"), L_("PDIA"))}
       [] att.type \in {"SDSH", "SSPH"} -> {Edge(L_("PDIS"), L_("PDIA"))}
       [] OTHER -> {<<At("PAAX"), L_("PDIA")>>, <<At("PBAX"), L_("PDIA")>>}
Drawn(geoms, params, c) ==
  /\ \A p \in Range(params) : \E g \in Range(geoms) : g.att.refno = p.refno /\ Has(g.att, {"TUFL"})
  /\ \A g \in Range(geoms) : WellDrawn(g.att, c) =>
       \E p \in Range(params) : p.refno = g.att.refno /\ Ends(p.param) = EndsSaid(g.att, c)

(* Of a component's geometry what is shown, and only that, is described, as  *)
(* wide as it says where it says, whatever else the component holds.        *)
GeometryIsDescribed ==
  info # None => \A c \in {Meant} : Drawn(c.geoms, info[1].geometries, c) /\ Drawn(c.negatives, info[1].n_geometries, c)
=============================================================================
