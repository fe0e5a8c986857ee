--------------------------- MODULE UnitMesh_proofs ---------------------------
(***************************************************************************)
(* What holds of the shared meshes of any elements, collected, merged and   *)
(* saved in any order and any number of times: no geometry is lost or       *)
(* doubled (GeometryStays), the ends of a catalogue solid are where its     *)
(* description puts them (EndsStayInPlace), a row read back has the key it  *)
(* is stored under (UnitRowsKeepTheirKey), and every element is drawn with  *)
(* its own dimensions whoever stored the row of its key                     *)
(* (SolidsStayThemselves).  One invariant, MeshInv, carries all four; the   *)
(* rest is about the conversions: of descriptions to shapes, of shapes to   *)
(* units and keys, and of a unit stretched back.                            *)
(***************************************************************************)
EXTENDS UnitMesh, FiniteSetTheorems, SequenceTheorems, TLAPS

-----------------------------------------------------------------------------
(* Batches of instances                                                     *)

Elements == UNION Scenes
Keys == {id_str(e) : e \in Elements}
Drawable(e) == e.source.by # "tube" /\ Insts(e) # <<>>

(* All that can be kept in a batch.                                         *)
Basics == {BasicInst(TUBI_GEO_HASH, SCylinder(100, 100, <<0, 0, 0, 0>>, FALSE)), BasicInst(BOXI_GEO_HASH, SBox(Same))}
Instances == {Insts(e)[1] : e \in {x \in Elements : Drawable(x)}} \union Basics

Fields == {"info", "tubi", "geos", "negs", "ngmr"}
IsBatch(d) ==
  /\ DOMAIN d = Fields
  /\ \A k \in DOMAIN d.geos : d.geos[k] \in Seq(Instances)

(* How many instances a key has, and how many of them are added to it.      *)
Count(d, k) == Len(ListOf(d.geos, k))
Added(k, key, n) == IF k = key THEN n ELSE 0
Enlarged(d, insts) == Geometries(d) \union {insts[i] : i \in DOMAIN insts}
Shows(d, e) == e.refno \in get_show_refnos(d)

LEMMA InGeometries ==
  ASSUME NEW d, NEW g
  PROVE  g \in Geometries(d) <=> \E k \in DOMAIN d.geos : \E i \in DOMAIN d.geos[k] : g = d.geos[k][i]
BY DEF Geometries

LEMMA ListsOfBatch ==
  ASSUME NEW d, IsBatch(d), NEW k
  PROVE  ListOf(d.geos, k) \in Seq(Instances) /\ Count(d, k) \in Nat
<1>1. ListOf(d.geos, k) \in Seq(Instances)
  BY EmptySeq DEF ListOf, IsBatch
<1> QED
  BY <1>1, LenProperties DEF Count

(* Adding instances under a key lengthens its list by theirs, leaves the    *)
(* other lists alone and loses nothing.                                     *)
LEMMA InsertedGeos ==
  ASSUME NEW d, IsBatch(d), NEW key, NEW insts \in Seq(Instances), NEW n, n = insert_geos_data(d, key, insts)
  PROVE  /\ IsBatch(n) /\ n.info = d.info /\ n.tubi = d.tubi
         /\ \A k : Count(n, k) = Count(d, k) + Added(k, key, Len(insts))
         /\ Geometries(n) = Enlarged(d, insts)
<1> DEFINE old == ListOf(d.geos, key)
           new == old \o insts
<1>1. DOMAIN n = Fields /\ n.info = d.info /\ n.tubi = d.tubi /\ n.geos = Inserted(d.geos, key, new)
  BY DEF insert_geos_data, IsBatch, Fields
<1>2. old \in Seq(Instances) /\ Len(old) \in Nat
  BY ListsOfBatch DEF Count
<1>3. /\ new \in Seq(Instances) /\ Len(new) = Len(old) + Len(insts)
      /\ \A i \in 1 .. Len(old) + Len(insts) : new[i] = IF i <= Len(old) THEN old[i] ELSE insts[i - Len(old)]
  BY <1>2, ConcatProperties
<1>4. Len(insts) \in Nat /\ DOMAIN insts = 1 .. Len(insts) /\ DOMAIN old = 1 .. Len(old) /\ DOMAIN new = 1 .. Len(new)
  BY <1>2, <1>3, LenProperties
<1> HIDE DEF new
<1>5. DOMAIN n.geos = DOMAIN d.geos \union {key} /\ \A k \in DOMAIN n.geos : n.geos[k] = IF k = key THEN new ELSE d.geos[k]
  BY <1>1 DEF Inserted
<1>6. IsBatch(n)
  BY <1>1, <1>3, <1>5 DEF IsBatch
<1>7. ASSUME NEW k PROVE Count(n, k) = Count(d, k) + Added(k, key, Len(insts))
  <2>1. CASE k = key
    BY <2>1, <1>3, <1>5 DEF ListOf, Count, Added
  <2>2. CASE k # key
    <3>1. ListOf(n.geos, k) = ListOf(d.geos, k) /\ Count(d, k) \in Nat
      BY <2>2, <1>5, ListsOfBatch DEF ListOf
    <3> QED
      BY <3>1, <2>2 DEF Count, Added
  <2> QED
    BY <2>1, <2>2
<1>8. ASSUME NEW g, g \in Geometries(n) PROVE g \in Geometries(d) \/ \E i \in DOMAIN insts : g = insts[i]
  <2>1. PICK k, i : k \in DOMAIN n.geos /\ i \in DOMAIN n.geos[k] /\ g = n.geos[k][i]
    BY <1>8, InGeometries
  <2>2. CASE k # key
    BY <2>1, <2>2, <1>5, InGeometries
  <2>3. CASE k = key
    <3>1. i \in 1 .. Len(old) + Len(insts) /\ g = new[i]
      BY <2>1, <2>3, <1>3, <1>4, <1>5
    <3>2. CASE i <= Len(old)
      <4>1. g = old[i] /\ i \in DOMAIN old
        BY <3>1, <3>2, <1>2, <1>3, <1>4
      <4>2. key \in DOMAIN d.geos /\ old = d.geos[key]
        BY <4>1 DEF ListOf
      <4> QED
        BY <4>1, <4>2, InGeometries
    <3>3. CASE ~(i <= Len(old))
      <4>1. g = insts[i - Len(old)] /\ i - Len(old) \in DOMAIN insts
        BY <3>1, <3>3, <1>2, <1>3, <1>4
      <4> QED
        BY <4>1
    <3> QED
      BY <3>2, <3>3
  <2> QED
    BY <2>2, <2>3
<1>9. ASSUME NEW g, g \in Geometries(d) PROVE g \in Geometries(n)
  <2>1. PICK k, i : k \in DOMAIN d.geos /\ i \in DOMAIN d.geos[k] /\ g = d.geos[k][i]
    BY <1>9, InGeometries
  <2>2. CASE k # key
    BY <2>1, <2>2, <1>5, InGeometries
  <2>3. CASE k = key
    <3>1. old = d.geos[k]
      BY <2>1, <2>3 DEF ListOf
    <3>2. i \in DOMAIN new /\ new[i] = old[i]
      BY <2>1, <3>1, <1>2, <1>3, <1>4
    <3>3. k \in DOMAIN n.geos /\ n.geos[k] = new
      BY <2>3, <1>5
    <3> QED
      BY <2>1, <3>1, <3>2, <3>3, InGeometries
  <2> QED
    BY <2>2, <2>3
<1>10. ASSUME NEW i \in DOMAIN insts PROVE insts[i] \in Geometries(n)
  <2>1. i + Len(old) \in DOMAIN new /\ new[i + Len(old)] = insts[i]
    BY <1>2, <1>3, <1>4
  <2>2. key \in DOMAIN n.geos /\ n.geos[key] = new
    BY <1>5
  <2> QED
    BY <2>1, <2>2, InGeometries
<1> QED
  <2>1. Geometries(n) = Enlarged(d, insts)
    BY <1>8, <1>9, <1>10 DEF Enlarged
  <2> QED
    BY <1>1, <1>6, <1>7, <2>1

LEMMA InsertedAre ==
  ASSUME NEW d, IsBatch(d), NEW key, NEW insts \in Seq(Instances), NEW k
  PROVE  /\ Geometries(insert_geos_data(d, key, insts)) = Enlarged(d, insts)
         /\ Count(insert_geos_data(d, key, insts), k) = Count(d, k) + Added(k, key, Len(insts))
<1> DEFINE n == insert_geos_data(d, key, insts)
<1>1. n = insert_geos_data(d, key, insts)
  OBVIOUS
<1> HIDE DEF n
<1>2. Geometries(n) = Enlarged(d, insts)
  BY <1>1, InsertedGeos
<1>3. \A x : Count(n, x) = Count(d, x) + Added(x, key, Len(insts))
  BY <1>1, InsertedGeos
<1> QED
  BY <1>2, <1>3 DEF n

(* A merge puts the lists of both together.                                 *)
LEMMA MergedGeos ==
  ASSUME NEW d, IsBatch(d), NEW o, IsBatch(o)
  PROVE  LET n == merge_ref(d, o) IN
         /\ IsBatch(n)
         /\ DOMAIN n.info = DOMAIN d.info \union DOMAIN o.info /\ DOMAIN n.tubi = DOMAIN d.tubi \union DOMAIN o.tubi
         /\ \A k : Count(n, k) = Count(d, k) + Count(o, k)
         /\ Geometries(n) = Geometries(d) \union Geometries(o)
<1> DEFINE n == merge_ref(d, o)
           both(k) == ListOf(d.geos, k) \o ListOf(o.geos, k)
<1>1. /\ DOMAIN n = Fields /\ n.info = Extended(d.info, o.info) /\ n.tubi = Extended(d.tubi, o.tubi)
      /\ n.geos = [k \in DOMAIN d.geos \union DOMAIN o.geos |-> both(k)]
  BY DEF merge_ref, IsBatch, Fields
<1>2. ASSUME NEW k
      PROVE  LET a == ListOf(d.geos, k) b == ListOf(o.geos, k) IN
             /\ a \in Seq(Instances) /\ b \in Seq(Instances) /\ both(k) \in Seq(Instances)
             /\ Len(a) \in Nat /\ Len(b) \in Nat /\ Len(both(k)) = Len(a) + Len(b)
             /\ DOMAIN a = 1 .. Len(a) /\ DOMAIN b = 1 .. Len(b) /\ DOMAIN both(k) = 1 .. Len(a) + Len(b)
             /\ \A i \in 1 .. Len(a) + Len(b) : both(k)[i] = IF i <= Len(a) THEN a[i] ELSE b[i - Len(a)]
  BY ListsOfBatch, ConcatProperties, LenProperties DEF Count
<1> HIDE DEF n, both
<1>3. DOMAIN n.geos = DOMAIN d.geos \union DOMAIN o.geos /\ \A k \in DOMAIN n.geos : n.geos[k] = both(k)
  BY <1>1
<1>4. IsBatch(n)
  BY <1>1, <1>2, <1>3 DEF IsBatch
<1>5. DOMAIN n.info = DOMAIN d.info \union DOMAIN o.info /\ DOMAIN n.tubi = DOMAIN d.tubi \union DOMAIN o.tubi
  BY <1>1 DEF Extended
<1>6. ASSUME NEW k PROVE Count(n, k) = Count(d, k) + Count(o, k)
  <2>1. CASE k \in DOMAIN n.geos
    BY <2>1, <1>2, <1>3 DEF ListOf, Count
  <2>2. CASE k \notin DOMAIN n.geos
    <3>1. ListOf(n.geos, k) = <<>> /\ ListOf(d.geos, k) = <<>> /\ ListOf(o.geos, k) = <<>>
      BY <2>2, <1>3 DEF ListOf
    <3>2. Len(<<>>) = 0
      OBVIOUS
    <3> QED
      BY <3>1, <3>2 DEF Count
  <2> QED
    BY <2>1, <2>2
<1>7. ASSUME NEW g, g \in Geometries(n) PROVE g \in Geometries(d) \union Geometries(o)
  <2>1. PICK k, i : k \in DOMAIN n.geos /\ i \in DOMAIN n.geos[k] /\ g = n.geos[k][i]
    BY <1>7, InGeometries
  <2> DEFINE a == ListOf(d.geos, k)
             b == ListOf(o.geos, k)
  <2>2. i \in 1 .. Len(a) + Len(b) /\ g = both(k)[i] /\ Len(a) \in Nat /\ Len(b) \in Nat
        /\ DOMAIN a = 1 .. Len(a) /\ DOMAIN b = 1 .. Len(b)
    BY <2>1, <1>2, <1>3
  <2>3. CASE i <= Len(a)
    <3>1. g = a[i] /\ i \in DOMAIN a
      BY <2>2, <2>3, <1>2
    <3>2. k \in DOMAIN d.geos /\ a = d.geos[k]
      BY <3>1 DEF ListOf
    <3> QED
      BY <3>1, <3>2, InGeometries
  <2>4. CASE ~(i <= Len(a))
    <3>1. g = b[i - Len(a)] /\ i - Len(a) \in DOMAIN b
      <4>1. g = b[i - Len(a)]
        BY <2>2, <2>4, <1>2
      <4> HIDE DEF a, b
      <4> QED
        BY <4>1, <2>2, <2>4
    <3>2. k \in DOMAIN o.geos /\ b = o.geos[k]
      BY <3>1 DEF ListOf
    <3> QED
      BY <3>1, <3>2, InGeometries
  <2> QED
    BY <2>3, <2>4
<1>8. ASSUME NEW g, g \in Geometries(d) PROVE g \in Geometries(n)
  <2>1. PICK k, i : k \in DOMAIN d.geos /\ i \in DOMAIN d.geos[k] /\ g = d.geos[k][i]
    BY <1>8, InGeometries
  <2>2. ListOf(d.geos, k) = d.geos[k]
    BY <2>1 DEF ListOf
  <2>3. i \in DOMAIN both(k) /\ both(k)[i] = g
    BY <2>1, <2>2, <1>2
  <2> QED
    BY <2>1, <2>3, <1>3, InGeometries
<1>9. ASSUME NEW g, g \in Geometries(o) PROVE g \in Geometries(n)
  <2>1. PICK k, i : k \in DOMAIN o.geos /\ i \in DOMAIN o.geos[k] /\ g = o.geos[k][i]
    BY <1>9, InGeometries
  <2> DEFINE a == ListOf(d.geos, k)
             b == ListOf(o.geos, k)
  <2>2. b = o.geos[k]
    BY <2>1 DEF ListOf
  <2>3. /\ i \in 1 .. Len(b) /\ Len(a) \in Nat /\ Len(b) \in Nat /\ DOMAIN both(k) = 1 .. Len(a) + Len(b)
        /\ \A j \in 1 .. Len(a) + Len(b) : both(k)[j] = IF j <= Len(a) THEN a[j] ELSE b[j - Len(a)]
    BY <2>1, <2>2, <1>2
  <2> HIDE DEF a, b
  <2>4. i + Len(a) \in DOMAIN both(k) /\ both(k)[i + Len(a)] = b[i]
    BY <2>3
  <2> QED
    BY <2>1, <2>2, <2>4, <1>3, InGeometries
<1> QED
  BY <1>4, <1>5, <1>6, <1>7, <1>8, <1>9 DEF n

-----------------------------------------------------------------------------
(* Nothing is lost or doubled                                               *)

KeptOf(those, key) == {o \in those : o.source.by # "tube" /\ id_str(o) = key /\ Insts(o) # <<>>}

(* Between them, the batch and the whole hold of every key but those of the *)
(* shared rows as many instances as elements of that key were collected,    *)
(* and each of them; the rows are unit shapes of what the whole holds.      *)
CountInv ==
  \A key \in Keys :
    Count(batch, key) + Count(total, key) = Cardinality(KeptOf(collected, key))
HeldInv ==
  \A e \in collected : Drawable(e) =>
    /\ Shows(batch, e) \/ Shows(total, e)
    /\ Insts(e)[1] \in Geometries(batch) \union Geometries(total)
SceneInv == todo \intersect collected = {} /\ todo \union collected \in Scenes
RowsInv == \A row \in rows : \E g \in Geometries(total) : row = gen_unit_geo_sur_json(g)
MeshInv == SceneInv /\ IsBatch(batch) /\ IsBatch(total) /\ CountInv /\ HeldInv /\ RowsInv

LEMMA InstsAreInstances ==
  ASSUME NEW e \in Elements
  PROVE  /\ Insts(e) # <<>> => \E x : Insts(e) = <<x>>
         /\ Drawable(e) => Insts(e) \in Seq(Instances) /\ Len(Insts(e)) = 1 /\ DOMAIN Insts(e) = {1}
<1>1. Insts(e) # <<>> => \E x : Insts(e) = <<x>>
  BY DEF Insts, Valid
<1>2. ASSUME Drawable(e) PROVE Insts(e) \in Seq(Instances) /\ Len(Insts(e)) = 1 /\ DOMAIN Insts(e) = {1}
  <2>1. PICK x : Insts(e) = <<x>>
    BY <1>1, <1>2 DEF Drawable
  <2>2. x \in Instances
    BY <1>2, <2>1 DEF Instances
  <2> QED
    BY <2>1, <2>2
<1> QED
  BY <1>1, <1>2

LEMMA CollectedAreElements ==
  ASSUME SceneInv
  PROVE  todo \subseteq Elements /\ collected \subseteq Elements /\ IsFiniteSet(collected)
<1>1. IsFiniteSet(todo \union collected)
  BY ScenesAssumption DEF SceneInv
<1> QED
  BY <1>1, FS_Subset DEF SceneInv, Elements

LEMMA OwnKeysAreNotShared ==
  ASSUME NEW key \in Keys
  PROVE  key # TUBI_GEO_HASH /\ key # BOXI_GEO_HASH
<1>1. PICK e \in Elements : key = id_str(e)
  BY DEF Keys
<1>2. e.hash \notin {"1", "2"}
  BY ScenesAssumption DEF Elements, IsElement
<1> QED
  BY <1>1, <1>2 DEF id_str, TUBI_GEO_HASH, BOXI_GEO_HASH, BOX_GEO_HASH

(* Fields other than geos do not matter to what is drawn.                   *)
LEMMA OtherFields ==
  ASSUME NEW d, IsBatch(d), NEW n, DOMAIN n = Fields, n.geos = d.geos
  PROVE  IsBatch(n) /\ Geometries(n) = Geometries(d)
BY DEF IsBatch, Geometries

LEMMA MeshInit ==
  ASSUME UnitInit
  PROVE  MeshInv
<1> USE DEF UnitInit
<1>1. SceneInv
  BY DEF SceneInv
<1> DEFINE tubi == <<BasicInst(TUBI_GEO_HASH, SCylinder(100, 100, <<0, 0, 0, 0>>, FALSE))>>
           boxi == <<BasicInst(BOXI_GEO_HASH, SBox(Same))>>
           one == insert_geos_data(Nobody, TUBI_GEO_HASH, tubi)
<1>2. IsBatch(Nobody) /\ \A k : ListOf(Nobody.geos, k) = <<>>
  <2>1. Nobody.geos = <<>> /\ DOMAIN Nobody = Fields
    BY DEF Nobody, Fields
  <2>2. DOMAIN Nobody.geos = {}
    BY <2>1
  <2> QED
    BY <2>1, <2>2 DEF IsBatch, ListOf
<1>3. tubi \in Seq(Instances) /\ boxi \in Seq(Instances)
  <2>1. PICK a, b : a \in Instances /\ b \in Instances /\ tubi = <<a>> /\ boxi = <<b>>
    BY DEF Instances, Basics
  <2> HIDE DEF tubi, boxi
  <2> QED
    BY <2>1
<1>4. total = insert_geos_data(one, BOXI_GEO_HASH, boxi)
  BY DEF fill_basic_shapes
<1> HIDE DEF tubi, boxi, one
<1>5. IsBatch(one) /\ \A k : k # TUBI_GEO_HASH => Count(one, k) = Count(Nobody, k) + 0
  <2>1. one = insert_geos_data(Nobody, TUBI_GEO_HASH, tubi)
    BY DEF one
  <2>2. IsBatch(one)
    BY <1>2, <1>3, <2>1, InsertedGeos
  <2>3. \A k : Count(one, k) = Count(Nobody, k) + Added(k, TUBI_GEO_HASH, Len(tubi))
    BY <1>2, <1>3, <2>1, InsertedGeos
  <2> QED
    BY <2>2, <2>3, ListsOfBatch, <1>2 DEF Added
<1>6. IsBatch(total) /\ \A k : k # BOXI_GEO_HASH => Count(total, k) = Count(one, k) + 0
  <2>1. IsBatch(total)
    BY <1>3, <1>4, <1>5, InsertedGeos
  <2>2. \A k : Count(total, k) = Count(one, k) + Added(k, BOXI_GEO_HASH, Len(boxi))
    BY <1>3, <1>4, <1>5, InsertedGeos
  <2> QED
    BY <2>1, <2>2, ListsOfBatch, <1>5 DEF Added
<1>7. CountInv
  <2> SUFFICES ASSUME NEW key \in Keys
               PROVE  Count(batch, key) + Count(total, key) = Cardinality(KeptOf(collected, key))
    BY DEF CountInv
  <2>1. Count(batch, key) = 0 /\ Count(total, key) = 0
    <3>1. ListOf(Nobody.geos, key) = <<>> /\ Len(<<>>) = 0
      BY <1>2
    <3> QED
      BY <3>1, <1>5, <1>6, OwnKeysAreNotShared DEF Count
  <2>2. Cardinality(KeptOf(collected, key)) = 0
    BY FS_EmptySet DEF KeptOf
  <2> QED
    BY <2>1, <2>2
<1>8. HeldInv /\ RowsInv
  BY DEF HeldInv, RowsInv
<1> QED
  BY <1>1, <1>2, <1>6, <1>7, <1>8 DEF MeshInv

(* An element that is drawn adds one to the count of its key.               *)
LEMMA OneMore ==
  ASSUME NEW those, IsFiniteSet(those), NEW e, e \notin those, NEW key
  PROVE  /\ Cardinality(KeptOf(those, key)) \in Nat
         /\ Cardinality(KeptOf(those \union {e}, key)) =
              Cardinality(KeptOf(those, key)) + (IF Drawable(e) /\ id_str(e) = key THEN 1 ELSE 0)
<1>1. IsFiniteSet(KeptOf(those, key))
  BY FS_Subset DEF KeptOf
<1>2. CASE Drawable(e) /\ id_str(e) = key
  <2>1. KeptOf(those \union {e}, key) = KeptOf(those, key) \union {e} /\ e \notin KeptOf(those, key)
    BY <1>2 DEF KeptOf, Drawable
  <2> QED
    BY <1>1, <1>2, <2>1, FS_AddElement, FS_CardinalityType
<1>3. CASE ~(Drawable(e) /\ id_str(e) = key)
  <2>1. KeptOf(those \union {e}, key) = KeptOf(those, key)
    BY <1>3 DEF KeptOf, Drawable
  <2> QED
    BY <1>1, <1>3, <2>1, FS_CardinalityType
<1> QED
  BY <1>2, <1>3

(* What collecting an element does to the batch.                            *)
Grows(e, old, new) ==
  /\ IsBatch(new)
  /\ DOMAIN old.info \subseteq DOMAIN new.info /\ DOMAIN old.tubi \subseteq DOMAIN new.tubi
  /\ Drawable(e) => e.refno \in DOMAIN new.info
  /\ \A k : Count(new, k) = Count(old, k) + (IF Drawable(e) /\ id_str(e) = k THEN 1 ELSE 0)
  /\ Geometries(old) \subseteq Geometries(new)
  /\ Drawable(e) => Insts(e)[1] \in Geometries(new)

LEMMA CollectGrows ==
  ASSUME MeshInv, NEW e \in todo, Collect(e)
  PROVE  Grows(e, batch, batch')
<1>1. e \in Elements /\ IsBatch(batch)
  BY CollectedAreElements DEF MeshInv
<1>2. ASSUME NEW n, n = batch, ~Drawable(e) PROVE Grows(e, batch, n)
  <2>1. \A k : Count(batch, k) \in Nat
    BY <1>1, ListsOfBatch
  <2> QED
    BY <1>1, <1>2, <2>1 DEF Grows
<1>3. CASE e.source.by = "tube"
  <2>1. batch' = WithTube(e) /\ ~Drawable(e)
    BY <1>3 DEF Collect, Drawable
  <2>2. CASE get_transform(e.source.tube) = <<>>
    BY <1>2, <2>1, <2>2 DEF WithTube
  <2>3. CASE get_transform(e.source.tube) # <<>>
    <3>1. PICK key : batch' = insert_tubi(batch, e.refno, key)
      BY <2>1, <2>3 DEF WithTube
    <3> DEFINE n == insert_tubi(batch, e.refno, key)
    <3>2. /\ DOMAIN n = Fields /\ n.geos = batch.geos /\ n.info = batch.info
          /\ DOMAIN n.tubi = DOMAIN batch.tubi \union {e.refno}
      BY <1>1 DEF insert_tubi, IsBatch, Fields, Inserted
    <3> HIDE DEF n
    <3>3. IsBatch(n) /\ Geometries(n) = Geometries(batch)
      BY <1>1, <3>2, OtherFields
    <3>4. \A k : Count(batch, k) \in Nat
      BY <1>1, ListsOfBatch
    <3>5. Grows(e, batch, n)
      BY <2>1, <3>2, <3>3, <3>4 DEF Grows, Count
    <3> QED
      BY <3>1, <3>5 DEF n
  <2> QED
    BY <2>2, <2>3
<1>4. CASE e.source.by # "tube"
  <2>1. batch' = WithShape(e, Insts(e))
    BY <1>4 DEF Collect
  <2>2. CASE Insts(e) = <<>>
    BY <1>2, <2>1, <2>2 DEF WithShape, Drawable
  <2>3. CASE Insts(e) # <<>>
    <3> DEFINE a == insert_info(batch, e.refno, id_str(e))
               b == insert_geos_data(a, id_str(e), Insts(e))
               n == Negative(b, e)
    <3>1. Drawable(e) /\ Insts(e) \in Seq(Instances) /\ Len(Insts(e)) = 1 /\ DOMAIN Insts(e) = {1}
      BY <1>1, <1>4, <2>3, InstsAreInstances DEF Drawable
    <3>2. batch' = n
      BY <2>1, <2>3 DEF WithShape
    <3>3. /\ DOMAIN a = Fields /\ a.geos = batch.geos /\ a.tubi = batch.tubi
          /\ DOMAIN a.info = DOMAIN batch.info \union {e.refno}
      BY <1>1 DEF insert_info, IsBatch, Fields, Inserted
    <3> HIDE DEF a, b
    <3>4. IsBatch(a) /\ Geometries(a) = Geometries(batch)
      BY <1>1, <3>3, OtherFields
    <3>5. /\ IsBatch(b) /\ b.info = a.info /\ b.tubi = a.tubi
          /\ \A k : Count(b, k) = Count(a, k) + Added(k, id_str(e), Len(Insts(e)))
          /\ Geometries(b) = Enlarged(a, Insts(e))
      <4>1. b = insert_geos_data(a, id_str(e), Insts(e))
        BY DEF b
      <4> HIDE DEF b
      <4>0. Insts(e) \in Seq(Instances)
        BY <3>1
      <4>2. IsBatch(b) /\ b.info = a.info /\ b.tubi = a.tubi
        BY <4>0, <3>4, <4>1, InsertedGeos
      <4>3. ASSUME NEW k PROVE Count(b, k) = Count(a, k) + Added(k, id_str(e), Len(Insts(e)))
        BY <4>0, <3>4, <4>1, InsertedAre
      <4>4. Geometries(b) = Enlarged(a, Insts(e))
        BY <4>0, <3>4, <4>1, InsertedAre
      <4> QED
        BY <4>2, <4>3, <4>4
    <3>6. DOMAIN n = Fields /\ n.geos = b.geos /\ n.info = b.info /\ n.tubi = b.tubi
      BY <3>5 DEF Negative, insert_negs, insert_ngmr, IsBatch, Fields
    <3> HIDE DEF n
    <3>7. IsBatch(n) /\ Geometries(n) = Geometries(b)
      BY <3>5, <3>6, OtherFields
    <3>8. \A k : Count(n, k) = Count(batch, k) + (IF Drawable(e) /\ id_str(e) = k THEN 1 ELSE 0)
      BY <3>1, <3>3, <3>5, <3>6 DEF Count, Added
    <3>9. Grows(e, batch, n)
      BY <3>1, <3>3, <3>4, <3>5, <3>6, <3>7, <3>8 DEF Grows, Enlarged
    <3> QED
      BY <3>2, <3>9
  <2> QED
    BY <2>2, <2>3
<1> QED
  BY <1>3, <1>4

LEMMA CollectKeeps ==
  ASSUME MeshInv, NEW e \in todo, Collect(e)
  PROVE  MeshInv'
<1>1. Grows(e, batch, batch')
  BY CollectGrows
<1>2. total' = total /\ rows' = rows /\ todo' = todo \ {e} /\ collected' = collected \union {e}
  BY DEF Collect
<1>3. SceneInv'
  <2>1. todo' \union collected' = todo \union collected
    BY <1>2
  <2> QED
    BY <1>2, <2>1 DEF MeshInv, SceneInv
<1>4. CountInv'
  <2> SUFFICES ASSUME NEW key \in Keys
               PROVE  Count(batch', key) + Count(total, key) =
                        Cardinality(KeptOf(collected \union {e}, key))
    BY <1>2 DEF CountInv, Keys
  <2>1. Count(batch, key) + Count(total, key) = Cardinality(KeptOf(collected, key))
    BY DEF MeshInv, CountInv
  <2>2. Count(batch, key) \in Nat /\ Count(total, key) \in Nat
    BY ListsOfBatch DEF MeshInv
  <2>3. Cardinality(KeptOf(collected \union {e}, key)) =
          Cardinality(KeptOf(collected, key)) + (IF Drawable(e) /\ id_str(e) = key THEN 1 ELSE 0)
    BY OneMore, CollectedAreElements DEF MeshInv, SceneInv
  <2>4. Count(batch', key) = Count(batch, key) + (IF Drawable(e) /\ id_str(e) = key THEN 1 ELSE 0)
    BY <1>1 DEF Grows
  <2> QED
    BY <2>1, <2>2, <2>3, <2>4
<1>5. HeldInv'
  <2> SUFFICES ASSUME NEW o \in collected \union {e}, Drawable(o)
               PROVE  /\ Shows(batch', o) \/ Shows(total, o)
                      /\ Insts(o)[1] \in Geometries(batch') \union Geometries(total)
    BY <1>2 DEF HeldInv
  <2>1. CASE o = e
    BY <1>1, <2>1 DEF Grows, Shows, get_show_refnos
  <2>2. CASE o \in collected
    BY <1>1, <2>2 DEF MeshInv, HeldInv, Grows, Shows, get_show_refnos
  <2> QED
    BY <2>1, <2>2
<1>6. RowsInv'
  BY <1>2 DEF MeshInv, RowsInv
<1> QED
  BY <1>1, <1>2, <1>3, <1>4, <1>5, <1>6 DEF MeshInv, Grows

LEMMA MergeKeeps ==
  ASSUME MeshInv, Merge
  PROVE  MeshInv'
<1> DEFINE new == merge_ref(total, batch)
           none == clear(batch)
<1>1. total' = new /\ batch' = none /\ UNCHANGED <<todo, collected, rows>>
  BY DEF Merge
<1>2. /\ IsBatch(new)
      /\ DOMAIN new.info = DOMAIN total.info \union DOMAIN batch.info
      /\ DOMAIN new.tubi = DOMAIN total.tubi \union DOMAIN batch.tubi
      /\ \A k : Count(new, k) = Count(total, k) + Count(batch, k)
      /\ Geometries(new) = Geometries(total) \union Geometries(batch)
  BY MergedGeos DEF MeshInv
<1>3. IsBatch(none) /\ \A k : ListOf(none.geos, k) = <<>>
  <2>1. none.geos = <<>> /\ DOMAIN none = Fields
    BY DEF clear, Nobody, Fields
  <2>2. DOMAIN none.geos = {}
    BY <2>1
  <2> QED
    BY <2>1, <2>2 DEF IsBatch, ListOf
<1> HIDE DEF new, none
<1>4. SceneInv'
  BY <1>1 DEF MeshInv, SceneInv
<1>5. CountInv'
  <2> SUFFICES ASSUME NEW key \in Keys
               PROVE  Count(none, key) + Count(new, key) = Cardinality(KeptOf(collected, key))
    BY <1>1 DEF CountInv, Keys
  <2>1. Count(batch, key) + Count(total, key) = Cardinality(KeptOf(collected, key))
    BY DEF MeshInv, CountInv
  <2>2. Count(batch, key) \in Nat /\ Count(total, key) \in Nat
    BY ListsOfBatch DEF MeshInv
  <2>3. ListOf(none.geos, key) = <<>> /\ Len(<<>>) = 0
    BY <1>3
  <2> QED
    BY <1>2, <2>1, <2>2, <2>3 DEF Count
<1>6. HeldInv'
  <2> SUFFICES ASSUME NEW o \in collected, Drawable(o)
               PROVE  Shows(new, o) /\ Insts(o)[1] \in Geometries(new)
    BY <1>1 DEF HeldInv
  <2> QED
    BY <1>2 DEF MeshInv, HeldInv, Shows, get_show_refnos
<1>7. RowsInv'
  BY <1>1, <1>2 DEF MeshInv, RowsInv
<1> QED
  BY <1>1, <1>2, <1>3, <1>4, <1>5, <1>6, <1>7 DEF MeshInv

LEMMA SaveKeeps ==
  ASSUME MeshInv, SaveRows
  PROVE  MeshInv'
<1>1. rows' = rows \union {gen_unit_geo_sur_json(g) : g \in Geometries(total)} /\ UNCHANGED <<todo, collected, batch, total>>
  BY DEF SaveRows
<1>2. RowsInv'
  BY <1>1 DEF MeshInv, RowsInv
<1>3. SceneInv' /\ CountInv' /\ HeldInv'
  BY <1>1 DEF MeshInv, SceneInv, CountInv, HeldInv, Keys, Elements
<1> QED
  BY <1>1, <1>2, <1>3 DEF MeshInv

LEMMA MeshInvHolds == UnitSpec => []MeshInv
<1>1. UnitInit => MeshInv
  BY MeshInit
<1>2. MeshInv /\ [UnitNext]_unitVars => MeshInv'
  <2> SUFFICES ASSUME MeshInv, [UnitNext]_unitVars PROVE MeshInv'
    OBVIOUS
  <2>1. ASSUME NEW e \in todo, Collect(e) PROVE MeshInv'
    BY <2>1, CollectKeeps
  <2>2. CASE Merge
    BY <2>2, MergeKeeps
  <2>3. CASE SaveRows
    BY <2>3, SaveKeeps
  <2>4. CASE UNCHANGED unitVars
    BY <2>4 DEF unitVars, MeshInv, SceneInv, CountInv, HeldInv, RowsInv, Keys, Elements
  <2> QED
    BY <2>1, <2>2, <2>3, <2>4 DEF UnitNext
<1> QED
  BY <1>1, <1>2, PTL DEF UnitSpec

(* Collecting and merging lose and double no geometry: whatever elements    *)
(* are collected, and however their batches are merged and saved, under     *)
(* its key every shape is held once for each element of that key            *)
(* (insert_geos_data, merge).                                               *)
THEOREM GeometryStays == UnitSpec => []GeometryIsKept
<1>1. MeshInv => GeometryIsKept
  <2> SUFFICES ASSUME MeshInv, NEW e \in collected, Drawable(e)
               PROVE  /\ e.refno \in get_show_refnos(batch) \union get_show_refnos(total)
                      /\ Count(batch, id_str(e)) + Count(total, id_str(e)) = Cardinality(Keeping(id_str(e)))
                      /\ Insts(e)[1] \in Geometries(batch) \union Geometries(total)
    BY DEF GeometryIsKept, Drawable, Count
  <2>1. id_str(e) \in Keys
    BY CollectedAreElements DEF MeshInv, Keys
  <2> QED
    BY <2>1 DEF MeshInv, CountInv, HeldInv, Shows, Keeping, KeptOf, Count
<1> QED
  BY <1>1, MeshInvHolds, PTL

-----------------------------------------------------------------------------
(* Where a catalogue solid stands                                           *)

LEMMA DirectionsAreUnits ==
  ASSUME NEW d, IsAxis(Pa(d))
  PROVE  Direction(d) \in {-1, 0, 1} /\ Pa(d).at \in Int
<1> USE DEF IsAxis, Direction
<1>1. CASE Pa(d).dir = <<>>
  BY <1>1
<1>2. CASE Pa(d).dir \in {<<-1>>, <<0>>, <<1>>}
  <2>1. PICK i \in {-1, 0, 1} : Pa(d).dir = <<i>>
    BY <1>2
  <2>2. Pa(d).dir # <<>> /\ Pa(d).dir[1] = i
    BY <2>1
  <2> QED
    BY <2>2
<1> QED
  BY <1>1, <1>2

(* n along a line that goes from at in direction dir, or against it.        *)
On(at, dir, n) == at + dir * n

LEMMA EndsOfTwo ==
  ASSUME NEW a, NEW b, NEW p
  PROVE  EndsOf(<<a, b>>, p) = {End(On(p.at, p.dir, a.z), a.dia, a.off), End(On(p.at, p.dir, b.z), b.dia, b.off)}
<1>1. DOMAIN <<a, b>> = {1, 2}
  OBVIOUS
<1> QED
  BY <1>1 DEF EndsOf, On

LEMMA OnTheSpot ==
  ASSUME NEW at \in Int, NEW dir \in Int
  PROVE  On(at, dir, 0) = at
BY DEF On

(* A solid of one diameter stands with its ends at p.at and h further along. *)
LEMMA EndsOfStanding ==
  ASSUME NEW h \in Int, NEW dia, NEW p, p.at \in Int, p.dir \in Int
  PROVE  EndsOf(Standing(h, dia), p) = {End(p.at, dia, 0), End(On(p.at, p.dir, h), dia, 0)}
BY OnTheSpot, EndsOfTwo DEF Standing, End

LEMMA Halves ==
  ASSUME NEW x \in Int, x % 2 = 0
  PROVE  \E m \in Int : x = 2 * m
<1>1. x = 2 * (x \div 2) /\ x \div 2 \in Int
  OBVIOUS
<1> QED
  BY <1>1

(* h in direction to from b is as far as n, along the line or against it.   *)
Leads(at, dir, b, n, to, h) == On(On(at, dir, b), to, h) = On(at, dir, b + n)
(* Of what stands between bottom and top, the middle and the way to either. *)
Halfway(at, dir, btm, top, half) ==
  LET mid == at + (dir * (btm + top)) \div 2
  IN On(mid, dir, -half) = On(at, dir, btm) /\ On(mid, dir, half) = On(at, dir, top)

LEMMA Steps ==
  ASSUME NEW at \in Int, NEW dir \in {-1, 0, 1}, NEW b \in Int, NEW n \in Int
  PROVE  On(at, dir, b) \in Int /\ Leads(at, dir, b, n, dir, n) /\ Leads(at, dir, b, n, -dir, -n)
<1>1. CASE dir = -1
  BY <1>1 DEF On, Leads
<1>2. CASE dir = 0
  BY <1>2 DEF On, Leads
<1>3. CASE dir = 1
  BY <1>3 DEF On, Leads
<1> QED
  BY <1>1, <1>2, <1>3

LEMMA StepsForward ==
  ASSUME NEW at \in Int, NEW dir \in {-1, 0, 1}, NEW b \in Int, NEW n \in Int,
         NEW to, to = IF n < 0 THEN -dir ELSE dir
  PROVE  Abs(n) \in Int /\ to \in Int /\ On(at, dir, b) \in Int /\ Leads(at, dir, b, n, to, Abs(n))
<1>1. On(at, dir, b) \in Int /\ Leads(at, dir, b, n, dir, n) /\ Leads(at, dir, b, n, -dir, -n)
  BY Steps
<1>2. CASE n < 0
  <2>1. Abs(n) = -n /\ to = -dir
    BY <1>2 DEF Abs
  <2> QED
    BY <1>1, <2>1
<1>3. CASE ~(n < 0)
  <2>1. Abs(n) = n /\ to = dir
    BY <1>3 DEF Abs
  <2> QED
    BY <1>1, <2>1
<1> QED
  BY <1>2, <1>3

LEMMA WayFromTheMiddle ==
  ASSUME NEW at \in Int, NEW dir \in {-1, 0, 1}, NEW btm \in Int, NEW top \in Int, btm % 2 = 0, top % 2 = 0,
         NEW half, half = (top - btm) \div 2
  PROVE  Halfway(at, dir, btm, top, half)
<1>1. PICK b \in Int, t \in Int : btm = 2 * b /\ top = 2 * t
  BY Halves
<1>2. half = t - b
  BY <1>1
<1>3. CASE dir = -1
  BY <1>1, <1>2, <1>3 DEF On, Halfway
<1>4. CASE dir = 0
  BY <1>1, <1>2, <1>4 DEF On, Halfway
<1>5. CASE dir = 1
  BY <1>1, <1>2, <1>5 DEF On, Halfway
<1> QED
  BY <1>3, <1>4, <1>5

(* The ends of each kind of catalogue solid, and where they are wanted.     *)
LEMMA SCylinderInPlace ==
  ASSUME NEW d, IsDescription(d), d.type = "SCylinder", d.pa # <<>>
  PROVE  EndsAt(SCylinderOf(d)[1]) = WantedEnds(d)
<1> DEFINE dir == Direction(d)
           at == Pa(d).at
           h == Abs(d.hei)
           s == SCylinder(d.dia, h, <<0, 0, 0, 0>>, FALSE)
           p == SCylinderOf(d)[1]
<1>1. dir \in {-1, 0, 1} /\ at \in Int /\ d.btm \in Int /\ d.hei \in Int
  BY DirectionsAreUnits DEF IsDescription, HasEnds
<1>2. p.shape = s /\ p.at = On(at, dir, d.btm) /\ p.dir = IF d.hei < 0 THEN -dir ELSE dir
  BY DEF SCylinderOf, Placed, On
<1>3. s.kind = "SCylinder" /\ s.hei = h /\ s.dia = d.dia /\ s.mid = FALSE
  BY DEF SCylinder
<1> HIDE DEF s, p, dir, at
<1>4. Described(s).ends = Standing(h, d.dia)
  BY <1>3 DEF Described, Drawn, Solid
<1>5. h \in Int /\ p.at \in Int /\ p.dir \in Int /\ On(p.at, p.dir, h) = On(at, dir, d.btm + d.hei)
  <2>1. h \in Int /\ p.dir \in Int /\ On(at, dir, d.btm) \in Int /\ Leads(at, dir, d.btm, d.hei, p.dir, h)
    BY <1>1, <1>2, StepsForward
  <2> QED
    BY <1>2, <2>1 DEF Leads
<1> HIDE DEF h
<1>6. EndsAt(p) = {End(On(at, dir, d.btm), d.dia, 0), End(On(at, dir, d.btm + d.hei), d.dia, 0)}
  BY <1>2, <1>4, <1>5, EndsOfStanding DEF EndsAt
<1> QED
  BY <1>6 DEF WantedEnds, On, p, at, dir

LEMMA SlopeBottomInPlace ==
  ASSUME NEW d, IsDescription(d), d.type = "SlopeBottomCylinder", d.pa # <<>>, SlopeBottomOf(d) # Rejected
  PROVE  EndsAt(SlopeBottomOf(d)[1]) = WantedEnds(d)
<1> DEFINE dir == Direction(d)
           at == Pa(d).at
           s == SCylinder(d.dia, d.hei, d.shear, FALSE)
           p == SlopeBottomOf(d)[1]
<1>1. dir \in {-1, 0, 1} /\ at \in Int /\ d.btm \in Int /\ d.hei \in Int
  BY DirectionsAreUnits DEF IsDescription, HasEnds
<1>2. p.shape = s /\ p.at = On(at, dir, d.btm) /\ p.dir = dir
  BY DEF SlopeBottomOf, Placed, On
<1>3. s.kind = "SCylinder" /\ s.hei = d.hei /\ s.dia = d.dia /\ s.mid = FALSE
  BY DEF SCylinder
<1> HIDE DEF s, p, dir, at
<1>4. Described(s).ends = Standing(d.hei, d.dia)
  BY <1>3 DEF Described, Drawn, Solid
<1>5. p.at \in Int /\ p.dir \in Int /\ On(p.at, p.dir, d.hei) = On(at, dir, d.btm + d.hei)
  <2>1. On(at, dir, d.btm) \in Int /\ Leads(at, dir, d.btm, d.hei, dir, d.hei)
    BY <1>1, Steps
  <2> QED
    BY <1>1, <1>2, <2>1 DEF Leads
<1>6. EndsAt(p) = {End(On(at, dir, d.btm), d.dia, 0), End(On(at, dir, d.btm + d.hei), d.dia, 0)}
  BY <1>1, <1>2, <1>4, <1>5, EndsOfStanding DEF EndsAt
<1> QED
  BY <1>6 DEF WantedEnds, On, p, at, dir

LEMMA LCylinderInPlace ==
  ASSUME NEW d, IsDescription(d), d.type = "LCylinder", d.pa # <<>>
  PROVE  EndsAt(LCylinderOf(d)[1]) = WantedEnds(d)
<1> DEFINE dir == Direction(d)
           at == Pa(d).at
           n == d.top - d.btm
           h == Abs(n)
           s == LCylinder(d.dia, d.btm, d.top, Uncounted)
           p == LCylinderOf(d)[1]
<1>1. dir \in {-1, 0, 1} /\ at \in Int /\ d.btm \in Int /\ d.top \in Int
  BY DirectionsAreUnits DEF IsDescription, HasEnds
<1>2. p.shape = s /\ p.at = On(at, dir, d.btm) /\ p.dir = IF d.top < d.btm THEN -dir ELSE dir
  BY DEF LCylinderOf, Placed, On
<1>3. s.kind = "LCylinder" /\ s.top = d.top /\ s.btm = d.btm /\ s.dia = d.dia
  BY DEF LCylinder
<1> HIDE DEF s, p, dir, at
<1>4. Described(s).ends = Standing(h, d.dia)
  BY <1>3 DEF Described, Drawn, Solid
<1>5. n \in Int /\ (n < 0 <=> d.top < d.btm) /\ d.btm + n = d.top
  BY <1>1
<1> HIDE DEF n
<1>6. h \in Int /\ p.at \in Int /\ p.dir \in Int /\ On(p.at, p.dir, h) = On(at, dir, d.top)
  <2>1. p.dir = IF n < 0 THEN -dir ELSE dir
    BY <1>2, <1>5
  <2>2. h \in Int /\ p.dir \in Int /\ On(at, dir, d.btm) \in Int /\ Leads(at, dir, d.btm, n, p.dir, h)
    BY <1>1, <1>5, <2>1, StepsForward
  <2> QED
    BY <1>2, <1>5, <2>2 DEF Leads
<1> HIDE DEF h
<1>7. EndsAt(p) = {End(On(at, dir, d.btm), d.dia, 0), End(On(at, dir, d.top), d.dia, 0)}
  BY <1>2, <1>4, <1>6, EndsOfStanding DEF EndsAt
<1> QED
  BY <1>7 DEF WantedEnds, On, p, at, dir

LEMMA DishInPlace ==
  ASSUME NEW d, IsDescription(d), d.type = "Dish", d.pa # <<>>, DishOf(d) # Rejected, ~FlagUnheeded(d)
  PROVE  EndsAt(DishOf(d)[1]) = WantedEnds(d)
<1> DEFINE dir == Direction(d)
           at == Pa(d).at
           h == Abs(d.hei)
           s == Dish(d.dia, h, d.rad, Uncounted)
           p == DishOf(d)[1]
<1>1. dir \in {-1, 0, 1} /\ at \in Int /\ d.btm \in Int /\ d.hei \in Int
  BY DirectionsAreUnits DEF IsDescription, HasEnds
<1>2. p.shape = s /\ p.at = On(at, dir, d.btm) /\ p.dir = IF d.hei < 0 THEN -dir ELSE dir
  <2>1. dir = IF Pa(d).dir = <<>> THEN 1 ELSE Pa(d).dir[1]
    BY DEF FlagUnheeded, Direction
  <2> HIDE DEF dir
  <2> QED
    BY <2>1 DEF DishOf, Placed, On
<1>3. s.kind = "Dish" /\ s.hei = h /\ s.dia = d.dia
  BY DEF Dish
<1> HIDE DEF s, p, dir, at
<1>4. Described(s).ends = <<End(0, d.dia, 0), End(h, 0, 0)>>
  BY <1>3 DEF Described, Drawn, Solid
<1>5. p.at \in Int /\ p.dir \in Int /\ On(p.at, p.dir, h) = On(at, dir, d.btm + d.hei)
  <2>1. h \in Int /\ p.dir \in Int /\ On(at, dir, d.btm) \in Int /\ Leads(at, dir, d.btm, d.hei, p.dir, h)
    BY <1>1, <1>2, StepsForward
  <2> QED
    BY <1>2, <2>1 DEF Leads
<1> HIDE DEF h
<1>6. EndsAt(p) = {End(On(at, dir, d.btm), d.dia, 0), End(On(at, dir, d.btm + d.hei), 0, 0)}
  BY <1>2, <1>4, <1>5, EndsOfTwo, OnTheSpot DEF EndsAt, End
<1> QED
  BY <1>6 DEF WantedEnds, On, p, at, dir

LEMMA SnoutInPlace ==
  ASSUME NEW d, IsDescription(d), d.type \in {"Snout", "Cone"}, d.pa # <<>>, d.top # d.btm, ~KeepsItsOffset(d)
  PROVE  EndsAt(SnoutOf(d)[1]) = WantedEnds(d)
<1> DEFINE dir == Direction(d)
           at == Pa(d).at
           p == SnoutOf(d)[1]
           h == Abs(d.top - d.btm)
           half == h \div 2
           mid == at + (dir * (d.btm + d.top)) \div 2
           hi == d.off \div 2
<1>1. dir \in {-1, 0, 1} /\ at \in Int /\ d.btm \in Int /\ d.top \in Int
      /\ d.btm % 2 = 0 /\ d.top % 2 = 0 /\ d.off \in Int
  BY DirectionsAreUnits DEF IsDescription, HasEnds
<1>2. IF d.top < d.btm THEN half = (d.btm - d.top) \div 2 ELSE half = (d.top - d.btm) \div 2
  BY <1>1 DEF Abs
<1>3. CASE d.top < d.btm
  <2> DEFINE s == LSnout(-half, half, d.dtop, d.dbtm, d.off, TRUE, Uncounted)
  <2>0. d.top - d.btm < 0
    BY <1>1, <1>3
  <2>1. p.shape = s /\ p.at = mid /\ p.dir = dir
    BY <2>0 DEF SnoutOf, Placed
  <2>2. s.kind = "LSnout" /\ s.btm = -half /\ s.top = half /\ s.dbtm = d.dtop /\ s.dtop = d.dbtm /\ s.off = d.off
    BY DEF LSnout
  <2> HIDE DEF s
  <2>3. Described(s).ends = <<End(-half, d.dtop, -hi), End(half, d.dbtm, hi)>>
    BY <2>2 DEF Described, Drawn, Solid
  <2>4. d.off = 0 /\ hi = 0 /\ -hi = 0
    BY <1>1, <1>3 DEF KeepsItsOffset
  <2> HIDE DEF hi, half, mid, p, dir, at
  <2>5. On(mid, dir, -half) = On(at, dir, d.top) /\ On(mid, dir, half) = On(at, dir, d.btm)
    <3>1. mid = at + (dir * (d.top + d.btm)) \div 2
      BY <1>1 DEF mid
    <3>2. Halfway(at, dir, d.top, d.btm, half)
      BY <1>1, <1>2, <1>3, WayFromTheMiddle
    <3> QED
      BY <3>1, <3>2 DEF Halfway
  <2>6. EndsAt(p) = {End(On(at, dir, d.top), d.dtop, -hi), End(On(at, dir, d.btm), d.dbtm, hi)}
    BY <2>1, <2>3, <2>5, EndsOfTwo DEF EndsAt, End
  <2>7. EndsAt(p) = {End(On(at, dir, d.btm), d.dbtm, -hi), End(On(at, dir, d.top), d.dtop, hi)}
    BY <2>4, <2>6
  <2> QED
    BY <2>7 DEF WantedEnds, On, p, at, dir, hi
<1>4. CASE ~(d.top < d.btm)
  <2> DEFINE s == LSnout(-half, half, d.dbtm, d.dtop, d.off, FALSE, Uncounted)
  <2>0. ~(d.top - d.btm < 0)
    BY <1>1, <1>4
  <2>1. p.shape = s /\ p.at = mid /\ p.dir = dir
    BY <2>0 DEF SnoutOf, Placed
  <2>2. s.kind = "LSnout" /\ s.btm = -half /\ s.top = half /\ s.dbtm = d.dbtm /\ s.dtop = d.dtop /\ s.off = d.off
    BY DEF LSnout
  <2> HIDE DEF s
  <2>3. Described(s).ends = <<End(-half, d.dbtm, -hi), End(half, d.dtop, hi)>>
    BY <2>2 DEF Described, Drawn, Solid
  <2> HIDE DEF hi, half, mid, p, dir, at
  <2>4. Halfway(at, dir, d.btm, d.top, half)
    BY <1>1, <1>2, <1>4, WayFromTheMiddle
  <2>5. On(mid, dir, -half) = On(at, dir, d.btm) /\ On(mid, dir, half) = On(at, dir, d.top)
    BY <2>4 DEF Halfway, mid
  <2>6. EndsAt(p) = {End(On(at, dir, d.btm), d.dbtm, -hi), End(On(at, dir, d.top), d.dtop, hi)}
    BY <2>1, <2>3, <2>5, EndsOfTwo DEF EndsAt, End
  <2> QED
    BY <2>6 DEF WantedEnds, On, p, at, dir, hi
<1> QED
  BY <1>3, <1>4

LEMMA DescribedIsInPlace ==
  ASSUME NEW d, IsDescription(d), d.type \in HasEnds
  PROVE  InPlace(d)
<1> DEFINE p == convert_to_brep_shapes(d)
<1> SUFFICES ASSUME p # Rejected, check_valid(p[1].shape), ~KeepsItsOffset(d), ~FlagUnheeded(d)
             PROVE  EndsAt(p[1]) = WantedEnds(d)
  BY DEF InPlace
<1>1. d.pa # <<>>
  BY DEF convert_to_brep_shapes, HasEnds
<1>2. CASE d.type = "SCylinder"
  <2>1. p = SCylinderOf(d)
    BY <1>1, <1>2 DEF convert_to_brep_shapes
  <2> QED
    BY <1>1, <1>2, <2>1, SCylinderInPlace
<1>3. CASE d.type = "SlopeBottomCylinder"
  <2>1. p = SlopeBottomOf(d)
    BY <1>1, <1>3 DEF convert_to_brep_shapes
  <2> QED
    BY <1>1, <1>3, <2>1, SlopeBottomInPlace
<1>4. CASE d.type = "LCylinder"
  <2>1. p = LCylinderOf(d)
    BY <1>1, <1>4 DEF convert_to_brep_shapes
  <2> QED
    BY <1>1, <1>4, <2>1, LCylinderInPlace
<1>5. CASE d.type = "Dish"
  <2>1. p = DishOf(d)
    BY <1>1, <1>5 DEF convert_to_brep_shapes
  <2> QED
    BY <1>1, <1>5, <2>1, DishInPlace
<1>6. CASE d.type \in {"Snout", "Cone"}
  <2>1. p = SnoutOf(d)
    BY <1>1, <1>6 DEF convert_to_brep_shapes
  <2>2. d.top # d.btm
    <3> SUFFICES ASSUME d.top = d.btm PROVE FALSE
      OBVIOUS
    <3>1. d.top \in Int /\ d.btm \in Int
      BY <1>6 DEF IsDescription, HasEnds
    <3>0. d.top - d.btm = 0
      BY <3>1
    <3> DEFINE half == Abs(d.top - d.btm) \div 2
    <3>2. half \in Int /\ half = 0
      BY <3>0 DEF Abs
    <3>3. p[1].shape = LSnout(-half, half, d.dbtm, d.dtop, d.off, FALSE, Uncounted)
      <4>1. ~(d.top - d.btm < 0)
        BY <3>0
      <4>2. SnoutOf(d)[1].shape = LSnout(-half, half, d.dbtm, d.dtop, d.off, FALSE, Uncounted)
        BY <4>1 DEF SnoutOf, Placed
      <4> QED
        BY <2>1, <4>2
    <3> HIDE DEF half, p
    <3> QED
      BY <3>2, <3>3 DEF check_valid, LSnoutIsValid, LSnout
  <2> QED
    BY <1>1, <1>6, <2>1, <2>2, SnoutInPlace
<1> QED
  BY <1>2, <1>3, <1>4, <1>5, <1>6 DEF HasEnds

(* Reversed, shifted or shortened, every catalogue solid that is collected  *)
(* has its bottom and its top where its description puts them, each as wide *)
(* as it says (convert_to_brep_shapes); what an offset or a flag spoils is  *)
(* excepted.                                                                *)
THEOREM EndsStayInPlace == UnitSpec => []CatalogueEndsStayInPlace
<1>1. MeshInv => CatalogueEndsStayInPlace
  <2> SUFFICES ASSUME MeshInv, NEW e \in collected, e.source.by = "catalogue", e.source.param.type \in HasEnds
               PROVE  InPlace(e.source.param)
    BY DEF CatalogueEndsStayInPlace
  <2>1. IsElement(e)
    BY ScenesAssumption, CollectedAreElements DEF MeshInv, Elements
  <2>2. IsDescription(e.source.param)
    BY <2>1 DEF IsElement, IsSource
  <2> QED
    BY <2>2, DescribedIsInPlace
<1> QED
  BY <1>1, MeshInvHolds, PTL

-----------------------------------------------------------------------------
(* The shapes that are collected                                            *)

AreInts(ns) == ns \subseteq Int
SCylinderFields == {"kind", "dia", "hei", "shear", "mid", "seg"}
IsCylinder(s) ==
  /\ s.kind = "SCylinder" => DOMAIN s = SCylinderFields /\ s.mid \in BOOLEAN
  /\ s.kind = "SCylinder" => AreInts({s.dia, s.hei}) /\ s.shear \in [1 .. 4 -> Int]
                             /\ (s.mid => \A i \in 1 .. 4 : s.shear[i] = 0)
  /\ s.kind = "LCylinder" => AreInts({s.dia, s.btm, s.top})
IsRound(s) ==
  /\ s.kind = "Dish" => AreInts({s.dia, s.hei, s.rad}) /\ HasProfile(s.dia, s.hei)
  /\ s.kind \in {"CTorus", "RTorus"} => AreInts({s.rins, s.rout, s.angle})
  /\ s.kind = "RTorus" => s.hei \in Int
  /\ s.kind = "LSnout" => AreInts({s.top, s.dbtm, s.dtop, s.off}) /\ s.btm = -s.top
  /\ s.kind = "Sphere" => s.radius \in Int
IsOther(s) ==
  /\ s.kind = "SBox" => s.size \in [1 .. 3 -> Int]
  /\ s.kind = "Extrusion" => s.hei \in Int /\ s = Extrusion(s.outline, s.hei, "Fill")
  /\ s.kind = "Revolution" => s = Revolution(s.outline, s.angle)
  /\ s.kind = "SweepSolid" => s.path[1] \in {"line", "arc"} /\ s.path[2] \in Int
ShapeKinds ==
  {"SCylinder", "LCylinder", "Dish", "CTorus", "RTorus", "LSnout", "Sphere", "SBox", "Extrusion", "Revolution",
   "SweepSolid", "Pyramid", "LPyramid"}
Counted == {"SCylinder", "LCylinder", "Dish", "CTorus", "RTorus", "LSnout", "Sphere"}
IsShape(s) ==
  /\ s.kind \in ShapeKinds
  /\ s.kind \in Counted => s.seg = Uncounted
  /\ IsCylinder(s) /\ IsRound(s) /\ IsOther(s)

LEMMA NoShear == <<0, 0, 0, 0>> \in [1 .. 4 -> Int] /\ \A i \in 1 .. 4 : <<0, 0, 0, 0>>[i] = 0
OBVIOUS

LEMMA SCylindersAreShapes ==
  ASSUME NEW dia \in Int, NEW hei \in Int, NEW shear \in [1 .. 4 -> Int], NEW mid \in BOOLEAN,
         mid => \A i \in 1 .. 4 : shear[i] = 0
  PROVE  IsShape(SCylinder(dia, hei, shear, mid))
<1> DEFINE s == SCylinder(dia, hei, shear, mid)
<1>1. DOMAIN s = SCylinderFields
  BY DEF SCylinder, SCylinderFields
<1>2. s.kind = "SCylinder" /\ s.dia = dia /\ s.hei = hei /\ s.shear = shear /\ s.mid = mid /\ s.seg = Uncounted
  BY DEF SCylinder
<1> HIDE DEF s
<1>3. IsShape(s)
  BY <1>1, <1>2 DEF IsShape, ShapeKinds, Counted, IsCylinder, IsRound, IsOther, AreInts
<1> QED
  BY <1>3 DEF s

LEMMA LCylindersAreShapes ==
  ASSUME NEW dia \in Int, NEW btm \in Int, NEW top \in Int
  PROVE  IsShape(LCylinder(dia, btm, top, Uncounted))
BY DEF IsShape, ShapeKinds, Counted, IsCylinder, IsRound, IsOther, AreInts, LCylinder

LEMMA DishesAreShapes ==
  ASSUME NEW dia \in Int, NEW hei \in Int, NEW rad \in Int, HasProfile(dia, hei)
  PROVE  IsShape(Dish(dia, hei, rad, Uncounted))
<1> USE DEF Dish
<1>1. HasProfile(Dish(dia, hei, rad, Uncounted).dia, Dish(dia, hei, rad, Uncounted).hei)
  OBVIOUS
<1> QED
  BY <1>1 DEF IsShape, ShapeKinds, Counted, IsCylinder, IsRound, IsOther, AreInts

LEMMA ToriAreShapes ==
  ASSUME NEW rins \in Int, NEW rout \in Int, NEW angle \in Int, NEW hei \in Int
  PROVE  IsShape(CTorus(rins, rout, angle, Uncounted)) /\ IsShape(RTorus(rins, rout, hei, angle, Uncounted))
BY DEF IsShape, ShapeKinds, Counted, IsCylinder, IsRound, IsOther, AreInts, CTorus, RTorus

LEMMA SnoutsAreShapes ==
  ASSUME NEW h \in Int, NEW m, m = -h, NEW dbtm \in Int, NEW dtop \in Int, NEW off \in Int
  PROVE  /\ IsShape(LSnout(m, h, dbtm, dtop, off, FALSE, Uncounted))
         /\ IsShape(LSnout(m, h, dbtm, dtop, off, TRUE, Uncounted))
BY DEF IsShape, ShapeKinds, Counted, IsCylinder, IsRound, IsOther, AreInts, LSnout

LEMMA SpheresAreShapes ==
  ASSUME NEW radius \in Int
  PROVE  IsShape(Sphere(radius, Uncounted))
BY DEF IsShape, ShapeKinds, Counted, IsCylinder, IsRound, IsOther, AreInts, Sphere

LEMMA BoxesAreShapes ==
  ASSUME NEW size \in [1 .. 3 -> Int]
  PROVE  IsShape(SBox(size))
BY DEF IsShape, ShapeKinds, Counted, IsCylinder, IsRound, IsOther, AreInts, SBox

LEMMA OutlinesAreShapes ==
  ASSUME NEW hei \in Int, NEW outline, NEW angle
  PROVE  IsShape(Extrusion(outline, hei, "Fill")) /\ IsShape(Revolution(outline, angle))
BY DEF IsShape, ShapeKinds, Counted, IsCylinder, IsRound, IsOther, AreInts, Extrusion, Revolution

LEMMA PyramidsAreShapes ==
  ASSUME NEW kind \in {"Pyramid", "LPyramid"}, NEW btm, NEW top, NEW size, NEW points
  PROVE  IsShape(Pyramid(kind, btm, top, size, points))
BY DEF IsShape, ShapeKinds, Counted, IsCylinder, IsRound, IsOther, AreInts, Pyramid

(* Elements by their noun.                                                  *)
LEMMA AttributeValues ==
  ASSUME NEW noun, NEW att, IsAttributes(noun, att), NEW name
  PROVE  F(att, name) \in Int
BY DEF F, IsAttributes

LEMMA NounShapes ==
  ASSUME NEW noun, NEW att, IsAttributes(noun, att), OfAttributes(noun, att) # <<>>
  PROVE  LET s == OfAttributes(noun, att)[1] IN
         /\ IsShape(s)
         /\ s.kind = "SCylinder" => s = SCylinder(s.dia, s.hei, s.shear, s.mid) /\ s.mid \in BOOLEAN
<1> DEFINE r == OfAttributes(noun, att)
<1>0. \A name : F(att, name) \in Int
  BY AttributeValues
<1>1. CASE noun \in {"BOX", "NBOX"}
  <2>1. r = <<BoxFrom(att)>>
    BY <1>1 DEF OfAttributes
  <2> DEFINE size == <<F(att, "XLEN"), F(att, "YLEN"), F(att, "ZLEN")>>
  <2>2. size \in [1 .. 3 -> Int]
    BY <1>0
  <2> HIDE DEF size
  <2>3. IsShape(SBox(size)) /\ SBox(size).kind = "SBox"
    BY <2>2, BoxesAreShapes DEF SBox
  <2> QED
    BY <2>1, <2>3 DEF BoxFrom, size
<1>2. CASE noun \in {"CYLI", "SLCY", "NCYL"}
  <2>1. r = <<SCylinderFrom(att)>>
    BY <1>2 DEF OfAttributes
  <2>2. IsShape(SCylinderFrom(att))
    BY <1>0, NoShear, SCylindersAreShapes DEF SCylinderFrom
  <2>3. PICK dia, hei, shear : SCylinderFrom(att) = SCylinder(dia, hei, shear, TRUE)
    BY DEF SCylinderFrom
  <2>4. LET s == SCylinder(dia, hei, shear, TRUE) IN s.dia = dia /\ s.hei = hei /\ s.shear = shear /\ s.mid = TRUE
    BY DEF SCylinder
  <2> DEFINE s == SCylinder(dia, hei, shear, TRUE)
  <2>5. s = SCylinder(s.dia, s.hei, s.shear, s.mid) /\ s.mid \in BOOLEAN
    BY <2>4, Zenon
  <2> HIDE DEF s
  <2>6. r = <<s>> /\ IsShape(s)
    BY <2>1, <2>2, <2>3 DEF s
  <2> HIDE DEF r
  <2> QED
    BY <2>5, <2>6 DEF r
<1>3. CASE noun = "SPHE"
  <2>1. r = <<SphereFrom(att)>>
    BY <1>3 DEF OfAttributes
  <2>2. IsShape(SphereFrom(att))
    BY <1>0, SpheresAreShapes DEF SphereFrom
  <2> QED
    BY <2>1, <2>2 DEF SphereFrom, Sphere
<1>4. CASE noun \in {"CONE", "NCON", "SNOU", "NSNO"}
  <2>1. r = <<LSnoutFrom(att)>>
    BY <1>4 DEF OfAttributes
  <2> DEFINE h == F(att, "HEIG") \div 2
  <2>2. h \in Int
    BY <1>0
  <2>3. LSnoutFrom(att) = LSnout(-h, h, F(att, "DBOT"), F(att, "DTOP"), 0, FALSE, Uncounted)
    BY DEF LSnoutFrom
  <2> HIDE DEF h
  <2>4. IsShape(LSnoutFrom(att))
    <3>1. PICK b \in Int, t \in Int, o \in Int : F(att, "DBOT") = b /\ F(att, "DTOP") = t /\ o = 0
      BY <1>0
    <3>2. IsShape(LSnout(-h, h, b, t, o, FALSE, Uncounted))
      BY <2>2, SnoutsAreShapes
    <3> QED
      BY <2>3, <3>1, <3>2
  <2> QED
    BY <2>1, <2>3, <2>4 DEF LSnout
<1>5. CASE noun \in {"DISH", "NDIS"}
  <2>1. r = <<DishFrom(att)>>
    BY <1>5 DEF OfAttributes
  <2>2. IsShape(DishFrom(att))
    BY <1>0, <1>5, DishesAreShapes DEF DishFrom, IsAttributes
  <2> QED
    BY <2>1, <2>2 DEF DishFrom, Dish
<1>6. CASE noun \in {"CTOR", "NCTO"}
  <2>1. r = <<CTorusFrom(att)>>
    BY <1>6 DEF OfAttributes
  <2>2. Larger(F(att, "RINS"), 0) \in Int
    BY <1>0 DEF Larger
  <2>3. IsShape(CTorusFrom(att))
    BY <1>0, <2>2, ToriAreShapes DEF CTorusFrom
  <2> QED
    BY <2>1, <2>3 DEF CTorusFrom, CTorus
<1>7. CASE noun \in {"RTOR", "NRTO"}
  <2>1. r = <<RTorusFrom(att)>>
    BY <1>7 DEF OfAttributes
  <2>2. Larger(F(att, "RINS"), 0) \in Int
    BY <1>0 DEF Larger
  <2>3. IsShape(RTorusFrom(att))
    BY <1>0, <2>2, ToriAreShapes DEF RTorusFrom
  <2> QED
    BY <2>1, <2>3 DEF RTorusFrom, RTorus
<1>8. CASE noun \in {"PYRA", "NPYR"}
  <2>1. r = <<PyramidFrom(att)>>
    BY <1>8 DEF OfAttributes
  <2>2. IsShape(PyramidFrom(att))
    BY PyramidsAreShapes DEF PyramidFrom
  <2> QED
    BY <2>1, <2>2 DEF PyramidFrom, Pyramid
<1> QED
  BY <1>1, <1>2, <1>3, <1>4, <1>5, <1>6, <1>7, <1>8 DEF OfAttributes

LEMMA LimitedShapes ==
  ASSUME NEW s, IsShape(s), s.kind = "SCylinder" => s = SCylinder(s.dia, s.hei, s.shear, s.mid) /\ s.mid \in BOOLEAN,
         NEW limit \in Int
  PROVE  IsShape(apply_limit_by_size(s, limit))
<1>1. CASE s.kind = "SBox"
  <2> DEFINE size == [i \in 1 .. 3 |-> Smaller(s.size[i], limit)]
  <2>1. size \in [1 .. 3 -> Int]
    BY <1>1 DEF IsShape, IsOther, Smaller
  <2>2. apply_limit_by_size(s, limit) = SBox(size)
    BY <1>1 DEF apply_limit_by_size
  <2> HIDE DEF size
  <2> QED
    BY <2>1, <2>2, BoxesAreShapes
<1>2. CASE s.kind = "SCylinder"
  <2>1. AreInts({s.dia, s.hei}) /\ s.shear \in [1 .. 4 -> Int] /\ (s.mid => \A i \in 1 .. 4 : s.shear[i] = 0)
    BY <1>2 DEF IsShape, IsCylinder
  <2> DEFINE dia == Smaller(s.dia, limit)
             hei == Smaller(s.hei, limit)
  <2>2. dia \in Int /\ hei \in Int
    BY <2>1 DEF AreInts, Smaller
  <2>3. apply_limit_by_size(s, limit) = SCylinder(dia, hei, s.shear, s.mid)
    <3>1. apply_limit_by_size(s, limit) = [s EXCEPT !.hei = hei, !.dia = dia]
      BY <1>2 DEF apply_limit_by_size
    <3>2. PICK a, b, c, m : s = SCylinder(a, b, c, m)
      BY <1>2
    <3>3. s.shear = c /\ s.mid = m
      BY <3>2 DEF SCylinder
    <3> HIDE DEF dia, hei
    <3> QED
      BY <3>1, <3>2, <3>3 DEF SCylinder
  <2> HIDE DEF dia, hei
  <2> QED
    BY <1>2, <2>1, <2>2, <2>3, SCylindersAreShapes
<1>3. CASE s.kind \notin {"SBox", "SCylinder"}
  BY <1>3 DEF apply_limit_by_size
<1> QED
  BY <1>1, <1>2, <1>3

(* Elements the catalogue describes.                                        *)
LEMMA CatalogueShapesAreGood ==
  ASSUME NEW d, IsDescription(d), convert_to_brep_shapes(d) # Rejected
  PROVE  IsShape(convert_to_brep_shapes(d)[1].shape)
<1> DEFINE p == convert_to_brep_shapes(d)
<1>1. CASE d.type = "Box"
  <2>1. p = Placed(SBox(d.size), d.offset, 1)
    BY <1>1 DEF convert_to_brep_shapes
  <2>2. IsShape(SBox(d.size))
    BY <1>1, BoxesAreShapes DEF IsDescription
  <2> QED
    BY <2>1, <2>2 DEF Placed
<1>2. CASE d.type # "Box"
  <2>0. d.pa # <<>>
    BY <1>2 DEF convert_to_brep_shapes
  <2>1. CASE d.type = "SCylinder"
    <3>1. p = SCylinderOf(d)
      BY <2>0, <2>1 DEF convert_to_brep_shapes
    <3>2. Abs(d.hei) \in Int /\ d.dia \in Int
      BY <2>1 DEF IsDescription, HasEnds, Abs
    <3>3. IsShape(SCylinder(d.dia, Abs(d.hei), <<0, 0, 0, 0>>, FALSE))
      BY <3>2, NoShear, SCylindersAreShapes
    <3>4. SCylinderOf(d)[1].shape = SCylinder(d.dia, Abs(d.hei), <<0, 0, 0, 0>>, FALSE)
      BY DEF SCylinderOf, Placed
    <3> QED
      BY <3>1, <3>3, <3>4
  <2>2. CASE d.type = "SlopeBottomCylinder"
    <3>1. p = SlopeBottomOf(d)
      BY <2>0, <2>2 DEF convert_to_brep_shapes
    <3>2. d.hei \in Int /\ d.dia \in Int /\ d.shear \in [1 .. 4 -> Int]
      BY <2>2 DEF IsDescription, HasEnds
    <3>3. IsShape(SCylinder(d.dia, d.hei, d.shear, FALSE))
      BY <3>2, SCylindersAreShapes
    <3>4. SlopeBottomOf(d)[1].shape = SCylinder(d.dia, d.hei, d.shear, FALSE)
      BY <3>1 DEF SlopeBottomOf, Placed
    <3> QED
      BY <3>1, <3>3, <3>4
  <2>3. CASE d.type = "LCylinder"
    <3>1. p = LCylinderOf(d)
      BY <2>0, <2>3 DEF convert_to_brep_shapes
    <3>2. d.btm \in Int /\ d.top \in Int /\ d.dia \in Int
      BY <2>3 DEF IsDescription, HasEnds
    <3>3. IsShape(LCylinder(d.dia, d.btm, d.top, Uncounted))
      BY <3>2, LCylindersAreShapes
    <3> QED
      BY <3>1, <3>3 DEF LCylinderOf, Placed
  <2>4. CASE d.type = "Dish"
    <3>1. p = DishOf(d)
      BY <2>0, <2>4 DEF convert_to_brep_shapes
    <3>2. Abs(d.hei) \in Int /\ d.dia \in Int /\ d.rad \in Int /\ HasProfile(d.dia, Abs(d.hei))
      BY <2>4 DEF IsDescription, HasEnds, Abs
    <3>3. IsShape(Dish(d.dia, Abs(d.hei), d.rad, Uncounted))
      BY <3>2, DishesAreShapes
    <3> QED
      BY <3>1, <3>3 DEF DishOf, Placed
  <2>5. CASE d.type \in {"Snout", "Cone"}
    <3>1. p = SnoutOf(d)
      BY <2>0, <2>5 DEF convert_to_brep_shapes
    <3> DEFINE h == Abs(d.top - d.btm) \div 2
    <3>2. h \in Int /\ d.dbtm \in Int /\ d.dtop \in Int /\ d.off \in Int
      BY <2>5 DEF IsDescription, HasEnds, Abs
    <3>3. \/ SnoutOf(d)[1].shape = LSnout(-h, h, d.dtop, d.dbtm, d.off, TRUE, Uncounted)
          \/ SnoutOf(d)[1].shape = LSnout(-h, h, d.dbtm, d.dtop, d.off, FALSE, Uncounted)
      BY DEF SnoutOf, Placed
    <3> HIDE DEF h, p
    <3>4. IsShape(LSnout(-h, h, d.dtop, d.dbtm, d.off, TRUE, Uncounted))
          /\ IsShape(LSnout(-h, h, d.dbtm, d.dtop, d.off, FALSE, Uncounted))
      BY <3>2, SnoutsAreShapes
    <3> QED
      BY <3>1, <3>3, <3>4 DEF p
  <2>6. CASE d.type = "Pyramid"
    <3>1. p = PyramidOf(d)
      BY <2>0, <2>6 DEF convert_to_brep_shapes
    <3>2. IsShape(Pyramid("LPyramid", d.btm, d.top, d.size, d.pa))
      BY PyramidsAreShapes
    <3> QED
      BY <3>1, <3>2 DEF PyramidOf, Placed
  <2>7. CASE d.type = "Torus"
    <3>1. p = TorusOf(d)
      BY <2>0, <2>7 DEF convert_to_brep_shapes
    <3>2. d.circle # <<>>
      BY <3>1 DEF TorusOf
    <3> DEFINE c == d.circle[1]
               half == d.dia \div 2
               rout == IF c.meet THEN (c.radius + half) \div 2 ELSE c.radius + half
    <3>3. c.radius - half \in Int /\ rout \in Int /\ c.angle \in Int
      BY <2>7, <3>2 DEF IsDescription, HasEnds, IsCircle
    <3>4. p[1].shape = CTorus(c.radius - half, rout, c.angle, Uncounted)
      BY <3>1, <3>2 DEF TorusOf, Placed
    <3> HIDE DEF rout, half, c, p
    <3>5. PICK a \in Int, b \in Int, g \in Int : p[1].shape = CTorus(a, b, g, Uncounted)
      BY <3>3, <3>4
    <3>6. IsShape(CTorus(a, b, g, Uncounted))
      BY ToriAreShapes
    <3> QED
      BY <3>5, <3>6 DEF p
  <2>8. CASE d.type = "RectTorus"
    <3>1. p = RectTorusOf(d)
      BY <2>0, <2>8 DEF convert_to_brep_shapes
    <3>2. d.circle # <<>>
      BY <3>1 DEF RectTorusOf
    <3> DEFINE c == d.circle[1]
               half == d.dia \div 2
    <3>3. c.radius - half \in Int /\ c.radius + half \in Int /\ c.angle \in Int /\ d.hei \in Int
      BY <2>8, <3>2 DEF IsDescription, HasEnds, IsCircle
    <3>4. p[1].shape = RTorus(c.radius - half, c.radius + half, d.hei, c.angle, Uncounted)
      BY <3>1, <3>2 DEF RectTorusOf, Placed
    <3> HIDE DEF half, c, p
    <3>5. PICK a \in Int, b \in Int, g \in Int, h \in Int : p[1].shape = RTorus(a, b, h, g, Uncounted)
      BY <3>3, <3>4
    <3>6. IsShape(RTorus(a, b, h, g, Uncounted))
      BY ToriAreShapes
    <3> QED
      BY <3>5, <3>6 DEF p
  <2>9. CASE d.type = "Sphere"
    <3>1. p = Placed(Sphere(d.dia \div 2, Uncounted), Pa(d).at, 1)
      BY <2>0, <2>9 DEF convert_to_brep_shapes
    <3> DEFINE radius == d.dia \div 2
    <3>2. radius \in Int
      BY <2>9 DEF IsDescription, HasEnds
    <3> HIDE DEF radius
    <3>3. IsShape(Sphere(radius, Uncounted))
      BY <3>2, SpheresAreShapes
    <3> QED
      BY <3>1, <3>3 DEF Placed, radius
  <2>10. CASE d.type = "Revolution"
    <3>1. p = RevolutionOf(d)
      BY <2>0, <2>10 DEF convert_to_brep_shapes
    <3>2. IsShape(Revolution(d.outline, d.angle))
      <4>1. 0 \in Int
        OBVIOUS
      <4> QED
        BY <4>1, OutlinesAreShapes
    <3> QED
      BY <3>1, <3>2 DEF RevolutionOf, Placed
  <2>11. CASE d.type = "Extrusion"
    <3>1. p = ExtrusionOf(d)
      BY <2>0, <2>11 DEF convert_to_brep_shapes
    <3>2. d.hei \in Int
      BY <2>11 DEF IsDescription, HasEnds
    <3>3. IsShape(Extrusion(d.outline, d.hei, "Fill"))
      BY <3>2, OutlinesAreShapes
    <3> QED
      BY <3>1, <3>3 DEF ExtrusionOf, Placed
  <2>12. CASE d.type = "Unknown"
    BY <2>0, <2>12 DEF convert_to_brep_shapes
  <2> QED
    BY <1>2, <2>1, <2>2, <2>3, <2>4, <2>5, <2>6, <2>7, <2>8, <2>9, <2>10, <2>11, <2>12 DEF IsDescription, HasEnds
<1> QED
  BY <1>1, <1>2

(* What is drawn is a good and valid shape.                                 *)
LEMMA DrawablesAreShapes ==
  ASSUME NEW e, IsElement(e), Drawable(e)
  PROVE  LET p == ShapesOf(e)[1] IN Insts(e) = <<Inst(p)>> /\ IsShape(p.shape) /\ check_valid(p.shape)
<1> DEFINE all == ShapesOf(e)
           src == e.source
<1>1. all # <<>> /\ check_valid(all[1].shape) /\ Insts(e) = <<Inst(all[1])>>
  BY DEF Drawable, Insts, Valid
<1>2. IsSource(src) /\ src.by # "tube"
  BY DEF IsElement, Drawable
<1>3. CASE src.by = "noun"
  <2>1. all = Centrally(create_brep_shape(src.noun, src.att, src.limit))
    BY <1>3 DEF ShapesOf
  <2>2. IsAttributes(src.noun, src.att) /\ (src.limit = <<>> \/ src.limit[1] \in Int)
    BY <1>2, <1>3 DEF IsSource
  <2> DEFINE r == OfAttributes(src.noun, src.att)
             c == create_brep_shape(src.noun, src.att, src.limit)
  <2>3. c # <<>> /\ all[1].shape = c[1]
    BY <1>1, <2>1 DEF Centrally, Placed
  <2>4. r # <<>>
    BY <2>3 DEF create_brep_shape
  <2>5. /\ IsShape(r[1])
        /\ r[1].kind = "SCylinder" =>
             r[1] = SCylinder(r[1].dia, r[1].hei, r[1].shear, r[1].mid) /\ r[1].mid \in BOOLEAN
    BY <2>2, <2>4, NounShapes
  <2>6. ASSUME src.limit = <<>> PROVE IsShape(all[1].shape)
    <3>1. c = r
      BY <2>6 DEF create_brep_shape
    <3> HIDE DEF c, r, all
    <3> QED
      BY <2>3, <2>5, <3>1
  <2>7. ASSUME src.limit # <<>> PROVE IsShape(all[1].shape)
    <3>1. c = <<apply_limit_by_size(r[1], src.limit[1])>>
      BY <2>4, <2>7 DEF create_brep_shape
    <3> HIDE DEF c, r, all
    <3>2. IsShape(apply_limit_by_size(r[1], src.limit[1]))
      BY <2>2, <2>5, <2>7, LimitedShapes
    <3> QED
      BY <2>3, <3>1, <3>2
  <2>8. IsShape(all[1].shape)
    BY <2>6, <2>7
  <2> HIDE DEF all
  <2> QED
    BY <1>1, <2>8 DEF all
<1>4. CASE src.by = "catalogue"
  <2>1. all = convert_to_brep_shapes(src.param) /\ IsDescription(src.param)
    BY <1>2, <1>4 DEF ShapesOf, IsSource
  <2>2. IsShape(all[1].shape)
    BY <1>1, <2>1, CatalogueShapesAreGood DEF Rejected
  <2> HIDE DEF all
  <2> QED
    BY <1>1, <2>2 DEF all
<1>5. CASE src.by = "sweep"
  <2>1. all[1].shape = src.solid
    BY <1>5 DEF ShapesOf, Placed
  <2>2. src.solid.kind = "SweepSolid" /\ src.solid.path[1] \in {"line", "arc"} /\ src.solid.path[2] \in Int
    BY <1>2, <1>5 DEF IsSource
  <2>3. IsShape(src.solid)
    BY <2>2 DEF IsShape, ShapeKinds, Counted, IsCylinder, IsRound, IsOther
  <2> HIDE DEF all
  <2> QED
    BY <1>1, <2>1, <2>3 DEF all
<1> QED
  BY <1>2, <1>3, <1>4, <1>5 DEF IsSource

-----------------------------------------------------------------------------
(* Units and their keys                                                     *)

LEMMA RoundingTwice ==
  ASSUME NEW x \in Int
  PROVE  /\ Round3(x) \in Int /\ Round3(Round3(x)) = Round3(x)
         /\ Round3(x) - x <= 5 /\ x - Round3(x) <= 5
BY DEF Round3

LEMMA RatioToOne ==
  ASSUME NEW x \in Int
  PROVE  Ratio(x, One) = x
BY DEF Ratio, One

LEMMA RatiosAreInts ==
  ASSUME NEW n \in Int, NEW d \in Int, d > 0
  PROVE  Ratio(n, d) \in Int
BY DEF Ratio, One

LEMMA ExactRatios ==
  ASSUME NEW n \in Int, NEW d \in Int, d > 0, NEW q \in Int, n * One = q * d
  PROVE  Ratio(n, d) = q
<1>1. (q * d) \div d = q
  BY SMTT(30)
<1> QED
  BY <1>1 DEF Ratio

LEMMA CountsAreCounts ==
  ASSUME NEW s
  PROVE  /\ s.seg # Uncounted => segment_counts(s) = s.seg
         /\ s.kind \in Counted => segment_counts(s) # Uncounted
<1>1. s.seg # Uncounted => segment_counts(s) = s.seg
  BY DEF segment_counts
<1>2. ASSUME s.kind \in Counted, s.seg = Uncounted PROVE segment_counts(s) # Uncounted
  <2>1. CASE s.kind \in {"LCylinder", "SCylinder"}
    <3>1. segment_counts(s) = <<circle_segments(s.dia \div 2)>>
      BY <1>2, <2>1 DEF segment_counts
    <3> QED
      BY <3>1 DEF Uncounted
  <2>2. CASE s.kind = "Sphere"
    <3>1. segment_counts(s) = <<circle_segments(s.radius)>>
      BY <1>2, <2>2 DEF segment_counts
    <3> QED
      BY <3>1 DEF Uncounted
  <2>3. CASE s.kind = "LSnout"
    <3>1. segment_counts(s) = <<snout_segments(s.dbtm, s.dtop)>>
      BY <1>2, <2>3 DEF segment_counts
    <3> QED
      BY <3>1 DEF Uncounted
  <2>4. CASE s.kind = "CTorus"
    <3>1. segment_counts(s) = <<torus_ring_segments(s.rout, s.angle), circular_torus_tube_segments(s.rins, s.rout)>>
      BY <1>2, <2>4 DEF segment_counts
    <3> QED
      BY <3>1 DEF Uncounted
  <2>5. CASE s.kind = "RTorus"
    <3>1. segment_counts(s) = <<torus_ring_segments(s.rout, s.angle)>>
      BY <1>2, <2>5 DEF segment_counts
    <3> QED
      BY <3>1 DEF Uncounted
  <2>6. CASE s.kind = "Dish"
    <3>1. \/ segment_counts(s) = elliptical_dish_facets(s.dia \div 2, s.hei)
          \/ segment_counts(s) = spherical_dish_facets(s.dia \div 2, s.hei)
      BY <1>2, <2>6 DEF segment_counts
    <3>2. elliptical_dish_facets(s.dia \div 2, s.hei) # <<>> /\ spherical_dish_facets(s.dia \div 2, s.hei) # <<>>
      BY DEF elliptical_dish_facets, spherical_dish_facets
    <3> QED
      BY <3>1, <3>2 DEF Uncounted
  <2> QED
    BY <1>2, <2>1, <2>2, <2>3, <2>4, <2>5, <2>6 DEF Counted
<1> QED
  BY <1>1, <1>2

(* How a shape of each kind is keyed, drawn and placed.                     *)
IsBrep(s, key, unit, scale, shift, turn) ==
  /\ hash_unit_mesh_params(s) = key /\ gen_unit_shape(s) = unit
  /\ get_trans(s).scale = scale /\ get_trans(s).shift = shift /\ get_trans(s).turn = turn

LEMMA CylinderBrep ==
  ASSUME NEW s, s.kind = "LCylinder" \/ (s.kind = "SCylinder" /\ ~is_sscl(s)), NEW seg, seg = segment_counts(s)
  PROVE  LET h == IF s.kind = "LCylinder" THEN s.btm - s.top ELSE s.hei
             shift == IF s.kind = "SCylinder" /\ s.mid THEN -(s.hei \div 2) ELSE 0
         IN IsBrep(s, <<"cylinder", seg>>, UnitCylinder(seg), <<s.dia, s.dia, Abs(h)>>, shift, Upright)
<1>1. CASE s.kind = "LCylinder"
  <2>1. BrepOf(s) = LCylinderBrep(s, seg)
    BY <1>1 DEF BrepOf, Shaped
  <2> QED
    BY <1>1, <2>1 DEF IsBrep, hash_unit_mesh_params, gen_unit_shape, get_trans, Trans, LCylinderBrep, Brep
<1>2. CASE s.kind = "SCylinder" /\ ~is_sscl(s)
  <2>1. BrepOf(s) = SCylinderBrep(s, seg)
    BY <1>2 DEF BrepOf, Shaped
  <2> QED
    BY <1>2, <2>1 DEF IsBrep, hash_unit_mesh_params, gen_unit_shape, get_trans, Trans, SCylinderBrep, Brep
<1> QED
  BY <1>1, <1>2

LEMMA ShearedBrep ==
  ASSUME NEW s, s.kind = "SCylinder", is_sscl(s)
  PROVE  IsBrep(s, <<"SSCL", folded(s)>>, folded(s), Same, IF s.mid THEN -(s.hei \div 2) ELSE 0, Upright)
<1>1. BrepOf(s) = SCylinderBrep(s, segment_counts(s))
  BY DEF BrepOf, Shaped
<1> QED
  BY <1>1 DEF IsBrep, hash_unit_mesh_params, gen_unit_shape, get_trans, Trans, SCylinderBrep, Brep

LEMMA DishIsBrep ==
  ASSUME NEW s, s.kind = "Dish", NEW seg, seg = segment_counts(s)
  PROVE  IsBrep(s, <<"dish", Round3(Ratio(2 * s.hei, s.dia)), Round3(Ratio(s.rad, s.dia)), seg>>,
                Dish(One, Ratio(s.hei, s.dia), Round3(Ratio(s.rad, s.dia)), seg),
                IF is_elliptical(s) THEN <<s.dia, s.dia, 2 * s.hei>> ELSE Splat(s.dia), 0, Upright)
<1>1. BrepOf(s) = DishBrep(s, seg)
  BY DEF BrepOf, Shaped
<1> QED
  BY <1>1 DEF IsBrep, hash_unit_mesh_params, gen_unit_shape, get_trans, Trans, DishBrep, Brep

LEMMA CTorusIsBrep ==
  ASSUME NEW s, s.kind = "CTorus", NEW seg, seg = segment_counts(s)
  PROVE  IsBrep(s, TorusKey("ctorus", s, seg), CTorus(Ratio(s.rins, s.rout), One, s.angle, seg), Splat(s.rout), 0, Upright)
<1>1. BrepOf(s) = CTorusBrep(s, seg)
  BY DEF BrepOf, Shaped
<1> QED
  BY <1>1 DEF IsBrep, hash_unit_mesh_params, gen_unit_shape, get_trans, Trans, CTorusBrep, Brep

LEMMA RTorusIsBrep ==
  ASSUME NEW s, s.kind = "RTorus", NEW seg, seg = segment_counts(s)
  PROVE  IsBrep(s, TorusKey("rtorus", s, seg), RTorus(Ratio(s.rins, s.rout), One, One, s.angle, seg),
                <<s.rout, s.rout, s.hei>>, 0, Upright)
<1>1. BrepOf(s) = RTorusBrep(s, seg)
  BY DEF BrepOf, Shaped
<1> QED
  BY <1>1 DEF IsBrep, hash_unit_mesh_params, gen_unit_shape, get_trans, Trans, RTorusBrep, Brep

EccentricIsBrepOf(s) == IsBrep(s, <<"eccentric", s>>, s, Same, 0, Upright)
LEMMA SnoutIsBrep ==
  ASSUME NEW s, s.kind = "LSnout", NEW seg, seg = segment_counts(s)
  PROVE  /\ is_eccentric(s) => EccentricIsBrepOf(s)
         /\ ~is_eccentric(s) =>
              LET d == IF s.dbtm = 0 THEN s.dtop ELSE s.dbtm
                  ratio == IF s.dbtm # 0 THEN Round3(Ratio(s.dtop, s.dbtm)) ELSE 0
              IN IsBrep(s, <<"snout", ratio, s.top > s.btm, seg>>, SnoutUnit(s, seg), <<d, d, Abs(s.top - s.btm)>>, 0, Upright)
<1>1. BrepOf(s) = LSnoutBrep(s, seg)
  BY DEF BrepOf, Shaped
<1>2. is_eccentric(s) => EccentricIsBrepOf(s)
  BY <1>1 DEF EccentricIsBrepOf, IsBrep, hash_unit_mesh_params, gen_unit_shape, get_trans, Trans, LSnoutBrep, Brep
<1> QED
  BY <1>1, <1>2 DEF IsBrep, hash_unit_mesh_params, gen_unit_shape, get_trans, Trans, LSnoutBrep, Brep

LEMMA SphereIsBrep ==
  ASSUME NEW s, s.kind = "Sphere", NEW seg, seg = segment_counts(s)
  PROVE  IsBrep(s, <<"sphere", seg>>, SphereUnit(seg), Splat(s.radius), 0, Upright)
<1>1. BrepOf(s) = SphereBrep(s, seg)
  BY DEF BrepOf, Shaped
<1> QED
  BY <1>1 DEF IsBrep, hash_unit_mesh_params, gen_unit_shape, get_trans, Trans, SphereBrep, Brep

LEMMA BoxIsBrep ==
  ASSUME NEW s, s.kind = "SBox"
  PROVE  IsBrep(s, BOX_GEO_HASH, SBox(Same), s.size, 0, Upright)
<1>1. BrepOf(s) = SBoxBrep(s)
  BY DEF BrepOf, Shaped
<1> QED
  BY <1>1 DEF IsBrep, hash_unit_mesh_params, gen_unit_shape, get_trans, Trans, SBoxBrep, Brep

LEMMA ExtrusionIsBrep ==
  ASSUME NEW s, s.kind = "Extrusion"
  PROVE  IsBrep(s, <<"Extrusion", s.outline>>, Extrusion(s.outline, 10000, s.curve), <<One, One, s.hei>>, 0, Upright)
<1>1. BrepOf(s) = ExtrusionBrep(s)
  BY DEF BrepOf, Shaped
<1> QED
  BY <1>1 DEF IsBrep, hash_unit_mesh_params, gen_unit_shape, get_trans, Trans, ExtrusionBrep, Brep

LEMMA RevolutionIsBrep ==
  ASSUME NEW s, s.kind = "Revolution"
  PROVE  IsBrep(s, <<"Revolution", s.outline, s.angle>>, s, Same, 0, Upright)
<1>1. BrepOf(s) = RevolutionBrep(s)
  BY DEF BrepOf, Shaped
<1> QED
  BY <1>1 DEF IsBrep, hash_unit_mesh_params, gen_unit_shape, get_trans, Trans, RevolutionBrep, Brep

LEMMA OwnIsBrep ==
  ASSUME NEW s, s.kind \in {"Pyramid", "LPyramid"}
  PROVE  IsBrep(s, <<s.kind, s>>, s, Same, 0, Upright)
<1>1. BrepOf(s) = OwnBrep(s)
  BY DEF BrepOf, Shaped
<1> QED
  BY <1>1 DEF IsBrep, hash_unit_mesh_params, gen_unit_shape, get_trans, Trans, OwnBrep, Brep

UnitSweep(s) == SweepSolid(s.profile, <<"none", "none">>, UnitPath, Upright)
LoftScale(s) == IF is_sloped(s) \/ s.path[1] = "arc" THEN Same ELSE <<One, One, 10 * s.path[2]>>
LEMMA SweepIsBrep ==
  ASSUME NEW s, s.kind = "SweepSolid"
  PROVE  /\ is_reuse_unit(s) => IsBrep(s, <<"loft", s.profile>>, UnitSweep(s), <<One, One, 10 * s.path[2]>>, 0, s.turn)
         /\ ~is_reuse_unit(s) => IsBrep(s, <<"own_loft", s>>, s, LoftScale(s), 0, Upright)
<1>1. BrepOf(s) = SweepSolidBrep(s)
  BY DEF BrepOf, Shaped
<1>2. is_reuse_unit(s) => ~is_sloped(s) /\ s.path[1] # "arc"
  BY DEF is_reuse_unit
<1>3. is_reuse_unit(s) => IsBrep(s, <<"loft", s.profile>>, UnitSweep(s), <<One, One, 10 * s.path[2]>>, 0, s.turn)
  BY <1>1, <1>2 DEF IsBrep, hash_unit_mesh_params, gen_unit_shape, get_trans, Trans, SweepSolidBrep, Brep, UnitSweep
<1>4. ~is_reuse_unit(s) => IsBrep(s, <<"own_loft", s>>, s, LoftScale(s), 0, Upright)
  BY <1>1 DEF IsBrep, hash_unit_mesh_params, gen_unit_shape, get_trans, Trans, SweepSolidBrep, Brep, LoftScale
<1> QED
  BY <1>3, <1>4

(* The counts a unit row carries are taken as they are.                     *)
KeepsItsKey(s) == hash_unit_mesh_params(gen_unit_shape(s)) = hash_unit_mesh_params(s)

LEMMA CylinderKey ==
  ASSUME NEW s, IsShape(s), s.kind = "LCylinder" \/ (s.kind = "SCylinder" /\ ~is_sscl(s))
  PROVE  KeepsItsKey(s)
<1> DEFINE seg == segment_counts(s)
           u == UnitCylinder(seg)
<1>1. hash_unit_mesh_params(s) = <<"cylinder", seg>> /\ gen_unit_shape(s) = u
  BY CylinderBrep DEF IsBrep
<1>2. seg # Uncounted
  BY CountsAreCounts DEF Counted
<1>3. u.kind = "LCylinder" /\ u.seg = seg
  BY DEF UnitCylinder, LCylinder
<1> HIDE DEF seg, u
<1>4. segment_counts(u) = seg
  BY <1>2, <1>3, CountsAreCounts
<1>5. hash_unit_mesh_params(u) = <<"cylinder", seg>>
  BY <1>3, <1>4, CylinderBrep DEF IsBrep
<1> QED
  BY <1>1, <1>5 DEF KeepsItsKey

LEMMA FoldedAngles ==
  ASSUME NEW x \in Int
  PROVE  LET y == fold_shear_angle_deg(x) IN
         /\ y \in Int /\ Plane(y) = Plane(x)
         /\ Abs(y) < 90 => fold_shear_angle_deg(y) = y
BY DEF fold_shear_angle_deg, Plane, Abs

(* Folding a valid cylinder again changes nothing.                          *)
FoldedShear(s) == [i \in 1 .. 4 |-> fold_shear_angle_deg(s.shear[i])]
SameButSheared(f, s) ==
  /\ f.kind = s.kind /\ f.dia = s.dia /\ f.hei = s.hei /\ f.mid = s.mid /\ f.seg = s.seg
  /\ DOMAIN f = DOMAIN s /\ f.shear = FoldedShear(s)

LEMMA FoldedIs ==
  ASSUME NEW s, DOMAIN s = SCylinderFields
  PROVE  /\ SameButSheared(folded(s), s)
         /\ FoldedShear(s) = s.shear => \A x \in SCylinderFields : folded(s)[x] = s[x]
<1> DEFINE sh == FoldedShear(s)
<1>1. folded(s) = [s EXCEPT !.shear = sh]
  BY DEF folded, FoldedShear
<1> HIDE DEF sh
<1>2. SameButSheared([s EXCEPT !.shear = sh], s)
  BY DEF SameButSheared, SCylinderFields, sh
<1>3. sh = s.shear => \A x \in SCylinderFields : [s EXCEPT !.shear = sh][x] = s[x]
  BY DEF SCylinderFields
<1> QED
  BY <1>1, <1>2, <1>3 DEF sh

LEMMA FoldedTwice ==
  ASSUME NEW s, IsShape(s), check_valid(s), s.kind = "SCylinder"
  PROVE  folded(folded(s)) = folded(s) /\ (is_sscl(folded(s)) <=> is_sscl(s))
<1> DEFINE f == folded(s)
           ff == folded(f)
<1>1. DOMAIN s = SCylinderFields /\ s.shear \in [1 .. 4 -> Int]
  BY DEF IsShape, IsCylinder
<1>2. \A i \in 1 .. 4 : Abs(f.shear[i]) < 90
  BY DEF check_valid, SCylinderIsValid
<1> HIDE DEF f
<1>3. SameButSheared(f, s)
  BY <1>1, FoldedIs DEF f
<1>4. ASSUME NEW i \in 1 .. 4
      PROVE  fold_shear_angle_deg(f.shear[i]) = f.shear[i]
  <2>1. f.shear[i] = fold_shear_angle_deg(s.shear[i]) /\ s.shear[i] \in Int
    BY <1>1, <1>3 DEF SameButSheared, FoldedShear
  <2> QED
    BY <1>2, <2>1, FoldedAngles
<1>5. FoldedShear(f) = f.shear
  <2>1. f.shear = [i \in 1 .. 4 |-> f.shear[i]]
    BY <1>3 DEF SameButSheared, FoldedShear
  <2> QED
    BY <1>4, <2>1 DEF FoldedShear
<1>6. DOMAIN f = SCylinderFields
  BY <1>1, <1>3 DEF SameButSheared
<1>7. SameButSheared(ff, f) /\ \A x \in SCylinderFields : ff[x] = f[x]
  BY <1>5, <1>6, FoldedIs
<1>8. ff = f
  <2>1. ff = [x \in SCylinderFields |-> ff[x]] /\ f = [x \in SCylinderFields |-> f[x]]
    BY <1>1, <1>6 DEF ff, f, folded
  <2> HIDE DEF ff
  <2>2. [x \in SCylinderFields |-> ff[x]] = [x \in SCylinderFields |-> f[x]]
    BY <1>7
  <2> QED
    BY <2>1, <2>2
<1>9. f.kind = "SCylinder"
  BY <1>3 DEF SameButSheared
<1> QED
  BY <1>8, <1>9 DEF is_sscl, f

LEMMA ShearedKey ==
  ASSUME NEW s, IsShape(s), check_valid(s), s.kind = "SCylinder", is_sscl(s)
  PROVE  KeepsItsKey(s)
<1> DEFINE f == folded(s)
<1>1. hash_unit_mesh_params(s) = <<"SSCL", f>> /\ gen_unit_shape(s) = f
  BY ShearedBrep DEF IsBrep
<1>2. folded(f) = f /\ is_sscl(f)
  BY FoldedTwice
<1>3. f.kind = "SCylinder"
  BY <1>2 DEF is_sscl
<1> HIDE DEF f
<1>4. hash_unit_mesh_params(f) = <<"SSCL", folded(f)>>
  BY <1>2, <1>3, ShearedBrep DEF IsBrep
<1> QED
  BY <1>1, <1>2, <1>4 DEF KeepsItsKey

(* The height of a valid dish is one of the profiles times its diameter.    *)
LEMMA DishRatios ==
  ASSUME NEW s, IsShape(s), check_valid(s), s.kind = "Dish"
  PROVE  /\ s.dia \in Int /\ s.hei \in Int /\ s.rad \in Int /\ s.dia > 0 /\ s.hei > 0
         /\ \E q \in {1250, 2500, 5000, 10000} :
              s.hei * One = q * s.dia /\ Ratio(s.hei, s.dia) = q /\ Ratio(2 * s.hei, s.dia) = 2 * q
<1>1. s.dia \in Int /\ s.hei \in Int /\ s.rad \in Int /\ HasProfile(s.dia, s.hei)
  BY DEF IsShape, IsRound, AreInts
<1>2. s.dia > 0 /\ s.hei > 0
  BY DEF check_valid, DishIsValid
<1>3. PICK r \in {2500, 5000, 10000, 20000} : s.dia % 2 = 0 /\ s.hei * One = r * (s.dia \div 2)
  BY <1>1, <1>2 DEF HasProfile
<1>4. PICK q \in {1250, 2500, 5000, 10000} : r = 2 * q
  BY <1>3
<1>5. s.hei * One = q * s.dia
  BY <1>1, <1>3, <1>4 DEF One
<1>6. Ratio(s.hei, s.dia) = q
  BY <1>1, <1>2, <1>4, <1>5, ExactRatios
<1>7. Ratio(2 * s.hei, s.dia) = 2 * q
  <2>1. PICK h \in Int, p \in Int : h = 2 * s.hei /\ p = 2 * q
    BY <1>1, <1>4
  <2>2. h * One = p * s.dia
    BY <1>1, <1>4, <1>5, <2>1 DEF One
  <2>3. Ratio(h, s.dia) = p
    BY <1>1, <1>2, <2>1, <2>2, ExactRatios
  <2> QED
    BY <2>1, <2>3
<1> QED
  BY <1>1, <1>2, <1>4, <1>5, <1>6, <1>7

LEMMA DishUnits ==
  ASSUME NEW s, s.kind = "Dish", NEW seg, seg = segment_counts(s)
  PROVE  /\ hash_unit_mesh_params(s) = <<"dish", Round3(Ratio(2 * s.hei, s.dia)), Round3(Ratio(s.rad, s.dia)), seg>>
         /\ gen_unit_shape(s) = Dish(One, Ratio(s.hei, s.dia), Round3(Ratio(s.rad, s.dia)), seg)
<1>1. BrepOf(s) = DishBrep(s, seg)
  BY DEF BrepOf, Shaped
<1> QED
  BY <1>1 DEF hash_unit_mesh_params, gen_unit_shape, DishBrep, Brep

LEMMA DishKey ==
  ASSUME NEW s, IsShape(s), check_valid(s), s.kind = "Dish"
  PROVE  KeepsItsKey(s)
<1> DEFINE seg == segment_counts(s)
           k == Round3(Ratio(s.rad, s.dia))
<1>1. PICK q \in {1250, 2500, 5000, 10000} : Ratio(s.hei, s.dia) = q /\ Ratio(2 * s.hei, s.dia) = 2 * q
  BY DishRatios
<1>2. k \in Int /\ Round3(k) = k
  <2>1. Ratio(s.rad, s.dia) \in Int
    BY DishRatios, RatiosAreInts
  <2> QED
    BY <2>1, RoundingTwice
<1>3. seg # Uncounted
  BY CountsAreCounts DEF Counted
<1>4. hash_unit_mesh_params(s) = <<"dish", Round3(2 * q), k, seg>> /\ gen_unit_shape(s) = Dish(One, q, k, seg)
  BY <1>1, DishUnits
<1> DEFINE u == Dish(One, q, k, seg)
<1>5. u.kind = "Dish" /\ u.dia = One /\ u.hei = q /\ u.rad = k /\ u.seg = seg
  BY DEF Dish
<1> HIDE DEF seg, k, u
<1>6. segment_counts(u) = seg
  BY <1>3, <1>5, CountsAreCounts
<1>7. hash_unit_mesh_params(u) = <<"dish", Round3(Ratio(2 * q, One)), Round3(Ratio(k, One)), seg>>
  BY <1>5, <1>6, DishUnits
<1>8. Ratio(2 * q, One) = 2 * q /\ Ratio(k, One) = k
  <2>1. 2 * q \in Int
    BY <1>1
  <2> QED
    BY <2>1, <1>2, RatioToOne
<1>9. hash_unit_mesh_params(u) = <<"dish", Round3(2 * q), k, seg>>
  BY <1>2, <1>7, <1>8
<1> QED
  BY <1>4, <1>9 DEF KeepsItsKey, u

LEMMA ValidTori ==
  ASSUME NEW s, IsShape(s), check_valid(s), s.kind \in {"CTorus", "RTorus"}
  PROVE  /\ s.rins \in Int /\ s.rout \in Int /\ s.angle \in Int /\ s.rout > 0 /\ s.rins >= 0 /\ s.rout > s.rins
         /\ s.kind = "RTorus" => s.hei \in Int /\ s.hei > 0
         /\ Ratio(s.rins, s.rout) \in Int
<1>1. s.rins \in Int /\ s.rout \in Int /\ s.angle \in Int /\ (s.kind = "RTorus" => s.hei \in Int)
  BY DEF IsShape, IsRound, AreInts
<1>2. s.rout > 0 /\ s.rins >= 0 /\ s.rout > s.rins /\ (s.kind = "RTorus" => s.hei > 0)
  BY DEF check_valid, CTorusIsValid, RTorusIsValid
<1> QED
  BY <1>1, <1>2, RatiosAreInts

LEMMA CTorusKey ==
  ASSUME NEW s, IsShape(s), check_valid(s), s.kind = "CTorus"
  PROVE  KeepsItsKey(s)
<1> DEFINE seg == segment_counts(s)
           q == Ratio(s.rins, s.rout)
           u == CTorus(q, One, s.angle, seg)
<1>1. q \in Int
  BY ValidTori
<1>2. seg # Uncounted
  BY CountsAreCounts DEF Counted
<1>3. hash_unit_mesh_params(s) = <<"ctorus", Round3(q), s.angle, seg>> /\ gen_unit_shape(s) = u
  BY CTorusIsBrep DEF IsBrep, TorusKey
<1>4. u.kind = "CTorus" /\ u.rins = q /\ u.rout = One /\ u.angle = s.angle /\ u.seg = seg
  BY DEF CTorus
<1> HIDE DEF seg, q, u
<1>5. segment_counts(u) = seg
  BY <1>2, <1>4, CountsAreCounts
<1>6. hash_unit_mesh_params(u) = <<"ctorus", Round3(Ratio(q, One)), s.angle, seg>>
  BY <1>4, <1>5, CTorusIsBrep DEF IsBrep, TorusKey
<1>7. Ratio(q, One) = q
  BY <1>1, RatioToOne
<1> QED
  BY <1>3, <1>6, <1>7 DEF KeepsItsKey

LEMMA RTorusKey ==
  ASSUME NEW s, IsShape(s), check_valid(s), s.kind = "RTorus"
  PROVE  KeepsItsKey(s)
<1> DEFINE seg == segment_counts(s)
           q == Ratio(s.rins, s.rout)
           u == RTorus(q, One, One, s.angle, seg)
<1>1. q \in Int
  BY ValidTori
<1>2. seg # Uncounted
  BY CountsAreCounts DEF Counted
<1>3. hash_unit_mesh_params(s) = <<"rtorus", Round3(q), s.angle, seg>> /\ gen_unit_shape(s) = u
  BY RTorusIsBrep DEF IsBrep, TorusKey
<1>4. u.kind = "RTorus" /\ u.rins = q /\ u.rout = One /\ u.angle = s.angle /\ u.seg = seg
  BY DEF RTorus
<1> HIDE DEF seg, q, u
<1>5. segment_counts(u) = seg
  BY <1>2, <1>4, CountsAreCounts
<1>6. hash_unit_mesh_params(u) = <<"rtorus", Round3(Ratio(q, One)), s.angle, seg>>
  BY <1>4, <1>5, RTorusIsBrep DEF IsBrep, TorusKey
<1>7. Ratio(q, One) = q
  BY <1>1, RatioToOne
<1> QED
  BY <1>3, <1>6, <1>7 DEF KeepsItsKey

RatioOf(dbtm, dtop) == IF dbtm # 0 THEN Round3(Ratio(dtop, dbtm)) ELSE 0

StraightKey(ratio, seg) == <<"snout", ratio, TRUE, seg>>

LEMMA SnoutKeyIs ==
  ASSUME NEW s, s.kind = "LSnout", ~is_eccentric(s), s.top > s.btm, NEW seg, seg = segment_counts(s)
  PROVE  /\ hash_unit_mesh_params(s) = StraightKey(RatioOf(s.dbtm, s.dtop), seg)
         /\ gen_unit_shape(s) = SnoutUnit(s, seg)
<1>1. BrepOf(s) = LSnoutBrep(s, seg)
  BY DEF BrepOf, Shaped
<1>2. (s.top > s.btm) = TRUE
  OBVIOUS
<1>3. /\ hash_unit_mesh_params(s) = <<"snout", RatioOf(s.dbtm, s.dtop), s.top > s.btm, seg>>
      /\ gen_unit_shape(s) = SnoutUnit(s, seg)
  BY <1>1 DEF hash_unit_mesh_params, gen_unit_shape, LSnoutBrep, Brep, RatioOf
<1> QED
  BY <1>2, <1>3 DEF StraightKey

(* The unit of a snout: a cone on its point, or a bottom of one and a top.  *)
LEMMA SnoutUnits ==
  ASSUME NEW dbtm \in Int, NEW dtop \in Int, NEW seg, seg # Uncounted, NEW u, u = UnitSnout(dbtm, dtop, seg)
  PROVE  /\ hash_unit_mesh_params(u) = StraightKey(RatioOf(dbtm, dtop), seg)
         /\ u.kind = "LSnout" /\ u.btm = -5000 /\ u.top = 5000 /\ u.dbtm = dbtm /\ u.dtop = dtop
         /\ u.off = 0 /\ segment_counts(u) = seg
<1>1. /\ u.kind = "LSnout" /\ u.btm = -5000 /\ u.top = 5000 /\ u.dbtm = dbtm /\ u.dtop = dtop
      /\ u.off = 0 /\ u.seg = seg
  BY DEF UnitSnout, LSnout, One
<1>2. segment_counts(u) = seg
  BY <1>1, CountsAreCounts
<1>3. ~is_eccentric(u)
  BY <1>1 DEF is_eccentric
<1>4. u.top > u.btm
  BY <1>1
<1>5. hash_unit_mesh_params(u) = StraightKey(RatioOf(u.dbtm, u.dtop), seg)
  BY <1>1, <1>2, <1>3, <1>4, SnoutKeyIs
<1> QED
  BY <1>1, <1>2, <1>5

LEMMA ValidSnouts ==
  ASSUME NEW s, IsShape(s), check_valid(s), s.kind = "LSnout"
  PROVE  /\ s.top \in Int /\ s.btm = -s.top /\ s.top > s.btm /\ s.off \in Int
         /\ s.dbtm \in Nat /\ s.dtop \in Nat /\ s.dtop + s.dbtm > 0
         /\ s.dbtm # 0 => Ratio(s.dtop, s.dbtm) \in Int
<1>1. s.top \in Int /\ s.btm = -s.top /\ s.dbtm \in Int /\ s.dtop \in Int /\ s.off \in Int
  BY DEF IsShape, IsRound, AreInts
<1>2. s.dtop >= 0 /\ s.dbtm >= 0 /\ s.dtop + s.dbtm > 0 /\ s.top > s.btm
  BY DEF check_valid, LSnoutIsValid
<1>3. s.dbtm # 0 => s.dbtm > 0
  BY <1>1, <1>2
<1> QED
  BY <1>1, <1>2, <1>3, RatiosAreInts

(* The key of a straight snout, and the ends its unit has.                  *)
UnitEnds(s) ==
  IF s.dtop = 0 THEN <<One, 0>>
  ELSE IF s.dbtm = 0 THEN <<0, One>>
  ELSE <<One, Round3(Ratio(s.dtop, s.dbtm))>>
SnoutRatio(s) == RatioOf(s.dbtm, s.dtop)

LEMMA StraightSnouts ==
  ASSUME NEW s, IsShape(s), check_valid(s), s.kind = "LSnout", ~is_eccentric(s), NEW seg, seg = segment_counts(s)
  PROVE  LET w == UnitEnds(s) IN
         /\ hash_unit_mesh_params(s) = StraightKey(SnoutRatio(s), seg)
         /\ gen_unit_shape(s) = UnitSnout(w[1], w[2], seg)
         /\ w[1] \in Int /\ w[2] \in Int
         /\ RatioOf(w[1], w[2]) = SnoutRatio(s)
<1> DEFINE w == UnitEnds(s)
           d == IF s.dbtm = 0 THEN s.dtop ELSE s.dbtm
<1>1. s.top > s.btm
  BY ValidSnouts
<1>2. hash_unit_mesh_params(s) = StraightKey(RatioOf(s.dbtm, s.dtop), seg) /\ gen_unit_shape(s) = SnoutUnit(s, seg)
  BY <1>1, SnoutKeyIs
<1>3. hash_unit_mesh_params(s) = StraightKey(SnoutRatio(s), seg)
  BY <1>2 DEF SnoutRatio
<1>4. gen_unit_shape(s) = UnitSnout(w[1], w[2], seg)
  BY <1>2 DEF SnoutUnit, UnitEnds
<1>5. s.dbtm \in Nat /\ s.dtop \in Nat /\ s.dtop + s.dbtm > 0
  BY ValidSnouts
<1>6. CASE s.dtop = 0
  <2>1. w[1] = One /\ w[2] = 0
    BY <1>6 DEF UnitEnds
  <2>2. s.dbtm # 0 /\ s.dbtm > 0
    BY <1>5, <1>6
  <2>3. PICK n \in Int : n = 0
    OBVIOUS
  <2>4. Ratio(n, s.dbtm) = n /\ Ratio(n, One) = n
    <3>1. n * One = n * s.dbtm
      BY <1>5, <2>3 DEF One
    <3> QED
      BY <1>5, <2>2, <2>3, <3>1, ExactRatios, RatioToOne
  <2>5. SnoutRatio(s) = Round3(n) /\ RatioOf(w[1], w[2]) = Round3(n)
    BY <1>6, <2>1, <2>2, <2>3, <2>4 DEF SnoutRatio, RatioOf, One
  <2>6. w[1] \in Int /\ w[2] \in Int
    BY <2>1 DEF One
  <2> QED
    BY <1>3, <1>4, <2>5, <2>6
<1>7. CASE s.dtop # 0 /\ s.dbtm = 0
  <2>1. w[1] = 0 /\ w[2] = One
    BY <1>7 DEF UnitEnds
  <2>2. SnoutRatio(s) = 0 /\ RatioOf(w[1], w[2]) = 0 /\ w[1] \in Int /\ w[2] \in Int
    BY <1>7, <2>1 DEF SnoutRatio, RatioOf, One
  <2> QED
    BY <1>3, <1>4, <2>1, <2>2
<1>8. CASE s.dtop # 0 /\ s.dbtm # 0
  <2> DEFINE r == Round3(Ratio(s.dtop, s.dbtm))
  <2>1. w[1] = One /\ w[2] = r
    BY <1>8 DEF UnitEnds
  <2>2. r \in Int /\ Round3(r) = r
    BY <1>8, ValidSnouts, RoundingTwice
  <2>3. SnoutRatio(s) = r
    BY <1>8 DEF SnoutRatio, RatioOf
  <2> HIDE DEF r, w
  <2>4. RatioOf(w[1], w[2]) = r
    BY <2>1, <2>2, RatioToOne DEF RatioOf, One
  <2>5. w[1] # 0 /\ w[1] \in Int /\ w[2] \in Int
    BY <2>1, <2>2 DEF One
  <2> QED
    BY <1>3, <1>4, <2>3, <2>4, <2>5 DEF w
<1> QED
  BY <1>6, <1>7, <1>8

LEMMA SnoutKey ==
  ASSUME NEW s, IsShape(s), check_valid(s), s.kind = "LSnout"
  PROVE  KeepsItsKey(s)
<1>1. CASE is_eccentric(s)
  <2>1. gen_unit_shape(s) = s
    BY <1>1, SnoutIsBrep DEF EccentricIsBrepOf, IsBrep
  <2> QED
    BY <2>1 DEF KeepsItsKey
<1>2. CASE ~is_eccentric(s)
  <2> DEFINE seg == segment_counts(s)
             w == UnitEnds(s)
             u == UnitSnout(w[1], w[2], seg)
  <2>1. /\ hash_unit_mesh_params(s) = StraightKey(SnoutRatio(s), seg) /\ gen_unit_shape(s) = u
        /\ w[1] \in Int /\ w[2] \in Int
        /\ RatioOf(w[1], w[2]) = SnoutRatio(s)
    BY <1>2, StraightSnouts
  <2>2. seg # Uncounted
    BY CountsAreCounts DEF Counted
  <2>3. hash_unit_mesh_params(u) = StraightKey(RatioOf(w[1], w[2]), seg)
    <3> HIDE DEF w, seg
    <3>1. u = UnitSnout(w[1], w[2], seg)
      OBVIOUS
    <3> HIDE DEF u
    <3> QED
      BY <2>1, <2>2, <3>1, SnoutUnits
  <2> QED
    BY <2>1, <2>3 DEF KeepsItsKey
<1> QED
  BY <1>1, <1>2

LEMMA PlainKeys ==
  ASSUME NEW s, IsShape(s), s.kind \in {"Sphere", "SBox", "Extrusion", "Revolution", "Pyramid", "LPyramid", "SweepSolid"}
  PROVE  KeepsItsKey(s)
<1>1. CASE s.kind = "Sphere"
  <2> DEFINE seg == segment_counts(s)
             u == SphereUnit(seg)
  <2>1. hash_unit_mesh_params(s) = <<"sphere", seg>> /\ gen_unit_shape(s) = u
    BY <1>1, SphereIsBrep DEF IsBrep
  <2>2. seg # Uncounted
    BY <1>1, CountsAreCounts DEF Counted
  <2>3. u.kind = "Sphere" /\ u.seg = seg
    BY DEF SphereUnit, Sphere
  <2> HIDE DEF seg, u
  <2>4. segment_counts(u) = seg
    BY <2>2, <2>3, CountsAreCounts
  <2>5. hash_unit_mesh_params(u) = <<"sphere", seg>>
    BY <2>3, <2>4, SphereIsBrep DEF IsBrep
  <2> QED
    BY <2>1, <2>5 DEF KeepsItsKey
<1>2. CASE s.kind = "SBox"
  <2>1. hash_unit_mesh_params(s) = BOX_GEO_HASH /\ gen_unit_shape(s) = SBox(Same)
    BY <1>2, BoxIsBrep DEF IsBrep
  <2>2. SBox(Same).kind = "SBox"
    BY DEF SBox
  <2>3. hash_unit_mesh_params(SBox(Same)) = BOX_GEO_HASH
    BY <2>2, BoxIsBrep DEF IsBrep
  <2> QED
    BY <2>1, <2>3 DEF KeepsItsKey
<1>3. CASE s.kind = "Extrusion"
  <2> DEFINE u == Extrusion(s.outline, 10000, s.curve)
  <2>1. hash_unit_mesh_params(s) = <<"Extrusion", s.outline>> /\ gen_unit_shape(s) = u
    BY <1>3, ExtrusionIsBrep DEF IsBrep
  <2>2. u.kind = "Extrusion" /\ u.outline = s.outline
    BY DEF Extrusion
  <2> HIDE DEF u
  <2>3. hash_unit_mesh_params(u) = <<"Extrusion", s.outline>>
    BY <2>2, ExtrusionIsBrep DEF IsBrep
  <2> QED
    BY <2>1, <2>3 DEF KeepsItsKey
<1>4. CASE s.kind = "Revolution"
  <2>1. gen_unit_shape(s) = s
    BY <1>4, RevolutionIsBrep DEF IsBrep
  <2> QED
    BY <2>1 DEF KeepsItsKey
<1>5. CASE s.kind \in {"Pyramid", "LPyramid"}
  <2>1. gen_unit_shape(s) = s
    BY <1>5, OwnIsBrep DEF IsBrep
  <2> QED
    BY <2>1 DEF KeepsItsKey
<1>6. CASE s.kind = "SweepSolid" /\ is_reuse_unit(s)
  <2> DEFINE u == UnitSweep(s)
  <2>1. hash_unit_mesh_params(s) = <<"loft", s.profile>> /\ gen_unit_shape(s) = u
    BY <1>6, SweepIsBrep DEF IsBrep
  <2>2. u.kind = "SweepSolid" /\ u.profile = s.profile /\ u.ends = <<"none", "none">> /\ u.path = UnitPath
    BY DEF UnitSweep, SweepSolid
  <2> HIDE DEF u
  <2>3. is_reuse_unit(u)
    BY <2>2 DEF is_reuse_unit, is_sloped, set_mitre_planes, UnitPath
  <2>4. hash_unit_mesh_params(u) = <<"loft", s.profile>>
    BY <2>2, <2>3, SweepIsBrep DEF IsBrep
  <2> QED
    BY <2>1, <2>4 DEF KeepsItsKey
<1>7. CASE s.kind = "SweepSolid" /\ ~is_reuse_unit(s)
  <2>1. gen_unit_shape(s) = s
    BY <1>7, SweepIsBrep DEF IsBrep
  <2> QED
    BY <2>1 DEF KeepsItsKey
<1> QED
  BY <1>1, <1>2, <1>3, <1>4, <1>5, <1>6, <1>7

(* The unit of every shape that is collected has the key of the shape.      *)
LEMMA ShapesKeepTheirKey ==
  ASSUME NEW s, IsShape(s), check_valid(s)
  PROVE  KeepsItsKey(s)
<1>1. CASE s.kind = "SCylinder" /\ is_sscl(s)
  BY <1>1, ShearedKey
<1>2. CASE s.kind = "SCylinder" /\ ~is_sscl(s)
  BY <1>2, CylinderKey
<1>3. CASE s.kind = "LCylinder"
  BY <1>3, CylinderKey
<1> QED
  BY <1>1, <1>2, <1>3, DishKey, CTorusKey, RTorusKey, SnoutKey, PlainKeys DEF IsShape, ShapeKinds

(* What an instance other than the shared tube is.                          *)
IsInstance(g) ==
  /\ IsShape(g.geo_param) /\ check_valid(g.geo_param)
  /\ g.geo_hash = hash_unit_mesh_params(g.geo_param) /\ g.trans = get_trans(g.geo_param)

LEMMA InstancesAre ==
  ASSUME NEW g \in Instances
  PROVE  g.geo_hash = TUBI_GEO_HASH \/ IsInstance(g)
<1>1. CASE g = BasicInst(TUBI_GEO_HASH, SCylinder(100, 100, <<0, 0, 0, 0>>, FALSE))
  BY <1>1 DEF BasicInst
<1>2. CASE g = BasicInst(BOXI_GEO_HASH, SBox(Same))
  <2>1. g.geo_hash = BOX_GEO_HASH /\ g.geo_param = SBox(Same) /\ g.trans = get_trans(SBox(Same))
    BY <1>2 DEF BasicInst, BOXI_GEO_HASH
  <2>2. Same \in [1 .. 3 -> Int] /\ \A i \in 1 .. 3 : Same[i] > 0
    BY DEF Same, One
  <2>3. IsShape(SBox(Same))
    BY <2>2, BoxesAreShapes
  <2>4. SBox(Same).kind = "SBox" /\ SBox(Same).size = Same
    BY DEF SBox
  <2>5. hash_unit_mesh_params(SBox(Same)) = BOX_GEO_HASH
    BY <2>4, BoxIsBrep DEF IsBrep
  <2>6. check_valid(SBox(Same))
    <3> DEFINE b == SBox(Same)
    <3>1. b.kind = "SBox" /\ \A i \in 1 .. 3 : b.size[i] > 0
      BY <2>2, <2>4
    <3> HIDE DEF b
    <3>2. check_valid(b)
      BY <3>1 DEF check_valid
    <3> QED
      BY <3>2 DEF b
  <2> QED
    BY <2>1, <2>3, <2>5, <2>6 DEF IsInstance
<1>3. CASE \E e \in Elements : Drawable(e) /\ g = Insts(e)[1]
  <2>1. PICK e \in Elements : Drawable(e) /\ g = Insts(e)[1]
    BY <1>3
  <2>2. IsElement(e)
    BY ScenesAssumption DEF Elements
  <2> DEFINE p == ShapesOf(e)[1]
  <2>3. Insts(e) = <<Inst(p)>> /\ IsShape(p.shape) /\ check_valid(p.shape)
    BY <2>1, <2>2, DrawablesAreShapes
  <2> HIDE DEF p
  <2>4. g = Inst(p)
    BY <2>1, <2>3
  <2>5. g.geo_param = p.shape /\ g.geo_hash = hash_unit_mesh_params(p.shape) /\ g.trans = get_trans(p.shape)
    BY <2>4 DEF Inst, Instance, hash_unit_mesh_params, get_trans
  <2> QED
    BY <2>3, <2>5 DEF IsInstance
<1> QED
  BY <1>1, <1>2, <1>3 DEF Instances, Basics

LEMMA GeometriesAreInstances ==
  ASSUME NEW d, IsBatch(d), NEW g \in Geometries(d)
  PROVE  g.geo_hash = TUBI_GEO_HASH \/ IsInstance(g)
<1>1. PICK k, i : k \in DOMAIN d.geos /\ i \in DOMAIN d.geos[k] /\ g = d.geos[k][i]
  BY InGeometries
<1>2. d.geos[k] \in Seq(Instances)
  BY <1>1 DEF IsBatch
<1>3. g \in Instances
  BY <1>1, <1>2, ElementOfSeq, LenProperties
<1> QED
  BY <1>3, InstancesAre

(* Every row but the shared tube's is drawn from an instance of the whole    *)
(* and has that instance's key: keys and unit shapes of BrepShapeTrait.     *)
LEMMA RowsAreUnits ==
  ASSUME MeshInv, NEW row \in rows, row.id # TUBI_GEO_HASH
  PROVE  \E g \in Geometries(total) :
           IsInstance(g) /\ row.id = g.geo_hash /\ row.param = gen_unit_shape(g.geo_param)
<1>1. PICK g \in Geometries(total) : row = gen_unit_geo_sur_json(g)
  BY DEF MeshInv, RowsInv
<1>2. row.id = g.geo_hash /\ row.param = gen_unit_shape(g.geo_param)
  BY <1>1 DEF gen_unit_geo_sur_json
<1> QED
  BY <1>1, <1>2, GeometriesAreInstances DEF MeshInv

(* A row read back has the key it is stored under, whatever the size of the *)
(* shapes that are drawn from it (gen_unit_shape and hash_unit_mesh_params  *)
(* of every primitive).                                                     *)
THEOREM UnitRowsKeepTheirKey == UnitSpec => []UnitsKeepTheirKey
<1>1. MeshInv => UnitsKeepTheirKey
  <2> SUFFICES ASSUME MeshInv, NEW row \in rows, row.id # TUBI_GEO_HASH
               PROVE  hash_unit_mesh_params(row.param) = row.id
    BY DEF UnitsKeepTheirKey
  <2>1. PICK g \in Geometries(total) : IsInstance(g) /\ row.id = g.geo_hash /\ row.param = gen_unit_shape(g.geo_param)
    BY RowsAreUnits
  <2>2. KeepsItsKey(g.geo_param)
    BY <2>1, ShapesKeepTheirKey DEF IsInstance
  <2> QED
    BY <2>1, <2>2 DEF KeepsItsKey, IsInstance
<1> QED
  BY <1>1, MeshInvHolds, PTL

-----------------------------------------------------------------------------
(* Solids drawn from the rows                                               *)

(* The first member of a key tells the kinds apart.                         *)
TagOf(s) == hash_unit_mesh_params(s)[1]
LEMMA Tags ==
  ASSUME NEW s
  PROVE  /\ s.kind = "LCylinder" => TagOf(s) = "cylinder"
         /\ s.kind = "SCylinder" => TagOf(s) = IF is_sscl(s) THEN "SSCL" ELSE "cylinder"
         /\ s.kind = "Dish" => TagOf(s) = "dish"
         /\ s.kind = "CTorus" => TagOf(s) = "ctorus"
         /\ s.kind = "RTorus" => TagOf(s) = "rtorus"
         /\ s.kind = "LSnout" => TagOf(s) = IF is_eccentric(s) THEN "eccentric" ELSE "snout"
         /\ s.kind = "Sphere" => TagOf(s) = "sphere"
         /\ s.kind = "SBox" => TagOf(s) = "1"
         /\ s.kind = "Extrusion" => TagOf(s) = "Extrusion"
         /\ s.kind = "Revolution" => TagOf(s) = "Revolution"
         /\ s.kind = "Pyramid" => TagOf(s) = "Pyramid"
         /\ s.kind = "LPyramid" => TagOf(s) = "LPyramid"
         /\ s.kind = "SweepSolid" => TagOf(s) = IF is_reuse_unit(s) THEN "loft" ELSE "own_loft"
<1> DEFINE seg == segment_counts(s)
<1> USE DEF TagOf, hash_unit_mesh_params, Brep
<1>1. s.kind = "LCylinder" => BrepOf(s) = LCylinderBrep(s, seg)
  BY DEF BrepOf, Shaped
<1>2. s.kind = "SCylinder" => BrepOf(s) = SCylinderBrep(s, seg)
  BY DEF BrepOf, Shaped
<1>3. s.kind = "Dish" => BrepOf(s) = DishBrep(s, seg)
  BY DEF BrepOf, Shaped
<1>4. s.kind = "CTorus" => BrepOf(s) = CTorusBrep(s, seg)
  BY DEF BrepOf, Shaped
<1>5. s.kind = "RTorus" => BrepOf(s) = RTorusBrep(s, seg)
  BY DEF BrepOf, Shaped
<1>6. s.kind = "LSnout" => BrepOf(s) = LSnoutBrep(s, seg)
  BY DEF BrepOf, Shaped
<1>7. s.kind = "SweepSolid" => BrepOf(s) = SweepSolidBrep(s)
  BY DEF BrepOf, Shaped
<1>8. s.kind = "Sphere" => BrepOf(s) = SphereBrep(s, seg)
  BY DEF BrepOf, Shaped
<1>9. s.kind = "SBox" => BrepOf(s) = SBoxBrep(s)
  BY DEF BrepOf, Shaped
<1>10. s.kind = "Extrusion" => BrepOf(s) = ExtrusionBrep(s)
  BY DEF BrepOf, Shaped
<1>11. s.kind = "Revolution" => BrepOf(s) = RevolutionBrep(s)
  BY DEF BrepOf, Shaped
<1>12. s.kind \in {"Pyramid", "LPyramid"} => BrepOf(s) = OwnBrep(s)
  BY DEF BrepOf, Shaped
<1> HIDE DEF seg
<1>13. s.kind = "LCylinder" => TagOf(s) = "cylinder"
  BY <1>1 DEF LCylinderBrep
<1>14. s.kind = "SCylinder" => TagOf(s) = IF is_sscl(s) THEN "SSCL" ELSE "cylinder"
  BY <1>2 DEF SCylinderBrep
<1>15. s.kind = "Dish" => TagOf(s) = "dish"
  BY <1>3 DEF DishBrep
<1>16. s.kind = "CTorus" => TagOf(s) = "ctorus"
  BY <1>4 DEF CTorusBrep, TorusKey
<1>17. s.kind = "RTorus" => TagOf(s) = "rtorus"
  BY <1>5 DEF RTorusBrep, TorusKey
<1>18. s.kind = "LSnout" => TagOf(s) = IF is_eccentric(s) THEN "eccentric" ELSE "snout"
  BY <1>6 DEF LSnoutBrep
<1>19. s.kind = "SweepSolid" => TagOf(s) = IF is_reuse_unit(s) THEN "loft" ELSE "own_loft"
  BY <1>7 DEF SweepSolidBrep
<1>20. s.kind = "Sphere" => TagOf(s) = "sphere"
  BY <1>8 DEF SphereBrep
<1>21. s.kind = "SBox" => TagOf(s) = "1"
  BY <1>9 DEF SBoxBrep, BOX_GEO_HASH
<1>22. s.kind = "Extrusion" => TagOf(s) = "Extrusion"
  BY <1>10 DEF ExtrusionBrep
<1>23. s.kind = "Revolution" => TagOf(s) = "Revolution"
  BY <1>11 DEF RevolutionBrep
<1>24. s.kind = "Pyramid" => TagOf(s) = "Pyramid"
  BY <1>12 DEF OwnBrep
<1>25. s.kind = "LPyramid" => TagOf(s) = "LPyramid"
  BY <1>12 DEF OwnBrep
<1> QED
  BY <1>13, <1>14, <1>15, <1>16, <1>17, <1>18, <1>19, <1>20, <1>21, <1>22, <1>23, <1>24, <1>25

(* Scaling a length of the unit: exact for the whole and for nothing, and    *)
(* within a thousandth for a ratio that the key rounds alike.               *)
LEMMA ScaledWhole ==
  ASSUME NEW n \in Int
  PROVE  Scaled(One, n) = n /\ Scaled(n, One) = n /\ Scaled(0, n) = 0 /\ Scaled(5000, n) = n \div 2
BY DEF Scaled, One

LEMMA NearWhenOneOff ==
  ASSUME NEW a \in Int, NEW b \in Int, a <= b + 1, b <= a + 1, NEW size \in Int, size >= 0
  PROVE  Near(a, b, size)
BY DEF Near, Abs

LEMMA NearRatios ==
  ASSUME NEW n \in Int, NEW d \in Int, d > 0, NEW size \in Int, size >= d,
         NEW q \in Int, NEW diff \in -9 .. 9, q = Ratio(n, d) + diff
  PROVE  Near(Scaled(q, d), n, size)
<1> DEFINE x == Ratio(n, d)
           a == x * d
           b == q * d
           m == n * One
<1>1. x \in Int /\ a \in Int /\ b \in Int
  BY RatiosAreInts
<1>2. a <= n * 10000 /\ n * 10000 < a + d
  <2>1. x = (n * One) \div d
    BY DEF Ratio
  <2>2. m \in Int /\ m = n * 10000 /\ x = m \div d
    BY <2>1 DEF One
  <2> HIDE DEF m
  <2>3. d * (m \div d) <= m /\ m < d * (m \div d) + d
    BY <2>2
  <2> HIDE DEF x
  <2>4. a = d * x
    BY <1>1
  <2> QED
    BY <2>2, <2>3, <2>4 DEF a
<1>3. b = a + diff * d
  <2> HIDE DEF x
  <2>1. q = x + diff
    BY DEF x
  <2> QED
    BY <1>1, <2>1
<1>4. b - a <= 9 * d /\ a - b <= 9 * d
  <2> HIDE DEF a, b, x
  <2>1. diff * d <= 9 * d /\ -(9 * d) <= diff * d
    OBVIOUS
  <2> QED
    BY <1>1, <1>3, <2>1
<1>5. Scaled(q, d) = b \div 10000
  BY DEF Scaled, One
<1> HIDE DEF a, b, x
<1>6. Near(b \div 10000, n, size)
  BY <1>1, <1>2, <1>4 DEF Near, Abs
<1> QED
  BY <1>5, <1>6

LEMMA SameRound3 ==
  ASSUME NEW x \in Int, NEW y \in Int, Round3(x) = Round3(y)
  PROVE  x - y \in -9 .. 9
BY DEF Round3

(* When a stretched solid is alike to another: with two ends or none, and    *)
(* two lengths or none.                                                     *)
IsTrans(t, scale, shift, turn) == t.scale = scale /\ t.shift = shift /\ t.turn = turn
StretchedEnds(ends, t) == [i \in DOMAIN ends |-> StretchedEnd(ends[i], t)]
StretchedLengths(lengths, t) == [i \in DOMAIN lengths |-> StretchedLength(lengths[i], t)]
EndsAreNear(u, d, t, size) ==
  /\ Len(StretchedEnds(u, t)) = Len(d)
  /\ \A i \in DOMAIN u : NearEnd(StretchedEnd(u[i], t), d[i], size)
LengthsAreNear(u, d, t, size) ==
  /\ Len(StretchedLengths(u, t)) = Len(d)
  /\ \A i \in DOMAIN u : Near(Scaled(u[i][2], t.scale[u[i][1]]), d[i][2], size)

LEMMA NoneAreNear ==
  ASSUME NEW t, NEW size
  PROVE  EndsAreNear(<<>>, <<>>, t, size) /\ LengthsAreNear(<<>>, <<>>, t, size)
<1>1. StretchedEnds(<<>>, t) = <<>> /\ StretchedLengths(<<>>, t) = <<>>
  BY DEF StretchedEnds, StretchedLengths
<1> QED
  BY <1>1 DEF EndsAreNear, LengthsAreNear

LEMMA TwoEndsAreNear ==
  ASSUME NEW a, NEW b, NEW c, NEW d, NEW t, NEW size,
         NearEnd(StretchedEnd(a, t), c, size), NearEnd(StretchedEnd(b, t), d, size)
  PROVE  EndsAreNear(<<a, b>>, <<c, d>>, t, size)
<1>1. StretchedEnds(<<a, b>>, t) = <<StretchedEnd(a, t), StretchedEnd(b, t)>>
  BY DEF StretchedEnds
<1>2. Len(StretchedEnds(<<a, b>>, t)) = 2
  BY <1>1
<1> QED
  BY <1>2 DEF EndsAreNear

LEMMA TwoLengthsAreNear ==
  ASSUME NEW i, NEW m, NEW n, NEW j, NEW k, NEW l, NEW t, NEW size,
         Near(Scaled(m, t.scale[i]), n, size), Near(Scaled(k, t.scale[j]), l, size)
  PROVE  LengthsAreNear(<< <<i, m>>, <<j, k>> >>, << <<i, n>>, <<j, l>> >>, t, size)
<1> DEFINE u == << <<i, m>>, <<j, k>> >>
<1>1. StretchedLengths(u, t) = <<StretchedLength(u[1], t), StretchedLength(u[2], t)>>
  BY DEF StretchedLengths
<1>2. Len(StretchedLengths(u, t)) = 2
  BY <1>1
<1> QED
  BY <1>2 DEF LengthsAreNear

LEMMA AlikeWhenNear ==
  ASSUME NEW u, NEW d, NEW t, NEW size,
         u.form = d.form, u.fixed = d.fixed, d.turn = IF u.turn = Upright THEN t.turn ELSE u.turn,
         EndsAreNear(u.ends, d.ends, t, size), LengthsAreNear(u.lengths, d.lengths, t, size)
  PROVE  Alike(Stretched(u, t), d, size)
<1> DEFINE r == Stretched(u, t)
<1>1. /\ r.form = u.form /\ r.fixed = u.fixed /\ r.turn = (IF u.turn = Upright THEN t.turn ELSE u.turn)
      /\ r.ends = StretchedEnds(u.ends, t) /\ r.lengths = StretchedLengths(u.lengths, t)
  BY DEF Stretched, StretchedEnds, StretchedLengths
<1> HIDE DEF r
<1>2. /\ DOMAIN r.ends = DOMAIN u.ends /\ \A i \in DOMAIN u.ends : r.ends[i] = StretchedEnd(u.ends[i], t)
      /\ DOMAIN r.lengths = DOMAIN u.lengths
      /\ \A i \in DOMAIN u.lengths : r.lengths[i] = StretchedLength(u.lengths[i], t)
  BY <1>1 DEF StretchedEnds, StretchedLengths
<1>3. \A i \in DOMAIN u.lengths : r.lengths[i][2] = Scaled(u.lengths[i][2], t.scale[u.lengths[i][1]])
  BY <1>2 DEF StretchedLength
<1>4. Len(r.ends) = Len(d.ends) /\ \A i \in DOMAIN r.ends : NearEnd(r.ends[i], d.ends[i], size)
  BY <1>1, <1>2 DEF EndsAreNear
<1>5. Len(r.lengths) = Len(d.lengths) /\ \A i \in DOMAIN r.lengths : Near(r.lengths[i][2], d.lengths[i][2], size)
  BY <1>1, <1>2, <1>3 DEF LengthsAreNear
<1>6. Alike(r, d, size)
  BY <1>1, <1>4, <1>5 DEF Alike
<1> QED
  BY <1>6 DEF r

(* An end without an offset of its own.                                     *)
LEMMA PlainEndIsNear ==
  ASSUME NEW z \in Int, NEW dia \in Int, NEW zz \in Int, NEW ddia \in Int, NEW t, NEW size \in Int, size >= 0,
         t.shift \in Int, t.scale[1] \in Int, t.scale[3] \in Int,
         Near(Scaled(z, t.scale[3]) + t.shift, zz, size), Near(Scaled(dia, t.scale[1]), ddia, size)
  PROVE  NearEnd(StretchedEnd(End(z, dia, 0), t), End(zz, ddia, 0), size)
<1>1. Scaled(0, t.scale[1]) = 0
  BY ScaledWhole
<1>2. Near(0, 0, size)
  BY NearWhenOneOff
<1> QED
  BY <1>1, <1>2 DEF NearEnd, StretchedEnd, End

(* What solid it is, field by field.                                        *)
IsSolid(x, form, ends, lengths, fixed, turn) ==
  x.form = form /\ x.ends = ends /\ x.lengths = lengths /\ x.fixed = fixed /\ x.turn = turn
Reproduced(s, o) == Alike(DrawnFrom(gen_unit_shape(o), get_trans(s)), Described(s), Size(get_trans(s)))

LEMMA ReproducedWhenNear ==
  ASSUME NEW s, NEW o, NEW form, NEW fixed, NEW ue, NEW ul, NEW de, NEW dl, NEW turn,
         IsSolid(Described(gen_unit_shape(o)), form, ue, ul, fixed, Upright),
         IsSolid(Described(s), form, de, dl, fixed, turn), get_trans(s).turn = turn,
         EndsAreNear(ue, de, get_trans(s), Size(get_trans(s))),
         LengthsAreNear(ul, dl, get_trans(s), Size(get_trans(s)))
  PROVE  Reproduced(s, o)
<1> DEFINE u == Described(gen_unit_shape(o))
           d == Described(s)
           t == get_trans(s)
<1>1. u.form = d.form /\ u.fixed = d.fixed /\ u.ends = ue /\ u.lengths = ul /\ d.ends = de /\ d.lengths = dl
      /\ u.turn = Upright /\ d.turn = t.turn
  BY DEF IsSolid
<1> HIDE DEF u, d, t
<1>2. EndsAreNear(u.ends, d.ends, t, Size(t)) /\ LengthsAreNear(u.lengths, d.lengths, t, Size(t))
  BY <1>1 DEF t
<1>3. d.turn = IF u.turn = Upright THEN t.turn ELSE u.turn
  BY <1>1
<1>4. Alike(Stretched(u, t), d, Size(t))
  BY <1>1, <1>2, <1>3, AlikeWhenNear
<1> QED
  BY <1>4 DEF Reproduced, DrawnFrom, u, d, t

(* A cylinder: the shift of one that is centred is half its height, rounded. *)
LEMMA CylindersReproduced ==
  ASSUME NEW s, IsShape(s), check_valid(s), s.kind = "LCylinder" \/ (s.kind = "SCylinder" /\ ~is_sscl(s)),
         ~NotTurned(s), NEW o, gen_unit_shape(o) = UnitCylinder(segment_counts(s))
  PROVE  Reproduced(s, o)
<1> DEFINE seg == segment_counts(s)
           u == UnitCylinder(seg)
           t == get_trans(s)
           h == IF s.kind = "LCylinder" THEN Abs(s.top - s.btm) ELSE s.hei
           mid == s.kind = "SCylinder" /\ s.mid
           shift == IF mid THEN -(s.hei \div 2) ELSE 0
           low == IF mid THEN -(h \div 2) ELSE 0
           high == IF mid THEN h \div 2 ELSE h
<1>1. s.dia \in Int /\ s.dia > 0 /\ h \in Int /\ h > 0
  <2>1. CASE s.kind = "LCylinder"
    BY <2>1 DEF IsShape, IsCylinder, AreInts, check_valid, LCylinderIsValid, Abs
  <2>2. CASE s.kind = "SCylinder"
    BY <2>2 DEF IsShape, IsCylinder, AreInts, check_valid, SCylinderIsValid, NotTurned
  <2> QED
    BY <2>1, <2>2
<1>2. t.scale = <<s.dia, s.dia, h>> /\ t.shift = shift /\ t.turn = Upright
  <2>1. CASE s.kind = "LCylinder"
    <3>1. t.scale = <<s.dia, s.dia, Abs(s.btm - s.top)>> /\ t.shift = 0 /\ t.turn = Upright
      BY <2>1, CylinderBrep DEF IsBrep
    <3>2. Abs(s.btm - s.top) = Abs(s.top - s.btm)
      BY <2>1 DEF IsShape, IsCylinder, AreInts, Abs
    <3> QED
      BY <2>1, <3>1, <3>2
  <2>2. CASE s.kind = "SCylinder"
    <3>1. t.scale = <<s.dia, s.dia, Abs(s.hei)>> /\ t.shift = shift /\ t.turn = Upright
      BY <2>2, CylinderBrep DEF IsBrep
    <3>2. Abs(s.hei) = s.hei
      BY <1>1, <2>2 DEF Abs
    <3> QED
      BY <2>2, <3>1, <3>2
  <2> QED
    BY <2>1, <2>2
<1>3. seg # Uncounted
  BY CountsAreCounts DEF Counted
<1>4. IsSolid(Described(s), "cylinder", <<End(low, s.dia, 0), End(high, s.dia, 0)>>, <<>>, seg, Upright)
  BY DEF Described, Drawn, Solid, IsSolid, Standing, Centred
<1>5. IsSolid(Described(u), "cylinder", <<End(0, One, 0), End(One, One, 0)>>, <<>>, seg, Upright)
  <2>1. u.kind = "LCylinder" /\ u.seg = seg /\ u.dia = One /\ u.btm = -5000 /\ u.top = 5000
    BY DEF UnitCylinder, LCylinder, One
  <2> HIDE DEF u, seg
  <2>2. segment_counts(u) = seg
    BY <1>3, <2>1, CountsAreCounts
  <2>3. Abs(u.top - u.btm) = One
    BY <2>1 DEF Abs, One
  <2> QED
    BY <2>1, <2>2, <2>3 DEF Described, Drawn, Solid, IsSolid, Standing
<1>6. Size(t) \in Int /\ Size(t) >= 0
  BY <1>1, <1>2 DEF Size, Larger
<1>7. shift \in Int /\ low \in Int /\ high \in Int /\ shift = low /\ h + shift <= high + 1 /\ high <= h + shift + 1
  BY <1>1
<1>8. t.scale[1] = s.dia /\ t.scale[3] = h
  BY <1>2
<1> DEFINE size == Size(t)
<1>9. shift = t.shift
  BY <1>2
<1> HIDE DEF h, low, high, shift, mid, seg, u, t, size
<1>10. NearEnd(StretchedEnd(End(0, One, 0), t), End(low, s.dia, 0), size)
       /\ NearEnd(StretchedEnd(End(One, One, 0), t), End(high, s.dia, 0), size)
  <2>1. Scaled(0, h) = 0 /\ Scaled(One, h) = h /\ Scaled(One, s.dia) = s.dia
    BY <1>1, ScaledWhole
  <2>2. Near(0 + shift, low, size) /\ Near(h + shift, high, size) /\ Near(s.dia, s.dia, size)
    BY <1>1, <1>6, <1>7, NearWhenOneOff DEF size
  <2>3. /\ Near(Scaled(0, t.scale[3]) + t.shift, low, size) /\ Near(Scaled(One, t.scale[3]) + t.shift, high, size)
        /\ Near(Scaled(One, t.scale[1]), s.dia, size)
    BY <1>8, <1>9, <2>1, <2>2
  <2>4. One \in Int /\ 0 \in Int
    BY DEF One
  <2>5. NearEnd(StretchedEnd(End(0, One, 0), t), End(low, s.dia, 0), size)
    BY <1>1, <1>6, <1>7, <1>8, <1>9, <2>3, <2>4, PlainEndIsNear DEF size
  <2>6. NearEnd(StretchedEnd(End(One, One, 0), t), End(high, s.dia, 0), size)
    BY <1>1, <1>6, <1>7, <1>8, <1>9, <2>3, <2>4, PlainEndIsNear DEF size
  <2> QED
    BY <2>5, <2>6
<1>11. EndsAreNear(<<End(0, One, 0), End(One, One, 0)>>, <<End(low, s.dia, 0), End(high, s.dia, 0)>>, t, size)
  BY <1>10, TwoEndsAreNear
<1>12. LengthsAreNear(<<>>, <<>>, t, size)
  BY NoneAreNear
<1> QED
  BY <1>2, <1>4, <1>5, <1>11, <1>12, ReproducedWhenNear DEF t, size, u, seg

LEMMA ScaledEndIsNear ==
  ASSUME NEW t, t.shift \in Int, t.scale[1] \in Int, t.scale[3] \in Int, NEW size \in Int, size >= 0,
         NEW z \in Int, NEW dia \in Int, NEW zz \in Int, NEW ddia \in Int,
         NEW a \in Int, a = Scaled(z, t.scale[3]) + t.shift, a <= zz + 1, zz <= a + 1, Scaled(dia, t.scale[1]) = ddia
  PROVE  NearEnd(StretchedEnd(End(z, dia, 0), t), End(zz, ddia, 0), size)
<1>1. Near(a, zz, size) /\ Near(ddia, ddia, size)
  BY NearWhenOneOff
<1> QED
  BY <1>1, PlainEndIsNear

(* Ends cut at an angle: an angle and its fold cut one plane.               *)
LEMMA ShearedReproduced ==
  ASSUME NEW s, IsShape(s), check_valid(s), s.kind = "SCylinder", is_sscl(s), NEW o, gen_unit_shape(o) = folded(s)
  PROVE  Reproduced(s, o)
<1> DEFINE u == folded(s)
           t == get_trans(s)
           size == Size(t)
           planes == [i \in 1 .. 4 |-> Plane(s.shear[i])]
           ends == <<End(0, s.dia, 0), End(s.hei, s.dia, 0)>>
<1>1. /\ s.dia \in Int /\ s.hei \in Int /\ s.shear \in [1 .. 4 -> Int] /\ DOMAIN s = SCylinderFields
      /\ s.mid => \A i \in 1 .. 4 : s.shear[i] = 0
  BY DEF IsShape, IsCylinder, AreInts
<1>2. SameButSheared(u, s) /\ is_sscl(u)
  BY <1>1, FoldedIs, FoldedTwice
<1>3. ~s.mid
  <2> SUFFICES ASSUME s.mid PROVE FALSE
    OBVIOUS
  <2>1. \A i \in 1 .. 4 : FoldedShear(s)[i] = 0
    BY <1>1 DEF FoldedShear, fold_shear_angle_deg
  <2> QED
    BY <1>2, <2>1 DEF is_sscl, SameButSheared
<1>4. t.scale = Same /\ t.shift = 0 /\ t.turn = Upright
  BY <1>3, ShearedBrep DEF IsBrep
<1>5. IsSolid(Described(s), "sheared", ends, <<>>, planes, Upright)
  BY DEF Described, Drawn, Solid, IsSolid, Standing
<1>6. [i \in 1 .. 4 |-> Plane(u.shear[i])] = planes
  <2>1. ASSUME NEW i \in 1 .. 4 PROVE Plane(u.shear[i]) = Plane(s.shear[i])
    BY <1>1, <1>2, FoldedAngles DEF SameButSheared, FoldedShear
  <2> HIDE DEF u
  <2> QED
    BY <2>1
<1>7. IsSolid(Described(u), "sheared", ends, <<>>, planes, Upright)
  <2>1. u.kind = "SCylinder" /\ u.hei = s.hei /\ u.dia = s.dia
    BY <1>2 DEF SameButSheared
  <2> HIDE DEF u, planes
  <2> QED
    BY <1>2, <1>6, <2>1 DEF Described, Drawn, Solid, IsSolid, Standing
<1>8. t.scale[1] = One /\ t.scale[3] = One /\ size \in Int /\ size >= 0
  BY <1>4 DEF Same, Size, Larger, One
<1> HIDE DEF u, t, size, planes
<1>9. ASSUME NEW z \in Int PROVE NearEnd(StretchedEnd(End(z, s.dia, 0), t), End(z, s.dia, 0), size)
  <2>1. Scaled(z, One) = z /\ Scaled(s.dia, One) = s.dia /\ One \in Int
    BY <1>1, ScaledWhole DEF One
  <2>2. z = Scaled(z, t.scale[3]) + t.shift /\ Scaled(s.dia, t.scale[1]) = s.dia
    BY <1>4, <1>8, <2>1
  <2> QED
    BY <1>1, <1>4, <1>8, <2>1, <2>2, ScaledEndIsNear
<1>10. EndsAreNear(ends, ends, t, size)
  BY <1>1, <1>9, TwoEndsAreNear
<1>11. LengthsAreNear(<<>>, <<>>, t, size)
  BY NoneAreNear
<1> QED
  BY <1>4, <1>5, <1>7, <1>10, <1>11, ReproducedWhenNear DEF t, size, u

(* A dish: its height is a profile of its diameter, so that scaling by the   *)
(* diameter (or, for the elliptical one that is scaled right, by twice the   *)
(* height) is exact.                                                        *)
LEMMA DishesReproduced ==
  ASSUME NEW s, IsShape(s), check_valid(s), s.kind = "Dish", ~ScaledAsHemisphere(s), ~KnuckleRoundedAway(s),
         NEW o, gen_unit_shape(o) = Dish(One, Ratio(s.hei, s.dia), Round3(Ratio(s.rad, s.dia)), segment_counts(s))
  PROVE  Reproduced(s, o)
<1> DEFINE seg == segment_counts(s)
           k == Round3(Ratio(s.rad, s.dia))
           q == Ratio(s.hei, s.dia)
           u == Dish(One, q, k, seg)
           t == get_trans(s)
           size == Size(t)
           form == IF is_elliptical(s) THEN "elliptical" ELSE "spherical"
           ends == <<End(0, s.dia, 0), End(s.hei, 0, 0)>>
           unit == <<End(0, One, 0), End(q, 0, 0)>>
<1>1. /\ s.dia \in Int /\ s.hei \in Int /\ s.rad \in Int /\ s.dia > 0 /\ s.hei > 0
      /\ q \in Int /\ s.hei * One = q * s.dia
  BY DishRatios
<1>2. t.scale[1] = s.dia /\ t.scale[3] = s.dia /\ t.shift = 0 /\ t.turn = Upright
  <2>1. BrepOf(s) = DishBrep(s, seg)
    BY DEF BrepOf, Shaped
  <2>2. t.scale = (IF is_elliptical(s) THEN <<s.dia, s.dia, 2 * s.hei>> ELSE Splat(s.dia)) /\ t.shift = 0 /\ t.turn = Upright
    BY <2>1 DEF get_trans, Trans, DishBrep, Brep
  <2>3. is_elliptical(s) => 2 * s.hei = s.dia
    BY DEF ScaledAsHemisphere
  <2> HIDE DEF t
  <2> QED
    BY <2>2, <2>3 DEF Splat
<1>3. seg # Uncounted
  BY CountsAreCounts DEF Counted
<1>4. is_elliptical(s) <=> k > 0
  <2>1. Ratio(s.rad, s.dia) \in Int
    BY <1>1, RatiosAreInts
  <2>2. s.rad <= 0 => Ratio(s.rad, s.dia) <= 0
    BY <1>1 DEF Ratio, One
  <2>3. s.rad > 0 => Ratio(s.rad, s.dia) >= 0
    BY <1>1 DEF Ratio, One
  <2>4. s.rad > 0 => k # 0
    BY DEF KnuckleRoundedAway, is_elliptical
  <2> QED
    BY <1>1, <2>1, <2>2, <2>3, <2>4 DEF Round3, is_elliptical
<1>5. IsSolid(Described(s), form, ends, <<>>, seg, Upright)
  BY DEF Described, Drawn, Solid, IsSolid
<1>6. IsSolid(Described(u), form, unit, <<>>, seg, Upright)
  <2>1. u.kind = "Dish" /\ u.seg = seg /\ u.dia = One /\ u.hei = q /\ u.rad = k
    BY DEF Dish
  <2> HIDE DEF u, seg, q, k
  <2>2. segment_counts(u) = seg /\ (is_elliptical(u) <=> is_elliptical(s))
    BY <1>3, <1>4, <2>1, CountsAreCounts DEF is_elliptical
  <2> QED
    BY <2>1, <2>2 DEF Described, Drawn, Solid, IsSolid
<1> HIDE DEF form, seg, k, q, u, t
<1>7. size \in Int /\ size >= 0
  BY <1>1, <1>2 DEF Size, Larger
<1> HIDE DEF size
<1>8. Scaled(q, s.dia) = s.hei
  <2>1. q * s.dia = s.hei * 10000
    BY <1>1 DEF One
  <2> QED
    BY <1>1, <2>1 DEF Scaled, One
<1>9. Scaled(0, s.dia) = 0 /\ Scaled(One, s.dia) = s.dia /\ One \in Int
  BY <1>1, ScaledWhole DEF One
<1>10. NearEnd(StretchedEnd(End(0, One, 0), t), End(0, s.dia, 0), size)
  <2>1. 0 = Scaled(0, t.scale[3]) + t.shift /\ Scaled(One, t.scale[1]) = s.dia
    BY <1>2, <1>9
  <2> QED
    BY <1>1, <1>2, <1>7, <1>9, <2>1, ScaledEndIsNear
<1>11. NearEnd(StretchedEnd(End(q, 0, 0), t), End(s.hei, 0, 0), size)
  <2>1. s.hei = Scaled(q, t.scale[3]) + t.shift /\ Scaled(0, t.scale[1]) = 0
    BY <1>1, <1>2, <1>8, <1>9
  <2> QED
    BY <1>1, <1>2, <1>7, <2>1, ScaledEndIsNear
<1>12. EndsAreNear(unit, ends, t, size)
  BY <1>10, <1>11, TwoEndsAreNear
<1>13. LengthsAreNear(<<>>, <<>>, t, size)
  BY NoneAreNear
<1> QED
  BY <1>2, <1>5, <1>6, <1>12, <1>13, ReproducedWhenNear DEF t, size, u, k, q, seg

(* The halves of an odd height differ by one.                               *)
LEMMA HalvesAreNear ==
  ASSUME NEW t, t.shift = 0, t.scale[1] \in Int, NEW h \in Int, t.scale[3] = h, NEW size \in Int, size >= 0,
         NEW half, half = h \div 2, NEW m, m = -5000, NEW n, n = -half
  PROVE  EndsAreNear(<<End(m, 0, 0), End(5000, 0, 0)>>, <<End(n, 0, 0), End(half, 0, 0)>>, t, size)
<1> DEFINE low == Scaled(m, h)
<1>1. /\ low \in Int /\ half \in Int /\ m \in Int /\ n \in Int /\ low <= n + 1 /\ n <= low + 1
      /\ Scaled(5000, h) = half
  BY DEF Scaled, One
<1>2. Scaled(0, t.scale[1]) = 0
  BY ScaledWhole
<1>3. low = Scaled(m, t.scale[3]) + t.shift /\ half = Scaled(5000, t.scale[3]) + t.shift
  BY <1>1
<1> HIDE DEF low
<1>4. NearEnd(StretchedEnd(End(m, 0, 0), t), End(n, 0, 0), size)
  BY <1>1, <1>2, <1>3, ScaledEndIsNear
<1>5. NearEnd(StretchedEnd(End(5000, 0, 0), t), End(half, 0, 0), size)
  BY <1>1, <1>2, <1>3, ScaledEndIsNear
<1> QED
  BY <1>4, <1>5, TwoEndsAreNear

(* The tori of one row differ by less than the thousandth their keys are    *)
(* rounded to.                                                              *)
LEMMA ToriReproduced ==
  ASSUME NEW s, IsShape(s), check_valid(s), s.kind \in {"CTorus", "RTorus"},
         NEW o, NEW q \in Int, NEW diff \in -9 .. 9, q = Ratio(s.rins, s.rout) + diff,
         NEW seg, seg = segment_counts(s),
         gen_unit_shape(o) = IF s.kind = "CTorus" THEN CTorus(q, One, s.angle, seg) ELSE RTorus(q, One, One, s.angle, seg)
  PROVE  Reproduced(s, o)
<1> DEFINE u == IF s.kind = "CTorus" THEN CTorus(q, One, s.angle, seg) ELSE RTorus(q, One, One, s.angle, seg)
           t == get_trans(s)
           size == Size(t)
           half == s.hei \div 2
           form == IF s.kind = "CTorus" THEN "ctorus" ELSE "rtorus"
           ends == IF s.kind = "CTorus" THEN <<>> ELSE <<End(-half, 0, 0), End(half, 0, 0)>>
           unit == IF s.kind = "CTorus" THEN <<>> ELSE <<End(-5000, 0, 0), End(5000, 0, 0)>>
           fixed == <<Sweep(0, s.angle), seg>>
           lengths == << <<1, s.rins>>, <<1, s.rout>> >>
           units == << <<1, q>>, <<1, One>> >>
<1>1. /\ s.rins \in Int /\ s.rout \in Int /\ s.rout > 0
      /\ s.kind = "RTorus" => s.hei \in Int /\ s.hei > 0
  BY ValidTori
<1>2. t.scale[1] = s.rout /\ t.shift = 0 /\ t.turn = Upright
      /\ t.scale[3] = IF s.kind = "CTorus" THEN s.rout ELSE s.hei
  <2>1. CASE s.kind = "CTorus"
    BY <2>1, CTorusIsBrep DEF IsBrep, Splat
  <2>2. CASE s.kind = "RTorus"
    BY <2>2, RTorusIsBrep DEF IsBrep
  <2> QED
    BY <2>1, <2>2
<1>3. seg # Uncounted
  BY CountsAreCounts DEF Counted
<1>4. IsSolid(Described(s), form, ends, lengths, fixed, Upright)
  <2>1. CASE s.kind = "CTorus"
    BY <2>1 DEF Described, Drawn, Solid, IsSolid
  <2>2. CASE s.kind = "RTorus"
    BY <2>2 DEF Described, Drawn, Solid, IsSolid, Centred
  <2> QED
    BY <2>1, <2>2
<1>5. IsSolid(Described(u), form, unit, units, fixed, Upright)
  <2>1. CASE s.kind = "CTorus"
    <3>1. u.kind = "CTorus" /\ u.seg = seg /\ u.rins = q /\ u.rout = One /\ u.angle = s.angle
      BY <2>1 DEF CTorus
    <3> HIDE DEF u
    <3>2. segment_counts(u) = seg
      BY <1>3, <3>1, CountsAreCounts
    <3> QED
      BY <2>1, <3>1, <3>2 DEF Described, Drawn, Solid, IsSolid
  <2>2. CASE s.kind = "RTorus"
    <3>1. u.kind = "RTorus" /\ u.seg = seg /\ u.rins = q /\ u.rout = One /\ u.angle = s.angle /\ u.hei = One
      BY <2>2 DEF RTorus
    <3> HIDE DEF u
    <3>2. segment_counts(u) = seg
      BY <1>3, <3>1, CountsAreCounts
    <3>3. u.hei \div 2 = 5000
      BY <3>1 DEF One
    <3>4. Centred(u.hei, 0) = <<End(-5000, 0, 0), End(5000, 0, 0)>>
      BY <3>3 DEF Centred
    <3> QED
      BY <2>2, <3>1, <3>2, <3>4 DEF Described, Drawn, Solid, IsSolid
  <2> QED
    BY <2>1, <2>2
<1> HIDE DEF u, t, form, fixed
<1>6. size \in Int /\ size >= 0 /\ size >= s.rout
  BY <1>1, <1>2 DEF Size, Larger
<1> HIDE DEF size
<1>7. Near(Scaled(q, t.scale[1]), s.rins, size) /\ Near(Scaled(One, t.scale[1]), s.rout, size)
  <2>1. Near(Scaled(q, s.rout), s.rins, size)
    BY <1>1, <1>6, NearRatios
  <2>2. Scaled(One, s.rout) = s.rout
    BY <1>1, ScaledWhole
  <2>3. Near(s.rout, s.rout, size)
    BY <1>1, <1>6, NearWhenOneOff
  <2> QED
    BY <1>2, <2>1, <2>2, <2>3
<1>8. LengthsAreNear(units, lengths, t, size)
  BY <1>7, TwoLengthsAreNear
<1>9. EndsAreNear(unit, ends, t, size)
  <2>1. CASE s.kind = "CTorus"
    BY <2>1, NoneAreNear
  <2>2. CASE s.kind = "RTorus"
    <3>1. t.scale[3] = s.hei /\ s.hei \in Int
      BY <1>1, <1>2, <2>2
    <3>2. EndsAreNear(<<End(-5000, 0, 0), End(5000, 0, 0)>>, <<End(-half, 0, 0), End(half, 0, 0)>>, t, size)
      BY <1>1, <1>2, <1>6, <3>1, HalvesAreNear
    <3> QED
      BY <2>2, <3>2
  <2> QED
    BY <2>1, <2>2
<1>10. gen_unit_shape(o) = u
  BY DEF u
<1> HIDE DEF units, lengths, unit, ends
<1> QED
  BY <1>2, <1>4, <1>5, <1>8, <1>9, <1>10, ReproducedWhenNear DEF t, size

(* A box is centred on its three edges.                                     *)
LEMMA BoxesReproduced ==
  ASSUME NEW s, IsShape(s), check_valid(s), s.kind = "SBox", NEW o, gen_unit_shape(o) = SBox(Same)
  PROVE  Reproduced(s, o)
<1> DEFINE u == SBox(Same)
           t == get_trans(s)
           size == Size(t)
           hei == s.size[3]
           half == hei \div 2
           lengths == << <<1, s.size[1]>>, <<2, s.size[2]>> >>
<1>1. \A i \in 1 .. 3 : s.size[i] \in Int /\ s.size[i] > 0
  BY DEF IsShape, IsOther, check_valid
<1>2. t.scale = s.size /\ t.shift = 0 /\ t.turn = Upright
  BY BoxIsBrep DEF IsBrep
<1>3. IsSolid(Described(s), "box", <<End(-half, 0, 0), End(half, 0, 0)>>, lengths, <<>>, Upright)
  BY DEF Described, Drawn, Solid, IsSolid, Centred
<1>4. IsSolid(Described(u), "box", <<End(-5000, 0, 0), End(5000, 0, 0)>>, << <<1, One>>, <<2, One>> >>, <<>>, Upright)
  <2>1. u.kind = "SBox" /\ u.size[1] = One /\ u.size[2] = One /\ u.size[3] = One
    BY DEF SBox, Same
  <2> HIDE DEF u
  <2>2. u.size[3] \div 2 = 5000
    BY <2>1 DEF One
  <2>3. Centred(u.size[3], 0) = <<End(-5000, 0, 0), End(5000, 0, 0)>>
    BY <2>2 DEF Centred
  <2> QED
    BY <2>1, <2>3 DEF Described, Drawn, Solid, IsSolid
<1> HIDE DEF u, t
<1>5. size \in Int /\ size >= 0
  BY <1>1, <1>2 DEF Size, Larger
<1> HIDE DEF size
<1>6. LengthsAreNear(<< <<1, One>>, <<2, One>> >>, lengths, t, size)
  <2>1. Scaled(One, s.size[1]) = s.size[1] /\ Scaled(One, s.size[2]) = s.size[2]
    BY <1>1, ScaledWhole
  <2>2. Near(s.size[1], s.size[1], size) /\ Near(s.size[2], s.size[2], size)
    BY <1>1, <1>5, NearWhenOneOff
  <2> QED
    BY <1>2, <2>1, <2>2, TwoLengthsAreNear
<1>7. EndsAreNear(<<End(-5000, 0, 0), End(5000, 0, 0)>>, <<End(-half, 0, 0), End(half, 0, 0)>>, t, size)
  <2>1. t.scale[3] = hei /\ hei \in Int /\ t.scale[1] \in Int
    BY <1>1, <1>2
  <2> QED
    BY <1>2, <1>5, <2>1, HalvesAreNear
<1> QED
  BY <1>2, <1>3, <1>4, <1>6, <1>7, ReproducedWhenNear DEF t, size, u

(* What shares its row with nothing else is drawn as it is.                 *)
IsAsItIs(s) ==
  \/ s.kind \in {"Revolution", "Pyramid", "LPyramid"}
  \/ s.kind = "SweepSolid" /\ ~is_reuse_unit(s)
LEMMA OwnReproduced ==
  ASSUME NEW s, NEW o, gen_unit_shape(o) = s, get_trans(s).scale = Same, get_trans(s).turn = Upright, IsAsItIs(s)
  PROVE  Reproduced(s, o)
<1>1. IsSolid(Described(s), "as_it_is", <<>>, <<>>, s, Upright)
  <2>1. Described(s) = Solid("as_it_is", <<>>, <<>>, s)
    BY DEF Described, Drawn, IsAsItIs, is_reuse_unit
  <2> QED
    BY <2>1 DEF Solid, IsSolid
<1> DEFINE t == get_trans(s)
           size == Size(t)
<1> HIDE DEF t, size
<1>2. EndsAreNear(<<>>, <<>>, t, size) /\ LengthsAreNear(<<>>, <<>>, t, size)
  BY NoneAreNear
<1> QED
  BY <1>1, <1>2, ReproducedWhenNear DEF t, size

LEMMA EccentricReproduced ==
  ASSUME NEW s, IsShape(s), check_valid(s), s.kind = "LSnout", is_eccentric(s), NEW o, gen_unit_shape(o) = s
  PROVE  Reproduced(s, o)
<1> DEFINE t == get_trans(s)
           size == Size(t)
           aside == s.off \div 2
           back == -aside
           low == End(s.btm, s.dbtm, back)
           high == End(s.top, s.dtop, aside)
<1>1. t.scale = Same /\ t.shift = 0 /\ t.turn = Upright
  BY SnoutIsBrep DEF EccentricIsBrepOf, IsBrep
<1>2. IsSolid(Described(s), "snout", <<low, high>>, <<>>, segment_counts(s), Upright)
  BY DEF Described, Drawn, Solid, IsSolid
<1>3. /\ s.btm \in Int /\ s.top \in Int /\ s.dbtm \in Int /\ s.dtop \in Int
      /\ aside \in Int /\ back \in Int
  BY ValidSnouts
<1>4. t.scale[1] = One /\ t.scale[3] = One /\ size \in Int /\ size >= 0
  BY <1>1 DEF Same, Size, Larger, One
<1> HIDE DEF t, size, aside, back
<1>5. ASSUME NEW z \in Int, NEW dia \in Int, NEW off \in Int
      PROVE  NearEnd(StretchedEnd(End(z, dia, off), t), End(z, dia, off), size)
  <2>1. Scaled(z, One) = z /\ Scaled(dia, One) = dia /\ Scaled(off, One) = off
    BY ScaledWhole
  <2>2. StretchedEnd(End(z, dia, off), t) = End(z, dia, off)
    BY <1>1, <1>4, <2>1 DEF StretchedEnd, End
  <2>3. Near(z, z, size) /\ Near(dia, dia, size) /\ Near(off, off, size)
    BY <1>4, NearWhenOneOff
  <2> QED
    BY <2>2, <2>3 DEF NearEnd, End
<1>6. EndsAreNear(<<low, high>>, <<low, high>>, t, size)
  BY <1>3, <1>5, TwoEndsAreNear
<1>7. LengthsAreNear(<<>>, <<>>, t, size)
  BY NoneAreNear
<1> HIDE DEF low, high
<1> QED
  BY <1>1, <1>2, <1>6, <1>7, ReproducedWhenNear DEF t, size

(* The widths of the ends of snouts that share a row: their ratios differ by *)
(* less than the thousandth the key is rounded to, unless one of them has a *)
(* point below and the other above.                                         *)
Widest(s) == IF s.dbtm = 0 THEN s.dtop ELSE s.dbtm
LEMMA SnoutWidths ==
  ASSUME NEW s, IsShape(s), check_valid(s), s.kind = "LSnout", NEW o, IsShape(o), check_valid(o), o.kind = "LSnout",
         SnoutRatio(o) = SnoutRatio(s), (o.dbtm = 0) <=> (s.dbtm = 0), NEW size \in Int, size >= Widest(s)
  PROVE  LET w == UnitEnds(o) IN
         /\ Widest(s) \in Int /\ Widest(s) > 0
         /\ Near(Scaled(w[1], Widest(s)), s.dbtm, size) /\ Near(Scaled(w[2], Widest(s)), s.dtop, size)
<1> DEFINE w == UnitEnds(o)
           d == Widest(s)
           q == Ratio(s.dtop, s.dbtm)
<1>1. /\ s.dbtm \in Int /\ s.dtop \in Int /\ s.dbtm >= 0 /\ s.dtop >= 0 /\ s.dtop + s.dbtm > 0
      /\ o.dbtm \in Int /\ o.dtop \in Int /\ o.dbtm >= 0 /\ o.dtop >= 0 /\ o.dtop + o.dbtm > 0
  BY ValidSnouts
<1>2. d \in Int /\ d > 0
  BY <1>1 DEF Widest
<1>3. Scaled(One, d) = d /\ Scaled(0, d) = 0 /\ Near(d, d, size)
  BY <1>2, ScaledWhole, NearWhenOneOff
<1>4. CASE s.dbtm = 0
  <2>1. w[1] = 0 /\ w[2] = One
    BY <1>1, <1>4 DEF UnitEnds
  <2>2. d = s.dtop
    BY <1>4 DEF Widest
  <2>3. Near(0, 0, size)
    BY <1>2, NearWhenOneOff
  <2> HIDE DEF w, d
  <2> QED
    BY <1>2, <1>3, <1>4, <2>1, <2>2, <2>3 DEF w, d
<1>5. CASE s.dbtm # 0
  <2>1. w[1] = One /\ d = s.dbtm
    BY <1>5 DEF UnitEnds, Widest
  <2>2. q \in Int /\ SnoutRatio(s) = Round3(q)
    BY <1>5, ValidSnouts DEF SnoutRatio, RatioOf
  <2>3. w[2] = Round3(q)
    <3>1. CASE o.dtop # 0
      <4>1. w[2] = Round3(Ratio(o.dtop, o.dbtm))
        BY <1>5, <3>1 DEF UnitEnds
      <4> QED
        BY <1>5, <2>2, <4>1 DEF SnoutRatio, RatioOf
    <3>2. CASE o.dtop = 0
      <4>1. w[2] = 0
        BY <3>2 DEF UnitEnds
      <4>2. PICK n \in Int : n = 0
        OBVIOUS
      <4>3. Ratio(n, o.dbtm) = n
        <5>1. n * One = n * o.dbtm
          BY <1>1, <4>2 DEF One
        <5>2. o.dbtm > 0
          BY <1>1, <1>5
        <5> QED
          BY <1>1, <4>2, <5>1, <5>2, ExactRatios
      <4>4. SnoutRatio(o) = Round3(n)
        BY <1>5, <3>2, <4>2, <4>3 DEF SnoutRatio, RatioOf
      <4>5. Round3(n) = 0
        BY <4>2 DEF Round3
      <4> QED
        BY <2>2, <4>1, <4>4, <4>5
    <3> QED
      BY <3>1, <3>2
  <2> HIDE DEF w, d
  <2>4. Near(Scaled(w[2], d), s.dtop, size)
    <3>1. w[2] \in Int /\ w[2] - q \in -9 .. 9
      <4>1. q \in Int
        BY <2>2
      <4>2. w[2] = Round3(q)
        BY <2>3
      <4> HIDE DEF q
      <4>3. Round3(q) \in Int /\ Round3(q) - q <= 5 /\ q - Round3(q) <= 5
        BY <4>1, RoundingTwice
      <4> QED
        BY <4>1, <4>2, <4>3
    <3>2. PICK diff \in -9 .. 9 : w[2] = q + diff
      BY <2>2, <3>1
    <3>3. size >= s.dbtm /\ s.dbtm \in Int /\ s.dbtm > 0
      BY <1>1, <1>5, <2>1 DEF d
    <3>4. w[2] = Ratio(s.dtop, s.dbtm) + diff
      BY <3>2
    <3>5. Near(Scaled(w[2], s.dbtm), s.dtop, size)
      BY <1>1, <3>1, <3>3, <3>4, NearRatios
    <3> QED
      BY <2>1, <3>5
  <2>5. Near(Scaled(w[1], d), s.dbtm, size)
    BY <1>3, <2>1
  <2> QED
    BY <1>2, <2>4, <2>5 DEF w, d
<1> QED
  BY <1>4, <1>5

LEMMA NotAside ==
  ASSUME NEW n \in Int, n = 0
  PROVE  n \div 2 = 0 /\ -(n \div 2) = 0
<1> DEFINE k == n \div 2
<1>1. k \in Int /\ k <= 0 /\ 0 <= k
  OBVIOUS
<1> HIDE DEF k
<1>2. k = 0 /\ -k = 0
  BY <1>1
<1> QED
  BY <1>2 DEF k

LEMMA StraightReproduced ==
  ASSUME NEW s, IsShape(s), check_valid(s), s.kind = "LSnout", ~is_eccentric(s),
         NEW o, IsShape(o), check_valid(o), o.kind = "LSnout",
         SnoutRatio(o) = SnoutRatio(s), (o.dbtm = 0) <=> (s.dbtm = 0), NEW seg, seg = segment_counts(s),
         gen_unit_shape(o) = UnitSnout(UnitEnds(o)[1], UnitEnds(o)[2], seg),
         UnitEnds(o)[1] \in Int, UnitEnds(o)[2] \in Int
  PROVE  Reproduced(s, o)
<1> DEFINE w == UnitEnds(o)
           v == w[1]
           x == w[2]
           u == UnitSnout(v, x, seg)
           t == get_trans(s)
           size == Size(t)
           d == Widest(s)
           h == s.top - s.btm
           ends == <<End(s.btm, s.dbtm, 0), End(s.top, s.dtop, 0)>>
<1>1. /\ s.top \in Int /\ s.btm = -s.top /\ h > 0 /\ h = 2 * s.top /\ s.btm \in Int /\ h \in Int /\ Abs(h) = h
      /\ s.dbtm \in Int /\ s.dtop \in Int /\ s.off = 0
  BY ValidSnouts DEF is_eccentric, Abs
<1>2. t.scale = <<d, d, h>> /\ t.shift = 0 /\ t.turn = Upright
  <2>1. BrepOf(s) = LSnoutBrep(s, seg)
    BY DEF BrepOf, Shaped
  <2>2. t.scale = <<d, d, Abs(h)>> /\ t.shift = 0 /\ t.turn = Upright
    BY <2>1 DEF get_trans, Trans, LSnoutBrep, Brep, Widest
  <2> QED
    BY <1>1, <2>2
<1>3. d \in Int /\ d > 0
  BY ValidSnouts DEF Widest
<1>4. t.scale[1] = d /\ t.scale[3] = h /\ size \in Int /\ size >= d
  BY <1>1, <1>2, <1>3 DEF Size, Larger
<1>5. seg # Uncounted
  BY CountsAreCounts DEF Counted
<1>6. IsSolid(Described(s), "snout", ends, <<>>, seg, Upright)
  <2>1. s.off \div 2 = 0 /\ -(s.off \div 2) = 0
    <3>1. s.off = 0 /\ s.off \in Int
      BY <1>1
    <3> QED
      BY <3>1, NotAside
  <2>2. Described(s) = Solid("snout", ends, <<>>, seg)
    BY <2>1 DEF Described, Drawn
  <2> QED
    BY <2>2 DEF Solid, IsSolid
<1>7. PICK m \in Int : m = -5000
  OBVIOUS
<1>8. v \in Int /\ x \in Int
  OBVIOUS
<1> HIDE DEF v, x
<1>9. IsSolid(Described(u), "snout", <<End(m, v, 0), End(5000, x, 0)>>, <<>>, seg, Upright)
  <2>1. /\ u.kind = "LSnout" /\ u.btm = -5000 /\ u.top = 5000 /\ u.dbtm = v /\ u.dtop = x
        /\ u.off = 0 /\ segment_counts(u) = seg
    BY <1>5, <1>8, SnoutUnits
  <2> HIDE DEF u
  <2>2. u.off \div 2 = 0 /\ -(u.off \div 2) = 0
    <3>1. u.off = 0 /\ u.off \in Int
      BY <2>1
    <3> QED
      BY <3>1, NotAside
  <2>3. Described(u) = Solid("snout", <<End(m, v, 0), End(5000, x, 0)>>, <<>>, seg)
    BY <1>7, <2>1, <2>2 DEF Described, Drawn
  <2> QED
    BY <2>3 DEF Solid, IsSolid
<1>10. Near(Scaled(v, d), s.dbtm, size) /\ Near(Scaled(x, d), s.dtop, size)
  BY <1>4, SnoutWidths DEF v, x
<1>11. gen_unit_shape(o) = u
  BY DEF v, x
<1> HIDE DEF u, t, size, d, h
<1>12. Near(Scaled(m, t.scale[3]) + t.shift, s.btm, size) /\ Near(Scaled(5000, t.scale[3]) + t.shift, s.top, size)
  <2>1. Scaled(m, h) = s.btm /\ Scaled(5000, h) = s.top
    BY <1>1, <1>7 DEF Scaled, One
  <2>2. Near(s.btm, s.btm, size) /\ Near(s.top, s.top, size)
    BY <1>1, <1>3, <1>4, NearWhenOneOff
  <2>3. Scaled(m, t.scale[3]) + t.shift = s.btm /\ Scaled(5000, t.scale[3]) + t.shift = s.top
    BY <1>1, <1>2, <1>4, <2>1
  <2> QED
    BY <2>2, <2>3
<1>13. Near(Scaled(v, t.scale[1]), s.dbtm, size) /\ Near(Scaled(x, t.scale[1]), s.dtop, size)
  BY <1>4, <1>10
<1>14. t.shift \in Int /\ t.scale[1] \in Int /\ t.scale[3] \in Int /\ size >= 0
  BY <1>1, <1>2, <1>3, <1>4
<1>15. NearEnd(StretchedEnd(End(m, v, 0), t), End(s.btm, s.dbtm, 0), size)
  BY <1>1, <1>4, <1>7, <1>8, <1>12, <1>13, <1>14, PlainEndIsNear
<1>16. NearEnd(StretchedEnd(End(5000, x, 0), t), End(s.top, s.dtop, 0), size)
  BY <1>1, <1>4, <1>8, <1>12, <1>13, <1>14, PlainEndIsNear
<1>17. EndsAreNear(<<End(m, v, 0), End(5000, x, 0)>>, ends, t, size)
  BY <1>15, <1>16, TwoEndsAreNear
<1>18. LengthsAreNear(<<>>, <<>>, t, size)
  BY NoneAreNear
<1> HIDE DEF ends
<1> QED
  BY <1>2, <1>6, <1>9, <1>11, <1>17, <1>18, ReproducedWhenNear DEF t, size

LEMMA SpheresReproduced ==
  ASSUME NEW s, IsShape(s), check_valid(s), s.kind = "Sphere", NEW o, gen_unit_shape(o) = SphereUnit(segment_counts(s))
  PROVE  Reproduced(s, o)
<1> DEFINE seg == segment_counts(s)
           u == SphereUnit(seg)
           t == get_trans(s)
           size == Size(t)
           lengths == << <<1, s.radius>>, <<3, s.radius>> >>
           units == << <<1, One>>, <<3, One>> >>
<1>1. s.radius \in Int /\ s.radius > 0
  BY DEF IsShape, IsRound, check_valid
<1>2. t.scale[1] = s.radius /\ t.scale[3] = s.radius /\ t.turn = Upright
  BY SphereIsBrep DEF IsBrep, Splat
<1>3. seg # Uncounted
  BY CountsAreCounts DEF Counted
<1>4. IsSolid(Described(s), "sphere", <<>>, lengths, seg, Upright)
  BY DEF Described, Drawn, Solid, IsSolid
<1>5. IsSolid(Described(u), "sphere", <<>>, units, seg, Upright)
  <2>1. u.kind = "Sphere" /\ u.seg = seg /\ u.radius = One
    BY DEF SphereUnit, Sphere
  <2> HIDE DEF u, seg
  <2>2. segment_counts(u) = seg
    BY <1>3, <2>1, CountsAreCounts
  <2> QED
    BY <2>1, <2>2 DEF Described, Drawn, Solid, IsSolid
<1>6. size \in Int /\ size >= 0
  BY <1>1, <1>2 DEF Size, Larger
<1> HIDE DEF t, size, u, seg
<1>7. Scaled(One, s.radius) = s.radius /\ Near(s.radius, s.radius, size)
  BY <1>1, <1>6, ScaledWhole, NearWhenOneOff
<1>8. LengthsAreNear(units, lengths, t, size)
  BY <1>2, <1>7, TwoLengthsAreNear
<1>9. EndsAreNear(<<>>, <<>>, t, size)
  BY NoneAreNear
<1> HIDE DEF units, lengths
<1> QED
  BY <1>2, <1>4, <1>5, <1>8, <1>9, ReproducedWhenNear DEF t, size, u, seg

(* What stands on its base and is stretched along its axis only: extrusions *)
(* and straight sweeps.                                                     *)
LEMMA StretchedReproduced ==
  ASSUME NEW s, NEW o, NEW form, NEW fixed, NEW hei \in Int, NEW unit \in Int, NEW scale \in Int, NEW turn,
         IsSolid(Described(gen_unit_shape(o)), form, Standing(unit, 0), <<>>, fixed, Upright),
         IsSolid(Described(s), form, Standing(hei, 0), <<>>, fixed, turn),
         get_trans(s).scale = <<One, One, scale>>, get_trans(s).shift = 0, get_trans(s).turn = turn,
         Scaled(unit, scale) = hei
  PROVE  Reproduced(s, o)
<1> DEFINE t == get_trans(s)
           size == Size(t)
<1>1. /\ t.scale[1] = One /\ t.scale[3] = scale /\ t.shift = 0 /\ t.turn = turn
      /\ size \in Int /\ size >= 0 /\ One \in Int
  BY DEF Size, Larger, One
<1> HIDE DEF t, size
<1>2. Scaled(0, One) = 0 /\ Scaled(0, scale) = 0
  BY <1>1, ScaledWhole
<1>3. 0 = Scaled(0, t.scale[3]) + t.shift /\ hei = Scaled(unit, t.scale[3]) + t.shift /\ Scaled(0, t.scale[1]) = 0
  BY <1>1, <1>2
<1>4. NearEnd(StretchedEnd(End(0, 0, 0), t), End(0, 0, 0), size)
  BY <1>1, <1>3, ScaledEndIsNear
<1>5. NearEnd(StretchedEnd(End(unit, 0, 0), t), End(hei, 0, 0), size)
  BY <1>1, <1>3, ScaledEndIsNear
<1>6. EndsAreNear(Standing(unit, 0), Standing(hei, 0), t, size)
  BY <1>4, <1>5, TwoEndsAreNear DEF Standing
<1>7. LengthsAreNear(<<>>, <<>>, t, size)
  BY NoneAreNear
<1> QED
  BY <1>1, <1>6, <1>7, ReproducedWhenNear DEF t, size

LEMMA ExtrusionsReproduced ==
  ASSUME NEW s, IsShape(s), s.kind = "Extrusion", NEW o, gen_unit_shape(o) = Extrusion(s.outline, 10000, s.curve)
  PROVE  Reproduced(s, o)
<1> DEFINE u == Extrusion(s.outline, 10000, s.curve)
           fixed == <<s.outline, s.curve>>
<1>1. s.hei \in Int
  BY DEF IsShape, IsOther
<1>2. get_trans(s).scale = <<One, One, s.hei>> /\ get_trans(s).shift = 0 /\ get_trans(s).turn = Upright
  BY ExtrusionIsBrep DEF IsBrep
<1>3. IsSolid(Described(s), "extrusion", Standing(s.hei, 0), <<>>, fixed, Upright)
  BY DEF Described, Drawn, Solid, IsSolid
<1>4. IsSolid(Described(u), "extrusion", Standing(10000, 0), <<>>, fixed, Upright)
  <2>1. u.kind = "Extrusion" /\ u.outline = s.outline /\ u.hei = 10000 /\ u.curve = s.curve
    BY DEF Extrusion
  <2> HIDE DEF u
  <2> QED
    BY <2>1 DEF Described, Drawn, Solid, IsSolid
<1>5. Scaled(10000, s.hei) = s.hei
  BY <1>1, ScaledWhole DEF One
<1> HIDE DEF u, fixed
<1> QED
  BY <1>1, <1>2, <1>3, <1>4, <1>5, StretchedReproduced DEF u

LEMMA SweepsReproduced ==
  ASSUME NEW s, IsShape(s), s.kind = "SweepSolid", is_reuse_unit(s), NEW o, gen_unit_shape(o) = UnitSweep(s)
  PROVE  Reproduced(s, o)
<1> DEFINE u == UnitSweep(s)
           length == s.path[2]
           scale == 10 * length
<1>1. length \in Int /\ s.path[1] = "line" /\ ~is_sloped(s)
  BY DEF IsShape, IsOther, is_reuse_unit
<1>2. get_trans(s).scale = <<One, One, scale>> /\ get_trans(s).shift = 0 /\ get_trans(s).turn = s.turn
  BY SweepIsBrep DEF IsBrep
<1>3. IsSolid(Described(s), "sweep", Standing(length, 0), <<>>, s.profile, s.turn)
  BY <1>1 DEF Described, Drawn, Solid, IsSolid
<1>4. IsSolid(Described(u), "sweep", Standing(1000, 0), <<>>, s.profile, Upright)
  <2>1. /\ u.kind = "SweepSolid" /\ u.profile = s.profile /\ u.ends = <<"none", "none">> /\ u.path = <<"line", 1000>>
        /\ u.turn = Upright
    BY DEF UnitSweep, SweepSolid, UnitPath
  <2> HIDE DEF u
  <2>2. ~is_sloped(u) /\ u.path[1] = "line" /\ u.path[2] = 1000
    BY <2>1 DEF is_sloped, set_mitre_planes
  <2> QED
    BY <2>1, <2>2 DEF Described, Drawn, Solid, IsSolid
<1>5. scale \in Int /\ Scaled(1000, scale) = length
  BY <1>1 DEF Scaled, One
<1> HIDE DEF u, length, scale
<1> QED
  BY <1>1, <1>2, <1>3, <1>4, <1>5, StretchedReproduced DEF u

(* Shapes of one key: whichever wrote the row last, the other is drawn with  *)
(* its own dimensions.                                                      *)
Comparable(s, o) == s.kind = "LSnout" /\ o.kind = "LSnout" => ((o.dbtm = 0) <=> (s.dbtm = 0))
NotSpoilt(s) == ~ScaledAsHemisphere(s) /\ ~KnuckleRoundedAway(s) /\ ~NotTurned(s)

LEMMA SameKeyReproduced ==
  ASSUME NEW s, IsShape(s), check_valid(s), NotSpoilt(s), NEW o, IsShape(o), check_valid(o), Comparable(s, o),
         hash_unit_mesh_params(o) = hash_unit_mesh_params(s)
  PROVE  Reproduced(s, o)
<1>1. TagOf(o) = TagOf(s)
  BY DEF TagOf
<1>2. s.kind \in ShapeKinds /\ o.kind \in ShapeKinds
  BY DEF IsShape
<1>3. CASE s.kind = "LCylinder" \/ (s.kind = "SCylinder" /\ ~is_sscl(s))
  <2>1. o.kind = "LCylinder" \/ (o.kind = "SCylinder" /\ ~is_sscl(o))
    <3>1. TagOf(o) = "cylinder"
      BY <1>1, <1>3, Tags
    <3> QED
      BY <1>2, <3>1, Tags DEF ShapeKinds
  <2>2. hash_unit_mesh_params(s) = <<"cylinder", segment_counts(s)>>
    BY <1>3, CylinderBrep DEF IsBrep
  <2>3. hash_unit_mesh_params(o) = <<"cylinder", segment_counts(o)>> /\ gen_unit_shape(o) = UnitCylinder(segment_counts(o))
    BY <2>1, CylinderBrep DEF IsBrep
  <2>4. gen_unit_shape(o) = UnitCylinder(segment_counts(s))
    BY <2>2, <2>3
  <2> QED
    BY <1>3, <2>4, CylindersReproduced DEF NotSpoilt
<1>4. CASE s.kind = "SCylinder" /\ is_sscl(s)
  <2>1. o.kind = "SCylinder" /\ is_sscl(o)
    <3>1. TagOf(o) = "SSCL"
      BY <1>1, <1>4, Tags
    <3> QED
      BY <1>2, <3>1, Tags DEF ShapeKinds
  <2>2. hash_unit_mesh_params(s) = <<"SSCL", folded(s)>>
    BY <1>4, ShearedBrep DEF IsBrep
  <2>3. hash_unit_mesh_params(o) = <<"SSCL", folded(o)>> /\ gen_unit_shape(o) = folded(o)
    BY <2>1, ShearedBrep DEF IsBrep
  <2>4. gen_unit_shape(o) = folded(s)
    BY <2>2, <2>3
  <2> QED
    BY <1>4, <2>4, ShearedReproduced
<1>5. CASE s.kind = "Dish"
  <2>1. o.kind = "Dish"
    <3>1. TagOf(o) = "dish"
      BY <1>1, <1>5, Tags
    <3> QED
      BY <1>2, <3>1, Tags DEF ShapeKinds
  <2> DEFINE k(x) == Round3(Ratio(x.rad, x.dia))
  <2>2. PICK q \in {1250, 2500, 5000, 10000} : Ratio(s.hei, s.dia) = q /\ Ratio(2 * s.hei, s.dia) = 2 * q
    BY <1>5, DishRatios
  <2>3. PICK p \in {1250, 2500, 5000, 10000} : Ratio(o.hei, o.dia) = p /\ Ratio(2 * o.hei, o.dia) = 2 * p
    BY <2>1, DishRatios
  <2>4. hash_unit_mesh_params(s) = <<"dish", Round3(2 * q), k(s), segment_counts(s)>>
    BY <1>5, <2>2, DishUnits
  <2>5. /\ hash_unit_mesh_params(o) = <<"dish", Round3(2 * p), k(o), segment_counts(o)>>
        /\ gen_unit_shape(o) = Dish(One, p, k(o), segment_counts(o))
    BY <2>1, <2>3, DishUnits
  <2> HIDE DEF k
  <2>6. Round3(2 * p) = Round3(2 * q) /\ k(o) = k(s) /\ segment_counts(o) = segment_counts(s)
    BY <2>4, <2>5
  <2>7. p = q
    BY <2>6 DEF Round3
  <2>8. gen_unit_shape(o) = Dish(One, q, k(s), segment_counts(s))
    BY <2>5, <2>6, <2>7
  <2>9. gen_unit_shape(o) = Dish(One, Ratio(s.hei, s.dia), Round3(Ratio(s.rad, s.dia)), segment_counts(s))
    BY <2>2, <2>8 DEF k
  <2> QED
    BY <1>5, <2>9, DishesReproduced DEF NotSpoilt
<1>6. CASE s.kind \in {"CTorus", "RTorus"}
  <2> DEFINE x == Ratio(s.rins, s.rout)
             y == Ratio(o.rins, o.rout)
             seg == segment_counts(o)
  <2>1. o.kind = s.kind
    BY <1>1, <1>2, <1>6, Tags DEF ShapeKinds
  <2>2. x \in Int /\ y \in Int
    BY <1>6, <2>1, ValidTori
  <2>3. \E tag : /\ hash_unit_mesh_params(s) = <<tag, Round3(x), s.angle, segment_counts(s)>>
                 /\ hash_unit_mesh_params(o) = <<tag, Round3(y), o.angle, seg>>
    <3>1. CASE s.kind = "CTorus"
      BY <2>1, <3>1, CTorusIsBrep DEF IsBrep, TorusKey
    <3>2. CASE s.kind = "RTorus"
      BY <2>1, <3>2, RTorusIsBrep DEF IsBrep, TorusKey
    <3> QED
      BY <1>6, <3>1, <3>2
  <2>4. gen_unit_shape(o) = IF s.kind = "CTorus" THEN CTorus(y, One, o.angle, seg) ELSE RTorus(y, One, One, o.angle, seg)
    <3>1. CASE s.kind = "CTorus"
      BY <2>1, <3>1, CTorusIsBrep DEF IsBrep
    <3>2. CASE s.kind = "RTorus"
      BY <2>1, <3>2, RTorusIsBrep DEF IsBrep
    <3> QED
      BY <1>6, <3>1, <3>2
  <2> HIDE DEF x, y, seg
  <2>5. Round3(y) = Round3(x) /\ o.angle = s.angle /\ seg = segment_counts(s)
    BY <2>3
  <2>6. y - x \in -9 .. 9
    BY <2>2, <2>5, SameRound3
  <2>7. PICK diff \in -9 .. 9 : y = x + diff
    BY <2>2, <2>6
  <2>8. y = Ratio(s.rins, s.rout) + diff
    BY <2>7 DEF x
  <2>9. gen_unit_shape(o) = IF s.kind = "CTorus" THEN CTorus(y, One, s.angle, seg) ELSE RTorus(y, One, One, s.angle, seg)
    BY <2>4, <2>5
  <2> QED
    BY <1>6, <2>2, <2>5, <2>8, <2>9, ToriReproduced
<1>7. CASE s.kind = "LSnout" /\ is_eccentric(s)
  <2>1. o.kind = "LSnout" /\ is_eccentric(o)
    <3>1. TagOf(o) = "eccentric"
      BY <1>1, <1>7, Tags
    <3> QED
      BY <1>2, <3>1, Tags DEF ShapeKinds
  <2>2. hash_unit_mesh_params(s) = <<"eccentric", s>>
    BY <1>7, SnoutIsBrep DEF EccentricIsBrepOf, IsBrep
  <2>3. hash_unit_mesh_params(o) = <<"eccentric", o>> /\ gen_unit_shape(o) = o
    BY <2>1, SnoutIsBrep DEF EccentricIsBrepOf, IsBrep
  <2>4. gen_unit_shape(o) = s
    BY <2>2, <2>3
  <2> QED
    BY <1>7, <2>4, EccentricReproduced
<1>8. CASE s.kind = "LSnout" /\ ~is_eccentric(s)
  <2>1. o.kind = "LSnout" /\ ~is_eccentric(o)
    <3>1. TagOf(o) = "snout"
      BY <1>1, <1>8, Tags
    <3> QED
      BY <1>2, <3>1, Tags DEF ShapeKinds
  <2> DEFINE seg == segment_counts(o)
  <2>2. hash_unit_mesh_params(s) = StraightKey(SnoutRatio(s), segment_counts(s))
    BY <1>8, StraightSnouts
  <2>3. /\ hash_unit_mesh_params(o) = StraightKey(SnoutRatio(o), seg)
        /\ gen_unit_shape(o) = UnitSnout(UnitEnds(o)[1], UnitEnds(o)[2], seg)
        /\ UnitEnds(o)[1] \in Int /\ UnitEnds(o)[2] \in Int
    BY <2>1, StraightSnouts
  <2> HIDE DEF seg
  <2>4. SnoutRatio(o) = SnoutRatio(s) /\ seg = segment_counts(s)
    BY <2>2, <2>3 DEF StraightKey
  <2>5. (o.dbtm = 0) <=> (s.dbtm = 0)
    BY <1>8, <2>1 DEF Comparable
  <2> QED
    BY <1>8, <2>1, <2>3, <2>4, <2>5, StraightReproduced
<1>9. CASE s.kind = "Sphere"
  <2>1. o.kind = "Sphere"
    <3>1. TagOf(o) = "sphere"
      BY <1>1, <1>9, Tags
    <3> QED
      BY <1>2, <3>1, Tags DEF ShapeKinds
  <2>2. hash_unit_mesh_params(s) = <<"sphere", segment_counts(s)>>
    BY <1>9, SphereIsBrep DEF IsBrep
  <2>3. hash_unit_mesh_params(o) = <<"sphere", segment_counts(o)>> /\ gen_unit_shape(o) = SphereUnit(segment_counts(o))
    BY <2>1, SphereIsBrep DEF IsBrep
  <2>4. gen_unit_shape(o) = SphereUnit(segment_counts(s))
    BY <2>2, <2>3
  <2> QED
    BY <1>9, <2>4, SpheresReproduced
<1>10. CASE s.kind = "SBox"
  <2>1. o.kind = "SBox"
    <3>1. TagOf(o) = "1"
      BY <1>1, <1>10, Tags
    <3> QED
      BY <1>2, <3>1, Tags DEF ShapeKinds
  <2>2. gen_unit_shape(o) = SBox(Same)
    BY <2>1, BoxIsBrep DEF IsBrep
  <2> QED
    BY <1>10, <2>2, BoxesReproduced
<1>11. CASE s.kind = "Extrusion"
  <2>1. o.kind = "Extrusion"
    <3>1. TagOf(o) = "Extrusion"
      BY <1>1, <1>11, Tags
    <3> QED
      BY <1>2, <3>1, Tags DEF ShapeKinds
  <2>2. hash_unit_mesh_params(s) = <<"Extrusion", s.outline>>
    BY <1>11, ExtrusionIsBrep DEF IsBrep
  <2>3. hash_unit_mesh_params(o) = <<"Extrusion", o.outline>> /\ gen_unit_shape(o) = Extrusion(o.outline, 10000, o.curve)
    BY <2>1, ExtrusionIsBrep DEF IsBrep
  <2>4. s = Extrusion(s.outline, s.hei, "Fill") /\ o = Extrusion(o.outline, o.hei, "Fill")
    BY <1>11, <2>1 DEF IsShape, IsOther
  <2>5. s.curve = "Fill" /\ o.curve = "Fill"
    <3>1. ASSUME NEW outline, NEW hei PROVE Extrusion(outline, hei, "Fill").curve = "Fill"
      BY DEF Extrusion
    <3> QED
      BY <2>4, <3>1
  <2>6. gen_unit_shape(o) = Extrusion(s.outline, 10000, s.curve)
    BY <2>2, <2>3, <2>5
  <2> QED
    BY <1>11, <2>6, ExtrusionsReproduced
<1>12. CASE s.kind = "Revolution"
  <2>1. o.kind = "Revolution"
    <3>1. TagOf(o) = "Revolution"
      BY <1>1, <1>12, Tags
    <3> QED
      BY <1>2, <3>1, Tags DEF ShapeKinds
  <2>2. hash_unit_mesh_params(s) = <<"Revolution", s.outline, s.angle>>
        /\ get_trans(s).scale = Same /\ get_trans(s).turn = Upright
    BY <1>12, RevolutionIsBrep DEF IsBrep
  <2>3. hash_unit_mesh_params(o) = <<"Revolution", o.outline, o.angle>> /\ gen_unit_shape(o) = o
    BY <2>1, RevolutionIsBrep DEF IsBrep
  <2>4. s = Revolution(s.outline, s.angle) /\ o = Revolution(o.outline, o.angle)
    BY <1>12, <2>1 DEF IsShape, IsOther
  <2>5. o.outline = s.outline /\ o.angle = s.angle
    BY <2>2, <2>3
  <2>6. o = s
    BY <2>4, <2>5
  <2> QED
    BY <1>12, <2>2, <2>3, <2>6, OwnReproduced DEF IsAsItIs
<1>13. CASE s.kind \in {"Pyramid", "LPyramid"}
  <2>1. o.kind \in {"Pyramid", "LPyramid"}
    <3>1. TagOf(o) \in {"Pyramid", "LPyramid"}
      BY <1>1, <1>13, Tags
    <3> QED
      BY <1>2, <3>1, Tags DEF ShapeKinds
  <2>2. hash_unit_mesh_params(s) = <<s.kind, s>> /\ get_trans(s).scale = Same /\ get_trans(s).turn = Upright
    BY <1>13, OwnIsBrep DEF IsBrep
  <2>3. hash_unit_mesh_params(o) = <<o.kind, o>> /\ gen_unit_shape(o) = o
    BY <2>1, OwnIsBrep DEF IsBrep
  <2>4. o = s
    BY <2>2, <2>3
  <2> QED
    BY <1>13, <2>2, <2>3, <2>4, OwnReproduced DEF IsAsItIs
<1>14. CASE s.kind = "SweepSolid" /\ is_reuse_unit(s)
  <2>1. o.kind = "SweepSolid" /\ is_reuse_unit(o)
    <3>1. TagOf(o) = "loft"
      BY <1>1, <1>14, Tags
    <3> QED
      BY <1>2, <3>1, Tags DEF ShapeKinds
  <2>2. hash_unit_mesh_params(s) = <<"loft", s.profile>>
    BY <1>14, SweepIsBrep DEF IsBrep
  <2>3. hash_unit_mesh_params(o) = <<"loft", o.profile>> /\ gen_unit_shape(o) = UnitSweep(o)
    BY <2>1, SweepIsBrep DEF IsBrep
  <2>4. gen_unit_shape(o) = UnitSweep(s)
    BY <2>2, <2>3 DEF UnitSweep
  <2> QED
    BY <1>14, <2>4, SweepsReproduced
<1>15. CASE s.kind = "SweepSolid" /\ ~is_reuse_unit(s)
  <2>1. o.kind = "SweepSolid" /\ ~is_reuse_unit(o)
    <3>1. TagOf(o) = "own_loft"
      BY <1>1, <1>15, Tags
    <3> QED
      BY <1>2, <3>1, Tags DEF ShapeKinds
  <2>2. hash_unit_mesh_params(s) = <<"own_loft", s>> /\ get_trans(s).scale = LoftScale(s) /\ get_trans(s).turn = Upright
    BY <1>15, SweepIsBrep DEF IsBrep
  <2>3. hash_unit_mesh_params(o) = <<"own_loft", o>> /\ gen_unit_shape(o) = o
    BY <2>1, SweepIsBrep DEF IsBrep
  <2>4. o = s
    BY <2>2, <2>3
  <2>5. LoftScale(s) = Same
    <3>1. s.path[1] = "line" \/ s.path[1] = "arc"
      BY <1>15 DEF IsShape, IsOther
    <3> QED
      BY <1>15, <3>1 DEF is_reuse_unit, LoftScale
  <2> QED
    BY <1>15, <2>2, <2>3, <2>4, <2>5, OwnReproduced DEF IsAsItIs
<1> QED
  BY <1>2, <1>3, <1>4, <1>5, <1>6, <1>7, <1>8, <1>9, <1>10, <1>11, <1>12, <1>13, <1>14, <1>15 DEF ShapeKinds

(* Whatever elements are collected, in whatever order they are merged and   *)
(* their unit shapes written over one another, every shape is drawn with    *)
(* its own dimensions, facets, cuts and turn, up to the thousandth that     *)
(* keys are rounded to (gen_unit_shape, hash_unit_mesh_params and get_trans *)
(* of the primitives); what the code does not get right is excepted.        *)
THEOREM SolidsStayThemselves == UnitSpec => []SolidsAreReproduced
<1>1. MeshInv => SolidsAreReproduced
  <2> SUFFICES ASSUME MeshInv, NEW g \in Geometries(total), NEW row \in rows,
                      g.geo_hash # TUBI_GEO_HASH, row.id = g.geo_hash, ~Spoilt(g)
               PROVE  Alike(DrawnFrom(row.param, g.trans), Described(g.geo_param), Size(g.trans))
    BY DEF SolidsAreReproduced
  <2> DEFINE s == g.geo_param
  <2>1. IsInstance(g)
    BY GeometriesAreInstances DEF MeshInv
  <2>2. PICK h \in Geometries(total) : IsInstance(h) /\ row.id = h.geo_hash /\ row.param = gen_unit_shape(h.geo_param)
    BY RowsAreUnits
  <2> DEFINE o == h.geo_param
  <2>3. IsShape(s) /\ check_valid(s) /\ IsShape(o) /\ check_valid(o) /\ g.trans = get_trans(s)
        /\ hash_unit_mesh_params(o) = hash_unit_mesh_params(s)
    BY <2>1, <2>2 DEF IsInstance
  <2>4. NotSpoilt(s)
    BY DEF Spoilt, NotSpoilt
  <2>5. Comparable(s, o)
    <3> SUFFICES ASSUME s.kind = "LSnout", o.kind = "LSnout"
                 PROVE  (o.dbtm = 0) <=> (s.dbtm = 0)
      BY DEF Comparable
    <3>1. ~SharedPoint(g)
      BY DEF Spoilt
    <3>2. h.geo_hash = g.geo_hash
      BY <2>2
    <3> QED
      BY <3>1, <3>2 DEF SharedPoint
  <2>6. Reproduced(s, o)
    BY <2>3, <2>4, <2>5, SameKeyReproduced
  <2> QED
    BY <2>2, <2>3, <2>6 DEF Reproduced
<1> QED
  BY <1>1, MeshInvHolds, PTL
=============================================================================
