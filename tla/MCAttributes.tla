---------------------------- MODULE MCAttributes ----------------------------
(* Elements, nouns and a dictionary for Attributes: element 1 under owner 8, *)
(* with references to 8 and 9, which come and go by sessions.               *)
EXTENDS AttrValues, TLC

Ref(r) == <<"RefU64Type", r>>
Text(s) == <<"StringType", s>>
Word(s) == <<"WordType", s>>
Whole(n) == <<"IntegerType", n>>
Real(x) == <<"DoubleType", x>>
Reals(s) == <<"DoubleArrayType", s>>
Point(s) == <<"Vec3Type", s>>
Refs(s) == <<"RefU64Array", s>>
At(offset, default) == [offset |-> offset, default |-> default]
Always == [NAME |-> At(1, Text("")), OWNER |-> At(2, Ref(0)), SPRE |-> At(3, Ref(0)), CATR |-> At(4, Ref(0))]
MCInfos ==
  [NOZZ |-> Always,
   VALV |-> Always @@ [ANGL |-> At(5, Real(0)), HEIG |-> At(6, Real(0)), DESP |-> At(7, Reals(<<>>)), POS |-> At(8, Point(<<0, 0, 0>>)),
                       LOCK |-> At(9, <<"BoolType", FALSE>>), DESC |-> At(0, Text("")), FUNC |-> At(0, Word("")), CRFA |-> At(0, Refs(<<>>)),
                       HOLE |-> At(0, <<"ElementType", "">>), KIND |-> At(10, <<"StringHashType", 0>>), JUSL |-> At(16, Word(""))],
   SCTN |-> Always @@ [JUSL |-> At(11, Word("")), DRNS |-> At(12, Point(<<0, 0, 1>>)), DRNE |-> At(13, Point(<<0, 0, 1>>))],
   GENS |-> Always @@ [POSS |-> At(14, Point(<<0, 0, 0>>)), POSE |-> At(15, Point(<<0, 0, 0>>)), JUSL |-> At(16, Word("")),
                       DRNS |-> At(12, Point(<<0, 0, 1>>)), DRNE |-> At(13, Point(<<0, 0, 1>>)), MARK |-> At(17, <<"StringArrayType", <<>>>>),
                       NUMS |-> At(18, <<"IntArrayType", <<>>>>), FLAG |-> At(19, <<"BoolArrayType", <<>>>>), DESC |-> At(0, Text(""))]]
Uda(name, type, default) == [name |-> name, type |-> type, default |-> default]
Boxed(x) == <<"Object", x>>
MCUdas ==
  "UDA:1" :> Uda(":CODE", "TEXT", Boxed(Strand("none"))) @@ "UDA:2" :> Uda(":WEIGHT", "REAL", Boxed(Number(1)))
  @@ "UDA:3" :> Uda(":LINKS", "REF", Boxed(<<"Array", <<>> >>)) @@ "UDA:4" :> Uda(":NONE", "INT", Boxed(Number(0)))
  @@ "UDA:5" :> Uda(":HOME", "REF", Thing(Unset))

Base(noun, owner, spre) ==
  [TYPE |-> Text(noun), REFNO |-> Ref(1), OWNER |-> Ref(owner), NAME |-> Text("/A"), SPRE |-> Ref(spre)]
Valve == Base("VALV", 8, 9) @@ [ANGL |-> Real(90), HEIG |-> Real(200), DESP |-> Reals(<<1, 2>>), POS |-> Point(<<1, 2, 3>>),
                                LOCK |-> <<"BoolType", TRUE>>, KIND |-> <<"StringHashType", 7>>, SESNO |-> Whole(3), JUSL |-> Word("NA")]
Nozzle == Base("NOZZ", 8, 0) @@ [CATR |-> Ref(9)]
Wall(noun) == Base(noun, 8, 9) @@ [POSS |-> Point(<<0, 0, 0>>), POSE |-> Point(<<0, 0, 7>>), DRNS |-> Point(<<0, 0, 1>>), DRNE |-> Point(<<0, 1, 1>>),
                  JUSL |-> Word("NA"), MARK |-> <<"StringArrayType", <<"a", "b">>>>, NUMS |-> <<"IntArrayType", <<4>>>>, FLAG |-> <<"BoolArrayType", <<TRUE, FALSE>>>>]
Both == 8 :> {1} @@ 9 :> {1, 2}
Of(i, e, u, s) == [implicit |-> i, explicit |-> e, uda |-> u, sessions |-> s]
MCElements ==
  {Of(Valve, [DESC |-> Text("d"), FUNC |-> Text("f"), CRFA |-> Refs(<<8, 9>>)], "UDA:1" :> Text("c") @@ "UDA:3" :> <<"RefU64Array", <<Latest(8)>>>>, Both),
   Of(Valve, [DESC |-> Text(NulText), HOLE |-> <<"ElementType", "/W">>, ANGL |-> Real(45)], "UDA:2" :> <<"F32Type", 5>> @@ "UDA:4" :> Whole(3) @@ "UDA:5" :> Ref(9), Both),
   Of([Valve EXCEPT !.OWNER = Ref(0), !.SPRE = Ref(0), !.HEIG = Real(MaxF32 + 1)], Nothing, Nothing, Both),
   Of(Nozzle, [DESC |-> Text("d")], Nothing, 8 :> {1, 2} @@ 9 :> {2}),
   Of(Wall("SCTN"), Nothing, Nothing, Both),
   Of(Wall("GENS"), [DESC |-> Text("d")], Nothing, Both)}
=============================================================================
