----------------------------- MODULE Attributes -----------------------------
(***************************************************************************)
(* The attributes of an element on their way: read from the design file as  *)
(* implicit and explicit values (WholeAttMap), put together, written to its *)
(* record, its user-defined ones to a record of their own and its row to    *)
(* table pe, as the latest state or as that of a session, and loaded again  *)
(* (types/attmap.rs, named_attmap.rs, whole_attmap.rs, pe.rs).              *)
(*                                                                         *)
(* In what order a program does this is up to it.  Meanwhile other elements *)
(* get new sessions.                                                        *)
(***************************************************************************)
EXTENDS AttrValues, FiniteSets, FiniteSetsExt

CONSTANTS
  Elements,    \* what files hold: [implicit, explicit, uda], attributes by name
  Infos,       \* PdmsDatabaseInfo: noun, attribute -> [offset, default]
  Udas,        \* the dictionary: "UDA:..." -> [name, type, default]
  MaxSession,
  ExcludeSets

VARIABLES element, whole, att, origin, saved, excluded, record, udaRecord, row, sessions
attrVars == <<element, whole, att, origin, saved, excluded, record, udaRecord, row, sessions>>

None == <<>>
Without(f, keys) == [k \in DOMAIN f \ keys |-> f[k]]
Only(f, Test(_)) == [k \in {n \in DOMAIN f : Test(n)} |-> f[k]]

-----------------------------------------------------------------------------
(* NamedAttrMap.                                                            *)
Val(a, key) == IF key \in DOMAIN a THEN a[key] ELSE Invalid
get_type(a) == IF Val(a, "TYPE")[1] = "StringType" THEN a["TYPE"][2] ELSE UNSET_STR
get_refno_by_att(a, key) ==
  LET v == Val(a, key) IN
  CASE v[1] = "RefU64Type" -> Latest(v[2])
    [] v[1] = "RefnoEnumType" -> v[2]
    [] OTHER -> Unset
get_string(a, key) == IF Val(a, key)[1] = "StringType" THEN a[key][2] ELSE ""
get_str_or_default_plain(a, key) == IF Val(a, key)[1] = "StringType" THEN a[key][2] ELSE UNSET_STR
get_str_or_default(a, key) ==
  IF Val(a, key)[1] \in {"StringType", "WordType", "ElementType"} THEN a[key][2] ELSE UNSET_STR
get_i32(a, key) == IF Val(a, key)[1] = "IntegerType" THEN a[key][2] ELSE 0
get_as_string(a, key) == IF key \in DOMAIN a THEN TextOf(a[key]) ELSE <<"text", UNSET_STR>>
get_f32_vec(a, key) == IF Val(a, key)[1] \in {"F32VecType", "Vec3Type"} THEN a[key][2] ELSE <<>>
get_vec3(a, key) == IF Val(a, key)[1] = "Vec3Type" THEN a[key][2] ELSE <<0, 0, 0>>
OfAttrMap(m) == [k \in DOMAIN m |-> OfAttrVal(m[k])]

(* fill_explicit_default_values: the explicit attributes that are missing.  *)
InfoOf(noun) == IF noun \in DOMAIN Infos THEN Infos[noun] ELSE <<>>
Explicit(noun) == Only(InfoOf(noun), LAMBDA k : InfoOf(noun)[k].offset = 0)
Defaults(noun) == [k \in DOMAIN Explicit(noun) |-> OfAttrVal(Explicit(noun)[k].default)]
fill_explicit_default_values(a) == a ++ Defaults(get_type(a))

(* What a catalogue hash may depend on, but for the reference of its element. *)
Hashed == {"SPRE", "CATR", "DESP", "ANGL", "HEIG", "RADI", "DRNS", "DRNE", "POSS", "POSE", "JUSL"}

(* The hash by which elements share catalogue geometry, from what their     *)
(* shape hangs on; of elements that share none it is their own refno.       *)
CATA_WITHOUT_REUSE == {"WALL", "NOZZ", "SCTN"}
Distance(a) ==
  LET s == get_vec3(a, "POSS") e == get_vec3(a, "POSE") d == [i \in 1 .. 3 |-> e[i] - s[i]]
  IN d[1] * d[1] + d[2] * d[2] + d[3] * d[3]
Ends(a) ==
  IF {"DRNS", "DRNE"} \subseteq DOMAIN a
  THEN <<get_as_string(a, "DRNS"), get_as_string(a, "DRNE"), Distance(a)>> ELSE <<>>
cal_cata_hash(a) ==
  LET noun == get_type(a) spref == IF noun \in {"NOZZ", "ELCONN"} THEN "CATR" ELSE "SPRE" IN
  IF spref \in DOMAIN a /\ noun \notin CATA_WITHOUT_REUSE
  THEN << <<get_as_string(a, spref)>>, get_f32_vec(a, "DESP"), get_as_string(a, "ANGL"), get_as_string(a, "HEIG"),
          get_as_string(a, "RADI"), Ends(a), get_str_or_default(a, "JUSL")>>
  ELSE <<get_refno_by_att(a, "REFNO")>>

-----------------------------------------------------------------------------
(* Writing.                                                                 *)
IsUda(key) == key \in DOMAIN Udas
Fields(a) == Without(a, {"REFNO"} \union DOMAIN Udas)
Plain(a) == Only(Fields(a), LAMBDA k : ~IsRefU64(a[k]) /\ a[k][1] # "RefU64Array")
Single(a) == Only(Fields(a), LAMBDA k : IsRefU64(a[k]))
Lists(a) == Only(Fields(a), LAMBDA k : a[k][1] = "RefU64Array")
Things(es) == <<"Array", Mapped(Thing, es)>>
PlainJson(a) == [k \in DOMAIN Plain(a) |-> into_json(a[k])] ++ [TYPE |-> Strand(get_type(a))]

(* The latest state.  An excluded attribute is left out, a reference only   *)
(* if it is unset.                                                          *)
DropSessions(es) == [i \in DOMAIN es |-> Latest(es[i].refno)]
gen_sur_json_exclude(a, excludes) ==
  LET refno == get_refno_by_att(a, "REFNO")
      one == Only(Single(a), LAMBDA k : ~(refno_value(a[k]) = 0 /\ k \in excludes))
      many == Only(Lists(a), LAMBDA k : ~(a[k][2] = <<>> /\ k \in excludes))
  IN Without(PlainJson(a), excludes) ++ [id |-> <<"IdText", refno>>, REFNO |-> Thing(refno)]
     ++ [k \in DOMAIN one |-> Thing(Latest(refno_value(a[k])))]
     ++ [k \in DOMAIN many |-> Things(DropSessions(a[k][2]))]

(* The state of a session: references carry the session of sesno_map, if it *)
(* is not 0; unset ones and empty lists are left out.                       *)
AtSession(r, sesno_map) ==
  IF r \in DOMAIN sesno_map /\ sesno_map[r] # 0 THEN [refno |-> r, sesno |-> <<sesno_map[r]>>] ELSE Latest(r)
gen_sur_json_with_sesno(a, sesno, sesno_map) ==
  LET refno == get_refno_by_att(a, "REFNO").refno
      this == [refno |-> refno, sesno |-> <<sesno>>]
      one == Only(Single(a), LAMBDA k : refno_value(a[k]) # 0)
      many == Only(Lists(a), LAMBDA k : a[k][2] # <<>>)
  IN PlainJson(a) ++ [id |-> <<"IdText", this>>, REFNO |-> Thing(this)]
     ++ [k \in DOMAIN one |-> Thing(AtSession(refno_value(a[k]), sesno_map))]
     ++ [k \in DOMAIN many |-> Things([i \in DOMAIN a[k][2] |-> AtSession(a[k][2][i].refno, sesno_map)])]

gen_sur_json_uda(a) == [k \in DOMAIN Only(a, IsUda) |-> ToUda(a[k])]

(* SPdmsElement: the row of table pe.  Its refno is a link to the record of  *)
(* the element in the table of its noun: to the latest one from the row of  *)
(* the latest state, whatever session the element itself names.             *)
pe(a) == [refno |-> get_refno_by_att(a, "REFNO"), owner |-> get_refno_by_att(a, "OWNER"),
          name |-> get_string(a, "NAME"), noun |-> get_type(a), cata_hash |-> cal_cata_hash(a), sesno |-> get_i32(a, "SESNO")]
pe_gen_sur_json(p) == [p EXCEPT !.refno = Latest(p.refno.refno)]
pe_gen_sur_json_with_sesno_own(p, sesno, owner_sesno) == [p EXCEPT !.refno = [refno |-> p.refno.refno, sesno |-> <<sesno>>]]
pe_gen_sur_json_with_sesno(p, sesno, owner_sesno) ==
  [p EXCEPT !.refno = [refno |-> p.refno.refno, sesno |-> <<sesno>>],
            !.owner = IF owner_sesno # 0 THEN [refno |-> p.owner.refno, sesno |-> <<owner_sesno>>] ELSE p.owner]

(* The session in force of an element at a session and its latest one       *)
(* (fn::latest_pe_sesno): those that are not the latest go into the map.    *)
InForce(r, sesno) == LET upto == {s \in sessions[r] : s <= sesno} IN IF upto = {} THEN 0 ELSE Max(upto)
query_refno_sesno(r, sesno) == <<InForce(r, sesno), IF sessions[r] = {} THEN 0 ELSE Max(sessions[r])>>
References(a) ==
  {a[k][2] : k \in {n \in DOMAIN a : a[n][1] = "RefU64Type"}}
  \union UNION {{a[k][2][i].refno : i \in DOMAIN a[k][2]} : k \in {n \in DOMAIN a : a[n][1] = "RefU64Array"}}
build_refno_sesno_map_latest(a, sesno) ==
  [r \in {x \in References(a) \intersect DOMAIN sessions : InForce(x, sesno) = query_refno_sesno(x, sesno)[2]} |-> InForce(r, sesno)]
build_refno_sesno_map(a, sesno) ==
  LET old == {r \in References(a) \intersect DOMAIN sessions :
                query_refno_sesno(r, sesno)[1] # query_refno_sesno(r, sesno)[2]}
  IN [r \in old |-> query_refno_sesno(r, sesno)[1]]

-----------------------------------------------------------------------------
(* Loading: the declared attributes of the record, then every user-defined  *)
(* attribute of the dictionary, its default first, the element's own after. *)
OfEveryNoun == {"PGNO", "SESNO", "REFNO", "OWNER", "TYPE"}
Declared(noun, key) ==
  CASE key \in {"PGNO", "SESNO"} -> "IntegerType"
    [] key \in {"REFNO", "OWNER"} -> "RefU64Type"
    [] key = "TYPE" -> "StringType"
    [] key \in DOMAIN InfoOf(noun) \ OfEveryNoun -> InfoOf(noun)[key].default[1]
    [] OTHER -> "nothing known"
OfRecord(rec) ==
  IF "TYPE" \notin DOMAIN rec \/ rec["TYPE"][1] # "Strand" THEN Nothing
  ELSE LET known == {k \in DOMAIN rec : Declared(rec["TYPE"][2], k) # "nothing known"}
       IN [k \in known |-> OfField(Declared(rec["TYPE"][2], k), rec[k])]
Named(keys) == {Udas[k].name : k \in keys}
KeyOf(name) == CHOOSE k \in DOMAIN Udas : Udas[k].name = name
Heeded(keys) == {k \in keys : Udas[k].name \notin {":NONE", ":unset", ""}}
get_named_attmap_with_uda_defaulted(rec, own) ==
  [n \in Named(Heeded(DOMAIN Udas)) |-> OfUda(Udas[KeyOf(n)].type, Udas[KeyOf(n)].default)] ++ OfRecord(rec)
get_named_attmap_with_uda(rec, own) ==
  [n \in Named(Heeded(DOMAIN own)) |-> OfUda(Udas[KeyOf(n)].type, own[KeyOf(n)])]
  ++ [n \in Named(Heeded(DOMAIN Udas)) |-> OfUda(Udas[KeyOf(n)].type, Udas[KeyOf(n)].default)]
  ++ OfRecord(rec)

(* WholeAttMap: refine lets explicit values the noun knows into the implicit *)
(* ones, and forgets those that have their place there; then both are put   *)
(* together, with explicit values first or last.                            *)
refine_without_insert(w, noun) ==
  LET placed == {k \in DOMAIN w.explicit \intersect DOMAIN InfoOf(noun) : InfoOf(noun)[k].offset > 0}
  IN [attmap |-> w.attmap, explicit |-> Without(w.explicit, placed), refined |-> TRUE]
refine(w, noun) ==
  LET known == DOMAIN w.explicit \intersect DOMAIN InfoOf(noun)
      placed == {k \in known : InfoOf(noun)[k].offset > 0}
  IN [attmap |-> Only(w.explicit, LAMBDA k : k \in known) ++ w.attmap, explicit |-> Without(w.explicit, placed), refined |-> TRUE]
change_implicit_explicit_into_attr(w) == w.explicit ++ w.attmap
merge(w) == w.attmap ++ w.explicit

-----------------------------------------------------------------------------
Parse ==
  /\ whole = None
  /\ whole' = <<[attmap |-> OfAttrMap(element.implicit) ++ element.uda, explicit |-> OfAttrMap(element.explicit), refined |-> FALSE]>>
  /\ UNCHANGED <<element, att, origin, saved, excluded, record, udaRecord, row, sessions>>
Refine ==
  /\ whole # None
  /\ whole' = <<refine(whole[1], get_type(whole[1].attmap))>>
  /\ UNCHANGED <<element, att, origin, saved, excluded, record, udaRecord, row, sessions>>
Join ==
  /\ whole # None /\ origin = "nowhere"
  /\ \E a \in {change_implicit_explicit_into_attr(whole[1]), merge(whole[1])} : att' = a
  /\ origin' = "file"
  /\ UNCHANGED <<element, whole, saved, excluded, record, udaRecord, row, sessions>>
Fill ==
  /\ origin # "nowhere"
  /\ att' = fill_explicit_default_values(att)
  /\ origin' = IF att' = att THEN origin ELSE "filled"
  /\ UNCHANGED <<element, whole, saved, excluded, record, udaRecord, row, sessions>>

(* Nothing user-defined, nothing written to its record.                     *)
SaveUda == udaRecord' = IF gen_sur_json_uda(att) = Nothing THEN udaRecord ELSE gen_sur_json_uda(att)
Save(excludes) ==
  /\ origin # "nowhere"
  /\ record' = gen_sur_json_exclude(att, excludes)
  /\ row' = <<pe_gen_sur_json(pe(att))>>
  /\ SaveUda
  /\ saved' = [at |-> 0, att |-> att, sessions |-> sessions]
  /\ excluded' = excludes
  /\ UNCHANGED <<element, whole, att, origin, sessions>>
SaveAt(sesno) ==
  /\ origin # "nowhere"
  /\ LET sesno_map == build_refno_sesno_map(att, sesno)
         owner == pe(att).owner.refno
     IN /\ record' = gen_sur_json_with_sesno(att, sesno, sesno_map)
        /\ row' = <<pe_gen_sur_json_with_sesno(pe(att), sesno, IF owner \in DOMAIN sesno_map THEN sesno_map[owner] ELSE 0)>>
  /\ SaveUda
  /\ saved' = [at |-> sesno, att |-> att, sessions |-> sessions]
  /\ excluded' = {}
  /\ UNCHANGED <<element, whole, att, origin, sessions>>
Load ==
  /\ row # None
  /\ att' = get_named_attmap_with_uda(record, udaRecord)
  /\ origin' = "database"
  /\ UNCHANGED <<element, whole, saved, excluded, record, udaRecord, row, sessions>>
Change(r) ==
  /\ sessions[r] # {} /\ Max(sessions[r]) < MaxSession
  /\ sessions' = [sessions EXCEPT ![r] = @ \union {Max(@) + 1}]
  /\ UNCHANGED <<element, whole, att, origin, saved, excluded, record, udaRecord, row>>

AttrInit ==
  /\ element \in Elements
  /\ whole = None /\ att = Nothing /\ origin = "nowhere"
  /\ saved = [at |-> 0, att |-> Nothing, sessions |-> <<>>] /\ excluded = {}
  /\ record = Nothing /\ udaRecord = Nothing /\ row = None
  /\ sessions = element.sessions
AttrNext ==
  \/ Parse \/ Refine \/ Join \/ Fill \/ Load
  \/ \E x \in ExcludeSets : Save(x)
  \/ \E s \in 1 .. MaxSession : SaveAt(s)
  \/ \E r \in DOMAIN sessions : Change(r)
AttrSpec == AttrInit /\ [][AttrNext]_attrVars

(* What the files and the dictionary are like: an element has its noun among *)
(* its implicit attributes and nowhere else, and user-defined attributes are *)
(* named apart from the others.                                             *)
NounOf(e) == get_type(OfAttrMap(e.implicit))
NamesAreApart ==
  /\ {"TYPE", "OWNER"} \intersect (DOMAIN Udas \union Named(DOMAIN Udas)) = {}
  /\ \A x \in ExcludeSets : "TYPE" \notin x
  /\ \A e \in Elements :
       /\ "TYPE" \in DOMAIN e.implicit \ (DOMAIN e.explicit \union DOMAIN e.uda)
       /\ e.implicit["TYPE"][1] = "StringType" /\ NounOf(e) # NulText
       /\ DOMAIN e.uda \intersect DOMAIN InfoOf(NounOf(e)) = {}

(* What the dictionary is like: it names its attributes apart, the values of *)
(* an element are of its types, and no other attribute has such a name.     *)
UdaVariants(tn) ==
  CASE tn = "TEXT" -> {"StringType", "StringArrayType"}
    [] tn = "REAL" -> {"F32Type", "F32VecType"}
    [] tn = "INT" -> {"IntegerType", "IntArrayType"}
    [] tn = "BOOL" -> {"BoolType", "BoolArrayType"}
    [] tn = "REF" -> {"RefU64Type", "RefU64Array"}
    [] tn \in {"DIR", "POS"} -> {"F32VecType", "Vec3Type"}
    [] OTHER -> {}
UdasAreTyped ==
  /\ \A k, l \in DOMAIN Udas : Udas[k].name = Udas[l].name => k = l
  /\ \A noun \in DOMAIN Infos : DOMAIN Infos[noun] \intersect (DOMAIN Udas \union Named(DOMAIN Udas)) = {}
  /\ DOMAIN Udas \intersect Named(DOMAIN Udas) = {} /\ (OfEveryNoun \union Hashed) \intersect (DOMAIN Udas \union Named(DOMAIN Udas)) = {}
  /\ \A e \in Elements :
       /\ (DOMAIN e.implicit \union DOMAIN e.explicit) \intersect DOMAIN Udas = {}
       /\ \A k \in DOMAIN e.uda \intersect DOMAIN Udas :
            /\ e.uda[k][1] \in UdaVariants(Udas[k].type) /\ WellFormed(e.uda[k])
            /\ e.uda[k][1] = "RefU64Array" => \A i \in DOMAIN e.uda[k][2] : e.uda[k][2][i].sesno = <<>>

(* What the nouns and the files are like: an attribute has the type its noun *)
(* declares, a word perhaps as a text, and an element its own reference.    *)
HasItsType(v, declared) ==
  declared # "nothing known" =>
    WellFormed(v) /\ (v[1] = declared \/ (declared = "WordType" /\ v[1] = "StringType"))
FilesAreTyped ==
  /\ \A noun \in DOMAIN Infos : \A k \in DOMAIN Infos[noun] :
       k # "id" /\ HasItsType(Infos[noun][k].default, Declared(noun, k))
  /\ \A e \in Elements :
       /\ \A half \in {e.implicit, e.explicit} : \A k \in DOMAIN half : HasItsType(half[k], Declared(NounOf(e), k))
       /\ "REFNO" \in DOMAIN e.implicit \ DOMAIN e.explicit /\ e.implicit["REFNO"][2] # 0
       /\ DOMAIN e.uda \intersect OfEveryNoun = {}

-----------------------------------------------------------------------------
(* References mean their element, vectors their coordinates, words their    *)
(* text; an unset reference and an empty list mean what a missing one does. *)
Nowhere == <<"nothing", <<>> >>
Meaning(v) ==
  CASE v[1] = "RefU64Type" -> IF v[2] = 0 THEN Nowhere ELSE <<"element", v[2]>>
    [] v[1] = "RefnoEnumType" -> <<"element", v[2].refno>>
    [] v[1] = "RefU64Array" -> IF v[2] = <<>> THEN Nowhere ELSE <<"elements", [i \in DOMAIN v[2] |-> v[2][i].refno]>>
    [] v[1] \in {"StringType", "WordType"} -> <<"text", v[2]>>
    [] v[1] \in {"F32VecType", "Vec3Type"} -> <<"numbers", v[2]>>
    [] v[1] = "InvalidType" -> Nowhere
    [] OTHER -> v
Loaded == origin = "database"
Lossy == {"ElementType", "StringHashType", "InvalidType", "nothing known"}
(* What no record holds: attributes the noun does not know or declares by a *)
(* type that is not read, references to a session, texts with a zero        *)
(* character, doubles that are no single.                                   *)
Survives(a, k) ==
  /\ Declared(get_type(a), k) \notin Lossy
  /\ a[k][1] # "RefnoEnumType"
  /\ a[k][1] = "StringType" => a[k][2] \notin {NulText, HugeNumber}

(* What is loaded means what was saved, in whatever form and however often  *)
(* (gen_sur_json*, From<SurlValue>).                                        *)
AttributesComeBack ==
  Loaded => \A k \in DOMAIN saved.att \ excluded :
    Survives(saved.att, k) => Meaning(Val(att, k)) = Meaning(saved.att[k])

(* The user-defined attributes of the file are those of the element after   *)
(* any saves and loads, though saving a loaded element does not write them  *)
(* (gen_sur_json_uda, get_named_attmap_with_uda).                           *)
UdasComeBack ==
  Loaded => \A k \in DOMAIN element.uda \intersect DOMAIN Udas :
    Heeded({k}) # {} => Meaning(Val(att, Udas[k].name)) = Meaning(element.uda[k])

(* Saving what was just loaded writes what the record holds already: it     *)
(* does not decay from round to round, but for what it never held.          *)
SavingAgainChangesNothing ==
  Loaded /\ saved.at = 0 /\ excluded = {} =>
    LET again == gen_sur_json_exclude(att, {}) IN
    \A k \in DOMAIN again \ Named(DOMAIN Udas) :
      k \notin DOMAIN saved.att \/ Survives(saved.att, k) => again[k] = record[k]

(* The hash of a loaded element is the one its row of pe was saved with, so *)
(* that it keeps sharing its catalogue geometry: unless its ends, plain     *)
(* vectors in the file, were not yet points, or SPRE names a session.       *)
EndsAreRead(a) ==
  {"DRNS", "DRNE"} \subseteq DOMAIN a => \A k \in {"POSS", "POSE"} : Val(a, k)[1] \in {"Vec3Type", "InvalidType"}
CataHashComesBack ==
  Loaded /\ saved.at = 0 /\ excluded = {} /\ EndsAreRead(saved.att)
    /\ (\A k \in DOMAIN saved.att \intersect Hashed : Survives(saved.att, k))
  => cal_cata_hash(att) = row[1].cata_hash

(* Each reference of a session's record leads to the state its element had  *)
(* then, as long as that element gets no later one: an element unknown then *)
(* is taken as it is now (build_refno_sesno_map, gen_sur_json_with_sesno).  *)
ThingsOf(x) == IF x[1] = "Thing" THEN {x[2]} ELSE IF x[1] # "Array" THEN {} ELSE {x[2][i][2] : i \in {j \in DOMAIN x[2] : x[2][j][1] = "Thing"}}
HistoryMeansItsTime ==
  saved.at > 0 => \A k \in DOMAIN record \ {"id", "REFNO"} : \A e \in ThingsOf(record[k]) :
    e.refno \in DOMAIN sessions /\ sessions[e.refno] = saved.sessions[e.refno] /\ InForce(e.refno, saved.at) # 0
    => (IF e.sesno = <<>> THEN Max(sessions[e.refno]) ELSE e.sesno[1]) = InForce(e.refno, saved.at)

(* The row of pe and the attribute record of an element lead to each other: *)
(* to the same state of the same element, under the same state of the same  *)
(* owner (SPdmsElement against NamedAttrMap).  Only an element loaded as of *)
(* a session and saved as the latest keeps the session in its record, and   *)
(* its row then leads to the record of its latest state.                    *)
RowAndRecordAgree ==
  row # None =>
    LET this == record["REFNO"][2] own == get_refno_by_att(saved.att, "REFNO") IN
    /\ this.refno = row[1].refno.refno /\ record["TYPE"] = Strand(row[1].noun)
    /\ this.sesno = row[1].refno.sesno \/ (saved.at = 0 /\ own.sesno # <<>>)
    /\ Val(saved.att, "OWNER")[1] = "RefU64Type" /\ row[1].owner.refno # 0 => record["OWNER"] = Thing(row[1].owner)

(* After refine an attribute the noun knows is the explicit one of the file, *)
(* if there is one, whichever way both kinds are put together (WholeAttMap). *)
ExplicitWins ==
  whole # None /\ whole[1].refined =>
    LET said == OfAttrMap(element.explicit) ++ OfAttrMap(element.implicit)
    IN \A k \in DOMAIN InfoOf(get_type(said)) : \A a \in {change_implicit_explicit_into_attr(whole[1]), merge(whole[1])} :
         Val(a, k) = Val(said, k)
=============================================================================
