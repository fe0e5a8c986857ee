----------------------------- MODULE AttrValues -----------------------------
(***************************************************************************)
(* Attribute values (types/attval.rs, types/named_attvalue.rs): as the      *)
(* design files give them (AttrVal), as the program keeps them              *)
(* (NamedAttrValue), and as the database takes and returns them (SurlValue). *)
(*                                                                         *)
(* A value is a pair of its variant's name and its data.  Numbers are       *)
(* integers, MaxF32 the largest of single precision; a text is a name, and  *)
(* NulText stands for the texts that hold a zero character.                 *)
(***************************************************************************)
EXTENDS Integers, Sequences

MaxF32 == 1000
NulText == "nul_text"
HugeNumber == "1e300"
Dehashed == "dehashed"
UNSET_STR == "unset"
Unset == [refno |-> 0, sesno |-> <<>>]       \* RefnoEnum::default()
Latest(r) == [refno |-> r, sesno |-> <<>>]
(* An attribute of both is that of the first.                               *)
f ++ g == [k \in DOMAIN f \union DOMAIN g |-> IF k \in DOMAIN f THEN f[k] ELSE g[k]]
Mapped(f(_), s) == [i \in DOMAIN s |-> f(s[i])]
Invalid == <<"InvalidType", "">>
Nothing == [k \in {} |-> Invalid]        \* no attributes

(* The data a variant holds.                                                *)
IsList(s) == s = [i \in DOMAIN s |-> s[i]]
WellFormed(v) ==
  /\ v = <<v[1], v[2]>>
  /\ v[1] = "BoolType" => v[2] \in BOOLEAN
  /\ v[1] \in {"F32VecType", "IntArrayType", "DoubleArrayType", "StringArrayType", "BoolArrayType", "RefU64Array"} => IsList(v[2])
  /\ v[1] = "BoolArrayType" => \A i \in DOMAIN v[2] : v[2][i] \in BOOLEAN
  /\ v[1] = "Vec3Type" => v[2] \in [1 .. 3 -> Int]

(* From<&AttrVal>: a vector becomes a list, names become plain texts.       *)
OfAttrVal(v) ==
  CASE v[1] \in {"IntegerType", "StringType", "StringArrayType", "BoolArrayType", "IntArrayType", "BoolType", "RefU64Type"} -> v
    [] v[1] = "DoubleType" -> IF v[2] > MaxF32 THEN <<"StringType", HugeNumber>> ELSE <<"F32Type", v[2]>>
    [] v[1] \in {"DoubleArrayType", "Vec3Type"} -> <<"F32VecType", v[2]>>
    [] v[1] \in {"ElementType", "WordType"} -> <<"StringType", v[2]>>
    [] v[1] = "StringHashType" -> <<"IntegerType", v[2]>>
    [] v[1] = "RefU64Array" -> <<"RefU64Array", Mapped(Latest, v[2])>>
    [] OTHER -> Invalid

-----------------------------------------------------------------------------
(* What the database holds.                                                 *)
Number(n) == <<"Number", n>>
Strand(s) == <<"Strand", s>>
Bool(b) == <<"Bool", b>>
Thing(e) == <<"Thing", e>>               \* a record of table pe
Null == <<"Null", "">>

Cleaned(s) == Strand(IF s = NulText THEN "" ELSE s)
(* Into<serde_json::Value>, for values written as plain fields.  The        *)
(* references that reach it, those of a session, become null.               *)
into_json(v) ==
  CASE v[1] \in {"IntegerType", "F32Type"} -> Number(v[2])
    [] v[1] = "BoolType" -> Bool(v[2])
    [] v[1] \in {"StringType", "WordType"} -> Cleaned(v[2])
    [] v[1] \in {"F32VecType", "Vec3Type", "IntArrayType"} -> <<"Array", Mapped(Number, v[2])>>
    [] v[1] = "StringArrayType" -> <<"Array", Mapped(Strand, v[2])>>
    [] v[1] = "BoolArrayType" -> <<"Array", Mapped(Bool, v[2])>>
    [] OTHER -> Null
refno_value(v) == IF v[1] = "RefU64Type" THEN v[2] ELSE 0
IsRefU64(v) == v[1] \in {"RefU64Type", "ElementType"}

(* try_into().unwrap_or_default() of one value and of a list.               *)
AsNumber(x) == IF x[1] = "Number" THEN x[2] ELSE 0
AsText_quoted(x) == IF x[1] = "Strand" THEN "'" \o x[2] \o "'" ELSE ""
AsText(x) == IF x[1] = "Strand" THEN x[2] ELSE ""
AsBool(x) == x[1] = "Bool" /\ x[2]
AsList(x) == IF x[1] = "Array" THEN x[2] ELSE <<>>
AsRefno_latest(x) == IF x[1] = "Thing" /\ x[2].sesno = <<>> THEN x[2] ELSE Unset
AsRefno(x) == IF x[1] = "Thing" THEN x[2] ELSE Unset
OfThing(e) == IF e.sesno = <<>> THEN <<"RefU64Type", e.refno>> ELSE <<"RefnoEnumType", e>>

(* From<SurlValue> of one field, by the variant its attribute is declared   *)
(* with.                                                                    *)
OfField(declared, x) ==
  CASE declared = "IntegerType" -> <<"IntegerType", AsNumber(x)>>
    [] declared = "StringType" -> <<"StringType", AsText(x)>>
    [] declared = "WordType" -> <<"WordType", IF x[1] = "Number" THEN Dehashed ELSE AsText(x)>>
    [] declared = "DoubleType" -> <<"F32Type", AsNumber(x)>>
    [] declared = "DoubleArrayType" -> <<"F32VecType", Mapped(AsNumber, AsList(x))>>
    [] declared = "Vec3Type" ->
         LET p == Mapped(AsNumber, AsList(x)) IN <<"Vec3Type", IF Len(p) < 3 THEN <<0, 0, 0>> ELSE SubSeq(p, 1, 3)>>
    [] declared = "StringArrayType" -> <<"StringArrayType", Mapped(AsText, AsList(x))>>
    [] declared = "BoolArrayType" -> <<"BoolArrayType", Mapped(AsBool, AsList(x))>>
    [] declared = "IntArrayType" -> <<"IntArrayType", Mapped(AsNumber, AsList(x))>>
    [] declared = "BoolType" -> <<"BoolType", AsBool(x)>>
    [] declared \in {"RefU64Type", "ElementType"} -> IF x[1] = "Thing" THEN OfThing(x[2]) ELSE Invalid
    [] declared = "RefU64Array" -> <<"RefU64Array", Mapped(AsRefno, AsList(x))>>
    [] OTHER -> Invalid

(* User-defined attributes are written with the name of their variant       *)
(* (Serialize), references as records, and read by the type the dictionary  *)
(* gives them (From<(&str, Value)>): the first value of an object counts.   *)
RefText(e) == IF e.sesno = <<>> THEN <<"RefText", e>> ELSE <<"Object", <<"RefText", Latest(e.refno)>>>>
ToUda(v) ==
  CASE v[1] = "RefU64Type" -> Thing(Latest(v[2]))
    [] v[1] = "ElementType" -> Thing(Unset)
    [] v[1] = "InvalidType" -> Strand("InvalidType")
    [] v[1] \in {"StringType", "WordType"} -> <<"Object", Strand(v[2])>>
    [] v[1] = "RefU64Array" -> <<"Object", <<"Array", Mapped(RefText, v[2])>>>>
    [] v[1] = "RefnoEnumType" -> <<"Object", RefText(v[2])>>
    [] OTHER -> <<"Object", into_json(v)>>
OfRefText(x) == IF x[1] = "RefText" THEN x[2] ELSE Unset
OfUdaArray(tn, xs) ==
  CASE tn \in {"REAL", "DIR", "POS"} -> <<"F32VecType", Mapped(AsNumber, xs)>>
    [] tn = "INT" -> <<"IntArrayType", Mapped(AsNumber, xs)>>
    [] tn = "BOOL" -> <<"BoolArrayType", Mapped(AsBool, xs)>>
    [] tn = "TEXT" -> <<"StringArrayType", Mapped(AsText, xs)>>
    [] tn = "REF" -> <<"RefU64Array", Mapped(OfRefText, xs)>>
    [] OTHER -> Invalid
OfUdaValue(tn, x) ==
  CASE x[1] = "Number" -> IF tn = "REAL" THEN <<"F32Type", x[2]>> ELSE <<"IntegerType", x[2]>>
    [] x[1] = "Bool" -> <<"BoolType", x[2]>>
    [] x[1] = "Strand" -> <<"StringType", x[2]>>
    [] x[1] = "Array" -> OfUdaArray(tn, x[2])
    [] x[1] = "Thing" -> OfThing(x[2])
    [] OTHER -> Invalid
OfUda(tn, x) == OfUdaValue(tn, IF x[1] = "Object" THEN x[2] ELSE x)

(* get_as_string: the text of a value that catalogue hashes are made of.    *)
(* Vectors and lists of numbers are written alike; what has no text, the    *)
(* reference of a session among it, is "unset".                             *)
TextOf(v) ==
  CASE v[1] \in {"StringType", "WordType", "ElementType"} -> <<"text", v[2]>>
    [] v[1] \in {"IntegerType", "F32Type"} -> <<"number", v[2]>>
    [] v[1] = "BoolType" -> <<"bool", v[2]>>
    [] v[1] \in {"F32VecType", "Vec3Type"} -> <<"numbers", v[2]>>
    [] v[1] \in {"StringArrayType", "IntArrayType", "BoolArrayType"} -> <<v[1], v[2]>>
    [] v[1] = "RefU64Type" -> <<"slash", v[2]>>
    [] OTHER -> <<"text", UNSET_STR>>
=============================================================================
