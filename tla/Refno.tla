------------------------------- MODULE Refno --------------------------------
(***************************************************************************)
(* Reference numbers (types/refno.rs): two unsigned halves packed into one  *)
(* number, alone or with the session whose record is meant, and the texts   *)
(* they travel in: keys of records, identifiers of the design system, plain *)
(* strings.                                                                 *)
(*                                                                         *)
(* A half is a number below Half (2^32 in the code).  A text is a sequence   *)
(* of marks and numbers; a Thing is what the database makes of a key: a     *)
(* table and an id that is a text or, for ['1_2',3], an array.              *)
(***************************************************************************)
EXTENDS Integers, Sequences, FiniteSetsExt

CONSTANTS Half, Refnos, Sesnos     \* the references that travel
ASSUME HalfAssumption == Half \in Nat \ {0}
ASSUME RefnosAssumption == Refnos \subseteq 0 .. Half * Half - 1

VARIABLES first, held, text, issued, spoilt
refnoVars == <<first, held, text, issued, spoilt>>

AsI32(n) == IF 2 * n >= Half THEN n - Half ELSE n
from_two_nums_signed(n, m) == n * Half + AsI32(m)
from_two_nums(n, m) == n * Half + m
get_0(r) == r \div Half
get_1(r) == r % Half
UnsetRef == 0

(* RefnoEnum: the latest record, or the one of a session.                   *)
Refno(r) == [refno |-> r, sesno |-> <<>>]
RefnoSesno(r, s) == [refno |-> r, sesno |-> <<s>>]
is_latest(e) == e.sesno = <<>>
latest(e) == Refno(e.refno)

-----------------------------------------------------------------------------
(* Texts.  A mark is named for its character: underscore _, equals =, open [.*)
Mark(c) == <<"mark", c>>
Num(n) == <<"num", n>>
plain(r) == <<Num(get_0(r)), Mark("underscore"), Num(get_1(r))>>
to_slash_string(r) == <<Num(get_0(r)), Mark("slash"), Num(get_1(r))>>
to_e3d_id(r) == <<Mark("equals"), Num(get_0(r)), Mark("slash"), Num(get_1(r))>>
RefnoSesno_to_string(r, s) ==
  <<Mark("open"), Mark("quote"), Num(get_0(r)), Mark("underscore"), Num(get_1(r)), Mark("quote"),
    Mark("comma"), Num(s), Mark("close")>>
RefnoEnum_to_string(e) == IF is_latest(e) THEN plain(e.refno) ELSE RefnoSesno_to_string(e.refno, e.sesno[1])
to_table_key(tbl, e) == <<Mark(tbl), Mark("colon")>> \o RefnoEnum_to_string(e)
to_pe_key_by_session(e) == to_table_key("pe", e)
(* The record of session 0 is the latest one, in table pe only.             *)
to_pe_key(e) == to_table_key("pe", IF e.sesno = <<0>> THEN latest(e) ELSE e)
RefI32Tuple(r) == <<AsI32(get_0(r)), AsI32(get_1(r))>>
tuple_string(r) == <<Num(RefI32Tuple(r)[1]), Mark("slash"), Num(RefI32Tuple(r)[2])>>

IsNumber(part, limit) == Len(part) = 1 /\ part[1][1] = "num" /\ part[1][2] \in 0 .. limit - 1

(* Splitting: where a text is cut, the part before the first cut and what   *)
(* follows it.                                                              *)
Cuts(t, marks) == {i \in DOMAIN t : t[i] \in marks}
Before(t, marks) == IF Cuts(t, marks) = {} THEN t ELSE SubSeq(t, 1, Min(Cuts(t, marks)) - 1)
After(t, marks) == SubSeq(t, Min(Cuts(t, marks)) + 1, Len(t))

(* The part after the first = or : is read, all of it if there is none.     *)
Openers == {Mark("equals"), Mark("colon")}
Body(t) == IF Cuts(t, Openers) = {} THEN t ELSE Before(After(t, Openers), Openers)

(* Where the pieces between _ and / that are numbers lie; the pieces that    *)
(* are none are passed over.                                                *)
Pieces(ts) ==
  LET ends == {0, Len(ts) + 1} \union Cuts(ts, {Mark("underscore"), Mark("slash")}) IN
  {i \in DOMAIN ts : IsNumber(<<ts[i]>>, Half) /\ {i - 1, i + 1} \subseteq ends}
from_str(t) ==
  LET ts == Body(t) nums == Pieces(ts) IN
  IF Cardinality(nums) = 2 THEN <<from_two_nums(ts[Min(nums)][2], ts[Max(nums)][2])>>
  ELSE IF IsNumber(ts, Half * Half) THEN <<ts[1][2]>>
  ELSE <<>>
OrUnset(r) == IF r = <<>> THEN UnsetRef ELSE r[1]

(* RefnoEnum of a text: a bracket is taken for JSON, which knows no single   *)
(* quotes; a comma separates the session.                                   *)
RefnoEnum_from_str(t) ==
  IF t # <<>> /\ t[1] = Mark("open") THEN RefnoSesno(UnsetRef, 0)
  ELSE LET comma == {Mark("comma")} last == After(t, comma) IN
       IF Cardinality(Cuts(t, comma)) = 1
       THEN RefnoSesno(OrUnset(from_str(Before(t, comma))), IF IsNumber(last, Half) THEN last[1][2] ELSE 0)
       ELSE IF Cuts(t, comma) # {} THEN Refno(UnsetRef)
       ELSE Refno(OrUnset(from_str(t)))

(* The database's reading of a key; the first element of an array is the    *)
(* text between the quotes.                                                 *)
KeyThing(key) ==
  LET id == SubSeq(key, 3, Len(key)) IN
  IF id[1] = Mark("open") THEN [tb |-> key[1][2], array |-> TRUE, id |-> SubSeq(id, 3, 5), sesno |-> id[8][2]]
  ELSE [tb |-> key[1][2], array |-> FALSE, id |-> id, sesno |-> 0]
RefU64_from_thing(th) == OrUnset(from_str(th.id))
RefnoEnum_from_thing(th) ==
  IF th.array THEN RefnoSesno(OrUnset(from_str(th.id)), th.sesno) ELSE Refno(RefU64_from_thing(th))

-----------------------------------------------------------------------------
(* A reference is written in some form and read back, over and over.        *)
Forms == {"key", "string", "e3d", "slash", "tuple", "inst", "number"}
Written(form, e) ==
  CASE form = "key" -> to_pe_key(e)
    [] form = "inst" -> to_table_key("inst_relate", e)
    [] form = "string" -> RefnoEnum_to_string(e)
    [] form = "e3d" -> to_e3d_id(e.refno)
    [] form = "slash" -> to_slash_string(e.refno)
    [] form = "tuple" -> tuple_string(e.refno)
    [] form = "number" -> <<Num(e.refno)>>

(* Session references are not read back from their own string, and a half   *)
(* that is negative as a signed number is no number for from_str.           *)
Unreadable(form, e) ==
  \/ form = "string" /\ ~is_latest(e)
  \/ form = "tuple" /\ \E i \in 1 .. 2 : RefI32Tuple(e.refno)[i] < 0

Write(form) ==
  /\ text = <<>>
  /\ text' = Written(form, held)
  /\ issued' = IF form = "key" THEN issued \union {<<held, text'>>} ELSE issued
  /\ spoilt' = (spoilt \/ Unreadable(form, held))
  /\ UNCHANGED <<first, held>>
IsKey(t) == Len(t) > 2 /\ t[2] = Mark("colon")

ReadThing == IsKey(text) /\ held' = RefnoEnum_from_thing(KeyThing(text))
ReadRefU64 == text # <<>> /\ from_str(text) # <<>> /\ held' = Refno(from_str(text)[1])
ReadRefnoEnum == text # <<>> /\ ~IsKey(text) /\ held' = RefnoEnum_from_str(text)
Read == (ReadThing \/ ReadRefU64 \/ ReadRefnoEnum) /\ text' = <<>> /\ UNCHANGED <<first, issued, spoilt>>

(* Another session of the element comes up (its record of that session).    *)
Turn == text = <<>> /\ \E s \in Sesnos : held' = RefnoSesno(held.refno, s) /\ UNCHANGED <<first, text, issued, spoilt>>

RefnoInit ==
  /\ first \in Refnos /\ held = Refno(first)
  /\ text = <<>> /\ issued = {} /\ spoilt = FALSE
RefnoNext == (\E form \in Forms : Write(form)) \/ Read \/ Turn

(* A reference handed from place to place in any of its texts stays the     *)
(* reference of its element, unless a text was used that nothing reads.     *)
HandedOnUnchanged == spoilt \/ held.refno = first

(* Over the life of an element: two keys handed out for it are equal just   *)
(* when they mean the same record, session 0 being the latest.              *)
SameRecord(a, b) ==
  a.refno = b.refno /\ (a.sesno = b.sesno \/ {a.sesno, b.sesno} \subseteq {<<>>, <<0>>})
KeysNameRecords ==
  \A a \in issued, b \in issued : (a[2] = b[2]) = SameRecord(a[1], b[1])
=============================================================================
