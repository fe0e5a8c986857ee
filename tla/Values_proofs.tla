---------------------------- MODULE Values_proofs ----------------------------
(***************************************************************************)
(* What holds of references and attributes.  Of the references of any half  *)
(* width, elements and sessions: a reference stays that of its element in   *)
(* every text something reads, and two keys are equal just when they mean   *)
(* the same record.  Of the attributes of any elements, for any dictionary, *)
(* nouns and sessions: references of a session's record lead to the state   *)
(* of its time, row and record are of one state, explicit values win, and   *)
(* attributes, user-defined ones, records and catalogue hashes survive any  *)
(* number of saves and loads.                                               *)
(***************************************************************************)
EXTENDS Attributes, Refno, FiniteSetTheorems, SequenceTheorems, TLAPS

RefnoSpec == RefnoInit /\ [][RefnoNext]_refnoVars

Halves == 0 .. Half - 1
Packed == 0 .. Half * Half - 1

-----------------------------------------------------------------------------
(* References: numbers.                                                     *)

(* Two halves make a reference, and are its halves again.                   *)
LEMMA TwoNums ==
  ASSUME NEW a \in Halves, NEW b \in Halves
  PROVE  /\ from_two_nums(a, b) \in Packed
         /\ get_0(from_two_nums(a, b)) = a
         /\ get_1(from_two_nums(a, b)) = b
<1>1. Half \in Nat /\ Half > 0
  BY HalfAssumption
<1>2. a * Half \in Nat /\ a * Half <= (Half - 1) * Half
  BY <1>1 DEF Halves
<1>3. (Half - 1) * Half = Half * Half - Half /\ Half * Half \in Nat
  BY <1>1
<1>4. from_two_nums(a, b) \in Packed
  BY <1>1, <1>2, <1>3 DEF Halves, Packed, from_two_nums
<1>5. (a * Half + b) % Half = b
  BY <1>1 DEF Halves
<1>6. (a * Half + b) \div Half = a
  BY <1>1 DEF Halves
<1> QED
  BY <1>4, <1>5, <1>6 DEF from_two_nums, get_0, get_1

(* A reference is made of its halves.                                       *)
LEMMA HalvesOf ==
  ASSUME NEW r \in Packed
  PROVE  /\ get_0(r) \in Halves /\ get_1(r) \in Halves
         /\ from_two_nums(get_0(r), get_1(r)) = r
<1>1. Half \in Nat /\ Half > 0 /\ r \in Nat
  BY HalfAssumption DEF Packed
<1>2. r = (r \div Half) * Half + (r % Half)
  BY <1>1
<1>3. r % Half \in Halves
  BY <1>1 DEF Halves
<1>4. r \div Half \in Nat
  BY <1>1
<1>5. r < Half * Half
  BY <1>1 DEF Packed
<1>6. r \div Half < Half
  BY <1>1, <1>4, <1>5
<1> QED
  BY <1>2, <1>3, <1>4, <1>6, <1>1 DEF get_0, get_1, from_two_nums, Halves

(* References with the same halves are the same.                            *)
LEMMA HalvesTell ==
  ASSUME NEW r \in Packed, NEW q \in Packed, get_0(r) = get_0(q), get_1(r) = get_1(q)
  PROVE  r = q
BY HalvesOf

-----------------------------------------------------------------------------
(* Splitting.                                                               *)

LEMMA MinOfOne ==
  ASSUME NEW i \in Int
  PROVE  Min({i}) = i
BY DEF Min

LEMMA MinMaxOfTwo ==
  ASSUME NEW i \in Int, NEW j \in Int, i < j
  PROVE  Min({i, j}) = i /\ Max({i, j}) = j /\ Cardinality({i, j}) = 2
<1>1. Min({i, j}) = i
  BY DEF Min
<1>2. Max({i, j}) = j
  BY DEF Max
<1>3. Cardinality({i}) = 1 /\ IsFiniteSet({i})
  BY FS_Singleton
<1>4. Cardinality({i} \union {j}) = 2
  BY <1>3, FS_AddElement
<1>5. {i} \union {j} = {i, j}
  OBVIOUS
<1> QED
  BY <1>1, <1>2, <1>4, <1>5

LEMMA Three ==
  ASSUME NEW x, NEW y, NEW z, NEW t, t = <<x, y, z>>
  PROVE  /\ DOMAIN t = {1, 2, 3} /\ Len(t) = 3
         /\ t[1] = x /\ t[2] = y /\ t[3] = z
OBVIOUS

(* Marks and numbers.                                                       *)
LEMMA Tokens ==
  ASSUME NEW n
  PROVE  /\ Num(n)[1] = "num" /\ Num(n)[2] = n /\ Len(<<Num(n)>>) = 1 /\ <<Num(n)>>[1] = Num(n)
         /\ \A c : Mark(c) # Num(n) /\ Mark(c)[1] = "mark" /\ Mark(c)[2] = c
         /\ \A c, d : (Mark(c) = Mark(d)) = (c = d)
         /\ \A c : <<Mark(c)>>[1] = Mark(c)
BY DEF Num, Mark

LEMMA MarksAreNoNumbers ==
  ASSUME NEW c, NEW limit
  PROVE  ~IsNumber(<<Mark(c)>>, limit)
BY Tokens DEF IsNumber

LEMMA NumbersAre ==
  ASSUME NEW limit \in Nat, NEW n \in 0 .. limit - 1
  PROVE  IsNumber(<<Num(n)>>, limit)
BY Tokens DEF IsNumber

(* A text of three parts with a number at each end is two numbers.          *)
LEMMA PairIsRead ==
  ASSUME NEW a \in Halves, NEW b \in Halves, NEW c \in {"underscore", "slash"},
         NEW t, t = <<Num(a), Mark(c), Num(b)>>
  PROVE  Cuts(t, Openers) = {} /\ Pieces(t) = {1, 3}
<1>1. /\ DOMAIN t = {1, 2, 3} /\ Len(t) = 3
      /\ t[1] = Num(a) /\ t[2] = Mark(c) /\ t[3] = Num(b)
  BY Three
<1>2. {Mark("equals"), Mark("colon")} \intersect {Num(a), Mark(c), Num(b)} = {}
  BY Tokens
<1>3. Cuts(t, Openers) = {}
  BY <1>1, <1>2 DEF Cuts, Openers
<1>8. \A d : Mark(d) # Num(a) /\ Mark(d) # Num(b)
  BY Tokens
<1>4. t[2] \in {Mark("underscore"), Mark("slash")} /\ t[1] \notin {Mark("underscore"), Mark("slash")} /\ t[3] \notin {Mark("underscore"), Mark("slash")}
  <2>1. c = "underscore" \/ c = "slash"
    OBVIOUS
  <2>2. Mark(c) \in {Mark("underscore"), Mark("slash")}
    BY <2>1
  <2>3. Num(a) \notin {Mark("underscore"), Mark("slash")} /\ Num(b) \notin {Mark("underscore"), Mark("slash")}
    BY <1>8, Zenon
  <2> QED BY <1>1, <2>2, <2>3, Zenon
<1>7. Cuts(t, {Mark("underscore"), Mark("slash")}) = {2}
  BY <1>1, <1>4 DEF Cuts
<1>5. IsNumber(<<t[1]>>, Half) /\ IsNumber(<<t[3]>>, Half) /\ ~IsNumber(<<t[2]>>, Half)
  <2>1. Half \in Nat
    BY HalfAssumption
  <2>2. IsNumber(<<Num(a)>>, Half) /\ IsNumber(<<Num(b)>>, Half)
    <3>1. a \in 0 .. Half - 1 /\ b \in 0 .. Half - 1
      BY DEF Halves
    <3> QED BY <2>1, <3>1, NumbersAre
  <2>3. ~IsNumber(<<Mark(c)>>, Half)
    BY <2>1, MarksAreNoNumbers
  <2> QED BY <1>1, <2>2, <2>3
<1>6. Pieces(t) = {1, 3}
  BY <1>1, <1>7, <1>5 DEF Pieces
<1> QED
  BY <1>3, <1>6

(* from_str of such a text, alone or after an opener.                       *)
LEMMA PairMeans ==
  ASSUME NEW a \in Halves, NEW b \in Halves, NEW c \in {"underscore", "slash"},
         NEW t, Body(t) = <<Num(a), Mark(c), Num(b)>>
  PROVE  from_str(t) = <<from_two_nums(a, b)>>
<1> DEFINE ts == Body(t)
<1>3. ts[1][2] = a /\ ts[3][2] = b
  BY Three, Tokens
<1>4. ts = <<Num(a), Mark(c), Num(b)>>
  OBVIOUS
<1> HIDE DEF ts
<1>1. Pieces(ts) = {1, 3}
  BY <1>4, PairIsRead
<1>2. Min(Pieces(ts)) = 1 /\ Max(Pieces(ts)) = 3 /\ Cardinality(Pieces(ts)) = 2
  BY <1>1, MinMaxOfTwo
<1> QED
  BY <1>2, <1>3 DEF from_str, ts

LEMMA SubSeqIs ==
  ASSUME NEW V, NEW p \in Seq(V), NEW s, NEW m \in Int, NEW n \in Int, n = m + Len(p) - 1,
         \A i \in 1 .. Len(p) : s[m + i - 1] = p[i]
  PROVE  SubSeq(s, m, n) = p
<1>1. \A i \in m .. n : s[i] \in V
  <2> SUFFICES ASSUME NEW i \in m .. n PROVE s[i] \in V
    OBVIOUS
  <2>1. i - m + 1 \in 1 .. Len(p) /\ m + (i - m + 1) - 1 = i
    OBVIOUS
  <2>2. s[m + (i - m + 1) - 1] = p[i - m + 1]
    BY <2>1
  <2>3. p[i - m + 1] \in V
    BY <2>1
  <2> QED BY <2>1, <2>2, <2>3
<1>2. /\ SubSeq(s, m, n) \in Seq(V)
      /\ Len(SubSeq(s, m, n)) = IF m <= n THEN n - m + 1 ELSE 0
      /\ \A i \in 1 .. n - m + 1 : SubSeq(s, m, n)[i] = s[m + i - 1]
  BY <1>1, SubSeqProperties
<1>3. Len(SubSeq(s, m, n)) = Len(p) /\ n - m + 1 = Len(p)
  BY <1>2
<1>4. \A i \in 1 .. Len(SubSeq(s, m, n)) : SubSeq(s, m, n)[i] = p[i]
  BY <1>2, <1>3
<1> QED
  BY <1>2, <1>3, <1>4, SeqEqual

(* What follows = or a table's name is what is read.                        *)
LEMMA BodyBehind ==
  ASSUME NEW V, NEW p \in Seq(V), Cuts(p, Openers) = {},
         NEW t \in Seq(V), NEW k \in Nat, k # 0, Len(t) = k + Len(p), t[k] \in Openers,
         \A i \in 1 .. k - 1 : t[i] \notin Openers,
         \A i \in 1 .. Len(p) : t[k + i] = p[i]
  PROVE  Body(t) = p
<1> DEFINE n == Len(p)
<1>1. DOMAIN t = 1 .. k + n /\ n \in Nat
  OBVIOUS
<1>2. \A i \in 1 .. n : p[i] \notin Openers
  BY DEF Cuts
<1>3. \A i \in DOMAIN t : t[i] \in Openers => i = k
  <2> SUFFICES ASSUME NEW i \in DOMAIN t, i > k PROVE t[i] \notin Openers
    BY <1>1
  <2>1. i - k \in 1 .. n /\ k + (i - k) = i
    BY <1>1
  <2>2. t[k + (i - k)] = p[i - k]
    BY <2>1
  <2> QED BY <2>1, <2>2, <1>2
<1>4. Cuts(t, Openers) = {k}
  BY <1>1, <1>3 DEF Cuts
<1>5. Min(Cuts(t, Openers)) = k
  BY <1>4, MinOfOne
<1>6. After(t, Openers) = SubSeq(t, k + 1, Len(t))
  BY <1>5, Zenon DEF After
<1>7. SubSeq(t, k + 1, Len(t)) = p
  <2>1. \A i \in 1 .. Len(p) : t[(k + 1) + i - 1] = p[i]
    <3>1. \A i \in 1 .. Len(p) : (k + 1) + i - 1 = k + i
      OBVIOUS
    <3> QED BY <3>1
  <2>2. Len(t) = (k + 1) + Len(p) - 1 /\ k + 1 \in Int /\ Len(t) \in Int
    BY <1>1
  <2> QED BY <2>1, <2>2, SubSeqIs
<1>8. Before(p, Openers) = p
  BY DEF Before
<1> QED
  BY <1>4, <1>6, <1>7, <1>8 DEF Body

-----------------------------------------------------------------------------
(* The texts of a reference.                                                *)

(* Every text of a latest reference below 2^31 in both halves is read as it. *)
LEMMA PlainIsRead ==
  ASSUME NEW r \in Packed
  PROVE  from_str(plain(r)) = <<r>> /\ from_str(to_slash_string(r)) = <<r>>
<1>1. get_0(r) \in Halves /\ get_1(r) \in Halves /\ from_two_nums(get_0(r), get_1(r)) = r
  BY HalvesOf
<1>2. ASSUME NEW c \in {"underscore", "slash"}, NEW t, t = <<Num(get_0(r)), Mark(c), Num(get_1(r))>>
      PROVE  from_str(t) = <<r>>
  <2>1. Cuts(t, Openers) = {}
    BY <1>1, <1>2, PairIsRead
  <2>2. Body(t) = <<Num(get_0(r)), Mark(c), Num(get_1(r))>>
    BY <2>1, <1>2, Zenon DEF Body
  <2>3. from_str(t) = <<from_two_nums(get_0(r), get_1(r))>>
    BY <1>1, <2>2, PairMeans
  <2> QED BY <2>3, <1>1, Zenon
<1>3. from_str(<<Num(get_0(r)), Mark("underscore"), Num(get_1(r))>>) = <<r>>
  BY <1>2
<1>4. from_str(<<Num(get_0(r)), Mark("slash"), Num(get_1(r))>>) = <<r>>
  BY <1>2
<1> QED
  BY <1>3, <1>4, Zenon DEF plain, to_slash_string

(* A key is its table's name and a text.                                    *)
LEMMA KeyParts ==
  ASSUME NEW V, NEW p \in Seq(V), Cuts(p, Openers) = {}, NEW tbl \in {"pe", "inst_relate"},
         NEW t, t = <<Mark(tbl), Mark("colon")>> \o p
  PROVE  /\ Body(t) = p /\ SubSeq(t, 3, Len(t)) = p
         /\ t[1] = Mark(tbl) /\ t[2] = Mark("colon") /\ Len(t) = 2 + Len(p)
<1> DEFINE W == V \union {Mark(tbl), Mark("colon")}
           pre == <<Mark(tbl), Mark("colon")>>
<1>1. pre \in Seq(W) /\ Len(pre) = 2 /\ pre[1] = Mark(tbl) /\ pre[2] = Mark("colon")
  OBVIOUS
<1>2. p \in Seq(W) /\ Len(p) \in Nat
  OBVIOUS
<1>3. t = pre \o p
  OBVIOUS
<1> HIDE DEF W, pre
<1>4. /\ t \in Seq(W) /\ Len(t) = 2 + Len(p)
      /\ \A i \in 1 .. 2 + Len(p) : t[i] = IF i <= 2 THEN pre[i] ELSE p[i - 2]
  BY <1>1, <1>2, <1>3, ConcatProperties
<1>5. t[1] = Mark(tbl) /\ t[2] = Mark("colon")
  BY <1>1, <1>2, <1>4
<1>6. \A i \in 1 .. Len(p) : t[2 + i] = p[i]
  BY <1>2, <1>4
<1>7. t[2] \in Openers
  BY <1>5, Zenon DEF Openers
<1>8. Mark(tbl) \notin Openers
  <2>1. Mark(tbl)[2] = tbl /\ Mark("equals")[2] = "equals" /\ Mark("colon")[2] = "colon"
    BY DEF Mark
  <2>2. Mark(tbl) # Mark("equals") /\ Mark(tbl) # Mark("colon")
    BY <2>1
  <2> QED BY <2>2, Zenon DEF Openers
<1>9. \A i \in 1 .. 2 - 1 : t[i] \notin Openers
  <2>1. \A i \in 1 .. 2 - 1 : i = 1
    OBVIOUS
  <2> QED BY <1>5, <1>8, <2>1, Zenon
<1>10. Body(t) = p
  <2>1. PICK k \in Nat : k = 2
    OBVIOUS
  <2>2. k # 0 /\ Len(t) = k + Len(p) /\ t[k] \in Openers /\ t \in Seq(W)
    BY <2>1, <1>4, <1>7
  <2>3. \A i \in 1 .. k - 1 : t[i] \notin Openers
    BY <2>1, <1>9
  <2>4. \A i \in 1 .. Len(p) : t[k + i] = p[i]
    BY <2>1, <1>6
  <2> QED BY <2>2, <2>3, <2>4, <1>2, BodyBehind
<1>11. \A i \in 1 .. Len(p) : t[3 + i - 1] = p[i]
  <2>1. \A i \in 1 .. Len(p) : 3 + i - 1 = 2 + i
    BY <1>2
  <2> QED BY <2>1, <1>6
<1>12. Len(t) = 3 + Len(p) - 1 /\ Len(t) \in Int
  BY <1>2, <1>4
<1>13. SubSeq(t, 3, Len(t)) = p
  BY <1>2, <1>11, <1>12, SubSeqIs
<1> QED
  BY <1>4, <1>5, <1>10, <1>13

LEMMA Nine ==
  ASSUME NEW a, NEW b, NEW c, NEW d, NEW e, NEW f, NEW g, NEW h, NEW k, NEW t, t = <<a, b, c, d, e, f, g, h, k>>
  PROVE  /\ t \in Seq({a, b, c, d, e, f, g, h, k}) /\ DOMAIN t = 1 .. 9 /\ Len(t) = 9
         /\ t[1] = a /\ t[2] = b /\ t[3] = c /\ t[4] = d /\ t[5] = e
         /\ t[6] = f /\ t[7] = g /\ t[8] = h /\ t[9] = k
OBVIOUS

(* A session's text has no number between underscores and slashes.          *)
LEMMA SessionIsUnread ==
  ASSUME NEW r, NEW s, NEW p, p = RefnoSesno_to_string(r, s)
  PROVE  Cuts(p, Openers) = {} /\ Pieces(p) = {} /\ Len(p) = 9
<1>1. /\ DOMAIN p = 1 .. 9 /\ Len(p) = 9
      /\ p[1] = Mark("open") /\ p[2] = Mark("quote") /\ p[3] = Num(get_0(r)) /\ p[4] = Mark("underscore")
      /\ p[5] = Num(get_1(r)) /\ p[6] = Mark("quote") /\ p[7] = Mark("comma") /\ p[8] = Num(s) /\ p[9] = Mark("close")
  <2>1. p = <<Mark("open"), Mark("quote"), Num(get_0(r)), Mark("underscore"), Num(get_1(r)), Mark("quote"),
              Mark("comma"), Num(s), Mark("close")>>
    BY Zenon DEF RefnoSesno_to_string
  <2> QED BY <2>1, Nine
<1>2. \A i \in 1 .. 9 : p[i] # Mark("equals") /\ p[i] # Mark("colon")
  <2>1. \A n : Num(n) # Mark("equals") /\ Num(n) # Mark("colon")
    BY Tokens
  <2>2. \A c : c # "equals" /\ c # "colon" => Mark(c) # Mark("equals") /\ Mark(c) # Mark("colon")
    BY Tokens
  <2>3. /\ Mark("open") # Mark("equals") /\ Mark("quote") # Mark("equals") /\ Mark("underscore") # Mark("equals")
        /\ Mark("comma") # Mark("equals") /\ Mark("close") # Mark("equals")
        /\ Mark("open") # Mark("colon") /\ Mark("quote") # Mark("colon") /\ Mark("underscore") # Mark("colon")
        /\ Mark("comma") # Mark("colon") /\ Mark("close") # Mark("colon")
    BY <2>2
  <2> QED BY <1>1, <2>1, <2>3
<1>3. Cuts(p, Openers) = {}
  BY <1>1, <1>2 DEF Cuts, Openers
<1>4. \A i \in {2, 6, 7} : p[i] # Mark("underscore") /\ p[i] # Mark("slash")
  BY <1>1, Tokens
<1>5. \A i \in {1, 2, 4, 6, 7, 9} : ~IsNumber(<<p[i]>>, Half)
  BY <1>1, MarksAreNoNumbers
<1>6. Pieces(p) = {}
  <2> SUFFICES ASSUME NEW i \in Pieces(p) PROVE FALSE
    OBVIOUS
  <2> DEFINE ends == {0, Len(p) + 1} \union Cuts(p, {Mark("underscore"), Mark("slash")})
  <2>1. i \in 1 .. 9 /\ IsNumber(<<p[i]>>, Half) /\ i - 1 \in ends /\ i + 1 \in ends
    BY <1>1 DEF Pieces
  <2>2. \A j \in {2, 6, 7} : j \notin ends
    BY <1>1, <1>4 DEF Cuts
  <2> HIDE DEF ends
  <2>3. i \in {3, 5, 8}
    BY <2>1, <1>5
  <2> QED BY <2>1, <2>2, <2>3
<1> QED
  BY <1>1, <1>3, <1>6

-----------------------------------------------------------------------------
(* Reading.                                                                 *)

(* e is a reference, of whatever session, to an element of S.               *)
RefersTo(e, S) == \E r \in S : e = Refno(r) \/ \E s \in Sesnos \union {0} : e = RefnoSesno(r, s)

(* Whoever reads t is led to an element of S, or to none.                   *)
LeadsTo(t, S) ==
  /\ \A r : from_str(t) = <<r>> => r \in S
  /\ IsKey(t) => RefersTo(RefnoEnum_from_thing(KeyThing(t)), S)
  /\ ~IsKey(t) => RefersTo(RefnoEnum_from_str(t), S)

LEMMA OfEmpty == DOMAIN <<>> = {} /\ Len(<<>>) = 0
OBVIOUS

LEMMA OneIsOne ==
  ASSUME NEW a, NEW b
  PROVE  (<<a>> = <<b>>) = (a = b) /\ <<a>> # <<>> /\ <<a>>[1] = a
OBVIOUS

LEMMA NoPieces ==
  ASSUME NEW t, Cardinality(Pieces(Body(t))) # 2, Len(Body(t)) # 1
  PROVE  from_str(t) = <<>>
BY DEF from_str, IsNumber

(* A text without bracket, comma and table is read by from_str alone.       *)
LEMMA TextIsRead ==
  ASSUME NEW t, NEW S, 0 \in S \/ from_str(t) # <<>>, \A r : from_str(t) = <<r>> => r \in S,
         from_str(t) = <<>> \/ \E r : from_str(t) = <<r>>,
         t = <<>> \/ t[1] # Mark("open"), Cuts(t, {Mark("comma")}) = {}, ~IsKey(t)
  PROVE  LeadsTo(t, S)
<1>1. Cardinality(Cuts(t, {Mark("comma")})) # 1
  <2>1. Cardinality({}) = 0 /\ 0 # 1
    BY FS_EmptySet
  <2> QED BY <2>1, Zenon
<1>2. RefnoEnum_from_str(t) = Refno(OrUnset(from_str(t)))
  BY <1>1, Zenon DEF RefnoEnum_from_str
<1>3. OrUnset(from_str(t)) \in S
  <2>1. CASE from_str(t) = <<>>
    BY <2>1 DEF OrUnset, UnsetRef
  <2>2. CASE \E r : from_str(t) = <<r>>
    <3>1. PICK r : from_str(t) = <<r>>
      BY <2>2
    <3>2. r \in S /\ OrUnset(<<r>>) = r
      BY <3>1, OneIsOne DEF OrUnset
    <3> QED BY <3>1, <3>2
  <2> QED BY <2>1, <2>2
<1>4. RefersTo(RefnoEnum_from_str(t), S)
  BY <1>2, <1>3 DEF RefersTo
<1> QED
  BY <1>4 DEF LeadsTo

(* The two halves with a slash, also as signed numbers.                     *)
LEMMA HalvesAreNoKey ==
  ASSUME NEW x, NEW y, NEW c \in {"underscore", "slash"}, NEW t, t = <<Num(x), Mark(c), Num(y)>>
  PROVE  /\ t[1] # Mark("open") /\ ~IsKey(t) /\ Cuts(t, {Mark("comma")}) = {} /\ Cuts(t, Openers) = {}
         /\ DOMAIN t = {1, 2, 3} /\ Len(t) = 3 /\ t[1] = Num(x) /\ t[3] = Num(y) /\ t[2] = Mark(c)
<1>1. /\ DOMAIN t = {1, 2, 3} /\ Len(t) = 3
      /\ t[1] = Num(x) /\ t[2] = Mark(c) /\ t[3] = Num(y)
  BY Three
<1>2. \A n, d : Num(n) # Mark(d)
  BY Tokens
<1>3. Mark(c) # Mark("open") /\ Mark(c) # Mark("comma") /\ Mark(c) # Mark("colon") /\ Mark(c) # Mark("equals")
  BY Tokens
<1>4. Cuts(t, {Mark("comma")}) = {} /\ Cuts(t, Openers) = {}
  BY <1>1, <1>2, <1>3 DEF Cuts, Openers
<1>5. ~IsKey(t)
  BY <1>1, <1>3 DEF IsKey
<1> QED
  BY <1>1, <1>2, <1>4, <1>5

LEMMA PlainLeads ==
  ASSUME NEW r \in Packed
  PROVE  LeadsTo(plain(r), {r}) /\ LeadsTo(to_slash_string(r), {r})
<1>1. ASSUME NEW c \in {"underscore", "slash"}, NEW t, t = <<Num(get_0(r)), Mark(c), Num(get_1(r))>>, from_str(t) = <<r>>
      PROVE  LeadsTo(t, {r})
  <2>1. t[1] # Mark("open") /\ ~IsKey(t) /\ Cuts(t, {Mark("comma")}) = {}
    BY <1>1, HalvesAreNoKey
  <2>2. \A q : from_str(t) = <<q>> => q \in {r}
    BY <1>1, OneIsOne
  <2>3. from_str(t) # <<>>
    BY <1>1, OneIsOne
  <2> QED BY <1>1, <2>1, <2>2, <2>3, TextIsRead
<1>2. from_str(plain(r)) = <<r>> /\ from_str(to_slash_string(r)) = <<r>>
  BY PlainIsRead
<1>3. LeadsTo(plain(r), {r})
  <2> DEFINE t == plain(r)
  <2>1. t = <<Num(get_0(r)), Mark("underscore"), Num(get_1(r))>>
    BY DEF plain
  <2> HIDE DEF t
  <2>2. from_str(t) = <<r>>
    BY <1>2 DEF t
  <2>3. LeadsTo(t, {r})
    BY <1>1, <2>1, <2>2
  <2> QED BY <2>3 DEF t
<1>4. LeadsTo(to_slash_string(r), {r})
  <2> DEFINE t == to_slash_string(r)
  <2>1. t = <<Num(get_0(r)), Mark("slash"), Num(get_1(r))>>
    BY DEF to_slash_string
  <2> HIDE DEF t
  <2>2. from_str(t) = <<r>>
    BY <1>2 DEF t
  <2>3. LeadsTo(t, {r})
    BY <1>1, <2>1, <2>2
  <2> QED BY <2>3 DEF t
<1> QED
  BY <1>3, <1>4

LEMMA E3dLeads ==
  ASSUME NEW r \in Packed
  PROVE  LeadsTo(to_e3d_id(r), {r})
<1> DEFINE t == to_e3d_id(r)
           x == Num(get_0(r)) y == Mark("slash") z == Num(get_1(r)) o == Mark("equals")
           p == <<x, y, z>>
<1>1. t = <<o, x, y, z>>
  BY Zenon DEF to_e3d_id
<1>2. get_0(r) \in Halves /\ get_1(r) \in Halves /\ from_two_nums(get_0(r), get_1(r)) = r
  BY HalvesOf
<1>3. Cuts(p, Openers) = {} /\ p = <<Num(get_0(r)), Mark("slash"), Num(get_1(r))>>
  <2>1. Cuts(<<Num(get_0(r)), Mark("slash"), Num(get_1(r))>>, Openers) = {}
    BY HalvesAreNoKey
  <2> QED BY <2>1
<1>4. o \in Openers /\ o # Mark("comma") /\ o # Mark("open")
  BY Tokens DEF Openers
<1>5. x # Mark("comma") /\ y # Mark("comma") /\ z # Mark("comma") /\ x # Mark("colon")
  BY Tokens
<1> HIDE DEF x, y, z, o, t
<1>6. /\ t \in Seq({o, x, y, z}) /\ Len(t) = 4 /\ DOMAIN t = {1, 2, 3, 4}
      /\ t[1] = o /\ t[2] = x /\ t[3] = y /\ t[4] = z
  BY <1>1
<1>7. p \in Seq({o, x, y, z}) /\ Len(p) = 3 /\ p[1] = x /\ p[2] = y /\ p[3] = z
  OBVIOUS
<1>8. Body(t) = p
  <2> HIDE DEF p
  <2>1. PICK k \in Nat : k = 1
    OBVIOUS
  <2>2. k # 0 /\ Len(t) = k + Len(p) /\ t[k] \in Openers
    BY <2>1, <1>4, <1>6, <1>7
  <2>3. \A i \in 1 .. k - 1 : t[i] \notin Openers
    BY <2>1
  <2>4. \A i \in 1 .. Len(p) : t[k + i] = p[i]
    BY <2>1, <1>6, <1>7
  <2>5. Cuts(p, Openers) = {} /\ p \in Seq({o, x, y, z}) /\ t \in Seq({o, x, y, z})
    BY <1>3, <1>6, <1>7
  <2> QED BY <2>2, <2>3, <2>4, <2>5, BodyBehind
<1>9. from_str(t) = <<r>>
  <2>1. Body(t) = <<Num(get_0(r)), Mark("slash"), Num(get_1(r))>>
    BY <1>3, <1>8, Zenon
  <2>2. from_str(t) = <<from_two_nums(get_0(r), get_1(r))>>
    BY <1>2, <2>1, PairMeans
  <2> QED BY <1>2, <2>2, Zenon
<1>10. Cuts(t, {Mark("comma")}) = {} /\ t[1] # Mark("open") /\ ~IsKey(t)
  BY <1>4, <1>5, <1>6 DEF Cuts, IsKey
<1>11. \A q : from_str(t) = <<q>> => q \in {r}
  BY <1>9, OneIsOne
<1>12. from_str(t) # <<>>
  BY <1>9, OneIsOne
<1>13. LeadsTo(t, {r})
  BY <1>9, <1>10, <1>11, <1>12, TextIsRead
<1> QED
  BY <1>13 DEF t

LEMMA NumberLeads ==
  ASSUME NEW r \in Packed
  PROVE  LeadsTo(<<Num(r)>>, {r})
<1> DEFINE t == <<Num(r)>>
<1>1. Num(r) # Mark("equals") /\ Num(r) # Mark("colon") /\ Num(r) # Mark("comma") /\ Num(r) # Mark("open")
  BY Tokens
<1>2. DOMAIN t = {1} /\ Len(t) = 1 /\ t[1] = Num(r)
  OBVIOUS
<1> HIDE DEF t
<1>3. Cuts(t, Openers) = {} /\ Cuts(t, {Mark("comma")}) = {} /\ t[1] # Mark("open") /\ ~IsKey(t)
  BY <1>1, <1>2 DEF Cuts, Openers, IsKey
<1>4. Body(t) = t
  BY <1>3 DEF Body
<1>5. Cardinality(Pieces(t)) # 2
  <2>1. Pieces(t) \subseteq {1}
    BY <1>2 DEF Pieces
  <2>2. Pieces(t) = {} \/ Pieces(t) = {1}
    BY <2>1
  <2>3. Cardinality({}) = 0 /\ Cardinality({1}) = 1 /\ 0 # 2 /\ 1 # 2
    BY FS_EmptySet, FS_Singleton
  <2> QED BY <2>2, <2>3, Zenon
<1>6. IsNumber(t, Half * Half) /\ t[1][2] = r
  <2>1. Half * Half \in Nat
    BY HalfAssumption
  <2>2. IsNumber(<<Num(r)>>, Half * Half)
    BY <2>1, NumbersAre DEF Packed
  <2> QED BY <2>2, <1>2, Tokens DEF t
<1>7. from_str(t) = <<r>>
  BY <1>4, <1>5, <1>6 DEF from_str
<1>8. \A q : from_str(t) = <<q>> => q \in {r}
  BY <1>7, OneIsOne
<1>9. from_str(t) # <<>>
  BY <1>7, OneIsOne
<1>10. LeadsTo(t, {r})
  BY <1>3, <1>7, <1>8, <1>9, TextIsRead
<1> QED
  BY <1>10 DEF t

(* A half that is negative as a signed number is no number for from_str.    *)
LEMMA TupleLeads ==
  ASSUME NEW r \in Packed
  PROVE  LeadsTo(tuple_string(r), IF Unreadable("tuple", Refno(r)) THEN {0, r} ELSE {r})
<1> DEFINE a == AsI32(get_0(r)) b == AsI32(get_1(r)) t == tuple_string(r)
<1>1. get_0(r) \in Halves /\ get_1(r) \in Halves
  BY HalvesOf
<1>2. a \in Int /\ b \in Int /\ (a < 0 \/ a = get_0(r)) /\ (b < 0 \/ b = get_1(r))
  BY <1>1, HalfAssumption DEF AsI32, Halves
<1>3. RefI32Tuple(r)[1] = a /\ RefI32Tuple(r)[2] = b
  BY DEF RefI32Tuple
<1>4. t = <<Num(a), Mark("slash"), Num(b)>>
  BY <1>3, Zenon DEF tuple_string
<1>5. Unreadable("tuple", Refno(r)) = (a < 0 \/ b < 0)
  <2>1. Refno(r).refno = r
    BY DEF Refno
  <2>2. (\E i \in 1 .. 2 : RefI32Tuple(r)[i] < 0) = (a < 0 \/ b < 0)
    <3>1. \A i \in 1 .. 2 : i = 1 \/ i = 2
      OBVIOUS
    <3>2. 1 \in 1 .. 2 /\ 2 \in 1 .. 2
      OBVIOUS
    <3> QED BY <1>3, <3>1, <3>2, Zenon
  <2> QED BY <2>1, <2>2 DEF Unreadable
<1> HIDE DEF a, b, t
<1>6. CASE ~(a < 0 \/ b < 0)
  <2>1. a = get_0(r) /\ b = get_1(r)
    BY <1>2, <1>6
  <2>2. t = to_slash_string(r)
    BY <1>4, <2>1, Zenon DEF to_slash_string
  <2>3. LeadsTo(t, {r})
    BY <2>2, PlainLeads
  <2> QED BY <2>3, <1>5, <1>6 DEF t
<1>7. CASE a < 0 \/ b < 0
  <2>1. /\ t[1] # Mark("open") /\ ~IsKey(t) /\ Cuts(t, {Mark("comma")}) = {} /\ Cuts(t, Openers) = {}
        /\ DOMAIN t = {1, 2, 3} /\ Len(t) = 3 /\ t[1] = Num(a) /\ t[3] = Num(b) /\ t[2] = Mark("slash")
    BY <1>4, HalvesAreNoKey
  <2>2. Body(t) = t
    BY <2>1 DEF Body
  <2>3. ~IsNumber(<<t[2]>>, Half)
    BY <2>1, MarksAreNoNumbers
  <2>4. ~IsNumber(<<t[1]>>, Half) \/ ~IsNumber(<<t[3]>>, Half)
    <3>1. \A n \in Int : n < 0 => ~IsNumber(<<Num(n)>>, Half)
      BY Tokens, HalfAssumption DEF IsNumber
    <3>2. ~IsNumber(<<Num(a)>>, Half) \/ ~IsNumber(<<Num(b)>>, Half)
      BY <3>1, <1>2, <1>7
    <3> QED BY <3>2, <2>1
  <2>5. Pieces(t) \subseteq {1} \/ Pieces(t) \subseteq {3}
    BY <2>1, <2>3, <2>4 DEF Pieces
  <2>6. Cardinality(Pieces(t)) # 2
    <3>1. Pieces(t) = {} \/ Pieces(t) = {1} \/ Pieces(t) = {3}
      BY <2>5
    <3>2. Cardinality({}) = 0 /\ Cardinality({1}) = 1 /\ Cardinality({3}) = 1
      BY FS_EmptySet, FS_Singleton, Zenon
    <3>3. 0 # 2 /\ 1 # 2
      OBVIOUS
    <3> QED BY <3>1, <3>2, <3>3, Zenon
  <2>7. Len(t) # 1
    BY <2>1
  <2>8. from_str(t) = <<>>
    BY <2>2, <2>6, <2>7, NoPieces
  <2>9. \A q : from_str(t) # <<q>>
    BY <2>8, OneIsOne
  <2>10. LeadsTo(t, {0, r})
    BY <2>1, <2>8, <2>9, TextIsRead
  <2> QED BY <2>10, <1>5, <1>7 DEF t
<1> QED
  BY <1>6, <1>7

LEMMA LatestKeyLeads ==
  ASSUME NEW r \in Packed, NEW tbl \in {"pe", "inst_relate"}
  PROVE  LeadsTo(to_table_key(tbl, Refno(r)), {r})
<1> DEFINE t == to_table_key(tbl, Refno(r)) p == plain(r)
           x == Num(get_0(r)) y == Mark("underscore") z == Num(get_1(r))
<1>1. p = <<x, y, z>>
  BY DEF plain
<1>2. t = <<Mark(tbl), Mark("colon")>> \o p
  <2>1. RefnoEnum_to_string(Refno(r)) = p
    BY DEF RefnoEnum_to_string, is_latest, Refno
  <2> QED BY <2>1, Zenon DEF to_table_key
<1>3. from_str(p) = <<r>>
  BY PlainIsRead
<1>4. Cuts(p, Openers) = {} /\ p[1] # Mark("open")
  BY <1>1, HalvesAreNoKey
<1> HIDE DEF x, y, z, t, p
<1>5. p \in Seq({x, y, z}) /\ Len(p) = 3
  BY <1>1
<1>6. /\ Body(t) = p /\ SubSeq(t, 3, Len(t)) = p
      /\ t[1] = Mark(tbl) /\ t[2] = Mark("colon") /\ Len(t) = 2 + Len(p)
  BY <1>2, <1>4, <1>5, KeyParts
<1>7. from_str(t) = <<r>>
  <2>1. Body(p) = p
    BY <1>4, Zenon DEF Body
  <2> QED BY <1>3, <1>6, <2>1, Zenon DEF from_str
<1>8. IsKey(t)
  BY <1>5, <1>6 DEF IsKey
<1>9. KeyThing(t).array = FALSE /\ KeyThing(t).id = p
  BY <1>4, <1>6 DEF KeyThing
<1>10. RefnoEnum_from_thing(KeyThing(t)) = Refno(r)
  <2>1. OrUnset(<<r>>) = r
    BY OneIsOne DEF OrUnset
  <2> QED BY <1>3, <1>9, <2>1, Zenon DEF RefnoEnum_from_thing, RefU64_from_thing
<1>11. RefersTo(RefnoEnum_from_thing(KeyThing(t)), {r})
  BY <1>10 DEF RefersTo
<1>12. \A q : from_str(t) = <<q>> => q \in {r}
  BY <1>7, OneIsOne
<1> QED
  BY <1>8, <1>11, <1>12 DEF LeadsTo, t

LEMMA SessionKeyLeads ==
  ASSUME NEW r \in Packed, NEW s \in Sesnos \union {0}, NEW tbl \in {"pe", "inst_relate"}
  PROVE  LeadsTo(to_table_key(tbl, RefnoSesno(r, s)), {r})
<1> DEFINE t == to_table_key(tbl, RefnoSesno(r, s)) p == RefnoSesno_to_string(r, s)
           x == Num(get_0(r)) y == Mark("underscore") z == Num(get_1(r)) q == plain(r)
           V == {Mark("open"), Mark("quote"), x, y, z, Mark("comma"), Num(s), Mark("close")}
<1>1. p \in Seq(V) /\ p[1] = Mark("open") /\ p[3] = x /\ p[4] = y /\ p[5] = z /\ p[8] = Num(s)
  <2>1. p = <<Mark("open"), Mark("quote"), x, y, z, Mark("quote"), Mark("comma"), Num(s), Mark("close")>>
    BY Zenon DEF RefnoSesno_to_string
  <2>2. {Mark("open"), Mark("quote"), x, y, z, Mark("quote"), Mark("comma"), Num(s), Mark("close")} = V
    BY Zenon
  <2> HIDE DEF V, x, y, z, p
  <2> QED BY <2>1, <2>2, Nine
<1>2. t = <<Mark(tbl), Mark("colon")>> \o p
  <2>1. RefnoEnum_to_string(RefnoSesno(r, s)) = p
    BY OneIsOne DEF RefnoEnum_to_string, is_latest, RefnoSesno
  <2> QED BY <2>1, Zenon DEF to_table_key
<1>3. from_str(q) = <<r>> /\ q = <<x, y, z>>
  BY PlainIsRead DEF plain
<1>4. Cuts(p, Openers) = {} /\ Pieces(p) = {} /\ Len(p) = 9
  BY SessionIsUnread
<1>5. Num(s)[2] = s
  BY Tokens
<1> HIDE DEF x, y, z, t, p, q, V
<1>6. /\ Body(t) = p /\ SubSeq(t, 3, Len(t)) = p
      /\ t[1] = Mark(tbl) /\ t[2] = Mark("colon") /\ Len(t) = 2 + Len(p)
  BY <1>1, <1>2, <1>4, KeyParts
<1>7. from_str(t) = <<>>
  <2>1. Cardinality({}) = 0 /\ 0 # 2 /\ 9 # 1
    BY FS_EmptySet
  <2> QED BY <1>4, <1>6, <2>1, NoPieces
<1>8. IsKey(t)
  BY <1>4, <1>6 DEF IsKey
<1>9. SubSeq(p, 3, 5) = q
  <2>1. q \in Seq({x, y, z}) /\ Len(q) = 3 /\ q[1] = x /\ q[2] = y /\ q[3] = z
    BY <1>3
  <2>2. \A i \in 1 .. Len(q) : p[3 + i - 1] = q[i]
    BY <1>1, <2>1
  <2>3. 5 = 3 + Len(q) - 1
    BY <2>1
  <2> QED BY <2>1, <2>2, <2>3, SubSeqIs
<1>10. KeyThing(t).array = TRUE /\ KeyThing(t).id = q /\ KeyThing(t).sesno = s
  BY <1>1, <1>5, <1>6, <1>9 DEF KeyThing
<1>11. RefnoEnum_from_thing(KeyThing(t)) = RefnoSesno(r, s)
  <2>1. OrUnset(<<r>>) = r
    BY OneIsOne DEF OrUnset
  <2> QED BY <1>3, <1>10, <2>1, Zenon DEF RefnoEnum_from_thing
<1>12. RefersTo(RefnoEnum_from_thing(KeyThing(t)), {r})
  BY <1>11 DEF RefersTo
<1>13. \A k : from_str(t) # <<k>>
  BY <1>7, OneIsOne
<1> QED
  BY <1>8, <1>12, <1>13 DEF LeadsTo, t

LEMMA SessionStringLeads ==
  ASSUME NEW r, NEW s
  PROVE  LeadsTo(RefnoSesno_to_string(r, s), {0, r})
<1> DEFINE p == RefnoSesno_to_string(r, s)
<1>1. p[1] = Mark("open") /\ p[2] = Mark("quote")
  <2>1. p = <<Mark("open"), Mark("quote"), Num(get_0(r)), Mark("underscore"), Num(get_1(r)), Mark("quote"),
              Mark("comma"), Num(s), Mark("close")>>
    BY Zenon DEF RefnoSesno_to_string
  <2> HIDE DEF p
  <2> QED BY <2>1, Nine
<1>2. Cuts(p, Openers) = {} /\ Pieces(p) = {} /\ Len(p) = 9
  BY SessionIsUnread
<1> HIDE DEF p
<1>3. from_str(p) = <<>>
  <2>1. Cardinality({}) = 0 /\ 0 # 2 /\ 9 # 1
    BY FS_EmptySet
  <2>2. Body(p) = p
    BY <1>2, Zenon DEF Body
  <2> QED BY <1>2, <2>1, <2>2, NoPieces
<1>4. \A k : from_str(p) # <<k>>
  BY <1>3, OneIsOne
<1>5. ~IsKey(p)
  <2>1. Mark("quote") # Mark("colon")
    BY Tokens
  <2> QED BY <1>1, <2>1 DEF IsKey
<1>6. RefnoEnum_from_str(p) = RefnoSesno(0, 0)
  <2>1. p # <<>>
    BY <1>2, OfEmpty
  <2> QED BY <1>1, <2>1, Zenon DEF RefnoEnum_from_str, UnsetRef
<1>7. RefersTo(RefnoEnum_from_str(p), {0, r})
  BY <1>6 DEF RefersTo
<1> QED
  BY <1>4, <1>5, <1>7 DEF LeadsTo, p

LEMMA RefnoFields ==
  ASSUME NEW r, NEW s
  PROVE  /\ Refno(r).refno = r /\ Refno(r).sesno = <<>> /\ is_latest(Refno(r))
         /\ RefnoSesno(r, s).refno = r /\ RefnoSesno(r, s).sesno = <<s>> /\ ~is_latest(RefnoSesno(r, s))
BY OneIsOne DEF Refno, RefnoSesno, is_latest

LEMMA LeadsFurther ==
  ASSUME NEW t, NEW S, NEW T, S \subseteq T, LeadsTo(t, S)
  PROVE  LeadsTo(t, T)
BY DEF LeadsTo, RefersTo

LEMMA ZeroIsAReference == 0 \in Packed
<1>1. Half * Half - 1 \in Nat
  BY HalfAssumption
<1> QED
  BY <1>1 DEF Packed

(* A key of table pe is a table key of the reference, or of the latest one. *)
LEMMA KeyIs ==
  ASSUME NEW r, NEW s
  PROVE  /\ to_pe_key(Refno(r)) = to_table_key("pe", Refno(r))
         /\ to_pe_key(RefnoSesno(r, s)) =
              IF s = 0 THEN to_table_key("pe", Refno(r)) ELSE to_table_key("pe", RefnoSesno(r, s))
<1>1. <<>> # <<0>> /\ (<<s>> = <<0>>) = (s = 0)
  <2>1. (<<s>> = <<0>>) = (s = 0)
    BY OneIsOne
  <2>2. <<0>> # <<>>
    BY OneIsOne, Zenon
  <2> QED
    BY <2>1, <2>2, Zenon
<1>2. latest(RefnoSesno(r, s)) = Refno(r)
  BY RefnoFields DEF latest
<1> QED
  BY <1>1, <1>2, RefnoFields, Zenon DEF to_pe_key

LEMMA TableKeyLeads ==
  ASSUME NEW r \in Packed, NEW e, RefersTo(e, {r}), NEW tbl \in {"pe", "inst_relate"}
  PROVE  LeadsTo(to_table_key(tbl, e), {r})
<1>1. e = Refno(r) \/ \E s \in Sesnos \union {0} : e = RefnoSesno(r, s)
  BY DEF RefersTo
<1> QED
  BY <1>1, LatestKeyLeads, SessionKeyLeads

(* Whatever a reference is written as, it leads to its element, or to none  *)
(* when the text is not readable.                                           *)
LEMMA WrittenLeads ==
  ASSUME NEW r \in Packed, NEW e, RefersTo(e, {r}), NEW form \in Forms
  PROVE  LeadsTo(Written(form, e), IF Unreadable(form, e) THEN {0, r} ELSE {r})
<1>1. e.refno = r /\ (e = Refno(r) \/ \E s \in Sesnos \union {0} : e = RefnoSesno(r, s))
  BY RefnoFields DEF RefersTo
<1>2. SUFFICES (form # "tuple" /\ LeadsTo(Written(form, e), {r})) \/
               LeadsTo(Written(form, e), IF Unreadable(form, e) THEN {0, r} ELSE {r})
  <2>1. LeadsTo(Written(form, e), {r}) => LeadsTo(Written(form, e), {0, r})
    BY LeadsFurther
  <2> QED BY <2>1
<1>3. CASE form = "key"
  <2>1. Written(form, e) = to_pe_key(e)
    BY <1>3 DEF Written
  <2>2. LeadsTo(to_pe_key(e), {r})
    <3>1. LeadsTo(to_table_key("pe", Refno(r)), {r}) /\ \A s \in Sesnos \union {0} : LeadsTo(to_table_key("pe", RefnoSesno(r, s)), {r})
      BY LatestKeyLeads, SessionKeyLeads
    <3>2. CASE e = Refno(r)
      BY <3>1, <3>2, KeyIs
    <3>3. ASSUME NEW s \in Sesnos \union {0}, e = RefnoSesno(r, s) PROVE LeadsTo(to_pe_key(e), {r})
      BY <3>1, <3>3, KeyIs
    <3> QED BY <1>1, <3>2, <3>3
  <2> QED BY <1>3, <2>1, <2>2
<1>4. CASE form = "inst"
  <2>1. Written(form, e) = to_table_key("inst_relate", e)
    BY <1>4 DEF Written
  <2> QED BY <1>4, <2>1, TableKeyLeads
<1>5. CASE form = "string"
  <2>1. Written(form, e) = RefnoEnum_to_string(e)
    BY <1>5 DEF Written
  <2>2. CASE e = Refno(r)
    <3>1. RefnoEnum_to_string(e) = plain(r)
      BY <2>2, RefnoFields DEF RefnoEnum_to_string
    <3> QED BY <2>1, <3>1, <1>5, PlainLeads
  <2>3. ASSUME NEW s \in Sesnos \union {0}, e = RefnoSesno(r, s)
        PROVE  LeadsTo(Written(form, e), IF Unreadable(form, e) THEN {0, r} ELSE {r})
    <3>1. RefnoEnum_to_string(e) = RefnoSesno_to_string(r, s)
      BY <2>3, RefnoFields, OneIsOne DEF RefnoEnum_to_string
    <3>2. Unreadable(form, e)
      BY <2>3, <1>5, RefnoFields DEF Unreadable
    <3> QED BY <2>1, <3>1, <3>2, SessionStringLeads
  <2> QED BY <1>1, <2>2, <2>3
<1>6. CASE form = "e3d"
  <2>1. Written(form, e) = to_e3d_id(r)
    BY <1>1, <1>6 DEF Written
  <2> QED BY <1>6, <2>1, E3dLeads
<1>7. CASE form = "slash"
  <2>1. Written(form, e) = to_slash_string(r)
    BY <1>1, <1>7 DEF Written
  <2> QED BY <1>7, <2>1, PlainLeads
<1>8. CASE form = "tuple"
  <2>1. Written(form, e) = tuple_string(r)
    BY <1>1, <1>8 DEF Written
  <2>2. Unreadable(form, e) = Unreadable("tuple", Refno(r))
    BY <1>1, <1>8, RefnoFields DEF Unreadable
  <2> QED BY <2>1, <2>2, TupleLeads
<1>9. CASE form = "number"
  <2>1. Written(form, e) = <<Num(r)>>
    BY <1>1, <1>9 DEF Written
  <2> QED BY <1>9, <2>1, NumberLeads
<1> QED
  BY <1>3, <1>4, <1>5, <1>6, <1>7, <1>8, <1>9 DEF Forms

-----------------------------------------------------------------------------
(* A reference handed on.                                                   *)

(* What is held, and the text on its way, lead to the element it began with; *)
(* once a text was used that nothing reads, to it or to none.  Every key was *)
(* made of the reference it is issued for.                                  *)
Reached == IF spoilt THEN {0, first} ELSE {first}
RefnoInv ==
  /\ first \in Packed /\ spoilt \in BOOLEAN
  /\ RefersTo(held, Reached)
  /\ text = <<>> \/ LeadsTo(text, Reached)
  /\ \A i \in issued : i[2] = to_pe_key(i[1]) /\ RefersTo(i[1], Packed)

LEMMA RefnoInvHolds == RefnoSpec => []RefnoInv
<1>1. RefnoInit => RefnoInv
  <2> SUFFICES ASSUME RefnoInit PROVE RefnoInv
    OBVIOUS
  <2>1. first \in Packed /\ held = Refno(first) /\ text = <<>> /\ issued = {} /\ spoilt = FALSE
    BY RefnosAssumption DEF RefnoInit, Packed
  <2>2. RefersTo(held, Reached)
    BY <2>1 DEF RefersTo, Reached
  <2> QED BY <2>1, <2>2 DEF RefnoInv
<1>2. RefnoInv /\ [RefnoNext]_refnoVars => RefnoInv'
  <2> SUFFICES ASSUME RefnoInv, [RefnoNext]_refnoVars PROVE RefnoInv'
    OBVIOUS
  <2>1. ASSUME NEW form \in Forms, Write(form) PROVE RefnoInv'
    <3>1. text' = Written(form, held) /\ spoilt' = (spoilt \/ Unreadable(form, held)) /\ first' = first /\ held' = held
      BY <2>1 DEF Write
    <3>2. PICK r \in Reached : RefersTo(held, {r})
      BY DEF RefnoInv, RefersTo
    <3>3. first \in Packed /\ r \in Packed /\ spoilt \in BOOLEAN /\ Reached \subseteq {0, first}
      BY <3>2, ZeroIsAReference DEF RefnoInv, Reached
    <3>4. LeadsTo(text', IF Unreadable(form, held) THEN {0, r} ELSE {r})
      BY <3>1, <3>2, <3>3, WrittenLeads
    <3>5. spoilt' \in BOOLEAN
      BY <3>1, <3>3, Zenon DEF Unreadable
    <3>6. Reached \subseteq Reached' /\ (Unreadable(form, held) => Reached' = {0, first})
      BY <3>1, <3>3 DEF Reached
    <3>7. RefersTo(held', Reached')
      <4>1. RefersTo(held, Reached)
        BY DEF RefnoInv
      <4> QED BY <3>1, <3>6, <4>1 DEF RefersTo
    <3>8. LeadsTo(text', Reached')
      <4>1. {r} \subseteq Reached' /\ (Unreadable(form, held) => {0, r} \subseteq Reached')
        BY <3>2, <3>3, <3>6
      <4> QED BY <3>4, <4>1, LeadsFurther
    <3>9. \A i \in issued' : i[2] = to_pe_key(i[1]) /\ RefersTo(i[1], Packed)
      <4>1. \A i \in issued : i[2] = to_pe_key(i[1]) /\ RefersTo(i[1], Packed)
        BY DEF RefnoInv
      <4>2. RefersTo(held, Packed)
        BY <3>2, <3>3 DEF RefersTo
      <4>3. CASE form # "key"
        BY <2>1, <4>1, <4>3 DEF Write
      <4>4. CASE form = "key"
        <5>1. Written(form, held) = to_pe_key(held)
          BY <4>4 DEF Written
        <5>2. issued' = issued \union {<<held, to_pe_key(held)>>}
          BY <2>1, <4>4, <5>1, <3>1, Zenon DEF Write
        <5>3. <<held, to_pe_key(held)>>[1] = held /\ <<held, to_pe_key(held)>>[2] = to_pe_key(held)
          OBVIOUS
        <5>4. ASSUME NEW i \in issued' PROVE i[2] = to_pe_key(i[1]) /\ RefersTo(i[1], Packed)
          BY <4>1, <4>2, <5>2, <5>3, Zenon
        <5> QED BY <5>4
      <4> QED BY <4>3, <4>4
    <3> QED BY <3>1, <3>3, <3>5, <3>7, <3>8, <3>9 DEF RefnoInv
  <2>2. CASE Read
    <3>1. text' = <<>> /\ first' = first /\ issued' = issued /\ spoilt' = spoilt /\ Reached' = Reached
      BY <2>2 DEF Read, Reached
    <3>2. text # <<>>
      <4>1. ReadThing => text # <<>>
        BY OfEmpty DEF ReadThing, IsKey
      <4> QED BY <2>2, <4>1 DEF Read, ReadRefU64, ReadRefnoEnum
    <3>3. LeadsTo(text, Reached)
      BY <3>2 DEF RefnoInv
    <3>4. ASSUME ReadThing PROVE RefersTo(held', Reached)
      BY <3>3, <3>4 DEF ReadThing, LeadsTo
    <3>5. ASSUME ReadRefU64 PROVE RefersTo(held', Reached)
      <4>1. from_str(text) # <<>> /\ held' = Refno(from_str(text)[1])
        BY <3>5 DEF ReadRefU64
      <4>2. \E q : from_str(text) = <<q>>
        BY <4>1, Zenon DEF from_str
      <4>3. PICK q : from_str(text) = <<q>>
        BY <4>2
      <4>4. from_str(text)[1] = q /\ q \in Reached
        BY <4>3, <3>3, OneIsOne DEF LeadsTo
      <4> QED BY <4>1, <4>4 DEF RefersTo
    <3>6. ASSUME ReadRefnoEnum PROVE RefersTo(held', Reached)
      BY <3>3, <3>6 DEF ReadRefnoEnum, LeadsTo
    <3>7. RefersTo(held', Reached)
      BY <2>2, <3>4, <3>5, <3>6 DEF Read
    <3> QED BY <3>1, <3>7 DEF RefnoInv
  <2>3. CASE Turn
    <3>1. PICK s \in Sesnos : held' = RefnoSesno(held.refno, s)
      BY <2>3 DEF Turn
    <3>2. text' = text /\ first' = first /\ issued' = issued /\ spoilt' = spoilt /\ Reached' = Reached
      BY <2>3 DEF Turn, Reached
    <3>3. held.refno \in Reached
      BY RefnoFields DEF RefnoInv, RefersTo
    <3>4. RefersTo(held', Reached)
      BY <3>1, <3>3 DEF RefersTo
    <3> QED BY <3>2, <3>4 DEF RefnoInv
  <2>4. CASE UNCHANGED refnoVars
    BY <2>4 DEF refnoVars, RefnoInv, Reached
  <2> QED BY <2>1, <2>2, <2>3, <2>4 DEF RefnoNext
<1> QED
  BY <1>1, <1>2, PTL DEF RefnoSpec

(* Whatever texts it travels in, a reference stays that of its element, as   *)
(* long as every text was one that something reads (types/refno.rs).        *)
THEOREM ReferencesStayTheirs == RefnoSpec => []HandedOnUnchanged
<1>1. RefnoInv => HandedOnUnchanged
  <2> SUFFICES ASSUME RefnoInv, ~spoilt PROVE held.refno = first
    BY DEF HandedOnUnchanged
  <2>1. Reached = {first}
    BY DEF RefnoInv, Reached
  <2>2. RefersTo(held, {first})
    BY <2>1 DEF RefnoInv
  <2>3. CASE held = Refno(first)
    BY <2>3, RefnoFields
  <2>4. CASE \E s \in Sesnos \union {0} : held = RefnoSesno(first, s)
    BY <2>4, RefnoFields
  <2> QED BY <2>2, <2>3, <2>4 DEF RefersTo
<1> QED
  BY <1>1, RefnoInvHolds, PTL

-----------------------------------------------------------------------------
(* Keys.                                                                    *)

LEMMA NumIsOne ==
  ASSUME NEW m, NEW n
  PROVE  (Num(m) = Num(n)) = (m = n)
BY Tokens

LEMMA PlainTells ==
  ASSUME NEW r \in Packed, NEW q \in Packed, plain(r) = plain(q)
  PROVE  r = q
<1>1. <<Num(get_0(r)), Mark("underscore"), Num(get_1(r))>> = <<Num(get_0(q)), Mark("underscore"), Num(get_1(q))>>
  BY DEF plain
<1>2. Num(get_0(r)) = Num(get_0(q)) /\ Num(get_1(r)) = Num(get_1(q))
  BY <1>1
<1> QED
  BY <1>2, NumIsOne, HalvesTell

(* The text of a key's record tells reference and session.                  *)
LEMMA TextTells ==
  ASSUME NEW r \in Packed, NEW q \in Packed, NEW s, NEW z
  PROVE  /\ plain(r) # RefnoSesno_to_string(q, z)
         /\ (RefnoSesno_to_string(r, s) = RefnoSesno_to_string(q, z)) = (r = q /\ s = z)
         /\ (plain(r) = plain(q)) = (r = q)
<1> DEFINE t(a, b) == RefnoSesno_to_string(a, b)
<1>1. ASSUME NEW a, NEW b
      PROVE  Len(t(a, b)) = 9 /\ t(a, b)[3] = Num(get_0(a)) /\ t(a, b)[5] = Num(get_1(a)) /\ t(a, b)[8] = Num(b)
  <2>1. t(a, b) = <<Mark("open"), Mark("quote"), Num(get_0(a)), Mark("underscore"), Num(get_1(a)), Mark("quote"),
                    Mark("comma"), Num(b), Mark("close")>>
    BY Zenon DEF RefnoSesno_to_string
  <2> HIDE DEF t
  <2> QED BY <2>1, Nine
<1>2. Len(plain(r)) = 3
  BY Three DEF plain
<1> HIDE DEF t
<1>3. plain(r) # t(q, z)
  BY <1>1, <1>2
<1>4. ASSUME t(r, s) = t(q, z) PROVE r = q /\ s = z
  <2>1. Num(get_0(r)) = Num(get_0(q)) /\ Num(get_1(r)) = Num(get_1(q)) /\ Num(s) = Num(z)
    BY <1>1, <1>4
  <2> QED BY <2>1, NumIsOne, HalvesTell
<1> QED
  BY <1>3, <1>4, PlainTells, Zenon DEF t

(* The record of e: session 0 is the latest one.                            *)
OfLatest(e) == e.sesno = <<>> \/ e.sesno = <<0>>
RecordText(e) == IF OfLatest(e) THEN plain(e.refno) ELSE RefnoSesno_to_string(e.refno, e.sesno[1])

LEMMA KeyNames ==
  ASSUME NEW e, RefersTo(e, Packed)
  PROVE  /\ to_pe_key(e) = <<Mark("pe"), Mark("colon")>> \o RecordText(e)
         /\ Body(to_pe_key(e)) = RecordText(e)
<1>1. PICK r \in Packed : e = Refno(r) \/ \E s \in Sesnos \union {0} : e = RefnoSesno(r, s)
  BY DEF RefersTo
<1>2. to_table_key("pe", Refno(r)) = <<Mark("pe"), Mark("colon")>> \o plain(r)
  BY RefnoFields, Zenon DEF to_table_key, RefnoEnum_to_string
<1>3. to_pe_key(e) = <<Mark("pe"), Mark("colon")>> \o RecordText(e)
  <2>1. CASE e = Refno(r)
    <3>1. RecordText(e) = plain(r)
      BY <2>1, RefnoFields, Zenon DEF RecordText, OfLatest
    <3> QED BY <2>1, <3>1, <1>2, KeyIs, Zenon
  <2>2. ASSUME NEW s \in Sesnos \union {0}, e = RefnoSesno(r, s)
        PROVE  to_pe_key(e) = <<Mark("pe"), Mark("colon")>> \o RecordText(e)
    <3>1. e.refno = r /\ e.sesno = <<s>> /\ e.sesno[1] = s /\ ~is_latest(e) /\ (OfLatest(e) <=> s = 0)
      BY <2>2, RefnoFields, OneIsOne DEF OfLatest
    <3>2. CASE s = 0
      <4>1. to_pe_key(e) = to_table_key("pe", Refno(r))
        BY <2>2, <3>2, KeyIs, Zenon
      <4> QED BY <3>1, <3>2, <4>1, <1>2, Zenon DEF RecordText
    <3>3. CASE s # 0
      <4>1. to_pe_key(e) = to_table_key("pe", e)
        BY <2>2, <3>3, KeyIs, Zenon
      <4> QED BY <3>1, <3>3, <4>1, Zenon DEF RecordText, to_table_key, RefnoEnum_to_string
    <3> QED BY <3>2, <3>3
  <2> QED BY <1>1, <2>1, <2>2
<1>4. \E V : RecordText(e) \in Seq(V)
  <2>1. ASSUME NEW a PROVE \E V : plain(a) \in Seq(V)
    <3>1. plain(a) \in Seq({Num(get_0(a)), Mark("underscore"), Num(get_1(a))})
      BY DEF plain
    <3> QED BY <3>1
  <2>2. ASSUME NEW a, NEW b PROVE \E V : RefnoSesno_to_string(a, b) \in Seq(V)
    <3>1. RefnoSesno_to_string(a, b) \in Seq({Mark("open"), Mark("quote"), Num(get_0(a)), Mark("underscore"), Num(get_1(a)),
                                               Mark("quote"), Mark("comma"), Num(b), Mark("close")})
      BY Nine DEF RefnoSesno_to_string
    <3> QED BY <3>1
  <2> QED BY <2>1, <2>2, Zenon DEF RecordText
<1>5. Cuts(RecordText(e), Openers) = {}
  <2>1. \A a : Cuts(plain(a), Openers) = {}
    BY HalvesAreNoKey DEF plain
  <2>2. \A a, b : Cuts(RefnoSesno_to_string(a, b), Openers) = {}
    BY SessionIsUnread
  <2> QED BY <2>1, <2>2, Zenon DEF RecordText
<1>6. Body(to_pe_key(e)) = RecordText(e)
  <2>1. PICK V : RecordText(e) \in Seq(V)
    BY <1>4
  <2> QED BY <1>3, <1>5, <2>1, KeyParts
<1> QED
  BY <1>3, <1>6

LEMMA KeysTell ==
  ASSUME NEW a, NEW b, RefersTo(a, Packed), RefersTo(b, Packed)
  PROVE  (to_pe_key(a) = to_pe_key(b)) = SameRecord(a, b)
<1>1. (to_pe_key(a) = to_pe_key(b)) = (RecordText(a) = RecordText(b))
  BY KeyNames, Zenon
<1>2. \A e : RefersTo(e, Packed) => e.refno \in Packed /\ (e.sesno = <<>> \/ \E s : e.sesno = <<s>>)
  BY RefnoFields DEF RefersTo
<1>3. a.refno \in Packed /\ b.refno \in Packed
  BY <1>2
<1>4. PICK x : ~OfLatest(a) => a.sesno = <<x>> /\ a.sesno[1] = x
  <2>1. a.sesno = <<>> \/ \E s : a.sesno = <<s>>
    BY <1>2
  <2>2. CASE a.sesno = <<>>
    BY <2>2, Zenon DEF OfLatest
  <2>3. CASE \E s : a.sesno = <<s>>
    <3>1. PICK s : a.sesno = <<s>>
      BY <2>3
    <3>2. a.sesno[1] = s
      BY <3>1, OneIsOne
    <3> QED BY <3>1, <3>2
  <2> QED BY <2>1, <2>2, <2>3
<1>5. PICK y : ~OfLatest(b) => b.sesno = <<y>> /\ b.sesno[1] = y
  <2>1. b.sesno = <<>> \/ \E s : b.sesno = <<s>>
    BY <1>2
  <2>2. CASE b.sesno = <<>>
    BY <2>2, Zenon DEF OfLatest
  <2>3. CASE \E s : b.sesno = <<s>>
    <3>1. PICK s : b.sesno = <<s>>
      BY <2>3
    <3>2. b.sesno[1] = s
      BY <3>1, OneIsOne
    <3> QED BY <3>1, <3>2
  <2> QED BY <2>1, <2>2, <2>3
<1>6. CASE OfLatest(a) /\ OfLatest(b)
  <2>1. RecordText(a) = RecordText(b) <=> a.refno = b.refno
    BY <1>3, <1>6, TextTells, Zenon DEF RecordText
  <2>2. SameRecord(a, b) <=> a.refno = b.refno
    BY <1>6, Zenon DEF SameRecord, OfLatest
  <2> QED BY <1>1, <2>1, <2>2, Zenon DEF SameRecord
<1>7. CASE ~OfLatest(a) /\ ~OfLatest(b)
  <2>1. RecordText(a) = RecordText(b) <=> a.refno = b.refno /\ x = y
    <3>1. RecordText(a) = RefnoSesno_to_string(a.refno, x) /\ RecordText(b) = RefnoSesno_to_string(b.refno, y)
      BY <1>4, <1>5, <1>7, Zenon DEF RecordText
    <3>2. RefnoSesno_to_string(a.refno, x) = RefnoSesno_to_string(b.refno, y) <=> a.refno = b.refno /\ x = y
      BY <1>3, TextTells
    <3> QED BY <3>1, <3>2, Zenon
  <2>2. SameRecord(a, b) <=> a.refno = b.refno /\ x = y
    <3>1. a.sesno = b.sesno <=> x = y
      <4>1. a.sesno = <<x>> /\ b.sesno = <<y>>
        BY <1>4, <1>5, <1>7
      <4>2. <<x>> = <<y>> <=> x = y
        BY OneIsOne
      <4> QED BY <4>1, <4>2, Zenon
    <3>2. ~({a.sesno, b.sesno} \subseteq {<<>>, <<0>>})
      BY <1>7, Zenon DEF OfLatest
    <3> QED BY <3>1, <3>2, Zenon DEF SameRecord
  <2> QED BY <1>1, <2>1, <2>2, Zenon DEF SameRecord
<1>8. CASE ~(OfLatest(a) <=> OfLatest(b))
  <2>1. RecordText(a) # RecordText(b)
    <3>3. CASE OfLatest(a) /\ ~OfLatest(b)
      <4>1. RecordText(a) = plain(a.refno) /\ RecordText(b) = RefnoSesno_to_string(b.refno, b.sesno[1])
        BY <3>3, Zenon DEF RecordText
      <4>2. plain(a.refno) # RefnoSesno_to_string(b.refno, b.sesno[1])
        BY <1>3, TextTells
      <4> QED BY <4>1, <4>2, Zenon
    <3>4. CASE ~OfLatest(a) /\ OfLatest(b)
      <4>1. RecordText(b) = plain(b.refno) /\ RecordText(a) = RefnoSesno_to_string(a.refno, a.sesno[1])
        BY <3>4, Zenon DEF RecordText
      <4>2. plain(b.refno) # RefnoSesno_to_string(a.refno, a.sesno[1])
        BY <1>3, TextTells
      <4> QED BY <4>1, <4>2, Zenon
    <3> QED BY <1>8, <3>3, <3>4, Zenon
  <2>2. ~SameRecord(a, b)
    <3>1. a.sesno # b.sesno
      BY <1>8, Zenon DEF OfLatest
    <3>2. ~({a.sesno, b.sesno} \subseteq {<<>>, <<0>>})
      BY <1>8, Zenon DEF OfLatest
    <3> QED BY <3>1, <3>2, Zenon DEF SameRecord
  <2> QED BY <1>1, <2>1, <2>2, Zenon DEF SameRecord
<1> QED
  BY <1>6, <1>7, <1>8, Zenon

(* Two keys issued are equal just when they mean the same record, session 0 *)
(* being the latest (RefU64::to_table_key, RefnoSesno::to_pe_key).          *)
THEOREM KeysTellRecords == RefnoSpec => []KeysNameRecords
<1>1. RefnoInv => KeysNameRecords
  <2> SUFFICES ASSUME RefnoInv, NEW a \in issued, NEW b \in issued
               PROVE  (a[2] = b[2]) = SameRecord(a[1], b[1])
    BY DEF KeysNameRecords
  <2>1. a[2] = to_pe_key(a[1]) /\ RefersTo(a[1], Packed) /\ b[2] = to_pe_key(b[1]) /\ RefersTo(b[1], Packed)
    BY DEF RefnoInv
  <2>2. (to_pe_key(a[1]) = to_pe_key(b[1])) = SameRecord(a[1], b[1])
    BY <2>1, KeysTell
  <2> QED BY <2>1, <2>2, Zenon
<1> QED
  BY <1>1, RefnoInvHolds, PTL

-----------------------------------------------------------------------------
(* Attributes: the operators of the model.                                  *)

(* Plain values of a record name no element.                                *)
LEMMA PlainValuesAreNoThings ==
  ASSUME NEW v
  PROVE  ThingsOf(into_json(v)) = {}
<1> USE DEF ThingsOf, into_json, Number, Strand, Bool, Null, Cleaned, Mapped
<1>1. CASE v[1] \in {"IntegerType", "F32Type"}
  BY <1>1
<1>2. CASE v[1] = "BoolType"
  BY <1>2
<1>3. CASE v[1] \in {"StringType", "WordType"}
  BY <1>3
<1>4. CASE v[1] \in {"F32VecType", "Vec3Type", "IntArrayType"}
  BY <1>4
<1>5. CASE v[1] = "StringArrayType"
  BY <1>5
<1>6. CASE v[1] = "BoolArrayType"
  BY <1>6
<1>7. CASE v[1] \notin {"IntegerType", "F32Type", "BoolType", "StringType", "WordType", "F32VecType",
                        "Vec3Type", "IntArrayType", "StringArrayType", "BoolArrayType"}
  BY <1>7
<1> QED
  BY <1>1, <1>2, <1>3, <1>4, <1>5, <1>6, <1>7

LEMMA ThingsOfOne ==
  ASSUME NEW e
  PROVE  ThingsOf(Thing(e)) = {e}
BY DEF ThingsOf, Thing

LEMMA ThingsOfMany ==
  ASSUME NEW es
  PROVE  ThingsOf(Things(es)) = {es[i] : i \in DOMAIN es}
BY DEF ThingsOf, Things, Thing, Mapped

-----------------------------------------------------------------------------
(* References of a session *)

(* InForce, for the sessions S of an element.                               *)
ForceIn(S, sesno) == LET upto == {s \in S : s <= sesno} IN IF upto = {} THEN 0 ELSE Max(upto)
LedTo(S, e) == IF e.sesno = <<>> THEN Max(S) ELSE e.sesno[1]

(* A reference of the element leads to the session in force, if it has one. *)
LEMMA AtSessionIsRight ==
  ASSUME NEW a, NEW sesno, NEW r \in References(a),
         r \in DOMAIN sessions, InForce(r, sesno) # 0
  PROVE  LedTo(sessions[r], AtSession(r, build_refno_sesno_map(a, sesno))) = InForce(r, sesno)
<1> DEFINE map == build_refno_sesno_map(a, sesno)
           q == query_refno_sesno(r, sesno)
<1>1. q[1] = InForce(r, sesno) /\ q[2] = Max(sessions[r])
  BY DEF query_refno_sesno, InForce
<1>2. CASE q[1] # q[2]
  <2>1. r \in DOMAIN map /\ map[r] = InForce(r, sesno)
    BY <1>1, <1>2 DEF build_refno_sesno_map
  <2> HIDE DEF map
  <2>2. AtSession(r, map) = [refno |-> r, sesno |-> <<InForce(r, sesno)>>]
    BY <2>1 DEF AtSession
  <2>3. LedTo(sessions[r], AtSession(r, map)) = InForce(r, sesno)
    BY <2>2 DEF LedTo
  <2> QED
    BY <2>3 DEF map
<1>3. CASE q[1] = q[2]
  <2>1. r \notin DOMAIN map
    BY <1>3 DEF build_refno_sesno_map
  <2> HIDE DEF map
  <2>2. AtSession(r, map) = [refno |-> r, sesno |-> <<>>]
    BY <2>1 DEF AtSession, Latest
  <2>3. LedTo(sessions[r], AtSession(r, map)) = InForce(r, sesno)
    BY <1>1, <1>3, <2>2 DEF LedTo
  <2> QED
    BY <2>3 DEF map
<1> QED
  BY <1>2, <1>3

LEMMA AtSessionKeepsTheElement ==
  ASSUME NEW r, NEW map
  PROVE  AtSession(r, map).refno = r
BY DEF AtSession, Latest

(* The record of a session: what its references are.                        *)
LEMMA ThingsOfASession ==
  ASSUME NEW a, NEW sesno, NEW map,
         NEW k \in DOMAIN gen_sur_json_with_sesno(a, sesno, map) \ {"id", "REFNO"},
         NEW e \in ThingsOf(gen_sur_json_with_sesno(a, sesno, map)[k])
  PROVE  \E r \in References(a) : e = AtSession(r, map)
<1> DEFINE refno == get_refno_by_att(a, "REFNO").refno
           this == [refno |-> refno, sesno |-> <<sesno>>]
           one == Only(Single(a), LAMBDA n : refno_value(a[n]) # 0)
           many == Only(Lists(a), LAMBDA n : a[n][2] # <<>>)
           ids == [id |-> <<"IdText", this>>, REFNO |-> Thing(this)]
           ones == [n \in DOMAIN one |-> Thing(AtSession(refno_value(a[n]), map))]
           lists == [n \in DOMAIN many |-> Things([i \in DOMAIN a[n][2] |-> AtSession(a[n][2][i].refno, map)])]
           rec == gen_sur_json_with_sesno(a, sesno, map)
<1>1. rec = PlainJson(a) ++ ids ++ ones ++ lists
  BY DEF gen_sur_json_with_sesno
<1>2. DOMAIN ids = {"id", "REFNO"}
  OBVIOUS
<1>3. \A n \in DOMAIN one : n \in DOMAIN a /\ a[n][1] = "RefU64Type" /\ refno_value(a[n]) = a[n][2]
  BY DEF Only, Single, IsRefU64, refno_value, Fields, Without
<1>4. \A n \in DOMAIN many : n \in DOMAIN a /\ a[n][1] = "RefU64Array"
  BY DEF Only, Lists, Fields, Without
<1> HIDE DEF one, many, ids, ones, lists
<1>8. /\ DOMAIN rec = DOMAIN PlainJson(a) \union DOMAIN ids \union DOMAIN ones \union DOMAIN lists
      /\ \A n \in DOMAIN PlainJson(a) : rec[n] = PlainJson(a)[n]
      /\ \A n \in DOMAIN ones \ (DOMAIN PlainJson(a) \union DOMAIN ids) : rec[n] = ones[n]
      /\ \A n \in DOMAIN lists \ (DOMAIN PlainJson(a) \union DOMAIN ids \union DOMAIN ones) : rec[n] = lists[n]
  <2> HIDE DEF rec
  <2> QED
    BY <1>1 DEF ++
<1>9. k \in DOMAIN rec /\ k \notin DOMAIN ids /\ e \in ThingsOf(rec[k])
  BY <1>2
<1> HIDE DEF rec
<1>5. CASE k \in DOMAIN PlainJson(a)
  <2>1. rec[k] = PlainJson(a)[k]
    BY <1>5, <1>8
  <2>2. \E v : PlainJson(a)[k] = into_json(v) \/ PlainJson(a)[k] = Strand(v)
    BY <1>5 DEF PlainJson, ++
  <2>3. ThingsOf(PlainJson(a)[k]) = {}
    BY <2>2, PlainValuesAreNoThings DEF ThingsOf, Strand
  <2> QED
    BY <2>1, <2>3, <1>9
<1>6. CASE k \notin DOMAIN PlainJson(a) /\ k \in DOMAIN ones
  <2>1. rec[k] = Thing(AtSession(refno_value(a[k]), map)) /\ k \in DOMAIN one
    BY <1>6, <1>8, <1>9 DEF ones
  <2>2. e = AtSession(refno_value(a[k]), map)
    BY <2>1, <1>9, ThingsOfOne
  <2>3. refno_value(a[k]) \in References(a)
    BY <2>1, <1>3 DEF References
  <2> QED
    BY <2>2, <2>3
<1>7. CASE k \notin DOMAIN PlainJson(a) \union DOMAIN ones
  <2>1. k \in DOMAIN lists
    BY <1>7, <1>8, <1>9
  <2>2. rec[k] = Things([i \in DOMAIN a[k][2] |-> AtSession(a[k][2][i].refno, map)]) /\ k \in DOMAIN many
    BY <1>7, <1>8, <1>9, <2>1 DEF lists
  <2>3. PICK i \in DOMAIN a[k][2] : e = AtSession(a[k][2][i].refno, map)
    BY <2>2, <1>9, ThingsOfMany
  <2>4. a[k][2][i].refno \in References(a)
    BY <2>2, <2>3, <1>4 DEF References
  <2> QED
    BY <2>3, <2>4
<1> QED
  BY <1>5, <1>6, <1>7

(* HistoryMeansItsTime, said of the sessions there were when the record was *)
(* saved: this is what stays true.                                          *)
RecordOfItsTime(rec, sesno, then) ==
  \A k \in DOMAIN rec \ {"id", "REFNO"} : \A e \in ThingsOf(rec[k]) :
    e.refno \in DOMAIN then /\ ForceIn(then[e.refno], sesno) # 0
    => LedTo(then[e.refno], e) = ForceIn(then[e.refno], sesno)
HistInv ==
  saved.at > 0 => RecordOfItsTime(record, saved.at, saved.sessions) /\ DOMAIN sessions = DOMAIN saved.sessions

LEMMA SavedInItsTime ==
  ASSUME NEW sesno
  PROVE  RecordOfItsTime(gen_sur_json_with_sesno(att, sesno, build_refno_sesno_map(att, sesno)), sesno, sessions)
<1> DEFINE map == build_refno_sesno_map(att, sesno)
           rec == gen_sur_json_with_sesno(att, sesno, map)
<1> SUFFICES ASSUME NEW k \in DOMAIN rec \ {"id", "REFNO"}, NEW e \in ThingsOf(rec[k]),
                    e.refno \in DOMAIN sessions, ForceIn(sessions[e.refno], sesno) # 0
             PROVE  LedTo(sessions[e.refno], e) = ForceIn(sessions[e.refno], sesno)
  BY DEF RecordOfItsTime
<1>1. PICK r \in References(att) : e = AtSession(r, map)
  BY ThingsOfASession
<1>2. e.refno = r
  BY <1>1, AtSessionKeepsTheElement
<1>3. ForceIn(sessions[r], sesno) = InForce(r, sesno)
  BY DEF ForceIn, InForce
<1> QED
  BY <1>1, <1>2, <1>3, AtSessionIsRight

LEMMA HistoryStep ==
  HistInv /\ [AttrNext]_attrVars => HistInv'
<1> SUFFICES ASSUME HistInv, [AttrNext]_attrVars PROVE HistInv'
  OBVIOUS
<1> USE DEF HistInv
<1>1. CASE Parse \/ Refine \/ Join \/ Fill \/ Load
  BY <1>1 DEF Parse, Refine, Join, Fill, Load
<1>2. ASSUME NEW x \in ExcludeSets, Save(x) PROVE HistInv'
  BY <1>2 DEF Save
<1>3. ASSUME NEW s \in 1 .. MaxSession, SaveAt(s) PROVE HistInv'
  <2>1. /\ record' = gen_sur_json_with_sesno(att, s, build_refno_sesno_map(att, s))
        /\ saved'.at = s /\ saved'.sessions = sessions /\ sessions' = sessions
    BY <1>3 DEF SaveAt
  <2> QED
    BY <2>1, SavedInItsTime
<1>4. ASSUME NEW r \in DOMAIN sessions, Change(r) PROVE HistInv'
  BY <1>4 DEF Change
<1>5. CASE UNCHANGED attrVars
  BY <1>5 DEF attrVars
<1> QED
  BY <1>1, <1>2, <1>3, <1>4, <1>5 DEF AttrNext

(* Each reference of a session's record leads to the state its element had  *)
(* at that session, as long as that element gets no later one: for any      *)
(* number of sessions, saves and loads.                                     *)
THEOREM HistoryIsKept == AttrSpec => []HistoryMeansItsTime
<1>1. AttrInit => HistInv
  BY DEF AttrInit, HistInv
<1>2. HistInv => HistoryMeansItsTime
  <2> SUFFICES ASSUME HistInv, saved.at > 0,
                      NEW k \in DOMAIN record \ {"id", "REFNO"}, NEW e \in ThingsOf(record[k]),
                      e.refno \in DOMAIN sessions, sessions[e.refno] = saved.sessions[e.refno],
                      InForce(e.refno, saved.at) # 0
               PROVE  LedTo(sessions[e.refno], e) = InForce(e.refno, saved.at)
    BY DEF HistoryMeansItsTime, LedTo
  <2>1. InForce(e.refno, saved.at) = ForceIn(saved.sessions[e.refno], saved.at)
    BY DEF InForce, ForceIn
  <2> QED
    BY <2>1 DEF HistInv, RecordOfItsTime
<1> QED
  BY <1>1, <1>2, HistoryStep, PTL DEF AttrSpec

-----------------------------------------------------------------------------
(* Implicit and explicit attributes *)

Kinded(a) == "TYPE" \in DOMAIN a /\ a["TYPE"][1] = "StringType" /\ a["TYPE"][2] # NulText
Said(e) == OfAttrMap(e.explicit) ++ OfAttrMap(e.implicit)

(* The attributes a noun knows, in the two halves of the file: an explicit  *)
(* one is what was said, and an implicit one unless it is still to be       *)
(* overruled.                                                               *)
HalvesRight(w, e) ==
  /\ "TYPE" \in DOMAIN w.attmap \ DOMAIN w.explicit
  /\ w.attmap["TYPE"] = OfAttrMap(e.implicit)["TYPE"]
  /\ \A k \in DOMAIN InfoOf(NounOf(e)) :
       /\ k \in DOMAIN w.explicit => w.explicit[k] = Val(Said(e), k)
       /\ k \notin DOMAIN w.explicit \/ w.refined => Val(w.attmap, k) = Val(Said(e), k)
WholeInv == element \in Elements /\ (whole # None => HalvesRight(whole[1], element))

LEMMA FilesHaveANoun ==
  ASSUME NamesAreApart, NEW e \in Elements
  PROVE  Kinded(OfAttrMap(e.implicit)) /\ OfAttrMap(e.implicit)["TYPE"][2] = NounOf(e)
<1>1. "TYPE" \in DOMAIN e.implicit /\ e.implicit["TYPE"][1] = "StringType" /\ NounOf(e) # NulText
  BY DEF NamesAreApart
<1>2. OfAttrMap(e.implicit)["TYPE"] = e.implicit["TYPE"] /\ "TYPE" \in DOMAIN OfAttrMap(e.implicit)
  BY <1>1 DEF OfAttrMap, OfAttrVal
<1>3. NounOf(e) = OfAttrMap(e.implicit)["TYPE"][2]
  BY <1>1, <1>2 DEF NounOf, get_type, Val
<1> QED
  BY <1>1, <1>2, <1>3 DEF Kinded

LEMMA ParsedRight ==
  ASSUME NamesAreApart, NEW e \in Elements
  PROVE  HalvesRight([attmap |-> OfAttrMap(e.implicit) ++ e.uda, explicit |-> OfAttrMap(e.explicit), refined |-> FALSE], e)
<1> DEFINE I == OfAttrMap(e.implicit)
           X == OfAttrMap(e.explicit)
<1>1. DOMAIN X = DOMAIN e.explicit
  BY DEF OfAttrMap
<1>2. "TYPE" \in DOMAIN I /\ "TYPE" \notin DOMAIN X
  BY <1>1, FilesHaveANoun DEF Kinded, NamesAreApart
<1>3. DOMAIN e.uda \intersect DOMAIN InfoOf(NounOf(e)) = {}
  BY DEF NamesAreApart
<1> HIDE DEF I, X
<1>4. Said(e) = X ++ I
  BY DEF Said, I, X
<1>5. HalvesRight([attmap |-> I ++ e.uda, explicit |-> X, refined |-> FALSE], e)
  <2>1. "TYPE" \in DOMAIN (I ++ e.uda) \ DOMAIN X /\ (I ++ e.uda)["TYPE"] = I["TYPE"]
    BY <1>2 DEF ++
  <2>2. ASSUME NEW k \in DOMAIN InfoOf(NounOf(e)), k \in DOMAIN X
        PROVE  X[k] = Val(X ++ I, k)
    BY <2>2 DEF Val, ++
  <2>3. ASSUME NEW k \in DOMAIN InfoOf(NounOf(e)), k \notin DOMAIN X
        PROVE  Val(I ++ e.uda, k) = Val(X ++ I, k)
    BY <2>3, <1>3 DEF Val, ++
  <2> QED
    BY <1>4, <2>1, <2>2, <2>3 DEF HalvesRight, I
<1> QED
  BY <1>5 DEF I, X

LEMMA RefinedRight ==
  ASSUME NEW e, NEW w, HalvesRight(w, e)
  PROVE  HalvesRight(refine(w, NounOf(e)), e)
<1> DEFINE info == DOMAIN InfoOf(NounOf(e))
           known == DOMAIN w.explicit \intersect info
           r == refine(w, NounOf(e))
<1>1. /\ r.attmap = [k \in {n \in DOMAIN w.explicit : n \in known} |-> w.explicit[k]] ++ w.attmap
      /\ DOMAIN r.explicit \subseteq DOMAIN w.explicit
      /\ \A k \in DOMAIN r.explicit : r.explicit[k] = w.explicit[k]
  BY DEF refine, Only, Without
<1>2. /\ DOMAIN r.attmap = known \union DOMAIN w.attmap
      /\ \A k \in known : r.attmap[k] = w.explicit[k]
      /\ \A k \in DOMAIN w.attmap \ known : r.attmap[k] = w.attmap[k]
  BY <1>1 DEF ++
<1> HIDE DEF r, known
<1>3. "TYPE" \in DOMAIN r.attmap \ DOMAIN r.explicit /\ r.attmap["TYPE"] = OfAttrMap(e.implicit)["TYPE"]
  BY <1>1, <1>2 DEF HalvesRight, known
<1>4. ASSUME NEW k \in info PROVE Val(r.attmap, k) = Val(Said(e), k)
  <2>1. CASE k \in DOMAIN w.explicit
    BY <1>2, <2>1 DEF HalvesRight, Val, known
  <2>2. CASE k \notin DOMAIN w.explicit
    <3>1. Val(r.attmap, k) = Val(w.attmap, k)
      BY <1>2, <2>2 DEF Val, known
    <3> QED
      BY <2>2, <3>1 DEF HalvesRight
  <2> QED
    BY <2>1, <2>2
<1>5. ASSUME NEW k \in info, k \in DOMAIN r.explicit PROVE r.explicit[k] = Val(Said(e), k)
  BY <1>1, <1>5 DEF HalvesRight
<1> QED
  BY <1>3, <1>4, <1>5 DEF HalvesRight, r

LEMMA NounOfHalves ==
  ASSUME NamesAreApart, NEW e \in Elements, NEW w, HalvesRight(w, e)
  PROVE  get_type(w.attmap) = NounOf(e) /\ Kinded(w.attmap)
BY FilesHaveANoun DEF HalvesRight, get_type, Val, Kinded

LEMMA WholeStep ==
  ASSUME NamesAreApart, WholeInv, [AttrNext]_attrVars
  PROVE  WholeInv'
<1> USE DEF WholeInv
<1>1. CASE Parse
  BY <1>1, ParsedRight DEF Parse, None
<1>2. CASE Refine
  BY <1>2, RefinedRight, NounOfHalves DEF Refine, None
<1>3. CASE Join \/ Fill \/ Load
  BY <1>3 DEF Join, Fill, Load
<1>4. ASSUME NEW x \in ExcludeSets, Save(x) PROVE WholeInv'
  BY <1>4 DEF Save
<1>5. ASSUME NEW s \in 1 .. MaxSession, SaveAt(s) PROVE WholeInv'
  BY <1>5 DEF SaveAt
<1>6. ASSUME NEW r \in DOMAIN sessions, Change(r) PROVE WholeInv'
  BY <1>6 DEF Change
<1>7. CASE UNCHANGED attrVars
  BY <1>7 DEF attrVars
<1> QED
  BY <1>1, <1>2, <1>3, <1>4, <1>5, <1>6, <1>7 DEF AttrNext

(* Both ways of putting the halves together give what was said.             *)
LEMMA JoinedRight ==
  ASSUME NEW e, NEW w, HalvesRight(w, e), w.refined, NEW k \in DOMAIN InfoOf(NounOf(e)),
         NEW a \in {change_implicit_explicit_into_attr(w), merge(w)}
  PROVE  Val(a, k) = Val(Said(e), k)
<1>1. /\ k \in DOMAIN w.explicit => w.explicit[k] = Val(Said(e), k)
      /\ Val(w.attmap, k) = Val(Said(e), k)
  BY DEF HalvesRight
<1>2. CASE a = w.explicit ++ w.attmap
  BY <1>1, <1>2 DEF Val, ++
<1>3. CASE a = w.attmap ++ w.explicit
  BY <1>1, <1>3 DEF Val, ++
<1> QED
  BY <1>2, <1>3 DEF change_implicit_explicit_into_attr, merge

(* After refine, an attribute the noun knows is the explicit one of the file *)
(* if there is one, for any elements and nouns whose names are apart, and   *)
(* however often refine is called.                                          *)
THEOREM RefineLetsExplicitWin == NamesAreApart => (AttrSpec => []ExplicitWins)
<1> SUFFICES ASSUME NamesAreApart PROVE AttrSpec => []ExplicitWins
  OBVIOUS
<1>1. AttrInit => WholeInv
  BY DEF AttrInit, WholeInv
<1>2. WholeInv /\ [AttrNext]_attrVars => WholeInv'
  BY WholeStep
<1>3. WholeInv => ExplicitWins
  <2> SUFFICES ASSUME WholeInv, whole # None, whole[1].refined,
                      NEW k \in DOMAIN InfoOf(get_type(Said(element))),
                      NEW a \in {change_implicit_explicit_into_attr(whole[1]), merge(whole[1])}
               PROVE  Val(a, k) = Val(Said(element), k)
    BY DEF ExplicitWins, Said
  <2>1. get_type(Said(element)) = NounOf(element)
    <3>1. "TYPE" \notin DOMAIN OfAttrMap(element.explicit)
      BY DEF OfAttrMap, NamesAreApart, WholeInv
    <3> QED
      BY <3>1, FilesHaveANoun DEF get_type, Val, Said, Kinded, WholeInv, ++
  <2> QED
    BY <2>1, JoinedRight DEF WholeInv
<1> QED
  BY <1>1, <1>2, <1>3, PTL DEF AttrSpec

-----------------------------------------------------------------------------
(* Row and record *)

SameState(rec, p, a, at) ==
  /\ rec["REFNO"][2].refno = p.refno.refno /\ rec["TYPE"] = Strand(p.noun)
  /\ rec["REFNO"][2].sesno = p.refno.sesno \/ (at = 0 /\ get_refno_by_att(a, "REFNO").sesno # <<>>)
  /\ Val(a, "OWNER")[1] = "RefU64Type" /\ p.owner.refno # 0 => rec["OWNER"] = Thing(p.owner)
Typed(rec) == "TYPE" \in DOMAIN rec /\ rec["TYPE"][1] = "Strand" /\ rec["TYPE"][2] # NulText
RowInv ==
  /\ WholeInv
  /\ origin # "nowhere" => Kinded(att)
  /\ row # None => SameState(record, row[1], saved.att, saved.at) /\ Typed(record)
  /\ DOMAIN udaRecord \subseteq DOMAIN Udas

(* The plain fields of a record: the noun among them, no references.        *)
LEMMA PlainFields ==
  ASSUME NamesAreApart, NEW a, Kinded(a)
  PROVE  /\ "TYPE" \in DOMAIN PlainJson(a) /\ PlainJson(a)["TYPE"] = Strand(get_type(a))
         /\ "REFNO" \notin DOMAIN PlainJson(a)
         /\ IsRefU64(Val(a, "OWNER")) => "OWNER" \notin DOMAIN PlainJson(a)
<1>1. get_type(a) = a["TYPE"][2] /\ get_type(a) # NulText
  BY DEF Kinded, get_type, Val
<1>2. into_json(a["TYPE"]) = Strand(get_type(a))
  BY <1>1 DEF Kinded, into_json, Cleaned
<1>3. /\ DOMAIN PlainJson(a) = DOMAIN Plain(a) \union {"TYPE"}
      /\ PlainJson(a)["TYPE"] = IF "TYPE" \in DOMAIN Plain(a) THEN into_json(a["TYPE"]) ELSE Strand(get_type(a))
  BY DEF PlainJson, ++
<1>4. "REFNO" \notin DOMAIN Plain(a)
  BY DEF Plain, Only, Fields, Without
<1>5. IsRefU64(Val(a, "OWNER")) => "OWNER" \notin DOMAIN Plain(a)
  BY DEF Plain, Only, Fields, Without, Val
<1> QED
  BY <1>2, <1>3, <1>4, <1>5

(* The owner of an element among the references of a record.                *)
LEMMA OwnerIsSingle ==
  ASSUME NamesAreApart, NEW a, Val(a, "OWNER")[1] = "RefU64Type", pe(a).owner.refno # 0
  PROVE  /\ "OWNER" \in DOMAIN Single(a)
         /\ pe(a).owner = Latest(refno_value(a["OWNER"])) /\ refno_value(a["OWNER"]) # 0
<1>1. "OWNER" \in DOMAIN a /\ a["OWNER"][1] = "RefU64Type"
  BY DEF Val, Invalid
<1>2. pe(a).owner = Latest(a["OWNER"][2])
  BY <1>1 DEF pe, get_refno_by_att, Val
<1>3. "OWNER" \in DOMAIN Single(a)
  BY <1>1 DEF Single, Only, Fields, Without, IsRefU64, NamesAreApart
<1> QED
  BY <1>1, <1>2, <1>3 DEF refno_value, Latest

LEMMA SavedAlike ==
  ASSUME NamesAreApart, NEW a, Kinded(a), NEW x \in ExcludeSets
  PROVE  SameState(gen_sur_json_exclude(a, x), pe_gen_sur_json(pe(a)), a, 0) /\ Typed(gen_sur_json_exclude(a, x))
<1> DEFINE refno == get_refno_by_att(a, "REFNO")
           flat == Without(PlainJson(a), x)
           ids == [id |-> <<"IdText", refno>>, REFNO |-> Thing(refno)]
           one == Only(Single(a), LAMBDA k : ~(refno_value(a[k]) = 0 /\ k \in x))
           many == Only(Lists(a), LAMBDA k : ~(a[k][2] = <<>> /\ k \in x))
           ones == [k \in DOMAIN one |-> Thing(Latest(refno_value(a[k])))]
           lists == [k \in DOMAIN many |-> Things(DropSessions(a[k][2]))]
           rec == gen_sur_json_exclude(a, x)
<1>1. rec = flat ++ ids ++ ones ++ lists
  BY DEF gen_sur_json_exclude
<1>2. DOMAIN ids = {"id", "REFNO"} /\ ids["REFNO"] = Thing(refno)
  OBVIOUS
<1>3. /\ "TYPE" \in DOMAIN flat /\ flat["TYPE"] = Strand(get_type(a))
      /\ "REFNO" \notin DOMAIN flat
      /\ IsRefU64(Val(a, "OWNER")) => "OWNER" \notin DOMAIN flat
  BY PlainFields DEF Without, NamesAreApart
<1>4. ASSUME Val(a, "OWNER")[1] = "RefU64Type", pe(a).owner.refno # 0
      PROVE  "OWNER" \in DOMAIN ones /\ ones["OWNER"] = Thing(pe(a).owner) /\ IsRefU64(Val(a, "OWNER"))
  BY <1>4, OwnerIsSingle DEF Only, IsRefU64
<1> DEFINE p == pe_gen_sur_json(pe(a))
<1>5. /\ p.refno = Latest(refno.refno) /\ p.noun = get_type(a) /\ get_type(a) # NulText
      /\ p.owner = pe(a).owner
  BY DEF pe_gen_sur_json, pe, Kinded, get_type, Val
<1>9. p.refno.refno = refno.refno /\ p.refno.sesno = <<>>
  BY <1>5 DEF Latest
<1>10. Thing(refno)[2] = refno
  BY DEF Thing
<1> HIDE DEF flat, ids, ones, lists, rec, refno, p
<1>6. /\ "TYPE" \in DOMAIN rec /\ rec["TYPE"] = Strand(get_type(a))
      /\ rec["REFNO"] = Thing(refno)
  BY <1>1, <1>2, <1>3 DEF ++
<1>7. ASSUME Val(a, "OWNER")[1] = "RefU64Type", pe(a).owner.refno # 0
      PROVE  rec["OWNER"] = Thing(pe(a).owner)
  BY <1>1, <1>2, <1>3, <1>4, <1>7 DEF ++
<1>8. SameState(rec, p, a, 0) /\ Typed(rec)
  BY <1>5, <1>6, <1>7, <1>9, <1>10 DEF SameState, Typed, Strand, refno
<1> QED
  BY <1>8 DEF rec, p

(* The owner's session is the one the map gives, in the row as in the record. *)
RowAt(a, sesno, map) ==
  pe_gen_sur_json_with_sesno(pe(a), sesno, IF pe(a).owner.refno \in DOMAIN map THEN map[pe(a).owner.refno] ELSE 0)
LEMMA SavedAlikeAt ==
  ASSUME NamesAreApart, NEW a, Kinded(a), NEW sesno, NEW map, NEW at
  PROVE  SameState(gen_sur_json_with_sesno(a, sesno, map), RowAt(a, sesno, map), a, at)
         /\ Typed(gen_sur_json_with_sesno(a, sesno, map))
<1> DEFINE refno == get_refno_by_att(a, "REFNO").refno
           this == [refno |-> refno, sesno |-> <<sesno>>]
           one == Only(Single(a), LAMBDA n : refno_value(a[n]) # 0)
           many == Only(Lists(a), LAMBDA n : a[n][2] # <<>>)
           ids == [id |-> <<"IdText", this>>, REFNO |-> Thing(this)]
           ones == [n \in DOMAIN one |-> Thing(AtSession(refno_value(a[n]), map))]
           lists == [n \in DOMAIN many |-> Things([i \in DOMAIN a[n][2] |-> AtSession(a[n][2][i].refno, map)])]
           rec == gen_sur_json_with_sesno(a, sesno, map)
           p == RowAt(a, sesno, map)
<1>1. rec = PlainJson(a) ++ ids ++ ones ++ lists
  BY DEF gen_sur_json_with_sesno
<1>2. DOMAIN ids = {"id", "REFNO"} /\ ids["REFNO"] = Thing(this)
  OBVIOUS
<1>3. p.refno = this /\ p.noun = get_type(a) /\ get_type(a) # NulText
  BY DEF RowAt, pe_gen_sur_json_with_sesno, pe, Kinded, get_type, Val
<1>4. ASSUME Val(a, "OWNER")[1] = "RefU64Type", p.owner.refno # 0
      PROVE  "OWNER" \in DOMAIN ones /\ ones["OWNER"] = Thing(p.owner) /\ IsRefU64(Val(a, "OWNER"))
  <2>1. p.owner.refno = pe(a).owner.refno
    BY DEF RowAt, pe_gen_sur_json_with_sesno, pe
  <2>2. /\ "OWNER" \in DOMAIN Single(a)
        /\ pe(a).owner = Latest(refno_value(a["OWNER"])) /\ refno_value(a["OWNER"]) # 0
    BY <1>4, <2>1, OwnerIsSingle
  <2>3. p.owner = AtSession(refno_value(a["OWNER"]), map)
    BY <2>2 DEF RowAt, pe_gen_sur_json_with_sesno, AtSession, Latest, pe
  <2> QED
    BY <1>4, <2>2, <2>3 DEF Only, IsRefU64
<1> HIDE DEF ids, ones, lists, rec, p, this
<1>6. /\ "TYPE" \in DOMAIN rec /\ rec["TYPE"] = Strand(get_type(a))
      /\ rec["REFNO"] = Thing(this)
  BY <1>1, <1>2, PlainFields DEF ++
<1>7. ASSUME Val(a, "OWNER")[1] = "RefU64Type", p.owner.refno # 0
      PROVE  rec["OWNER"] = Thing(p.owner)
  BY <1>1, <1>2, <1>4, <1>7, PlainFields DEF ++
<1>8. SameState(rec, p, a, at) /\ Typed(rec)
  BY <1>3, <1>6, <1>7 DEF SameState, Typed, Strand, Thing
<1> QED
  BY <1>8 DEF rec, p

(* What is loaded has the noun of its record.                               *)
LEMMA LoadedIsKinded ==
  ASSUME NamesAreApart, NEW rec, NEW own, Typed(rec), DOMAIN own \subseteq DOMAIN Udas
  PROVE  Kinded(get_named_attmap_with_uda(rec, own))
<1> DEFINE given == [n \in Named(Heeded(DOMAIN own)) |-> OfUda(Udas[KeyOf(n)].type, own[KeyOf(n)])]
           usual == [n \in Named(Heeded(DOMAIN Udas)) |-> OfUda(Udas[KeyOf(n)].type, Udas[KeyOf(n)].default)]
           loaded == OfRecord(rec)
<1>1. "TYPE" \notin DOMAIN given \union DOMAIN usual
  BY DEF NamesAreApart, Named, Heeded
<1>2. "TYPE" \in DOMAIN loaded /\ loaded["TYPE"] = OfField("StringType", rec["TYPE"])
  <2>1. Declared(rec["TYPE"][2], "TYPE") = "StringType"
    BY DEF Declared, OfEveryNoun
  <2> QED
    BY <2>1 DEF OfRecord, Typed
<1>3. OfField("StringType", rec["TYPE"]) = <<"StringType", rec["TYPE"][2]>>
  BY DEF OfField, AsText, Typed
<1> HIDE DEF given, usual, loaded
<1>4. Kinded(given ++ usual ++ loaded)
  BY <1>1, <1>2, <1>3 DEF Kinded, Typed, ++
<1> QED
  BY <1>4 DEF given, usual, loaded, get_named_attmap_with_uda

LEMMA UdaNames == DOMAIN udaRecord \subseteq DOMAIN Udas /\ SaveUda => DOMAIN udaRecord' \subseteq DOMAIN Udas
BY DEF SaveUda, gen_sur_json_uda, Only, IsUda

LEMMA JoinKinded ==
  ASSUME NamesAreApart, WholeInv, Join
  PROVE  Kinded(att')
<1>1. HalvesRight(whole[1], element) /\ element \in Elements
  BY DEF WholeInv, Join
<1>2. Kinded(whole[1].attmap) /\ "TYPE" \notin DOMAIN whole[1].explicit
  BY <1>1, NounOfHalves DEF HalvesRight
<1>3. att' = whole[1].explicit ++ whole[1].attmap \/ att' = whole[1].attmap ++ whole[1].explicit
  BY DEF Join, change_implicit_explicit_into_attr, merge
<1> QED
  BY <1>2, <1>3 DEF Kinded, ++

LEMMA RowStep ==
  ASSUME NamesAreApart, RowInv, [AttrNext]_attrVars
  PROVE  RowInv'
<1>0. WholeInv'
  BY WholeStep DEF RowInv
<1>1. CASE Parse \/ Refine
  BY <1>0, <1>1 DEF Parse, Refine, RowInv
<1>2. CASE Join
  BY <1>0, <1>2, JoinKinded DEF Join, RowInv
<1>3. CASE Fill
  <2>1. Kinded(att')
    BY <1>3 DEF Fill, RowInv, Kinded, fill_explicit_default_values, ++
  <2> QED
    BY <1>0, <1>3, <2>1 DEF Fill, RowInv
<1>4. CASE Load
  BY <1>0, <1>4, LoadedIsKinded DEF Load, RowInv
<1>5. ASSUME NEW x \in ExcludeSets, Save(x) PROVE RowInv'
  <2>1. /\ record' = gen_sur_json_exclude(att, x) /\ row' = <<pe_gen_sur_json(pe(att))>> /\ saved'.att = att /\ saved'.at = 0
        /\ Kinded(att) /\ UNCHANGED <<origin, att>> /\ SaveUda
    BY <1>5 DEF Save, RowInv
  <2> QED
    BY <1>0, <2>1, SavedAlike, UdaNames DEF RowInv
<1>6. ASSUME NEW s \in 1 .. MaxSession, SaveAt(s) PROVE RowInv'
  <2> DEFINE map == build_refno_sesno_map(att, s)
  <2>1. /\ record' = gen_sur_json_with_sesno(att, s, map) /\ row' = <<RowAt(att, s, map)>> /\ saved'.att = att
        /\ Kinded(att) /\ UNCHANGED <<origin, att>> /\ SaveUda
    BY <1>6 DEF SaveAt, RowAt, RowInv
  <2> HIDE DEF map
  <2> QED
    BY <1>0, <2>1, SavedAlikeAt, UdaNames DEF RowInv
<1>7. ASSUME NEW r \in DOMAIN sessions, Change(r) PROVE RowInv'
  BY <1>0, <1>7 DEF Change, RowInv
<1>8. CASE UNCHANGED attrVars
  BY <1>0, <1>8 DEF attrVars, RowInv
<1> QED
  BY <1>1, <1>2, <1>3, <1>4, <1>5, <1>6, <1>7, <1>8 DEF AttrNext

(* The row of pe and the attribute record of an element lead to each other  *)
(* and name one state of its owner, after any saves of the latest state or  *)
(* of a session and loads between them; only the record of an element that  *)
(* names a session, saved as the latest, keeps what its row drops.          *)
THEOREM RowAndRecordAreOneState == NamesAreApart => (AttrSpec => []RowAndRecordAgree)
<1> SUFFICES ASSUME NamesAreApart PROVE AttrSpec => []RowAndRecordAgree
  OBVIOUS
<1>1. AttrInit => RowInv
  BY DEF AttrInit, RowInv, WholeInv, Nothing
<1>2. RowInv /\ [AttrNext]_attrVars => RowInv'
  BY RowStep
<1>3. RowInv => RowAndRecordAgree
  BY DEF RowInv, RowAndRecordAgree, SameState
<1> QED
  BY <1>1, <1>2, <1>3, PTL DEF AttrSpec

-----------------------------------------------------------------------------
(* User-defined attributes *)

(* Lists are read as they were written.                                     *)
LEMMA ListsComeBack ==
  ASSUME NEW s, IsList(s)
  PROVE  /\ Mapped(AsNumber, Mapped(Number, s)) = s
         /\ Mapped(AsText, Mapped(Strand, s)) = s
         /\ (\A i \in DOMAIN s : s[i] \in BOOLEAN) => Mapped(AsBool, Mapped(Bool, s)) = s
         /\ Mapped(AsRefno, Mapped(Thing, s)) = s
         /\ (\A i \in DOMAIN s : s[i].sesno = <<>>) => Mapped(OfRefText, Mapped(RefText, s)) = s
<1>1. Mapped(AsNumber, Mapped(Number, s)) = [i \in DOMAIN s |-> s[i]]
  BY DEF Mapped, AsNumber, Number
<1>2. Mapped(AsText, Mapped(Strand, s)) = [i \in DOMAIN s |-> s[i]]
  BY DEF Mapped, AsText, Strand
<1>3. (\A i \in DOMAIN s : s[i] \in BOOLEAN) => Mapped(AsBool, Mapped(Bool, s)) = [i \in DOMAIN s |-> s[i]]
  BY DEF Mapped, AsBool, Bool
<1>4. Mapped(AsRefno, Mapped(Thing, s)) = [i \in DOMAIN s |-> s[i]]
  BY DEF Mapped, AsRefno, Thing
<1>5. (\A i \in DOMAIN s : s[i].sesno = <<>>) => Mapped(OfRefText, Mapped(RefText, s)) = [i \in DOMAIN s |-> s[i]]
  BY DEF Mapped, OfRefText, RefText
<1> QED
  BY <1>1, <1>2, <1>3, <1>4, <1>5, Zenon DEF IsList

(* Writing a user-defined value and reading it by its type gives it again.  *)
LEMMA UdaComesBack ==
  ASSUME NEW tn, NEW v, v[1] \in UdaVariants(tn), WellFormed(v),
         v[1] = "RefU64Array" => \A i \in DOMAIN v[2] : v[2][i].sesno = <<>>
  PROVE  Meaning(OfUda(tn, ToUda(v))) = Meaning(v)
<1> DEFINE s == v[2]
<1>0. v = <<v[1], s>>
  BY DEF WellFormed
<1>a. /\ v[1] = "F32Type" => tn = "REAL"
      /\ v[1] = "IntegerType" => tn = "INT"
      /\ v[1] = "StringArrayType" => tn = "TEXT"
      /\ v[1] = "BoolArrayType" => tn = "BOOL"
      /\ v[1] \in {"F32VecType", "Vec3Type"} => tn \in {"REAL", "DIR", "POS"}
      /\ v[1] = "IntArrayType" => tn = "INT"
      /\ v[1] = "RefU64Array" => tn = "REF"
      /\ v[1] \in {"StringType", "F32Type", "IntegerType", "BoolType", "RefU64Type", "StringArrayType",
                   "BoolArrayType", "F32VecType", "Vec3Type", "IntArrayType", "RefU64Array"}
  BY DEF UdaVariants
<1>b. ASSUME NEW x, NEW list, x = <<"Object", <<"Array", list>>>>
      PROVE  OfUda(tn, x) = OfUdaArray(tn, list)
  BY <1>b DEF OfUda, OfUdaValue
<1> USE DEF Number, Strand, Bool, Thing
<1>1. CASE v[1] = "StringType"
  <2>1. OfUda(tn, ToUda(v)) = <<"StringType", s>>
    BY <1>1 DEF OfUda, ToUda, OfUdaValue, into_json, Cleaned
  <2> QED
    BY <1>0, <1>1, <2>1 DEF Meaning
<1>2. CASE v[1] = "F32Type"
  <2>1. tn = "REAL"
    BY <1>a, <1>2
  <2>2. OfUda(tn, ToUda(v)) = <<"F32Type", s>>
    BY <1>2, <2>1 DEF OfUda, ToUda, OfUdaValue, into_json, Cleaned
  <2> QED
    BY <1>0, <1>2, <2>2 DEF Meaning
<1>3. CASE v[1] = "IntegerType"
  <2>1. tn = "INT"
    BY <1>a, <1>3
  <2>2. OfUda(tn, ToUda(v)) = <<"IntegerType", s>>
    BY <1>3, <2>1 DEF OfUda, ToUda, OfUdaValue, into_json, Cleaned
  <2> QED
    BY <1>0, <1>3, <2>2 DEF Meaning
<1>4. CASE v[1] = "BoolType"
  <2>1. OfUda(tn, ToUda(v)) = <<"BoolType", s>>
    BY <1>4 DEF OfUda, ToUda, OfUdaValue, into_json, Cleaned
  <2> QED
    BY <1>0, <1>4, <2>1 DEF Meaning
<1>5. CASE v[1] = "RefU64Type"
  <2>1. OfUda(tn, ToUda(v)) = <<"RefU64Type", s>>
    BY <1>5 DEF OfUda, ToUda, OfUdaValue, into_json, Cleaned, OfThing, Latest
  <2> QED
    BY <1>0, <1>5, <2>1 DEF Meaning
<1>6. CASE v[1] = "StringArrayType"
  <2>1. tn = "TEXT" /\ IsList(s)
    BY <1>a, <1>6 DEF WellFormed
  <2>2. OfUda(tn, ToUda(v)) = <<"StringArrayType", Mapped(AsText, Mapped(Strand, s))>>
    <3>1. ToUda(v) = <<"Object", <<"Array", Mapped(Strand, s)>>>>
      BY <1>6 DEF ToUda, into_json
    <3>2. OfUda(tn, ToUda(v)) = OfUdaArray(tn, Mapped(Strand, s))
      BY <1>b, <3>1
    <3> QED
      BY <2>1, <3>2 DEF OfUdaArray
  <2>3. Mapped(AsText, Mapped(Strand, s)) = s
    BY <2>1, ListsComeBack
  <2> QED
    BY <1>0, <1>6, <2>2, <2>3 DEF Meaning
<1>7. CASE v[1] = "BoolArrayType"
  <2>1. tn = "BOOL" /\ IsList(s) /\ (\A i \in DOMAIN s : s[i] \in BOOLEAN)
    BY <1>a, <1>7 DEF WellFormed
  <2>2. OfUda(tn, ToUda(v)) = <<"BoolArrayType", Mapped(AsBool, Mapped(Bool, s))>>
    <3>1. ToUda(v) = <<"Object", <<"Array", Mapped(Bool, s)>>>>
      BY <1>7 DEF ToUda, into_json
    <3>2. OfUda(tn, ToUda(v)) = OfUdaArray(tn, Mapped(Bool, s))
      BY <1>b, <3>1
    <3> QED
      BY <2>1, <3>2 DEF OfUdaArray
  <2>3. Mapped(AsBool, Mapped(Bool, s)) = s
    BY <2>1, ListsComeBack
  <2> QED
    BY <1>0, <1>7, <2>2, <2>3 DEF Meaning
<1>8. CASE v[1] \in {"F32VecType", "Vec3Type"}
  <2>1. tn \in {"REAL", "DIR", "POS"} /\ IsList(s)
    BY <1>a, <1>8 DEF WellFormed, IsList
  <2>2. OfUda(tn, ToUda(v)) = <<"F32VecType", Mapped(AsNumber, Mapped(Number, s))>>
    <3>1. ToUda(v) = <<"Object", <<"Array", Mapped(Number, s)>>>>
      BY <1>8 DEF ToUda, into_json
    <3>2. OfUda(tn, ToUda(v)) = OfUdaArray(tn, Mapped(Number, s))
      BY <1>b, <3>1
    <3> QED
      BY <2>1, <3>2 DEF OfUdaArray
  <2>3. Mapped(AsNumber, Mapped(Number, s)) = s
    BY <2>1, ListsComeBack
  <2>4. Meaning(<<"F32VecType", s>>) = <<"numbers", s>>
    BY DEF Meaning
  <2>5. Meaning(v) = <<"numbers", s>>
    BY <1>8 DEF Meaning
  <2> QED
    BY <2>2, <2>3, <2>4, <2>5
<1>9. CASE v[1] = "IntArrayType"
  <2>1. tn = "INT" /\ IsList(s)
    BY <1>a, <1>9 DEF WellFormed
  <2>2. OfUda(tn, ToUda(v)) = <<"IntArrayType", Mapped(AsNumber, Mapped(Number, s))>>
    <3>1. ToUda(v) = <<"Object", <<"Array", Mapped(Number, s)>>>>
      BY <1>9 DEF ToUda, into_json
    <3>2. OfUda(tn, ToUda(v)) = OfUdaArray(tn, Mapped(Number, s))
      BY <1>b, <3>1
    <3> QED
      BY <2>1, <3>2 DEF OfUdaArray
  <2>3. Mapped(AsNumber, Mapped(Number, s)) = s
    BY <2>1, ListsComeBack
  <2> QED
    BY <1>0, <1>9, <2>2, <2>3 DEF Meaning
<1>10. CASE v[1] = "RefU64Array"
  <2>1. tn = "REF" /\ IsList(s) /\ (\A i \in DOMAIN s : s[i].sesno = <<>>)
    BY <1>a, <1>10 DEF WellFormed
  <2>2. OfUda(tn, ToUda(v)) = <<"RefU64Array", Mapped(OfRefText, Mapped(RefText, s))>>
    <3>1. ToUda(v) = <<"Object", <<"Array", Mapped(RefText, s)>>>>
      BY <1>10 DEF ToUda, into_json
    <3>2. OfUda(tn, ToUda(v)) = OfUdaArray(tn, Mapped(RefText, s))
      BY <1>b, <3>1
    <3> QED
      BY <2>1, <3>2 DEF OfUdaArray
  <2>3. Mapped(OfRefText, Mapped(RefText, s)) = s
    BY <2>1, ListsComeBack
  <2> QED
    BY <1>0, <1>10, <2>2, <2>3 DEF Meaning
<1> QED
  BY <1>a, <1>1, <1>2, <1>3, <1>4, <1>5, <1>6, <1>7, <1>8, <1>9, <1>10

Own(e) == DOMAIN e.uda \intersect DOMAIN Udas
HasUdas(a, e) == DOMAIN a \intersect DOMAIN Udas = Own(e) /\ \A k \in Own(e) : a[k] = e.uda[k]
HasNone(a) == DOMAIN a \intersect DOMAIN Udas = {}

(* User-defined attributes are those of the file until they are saved, and  *)
(* from then on in their record; what is loaded has them by their names.    *)
Answered(a, e) ==
  \A k \in Own(e) : Heeded({k}) # {} => Val(a, Udas[k].name) = OfUda(Udas[k].type, ToUda(e.uda[k]))
UdaInv ==
  /\ element \in Elements
  /\ whole # None => HasUdas(whole[1].attmap, element) /\ HasNone(whole[1].explicit)
  /\ origin # "nowhere" => HasUdas(att, element) \/ (HasNone(att) /\ row # None)
  /\ IF row = None THEN udaRecord = Nothing
     ELSE DOMAIN udaRecord = Own(element) /\ \A k \in Own(element) : udaRecord[k] = ToUda(element.uda[k])
  /\ Loaded => row # None /\ Answered(att, element)

LEMMA UdasParsed ==
  ASSUME UdasAreTyped, NEW e \in Elements
  PROVE  HasUdas(OfAttrMap(e.implicit) ++ e.uda, e) /\ HasNone(OfAttrMap(e.explicit))
<1>1. (DOMAIN e.implicit \union DOMAIN e.explicit) \intersect DOMAIN Udas = {}
  BY DEF UdasAreTyped
<1> QED
  BY <1>1 DEF HasUdas, HasNone, Own, OfAttrMap, ++

LEMMA UdasPutTogether ==
  ASSUME NEW e, NEW a, NEW b, HasUdas(a, e), HasNone(b)
  PROVE  HasUdas(a ++ b, e) /\ HasUdas(b ++ a, e)
BY DEF HasUdas, HasNone, Own, ++

LEMMA NoUdasPutTogether ==
  ASSUME NEW a, NEW b, HasNone(a), HasNone(b)
  PROVE  HasNone(a ++ b)
BY DEF HasNone, ++

LEMMA NounsHaveNoUdas ==
  ASSUME UdasAreTyped, NEW noun
  PROVE  /\ DOMAIN InfoOf(noun) \intersect (DOMAIN Udas \union Named(DOMAIN Udas)) = {}
         /\ HasNone(Defaults(noun))
<1>1. DOMAIN InfoOf(noun) \intersect (DOMAIN Udas \union Named(DOMAIN Udas)) = {}
  <2>1. CASE noun \in DOMAIN Infos
    BY <2>1 DEF UdasAreTyped, InfoOf
  <2>2. CASE noun \notin DOMAIN Infos
    BY <2>2 DEF InfoOf
  <2> QED
    BY <2>1, <2>2
<1>2. DOMAIN Defaults(noun) \subseteq DOMAIN InfoOf(noun)
  BY DEF Defaults, Explicit, Only
<1> QED
  BY <1>1, <1>2 DEF HasNone

LEMMA RecordHasNoUdas ==
  ASSUME UdasAreTyped, NEW rec
  PROVE  DOMAIN OfRecord(rec) \intersect (DOMAIN Udas \union Named(DOMAIN Udas)) = {}
<1>1. CASE "TYPE" \notin DOMAIN rec \/ rec["TYPE"][1] # "Strand"
  BY <1>1 DEF OfRecord, Nothing
<1>2. CASE ~("TYPE" \notin DOMAIN rec \/ rec["TYPE"][1] # "Strand")
  <2> DEFINE noun == rec["TYPE"][2]
  <2>1. DOMAIN OfRecord(rec) \subseteq {k \in DOMAIN rec : Declared(noun, k) # "nothing known"}
    BY <1>2 DEF OfRecord
  <2>2. \A k : Declared(noun, k) # "nothing known" => k \in OfEveryNoun \union DOMAIN InfoOf(noun)
    BY DEF Declared, OfEveryNoun
  <2> HIDE DEF noun
  <2> QED
    BY <2>1, <2>2, NounsHaveNoUdas DEF UdasAreTyped
<1> QED
  BY <1>1, <1>2

(* What is loaded has no user-defined attribute by its key and all of them  *)
(* by their names.                                                          *)
LEMMA UdasLoaded ==
  ASSUME UdasAreTyped, NEW e \in Elements, NEW rec, NEW own, DOMAIN own = Own(e),
         \A k \in Own(e) : own[k] = ToUda(e.uda[k])
  PROVE  LET a == get_named_attmap_with_uda(rec, own) IN HasNone(a) /\ Answered(a, e)
<1> DEFINE given == [n \in Named(Heeded(DOMAIN own)) |-> OfUda(Udas[KeyOf(n)].type, own[KeyOf(n)])]
           usual == [n \in Named(Heeded(DOMAIN Udas)) |-> OfUda(Udas[KeyOf(n)].type, Udas[KeyOf(n)].default)]
           loaded == OfRecord(rec)
<1>1. HasNone(given) /\ HasNone(usual) /\ HasNone(loaded)
  <2>1. Named(Heeded(DOMAIN own)) \subseteq Named(DOMAIN Udas) /\ Named(Heeded(DOMAIN Udas)) \subseteq Named(DOMAIN Udas)
    BY DEF Named, Heeded, Own
  <2>2. Named(DOMAIN Udas) \intersect DOMAIN Udas = {}
    BY DEF UdasAreTyped
  <2> QED
    BY <2>1, <2>2, RecordHasNoUdas DEF HasNone
<1>2. ASSUME NEW k \in Own(e), Heeded({k}) # {}
      PROVE  /\ Udas[k].name \in DOMAIN given
             /\ given[Udas[k].name] = OfUda(Udas[k].type, ToUda(e.uda[k]))
  <2>1. k \in DOMAIN Udas /\ k \in Heeded(DOMAIN own)
    BY <1>2 DEF Heeded, Own
  <2>2. Udas[k].name \in DOMAIN given
    BY <2>1 DEF Named
  <2>3. KeyOf(Udas[k].name) = k
    BY <2>1 DEF KeyOf, UdasAreTyped
  <2> QED
    BY <2>2, <2>3
<1> HIDE DEF given, usual, loaded
<1>3. HasNone(given ++ usual ++ loaded)
  BY <1>1, NoUdasPutTogether
<1>4. Answered(given ++ usual ++ loaded, e)
  BY <1>2 DEF Answered, Val, ++
<1> QED
  BY <1>3, <1>4 DEF get_named_attmap_with_uda, given, usual, loaded

LEMMA UdasSaved ==
  ASSUME UdaInv, SaveUda, origin # "nowhere"
  PROVE  DOMAIN udaRecord' = Own(element) /\ \A k \in Own(element) : udaRecord'[k] = ToUda(element.uda[k])
<1> DEFINE gen == gen_sur_json_uda(att)
<1>1. DOMAIN gen = DOMAIN att \intersect DOMAIN Udas /\ \A k \in DOMAIN gen : gen[k] = ToUda(att[k])
  BY DEF gen_sur_json_uda, Only, IsUda
<1>2. gen = [k \in DOMAIN gen |-> gen[k]]
  BY DEF gen_sur_json_uda
<1>3. udaRecord' = IF gen = Nothing THEN udaRecord ELSE gen
  BY DEF SaveUda
<1> HIDE DEF gen
<1>4. gen = Nothing <=> DOMAIN gen = {}
  BY <1>2 DEF Nothing
<1>5. CASE HasUdas(att, element)
  <2>1. CASE Own(element) = {}
    <3>1. DOMAIN udaRecord = {}
      BY <2>1 DEF UdaInv, Nothing
    <3> QED
      BY <1>1, <1>3, <1>4, <1>5, <2>1, <3>1 DEF HasUdas
  <2>2. CASE Own(element) # {}
    BY <1>1, <1>3, <1>4, <1>5, <2>2 DEF HasUdas
  <2> QED
    BY <2>1, <2>2
<1>6. CASE HasNone(att) /\ row # None
  BY <1>1, <1>3, <1>4, <1>6 DEF UdaInv, HasNone
<1> QED
  BY <1>5, <1>6 DEF UdaInv

LEMMA UdaStep ==
  ASSUME UdasAreTyped, UdaInv, [AttrNext]_attrVars
  PROVE  UdaInv'
<1>1. CASE Parse
  BY <1>1, UdasParsed DEF Parse, UdaInv, None, Loaded
<1>2. CASE Refine
  <2> DEFINE w == whole[1]
             noun == get_type(w.attmap)
             known == Only(w.explicit, LAMBDA k : k \in DOMAIN w.explicit \intersect DOMAIN InfoOf(noun))
  <2>1. HasUdas(w.attmap, element) /\ HasNone(w.explicit)
    BY <1>2 DEF UdaInv, Refine
  <2>2. whole'[1].attmap = known ++ w.attmap /\ DOMAIN whole'[1].explicit \subseteq DOMAIN w.explicit
    BY <1>2 DEF Refine, refine, Without
  <2>3. HasNone(known)
    BY <2>1 DEF HasNone, Only
  <2> HIDE DEF known, w
  <2>4. HasUdas(whole'[1].attmap, element) /\ HasNone(whole'[1].explicit)
    BY <2>1, <2>2, <2>3, UdasPutTogether DEF HasNone
  <2> QED
    BY <1>2, <2>4 DEF Refine, UdaInv, Loaded
<1>3. CASE Join
  <2>1. HasUdas(att', element)
    BY <1>3, UdasPutTogether DEF Join, UdaInv, change_implicit_explicit_into_attr, merge
  <2> QED
    BY <1>3, <2>1 DEF Join, UdaInv, Loaded
<1>4. CASE Fill
  <2>1. att' = att ++ Defaults(get_type(att)) /\ HasNone(Defaults(get_type(att)))
    BY <1>4, NounsHaveNoUdas DEF Fill, fill_explicit_default_values
  <2>2. HasUdas(att', element) \/ (HasNone(att') /\ row # None)
    BY <1>4, <2>1, UdasPutTogether, NoUdasPutTogether DEF Fill, UdaInv
  <2>3. origin' = "filled" \/ (origin' = origin /\ att' = att)
    BY <1>4 DEF Fill
  <2> QED
    BY <1>4, <2>2, <2>3 DEF Fill, UdaInv, Loaded
<1>5. CASE Load
  <2>1. HasNone(att') /\ Answered(att', element)
    BY <1>5, UdasLoaded DEF Load, UdaInv
  <2> QED
    BY <1>5, <2>1 DEF Load, UdaInv, Loaded
<1>6. ASSUME \/ \E x \in ExcludeSets : Save(x)
             \/ \E s \in 1 .. MaxSession : SaveAt(s)
      PROVE  UdaInv'
  <2>1. /\ UNCHANGED <<element, whole, att, origin>> /\ origin # "nowhere" /\ SaveUda /\ row' # None
    BY <1>6 DEF Save, SaveAt, None
  <2>2. DOMAIN udaRecord' = Own(element) /\ \A k \in Own(element) : udaRecord'[k] = ToUda(element.uda[k])
    BY <2>1, UdasSaved
  <2> QED
    BY <2>1, <2>2 DEF UdaInv, Loaded
<1>7. ASSUME NEW r \in DOMAIN sessions, Change(r) PROVE UdaInv'
  BY <1>7 DEF Change, UdaInv, Loaded
<1>8. CASE UNCHANGED attrVars
  BY <1>8 DEF attrVars, UdaInv, Loaded
<1> QED
  BY <1>1, <1>2, <1>3, <1>4, <1>5, <1>6, <1>7, <1>8 DEF AttrNext

(* What the file says of an element by user-defined attributes is what the  *)
(* element has when it is loaded, after any saves and loads and though the  *)
(* later saves do not write them: for any elements, nouns and sessions and  *)
(* any dictionary with names of its own and values of its types.            *)
THEOREM FileUdasComeBack == UdasAreTyped => (AttrSpec => []UdasComeBack)
<1> SUFFICES ASSUME UdasAreTyped PROVE AttrSpec => []UdasComeBack
  OBVIOUS
<1>1. AttrInit => UdaInv
  BY DEF AttrInit, UdaInv, Loaded
<1>2. UdaInv /\ [AttrNext]_attrVars => UdaInv'
  BY UdaStep
<1>3. UdaInv => UdasComeBack
  <2> SUFFICES ASSUME UdaInv, Loaded, NEW k \in Own(element), Heeded({k}) # {}
               PROVE  Meaning(Val(att, Udas[k].name)) = Meaning(element.uda[k])
    BY DEF UdasComeBack, Own
  <2>1. Val(att, Udas[k].name) = OfUda(Udas[k].type, ToUda(element.uda[k]))
    BY DEF UdaInv, Answered
  <2>2. /\ element.uda[k][1] \in UdaVariants(Udas[k].type) /\ WellFormed(element.uda[k])
        /\ element.uda[k][1] = "RefU64Array" => \A i \in DOMAIN element.uda[k][2] : element.uda[k][2][i].sesno = <<>>
    BY DEF UdasAreTyped, UdaInv, Own
  <2> QED
    BY <2>1, <2>2, UdaComesBack
<1> QED
  BY <1>1, <1>2, <1>3, PTL DEF AttrSpec

-----------------------------------------------------------------------------
(* Values and their variants *)

(* The variants the program keeps an attribute in that is declared D.       *)
Variants(D) ==
  CASE D = "WordType" -> {"StringType", "WordType"}
    [] D = "DoubleType" -> {"F32Type", "StringType"}
    [] D = "DoubleArrayType" -> {"F32VecType"}
    [] D = "Vec3Type" -> {"F32VecType", "Vec3Type"}
    [] D = "RefU64Type" -> {"RefU64Type", "RefnoEnumType", "InvalidType"}
    [] D \in {"IntegerType", "StringType", "StringArrayType", "BoolArrayType", "IntArrayType", "BoolType", "RefU64Array"} -> {D}
    [] OTHER -> {"InvalidType"}
IsRefnoEnum(e) == e = [refno |-> e.refno, sesno |-> e.sesno]
Fits(D, v) ==
  D \notin Lossy =>
    /\ WellFormed(v) /\ v[1] \in Variants(D)
    /\ D = "WordType" /\ v[1] = "WordType" => v[2] # NulText
    /\ D = "DoubleType" /\ v[1] = "StringType" => v[2] = HugeNumber
    /\ D = "Vec3Type" => v[2] \in [1 .. 3 -> Int]
    /\ v[1] = "InvalidType" => v = Invalid
    /\ v[1] = "RefnoEnumType" => IsRefnoEnum(v[2]) /\ v[2].sesno # <<>>

LEMMA MappedIsList == ASSUME NEW f(_), NEW s PROVE IsList(Mapped(f, s))
BY DEF IsList, Mapped

ReadAs == {"WordType", "DoubleType", "DoubleArrayType", "Vec3Type", "RefU64Type", "IntegerType", "StringType",
           "StringArrayType", "BoolArrayType", "IntArrayType", "BoolType", "RefU64Array"}
LEMMA LossyOrNot ==
  ASSUME NEW D, D \notin Lossy
  PROVE  \/ D \in {"WordType", "DoubleType", "DoubleArrayType", "Vec3Type", "RefU64Type"}
         \/ D \in {"IntegerType", "StringType", "StringArrayType", "BoolArrayType", "IntArrayType", "BoolType", "RefU64Array"}
         \/ D \notin ReadAs
BY DEF ReadAs

LEMMA InvalidFits == ASSUME NEW D, D \notin ReadAs PROVE Fits(D, Invalid)
<1>1. Variants(D) = {"InvalidType"}
  BY DEF Variants, ReadAs
<1>2. WellFormed(Invalid) /\ Invalid[1] = "InvalidType"
  BY DEF WellFormed, Invalid
<1> QED
  BY <1>1, <1>2 DEF Fits, ReadAs

(* Values of a file are kept in the variants of their type.                 *)
LEMMA FilesFit ==
  ASSUME NEW D, NEW v, HasItsType(v, D)
  PROVE  Fits(D, OfAttrVal(v))
<1> DEFINE u == OfAttrVal(v)
<1> SUFFICES ASSUME D \notin Lossy
             PROVE  /\ WellFormed(u) /\ u[1] \in Variants(D)
                    /\ D = "WordType" /\ u[1] = "WordType" => u[2] # NulText
                    /\ D = "DoubleType" /\ u[1] = "StringType" => u[2] = HugeNumber
                    /\ D = "Vec3Type" => u[2] \in [1 .. 3 -> Int]
                    /\ u[1] = "InvalidType" => u = Invalid
                    /\ u[1] = "RefnoEnumType" => IsRefnoEnum(u[2]) /\ u[2].sesno # <<>>
  BY DEF Fits
<1>0. WellFormed(v) /\ (v[1] = D \/ (D = "WordType" /\ v[1] = "StringType"))
  BY DEF HasItsType, Lossy
<1>1. CASE D = "WordType"
  BY <1>0, <1>1 DEF OfAttrVal, WellFormed, Variants
<1>2. CASE D = "DoubleType"
  BY <1>0, <1>2 DEF OfAttrVal, WellFormed, Variants
<1>3. CASE D = "DoubleArrayType"
  BY <1>0, <1>3 DEF OfAttrVal, WellFormed, Variants
<1>4. CASE D = "Vec3Type"
  BY <1>0, <1>4 DEF OfAttrVal, WellFormed, Variants, IsList
<1>5. CASE D = "RefU64Type"
  BY <1>0, <1>5 DEF OfAttrVal, WellFormed, Variants
<1>6. CASE D \in {"IntegerType", "StringType", "StringArrayType", "BoolArrayType", "IntArrayType", "BoolType"}
  <2>1. u = v
    BY <1>0, <1>6 DEF OfAttrVal
  <2> QED
    BY <1>0, <1>6, <2>1 DEF Variants
<1>7. CASE D = "RefU64Array"
  <2>1. u = <<"RefU64Array", Mapped(Latest, v[2])>>
    BY <1>0, <1>7 DEF OfAttrVal
  <2> QED
    BY <1>7, <2>1, MappedIsList DEF Variants, WellFormed
<1>8. CASE D \notin ReadAs
  <2>1. v[1] \notin ReadAs \union Lossy
    BY <1>0, <1>8 DEF ReadAs
  <2>2. u = Invalid
    BY <2>1 DEF OfAttrVal, ReadAs, Lossy
  <2> QED
    BY <1>8, <2>2, InvalidFits DEF Fits
<1> QED
  BY <1>1, <1>2, <1>3, <1>4, <1>5, <1>6, <1>7, <1>8, LossyOrNot

-----------------------------------------------------------------------------
(* A field of the latest state, and what is read of it.                     *)
Field(v) ==
  IF IsRefU64(v) THEN Thing(Latest(refno_value(v)))
  ELSE IF v[1] = "RefU64Array" THEN Things(DropSessions(v[2])) ELSE into_json(v)
Back(D, v) ==
  CASE D = "WordType" -> <<"WordType", v[2]>>
    [] D = "Vec3Type" -> <<"Vec3Type", v[2]>>
    [] D = "RefU64Array" -> <<"RefU64Array", DropSessions(v[2])>>
    [] OTHER -> v
Kept(v) == v[1] # "RefnoEnumType" /\ (v[1] = "StringType" => v[2] \notin {NulText, HugeNumber})

LEMMA VectorsComeBack ==
  ASSUME NEW p \in [1 .. 3 -> Int], NEW x, x = <<"Array", Mapped(Number, p)>>
  PROVE  OfField("Vec3Type", x) = <<"Vec3Type", p>>
<1>1. Mapped(AsNumber, AsList(x)) = p
  <2>1. IsList(p)
    BY DEF IsList
  <2>2. AsList(x) = Mapped(Number, p)
    BY DEF AsList
  <2> QED
    BY <2>1, <2>2, ListsComeBack
<1>2. p \in Seq(Int) /\ Len(p) = 3
  <2>1. p \in Seq(Int)
    BY SeqDef
  <2>2. Len(p) \in Nat /\ DOMAIN p = 1 .. Len(p) /\ DOMAIN p = 1 .. 3
    BY <2>1, LenProperties
  <2> QED
    BY <2>1, <2>2
<1>3. SubSeq(p, 1, 3) = p
  <2>1. \A i \in 1 .. 3 : p[i] \in Int
    OBVIOUS
  <2>2. /\ SubSeq(p, 1, 3) \in Seq(Int) /\ Len(SubSeq(p, 1, 3)) = 3
        /\ \A i \in 1 .. 3 : SubSeq(p, 1, 3)[i] = p[i]
    BY <2>1, SubSeqProperties
  <2> QED
    BY <1>2, <2>2, SeqEqual
<1> DEFINE q == Mapped(AsNumber, AsList(x))
<1>4. OfField("Vec3Type", x) = <<"Vec3Type", IF Len(q) < 3 THEN <<0, 0, 0>> ELSE SubSeq(q, 1, 3)>>
  BY DEF OfField
<1>5. q = p
  BY <1>1
<1> HIDE DEF q
<1>6. ~(Len(q) < 3) /\ SubSeq(q, 1, 3) = p
  <2>1. Len(q) = 3
    BY <1>2, <1>5, Zenon
  <2>2. SubSeq(q, 1, 3) = p
    BY <1>3, <1>5, Zenon
  <2>3. ~(3 < 3)
    OBVIOUS
  <2> QED
    BY <2>1, <2>2, <2>3, Zenon
<1>7. (IF Len(q) < 3 THEN <<0, 0, 0>> ELSE SubSeq(q, 1, 3)) = p
  BY <1>6, Zenon
<1> QED
  BY <1>4, <1>7, Zenon

LEMMA FieldComesBack ==
  ASSUME NEW D, NEW v, D \notin Lossy, Fits(D, v), Kept(v)
  PROVE  OfField(D, Field(v)) = Back(D, v)
<1>0. /\ WellFormed(v) /\ v[1] \in Variants(D) /\ v = <<v[1], v[2]>>
      /\ D = "WordType" /\ v[1] = "WordType" => v[2] # NulText
      /\ D = "DoubleType" /\ v[1] = "StringType" => v[2] = HugeNumber
      /\ D = "Vec3Type" => v[2] \in [1 .. 3 -> Int]
      /\ v[1] = "InvalidType" => v = Invalid
  BY DEF Fits, WellFormed
<1>1. CASE D \in {"WordType", "StringType"}
  <2>1. v[1] \in {"StringType", "WordType"} /\ v[2] # NulText /\ (D = "StringType" => v[1] = "StringType")
    BY <1>0, <1>1 DEF Variants, Kept
  <2>2. Field(v) = Strand(v[2])
    BY <2>1 DEF Field, IsRefU64, into_json, Cleaned
  <2>3. OfField(D, Strand(v[2])) = <<D, v[2]>>
    BY <1>1 DEF OfField, Strand, AsText
  <2> QED
    BY <1>0, <1>1, <2>1, <2>2, <2>3 DEF Back
<1>2. CASE D \in {"DoubleType", "IntegerType"}
  <2>1. v[1] \in {"F32Type", "IntegerType"} /\ (D = "IntegerType" => v[1] = "IntegerType") /\ (D = "DoubleType" => v[1] = "F32Type")
    BY <1>0, <1>2 DEF Variants, Kept
  <2>2. Field(v) = Number(v[2])
    BY <2>1 DEF Field, IsRefU64, into_json
  <2>3. OfField(D, Number(v[2])) = <<v[1], v[2]>>
    BY <1>2, <2>1 DEF OfField, Number, AsNumber
  <2> QED
    BY <1>0, <1>2, <2>1, <2>2, <2>3 DEF Back
<1>3. CASE D = "BoolType"
  <2>1. v[1] = "BoolType" /\ v[2] \in BOOLEAN
    BY <1>0, <1>3 DEF Variants, WellFormed
  <2>2. Field(v) = Bool(v[2])
    BY <2>1 DEF Field, IsRefU64, into_json
  <2>3. OfField(D, Bool(v[2])) = <<"BoolType", v[2]>>
    BY <1>3, <2>1 DEF OfField, Bool, AsBool
  <2> QED
    BY <1>0, <1>3, <2>1, <2>2, <2>3 DEF Back
<1>4. CASE D = "Vec3Type"
  <2>1. v[1] \in {"F32VecType", "Vec3Type"}
    BY <1>0, <1>4 DEF Variants
  <2>2. Field(v) = <<"Array", Mapped(Number, v[2])>>
    BY <2>1 DEF Field, IsRefU64, into_json
  <2> QED
    BY <1>0, <1>4, <2>2, VectorsComeBack DEF Back
<1>5. CASE D = "DoubleArrayType"
  <2>1. v[1] = "F32VecType" /\ IsList(v[2])
    BY <1>0, <1>5 DEF Variants, WellFormed
  <2>2. Field(v) = <<"Array", Mapped(Number, v[2])>>
    BY <2>1 DEF Field, IsRefU64, into_json
  <2>3. Mapped(AsNumber, AsList(Field(v))) = v[2]
    BY <2>1, <2>2, ListsComeBack DEF AsList
  <2> QED
    BY <1>0, <1>5, <2>1, <2>3 DEF Back, OfField
<1>6. CASE D = "IntArrayType"
  <2>1. v[1] = "IntArrayType" /\ IsList(v[2])
    BY <1>0, <1>6 DEF Variants, WellFormed
  <2>2. Field(v) = <<"Array", Mapped(Number, v[2])>>
    BY <2>1 DEF Field, IsRefU64, into_json
  <2>3. Mapped(AsNumber, AsList(Field(v))) = v[2]
    BY <2>1, <2>2, ListsComeBack DEF AsList
  <2> QED
    BY <1>0, <1>6, <2>1, <2>3 DEF Back, OfField
<1>7. CASE D = "StringArrayType"
  <2>1. v[1] = "StringArrayType" /\ IsList(v[2])
    BY <1>0, <1>7 DEF Variants, WellFormed
  <2>2. Field(v) = <<"Array", Mapped(Strand, v[2])>>
    BY <2>1 DEF Field, IsRefU64, into_json
  <2>3. Mapped(AsText, AsList(Field(v))) = v[2]
    BY <2>1, <2>2, ListsComeBack DEF AsList
  <2> QED
    BY <1>0, <1>7, <2>1, <2>3 DEF Back, OfField
<1>8. CASE D = "BoolArrayType"
  <2>1. v[1] = "BoolArrayType" /\ IsList(v[2]) /\ \A i \in DOMAIN v[2] : v[2][i] \in BOOLEAN
    BY <1>0, <1>8 DEF Variants, WellFormed
  <2>2. Field(v) = <<"Array", Mapped(Bool, v[2])>>
    BY <2>1 DEF Field, IsRefU64, into_json
  <2>3. Mapped(AsBool, AsList(Field(v))) = v[2]
    BY <2>1, <2>2, ListsComeBack DEF AsList
  <2> QED
    BY <1>0, <1>8, <2>1, <2>3 DEF Back, OfField
<1>9. CASE D = "RefU64Type"
  <2>1. v[1] = "RefU64Type" \/ v = Invalid
    BY <1>0, <1>9 DEF Variants, Kept
  <2>2. ASSUME v[1] = "RefU64Type" PROVE OfField(D, Field(v)) = v
    <3>1. Field(v) = <<"Thing", Latest(v[2])>>
      BY <2>2 DEF Field, IsRefU64, refno_value, Thing
    <3>2. OfField(D, <<"Thing", Latest(v[2])>>) = <<"RefU64Type", v[2]>>
      BY <1>9 DEF OfField, OfThing, Latest
    <3> QED
      BY <1>0, <2>2, <3>1, <3>2
  <2>3. ASSUME v = Invalid PROVE OfField(D, Field(v)) = v
    BY <1>9, <2>3 DEF Field, IsRefU64, into_json, OfField, Null, Invalid
  <2> QED
    BY <1>9, <2>1, <2>2, <2>3 DEF Back
<1>10. CASE D = "RefU64Array"
  <2>1. v[1] = "RefU64Array" /\ IsList(v[2])
    BY <1>0, <1>10 DEF Variants, WellFormed
  <2>2. Field(v) = <<"Array", Mapped(Thing, DropSessions(v[2]))>>
    BY <2>1 DEF Field, IsRefU64, Things
  <2>3. Mapped(AsRefno, AsList(Field(v))) = DropSessions(v[2])
    <3>1. IsList(DropSessions(v[2]))
      BY DEF DropSessions, IsList
    <3> QED
      BY <2>2, <3>1, ListsComeBack DEF AsList
  <2> QED
    BY <1>10, <2>3 DEF Back, OfField
<1>11. CASE D \notin ReadAs
  <2>1. v = Invalid
    BY <1>0, <1>11 DEF Variants, ReadAs
  <2>2. Field(v) = Null
    BY <2>1 DEF Field, IsRefU64, into_json, Invalid
  <2>3. OfField(D, Null) = Invalid
    BY <1>11 DEF OfField, ReadAs, Lossy
  <2>4. Back(D, v) = v
    BY <1>11 DEF Back, ReadAs
  <2> QED
    BY <2>1, <2>2, <2>3, <2>4
<1> QED
  BY <1>1, <1>2, <1>3, <1>4, <1>5, <1>6, <1>7, <1>8, <1>9, <1>10, <1>11 DEF ReadAs

LEMMA DropTwice ==
  ASSUME NEW s
  PROVE  /\ DropSessions(DropSessions(s)) = DropSessions(s)
         /\ DOMAIN DropSessions(s) = DOMAIN s /\ \A i \in DOMAIN s : DropSessions(s)[i].refno = s[i].refno
         /\ IsList(s) => (DropSessions(s) = <<>> <=> s = <<>>)
<1>1. DOMAIN DropSessions(s) = DOMAIN s /\ \A i \in DOMAIN s : DropSessions(s)[i] = Latest(s[i].refno)
  BY DEF DropSessions
<1>2. \A i \in DOMAIN s : DropSessions(s)[i].refno = s[i].refno
  BY <1>1 DEF Latest
<1>3. DropSessions(DropSessions(s)) = [i \in DOMAIN s |-> Latest(DropSessions(s)[i].refno)]
  BY <1>1 DEF DropSessions
<1>4. [i \in DOMAIN s |-> Latest(DropSessions(s)[i].refno)] = [i \in DOMAIN s |-> Latest(s[i].refno)]
  BY <1>2
<1>5. ASSUME IsList(s) PROVE DropSessions(s) = <<>> <=> s = <<>>
  <2>1. \A t : IsList(t) => (t = <<>> <=> DOMAIN t = {})
    BY DEF IsList
  <2>2. IsList(DropSessions(s))
    BY DEF IsList, DropSessions
  <2> QED
    BY <1>1, <1>5, <2>1, <2>2
<1> QED
  BY <1>1, <1>2, <1>3, <1>4, <1>5 DEF DropSessions

(* What comes back means the same, has the same text and is written alike.  *)
LEMMA BackIsAlike ==
  ASSUME NEW D, NEW v, D \notin Lossy, Fits(D, v), Kept(v)
  PROVE  /\ Meaning(Back(D, v)) = Meaning(v) /\ TextOf(Back(D, v)) = TextOf(v)
         /\ Field(Back(D, v)) = Field(v)
<1>0. WellFormed(v) /\ v[1] \in Variants(D) /\ v = <<v[1], v[2]>> /\ (D = "WordType" /\ v[1] = "WordType" => v[2] # NulText)
  BY DEF Fits, WellFormed
<1>1. CASE D = "WordType"
  <2>1. v[1] \in {"StringType", "WordType"}
    BY <1>0, <1>1 DEF Variants
  <2>2. Back(D, v) = <<"WordType", v[2]>>
    BY <1>1 DEF Back
  <2> QED
    BY <2>1, <2>2 DEF Meaning, TextOf, Field, IsRefU64, into_json
<1>2. CASE D = "Vec3Type"
  <2>1. v[1] \in {"F32VecType", "Vec3Type"}
    BY <1>0, <1>2 DEF Variants
  <2>2. Back(D, v) = <<"Vec3Type", v[2]>>
    BY <1>2 DEF Back
  <2>3. Meaning(Back(D, v)) = Meaning(v) /\ TextOf(Back(D, v)) = TextOf(v)
    BY <2>1, <2>2 DEF Meaning, TextOf
  <2>4. ASSUME NEW w, w[1] \in {"F32VecType", "Vec3Type"}, NEW s, s = w[2]
        PROVE  Field(w) = <<"Array", Mapped(Number, s)>>
    BY <2>4 DEF Field, IsRefU64, into_json
  <2> QED
    BY <2>1, <2>2, <2>3, <2>4
<1>3. CASE D = "RefU64Array"
  <2>1. v[1] = "RefU64Array" /\ IsList(v[2])
    BY <1>0, <1>3 DEF Variants, WellFormed
  <2>2. Back(D, v) = <<"RefU64Array", DropSessions(v[2])>>
    BY <1>3 DEF Back
  <2>3. Field(Back(D, v)) = Field(v)
    BY <2>1, <2>2, DropTwice DEF Field, IsRefU64
  <2>4. TextOf(Back(D, v)) = TextOf(v)
    BY <2>1, <2>2 DEF TextOf
  <2>5. Meaning(Back(D, v)) = Meaning(v)
    <3> DEFINE d == DropSessions(v[2])
    <3>1. Meaning(Back(D, v)) = IF d = <<>> THEN Nowhere ELSE <<"elements", [i \in DOMAIN d |-> d[i].refno]>>
      BY <2>2 DEF Meaning
    <3>2. Meaning(v) = IF v[2] = <<>> THEN Nowhere ELSE <<"elements", [i \in DOMAIN v[2] |-> v[2][i].refno]>>
      BY <2>1 DEF Meaning
    <3> HIDE DEF d
    <3>3. (d = <<>> <=> v[2] = <<>>) /\ [i \in DOMAIN d |-> d[i].refno] = [i \in DOMAIN v[2] |-> v[2][i].refno]
      BY <2>1, DropTwice DEF d
    <3> QED
      BY <3>1, <3>2, <3>3
  <2> QED
    BY <2>3, <2>4, <2>5
<1>4. CASE D \notin {"WordType", "Vec3Type", "RefU64Array"}
  BY <1>4 DEF Back
<1> QED
  BY <1>1, <1>2, <1>3, <1>4

(* A field written for a value: a reference as some record, a plain value  *)
(* by into_json.                                                            *)
WrittenFor(x, v) ==
  IF IsRefU64(v) THEN \E e : IsRefnoEnum(e) /\ x = Thing(e)
  ELSE v[1] # "RefU64Array" => x = into_json(v)

LEMMA ReadReference ==
  ASSUME NEW e, IsRefnoEnum(e)
  PROVE  Fits("RefU64Type", OfField("RefU64Type", Thing(e)))
<1>1. OfField("RefU64Type", Thing(e)) = OfThing(e)
  BY DEF OfField, Thing
<1>2. OfThing(e) = IF e.sesno = <<>> THEN <<"RefU64Type", e.refno>> ELSE <<"RefnoEnumType", e>>
  BY DEF OfThing
<1>3. Variants("RefU64Type") = {"RefU64Type", "RefnoEnumType", "InvalidType"}
  BY DEF Variants
<1> QED
  BY <1>1, <1>2, <1>3 DEF Fits, WellFormed

LEMMA ReadFits ==
  ASSUME NEW D, NEW v, NEW x, Fits(D, v), WrittenFor(x, v)
  PROVE  Fits(D, OfField(D, x))
<1> SUFFICES ASSUME D \notin Lossy PROVE Fits(D, OfField(D, x))
  BY DEF Fits
<1>0. /\ WellFormed(v) /\ v[1] \in Variants(D) /\ v = <<v[1], v[2]>>
      /\ D = "WordType" /\ v[1] = "WordType" => v[2] # NulText
      /\ D = "DoubleType" /\ v[1] = "StringType" => v[2] = HugeNumber
      /\ D = "Vec3Type" => v[2] \in [1 .. 3 -> Int]
      /\ v[1] = "InvalidType" => v = Invalid
  BY DEF Fits, WellFormed
<1> DEFINE u == OfField(D, x)
<1>1. CASE D \in {"StringType", "DoubleType", "IntegerType"}
  <2>1. \E z : u = <<IF D = "DoubleType" THEN "F32Type" ELSE D, z>>
    BY <1>1 DEF OfField
  <2> HIDE DEF u
  <2>2. WellFormed(u) /\ u[1] \in Variants(D) /\ u[1] \in {"F32Type", "IntegerType", "StringType"} /\ (D = "DoubleType" => u[1] # "StringType")
    BY <1>1, <2>1 DEF WellFormed, Variants
  <2> QED
    BY <1>1, <2>2 DEF Fits, u
<1>2. CASE D = "WordType"
  <2>1. v[1] \in {"StringType", "WordType"}
    BY <1>0, <1>2 DEF Variants
  <2>2. x = Cleaned(v[2])
    BY <2>1 DEF WrittenFor, IsRefU64, into_json
  <2>3. u = <<"WordType", IF v[2] = NulText THEN "" ELSE v[2]>>
    BY <1>2, <2>2 DEF OfField, Cleaned, Strand, AsText
  <2> HIDE DEF u
  <2>4. u = <<"WordType", u[2]>> /\ u[2] # NulText
    BY <2>3 DEF NulText
  <2> QED
    BY <1>2, <2>4 DEF Fits, WellFormed, Variants, u
<1>3. CASE D = "BoolType"
  <2>1. \E z \in BOOLEAN : u = <<"BoolType", z>>
    BY <1>3 DEF OfField, AsBool
  <2> HIDE DEF u
  <2>2. WellFormed(u) /\ u[1] = "BoolType"
    BY <2>1 DEF WellFormed
  <2> QED
    BY <1>3, <2>2 DEF Fits, Variants, u
<1>4. CASE D = "Vec3Type"
  <2>1. v[1] \in {"F32VecType", "Vec3Type"}
    BY <1>0, <1>4 DEF Variants
  <2>2. x = <<"Array", Mapped(Number, v[2])>>
    BY <2>1 DEF WrittenFor, IsRefU64, into_json
  <2>3. u = <<"Vec3Type", v[2]>>
    BY <1>0, <1>4, <2>2, VectorsComeBack
  <2> HIDE DEF u
  <2>4. WellFormed(u) /\ u[1] = "Vec3Type"
    BY <1>0, <1>4, <2>3 DEF WellFormed
  <2> QED
    BY <1>0, <1>4, <2>3, <2>4 DEF Fits, Variants, u
<1>5. CASE D \in {"DoubleArrayType", "IntArrayType", "StringArrayType", "RefU64Array"}
  <2>1. \E z : u = <<IF D = "DoubleArrayType" THEN "F32VecType" ELSE D, z>> /\ IsList(z)
    BY <1>5, MappedIsList DEF OfField
  <2> HIDE DEF u
  <2>2. WellFormed(u) /\ u[1] \in Variants(D) /\ u[1] \in {"F32VecType", "IntArrayType", "StringArrayType", "RefU64Array"}
    BY <1>5, <2>1 DEF WellFormed, Variants
  <2> QED
    BY <1>5, <2>2 DEF Fits, u
<1>6. CASE D = "BoolArrayType"
  <2>1. v[1] = "BoolArrayType" /\ IsList(v[2]) /\ \A i \in DOMAIN v[2] : v[2][i] \in BOOLEAN
    BY <1>0, <1>6 DEF Variants, WellFormed
  <2>2. x = <<"Array", Mapped(Bool, v[2])>>
    BY <2>1 DEF WrittenFor, IsRefU64, into_json
  <2>3. Mapped(AsBool, AsList(x)) = v[2]
    BY <2>1, <2>2, ListsComeBack DEF AsList
  <2>4. u = <<"BoolArrayType", v[2]>>
    BY <1>6, <2>3 DEF OfField
  <2> HIDE DEF u
  <2>5. WellFormed(u) /\ u[1] = "BoolArrayType"
    BY <2>1, <2>4 DEF WellFormed
  <2> QED
    BY <1>6, <2>5 DEF Fits, Variants, u
<1>7. CASE D = "RefU64Type"
  <2>1. CASE v[1] = "RefU64Type"
    BY <1>7, <2>1, ReadReference DEF WrittenFor, IsRefU64
  <2>2. CASE v[1] # "RefU64Type"
    <3>1. v[1] \in {"RefnoEnumType", "InvalidType"}
      BY <1>0, <1>7, <2>2 DEF Variants
    <3>2. x = Null
      BY <3>1 DEF WrittenFor, IsRefU64, into_json
    <3>3. u = Invalid
      BY <1>7, <3>2 DEF OfField, Null
    <3>4. Fits(D, Invalid)
      BY <1>7 DEF Fits, Variants, WellFormed, Invalid
    <3> QED
      BY <3>3, <3>4
  <2> QED
    BY <2>1, <2>2
<1>8. CASE D \notin ReadAs
  <2>1. u = Invalid
    BY <1>8 DEF OfField, ReadAs, Lossy
  <2> QED
    BY <1>8, <2>1, InvalidFits
<1> QED
  BY <1>1, <1>2, <1>3, <1>4, <1>5, <1>6, <1>7, <1>8 DEF ReadAs

-----------------------------------------------------------------------------
(* Records and what is read of them *)

LEMMA EmptyTuple == DOMAIN <<>> = {}
OBVIOUS

(* An attribute a noun knows is no user-defined one.                        *)
LEMMA KnownKeys ==
  ASSUME UdasAreTyped, FilesAreTyped, NEW noun, NEW k, Declared(noun, k) # "nothing known"
  PROVE  k \notin DOMAIN Udas \union Named(DOMAIN Udas) \union {"id"}
<1>1. k \in OfEveryNoun \union DOMAIN InfoOf(noun)
  BY DEF Declared, OfEveryNoun
<1>2. "id" \notin OfEveryNoun \union DOMAIN InfoOf(noun)
  <2>1. CASE noun \in DOMAIN Infos
    BY <2>1 DEF FilesAreTyped, InfoOf, OfEveryNoun
  <2>2. CASE noun \notin DOMAIN Infos
    <3>1. InfoOf(noun) = <<>>
      BY <2>2 DEF InfoOf
    <3>3. DOMAIN InfoOf(noun) = {}
      BY <3>1, EmptyTuple, Zenon
    <3> QED
      BY <3>3 DEF OfEveryNoun
  <2> QED
    BY <2>1, <2>2
<1> QED
  BY <1>1, <1>2, NounsHaveNoUdas DEF UdasAreTyped

LEMMA NoLossyKeys ==
  ASSUME UdasAreTyped, FilesAreTyped, NEW noun, NEW k, Declared(noun, k) \notin Lossy
  PROVE  k \notin DOMAIN Udas \union Named(DOMAIN Udas) \union {"id"}
BY KnownKeys DEF Lossy

LEMMA FieldsOf ==
  ASSUME NEW a
  PROVE  /\ DOMAIN Fields(a) = DOMAIN a \ ({"REFNO"} \union DOMAIN Udas)
         /\ DOMAIN Plain(a) = {k \in DOMAIN Fields(a) : ~IsRefU64(a[k]) /\ a[k][1] # "RefU64Array"}
         /\ DOMAIN Single(a) = {k \in DOMAIN Fields(a) : IsRefU64(a[k])}
         /\ DOMAIN Lists(a) = {k \in DOMAIN Fields(a) : a[k][1] = "RefU64Array"}
BY DEF Fields, Without, Plain, Single, Lists, Only

LEMMA KindsOf ==
  ASSUME NEW a, NEW k, k # "REFNO"
  PROVE  /\ k \in DOMAIN Plain(a) => ~IsRefU64(a[k]) /\ a[k][1] # "RefU64Array"
         /\ k \in DOMAIN Single(a) => IsRefU64(a[k]) /\ a[k][1] # "RefU64Array"
         /\ k \in DOMAIN Lists(a) => ~IsRefU64(a[k]) /\ a[k][1] = "RefU64Array"
         /\ k \in DOMAIN Plain(a) \union DOMAIN Single(a) \union DOMAIN Lists(a) <=> k \in DOMAIN a \ DOMAIN Udas
<1>1. k \in DOMAIN Fields(a) <=> k \in DOMAIN a \ DOMAIN Udas
  BY FieldsOf
<1>2. /\ k \in DOMAIN Plain(a) <=> k \in DOMAIN Fields(a) /\ ~IsRefU64(a[k]) /\ a[k][1] # "RefU64Array"
      /\ k \in DOMAIN Single(a) <=> k \in DOMAIN Fields(a) /\ IsRefU64(a[k])
      /\ k \in DOMAIN Lists(a) <=> k \in DOMAIN Fields(a) /\ a[k][1] = "RefU64Array"
  <2>1. k \in DOMAIN Plain(a) <=> k \in DOMAIN Fields(a) /\ ~IsRefU64(a[k]) /\ a[k][1] # "RefU64Array"
    BY DEF Plain, Only, Fields, Without
  <2>2. k \in DOMAIN Single(a) <=> k \in DOMAIN Fields(a) /\ IsRefU64(a[k])
    BY DEF Single, Only, Fields, Without
  <2>3. k \in DOMAIN Lists(a) <=> k \in DOMAIN Fields(a) /\ a[k][1] = "RefU64Array"
    BY DEF Lists, Only, Fields, Without
  <2> QED
    BY <2>1, <2>2, <2>3
<1>3. IsRefU64(a[k]) => a[k][1] # "RefU64Array"
  BY DEF IsRefU64
<1> QED
  BY <1>1, <1>2, <1>3

LEMMA PlainKeys == ASSUME NEW a PROVE DOMAIN Plain(a) \subseteq DOMAIN a \ {"REFNO"}
<1>1. DOMAIN Fields(a) \subseteq DOMAIN a \ {"REFNO"}
  BY FieldsOf
<1>2. DOMAIN Plain(a) \subseteq DOMAIN Fields(a)
  BY FieldsOf
<1> QED
  BY <1>1, <1>2

LEMMA PlainJsonOf ==
  ASSUME UdasAreTyped, NEW a, Kinded(a)
  PROVE  /\ DOMAIN PlainJson(a) = DOMAIN Plain(a)
         /\ \A k \in DOMAIN Plain(a) : PlainJson(a)[k] = into_json(a[k])
<1>1. "TYPE" \in DOMAIN Plain(a)
  <2>1. "TYPE" \in DOMAIN a \ DOMAIN Udas
    BY DEF Kinded, UdasAreTyped, OfEveryNoun
  <2>2. ~IsRefU64(a["TYPE"]) /\ a["TYPE"][1] # "RefU64Array"
    BY DEF Kinded, IsRefU64
  <2> QED
    BY <2>1, <2>2, KindsOf
<1> QED
  BY <1>1 DEF PlainJson, ++

(* The fields of the latest state.                                          *)
LEMMA LatestFields ==
  ASSUME UdasAreTyped, NEW a, Kinded(a), NEW x, NEW k, k \notin {"REFNO", "id"},
         NEW rec, rec = gen_sur_json_exclude(a, x)
  PROVE  /\ k \in DOMAIN rec => k \in DOMAIN a \ DOMAIN Udas /\ rec[k] = Field(a[k])
         /\ k \in DOMAIN a \ (DOMAIN Udas \union x) => k \in DOMAIN rec
<1> DEFINE refno == get_refno_by_att(a, "REFNO")
           flat == Without(PlainJson(a), x)
           ids == [id |-> <<"IdText", refno>>, REFNO |-> Thing(refno)]
           one == Only(Single(a), LAMBDA n : ~(refno_value(a[n]) = 0 /\ n \in x))
           many == Only(Lists(a), LAMBDA n : ~(a[n][2] = <<>> /\ n \in x))
           ones == [n \in DOMAIN one |-> Thing(Latest(refno_value(a[n])))]
           lists == [n \in DOMAIN many |-> Things(DropSessions(a[n][2]))]
<1>1. rec = flat ++ ids ++ ones ++ lists
  BY DEF gen_sur_json_exclude
<1>2. k \notin DOMAIN ids
  OBVIOUS
<1>3. /\ k \in DOMAIN flat <=> k \in DOMAIN Plain(a) \ x
      /\ k \in DOMAIN flat => flat[k] = into_json(a[k])
  BY PlainJsonOf DEF Without
<1>4. /\ k \in DOMAIN ones => k \in DOMAIN Single(a)
      /\ k \in DOMAIN Single(a) \ x => k \in DOMAIN ones
      /\ k \in DOMAIN ones => ones[k] = Thing(Latest(refno_value(a[k])))
  BY DEF Only
<1>5. /\ k \in DOMAIN lists => k \in DOMAIN Lists(a)
      /\ k \in DOMAIN Lists(a) \ x => k \in DOMAIN lists
      /\ k \in DOMAIN lists => lists[k] = Things(DropSessions(a[k][2]))
  BY DEF Only
<1>6. /\ k \in DOMAIN Plain(a) => ~IsRefU64(a[k]) /\ a[k][1] # "RefU64Array"
      /\ k \in DOMAIN Single(a) => IsRefU64(a[k]) /\ a[k][1] # "RefU64Array"
      /\ k \in DOMAIN Lists(a) => ~IsRefU64(a[k]) /\ a[k][1] = "RefU64Array"
      /\ k \in DOMAIN Plain(a) \union DOMAIN Single(a) \union DOMAIN Lists(a) <=> k \in DOMAIN a \ DOMAIN Udas
  BY KindsOf
<1> HIDE DEF flat, ids, ones, lists
<1>7. k \in DOMAIN rec <=> k \in DOMAIN flat \union DOMAIN ones \union DOMAIN lists
  BY <1>1, <1>2 DEF ++
<1>8. k \in DOMAIN rec => rec[k] = IF k \in DOMAIN flat THEN flat[k] ELSE IF k \in DOMAIN ones THEN ones[k] ELSE lists[k]
  BY <1>1, <1>2 DEF ++
<1>9. k \in DOMAIN rec => k \in DOMAIN a \ DOMAIN Udas /\ rec[k] = Field(a[k])
  BY <1>3, <1>4, <1>5, <1>6, <1>7, <1>8 DEF Field
<1>10. k \in DOMAIN a \ (DOMAIN Udas \union x) => k \in DOMAIN rec
  BY <1>3, <1>4, <1>5, <1>6, <1>7
<1> QED
  BY <1>9, <1>10

LEMMA LatestIds ==
  ASSUME UdasAreTyped, NEW a, Kinded(a), NEW x, NEW rec, rec = gen_sur_json_exclude(a, x)
  PROVE  /\ "REFNO" \in DOMAIN rec /\ rec["REFNO"] = Thing(get_refno_by_att(a, "REFNO"))
         /\ "id" \notin DOMAIN a => "id" \in DOMAIN rec /\ rec["id"] = <<"IdText", get_refno_by_att(a, "REFNO")>>
<1> DEFINE refno == get_refno_by_att(a, "REFNO")
           flat == Without(PlainJson(a), x)
           ids == [id |-> <<"IdText", refno>>, REFNO |-> Thing(refno)]
           one == Only(Single(a), LAMBDA n : ~(refno_value(a[n]) = 0 /\ n \in x))
           many == Only(Lists(a), LAMBDA n : ~(a[n][2] = <<>> /\ n \in x))
           ones == [n \in DOMAIN one |-> Thing(Latest(refno_value(a[n])))]
           lists == [n \in DOMAIN many |-> Things(DropSessions(a[n][2]))]
<1>1. rec = flat ++ ids ++ ones ++ lists
  BY DEF gen_sur_json_exclude
<1>2. DOMAIN ids = {"id", "REFNO"} /\ ids["REFNO"] = Thing(refno) /\ ids["id"] = <<"IdText", refno>>
  OBVIOUS
<1>3. "REFNO" \notin DOMAIN flat /\ ("id" \notin DOMAIN a => "id" \notin DOMAIN flat)
  BY PlainJsonOf, PlainKeys DEF Without
<1> HIDE DEF flat, ids, ones, lists
<1>4. /\ "REFNO" \in DOMAIN rec /\ rec["REFNO"] = Thing(refno)
      /\ "id" \notin DOMAIN a => "id" \in DOMAIN rec /\ rec["id"] = <<"IdText", refno>>
  BY <1>1, <1>2, <1>3 DEF ++
<1> QED
  BY <1>4

(* The fields of the state of a session: unset references and empty lists   *)
(* have none.                                                               *)
FieldAt(v, map) ==
  IF IsRefU64(v) THEN Thing(AtSession(refno_value(v), map))
  ELSE IF v[1] = "RefU64Array" THEN Things([i \in DOMAIN v[2] |-> AtSession(v[2][i].refno, map)]) ELSE into_json(v)
Blank(v) == (IsRefU64(v) /\ refno_value(v) = 0) \/ (v[1] = "RefU64Array" /\ v[2] = <<>>)
LEMMA SessionFields ==
  ASSUME UdasAreTyped, NEW a, Kinded(a), NEW sesno, NEW map, NEW k, k \notin {"REFNO", "id"},
         NEW rec, rec = gen_sur_json_with_sesno(a, sesno, map)
  PROVE  /\ k \in DOMAIN rec => k \in DOMAIN a \ DOMAIN Udas /\ ~Blank(a[k]) /\ rec[k] = FieldAt(a[k], map)
         /\ k \in DOMAIN a \ DOMAIN Udas /\ ~Blank(a[k]) => k \in DOMAIN rec
<1> DEFINE refno == get_refno_by_att(a, "REFNO").refno
           this == [refno |-> refno, sesno |-> <<sesno>>]
           flat == PlainJson(a)
           ids == [id |-> <<"IdText", this>>, REFNO |-> Thing(this)]
           one == Only(Single(a), LAMBDA n : refno_value(a[n]) # 0)
           many == Only(Lists(a), LAMBDA n : a[n][2] # <<>>)
           ones == [n \in DOMAIN one |-> Thing(AtSession(refno_value(a[n]), map))]
           lists == [n \in DOMAIN many |-> Things([i \in DOMAIN a[n][2] |-> AtSession(a[n][2][i].refno, map)])]
<1>1. rec = flat ++ ids ++ ones ++ lists
  BY DEF gen_sur_json_with_sesno
<1>2. k \notin DOMAIN ids
  OBVIOUS
<1>3. /\ k \in DOMAIN flat <=> k \in DOMAIN Plain(a)
      /\ k \in DOMAIN flat => flat[k] = into_json(a[k])
  BY PlainJsonOf
<1>4. /\ k \in DOMAIN ones <=> k \in DOMAIN Single(a) /\ refno_value(a[k]) # 0
      /\ k \in DOMAIN ones => ones[k] = Thing(AtSession(refno_value(a[k]), map))
  BY FieldsOf DEF Only
<1>5. /\ k \in DOMAIN lists <=> k \in DOMAIN Lists(a) /\ a[k][2] # <<>>
      /\ k \in DOMAIN lists => lists[k] = Things([i \in DOMAIN a[k][2] |-> AtSession(a[k][2][i].refno, map)])
  BY FieldsOf DEF Only
<1>6. /\ k \in DOMAIN Plain(a) => ~IsRefU64(a[k]) /\ a[k][1] # "RefU64Array"
      /\ k \in DOMAIN Single(a) => IsRefU64(a[k]) /\ a[k][1] # "RefU64Array"
      /\ k \in DOMAIN Lists(a) => ~IsRefU64(a[k]) /\ a[k][1] = "RefU64Array"
      /\ k \in DOMAIN Plain(a) \union DOMAIN Single(a) \union DOMAIN Lists(a) <=> k \in DOMAIN a \ DOMAIN Udas
  BY KindsOf
<1> HIDE DEF flat, ids, ones, lists
<1>7. k \in DOMAIN rec <=> k \in DOMAIN flat \union DOMAIN ones \union DOMAIN lists
  BY <1>1, <1>2 DEF ++
<1>8. k \in DOMAIN rec => rec[k] = IF k \in DOMAIN flat THEN flat[k] ELSE IF k \in DOMAIN ones THEN ones[k] ELSE lists[k]
  BY <1>1, <1>2 DEF ++
<1>9. k \in DOMAIN rec => k \in DOMAIN a \ DOMAIN Udas /\ ~Blank(a[k]) /\ rec[k] = FieldAt(a[k], map)
  BY <1>3, <1>4, <1>5, <1>6, <1>7, <1>8 DEF FieldAt, Blank
<1>10. k \in DOMAIN a \ DOMAIN Udas /\ ~Blank(a[k]) => k \in DOMAIN rec
  BY <1>3, <1>4, <1>5, <1>6, <1>7 DEF Blank
<1> QED
  BY <1>9, <1>10

LEMMA SessionIds ==
  ASSUME UdasAreTyped, NEW a, Kinded(a), NEW sesno, NEW map, NEW rec, rec = gen_sur_json_with_sesno(a, sesno, map)
  PROVE  "REFNO" \in DOMAIN rec /\ rec["REFNO"] = Thing([refno |-> get_refno_by_att(a, "REFNO").refno, sesno |-> <<sesno>>])
<1> DEFINE refno == get_refno_by_att(a, "REFNO").refno
           this == [refno |-> refno, sesno |-> <<sesno>>]
           flat == PlainJson(a)
           ids == [id |-> <<"IdText", this>>, REFNO |-> Thing(this)]
           one == Only(Single(a), LAMBDA n : refno_value(a[n]) # 0)
           many == Only(Lists(a), LAMBDA n : a[n][2] # <<>>)
           ones == [n \in DOMAIN one |-> Thing(AtSession(refno_value(a[n]), map))]
           lists == [n \in DOMAIN many |-> Things([i \in DOMAIN a[n][2] |-> AtSession(a[n][2][i].refno, map)])]
<1>1. rec = flat ++ ids ++ ones ++ lists
  BY DEF gen_sur_json_with_sesno
<1>2. DOMAIN ids = {"id", "REFNO"} /\ ids["REFNO"] = Thing(this)
  OBVIOUS
<1>3. "REFNO" \notin DOMAIN flat
  BY PlainJsonOf, PlainKeys
<1> HIDE DEF flat, ids, ones, lists
<1>4. "REFNO" \in DOMAIN rec /\ rec["REFNO"] = Thing(this)
  BY <1>1, <1>2, <1>3 DEF ++
<1> QED
  BY <1>4

(* An element has its noun and its reference, and every attribute a value   *)
(* of its type.                                                             *)
HasRefno(a) ==
  /\ "REFNO" \in DOMAIN a /\ a["REFNO"][1] \in {"RefU64Type", "RefnoEnumType"}
  /\ a["REFNO"][1] = "RefU64Type" => a["REFNO"][2] # 0
AllFit(a, noun) == \A k \in DOMAIN a : Fits(Declared(noun, k), a[k])
Sound(a) == Kinded(a) /\ HasRefno(a) /\ AllFit(a, get_type(a))

(* A record that was written for the element.                               *)
RecordOf(rec, a) ==
  /\ Typed(rec) /\ rec["TYPE"][2] = get_type(a)
  /\ \A k \in DOMAIN rec \ {"id", "REFNO"} : k \in DOMAIN a /\ WrittenFor(rec[k], a[k])
  /\ "REFNO" \in DOMAIN rec /\ \E e : rec["REFNO"] = Thing(e) /\ IsRefnoEnum(e) /\ (e.sesno = <<>> => e.refno # 0)

LEMMA RefnoDeclared == ASSUME NEW noun PROVE Declared(noun, "REFNO") = "RefU64Type" /\ "RefU64Type" \notin Lossy
BY DEF Declared, Lossy, OfEveryNoun

LEMMA OwnRefno ==
  ASSUME NEW a, Sound(a), NEW r, r = get_refno_by_att(a, "REFNO")
  PROVE  /\ IsRefnoEnum(r) /\ (r.sesno = <<>> => r.refno # 0)
         /\ a["REFNO"] = OfThing(r)
<1>1. /\ WellFormed(a["REFNO"]) /\ a["REFNO"] = <<a["REFNO"][1], a["REFNO"][2]>>
      /\ a["REFNO"][1] = "RefnoEnumType" => IsRefnoEnum(a["REFNO"][2]) /\ a["REFNO"][2].sesno # <<>>
  BY RefnoDeclared DEF Sound, HasRefno, AllFit, Fits, WellFormed
<1>2. CASE a["REFNO"][1] = "RefU64Type"
  <2>1. r = Latest(a["REFNO"][2]) /\ a["REFNO"][2] # 0
    BY <1>2 DEF Sound, HasRefno, get_refno_by_att, Val
  <2> QED
    BY <1>1, <1>2, <2>1 DEF OfThing, Latest, IsRefnoEnum
<1>3. CASE a["REFNO"][1] = "RefnoEnumType"
  <2>1. r = a["REFNO"][2]
    BY <1>3 DEF Sound, HasRefno, get_refno_by_att, Val
  <2> QED
    BY <1>1, <1>3, <2>1 DEF OfThing
<1> QED
  BY <1>2, <1>3 DEF Sound, HasRefno

LEMMA LatestRecordOf ==
  ASSUME NamesAreApart, UdasAreTyped, NEW a, Sound(a), NEW x \in ExcludeSets
  PROVE  RecordOf(gen_sur_json_exclude(a, x), a)
<1> DEFINE rec == gen_sur_json_exclude(a, x)
           r == get_refno_by_att(a, "REFNO")
<1>1. Typed(rec) /\ rec["TYPE"][2] = get_type(a)
  <2>1. Typed(rec) /\ SameState(rec, pe_gen_sur_json(pe(a)), a, 0)
    BY SavedAlike DEF Sound
  <2> QED
    BY <2>1 DEF SameState, Strand, pe, pe_gen_sur_json
<1>2. ASSUME NEW k \in DOMAIN rec \ {"id", "REFNO"} PROVE k \in DOMAIN a /\ WrittenFor(rec[k], a[k])
  <2>1. k \in DOMAIN a /\ rec[k] = Field(a[k])
    BY <1>2, LatestFields DEF Sound
  <2>2. IsRefnoEnum(Latest(refno_value(a[k])))
    BY DEF IsRefnoEnum, Latest
  <2> QED
    BY <2>1, <2>2 DEF Field, WrittenFor
<1>3. "REFNO" \in DOMAIN rec /\ rec["REFNO"] = Thing(r)
  BY LatestIds DEF Sound
<1>4. IsRefnoEnum(r) /\ (r.sesno = <<>> => r.refno # 0)
  BY OwnRefno
<1> HIDE DEF rec, r
<1>5. RecordOf(rec, a)
  BY <1>1, <1>2, <1>3, <1>4 DEF RecordOf
<1> QED
  BY <1>5 DEF rec

LEMMA SessionRecordOf ==
  ASSUME NamesAreApart, UdasAreTyped, NEW a, Sound(a), NEW sesno, NEW map
  PROVE  RecordOf(gen_sur_json_with_sesno(a, sesno, map), a)
<1> DEFINE rec == gen_sur_json_with_sesno(a, sesno, map)
           e == [refno |-> get_refno_by_att(a, "REFNO").refno, sesno |-> <<sesno>>]
<1>1. Typed(rec) /\ rec["TYPE"][2] = get_type(a)
  <2>1. Typed(rec) /\ SameState(rec, RowAt(a, sesno, map), a, 1)
    BY SavedAlikeAt DEF Sound
  <2> QED
    BY <2>1 DEF SameState, Strand, pe, RowAt, pe_gen_sur_json_with_sesno
<1>2. ASSUME NEW k \in DOMAIN rec \ {"id", "REFNO"} PROVE k \in DOMAIN a /\ WrittenFor(rec[k], a[k])
  <2>1. k \in DOMAIN a /\ rec[k] = FieldAt(a[k], map)
    BY <1>2, SessionFields DEF Sound
  <2>2. IsRefnoEnum(AtSession(refno_value(a[k]), map))
    BY DEF IsRefnoEnum, Latest, AtSession
  <2> QED
    BY <2>1, <2>2 DEF FieldAt, WrittenFor
<1>3. "REFNO" \in DOMAIN rec /\ rec["REFNO"] = Thing(e)
  BY SessionIds DEF Sound
<1>4. IsRefnoEnum(e) /\ e.sesno # <<>>
  BY DEF IsRefnoEnum
<1> HIDE DEF rec, e
<1>5. RecordOf(rec, a)
  BY <1>1, <1>2, <1>3, <1>4 DEF RecordOf
<1> QED
  BY <1>5 DEF rec

(* Of what is loaded: the noun's attributes are those of the record.        *)
FromRecord(a, rec, noun) ==
  /\ get_type(a) = noun
  /\ \A k : Declared(noun, k) # "nothing known" =>
       (k \in DOMAIN a <=> k \in DOMAIN rec) /\ (k \in DOMAIN rec => a[k] = OfField(Declared(noun, k), rec[k]))
  /\ \A k : Declared(noun, k) = "nothing known" /\ k \notin Named(DOMAIN Udas) => k \notin DOMAIN a
LEMMA LoadedFromRecord ==
  ASSUME NamesAreApart, UdasAreTyped, FilesAreTyped, NEW rec, NEW own, Typed(rec), DOMAIN own \subseteq DOMAIN Udas
  PROVE  FromRecord(get_named_attmap_with_uda(rec, own), rec, rec["TYPE"][2])
<1> DEFINE a == get_named_attmap_with_uda(rec, own)
           noun == rec["TYPE"][2]
           given == [n \in Named(Heeded(DOMAIN own)) |-> OfUda(Udas[KeyOf(n)].type, own[KeyOf(n)])]
           usual == [n \in Named(Heeded(DOMAIN Udas)) |-> OfUda(Udas[KeyOf(n)].type, Udas[KeyOf(n)].default)]
           loaded == OfRecord(rec)
<1>1. DOMAIN given \subseteq Named(DOMAIN Udas) /\ DOMAIN usual \subseteq Named(DOMAIN Udas)
  BY DEF Named, Heeded
<1>2. /\ DOMAIN loaded = {k \in DOMAIN rec : Declared(noun, k) # "nothing known"}
      /\ \A k \in DOMAIN loaded : loaded[k] = OfField(Declared(noun, k), rec[k])
  BY DEF OfRecord, Typed
<1>3. a = given ++ usual ++ loaded
  BY DEF get_named_attmap_with_uda
<1>a. Typed(rec) /\ noun = rec["TYPE"][2]
  OBVIOUS
<1> HIDE DEF given, usual, loaded, a, noun
<1>4. ASSUME NEW k, Declared(noun, k) # "nothing known"
      PROVE  (k \in DOMAIN a <=> k \in DOMAIN rec) /\ (k \in DOMAIN rec => a[k] = OfField(Declared(noun, k), rec[k]))
  <2>1. k \notin DOMAIN given \union DOMAIN usual
    BY <1>1, <1>4, KnownKeys
  <2>2. k \in DOMAIN a <=> k \in DOMAIN loaded
    BY <1>3, <2>1 DEF ++
  <2>3. k \in DOMAIN loaded => a[k] = loaded[k]
    BY <1>3, <2>1 DEF ++
  <2> QED
    BY <1>2, <1>4, <2>2, <2>3
<1>5. ASSUME NEW k, Declared(noun, k) = "nothing known", k \notin Named(DOMAIN Udas) PROVE k \notin DOMAIN a
  <2>1. k \notin DOMAIN given \union DOMAIN usual \union DOMAIN loaded
    BY <1>1, <1>2, <1>5
  <2> QED
    BY <1>3, <2>1 DEF ++
<1>6. get_type(a) = noun
  <2>1. Declared(noun, "TYPE") = "StringType"
    BY DEF Declared, OfEveryNoun
  <2>2. "TYPE" \in DOMAIN a /\ a["TYPE"] = OfField("StringType", rec["TYPE"])
    BY <1>4, <1>a, <2>1 DEF Typed
  <2>3. OfField("StringType", rec["TYPE"]) = <<"StringType", noun>>
    BY <1>a DEF OfField, AsText, Typed
  <2> QED
    BY <2>2, <2>3 DEF get_type, Val
<1> QED
  BY <1>4, <1>5, <1>6 DEF FromRecord, a, noun

LEMMA LoadedSound ==
  ASSUME NamesAreApart, UdasAreTyped, FilesAreTyped, NEW b, Sound(b), NEW rec, RecordOf(rec, b),
         NEW own, DOMAIN own \subseteq DOMAIN Udas
  PROVE  Sound(get_named_attmap_with_uda(rec, own))
<1> DEFINE a == get_named_attmap_with_uda(rec, own)
           noun == rec["TYPE"][2]
<1>1. Kinded(a)
  BY LoadedIsKinded DEF RecordOf
<1>2. Typed(rec) /\ noun = get_type(b)
  BY DEF RecordOf
<1>a. a = get_named_attmap_with_uda(rec, own) /\ noun = rec["TYPE"][2]
  OBVIOUS
<1> HIDE DEF a, noun
<1>3. /\ get_type(a) = noun
      /\ \A k : Declared(noun, k) # "nothing known" =>
           (k \in DOMAIN a <=> k \in DOMAIN rec) /\ (k \in DOMAIN rec => a[k] = OfField(Declared(noun, k), rec[k]))
  <2>1. FromRecord(a, rec, noun)
    BY <1>2, <1>a, LoadedFromRecord
  <2> QED
    BY <2>1 DEF FromRecord
<1>4. PICK e : rec["REFNO"] = Thing(e) /\ IsRefnoEnum(e) /\ (e.sesno = <<>> => e.refno # 0)
  BY DEF RecordOf
<1>5. "REFNO" \in DOMAIN a /\ a["REFNO"] = OfField("RefU64Type", Thing(e))
  <2>1. Declared(noun, "REFNO") = "RefU64Type" /\ Declared(noun, "REFNO") # "nothing known"
    BY RefnoDeclared
  <2>2. "REFNO" \in DOMAIN rec
    BY DEF RecordOf
  <2>3. "REFNO" \in DOMAIN a /\ a["REFNO"] = OfField(Declared(noun, "REFNO"), rec["REFNO"])
    BY <1>3, <2>1, <2>2
  <2> QED
    BY <1>4, <2>1, <2>3
<1>6. HasRefno(a)
  <2>1. a["REFNO"] = OfThing(e)
    BY <1>5 DEF OfField, Thing
  <2> QED
    BY <1>4, <1>5, <2>1 DEF HasRefno, OfThing
<1>7. ASSUME NEW k \in DOMAIN a PROVE Fits(Declared(noun, k), a[k])
  <2>1. CASE Declared(noun, k) = "nothing known"
    BY <2>1 DEF Fits, Lossy
  <2>2. CASE k = "REFNO"
    BY <1>4, <1>5, <2>2, ReadReference, RefnoDeclared
  <2>3. CASE Declared(noun, k) # "nothing known" /\ k # "REFNO"
    <3>1. k \in DOMAIN rec /\ a[k] = OfField(Declared(noun, k), rec[k])
      BY <1>3, <1>7, <2>3
    <3>2. k # "id"
      BY <2>3, KnownKeys
    <3>3. k \in DOMAIN b /\ WrittenFor(rec[k], b[k])
      BY <2>3, <3>1, <3>2 DEF RecordOf
    <3>4. Fits(Declared(noun, k), b[k])
      BY <1>2, <3>3 DEF Sound, AllFit
    <3> QED
      BY <3>1, <3>3, <3>4, ReadFits
  <2> QED
    BY <2>1, <2>2, <2>3
<1>8. Sound(a)
  BY <1>1, <1>3, <1>6, <1>7 DEF Sound, AllFit
<1> QED
  BY <1>8 DEF a

-----------------------------------------------------------------------------
(* Attributes, hashes and records come back *)

HalvesFit(w, e) ==
  /\ HasRefno(w.attmap) /\ "REFNO" \notin DOMAIN w.explicit
  /\ AllFit(w.attmap, NounOf(e)) /\ AllFit(w.explicit, NounOf(e))

(* The record is what one of the two writers makes of the element that was  *)
(* saved, and what is loaded was read from it.                              *)
WrittenBy ==
  IF saved.at = 0 THEN record = gen_sur_json_exclude(saved.att, excluded)
  ELSE excluded = {} /\ \E map : record = gen_sur_json_with_sesno(saved.att, saved.at, map)
AttInv ==
  /\ RowInv
  /\ whole # None => HalvesFit(whole[1], element)
  /\ origin # "nowhere" => Sound(att)
  /\ row # None => /\ Sound(saved.att) /\ RecordOf(record, saved.att) /\ WrittenBy
                   /\ row[1].cata_hash = cal_cata_hash(saved.att)
  /\ Loaded => row # None /\ (att = saved.att \/ att = get_named_attmap_with_uda(record, udaRecord))

LEMMA FitTogether ==
  ASSUME NEW noun, NEW a, NEW b, AllFit(a, noun), AllFit(b, noun)
  PROVE  AllFit(a ++ b, noun)
BY DEF AllFit, ++

LEMMA HalfFits ==
  ASSUME NEW noun, NEW m, \A k \in DOMAIN m : HasItsType(m[k], Declared(noun, k))
  PROVE  AllFit(OfAttrMap(m), noun)
<1> SUFFICES ASSUME NEW k \in DOMAIN m PROVE Fits(Declared(noun, k), OfAttrVal(m[k]))
  BY DEF AllFit, OfAttrMap
<1> QED
  BY FilesFit

LEMMA ParsedFit ==
  ASSUME NamesAreApart, FilesAreTyped, NEW e \in Elements
  PROVE  HalvesFit([attmap |-> OfAttrMap(e.implicit) ++ e.uda, explicit |-> OfAttrMap(e.explicit), refined |-> FALSE], e)
<1> DEFINE I == OfAttrMap(e.implicit)
           X == OfAttrMap(e.explicit)
           noun == NounOf(e)
<1>1. AllFit(I, noun) /\ AllFit(X, noun)
  BY HalfFits DEF FilesAreTyped
<1>2. AllFit(e.uda, noun)
  <2> SUFFICES ASSUME NEW k \in DOMAIN e.uda PROVE Declared(noun, k) = "nothing known"
    BY DEF AllFit, Fits, Lossy
  <2>1. k \notin OfEveryNoun \union DOMAIN InfoOf(noun)
    BY DEF FilesAreTyped, NamesAreApart
  <2> QED
    BY <2>1 DEF Declared, OfEveryNoun
<1>3. "REFNO" \in DOMAIN e.implicit /\ "REFNO" \notin DOMAIN e.explicit /\ e.implicit["REFNO"][2] # 0
      /\ HasItsType(e.implicit["REFNO"], "RefU64Type")
  BY RefnoDeclared DEF FilesAreTyped
<1>4. HasRefno(I ++ e.uda)
  <2>1. e.implicit["REFNO"][1] = "RefU64Type"
    BY <1>3 DEF HasItsType
  <2>2. "REFNO" \in DOMAIN I /\ I["REFNO"] = e.implicit["REFNO"]
    BY <1>3, <2>1 DEF OfAttrMap, OfAttrVal
  <2> HIDE DEF I
  <2> QED
    BY <1>3, <2>1, <2>2 DEF HasRefno, ++
<1>5. "REFNO" \notin DOMAIN X
  BY <1>3 DEF OfAttrMap
<1> HIDE DEF I, X
<1> QED
  BY <1>1, <1>2, <1>4, <1>5, FitTogether DEF HalvesFit, I, X

LEMMA RefinedFit ==
  ASSUME NEW e, NEW w, HalvesFit(w, e)
  PROVE  HalvesFit(refine(w, NounOf(e)), e)
<1> DEFINE known == Only(w.explicit, LAMBDA k : k \in DOMAIN w.explicit \intersect DOMAIN InfoOf(NounOf(e)))
           r == refine(w, NounOf(e))
<1>1. /\ r.attmap = known ++ w.attmap
      /\ DOMAIN r.explicit \subseteq DOMAIN w.explicit
      /\ \A k \in DOMAIN r.explicit : r.explicit[k] = w.explicit[k]
  BY DEF refine, Without
<1>2. DOMAIN known \subseteq DOMAIN w.explicit /\ \A k \in DOMAIN known : known[k] = w.explicit[k]
  BY DEF Only
<1> HIDE DEF known, r
<1>3. AllFit(known, NounOf(e)) /\ AllFit(r.explicit, NounOf(e))
  BY <1>1, <1>2 DEF HalvesFit, AllFit
<1>4. HasRefno(known ++ w.attmap)
  BY <1>2 DEF HalvesFit, HasRefno, ++
<1> QED
  BY <1>1, <1>3, <1>4, FitTogether DEF HalvesFit, r

LEMMA JoinedSound ==
  ASSUME NamesAreApart, AttInv, Join
  PROVE  Sound(att')
<1>1. HalvesRight(whole[1], element) /\ element \in Elements /\ HalvesFit(whole[1], element)
  BY DEF AttInv, RowInv, WholeInv, Join
<1>2. get_type(whole[1].attmap) = NounOf(element) /\ Kinded(whole[1].attmap) /\ "TYPE" \notin DOMAIN whole[1].explicit
  BY <1>1, NounOfHalves DEF HalvesRight
<1>3. att' = whole[1].explicit ++ whole[1].attmap \/ att' = whole[1].attmap ++ whole[1].explicit
  BY DEF Join, change_implicit_explicit_into_attr, merge
<1>4. Kinded(att')
  BY JoinKinded DEF AttInv, RowInv
<1>5. get_type(att') = NounOf(element)
  BY <1>2, <1>3 DEF get_type, Val, Kinded, ++
<1>6. HasRefno(att')
  BY <1>1, <1>3 DEF HalvesFit, HasRefno, ++
<1>7. AllFit(att', NounOf(element))
  BY <1>1, <1>3, FitTogether DEF HalvesFit
<1> QED
  BY <1>4, <1>5, <1>6, <1>7 DEF Sound

LEMMA FilledSound ==
  ASSUME FilesAreTyped, NEW a, Sound(a)
  PROVE  Sound(fill_explicit_default_values(a))
<1> DEFINE noun == get_type(a)
           d == Defaults(noun)
           f == fill_explicit_default_values(a)
<1>1. f = a ++ d
  BY DEF fill_explicit_default_values
<1>2. AllFit(d, noun)
  <2> SUFFICES ASSUME NEW k \in DOMAIN d PROVE Fits(Declared(noun, k), d[k])
    BY DEF AllFit
  <2>1. k \in DOMAIN InfoOf(noun) /\ d[k] = OfAttrVal(InfoOf(noun)[k].default)
    BY DEF Defaults, Explicit, Only
  <2>2. CASE noun \in DOMAIN Infos
    <3>1. HasItsType(InfoOf(noun)[k].default, Declared(noun, k))
      BY <2>1, <2>2 DEF FilesAreTyped, InfoOf
    <3> QED
      BY <2>1, <3>1, FilesFit
  <2>3. CASE noun \notin DOMAIN Infos
    <3>1. InfoOf(noun) = <<>>
      BY <2>3 DEF InfoOf
    <3> QED
      BY <2>1, <3>1, EmptyTuple, Zenon
  <2> QED
    BY <2>2, <2>3
<1> HIDE DEF d, f
<1>3. Kinded(f) /\ get_type(f) = noun /\ HasRefno(f)
  BY <1>1 DEF Sound, Kinded, HasRefno, get_type, Val, ++
<1>4. AllFit(f, noun)
  BY <1>1, <1>2, FitTogether DEF Sound
<1> QED
  BY <1>3, <1>4 DEF Sound, f

LEMMA AttStep ==
  ASSUME NamesAreApart, UdasAreTyped, FilesAreTyped, AttInv, [AttrNext]_attrVars
  PROVE  AttInv'
<1>0. RowInv'
  BY RowStep DEF AttInv
<1>1. CASE Parse
  BY <1>0, <1>1, ParsedFit DEF Parse, AttInv, RowInv, WholeInv, None, Loaded, WrittenBy
<1>2. CASE Refine
  <2>1. element \in Elements /\ HalvesFit(whole[1], element) /\ HalvesRight(whole[1], element)
    BY <1>2 DEF Refine, AttInv, RowInv, WholeInv
  <2>2. get_type(whole[1].attmap) = NounOf(element)
    BY <2>1, NounOfHalves
  <2>3. HalvesFit(refine(whole[1], NounOf(element)), element)
    BY <2>1, RefinedFit
  <2>4. whole' = <<refine(whole[1], NounOf(element))>>
    BY <1>2, <2>2 DEF Refine
  <2>5. HalvesFit(whole'[1], element)
    BY <2>3, <2>4
  <2> QED
    BY <1>0, <1>2, <2>5 DEF Refine, AttInv, Loaded, WrittenBy
<1>3. CASE Join
  BY <1>0, <1>3, JoinedSound DEF Join, AttInv, Loaded, WrittenBy
<1>4. CASE Fill
  <2>1. Sound(att')
    BY <1>4, FilledSound DEF Fill, AttInv
  <2>2. origin' = "filled" \/ (origin' = origin /\ att' = att)
    BY <1>4 DEF Fill
  <2> QED
    BY <1>0, <1>4, <2>1, <2>2 DEF Fill, AttInv, Loaded, WrittenBy
<1>5. CASE Load
  <2>1. Sound(att')
    BY <1>5, LoadedSound DEF Load, AttInv, RowInv
  <2> QED
    BY <1>0, <1>5, <2>1 DEF Load, AttInv, Loaded, WrittenBy
<1>6. ASSUME NEW x \in ExcludeSets, Save(x) PROVE AttInv'
  <2>1. /\ record' = gen_sur_json_exclude(att, x) /\ row' = <<pe_gen_sur_json(pe(att))>> /\ saved'.att = att /\ saved'.at = 0
        /\ excluded' = x /\ Sound(att) /\ UNCHANGED <<element, whole, origin, att>>
    BY <1>6 DEF Save, AttInv
  <2>2. RecordOf(record', att)
    BY <2>1, LatestRecordOf
  <2>3. row'[1].cata_hash = cal_cata_hash(att)
    BY <2>1 DEF pe, pe_gen_sur_json
  <2>4. row' # None
    BY <2>1 DEF None
  <2> QED
    BY <1>0, <2>1, <2>2, <2>3, <2>4 DEF AttInv, Loaded, WrittenBy
<1>7. ASSUME NEW s \in 1 .. MaxSession, SaveAt(s) PROVE AttInv'
  <2> DEFINE map == build_refno_sesno_map(att, s)
  <2>1. /\ record' = gen_sur_json_with_sesno(att, s, map) /\ row' = <<RowAt(att, s, map)>> /\ saved'.att = att /\ saved'.at = s
        /\ excluded' = {} /\ Sound(att) /\ UNCHANGED <<element, whole, origin, att>>
    BY <1>7 DEF SaveAt, RowAt, AttInv
  <2> HIDE DEF map
  <2>2. RecordOf(record', att)
    BY <2>1, SessionRecordOf
  <2>3. row'[1].cata_hash = cal_cata_hash(att)
    BY <2>1 DEF pe, RowAt, pe_gen_sur_json_with_sesno
  <2>4. row' # None /\ s # 0
    BY <2>1 DEF None
  <2> QED
    BY <1>0, <2>1, <2>2, <2>3, <2>4 DEF AttInv, Loaded, WrittenBy
<1>8. ASSUME NEW r \in DOMAIN sessions, Change(r) PROVE AttInv'
  BY <1>0, <1>8 DEF Change, AttInv, Loaded, WrittenBy
<1>9. CASE UNCHANGED attrVars
  BY <1>0, <1>9 DEF attrVars, AttInv, Loaded, WrittenBy
<1> QED
  BY <1>1, <1>2, <1>3, <1>4, <1>5, <1>6, <1>7, <1>8, <1>9 DEF AttrNext

LEMMA NoElementsKept == ASSUME NEW D, D \notin Lossy
  PROVE  /\ "ElementType" \notin Variants(D)
         /\ "RefU64Array" \in Variants(D) => D = "RefU64Array"
         /\ "RefU64Type" \in Variants(D) => D = "RefU64Type"
         /\ "Vec3Type" \in Variants(D) => D = "Vec3Type"
BY DEF Variants, Lossy

LEMMA InvalidMeansNothing == Meaning(Invalid) = Nowhere
BY DEF Meaning, Invalid

(* What comes back of the state of a session: references to the same        *)
(* elements.                                                                *)
LEMMA SessionMeansTheSame ==
  ASSUME NEW D, NEW v, D \notin Lossy, Fits(D, v), Kept(v), ~Blank(v), NEW map
  PROVE  Meaning(OfField(D, FieldAt(v, map))) = Meaning(v)
<1>0. WellFormed(v) /\ v[1] \in Variants(D) /\ v = <<v[1], v[2]>>
  BY DEF Fits, WellFormed
<1>1. CASE v[1] = "RefU64Type"
  <2> DEFINE e == AtSession(v[2], map)
  <2>1. D = "RefU64Type" /\ v[2] # 0
    BY <1>0, <1>1, NoElementsKept DEF Blank, IsRefU64, refno_value
  <2>2. e.refno = v[2]
    BY DEF AtSession, Latest
  <2>3. FieldAt(v, map) = Thing(e)
    BY <1>1 DEF FieldAt, IsRefU64, refno_value
  <2> HIDE DEF e
  <2>4. OfField(D, FieldAt(v, map)) = OfThing(e)
    BY <2>1, <2>3 DEF OfField, Thing
  <2>5. Meaning(OfThing(e)) = <<"element", v[2]>>
    BY <2>1, <2>2 DEF OfThing, Meaning
  <2> QED
    BY <1>1, <2>1, <2>4, <2>5 DEF Meaning
<1>2. CASE v[1] = "RefU64Array"
  <2> DEFINE s == [i \in DOMAIN v[2] |-> AtSession(v[2][i].refno, map)]
  <2>1. D = "RefU64Array" /\ v[2] # <<>> /\ IsList(v[2])
    BY <1>0, <1>2, NoElementsKept DEF Blank, WellFormed
  <2>2. DOMAIN s = DOMAIN v[2] /\ IsList(s) /\ \A i \in DOMAIN s : s[i].refno = v[2][i].refno
    BY DEF IsList, AtSession, Latest
  <2>3. FieldAt(v, map) = Things(s)
    BY <1>2 DEF FieldAt, IsRefU64
  <2> HIDE DEF s
  <2>4. OfField(D, FieldAt(v, map)) = <<"RefU64Array", s>>
    <3>1. FieldAt(v, map) = <<"Array", Mapped(Thing, s)>>
      BY <2>3 DEF Things
    <3>2. Mapped(AsRefno, AsList(FieldAt(v, map))) = s
      BY <2>2, <3>1, ListsComeBack DEF AsList
    <3> QED
      BY <2>1, <3>2 DEF OfField
  <2>5. s # <<>>
    <3>1. \A t : IsList(t) => (t = <<>> <=> DOMAIN t = {})
      BY DEF IsList
    <3> QED
      BY <2>1, <2>2, <3>1
  <2>6. [i \in DOMAIN s |-> s[i].refno] = [i \in DOMAIN v[2] |-> v[2][i].refno]
    BY <2>2
  <2>7. Meaning(<<"RefU64Array", s>>) = <<"elements", [i \in DOMAIN s |-> s[i].refno]>>
    BY <2>5 DEF Meaning
  <2>8. Meaning(v) = <<"elements", [i \in DOMAIN v[2] |-> v[2][i].refno]>>
    BY <1>2, <2>1 DEF Meaning
  <2> QED
    BY <2>4, <2>6, <2>7, <2>8
<1>3. CASE v[1] \notin {"RefU64Type", "RefU64Array"}
  <2>1. ~IsRefU64(v)
    BY <1>0, <1>3, NoElementsKept DEF IsRefU64
  <2>2. FieldAt(v, map) = Field(v)
    BY <1>3, <2>1 DEF FieldAt, Field
  <2> QED
    BY <2>2, FieldComesBack, BackIsAlike
<1> QED
  BY <1>1, <1>2, <1>3

(* The element that was loaded, and not saved since.                        *)
Reread == AttInv /\ Loaded /\ att # saved.att
D0(k) == Declared(get_type(saved.att), k)

LEMMA RereadFromRecord ==
  ASSUME NamesAreApart, UdasAreTyped, FilesAreTyped, Reread
  PROVE  /\ FromRecord(att, record, get_type(saved.att)) /\ Sound(saved.att) /\ Sound(att)
         /\ RecordOf(record, saved.att) /\ WrittenBy /\ row[1].cata_hash = cal_cata_hash(saved.att)
<1>1. /\ att = get_named_attmap_with_uda(record, udaRecord) /\ DOMAIN udaRecord \subseteq DOMAIN Udas
      /\ RecordOf(record, saved.att) /\ Sound(saved.att) /\ Sound(att) /\ WrittenBy
      /\ row[1].cata_hash = cal_cata_hash(saved.att)
  BY DEF Reread, AttInv, RowInv, Loaded
<1>2. Typed(record) /\ record["TYPE"][2] = get_type(saved.att)
  BY <1>1 DEF RecordOf
<1>3. FromRecord(att, record, record["TYPE"][2])
  BY <1>1, <1>2, LoadedFromRecord
<1> QED
  BY <1>1, <1>2, <1>3

LEMMA RereadRefno ==
  ASSUME NamesAreApart, UdasAreTyped, FilesAreTyped, Reread
  PROVE  "REFNO" \in DOMAIN att /\ \E e : record["REFNO"] = Thing(e) /\ att["REFNO"] = OfThing(e)
<1>1. D0("REFNO") = "RefU64Type" /\ D0("REFNO") # "nothing known"
  BY RefnoDeclared DEF D0
<1>2. "REFNO" \in DOMAIN record /\ \E e : record["REFNO"] = Thing(e)
  BY RereadFromRecord DEF RecordOf
<1>3. "REFNO" \in DOMAIN att /\ att["REFNO"] = OfField(D0("REFNO"), record["REFNO"])
  BY <1>1, <1>2, RereadFromRecord DEF FromRecord, D0
<1>4. PICK e : record["REFNO"] = Thing(e)
  BY <1>2
<1>5. OfField("RefU64Type", Thing(e)) = OfThing(e)
  BY DEF OfField, Thing
<1> QED
  BY <1>1, <1>3, <1>4, <1>5

LEMMA LatestReread ==
  ASSUME NamesAreApart, UdasAreTyped, FilesAreTyped, Reread, saved.at = 0,
         NEW k \in DOMAIN saved.att \ excluded, Survives(saved.att, k), k # "REFNO"
  PROVE  /\ k \in DOMAIN att /\ att[k] = Back(D0(k), saved.att[k])
         /\ k \in DOMAIN record /\ record[k] = Field(saved.att[k])
         /\ D0(k) \notin Lossy /\ Fits(D0(k), saved.att[k]) /\ Kept(saved.att[k])
<1>1. D0(k) \notin Lossy /\ Kept(saved.att[k])
  BY DEF Survives, D0, Kept
<1>2. k \notin DOMAIN Udas \union {"id"} /\ D0(k) # "nothing known"
  BY <1>1, NoLossyKeys DEF D0, Lossy
<1>3. record = gen_sur_json_exclude(saved.att, excluded) /\ Kinded(saved.att)
  BY RereadFromRecord DEF WrittenBy, Sound
<1>4. k \in DOMAIN record /\ record[k] = Field(saved.att[k])
  <2>1. k \notin {"REFNO", "id"} /\ k \in DOMAIN saved.att \ (DOMAIN Udas \union excluded)
    BY <1>2
  <2> QED
    BY <1>3, <2>1, LatestFields
<1>5. Fits(D0(k), saved.att[k])
  BY RereadFromRecord DEF Sound, AllFit, D0
<1>6. k \in DOMAIN att /\ att[k] = OfField(D0(k), record[k])
  BY <1>2, <1>4, RereadFromRecord DEF FromRecord, D0
<1> QED
  BY <1>1, <1>4, <1>5, <1>6, FieldComesBack

LEMMA SessionReread ==
  ASSUME NamesAreApart, UdasAreTyped, FilesAreTyped, Reread, saved.at # 0,
         NEW k \in DOMAIN saved.att, Survives(saved.att, k), k # "REFNO"
  PROVE  Meaning(Val(att, k)) = Meaning(saved.att[k])
<1>1. D0(k) \notin Lossy /\ Kept(saved.att[k])
  BY DEF Survives, D0, Kept
<1>2. k \notin DOMAIN Udas \union {"id"} /\ D0(k) # "nothing known"
  BY <1>1, NoLossyKeys DEF D0, Lossy
<1>3. PICK map : record = gen_sur_json_with_sesno(saved.att, saved.at, map)
  BY RereadFromRecord DEF WrittenBy
<1>4. Kinded(saved.att) /\ Fits(D0(k), saved.att[k])
  BY RereadFromRecord DEF Sound, AllFit, D0
<1>5. (k \in DOMAIN att <=> k \in DOMAIN record) /\ (k \in DOMAIN record => att[k] = OfField(D0(k), record[k]))
  BY <1>2, RereadFromRecord DEF FromRecord, D0
<1>6. CASE Blank(saved.att[k])
  <2>1. k \notin DOMAIN record
    <3>1. k \notin {"REFNO", "id"}
      BY <1>2
    <3> QED
      BY <1>3, <1>4, <1>6, <3>1, SessionFields
  <2>2. Val(att, k) = Invalid
    BY <1>5, <2>1 DEF Val
  <2>3. Meaning(Val(att, k)) = Nowhere
    BY <2>2, InvalidMeansNothing
  <2>4. saved.att[k][1] # "ElementType"
    BY <1>1, <1>4, NoElementsKept DEF Fits
  <2>5. Meaning(saved.att[k]) = Nowhere
    BY <1>6, <2>4 DEF Blank, IsRefU64, refno_value, Meaning
  <2> QED
    BY <2>3, <2>5
<1>7. CASE ~Blank(saved.att[k])
  <2>1. k \in DOMAIN record /\ record[k] = FieldAt(saved.att[k], map)
    <3>1. k \notin {"REFNO", "id"} /\ k \in DOMAIN saved.att \ DOMAIN Udas
      BY <1>2
    <3> QED
      BY <1>3, <1>4, <1>7, <3>1, SessionFields
  <2>2. Val(att, k) = OfField(D0(k), FieldAt(saved.att[k], map))
    BY <1>5, <2>1 DEF Val
  <2> QED
    BY <1>1, <1>4, <1>7, <2>2, SessionMeansTheSame
<1> QED
  BY <1>6, <1>7

LEMMA LatestRefnoReread ==
  ASSUME NamesAreApart, UdasAreTyped, FilesAreTyped, Reread, saved.at = 0
  PROVE  /\ att["REFNO"] = saved.att["REFNO"] /\ get_refno_by_att(att, "REFNO") = get_refno_by_att(saved.att, "REFNO")
<1> DEFINE r == get_refno_by_att(saved.att, "REFNO")
<1>1. Sound(saved.att) /\ Sound(att)
  BY RereadFromRecord
<1>2. record["REFNO"] = Thing(r)
  BY <1>1, RereadFromRecord, LatestIds DEF WrittenBy, Sound
<1>3. att["REFNO"] = OfThing(r)
  BY <1>2, RereadRefno DEF Thing
<1>4. saved.att["REFNO"] = OfThing(r)
  BY <1>1, OwnRefno
<1>5. "REFNO" \in DOMAIN att /\ "REFNO" \in DOMAIN saved.att
  BY <1>1 DEF Sound, HasRefno
<1> QED
  BY <1>3, <1>4, <1>5 DEF get_refno_by_att, Val

LEMMA AttComesBack ==
  ASSUME NamesAreApart, UdasAreTyped, FilesAreTyped, AttInv
  PROVE  AttributesComeBack
<1> SUFFICES ASSUME Loaded, NEW k \in DOMAIN saved.att \ excluded, Survives(saved.att, k)
             PROVE  Meaning(Val(att, k)) = Meaning(saved.att[k])
  BY DEF AttributesComeBack
<1>1. CASE att = saved.att
  BY <1>1 DEF Val
<1>2. CASE att # saved.att
  <2>0. Reread
    BY <1>2 DEF Reread
  <2>1. CASE k = "REFNO" /\ saved.at = 0
    BY <2>0, <2>1, LatestRefnoReread, RereadRefno DEF Val
  <2>2. CASE k = "REFNO" /\ saved.at # 0
    <3> DEFINE r == get_refno_by_att(saved.att, "REFNO")
               e == [refno |-> r.refno, sesno |-> <<saved.at>>]
    <3>1. Sound(saved.att)
      BY <2>0, RereadFromRecord
    <3>2. record["REFNO"] = Thing(e)
      BY <2>0, <2>2, <3>1, RereadFromRecord, SessionIds DEF WrittenBy, Sound
    <3>3. saved.att["REFNO"][1] = "RefU64Type" /\ saved.att["REFNO"][2] # 0
      BY <2>2, <3>1 DEF Survives, Sound, HasRefno
    <3>4. r.refno = saved.att["REFNO"][2]
      BY <3>1, <3>3 DEF get_refno_by_att, Val, Latest, Sound, HasRefno
    <3>5. Val(att, k) = OfThing(e)
      BY <2>0, <2>2, <3>2, RereadRefno DEF Val, Thing
    <3>6. Meaning(OfThing(e)) = <<"element", r.refno>>
      BY DEF OfThing, Meaning
    <3> HIDE DEF r, e
    <3> QED
      BY <2>2, <3>3, <3>4, <3>5, <3>6 DEF Meaning
  <2>3. CASE k # "REFNO" /\ saved.at = 0
    <3>1. /\ k \in DOMAIN att /\ att[k] = Back(D0(k), saved.att[k])
          /\ D0(k) \notin Lossy /\ Fits(D0(k), saved.att[k]) /\ Kept(saved.att[k])
      BY <2>0, <2>3, LatestReread
    <3> QED
      BY <3>1, BackIsAlike DEF Val
  <2>4. CASE k # "REFNO" /\ saved.at # 0
    BY <2>0, <2>4, SessionReread
  <2> QED
    BY <2>1, <2>2, <2>3, <2>4
<1> QED
  BY <1>1, <1>2

(* Where a value is looked at by its variant, what comes back is the same.  *)
LEMMA BackReads ==
  ASSUME NEW D, NEW v, D \notin Lossy, Fits(D, v), Kept(v), NEW u, u = Back(D, v)
  PROVE  /\ u[1] \in {"F32VecType", "Vec3Type"} <=> v[1] \in {"F32VecType", "Vec3Type"}
         /\ u[1] \in {"F32VecType", "Vec3Type"} => u[2] = v[2]
         /\ u[1] \in {"StringType", "WordType", "ElementType"} <=> v[1] \in {"StringType", "WordType", "ElementType"}
         /\ u[1] \in {"StringType", "WordType", "ElementType"} => u[2] = v[2]
         /\ v[1] = "Vec3Type" => u[1] = "Vec3Type"
         /\ v[1] = "InvalidType" => u[1] # "Vec3Type"
<1>0. v[1] \in Variants(D)
  BY DEF Fits
<1>1. CASE D = "WordType"
  <2>1. v[1] \in {"StringType", "WordType"} /\ u = <<"WordType", v[2]>>
    BY <1>0, <1>1 DEF Variants, Back
  <2> QED
    BY <2>1
<1>2. CASE D = "Vec3Type"
  <2>1. v[1] \in {"F32VecType", "Vec3Type"} /\ u = <<"Vec3Type", v[2]>>
    BY <1>0, <1>2 DEF Variants, Back
  <2> QED
    BY <2>1
<1>3. CASE D = "RefU64Array"
  <2>1. v[1] = "RefU64Array" /\ u[1] = "RefU64Array"
    BY <1>0, <1>3 DEF Variants, Back
  <2> QED
    BY <2>1
<1>4. CASE D \notin {"WordType", "Vec3Type", "RefU64Array"}
  <2>1. u = v
    BY <1>4 DEF Back
  <2> QED
    BY <2>1
<1> QED
  BY <1>1, <1>2, <1>3, <1>4

(* The attributes a hash depends on are there again, and read alike.        *)
Alike(a, b, k) ==
  /\ k \in DOMAIN a <=> k \in DOMAIN b
  /\ get_as_string(a, k) = get_as_string(b, k)
  /\ get_f32_vec(a, k) = get_f32_vec(b, k)
  /\ get_str_or_default(a, k) = get_str_or_default(b, k)
  /\ Val(b, k)[1] \in {"Vec3Type", "InvalidType"} => get_vec3(a, k) = get_vec3(b, k)

LEMMA HashedAlike ==
  ASSUME NamesAreApart, UdasAreTyped, FilesAreTyped, Reread, saved.at = 0, excluded = {}, NEW k \in Hashed,
         k \in DOMAIN saved.att => Survives(saved.att, k)
  PROVE  Alike(att, saved.att, k)
<1>0. k \notin {"REFNO", "id"} /\ k \notin OfEveryNoun
  BY DEF Hashed, OfEveryNoun
<1>1. CASE k \in DOMAIN saved.att
  <2> DEFINE v == saved.att[k]
             u == att[k]
  <2>1. /\ k \in DOMAIN att /\ u = Back(D0(k), v)
        /\ D0(k) \notin Lossy /\ Fits(D0(k), v) /\ Kept(v)
    BY <1>0, <1>1, LatestReread
  <2>2. TextOf(u) = TextOf(v)
    BY <2>1, BackIsAlike
  <2> HIDE DEF u, v
  <2>3. /\ u[1] \in {"F32VecType", "Vec3Type"} <=> v[1] \in {"F32VecType", "Vec3Type"}
        /\ u[1] \in {"F32VecType", "Vec3Type"} => u[2] = v[2]
        /\ u[1] \in {"StringType", "WordType", "ElementType"} <=> v[1] \in {"StringType", "WordType", "ElementType"}
        /\ u[1] \in {"StringType", "WordType", "ElementType"} => u[2] = v[2]
        /\ v[1] = "Vec3Type" => u[1] = "Vec3Type"
        /\ v[1] = "InvalidType" => u[1] # "Vec3Type"
    BY <2>1, BackReads
  <2>4. Val(att, k) = u /\ Val(saved.att, k) = v
    BY <1>1, <2>1 DEF Val, u, v
  <2>5. get_as_string(att, k) = get_as_string(saved.att, k)
    BY <1>1, <2>1, <2>2 DEF get_as_string, u, v
  <2>6. get_f32_vec(att, k) = get_f32_vec(saved.att, k)
    <3>1. get_f32_vec(att, k) = IF u[1] \in {"F32VecType", "Vec3Type"} THEN u[2] ELSE <<>>
      BY <2>4 DEF get_f32_vec, u
    <3>2. get_f32_vec(saved.att, k) = IF v[1] \in {"F32VecType", "Vec3Type"} THEN v[2] ELSE <<>>
      BY <2>4 DEF get_f32_vec, v
    <3> QED
      BY <2>3, <3>1, <3>2
  <2>7. get_str_or_default(att, k) = get_str_or_default(saved.att, k)
    <3>1. get_str_or_default(att, k) = IF u[1] \in {"StringType", "WordType", "ElementType"} THEN u[2] ELSE UNSET_STR
      BY <2>4 DEF get_str_or_default, u
    <3>2. get_str_or_default(saved.att, k) = IF v[1] \in {"StringType", "WordType", "ElementType"} THEN v[2] ELSE UNSET_STR
      BY <2>4 DEF get_str_or_default, v
    <3> QED
      BY <2>3, <3>1, <3>2
  <2>8. v[1] \in {"Vec3Type", "InvalidType"} => get_vec3(att, k) = get_vec3(saved.att, k)
    <3>1. get_vec3(att, k) = IF u[1] = "Vec3Type" THEN u[2] ELSE <<0, 0, 0>>
      BY <2>4 DEF get_vec3, u
    <3>2. get_vec3(saved.att, k) = IF v[1] = "Vec3Type" THEN v[2] ELSE <<0, 0, 0>>
      BY <2>4 DEF get_vec3, v
    <3> QED
      BY <2>3, <3>1, <3>2
  <2> QED
    BY <1>1, <2>1, <2>4, <2>5, <2>6, <2>7, <2>8 DEF Alike
<1>2. CASE k \notin DOMAIN saved.att
  <2>1. k \notin DOMAIN att
    <3>1. CASE D0(k) = "nothing known"
      <4>1. k \notin Named(DOMAIN Udas)
        BY DEF UdasAreTyped
      <4> QED
        BY <3>1, <4>1, RereadFromRecord DEF FromRecord, D0
    <3>2. CASE D0(k) # "nothing known"
      <4>1. k \notin DOMAIN record
        BY <1>0, <1>2, RereadFromRecord DEF RecordOf
      <4> QED
        BY <3>2, <4>1, RereadFromRecord DEF FromRecord, D0
    <3> QED
      BY <3>1, <3>2
  <2>2. Val(att, k) = Invalid /\ Val(saved.att, k) = Invalid
    BY <1>2, <2>1 DEF Val
  <2>3. /\ get_as_string(att, k) = get_as_string(saved.att, k) /\ get_f32_vec(att, k) = get_f32_vec(saved.att, k)
        /\ get_str_or_default(att, k) = get_str_or_default(saved.att, k) /\ get_vec3(att, k) = get_vec3(saved.att, k)
    <3>1. Invalid[1] = "InvalidType"
      BY DEF Invalid
    <3>2. get_as_string(att, k) = <<"text", UNSET_STR>> /\ get_as_string(saved.att, k) = <<"text", UNSET_STR>>
      BY <1>2, <2>1 DEF get_as_string
    <3>3. get_f32_vec(att, k) = <<>> /\ get_f32_vec(saved.att, k) = <<>>
      BY <2>2, <3>1 DEF get_f32_vec
    <3>4. get_str_or_default(att, k) = UNSET_STR /\ get_str_or_default(saved.att, k) = UNSET_STR
      BY <2>2, <3>1 DEF get_str_or_default
    <3>5. get_vec3(att, k) = <<0, 0, 0>> /\ get_vec3(saved.att, k) = <<0, 0, 0>>
      BY <2>2, <3>1 DEF get_vec3
    <3> QED
      BY <3>2, <3>3, <3>4, <3>5
  <2> QED
    BY <1>2, <2>1, <2>3 DEF Alike
<1> QED
  BY <1>1, <1>2

LEMMA SameHash ==
  ASSUME NEW a, NEW b, get_type(a) = get_type(b), get_refno_by_att(a, "REFNO") = get_refno_by_att(b, "REFNO"),
         \A k \in Hashed : Alike(a, b, k), EndsAreRead(b)
  PROVE  cal_cata_hash(a) = cal_cata_hash(b)
<1>1. /\ Alike(a, b, "SPRE") /\ Alike(a, b, "CATR") /\ Alike(a, b, "DESP") /\ Alike(a, b, "ANGL") /\ Alike(a, b, "HEIG")
      /\ Alike(a, b, "RADI") /\ Alike(a, b, "DRNS") /\ Alike(a, b, "DRNE") /\ Alike(a, b, "POSS") /\ Alike(a, b, "POSE")
      /\ Alike(a, b, "JUSL")
  BY DEF Hashed
<1>2. Ends(a) = Ends(b)
  <2>1. {"DRNS", "DRNE"} \subseteq DOMAIN a <=> {"DRNS", "DRNE"} \subseteq DOMAIN b
    BY <1>1 DEF Alike
  <2>2. CASE {"DRNS", "DRNE"} \subseteq DOMAIN b
    <3>1. get_vec3(a, "POSS") = get_vec3(b, "POSS") /\ get_vec3(a, "POSE") = get_vec3(b, "POSE")
      BY <1>1, <2>2 DEF Alike, EndsAreRead
    <3>2. Distance(a) = Distance(b)
      BY <3>1, Zenon DEF Distance
    <3>3. get_as_string(a, "DRNS") = get_as_string(b, "DRNS") /\ get_as_string(a, "DRNE") = get_as_string(b, "DRNE")
      BY <1>1 DEF Alike
    <3> QED
      BY <2>1, <2>2, <3>2, <3>3 DEF Ends
  <2>3. CASE ~({"DRNS", "DRNE"} \subseteq DOMAIN b)
    BY <2>1, <2>3 DEF Ends
  <2> QED
    BY <2>2, <2>3
<1>3. /\ get_f32_vec(a, "DESP") = get_f32_vec(b, "DESP") /\ get_as_string(a, "ANGL") = get_as_string(b, "ANGL")
      /\ get_as_string(a, "HEIG") = get_as_string(b, "HEIG") /\ get_as_string(a, "RADI") = get_as_string(b, "RADI")
      /\ get_str_or_default(a, "JUSL") = get_str_or_default(b, "JUSL")
      /\ get_as_string(a, "SPRE") = get_as_string(b, "SPRE") /\ get_as_string(a, "CATR") = get_as_string(b, "CATR")
      /\ ("SPRE" \in DOMAIN a <=> "SPRE" \in DOMAIN b) /\ ("CATR" \in DOMAIN a <=> "CATR" \in DOMAIN b)
  BY <1>1 DEF Alike
<1> QED
  BY <1>2, <1>3 DEF cal_cata_hash

LEMMA HashComesBack ==
  ASSUME NamesAreApart, UdasAreTyped, FilesAreTyped, AttInv
  PROVE  CataHashComesBack
<1> SUFFICES ASSUME Loaded, saved.at = 0, excluded = {}, EndsAreRead(saved.att),
                    \A k \in DOMAIN saved.att \intersect Hashed : Survives(saved.att, k)
             PROVE  cal_cata_hash(att) = row[1].cata_hash
  BY DEF CataHashComesBack
<1>1. row[1].cata_hash = cal_cata_hash(saved.att)
  BY DEF AttInv
<1>2. CASE att = saved.att
  BY <1>1, <1>2
<1>3. CASE att # saved.att
  <2>1. Reread
    BY <1>3 DEF Reread
  <2>2. \A k \in Hashed : Alike(att, saved.att, k)
    BY <2>1, HashedAlike
  <2>3. get_type(att) = get_type(saved.att)
    BY <2>1, RereadFromRecord DEF FromRecord
  <2>4. get_refno_by_att(att, "REFNO") = get_refno_by_att(saved.att, "REFNO")
    BY <2>1, LatestRefnoReread
  <2> QED
    BY <1>1, <2>2, <2>3, <2>4, SameHash
<1> QED
  BY <1>2, <1>3

LEMMA SavesAlike ==
  ASSUME NamesAreApart, UdasAreTyped, FilesAreTyped, AttInv
  PROVE  SavingAgainChangesNothing
<1> DEFINE again == gen_sur_json_exclude(att, {})
<1> SUFFICES ASSUME Loaded, saved.at = 0, excluded = {}, NEW k \in DOMAIN again \ Named(DOMAIN Udas),
                    k \notin DOMAIN saved.att \/ Survives(saved.att, k)
             PROVE  again[k] = record[k]
  BY DEF SavingAgainChangesNothing
<1>1. CASE att = saved.att
  BY <1>1 DEF AttInv, WrittenBy
<1>2. CASE att # saved.att
  <2>1. Reread
    BY <1>2 DEF Reread
  <2>2. /\ Sound(saved.att) /\ Sound(att) /\ record = gen_sur_json_exclude(saved.att, {})
        /\ FromRecord(att, record, get_type(saved.att))
    BY <2>1, RereadFromRecord DEF WrittenBy
  <2>3. get_refno_by_att(att, "REFNO") = get_refno_by_att(saved.att, "REFNO")
    BY <2>1, LatestRefnoReread
  <2>4. CASE k = "REFNO"
    BY <2>2, <2>3, <2>4, LatestIds DEF Sound
  <2>5. CASE k = "id"
    <3>1. Declared(get_type(saved.att), "id") = "nothing known"
      BY KnownKeys
    <3>2. "id" \notin DOMAIN saved.att
      BY <2>5, <3>1 DEF Survives, Lossy
    <3>3. "id" \notin DOMAIN att
      BY <2>2, <2>5, <3>1 DEF FromRecord
    <3> QED
      BY <2>2, <2>3, <2>5, <3>2, <3>3, LatestIds DEF Sound
  <2>6. CASE k \notin {"REFNO", "id"}
    <3>1. k \in DOMAIN att /\ again[k] = Field(att[k])
      BY <2>2, <2>6, LatestFields DEF Sound
    <3>2. Declared(get_type(saved.att), k) # "nothing known"
      BY <2>2, <3>1 DEF FromRecord
    <3>3. k \in DOMAIN record
      BY <2>2, <3>1, <3>2 DEF FromRecord
    <3>4. k \in DOMAIN saved.att
      BY <2>2, <2>6, <3>3, LatestFields DEF Sound
    <3>5. Survives(saved.att, k) /\ k \in DOMAIN saved.att \ excluded
      BY <3>4
    <3>6. /\ att[k] = Back(D0(k), saved.att[k]) /\ record[k] = Field(saved.att[k])
          /\ D0(k) \notin Lossy /\ Fits(D0(k), saved.att[k]) /\ Kept(saved.att[k])
      BY <2>1, <2>6, <3>5, LatestReread
    <3> QED
      BY <3>1, <3>6, BackIsAlike
  <2> QED
    BY <2>4, <2>5, <2>6
<1> QED
  BY <1>1, <1>2

LEMMA AttAlways ==
  ASSUME NamesAreApart, UdasAreTyped, FilesAreTyped
  PROVE  AttrSpec => []AttInv
<1>1. AttrInit => AttInv
  BY DEF AttrInit, AttInv, RowInv, WholeInv, Nothing, Loaded
<1>2. AttInv /\ [AttrNext]_attrVars => AttInv'
  BY AttStep
<1> QED
  BY <1>1, <1>2, PTL DEF AttrSpec

(* An attribute that is loaded means what it meant when it was saved, for   *)
(* any elements, nouns, dictionary and sessions, in whichever form it was   *)
(* saved and after any number of saves and loads.                           *)
THEOREM SavedAttributesComeBack ==
  NamesAreApart /\ UdasAreTyped /\ FilesAreTyped => (AttrSpec => []AttributesComeBack)
<1> SUFFICES ASSUME NamesAreApart, UdasAreTyped, FilesAreTyped PROVE AttrSpec => []AttributesComeBack
  OBVIOUS
<1>1. AttrSpec => []AttInv
  BY AttAlways
<1>2. AttInv => AttributesComeBack
  BY AttComesBack
<1> QED
  BY <1>1, <1>2, PTL

(* A loaded element keeps the hash it shares its catalogue geometry by.     *)
THEOREM LoadedKeepsItsHash ==
  NamesAreApart /\ UdasAreTyped /\ FilesAreTyped => (AttrSpec => []CataHashComesBack)
<1> SUFFICES ASSUME NamesAreApart, UdasAreTyped, FilesAreTyped PROVE AttrSpec => []CataHashComesBack
  OBVIOUS
<1>1. AttrSpec => []AttInv
  BY AttAlways
<1>2. AttInv => CataHashComesBack
  BY HashComesBack
<1> QED
  BY <1>1, <1>2, PTL

(* Saving what was loaded writes the record that is there already.          *)
THEOREM RecordsDoNotDecay ==
  NamesAreApart /\ UdasAreTyped /\ FilesAreTyped => (AttrSpec => []SavingAgainChangesNothing)
<1> SUFFICES ASSUME NamesAreApart, UdasAreTyped, FilesAreTyped PROVE AttrSpec => []SavingAgainChangesNothing
  OBVIOUS
<1>1. AttrSpec => []AttInv
  BY AttAlways
<1>2. AttInv => SavingAgainChangesNothing
  BY SavesAlike
<1> QED
  BY <1>1, <1>2, PTL
=============================================================================
