---------------------------- MODULE PbsTree_proofs ----------------------------
(***************************************************************************)
(* What holds of the plant breakdown structure of any projects, for any    *)
(* number of jobs and of failing calls: following the owners of its rows   *)
(* always ends; and after a run without failures it ends at the root, or   *)
(* where the code leaves a row alone for a reason, and owners list their   *)
(* rows.                                                                   *)
(***************************************************************************)
EXTENDS ProjectBatch, SequenceTheorems, FiniteSetTheorems, WellFoundedInduction, TLAPS

-----------------------------------------------------------------------------
(* Numbers.                                                                 *)

LEMMA Least ==
  ASSUME NEW T, T \subseteq Nat, T # {}
  PROVE  \E n \in T : \A m \in T : n <= m
<1> DEFINE R == OpToRel(<, Nat)
<1>1. IsWellFoundedOn(R, Nat)
  BY NatLessThanWellFounded
<1>2. \A x, y \in Nat : x < y => <<x, y>> \in R
  BY DEF OpToRel
<1> HIDE DEF R
<1>3. \E x \in T : \A y \in T : ~(<<y, x>> \in R)
  BY <1>1, WFMin
<1>4. \E x \in T : \A y \in T : ~(y < x)
  BY <1>2, <1>3
<1> QED BY <1>4

LEMMA SetInduction ==
  ASSUME NEW T, 0 \in T, \A n \in Nat : n \in T => n + 1 \in T
  PROVE  Nat \subseteq T
<1> DEFINE C == Nat \ T
<1> SUFFICES ASSUME C # {} PROVE FALSE
  OBVIOUS
<1>1. PICK n \in C : \A m \in C : n <= m
  <2> HIDE DEF C
  <2>1. C \subseteq Nat
    BY DEF C
  <2> QED BY <2>1, Least
<1>2. n # 0 /\ n - 1 \in Nat /\ n - 1 \notin C
  BY <1>1
<1> QED BY <1>2

-----------------------------------------------------------------------------
(* A list of lists, one after the other.                                    *)

Joined(fl, ss, n) == fl = [i \in 1 .. n |-> IF i = 1 THEN ss[i] ELSE fl[i - 1] \o ss[i]]

LEMMA JoinedExists ==
  ASSUME NEW ss
  PROVE  \A n \in Nat : \E fl : Joined(fl, ss, n)
<1> DEFINE T == {n \in Nat : \E fl : Joined(fl, ss, n)}
<1>1. 0 \in T
  <2>1. Joined([i \in 1 .. 0 |-> ss[i]], ss, 0)
    BY DEF Joined
  <2> QED BY <2>1
<1>2. ASSUME NEW n \in Nat, n \in T PROVE n + 1 \in T
  <2>1. PICK fl : Joined(fl, ss, n)
    BY <1>2
  <2> DEFINE next == IF n = 0 THEN ss[1] ELSE fl[n] \o ss[n + 1]
             z == [i \in 1 .. n + 1 |-> IF i = n + 1 THEN next ELSE fl[i]]
  <2>2. ASSUME NEW i \in 1 .. n + 1 PROVE z[i] = IF i = 1 THEN ss[i] ELSE z[i - 1] \o ss[i]
    <3>1. CASE i = n + 1
      <4>1. z[i] = next
        BY <3>1
      <4>2. CASE n = 0
        BY <3>1, <4>1, <4>2
      <4>3. CASE n # 0
        <5>1. z[i - 1] = fl[n] /\ i - 1 = n /\ i # 1
          BY <3>1, <4>3
        <5> QED BY <3>1, <4>1, <4>3, <5>1
      <4> QED BY <4>2, <4>3
    <3>2. CASE i # n + 1
      <4>1. i \in 1 .. n /\ z[i] = fl[i]
        BY <3>2
      <4>2. i # 1 => i - 1 \in 1 .. n /\ z[i - 1] = fl[i - 1]
        BY <4>1
      <4>3. fl[i] = IF i = 1 THEN ss[i] ELSE fl[i - 1] \o ss[i]
        BY <2>1, <4>1 DEF Joined
      <4> QED BY <4>1, <4>2, <4>3
    <3> QED BY <3>1, <3>2
  <2>3. DOMAIN z = 1 .. n + 1 /\ z = [i \in 1 .. n + 1 |-> z[i]]
    OBVIOUS
  <2> HIDE DEF z
  <2>4. Joined(z, ss, n + 1)
    BY <2>2, <2>3 DEF Joined
  <2> QED BY <2>4
<1> HIDE DEF T
<1>3. Nat \subseteq T
  BY <1>1, <1>2, SetInduction
<1> QED BY <1>3 DEF T

\* Where the pieces begin: their members are there, in order, and no others.
Offsets(b, flat, ss) ==
  /\ b \in [DOMAIN ss -> Nat]
  /\ \A k \in DOMAIN ss : \A o \in DOMAIN ss[k] :
       b[k] + o \in DOMAIN flat /\ flat[b[k] + o] = ss[k][o]
  /\ \A i \in DOMAIN flat : \E k \in DOMAIN ss : \E o \in DOMAIN ss[k] : i = b[k] + o
  /\ \A j, k \in DOMAIN ss : j < k => b[j] + Len(ss[j]) <= b[k]

LEMMA Flattened ==
  ASSUME NEW S, NEW ss \in Seq(Seq(S))
  PROVE  /\ FlattenSeq(ss) \in Seq(S)
         /\ \E b : Offsets(b, FlattenSeq(ss), ss)
<1> DEFINE N == Len(ss)
<1>1. N \in Nat /\ DOMAIN ss = 1 .. N /\ \A k \in 1 .. N : ss[k] \in Seq(S)
  BY LenProperties, ElementOfSeq
<1> HIDE DEF N
<1>2. CASE N = 0
  <2>1. ss = <<>>
    BY <1>2, EmptySeq DEF N
  <2>2. FlattenSeq(ss) = <<>>
    BY <1>2, <2>1 DEF FlattenSeq, N
  <2>3. Offsets(<<>>, <<>>, <<>>)
    BY DEF Offsets
  <2>4. <<>> \in Seq(S)
    BY EmptySeq
  <2> QED BY <2>1, <2>2, <2>3, <2>4
<1>3. CASE N # 0
  <2> DEFINE fl == CHOOSE f : Joined(f, ss, N)
             b == [k \in 1 .. N |-> IF k = 1 THEN 0 ELSE Len(fl[k - 1])]
             P(n) == /\ fl[n] \in Seq(S)
                     /\ \A k \in 1 .. n : \A o \in 1 .. Len(ss[k]) :
                          b[k] + o \in 1 .. Len(fl[n]) /\ fl[n][b[k] + o] = ss[k][o]
                     /\ \A i \in 1 .. Len(fl[n]) : \E k \in 1 .. n : \E o \in 1 .. Len(ss[k]) : i = b[k] + o
                     /\ \A k \in 1 .. n : b[k] \in Nat /\ b[k] + Len(ss[k]) <= Len(fl[n])
             T == {n \in Nat : n \in 1 .. N => P(n)}
  <2>1. Joined(fl, ss, N)
    BY <1>1, JoinedExists
  <2>2. FlattenSeq(ss) = fl[N]
    BY <1>3 DEF FlattenSeq, Joined, N
  <2>3. \A n \in 1 .. N : fl[n] = IF n = 1 THEN ss[n] ELSE fl[n - 1] \o ss[n]
    BY <2>1 DEF Joined
  <2> HIDE DEF fl
  <2>4. \A k \in 1 .. N : b[k] = IF k = 1 THEN 0 ELSE Len(fl[k - 1])
    OBVIOUS
  <2>5. b = [k \in 1 .. N |-> b[k]]
    OBVIOUS
  <2> HIDE DEF b, P
  <2>6. 0 \in T
    BY <1>1
  <2>7. ASSUME NEW n \in Nat, n \in T PROVE n + 1 \in T
    <3> SUFFICES ASSUME n + 1 \in 1 .. N PROVE P(n + 1)
      OBVIOUS
    <3>0. n \in 1 .. N => P(n)
      BY <2>7
    <3> HIDE DEF T
    <3>1. CASE n = 0
      <4>1. fl[1] = ss[1] /\ b[1] = 0 /\ ss[1] \in Seq(S)
        BY <1>1, <2>3, <2>4, <3>1
      <4>2. Len(ss[1]) \in Nat
        BY <4>1, LenProperties
      <4> QED BY <3>1, <4>1, <4>2 DEF P
    <3>2. CASE n # 0
      <4>0. n \in 1 .. N /\ P(n)
        BY <1>1, <3>0, <3>2
      <4>1. /\ fl[n] \in Seq(S)
            /\ \A k \in 1 .. n : \A o \in 1 .. Len(ss[k]) :
                 b[k] + o \in 1 .. Len(fl[n]) /\ fl[n][b[k] + o] = ss[k][o]
            /\ \A i \in 1 .. Len(fl[n]) : \E k \in 1 .. n : \E o \in 1 .. Len(ss[k]) : i = b[k] + o
            /\ \A k \in 1 .. n : b[k] \in Nat /\ b[k] + Len(ss[k]) <= Len(fl[n])
        BY <4>0 DEF P
      <4>2. fl[n + 1] = fl[n] \o ss[n + 1] /\ b[n + 1] = Len(fl[n]) /\ ss[n + 1] \in Seq(S)
        <5>1. n + 1 # 1 /\ (n + 1) - 1 = n
          BY <3>2
        <5>2. fl[n + 1] = fl[n] \o ss[n + 1]
          BY <2>3, <5>1
        <5>3. b[n + 1] = Len(fl[n])
          BY <2>4, <5>1
        <5> QED BY <1>1, <5>2, <5>3
      <4> DEFINE l == Len(fl[n])  m == Len(ss[n + 1])
      <4>3. l \in Nat /\ m \in Nat
        <5>1. fl[n] \in Seq(S)
          BY <4>1
        <5> QED BY <4>2, <5>1, LenProperties
      <4>4. /\ fl[n + 1] \in Seq(S) /\ Len(fl[n + 1]) = l + m
            /\ \A i \in 1 .. l + m : fl[n + 1][i] = IF i <= l THEN fl[n][i] ELSE ss[n + 1][i - l]
        <5>1. fl[n] \in Seq(S)
          BY <4>1
        <5> HIDE DEF l, m
        <5>2. l = Len(fl[n]) /\ m = Len(ss[n + 1])
          BY DEF l, m
        <5> DEFINE f == fl[n]  g == ss[n + 1]
        <5>3. f \in Seq(S) /\ g \in Seq(S) /\ fl[n + 1] = f \o g /\ l = Len(f) /\ m = Len(g)
          BY <4>2, <5>1, <5>2
        <5> HIDE DEF f, g
        <5>4. /\ f \o g \in Seq(S) /\ Len(f \o g) = l + m
              /\ \A i \in 1 .. l + m : (f \o g)[i] = IF i <= l THEN f[i] ELSE g[i - l]
          BY <5>3, ConcatProperties
        <5> QED BY <5>3, <5>4 DEF f, g
      <4> HIDE DEF l, m
      <4>5. ASSUME NEW k \in 1 .. n + 1, NEW o \in 1 .. Len(ss[k])
            PROVE  b[k] + o \in 1 .. Len(fl[n + 1]) /\ fl[n + 1][b[k] + o] = ss[k][o]
        <5>1. CASE k = n + 1
          <6>1. o \in 1 .. m /\ b[k] = l
            BY <4>2, <5>1 DEF l, m
          <6>2. l + o \in 1 .. l + m /\ ~(l + o <= l) /\ (l + o) - l = o
            BY <4>3, <6>1
          <6> QED BY <4>4, <5>1, <6>1, <6>2
        <5>2. CASE k # n + 1
          <6>1. k \in 1 .. n
            BY <5>2
          <6>2. b[k] + o \in 1 .. l /\ fl[n][b[k] + o] = ss[k][o]
            BY <4>1, <6>1 DEF l
          <6>3. b[k] + o \in 1 .. l + m /\ b[k] + o <= l
            BY <4>3, <6>2
          <6> QED BY <4>4, <6>2, <6>3
        <5> QED BY <5>1, <5>2
      <4>6. ASSUME NEW i \in 1 .. Len(fl[n + 1])
            PROVE  \E k \in 1 .. n + 1 : \E o \in 1 .. Len(ss[k]) : i = b[k] + o
        <5>1. CASE i <= l
          <6>1. i \in 1 .. l
            BY <4>3, <4>4, <5>1
          <6>2. PICK k \in 1 .. n : \E o \in 1 .. Len(ss[k]) : i = b[k] + o
            BY <4>1, <6>1 DEF l
          <6>3. k \in 1 .. n + 1
            OBVIOUS
          <6> QED BY <6>2, <6>3
        <5>2. CASE ~(i <= l)
          <6>1. i - l \in 1 .. m /\ i = l + (i - l)
            BY <4>3, <4>4, <5>2
          <6>2. n + 1 \in 1 .. n + 1 /\ b[n + 1] = l /\ Len(ss[n + 1]) = m
            BY <4>2 DEF l, m
          <6> QED BY <6>1, <6>2
        <5> QED BY <5>1, <5>2
      <4>7. ASSUME NEW k \in 1 .. n + 1
            PROVE  b[k] \in Nat /\ b[k] + Len(ss[k]) <= Len(fl[n + 1])
        <5>1. CASE k = n + 1
          <6>1. b[k] = l /\ Len(ss[k]) = m
            BY <4>2, <5>1 DEF l, m
          <6> QED BY <4>3, <4>4, <6>1
        <5>2. CASE k # n + 1
          <6>1. k \in 1 .. n /\ k \in 1 .. N
            BY <1>1, <4>0, <5>2
          <6>2. b[k] \in Nat /\ b[k] + Len(ss[k]) <= l
            BY <4>1, <6>1 DEF l
          <6>3. Len(ss[k]) \in Nat
            BY <1>1, <6>1, LenProperties
          <6> QED BY <4>3, <4>4, <6>2, <6>3
        <5> QED BY <5>1, <5>2
      <4> QED BY <4>4, <4>5, <4>6, <4>7 DEF P
    <3> QED BY <3>1, <3>2
  <2>8. \A n \in 1 .. N : P(n)
    <3>1. Nat \subseteq T
      <4> HIDE DEF T
      <4> QED BY <2>6, <2>7, SetInduction
    <3> QED BY <1>1, <3>1
  <2>9. fl[N] \in Seq(S)
    BY <1>1, <1>3, <2>8 DEF P
  <2>10. Offsets(b, fl[N], ss)
    <3>0. P(N)
      BY <1>1, <1>3, <2>8
    <3>1. /\ DOMAIN fl[N] = 1 .. Len(fl[N])
          /\ \A k \in 1 .. N : \A o \in 1 .. Len(ss[k]) :
                 b[k] + o \in 1 .. Len(fl[N]) /\ fl[N][b[k] + o] = ss[k][o]
          /\ \A i \in 1 .. Len(fl[N]) : \E k \in 1 .. N : \E o \in 1 .. Len(ss[k]) : i = b[k] + o
          /\ \A k \in 1 .. N : b[k] \in Nat
      BY <2>9, <3>0, LenProperties DEF P
    <3>2. \A k \in 1 .. N : DOMAIN ss[k] = 1 .. Len(ss[k]) /\ b[k] \in Nat
      BY <1>1, <3>1, LenProperties
    <3>3. b \in [1 .. N -> Nat]
      BY <2>5, <3>2
    <3>4. ASSUME NEW j \in 1 .. N, NEW k \in 1 .. N, j < k PROVE b[j] + Len(ss[j]) <= b[k]
      <4>1. k - 1 \in 1 .. N /\ j \in 1 .. k - 1 /\ b[k] = Len(fl[k - 1])
        BY <1>1, <2>4, <3>4
      <4>2. P(k - 1)
        BY <2>8, <4>1
      <4> QED BY <4>1, <4>2 DEF P
    <3> HIDE DEF P
    <3>5. b \in [DOMAIN ss -> Nat]
      BY <1>1, <3>3
    <3>6. \A k \in DOMAIN ss : \A o \in DOMAIN ss[k] :
            b[k] + o \in DOMAIN fl[N] /\ fl[N][b[k] + o] = ss[k][o]
      BY <1>1, <3>1, <3>2
    <3>7. ASSUME NEW i \in DOMAIN fl[N] PROVE \E k \in DOMAIN ss : \E o \in DOMAIN ss[k] : i = b[k] + o
      <4>1. PICK k \in 1 .. N : \E o \in 1 .. Len(ss[k]) : i = b[k] + o
        BY <3>1
      <4>2. k \in DOMAIN ss /\ DOMAIN ss[k] = 1 .. Len(ss[k])
        BY <1>1, <3>2
      <4> QED BY <4>1, <4>2
    <3>8. \A j, k \in DOMAIN ss : j < k => b[j] + Len(ss[j]) <= b[k]
      BY <1>1, <3>4
    <3> QED BY <3>5, <3>6, <3>7, <3>8 DEF Offsets
  <2> QED BY <2>2, <2>9, <2>10
<1> QED BY <1>2, <1>3
-----------------------------------------------------------------------------
(* Lists.                                                                   *)

LEMMA ListsAreSeqs ==
  ASSUME NEW s, NEW S, s \in Seq(S)
  PROVE  IsList(s)
<1>1. Len(s) \in Nat /\ DOMAIN s = 1 .. Len(s) /\ s \in [1 .. Len(s) -> S]
  BY LenProperties
<1>2. s \in [1 .. Len(s) -> Range(s)]
  BY <1>1 DEF Range
<1> QED BY <1>1, <1>2, SeqDef DEF IsList

LEMMA ListIs ==
  ASSUME NEW s, IsList(s)
  PROVE  /\ Len(s) \in Nat /\ DOMAIN s = 1 .. Len(s)
         /\ s = [i \in 1 .. Len(s) |-> s[i]]
         /\ \A i \in 1 .. Len(s) : s[i] \in Range(s)
<1>1. Len(s) \in Nat /\ DOMAIN s = 1 .. Len(s) /\ s \in [1 .. Len(s) -> Range(s)]
  BY LenProperties DEF IsList
<1> QED BY <1>1

LEMMA FunctionsAreLists ==
  ASSUME NEW n \in Nat, NEW s, DOMAIN s = 1 .. n, s = [i \in 1 .. n |-> s[i]]
  PROVE  IsList(s) /\ Len(s) = n
<1>1. s \in [1 .. n -> Range(s)]
  BY DEF Range
<1>2. IsList(s)
  BY <1>1, SeqDef DEF IsList
<1>3. Len(s) \in Nat /\ 1 .. Len(s) = 1 .. n
  BY <1>2, ListIs
<1> QED BY <1>2, <1>3

LEMMA EmptyList == IsList(<<>>) /\ Range(<<>>) = {}
BY EmptySeq DEF IsList, Range

LEMMA OneList ==
  ASSUME NEW e
  PROVE  IsList(<<e>>) /\ Range(<<e>>) = {e} /\ Len(<<e>>) = 1 /\ <<e>>[1] = e
<1>1. <<e>> \in Seq({e}) /\ Len(<<e>>) = 1 /\ <<e>>[1] = e /\ DOMAIN <<e>> = {1}
  OBVIOUS
<1>2. Range(<<e>>) = {e}
  BY <1>1 DEF Range
<1> QED BY <1>1, <1>2 DEF IsList

LEMMA BothLists ==
  ASSUME NEW s, NEW t, IsList(s), IsList(t)
  PROVE  IsList(s \o t) /\ Range(s \o t) = Range(s) \union Range(t)
<1> DEFINE S == Range(s) \union Range(t)
<1>1. s \in Seq(S) /\ t \in Seq(S)
  BY SeqMonotonic DEF IsList
<1> HIDE DEF S
<1> DEFINE l == Len(s)  m == Len(t)
<1>2. l \in Nat /\ m \in Nat /\ DOMAIN s = 1 .. l /\ DOMAIN t = 1 .. m
  BY ListIs
<1>3. /\ s \o t \in Seq(S) /\ Len(s \o t) = l + m
      /\ \A i \in 1 .. l + m : (s \o t)[i] = IF i <= l THEN s[i] ELSE t[i - l]
  BY <1>1, ConcatProperties
<1>4. IsList(s \o t)
  BY <1>3, ListsAreSeqs
<1>5. DOMAIN (s \o t) = 1 .. l + m
  BY <1>3, <1>4, ListIs
<1> HIDE DEF l, m
<1>6. ASSUME NEW i \in 1 .. l + m PROVE (s \o t)[i] \in Range(s) \union Range(t)
  <2>1. CASE i <= l
    <3>1. i \in DOMAIN s /\ (s \o t)[i] = s[i]
      BY <1>2, <1>3, <2>1
    <3> QED BY <3>1 DEF Range
  <2>2. CASE ~(i <= l)
    <3>1. i - l \in DOMAIN t /\ (s \o t)[i] = t[i - l]
      BY <1>2, <1>3, <2>2
    <3> QED BY <3>1 DEF Range
  <2> QED BY <2>1, <2>2
<1>7. ASSUME NEW i \in DOMAIN s PROVE s[i] \in Range(s \o t)
  <2>1. i \in 1 .. l + m /\ (s \o t)[i] = s[i]
    BY <1>2, <1>3
  <2> QED BY <1>5, <2>1 DEF Range
<1>8. ASSUME NEW i \in DOMAIN t PROVE t[i] \in Range(s \o t)
  <2>1. l + i \in 1 .. l + m /\ ~(l + i <= l) /\ (l + i) - l = i
    BY <1>2
  <2>2. (s \o t)[l + i] = t[i]
    BY <1>3, <2>1
  <2> QED BY <1>5, <2>1, <2>2 DEF Range
<1> QED BY <1>4, <1>5, <1>6, <1>7, <1>8 DEF Range

\* The lists of a list: joined, they are a list of their members.
LEMMA JoinedLists ==
  ASSUME NEW ss, IsList(ss), \A k \in DOMAIN ss : IsList(ss[k])
  PROVE  /\ IsList(FlattenSeq(ss))
         /\ \A e \in Range(FlattenSeq(ss)) : \E k \in DOMAIN ss : e \in Range(ss[k])
         /\ \E b : Offsets(b, FlattenSeq(ss), ss)
<1> DEFINE S == UNION {Range(ss[k]) : k \in DOMAIN ss}
<1>1. \A k \in DOMAIN ss : ss[k] \in Seq(S)
  <2> SUFFICES ASSUME NEW k \in DOMAIN ss PROVE ss[k] \in Seq(S)
    OBVIOUS
  <2>1. ss[k] \in Seq(Range(ss[k])) /\ Range(ss[k]) \subseteq S
    BY DEF IsList
  <2> HIDE DEF S
  <2> QED BY <2>1, SeqMonotonic
<1> HIDE DEF S
<1>2. Range(ss) \subseteq Seq(S)
  BY <1>1 DEF Range
<1>3. ss \in Seq(Seq(S))
  BY <1>2, SeqMonotonic DEF IsList
<1>4. FlattenSeq(ss) \in Seq(S) /\ \E b : Offsets(b, FlattenSeq(ss), ss)
  BY <1>3, Flattened
<1>5. PICK b : Offsets(b, FlattenSeq(ss), ss)
  BY <1>4
<1>6. ASSUME NEW e \in Range(FlattenSeq(ss)) PROVE \E k \in DOMAIN ss : e \in Range(ss[k])
  <2>1. PICK i \in DOMAIN FlattenSeq(ss) : e = FlattenSeq(ss)[i]
    BY DEF Range
  <2>2. PICK k \in DOMAIN ss : \E o \in DOMAIN ss[k] : i = b[k] + o
    BY <1>5 DEF Offsets
  <2>3. PICK o \in DOMAIN ss[k] : i = b[k] + o
    BY <2>2
  <2>4. e = ss[k][o]
    BY <1>5, <2>1, <2>3 DEF Offsets
  <2> QED BY <2>4 DEF Range
<1>7. IsList(FlattenSeq(ss))
  BY <1>4, ListsAreSeqs
<1> QED BY <1>4, <1>6, <1>7

\* Each: what is made of the members of a list, one after the other.
LEMMA EachList ==
  ASSUME NEW seq, IsList(seq), NEW f, f = [i \in DOMAIN seq |-> f[i]],
         \A i \in DOMAIN seq : IsList(f[i])
  PROVE  /\ IsList(f) /\ <<>> \o f = f /\ DOMAIN f = DOMAIN seq
         /\ IsList(FlattenSeq(f))
         /\ \A e \in Range(FlattenSeq(f)) : \E i \in DOMAIN seq : e \in Range(f[i])
         /\ \E b : Offsets(b, FlattenSeq(f), f)
<1>1. Len(seq) \in Nat /\ DOMAIN seq = 1 .. Len(seq)
  BY ListIs
<1>2. DOMAIN f = DOMAIN seq
  OBVIOUS
<1>3. IsList(f)
  BY <1>1, <1>2, FunctionsAreLists
<1>4. <<>> \o f = f
  BY <1>3, ConcatEmptySeq DEF IsList
<1> QED BY <1>2, <1>3, <1>4, JoinedLists

\* Nothing of it is lost.
LEMMA EachHas ==
  ASSUME NEW seq, IsList(seq), NEW f, f = [i \in DOMAIN seq |-> f[i]],
         \A i \in DOMAIN seq : IsList(f[i])
  PROVE  \A i \in DOMAIN seq : Range(f[i]) \subseteq Range(FlattenSeq(<<>> \o f))
<1>1. <<>> \o f = f /\ DOMAIN f = DOMAIN seq /\ \E b : Offsets(b, FlattenSeq(f), f)
  BY EachList
<1>2. PICK b : Offsets(b, FlattenSeq(f), f)
  BY <1>1
<1>3. ASSUME NEW i \in DOMAIN seq, NEW o \in DOMAIN f[i] PROVE f[i][o] \in Range(FlattenSeq(f))
  <2>1. b[i] + o \in DOMAIN FlattenSeq(f) /\ FlattenSeq(f)[b[i] + o] = f[i][o]
    BY <1>1, <1>2 DEF Offsets
  <2> QED BY <2>1 DEF Range
<1> QED BY <1>1, <1>3 DEF Range

-----------------------------------------------------------------------------
(* The sheet of the disciplines: its groups and its levels are made of the   *)
(* same rows.                                                               *)

LEMMA Greatest ==
  ASSUME NEW T, NEW n \in Nat, T \subseteq 0 .. n, T # {}
  PROVE  \E m \in T : \A k \in T : k <= m
<1> DEFINE U == {x \in 0 .. n : n - x \in T}
<1>1. U \subseteq Nat /\ U # {}
  <2>1. PICK m \in T : TRUE
    OBVIOUS
  <2>2. m \in 0 .. n /\ n - m \in 0 .. n /\ n - (n - m) = m
    BY <2>1
  <2> QED BY <2>1, <2>2
<1> HIDE DEF U
<1>2. PICK x \in U : \A y \in U : x <= y
  BY <1>1, Least
<1>3. x \in 0 .. n /\ n - x \in T
  BY <1>2 DEF U
<1>4. ASSUME NEW k \in T PROVE k <= n - x
  <2>1. k \in 0 .. n /\ n - k \in 0 .. n /\ n - (n - k) = k
    OBVIOUS
  <2>2. n - k \in U
    BY <2>1 DEF U
  <2>3. x <= n - k
    BY <1>2, <2>2
  <2> QED BY <1>3, <2>1, <2>3
<1> QED BY <1>3, <1>4

LEMMA NthIs ==
  ASSUME NEW S, S \subseteq Nat, IsFiniteSet(S), NEW k \in 1 .. Cardinality(S)
  PROVE  Nth(S, k) \in S
<1> DEFINE before(i) == {j \in S : j < i}
           Is(n) == \E i \in S : Cardinality(before(i)) = n - 1
           T == {n \in Nat : n + 1 \in 1 .. Cardinality(S) => Is(n + 1)}
<1>0. Cardinality(S) \in Nat
  BY FS_CardinalityType
<1>1. 0 \in T
  <2> SUFFICES ASSUME 1 \in 1 .. Cardinality(S) PROVE Is(1)
    OBVIOUS
  <2>1. S # {}
    BY <1>0, FS_EmptySet
  <2>2. PICK i \in S : \A j \in S : i <= j
    BY <2>1, Least
  <2>3. before(i) = {}
    <3>1. \A j \in S : i \in Nat /\ j \in Nat /\ i <= j
      BY <2>2
    <3>2. \A j \in S : ~(j < i)
      BY <3>1
    <3> QED BY <3>2
  <2>4. Cardinality(before(i)) = 0
    BY <2>3, FS_EmptySet
  <2> QED BY <2>4
<1>2. ASSUME NEW n \in Nat, n \in T PROVE n + 1 \in T
  <2> DEFINE m == n + 1
  <2> SUFFICES ASSUME m + 1 \in 1 .. Cardinality(S) PROVE Is(m + 1)
    OBVIOUS
  <2>1. m \in 1 .. Cardinality(S)
    BY <1>0
  <2>2. PICK i \in S : Cardinality(before(i)) = m - 1
    BY <1>2, <2>1
  <2> DEFINE upto == before(i) \union {i}  rest == S \ upto
  <2>3. IsFiniteSet(before(i)) /\ i \notin before(i)
    BY FS_Subset
  <2>4. Cardinality(upto) = m /\ IsFiniteSet(upto)
    <3> HIDE DEF before
    <3>1. Cardinality(upto) = Cardinality(before(i)) + 1 /\ IsFiniteSet(upto)
      BY <2>3, FS_AddElement
    <3> QED BY <2>1, <2>2, <3>1
  <2>5. rest # {}
    <3>1. SUFFICES ASSUME rest = {} PROVE FALSE
      OBVIOUS
    <3>2. S = upto
      BY <3>1
    <3> HIDE DEF upto
    <3> QED BY <1>0, <2>4, <3>2
  <2>6. PICK x \in rest : \A y \in rest : x <= y
    <3>1. rest \subseteq Nat
      OBVIOUS
    <3> HIDE DEF rest
    <3> QED BY <2>5, <3>1, Least
  <2>7. before(x) = upto
    <3>1. ASSUME NEW j \in before(x) PROVE j \in upto
      <4>1. j \in S /\ j \in Nat /\ x \in Nat /\ ~(x <= j)
        BY <2>6
      <4>2. j \notin rest
        BY <2>6, <4>1
      <4> QED BY <4>1, <4>2
    <3>2. ASSUME NEW j \in upto PROVE j \in before(x)
      <4>1. x \in S /\ x \in Nat /\ i \in Nat /\ j \in Nat /\ j \in S /\ ~(x < i) /\ x # i
        BY <2>6
      <4>2. j <= i
        BY <4>1
      <4>3. j < x
        BY <4>1, <4>2
      <4> QED BY <4>1, <4>3
    <3> HIDE DEF before, upto
    <3> QED BY <3>1, <3>2
  <2>8. x \in S /\ Cardinality(before(x)) = (m + 1) - 1
    BY <2>4, <2>6, <2>7
  <2> HIDE DEF before
  <2> QED BY <2>8
<1>3. Nat \subseteq T
  <2> HIDE DEF T
  <2> QED BY <1>1, <1>2, SetInduction
<1>4. Is(k)
  <2>1. k - 1 \in Nat /\ (k - 1) + 1 = k
    BY <1>0
  <2>2. k - 1 \in T
    BY <1>3, <2>1
  <2> HIDE DEF Is
  <2>3. (k - 1) + 1 \in 1 .. Cardinality(S) => Is((k - 1) + 1)
    BY <2>2
  <2> QED BY <2>1, <2>3
<1> QED BY <1>4 DEF Nth

\* The rows of one group, read as a level.
NamedRows(rows, first, end) ==
  Each(SubSeq(rows, first, end), LAMBDA i, r : IF r.zoneCode # NoCell THEN <<r>> ELSE <<>>)

LEMMA NamedRowsAre ==
  ASSUME NEW rows, NEW first \in Nat, NEW end \in Nat
  PROVE  /\ IsList(NamedRows(rows, first, end))
         /\ \A i \in first .. end : rows[i].zoneCode # NoCell => rows[i] \in Range(NamedRows(rows, first, end))
<1> DEFINE S == {rows[i] : i \in first .. end}
           s == SubSeq(rows, first, end)
           f == [i \in DOMAIN s |-> IF s[i].zoneCode # NoCell THEN <<s[i]>> ELSE <<>>]
<1>1. /\ s \in Seq(S)
      /\ Len(s) = IF first <= end THEN end - first + 1 ELSE 0
      /\ \A i \in 1 .. end - first + 1 : s[i] = rows[first + i - 1]
  BY SubSeqProperties
<1>2. NamedRows(rows, first, end) = FlattenSeq(<<>> \o f)
  BY DEF NamedRows, Each
<1> HIDE DEF s, S
<1>3. IsList(s) /\ DOMAIN s = 1 .. Len(s)
  BY <1>1, ListsAreSeqs, ListIs
<1>4. /\ f = [i \in DOMAIN s |-> f[i]]
      /\ \A i \in DOMAIN s : f[i] = IF s[i].zoneCode # NoCell THEN <<s[i]>> ELSE <<>>
  OBVIOUS
<1> HIDE DEF f
<1>5. \A i \in DOMAIN s : IsList(f[i])
  BY <1>4, OneList, EmptyList
<1>6. IsList(FlattenSeq(<<>> \o f))
  BY <1>3, <1>4, <1>5, EachList
<1>7. ASSUME NEW i \in first .. end, rows[i].zoneCode # NoCell PROVE rows[i] \in Range(FlattenSeq(<<>> \o f))
  <2> DEFINE k == i - first + 1
  <2>1. k \in 1 .. end - first + 1 /\ k \in 1 .. Len(s) /\ first + k - 1 = i
    BY <1>1
  <2> HIDE DEF k
  <2>2. k \in DOMAIN s /\ s[k] = rows[i]
    BY <1>1, <1>3, <2>1
  <2>3. f[k] = <<rows[i]>>
    BY <1>4, <1>7, <2>2
  <2>4. rows[i] \in Range(f[k])
    BY <2>3, OneList
  <2>5. Range(f[k]) \subseteq Range(FlattenSeq(<<>> \o f))
    BY <1>3, <1>4, <1>5, <2>2, EachHas
  <2> QED BY <2>4, <2>5
<1> QED BY <1>2, <1>6, <1>7

LEMMA FirstOfIs ==
  ASSUME NEW rows, IsList(rows), NEW end \in Nat
  PROVE  FirstOf(rows, end) \in Nat
<1> DEFINE before == {i \in GroupEnds(rows) : i < end}
<1>1. FirstOf(rows, end) = IF before = {} THEN 1 ELSE 1 + CHOOSE i \in before : \A j \in before : j <= i
  BY DEF FirstOf
<1>2. Len(rows) \in Nat
  BY ListIs
<1>3. before \subseteq 0 .. Len(rows)
  BY <1>2 DEF GroupEnds
<1> HIDE DEF before
<1>4. CASE before # {}
  <2> DEFINE last == CHOOSE i \in before : \A j \in before : j <= i
  <2>1. \E i \in before : \A j \in before : j <= i
    BY <1>2, <1>3, <1>4, Greatest
  <2>2. last \in before
    BY <2>1
  <2>3. FirstOf(rows, end) = 1 + last
    BY <1>1, <1>4
  <2> HIDE DEF last
  <2>4. last \in 0 .. Len(rows)
    BY <1>3, <2>2
  <2> QED BY <1>2, <2>3, <2>4
<1>5. CASE before = {}
  BY <1>1, <1>5
<1> QED BY <1>4, <1>5

LEMMA ZoneMapIs ==
  ASSUME NEW rows, IsList(rows), NEW end \in Nat, NEW z \in DOMAIN ZoneMap(rows, end)
  PROVE  \E i \in FirstOf(rows, end) .. end :
           rows[i].zoneCode # NoCell /\ ZoneMap(rows, end)[z] = rows[i].zoneCode
<1> DEFINE first == FirstOf(rows, end)
           named == {i \in first .. end : rows[i].zone # NoCell /\ rows[i].zoneCode # NoCell}
           same == {i \in named : rows[i].zone = z}
           Is(i) == rows[i].zone = z /\ \A j \in named : rows[j].zone = z => i <= j
<1>1. first \in Nat
  BY FirstOfIs
<1>2. z \in {rows[i].zone : i \in named} /\ ZoneMap(rows, end)[z] = rows[CHOOSE i \in named : Is(i)].zoneCode
  BY DEF ZoneMap
<1> HIDE DEF first
<1>3. same # {} /\ same \subseteq Nat
  BY <1>1, <1>2
<1>4. \E i \in named : Is(i)
  <2>1. PICK i \in same : \A j \in same : i <= j
    <3> HIDE DEF same
    <3> QED BY <1>3, Least
  <2> QED BY <2>1
<1>5. (CHOOSE i \in named : Is(i)) \in named
  <2> HIDE DEF named, Is
  <2> QED BY <1>4
<1> QED BY <1>2, <1>5 DEF first

LEMMA SiteCellsAre == IsList(SiteCells(Sheet)) /\ \A r \in Range(SiteCells(Sheet)) : r.code # NoCell
<1> DEFINE f == [i \in DOMAIN Sheet |-> IF Sheet[i].code # NoCell /\ Sheet[i].site # NoCell THEN <<Sheet[i]>> ELSE <<>>]
<1>1. SiteCells(Sheet) = FlattenSeq(<<>> \o f) /\ IsList(Sheet)
  BY SheetAssumption DEF SiteCells, Each, IsList
<1>2. /\ f = [i \in DOMAIN Sheet |-> f[i]]
      /\ \A i \in DOMAIN Sheet : (f[i] = <<Sheet[i]>> /\ Sheet[i].code # NoCell) \/ f[i] = <<>>
  OBVIOUS
<1> HIDE DEF f
<1>3. ASSUME NEW i \in DOMAIN Sheet PROVE IsList(f[i]) /\ \A r \in Range(f[i]) : r.code # NoCell
  <2> DEFINE row == Sheet[i]
  <2>1. (f[i] = <<row>> /\ row.code # NoCell) \/ f[i] = <<>>
    BY <1>2
  <2> HIDE DEF row
  <2>2. CASE f[i] = <<row>> /\ row.code # NoCell
    <3>1. IsList(<<row>>) /\ Range(<<row>>) = {row}
      BY OneList
    <3> QED BY <2>2, <3>1
  <2>3. CASE f[i] = <<>>
    BY <2>3, EmptyList
  <2> QED BY <2>1, <2>2, <2>3
<1>4. /\ <<>> \o f = f /\ IsList(FlattenSeq(f))
      /\ \A r \in Range(FlattenSeq(f)) : \E i \in DOMAIN Sheet : r \in Range(f[i])
  BY <1>1, <1>2, <1>3, EachList
<1> QED BY <1>1, <1>3, <1>4

\* What is read of the sheet: a group and a level for every site, of one code;
\* the codes of a group's zones are on its level.
LEMMA SheetIsRead ==
  /\ IsList(SheetLevels) /\ \A k \in DOMAIN SheetLevels : IsList(SheetLevels[k].zones)
  /\ DOMAIN SheetGroups = DOMAIN SheetLevels /\ Len(SheetGroups) = Len(SheetLevels)
  /\ \A k \in DOMAIN SheetLevels :
       /\ SheetGroups[k].code = SheetLevels[k].code /\ SheetLevels[k].code # NoCell
       /\ \A z \in DOMAIN SheetGroups[k].zones :
            \E row \in Range(SheetLevels[k].zones) : SheetGroups[k].zones[z] = row.zoneCode
<1> DEFINE rows == SiteCells(Sheet)
           ends == GroupEnds(rows)
           N == Cardinality(ends)
           end(k) == Nth(ends, k)
           level(k) == [code |-> rows[end(k)].code, zones |-> NamedRows(rows, FirstOf(rows, end(k)), end(k))]
           group(k) == [site |-> rows[end(k)].site, code |-> rows[end(k)].code, zones |-> ZoneMap(rows, end(k))]
           ls == [k \in 1 .. N |-> level(k)]
           gs == [k \in 1 .. N |-> group(k)]
<1>1. /\ IsList(rows) /\ Len(rows) \in Nat
      /\ \A i \in 1 .. Len(rows) : rows[i].code # NoCell
  <2> HIDE DEF rows
  <2>1. IsList(rows) /\ \A r \in Range(rows) : r.code # NoCell
    BY SiteCellsAre DEF rows
  <2> QED BY <2>1, ListIs
<1>2. Levels(Sheet) = ls /\ Groups(Sheet) = gs
  BY DEF Levels, Groups, NamedRows
<1> HIDE DEF rows
<1>3. ends \subseteq Nat /\ ends \subseteq 1 .. Len(rows) /\ IsFiniteSet(ends)
  <2>1. ends \subseteq 1 .. Len(rows)
    BY <1>1 DEF GroupEnds
  <2>2. IsFiniteSet(1 .. Len(rows))
    BY <1>1, FS_Interval
  <2> QED BY <1>1, <2>1, <2>2, FS_Subset
<1> HIDE DEF ends
<1>4. N \in Nat
  BY <1>3, FS_CardinalityType
<1>5. \A k \in 1 .. N : end(k) \in Nat /\ end(k) \in 1 .. Len(rows)
  BY <1>3, NthIs
<1> HIDE DEF N, end
<1>6. /\ DOMAIN ls = 1 .. N /\ ls = [k \in 1 .. N |-> ls[k]] /\ \A k \in 1 .. N : ls[k] = level(k)
      /\ DOMAIN gs = 1 .. N /\ gs = [k \in 1 .. N |-> gs[k]] /\ \A k \in 1 .. N : gs[k] = group(k)
  OBVIOUS
<1> HIDE DEF ls, gs
<1>7. IsList(ls) /\ IsList(gs) /\ Len(ls) = N /\ Len(gs) = N
  BY <1>4, <1>6, FunctionsAreLists
<1>8. SheetLevels = ls /\ SheetGroups = gs
  BY <1>2, <1>7, ConcatEmptySeq DEF SheetLevels, SheetGroups, IsList
<1>9. ASSUME NEW k \in 1 .. N
      PROVE  /\ IsList(ls[k].zones) /\ gs[k].code = ls[k].code /\ ls[k].code # NoCell
             /\ \A z \in DOMAIN gs[k].zones : \E row \in Range(ls[k].zones) : gs[k].zones[z] = row.zoneCode
  <2> DEFINE e == end(k)  first == FirstOf(rows, e)
  <2>1. e \in Nat
    BY <1>5
  <2>2. first \in Nat
    BY <1>1, <2>1, FirstOfIs
  <2>3. /\ ls[k].zones = NamedRows(rows, first, e) /\ gs[k].code = ls[k].code /\ ls[k].code # NoCell
        /\ gs[k].zones = ZoneMap(rows, e)
    BY <1>1, <1>5, <1>6
  <2> HIDE DEF e
  <2>4. ASSUME NEW z \in DOMAIN ZoneMap(rows, e)
        PROVE  \E row \in Range(NamedRows(rows, first, e)) : ZoneMap(rows, e)[z] = row.zoneCode
    <3>1. PICK i \in first .. e : rows[i].zoneCode # NoCell /\ ZoneMap(rows, e)[z] = rows[i].zoneCode
      BY <1>1, <2>1, ZoneMapIs
    <3> HIDE DEF first
    <3>2. rows[i] \in Range(NamedRows(rows, first, e))
      BY <2>1, <2>2, <3>1, NamedRowsAre
    <3> QED BY <3>1, <3>2
  <2> HIDE DEF first
  <2> QED BY <2>1, <2>2, <2>3, <2>4, NamedRowsAre
<1> QED BY <1>6, <1>7, <1>8, <1>9

-----------------------------------------------------------------------------
(* Names and ids.                                                           *)

Factories == DOMAIN project.rooms
RoomNames == {r.name : r \in Rooms}
LevelNames == {r.level : r \in Rooms}
FixNames == {x.fix[1] : x \in {y \in Parts : y.fix # <<>>}}
PartNames == {x.id : x \in Parts}
ChildNames == {c.id : c \in ChildrenOf(project)}
MemberNames == UNION {Range(c.members) : c \in ChildrenOf(project)}

\* What a row of the tree may say: which kind of node hangs below which.
IsPair(id) == \E a, b : id = <<a, b>>
Placed(id, owner) ==
  \/ id = Root /\ owner = AboveRoot
  \/ \E i \in DOMAIN SscLevels :
       id = <<SscLevels[i].name>> /\ owner \in {Root, <<SscLevels[i].owner>>}
  \/ \E f \in Factories :
       \/ id = <<f>> /\ owner = Unit
       \/ id \in {InstallLevel(f), InstallArea(f)} /\ owner = <<f>>
       \/ \E l \in LevelNames : id = <<f, l>> /\ owner = InstallLevel(f)
  \/ \E n \in RoomNames, f \in Factories, l \in LevelNames : id = <<n>> /\ owner = <<f, l>>
  \/ \E n \in FixNames : id = <<n>> /\ IsPair(owner)
  \/ \E n \in PartNames : id = <<n>> /\ (IsPair(owner) \/ \E m \in FixNames : owner = <<m>>)
  \/ \E n \in ChildNames, m \in PartNames : id = <<n>> /\ owner = <<m>>
  \/ \E n \in MemberNames, m \in ChildNames : id = <<n>> /\ owner = <<m>>
Listed(id, owner) ==
  \E n \in RoomNames, m \in Range(SheetMajors) :
    id = <<n, m.code>> /\ owner = IF m.above = NoCell THEN <<n>> ELSE <<n, m.above>>
Owned(id, owner) == Placed(id, owner) \/ Listed(id, owner)

LEMMA Ids ==
  ASSUME NEW a, NEW b, NEW c, NEW d
  PROVE  /\ (<<a>> = <<b>>) = (a = b)
         /\ (<<a, b>> = <<c, d>>) = (a = c /\ b = d)
         /\ <<a>> # <<b, c>>
<1>1. <<a>>[1] = a /\ <<b>>[1] = b /\ <<a, b>>[1] = a /\ <<a, b>>[2] = b /\ <<c, d>>[1] = c /\ <<c, d>>[2] = d
  OBVIOUS
<1>2. <<a>> # <<b, c>>
  <2>1. DOMAIN <<a>> = 1 .. 1 /\ DOMAIN <<b, c>> = 1 .. 2 /\ 2 \in 1 .. 2 /\ 2 \notin 1 .. 1
    OBVIOUS
  <2> QED BY <2>1
<1> QED BY <1>1, <1>2

LEMMA KindsApart ==
  ASSUME project \in Projects
  PROVE  /\ FixedNames \intersect Factories = {} /\ FixedNames \intersect RoomNames = {}
         /\ FixedNames \intersect FixNames = {} /\ FixedNames \intersect PartNames = {}
         /\ FixedNames \intersect ChildNames = {} /\ FixedNames \intersect MemberNames = {}
         /\ Factories \intersect RoomNames = {} /\ Factories \intersect FixNames = {}
         /\ Factories \intersect PartNames = {} /\ Factories \intersect ChildNames = {}
         /\ Factories \intersect MemberNames = {}
         /\ RoomNames \intersect PartNames = {} /\ RoomNames \intersect ChildNames = {}
         /\ RoomNames \intersect MemberNames = {}
         /\ FixNames \intersect PartNames = {} /\ FixNames \intersect ChildNames = {}
         /\ FixNames \intersect MemberNames = {}
         /\ PartNames \intersect ChildNames = {} /\ PartNames \intersect MemberNames = {}
         /\ ChildNames \intersect MemberNames = {}
         /\ \A x \in Parts : x.room \notin Factories
<1> DEFINE K == NamesByKind(project)
<1>1. \A i, j \in 1 .. 6 : i < j => K[i] \intersect K[j] = {}
  BY NamesAssumption
<1>2. /\ K[1] = FixedNames /\ K[2] = Factories /\ K[3] = NumbersOfRooms(project)
      /\ K[4] = PartNames /\ K[5] = ChildNames /\ K[6] = MemberNames
  BY DEF NamesByKind, Factories, PartNames, ChildNames, MemberNames, Parts
<1> HIDE DEF K
<1>3. /\ RoomNames \union FixNames \subseteq NumbersOfRooms(project)
      /\ \A x \in Parts : x.room \in NumbersOfRooms(project)
  BY DEF NumbersOfRooms, RoomNames, FixNames, Rooms, Parts
<1>4. /\ K[1] \intersect K[2] = {} /\ K[1] \intersect K[3] = {} /\ K[1] \intersect K[4] = {}
      /\ K[1] \intersect K[5] = {} /\ K[1] \intersect K[6] = {} /\ K[2] \intersect K[3] = {}
      /\ K[2] \intersect K[4] = {} /\ K[2] \intersect K[5] = {} /\ K[2] \intersect K[6] = {}
  BY <1>1
<1>5. /\ K[3] \intersect K[4] = {} /\ K[3] \intersect K[5] = {} /\ K[3] \intersect K[6] = {}
      /\ K[4] \intersect K[5] = {} /\ K[4] \intersect K[6] = {} /\ K[5] \intersect K[6] = {}
  BY <1>1
<1> QED BY <1>2, <1>3, <1>4, <1>5

LEMMA FixedNamesAre ==
  /\ "root" \in FixedNames /\ "above" \in FixedNames /\ "unit" \in FixedNames
  /\ \A i \in DOMAIN SscLevels : SscLevels[i].name \in FixedNames /\ SscLevels[i].owner \in FixedNames
<1>1. Root[1] = "root" /\ AboveRoot[1] = "above" /\ Unit[1] = "unit"
  BY DEF Root, AboveRoot, Unit
<1>2. \A i \in DOMAIN SscLevels : SscLevels[i] \in Range(SscLevels)
  BY DEF Range
<1> QED BY <1>1, <1>2 DEF FixedNames

\* Levels have no name of a fixed node.
LEMMA LevelsAre ==
  ASSUME project \in Projects, NEW l \in LevelNames
  PROVE  l \notin {"levels", "areas"}
<1>1. PICK r \in Rooms : l = r.level
  BY DEF LevelNames
<1>2. PICK f \in DOMAIN project.rooms : r \in Range(project.rooms[f])
  BY DEF Rooms, RoomsOf
<1>3. <<f, r.level>> \notin {InstallLevel(f), InstallArea(f)}
  BY <1>2, NamesAssumption DEF Rooms
<1> QED BY <1>1, <1>3 DEF InstallLevel, InstallArea

\* No node hangs below itself, but for a discipline that has the code of its zone.
LEMMA PlacedElsewhere ==
  ASSUME project \in Projects, NEW id, NEW owner, Placed(id, owner)
  PROVE  id # owner
<1> USE KindsApart, FixedNamesAre, Ids
<1>1. CASE id = Root /\ owner = AboveRoot
  BY <1>1 DEF Root, AboveRoot
<1>2. ASSUME NEW i \in DOMAIN SscLevels, id = <<SscLevels[i].name>>, owner \in {Root, <<SscLevels[i].owner>>}
      PROVE  id # owner
  <2>1. DOMAIN SscLevels = 1 .. Len(SscLevels) /\ Len(SscLevels) \in Nat
    BY SscAssumption, ListIs DEF IsList
  <2>2. SscLevels[i].owner # SscLevels[i].name /\ <<SscLevels[i].name>> # Root
    BY <2>1, SscAssumption
  <2> QED BY <1>2, <2>2
<1>3. ASSUME NEW f \in Factories, id = <<f>>, owner = Unit
      PROVE  id # owner
  BY <1>3 DEF Unit
<1>4. ASSUME NEW f \in Factories, id \in {InstallLevel(f), InstallArea(f)}, owner = <<f>>
      PROVE  id # owner
  BY <1>4 DEF InstallLevel, InstallArea
<1>5. ASSUME NEW f \in Factories, NEW l \in LevelNames, id = <<f, l>>, owner = InstallLevel(f)
      PROVE  id # owner
  BY <1>5, LevelsAre DEF InstallLevel
<1>6. ASSUME NEW n, id = <<n>>, IsPair(owner)
      PROVE  id # owner
  BY <1>6 DEF IsPair
<1>7. ASSUME NEW n \in PartNames, id = <<n>>, NEW m \in FixNames, owner = <<m>>
      PROVE  id # owner
  BY <1>7
<1>8. ASSUME NEW n \in ChildNames, NEW m \in PartNames, id = <<n>>, owner = <<m>>
      PROVE  id # owner
  BY <1>8
<1>9. ASSUME NEW n \in MemberNames, NEW m \in ChildNames, id = <<n>>, owner = <<m>>
      PROVE  id # owner
  BY <1>9
<1> QED
  BY <1>1, <1>2, <1>3, <1>4, <1>5, <1>6, <1>7, <1>8, <1>9 DEF Placed, IsPair

-----------------------------------------------------------------------------
(* What the stages collect.                                                 *)

Sound(s) == IsList(s) /\ \A e \in Range(s) : Placed(e.id, e.owner)

LEMMA NodeIs ==
  ASSUME NEW id, NEW owner, NEW order, NEW what
  PROVE  /\ Node(id, owner, order, what).id = id /\ Node(id, owner, order, what).owner = owner
         /\ Node(id, owner, order, what).order = order /\ Node(id, owner, order, what).what = what
BY DEF Node

LEMMA SoundEmpty == Sound(<<>>)
BY EmptyList DEF Sound

LEMMA SoundOne ==
  ASSUME NEW id, NEW owner, Placed(id, owner), NEW order, NEW what
  PROVE  Sound(<<Node(id, owner, order, what)>>) /\ Sound(Linked(id, owner, order))
BY OneList, NodeIs DEF Sound, Linked

LEMMA SoundBoth ==
  ASSUME NEW s, NEW t, Sound(s), Sound(t)
  PROVE  Sound(s \o t)
BY BothLists DEF Sound

LEMMA SoundEach ==
  ASSUME NEW seq, IsList(seq), NEW f, f = [i \in DOMAIN seq |-> f[i]],
         \A i \in DOMAIN seq : Sound(f[i])
  PROVE  Sound(FlattenSeq(<<>> \o f))
<1>1. \A i \in DOMAIN seq : IsList(f[i])
  BY DEF Sound
<1>2. /\ <<>> \o f = f /\ IsList(FlattenSeq(f))
      /\ \A e \in Range(FlattenSeq(f)) : \E i \in DOMAIN seq : e \in Range(f[i])
  BY <1>1, EachList
<1> QED BY <1>2 DEF Sound

LEMMA FixedSound == Sound(FixedNodes)
<1> DEFINE owner(l) == IF l.owner = NoCell THEN Root ELSE <<l.owner>>
           f == [i \in DOMAIN SscLevels |-> Linked(<<SscLevels[i].name>>, owner(SscLevels[i]), i - 1)]
<1>1. Sound(<<Node(Root, AboveRoot, 0, {"row"})>>)
  BY SoundOne DEF Placed
<1>2. ASSUME NEW i \in DOMAIN SscLevels PROVE Sound(f[i])
  <2>1. Placed(<<SscLevels[i].name>>, owner(SscLevels[i]))
    BY DEF Placed
  <2> HIDE DEF owner
  <2> QED BY <2>1, SoundOne
<1>3. FixedNodes = <<Node(Root, AboveRoot, 0, {"row"})>> \o FlattenSeq(<<>> \o f)
  BY DEF FixedNodes, Each
<1>4. f = [i \in DOMAIN SscLevels |-> f[i]] /\ IsList(SscLevels)
  BY SscAssumption DEF IsList
<1> HIDE DEF f
<1>5. Sound(FlattenSeq(<<>> \o f))
  BY <1>2, <1>4, SoundEach
<1> QED BY <1>1, <1>3, <1>5, SoundBoth

\* The rooms that were found are rooms of the project.
RoomsAre ==
  \A f \in DOMAIN rooms :
    f \in Factories /\ IsList(rooms[f]) /\ Range(rooms[f]) \subseteq Range(project.rooms[f])

LEMMA RoomsNamed ==
  ASSUME RoomsAre, NEW f \in DOMAIN rooms, NEW i \in DOMAIN rooms[f]
  PROVE  rooms[f][i] \in Rooms /\ rooms[f][i].name \in RoomNames /\ rooms[f][i].level \in LevelNames
<1>1. rooms[f][i] \in Range(rooms[f]) /\ f \in DOMAIN project.rooms
  BY DEF Range, RoomsAre, Factories
<1>2. rooms[f][i] \in Rooms
  BY <1>1 DEF RoomsAre, Rooms, RoomsOf
<1> QED BY <1>2 DEF RoomNames, LevelNames

LEMMA RoomsSound ==
  ASSUME RoomsAre, NEW f \in DOMAIN rooms
  PROVE  Sound(RoomNodes(f))
<1> DEFINE rs == rooms[f]
           listed(i) == \E k \in 1 .. i - 1 : rs[k].level = rs[i].level
           room(i) ==
             IF ~Numeric(rs[i]) THEN <<>>
             ELSE (IF listed(i) THEN <<>> ELSE Linked(<<f, rs[i].level>>, InstallLevel(f), rs[i].level))
                    \o Linked(<<rs[i].name>>, <<f, rs[i].level>>, i - 1)
           g == [i \in DOMAIN rs |-> room(i)]
<1>1. IsList(rs) /\ f \in Factories
  BY DEF RoomsAre
<1>2. RoomNodes(f) = FlattenSeq(<<>> \o g)
  BY DEF RoomNodes, Each
<1>3. ASSUME NEW i \in DOMAIN rs PROVE Sound(g[i])
  <2>1. Placed(<<f, rs[i].level>>, InstallLevel(f)) /\ Placed(<<rs[i].name>>, <<f, rs[i].level>>)
    BY <1>1, RoomsNamed DEF Placed
  <2>2. /\ Sound(Linked(<<f, rs[i].level>>, InstallLevel(f), rs[i].level))
        /\ Sound(Linked(<<rs[i].name>>, <<f, rs[i].level>>, i - 1))
    BY <2>1, SoundOne
  <2>3. Sound(IF listed(i) THEN <<>> ELSE Linked(<<f, rs[i].level>>, InstallLevel(f), rs[i].level))
    BY <2>2, SoundEmpty
  <2> HIDE DEF listed
  <2>4. Sound(room(i))
    BY <2>2, <2>3, SoundBoth, SoundEmpty
  <2> QED BY <2>4
<1>4. g = [i \in DOMAIN rs |-> g[i]]
  OBVIOUS
<1> HIDE DEF g, rs
<1> QED BY <1>1, <1>2, <1>3, <1>4, SoundEach

LEMMA FactorySound ==
  ASSUME RoomsAre, NEW f \in DOMAIN rooms, NEW order
  PROVE  Sound(FactoryNodes(order, f))
<1>1. f \in Factories
  BY DEF RoomsAre
<1>2. /\ Placed(<<f>>, Unit) /\ Placed(InstallLevel(f), <<f>>) /\ Placed(InstallArea(f), <<f>>)
  BY <1>1 DEF Placed
<1>3. /\ Sound(Linked(<<f>>, Unit, order)) /\ Sound(Linked(InstallLevel(f), <<f>>, 0))
      /\ Sound(Linked(InstallArea(f), <<f>>, 1)) /\ Sound(RoomNodes(f))
  BY <1>2, SoundOne, RoomsSound
<1> QED BY <1>3, SoundBoth DEF FactoryNodes

\* An element under a zone, its children and theirs.
\* Parts, what is below them, and the fixed nodes of supports.
DeepPlaced(id, owner) ==
  \/ \E n \in FixNames : id = <<n>> /\ IsPair(owner)
  \/ \E n \in PartNames : id = <<n>> /\ (IsPair(owner) \/ \E m \in FixNames : owner = <<m>>)
  \/ \E n \in ChildNames, m \in PartNames : id = <<n>> /\ owner = <<m>>
  \/ \E n \in MemberNames, m \in ChildNames : id = <<n>> /\ owner = <<m>>
Deep(s) == IsList(s) /\ \A e \in Range(s) : DeepPlaced(e.id, e.owner)

LEMMA DeepIsSound ==
  ASSUME NEW s, Deep(s)
  PROVE  Sound(s)
BY DEF Deep, Sound, DeepPlaced, Placed

LEMMA DeepEmpty == Deep(<<>>)
BY EmptyList DEF Deep

LEMMA DeepOne ==
  ASSUME NEW id, NEW owner, DeepPlaced(id, owner), NEW order, NEW what
  PROVE  Deep(<<Node(id, owner, order, what)>>) /\ Deep(Linked(id, owner, order))
BY OneList, NodeIs DEF Deep, Linked

LEMMA DeepBoth ==
  ASSUME NEW s, NEW t, Deep(s), Deep(t)
  PROVE  Deep(s \o t)
BY BothLists DEF Deep

LEMMA DeepEach ==
  ASSUME NEW seq, IsList(seq), NEW f, f = [i \in DOMAIN seq |-> f[i]],
         \A i \in DOMAIN seq : Deep(f[i])
  PROVE  Deep(FlattenSeq(<<>> \o f))
<1>1. \A i \in DOMAIN seq : IsList(f[i])
  BY DEF Deep
<1>2. /\ <<>> \o f = f /\ IsList(FlattenSeq(f))
      /\ \A e \in Range(FlattenSeq(f)) : \E i \in DOMAIN seq : e \in Range(f[i])
  BY <1>1, EachList
<1> QED BY <1>2 DEF Deep

\* They bear no name of a factory.
LEMMA DeepIsNoFactory ==
  ASSUME project \in Projects, NEW s, Deep(s), NEW e \in Range(s), NEW f \in Factories
  PROVE  e.id # <<f>>
<1>1. \E n \in FixNames \union PartNames \union ChildNames \union MemberNames : e.id = <<n>>
  BY DEF Deep, DeepPlaced
<1> QED BY <1>1, KindsApart, Ids

LEMMA PartsHold ==
  ASSUME project \in Projects, NEW x \in Parts
  PROVE  /\ x.id \in PartNames /\ IsList(x.children)
         /\ \A i \in DOMAIN x.children : x.children[i] \in ChildrenOf(project)
         /\ x.fix # <<>> => x.fix[1] \in FixNames
<1>1. x \in PartsOf(project)
  BY DEF Parts
<1>2. IsList(x.children)
  BY <1>1, ListsAssumption
<1> QED BY <1>1, <1>2 DEF PartNames, FixNames, ChildrenOf, Range

LEMMA ChildrenHold ==
  ASSUME project \in Projects, NEW c \in ChildrenOf(project)
  PROVE  /\ c.id \in ChildNames /\ IsList(c.members)
         /\ \A i \in DOMAIN c.members : c.members[i] \in MemberNames
<1>1. IsList(c.members)
  BY ListsAssumption
<1> QED BY <1>1 DEF ChildNames, MemberNames, Range

LEMMA PartSound ==
  ASSUME project \in Projects, NEW x \in Parts, NEW i, NEW major
  PROVE  Deep(Part(i, x, major))
<1>1. DeepPlaced(<<x.id>>, MajorId(x.room, major))
  BY PartsHold DEF DeepPlaced, IsPair, MajorId
<1> QED BY <1>1, DeepOne DEF Part

LEMMA ChildPlaced ==
  ASSUME project \in Projects, NEW x \in Parts, NEW j \in DOMAIN x.children
  PROVE  DeepPlaced(<<x.children[j].id>>, <<x.id>>)
<1>1. x.id \in PartNames /\ x.children[j].id \in ChildNames
  BY PartsHold, ChildrenHold
<1> QED BY <1>1 DEF DeepPlaced

LEMMA MembersSound ==
  ASSUME project \in Projects, NEW c \in ChildrenOf(project)
  PROVE  Deep(Members(c))
<1> DEFINE f == [k \in DOMAIN c.members |-> Linked(<<c.members[k]>>, <<c.id>>, k - 1)]
<1>1. ASSUME NEW k \in DOMAIN c.members PROVE Deep(f[k])
  <2>1. DeepPlaced(<<c.members[k]>>, <<c.id>>)
    BY ChildrenHold DEF DeepPlaced
  <2>2. Deep(Linked(<<c.members[k]>>, <<c.id>>, k - 1))
    BY <2>1, DeepOne
  <2> QED BY <2>2
<1>2. Members(c) = FlattenSeq(<<>> \o f)
  BY DEF Members, Each
<1>3. f = [k \in DOMAIN c.members |-> f[k]] /\ IsList(c.members)
  BY ChildrenHold
<1> HIDE DEF f
<1> QED BY <1>1, <1>2, <1>3, DeepEach

LEMMA BranSound ==
  ASSUME project \in Projects, NEW nodes, IsList(nodes), Range(nodes) \subseteq Parts, NEW major
  PROVE  Deep(set_pbs_bran_node(nodes, major))
<1> DEFINE below(x) == [j \in DOMAIN x.children |-> Linked(<<x.children[j].id>>, <<x.id>>, j - 1)]
           bran(i) ==
             IF ~InRoom(nodes[i]) THEN <<>>
             ELSE Part(i - 1, nodes[i], major) \o FlattenSeq(<<>> \o below(nodes[i]))
           f == [i \in DOMAIN nodes |-> bran(i)]
<1>1. ASSUME NEW x \in Parts PROVE Deep(FlattenSeq(<<>> \o below(x)))
  <2>1. ASSUME NEW j \in DOMAIN x.children PROVE Deep(below(x)[j])
    <3>1. Deep(Linked(<<x.children[j].id>>, <<x.id>>, j - 1))
      BY ChildPlaced, DeepOne
    <3> QED BY <3>1
  <2>2. below(x) = [j \in DOMAIN x.children |-> below(x)[j]] /\ IsList(x.children)
    BY PartsHold
  <2> HIDE DEF below
  <2> QED BY <2>1, <2>2, DeepEach
<1>2. ASSUME NEW i \in DOMAIN nodes PROVE Deep(f[i])
  <2>1. nodes[i] \in Parts
    BY DEF Range
  <2>2. Deep(Part(i - 1, nodes[i], major)) /\ Deep(FlattenSeq(<<>> \o below(nodes[i])))
    BY <1>1, <2>1, PartSound
  <2> HIDE DEF below
  <2>3. Deep(bran(i))
    BY <2>2, DeepBoth, DeepEmpty
  <2> QED BY <2>3
<1>3. set_pbs_bran_node(nodes, major) = FlattenSeq(<<>> \o f)
  BY DEF set_pbs_bran_node, Each
<1>4. f = [i \in DOMAIN nodes |-> f[i]]
  OBVIOUS
<1> HIDE DEF f
<1> QED BY <1>2, <1>3, <1>4, DeepEach

LEMMA SubeSound ==
  ASSUME project \in Projects, NEW x \in Parts, NEW j \in DOMAIN x.children, NEW order
  PROVE  Deep(SubeIn(x, order, x.children[j]))
<1> DEFINE c == x.children[j]
<1>1. DeepPlaced(<<c.id>>, <<x.id>>) /\ c \in ChildrenOf(project)
  BY ChildPlaced, PartsHold
<1> HIDE DEF c
<1>2. Deep(Linked(<<c.id>>, <<x.id>>, order)) /\ Deep(Members(c))
  BY <1>1, DeepOne, MembersSound
<1>3. \A what : Deep(<<Node(<<c.id>>, <<x.id>>, order, what)>>)
  BY <1>1, DeepOne
<1>4. Deep(SubeIn(x, order, c))
  BY <1>2, <1>3, DeepBoth DEF SubeIn
<1> QED BY <1>4 DEF c

LEMMA EquiSound ==
  ASSUME project \in Projects, NEW nodes, IsList(nodes), Range(nodes) \subseteq Parts, NEW major
  PROVE  Deep(set_pbs_equi_node(nodes, major))
<1> DEFINE below(x) == [j \in DOMAIN x.children |-> SubeIn(x, j - 1, x.children[j])]
           equi(i) ==
             IF ~InRoom(nodes[i]) THEN <<>>
             ELSE Part(i - 1, nodes[i], major) \o FlattenSeq(<<>> \o below(nodes[i]))
           f == [i \in DOMAIN nodes |-> equi(i)]
<1>1. ASSUME NEW x \in Parts PROVE Deep(FlattenSeq(<<>> \o below(x)))
  <2>1. ASSUME NEW j \in DOMAIN x.children PROVE Deep(below(x)[j])
    <3>1. Deep(SubeIn(x, j - 1, x.children[j]))
      BY SubeSound
    <3> QED BY <3>1
  <2>2. below(x) = [j \in DOMAIN x.children |-> below(x)[j]] /\ IsList(x.children)
    BY PartsHold
  <2> HIDE DEF below
  <2> QED BY <2>1, <2>2, DeepEach
<1>2. ASSUME NEW i \in DOMAIN nodes PROVE Deep(f[i])
  <2>1. nodes[i] \in Parts
    BY DEF Range
  <2>2. Deep(Part(i - 1, nodes[i], major)) /\ Deep(FlattenSeq(<<>> \o below(nodes[i])))
    BY <1>1, <2>1, PartSound
  <2> HIDE DEF below
  <2>3. Deep(equi(i))
    BY <2>2, DeepBoth, DeepEmpty
  <2> QED BY <2>3
<1>3. set_pbs_equi_node(nodes, major) = FlattenSeq(<<>> \o f)
  BY DEF set_pbs_equi_node, Each
<1>4. f = [i \in DOMAIN nodes |-> f[i]]
  OBVIOUS
<1> HIDE DEF f
<1> QED BY <1>2, <1>3, <1>4, DeepEach

LEMMA SupportChildrenSound ==
  ASSUME project \in Projects, NEW x \in Parts, NEW nouns_
  PROVE  Deep(SupportChildren(x, nouns_))
<1> DEFINE below ==
             [j \in DOMAIN x.children |->
                Linked(<<x.children[j].id>>, <<x.id>>, j - 1)
                  \o (IF x.children[j].noun \in nouns_ THEN Members(x.children[j]) ELSE <<>>)]
<1>1. ASSUME NEW j \in DOMAIN x.children PROVE Deep(below[j])
  <2>1. Deep(Linked(<<x.children[j].id>>, <<x.id>>, j - 1))
    BY ChildPlaced, DeepOne
  <2>2. Deep(IF x.children[j].noun \in nouns_ THEN Members(x.children[j]) ELSE <<>>)
    BY PartsHold, MembersSound, DeepEmpty
  <2>3. Deep(Linked(<<x.children[j].id>>, <<x.id>>, j - 1)
                \o (IF x.children[j].noun \in nouns_ THEN Members(x.children[j]) ELSE <<>>))
    BY <2>1, <2>2, DeepBoth
  <2> QED BY <2>3
<1>2. SupportChildren(x, nouns_) = FlattenSeq(<<>> \o below)
  BY DEF SupportChildren, Each
<1>3. below = [j \in DOMAIN x.children |-> below[j]] /\ IsList(x.children)
  BY PartsHold
<1> HIDE DEF below
<1> QED BY <1>1, <1>2, <1>3, DeepEach

LEMMA SupportsSound ==
  ASSUME project \in Projects, NEW stru, NEW rest, IsList(stru), IsList(rest),
         Range(stru) \subseteq Parts, Range(rest) \subseteq Parts, NEW major
  PROVE  Deep(set_pbs_supp_and_stru_node(stru, rest, major))
<1> DEFINE nodes == stru \o rest
           plain(i) ==
             IF ~InRoom(stru[i]) THEN <<>>
             ELSE Part(i - 1, stru[i], major) \o SupportChildren(stru[i], {"FRMW"})
           named(x) == InRoom(x) /\ x.fix # <<>>
           first(i) ==
             \A k \in 1 .. i - 1 : named(nodes[k]) => FixedId(nodes[k]) # FixedId(nodes[i])
           support(i) ==
             IF ~named(nodes[i]) THEN <<>>
             ELSE (IF first(i)
                   THEN Linked(FixedId(nodes[i]), MajorId(nodes[i].room, major), i - 1) ELSE <<>>)
                    \o Linked(<<nodes[i].id>>, FixedId(nodes[i]), IF nodes[i].noun = "STRU" THEN 0 ELSE 1)
                    \o SupportChildren(nodes[i], {"FRMW", "HANG"})
           f == [i \in DOMAIN stru |-> plain(i)]
           g == [i \in DOMAIN nodes |-> support(i)]
<1>1. set_pbs_supp_and_stru_node(stru, rest, major)
        = IF major \in OnlyStru THEN FlattenSeq(<<>> \o f) ELSE FlattenSeq(<<>> \o g)
  BY DEF set_pbs_supp_and_stru_node, Each
<1>2. ASSUME NEW i \in DOMAIN stru PROVE Deep(f[i])
  <2>1. stru[i] \in Parts
    BY DEF Range
  <2>2. Deep(Part(i - 1, stru[i], major)) /\ Deep(SupportChildren(stru[i], {"FRMW"}))
    BY <2>1, PartSound, SupportChildrenSound
  <2>3. Deep(plain(i))
    BY <2>2, DeepBoth, DeepEmpty
  <2> QED BY <2>3
<1>3. IsList(nodes) /\ Range(nodes) \subseteq Parts
  BY BothLists
<1> HIDE DEF nodes
<1>4. ASSUME NEW i \in DOMAIN nodes PROVE Deep(g[i])
  <2> DEFINE x == nodes[i]
  <2>1. x \in Parts
    BY <1>3 DEF Range
  <2> HIDE DEF x
  <2>2. CASE named(x)
    <3>1. x.fix[1] \in FixNames /\ x.id \in PartNames
      BY <2>1, <2>2, PartsHold
    <3>2. DeepPlaced(FixedId(x), MajorId(x.room, major)) /\ DeepPlaced(<<x.id>>, FixedId(x))
      BY <3>1 DEF DeepPlaced, FixedId, MajorId, IsPair
    <3>3. /\ Deep(Linked(FixedId(x), MajorId(x.room, major), i - 1))
          /\ Deep(Linked(<<x.id>>, FixedId(x), IF x.noun = "STRU" THEN 0 ELSE 1))
          /\ Deep(SupportChildren(x, {"FRMW", "HANG"}))
      BY <2>1, <3>2, DeepOne, SupportChildrenSound
    <3>4. Deep(IF first(i) THEN Linked(FixedId(x), MajorId(x.room, major), i - 1) ELSE <<>>)
      BY <3>3, DeepEmpty
    <3> HIDE DEF first
    <3>5. Deep((IF first(i) THEN Linked(FixedId(x), MajorId(x.room, major), i - 1) ELSE <<>>)
                  \o Linked(<<x.id>>, FixedId(x), IF x.noun = "STRU" THEN 0 ELSE 1))
      BY <3>3, <3>4, DeepBoth
    <3>6. Deep((IF first(i) THEN Linked(FixedId(x), MajorId(x.room, major), i - 1) ELSE <<>>)
                  \o Linked(<<x.id>>, FixedId(x), IF x.noun = "STRU" THEN 0 ELSE 1)
                  \o SupportChildren(x, {"FRMW", "HANG"}))
      BY <3>3, <3>5, DeepBoth
    <3> QED BY <2>2, <3>6 DEF x
  <2>3. CASE ~named(x)
    BY <2>3, DeepEmpty DEF x
  <2> QED BY <2>2, <2>3
<1>5. f = [i \in DOMAIN stru |-> f[i]] /\ g = [i \in DOMAIN nodes |-> g[i]]
  OBVIOUS
<1> HIDE DEF f, g
<1>6. Deep(FlattenSeq(<<>> \o f)) /\ Deep(FlattenSeq(<<>> \o g))
  BY <1>2, <1>3, <1>4, <1>5, DeepEach
<1> QED BY <1>1, <1>6

-----------------------------------------------------------------------------
(* The disciplines of the rooms. A discipline with the code of its zone     *)
(* comes before it, which insert ignore then leaves out.                    *)

LEMMA SheetMajorsAre ==
  /\ IsList(SheetMajors)
  /\ \A i \in DOMAIN SheetMajors :
       \/ SheetMajors[i].above = NoCell
       \/ \E j \in 1 .. i - 1 :
            /\ j \in DOMAIN SheetMajors
            /\ SheetMajors[j].code = SheetMajors[i].above /\ SheetMajors[j].above = NoCell
<1> DEFINE site(i) == [code |-> SheetLevels[i].code, above |-> NoCell, order |-> i - 1]
           zone(i) == [j \in DOMAIN SheetLevels[i].zones |->
                         <<[code |-> SheetLevels[i].zones[j].zoneCode, above |-> SheetLevels[i].code,
                            order |-> j - 1]>>]
           both(i) == <<site(i)>> \o FlattenSeq(<<>> \o zone(i))
           f == [i \in DOMAIN SheetLevels |-> both(i)]
<1>1. SheetMajors = FlattenSeq(<<>> \o f)
  BY DEF SheetMajors, Each
<1>2. IsList(SheetLevels) /\ \A i \in DOMAIN SheetLevels : IsList(SheetLevels[i].zones)
  BY SheetIsRead
<1>3. ASSUME NEW i \in DOMAIN SheetLevels
      PROVE  /\ IsList(FlattenSeq(<<>> \o zone(i)))
             /\ \A m \in Range(FlattenSeq(<<>> \o zone(i))) : m.above = SheetLevels[i].code
  <2> DEFINE z == zone(i)
  <2>1. ASSUME NEW j \in DOMAIN SheetLevels[i].zones
        PROVE  IsList(z[j]) /\ \A m \in Range(z[j]) : m.above = SheetLevels[i].code
    <3> DEFINE row == [code |-> SheetLevels[i].zones[j].zoneCode, above |-> SheetLevels[i].code, order |-> j - 1]
    <3>1. z[j] = <<row>> /\ row.above = SheetLevels[i].code
      OBVIOUS
    <3> HIDE DEF row, z
    <3> QED BY <3>1, OneList
  <2>2. z = [j \in DOMAIN SheetLevels[i].zones |-> z[j]]
    OBVIOUS
  <2>3. IsList(SheetLevels[i].zones)
    BY <1>2
  <2> HIDE DEF z
  <2>4. /\ <<>> \o z = z /\ IsList(FlattenSeq(z))
        /\ \A e \in Range(FlattenSeq(z)) : \E j \in DOMAIN SheetLevels[i].zones : e \in Range(z[j])
    BY <2>1, <2>2, <2>3, EachList
  <2>5. IsList(FlattenSeq(<<>> \o z)) /\ \A m \in Range(FlattenSeq(<<>> \o z)) : m.above = SheetLevels[i].code
    BY <2>1, <2>4
  <2> QED BY <2>5 DEF z
<1>4. ASSUME NEW i \in DOMAIN SheetLevels
      PROVE  /\ IsList(f[i]) /\ 1 \in DOMAIN f[i] /\ f[i][1].code = SheetLevels[i].code /\ f[i][1].above = NoCell
             /\ \A m \in Range(f[i]) : m.above \in {NoCell, SheetLevels[i].code}
  <2> DEFINE s == site(i)  t == FlattenSeq(<<>> \o zone(i))
  <2>1. IsList(t) /\ \A m \in Range(t) : m.above = SheetLevels[i].code
    BY <1>3
  <2>2. s.code = SheetLevels[i].code /\ s.above = NoCell /\ f[i] = <<s>> \o t
    OBVIOUS
  <2> HIDE DEF s, t, f
  <2>3. IsList(<<s>>) /\ Range(<<s>>) = {s} /\ Len(<<s>>) = 1 /\ <<s>>[1] = s
    BY OneList
  <2>4. IsList(f[i]) /\ Range(f[i]) = {s} \union Range(t)
    BY <2>1, <2>2, <2>3, BothLists
  <2>5. 1 \in DOMAIN f[i] /\ f[i][1] = s
    <3> DEFINE S == {s} \union Range(t)
    <3>1. <<s>> \in Seq(S) /\ t \in Seq(S)
      BY <2>1, <2>3, SeqMonotonic DEF IsList
    <3> HIDE DEF S
    <3>2. Len(t) \in Nat
      BY <2>1, ListIs
    <3>3. /\ Len(<<s>> \o t) = Len(<<s>>) + Len(t)
          /\ \A k \in 1 .. Len(<<s>>) + Len(t) :
               (<<s>> \o t)[k] = IF k <= Len(<<s>>) THEN <<s>>[k] ELSE t[k - Len(<<s>>)]
      BY <3>1, ConcatProperties
    <3>4. Len(f[i]) = 1 + Len(t) /\ (<<s>> \o t)[1] = s
      BY <2>2, <2>3, <3>2, <3>3
    <3>5. 1 \in 1 .. Len(f[i])
      BY <3>2, <3>4
    <3> QED BY <2>2, <2>4, <3>4, <3>5, ListIs
  <2> QED BY <2>1, <2>2, <2>4, <2>5
<1>5. f = [i \in DOMAIN SheetLevels |-> f[i]]
  OBVIOUS
<1> HIDE DEF f
<1>6. /\ <<>> \o f = f /\ DOMAIN f = DOMAIN SheetLevels /\ IsList(FlattenSeq(f))
      /\ \E b : Offsets(b, FlattenSeq(f), f)
  BY <1>2, <1>4, <1>5, EachList
<1>7. PICK b : Offsets(b, SheetMajors, f)
  BY <1>1, <1>6
<1>8. IsList(SheetMajors)
  BY <1>1, <1>6
<1>9. ASSUME NEW i \in DOMAIN SheetMajors, SheetMajors[i].above # NoCell
      PROVE  \E j \in 1 .. i - 1 :
               /\ j \in DOMAIN SheetMajors
               /\ SheetMajors[j].code = SheetMajors[i].above /\ SheetMajors[j].above = NoCell
  <2>1. PICK k \in DOMAIN f : \E o \in DOMAIN f[k] : i = b[k] + o
    BY <1>7 DEF Offsets
  <2>2. PICK o \in DOMAIN f[k] : i = b[k] + o
    BY <2>1
  <2>3. k \in DOMAIN SheetLevels /\ IsList(f[k]) /\ b[k] \in Nat
    BY <1>4, <1>6, <1>7 DEF Offsets
  <2>4. SheetMajors[i] = f[k][o] /\ b[k] + 1 \in DOMAIN SheetMajors /\ SheetMajors[b[k] + 1] = f[k][1]
    BY <1>4, <1>7, <2>2, <2>3 DEF Offsets
  <2>5. f[k][o] \in Range(f[k])
    BY DEF Range
  <2>6. SheetMajors[i].above = SheetLevels[k].code
    BY <1>4, <1>9, <2>3, <2>4, <2>5
  <2>7. o # 1
    BY <1>4, <1>9, <2>3, <2>4
  <2>8. o \in Nat \ {0}
    BY <2>3, ListIs
  <2>9. b[k] + 1 \in 1 .. i - 1
    BY <2>2, <2>3, <2>7, <2>8
  <2> QED BY <1>4, <2>3, <2>4, <2>6, <2>9
<1> QED BY <1>8, <1>9


\* What is saved: a row that hangs below itself comes after another of its id.
Led(s) ==
  \A i \in DOMAIN s : s[i].owner = s[i].id => \E j \in DOMAIN s : j < i /\ s[j].id = s[i].id
Kept(s) == IsList(s) /\ (\A e \in Range(s) : Owned(e.id, e.owner)) /\ Led(s)
Whole(s) == \A e \in Range(s) : "row" \in e.what

LEMMA SoundIsKept ==
  ASSUME project \in Projects, NEW s, Sound(s)
  PROVE  Kept(s)
<1>1. \A e \in Range(s) : Placed(e.id, e.owner) /\ e.owner # e.id
  BY PlacedElsewhere DEF Sound
<1>2. \A i \in DOMAIN s : s[i] \in Range(s)
  BY DEF Range
<1>3. \A i \in DOMAIN s : s[i].owner # s[i].id
  BY <1>1, <1>2
<1> QED BY <1>1, <1>3 DEF Kept, Led, Sound, Owned

LEMMA RoomMajorsKept ==
  ASSUME NEW n \in RoomNames
  PROVE  /\ Kept(RoomMajorNodes(n)) /\ Whole(RoomMajorNodes(n))
         /\ \A e \in Range(RoomMajorNodes(n)) : IsPair(e.id)
<1> DEFINE s == RoomMajorNodes(n)
           above(m) == IF m.above = NoCell THEN <<n>> ELSE MajorId(n, m.above)
<1>1. /\ DOMAIN s = DOMAIN SheetMajors
      /\ s = [i \in DOMAIN SheetMajors |-> s[i]]
      /\ \A i \in DOMAIN SheetMajors :
           s[i] = Node(MajorId(n, SheetMajors[i].code), above(SheetMajors[i]), SheetMajors[i].order, Both)
  BY DEF RoomMajorNodes
<1> HIDE DEF s
<1>2. \A i \in DOMAIN SheetMajors :
        /\ s[i].id = <<n, SheetMajors[i].code>> /\ s[i].owner = above(SheetMajors[i]) /\ s[i].what = Both
  <2> SUFFICES ASSUME NEW i \in DOMAIN SheetMajors
               PROVE  /\ s[i].id = <<n, SheetMajors[i].code>> /\ s[i].owner = above(SheetMajors[i])
                      /\ s[i].what = Both
    OBVIOUS
  <2> DEFINE id == MajorId(n, SheetMajors[i].code)  owner == above(SheetMajors[i])
             order == SheetMajors[i].order
  <2>1. s[i] = Node(id, owner, order, Both)
    BY <1>1
  <2>2. id = <<n, SheetMajors[i].code>> /\ owner = above(SheetMajors[i])
    BY DEF MajorId
  <2> HIDE DEF id, owner, order, above
  <2>3. s[i].id = id /\ s[i].owner = owner /\ s[i].what = Both
    BY <2>1, NodeIs
  <2> QED BY <2>2, <2>3
<1>3. Len(SheetMajors) \in Nat /\ DOMAIN SheetMajors = 1 .. Len(SheetMajors)
  BY SheetMajorsAre, ListIs
<1>4. IsList(s)
  BY <1>1, <1>3, FunctionsAreLists
<1>5. ASSUME NEW e \in Range(s) PROVE Owned(e.id, e.owner) /\ "row" \in e.what
  <2>1. PICK i \in DOMAIN SheetMajors : e = s[i]
    BY <1>1 DEF Range
  <2>2. SheetMajors[i] \in Range(SheetMajors)
    BY DEF Range
  <2>3. Listed(e.id, e.owner)
    BY <1>2, <2>1, <2>2 DEF Listed, MajorId
  <2>4. "row" \in e.what
    <3>1. e.what = Both /\ "row" \in Both
      BY <1>2, <2>1 DEF Both
    <3> QED BY <3>1
  <2> QED BY <2>3, <2>4 DEF Owned
<1>6. ASSUME NEW i \in DOMAIN s, s[i].owner = s[i].id
      PROVE  \E j \in DOMAIN s : j < i /\ s[j].id = s[i].id
  <2>1. i \in DOMAIN SheetMajors /\ s[i].id = <<n, SheetMajors[i].code>> /\ s[i].owner = above(SheetMajors[i])
    BY <1>1, <1>2
  <2>2. SheetMajors[i].above # NoCell
    BY <1>6, <2>1, Ids
  <2>3. <<n, SheetMajors[i].above>> = <<n, SheetMajors[i].code>>
    BY <1>6, <2>1, <2>2 DEF MajorId
  <2>4. SheetMajors[i].above = SheetMajors[i].code
    BY <2>3, Ids
  <2>5. PICK j \in 1 .. i - 1 : j \in DOMAIN SheetMajors /\ SheetMajors[j].code = SheetMajors[i].above
    BY <2>1, <2>2, SheetMajorsAre
  <2>6. s[j].id = <<n, SheetMajors[j].code>> /\ s[i].id = <<n, SheetMajors[i].code>>
    BY <1>2, <2>1, <2>5
  <2>7. SheetMajors[j].code = SheetMajors[i].code
    BY <2>4, <2>5
  <2>8. s[j].id = s[i].id
    BY <2>6, <2>7
  <2>9. i \in Nat /\ j < i
    BY <1>3, <2>1, <2>5
  <2>10. j \in DOMAIN s
    BY <1>1, <2>5
  <2> QED BY <2>8, <2>9, <2>10
<1>7. Kept(s) /\ Whole(s)
  BY <1>4, <1>5, <1>6 DEF Kept, Whole, Led
<1>8. \A e \in Range(s) : IsPair(e.id)
  BY <1>1, <1>2 DEF Range, IsPair
<1> QED BY <1>7, <1>8 DEF s

\* What is kept of the members of a list is kept of all of it.
LEMMA KeptEach ==
  ASSUME NEW seq, IsList(seq), NEW f, f = [i \in DOMAIN seq |-> f[i]],
         \A i \in DOMAIN seq : Kept(f[i]) /\ Whole(f[i])
  PROVE  Kept(FlattenSeq(<<>> \o f)) /\ Whole(FlattenSeq(<<>> \o f))
<1>1. \A i \in DOMAIN seq : IsList(f[i])
  BY DEF Kept
<1>2. /\ <<>> \o f = f /\ DOMAIN f = DOMAIN seq /\ IsList(FlattenSeq(f))
      /\ \A e \in Range(FlattenSeq(f)) : \E i \in DOMAIN seq : e \in Range(f[i])
      /\ \E b : Offsets(b, FlattenSeq(f), f)
  BY <1>1, EachList
<1> DEFINE all == FlattenSeq(f)
<1> HIDE DEF all
<1>3. PICK b : Offsets(b, all, f)
  BY <1>2 DEF all
<1>4. ASSUME NEW i \in DOMAIN all, all[i].owner = all[i].id
      PROVE  \E j \in DOMAIN all : j < i /\ all[j].id = all[i].id
  <2>1. PICK k \in DOMAIN f : \E o \in DOMAIN f[k] : i = b[k] + o
    BY <1>3 DEF Offsets
  <2>2. PICK o \in DOMAIN f[k] : i = b[k] + o
    BY <2>1
  <2>3. all[i] = f[k][o]
    BY <1>3, <2>2 DEF Offsets
  <2>4. PICK p \in DOMAIN f[k] : p < o /\ f[k][p].id = f[k][o].id
    BY <1>2, <1>4, <2>3 DEF Kept, Led
  <2>5. b[k] + p \in DOMAIN all /\ all[b[k] + p] = f[k][p] /\ b[k] \in Nat
    BY <1>3 DEF Offsets
  <2>6. DOMAIN f[k] = 1 .. Len(f[k]) /\ Len(f[k]) \in Nat
    BY <1>1, <1>2, ListIs
  <2>7. b[k] + p < i
    BY <2>2, <2>4, <2>5, <2>6
  <2> QED BY <2>3, <2>4, <2>5, <2>7
<1>5. Kept(all) /\ Whole(all)
  BY <1>2, <1>4 DEF Kept, Led, Whole, all
<1> QED BY <1>2, <1>5 DEF all

\* The rows among what was collected.
LEMMA PickedAre ==
  ASSUME NEW all, IsList(all), NEW what
  PROVE  /\ IsList(Picked(all, what)) /\ Range(Picked(all, what)) \subseteq Range(all)
         /\ Whole(all) /\ Led(all) /\ what = "row" => Led(Picked(all, what))
<1> DEFINE f == [i \in DOMAIN all |-> IF what \in all[i].what THEN <<all[i]>> ELSE <<>>]
<1>1. Picked(all, what) = FlattenSeq(<<>> \o f)
  BY DEF Picked, Each
<1>2. \A i \in DOMAIN all : f[i] = IF what \in all[i].what THEN <<all[i]>> ELSE <<>>
  OBVIOUS
<1>3. f = [i \in DOMAIN all |-> f[i]]
  OBVIOUS
<1> HIDE DEF f
<1>4. \A i \in DOMAIN all : IsList(f[i]) /\ Range(f[i]) \subseteq {all[i]}
  BY <1>2, OneList, EmptyList
<1>5. /\ <<>> \o f = f /\ DOMAIN f = DOMAIN all /\ IsList(FlattenSeq(f))
      /\ \A e \in Range(FlattenSeq(f)) : \E i \in DOMAIN all : e \in Range(f[i])
      /\ \E b : Offsets(b, FlattenSeq(f), f)
  BY <1>3, <1>4, EachList
<1> DEFINE p == FlattenSeq(f)
<1> HIDE DEF p
<1>6. p = Picked(all, what) /\ IsList(p)
  BY <1>1, <1>5 DEF p
<1>7. Range(p) \subseteq Range(all)
  <2> SUFFICES ASSUME NEW e \in Range(p) PROVE e \in Range(all)
    OBVIOUS
  <2>1. PICK i \in DOMAIN all : e \in Range(f[i])
    BY <1>5 DEF p
  <2>2. e = all[i]
    BY <1>4, <2>1
  <2> QED BY <2>2 DEF Range
<1>8. ASSUME Whole(all), Led(all), what = "row" PROVE Led(p)
  <2>1. \A i \in DOMAIN all : f[i] = <<all[i]>> /\ DOMAIN f[i] = {1} /\ f[i][1] = all[i] /\ Len(f[i]) = 1
    <3> SUFFICES ASSUME NEW i \in DOMAIN all
                 PROVE  f[i] = <<all[i]>> /\ DOMAIN f[i] = {1} /\ f[i][1] = all[i] /\ Len(f[i]) = 1
      OBVIOUS
    <3>1. "row" \in all[i].what
      BY <1>8 DEF Whole, Range
    <3>2. f[i] = <<all[i]>>
      BY <1>2, <1>8, <3>1
    <3> QED BY <3>2
  <2>2. PICK b : Offsets(b, p, f)
    BY <1>5 DEF p
  <2>3. \A k \in DOMAIN all : b[k] \in Nat /\ b[k] + 1 \in DOMAIN p /\ p[b[k] + 1] = all[k]
    BY <1>5, <2>1, <2>2 DEF Offsets
  <2> SUFFICES ASSUME NEW i \in DOMAIN p, p[i].owner = p[i].id
               PROVE  \E j \in DOMAIN p : j < i /\ p[j].id = p[i].id
    BY DEF Led
  <2>4. PICK k \in DOMAIN all : i = b[k] + 1
    BY <1>5, <2>1, <2>2 DEF Offsets
  <2>5. PICK j \in DOMAIN all : j < k /\ all[j].id = all[k].id
    BY <1>8, <2>3, <2>4 DEF Led
  <2>6. b[j] + 1 <= b[k]
    BY <1>5, <2>1, <2>2, <2>5 DEF Offsets
  <2>7. b[j] + 1 < i
    BY <2>3, <2>4, <2>6
  <2> QED BY <2>3, <2>4, <2>5, <2>7
<1> QED BY <1>6, <1>7, <1>8

LEMMA SoundSaves ==
  ASSUME project \in Projects, NEW all, Sound(all)
  PROVE  Kept(Picked(all, "row"))
<1>1. IsList(all)
  BY DEF Sound
<1>2. Sound(Picked(all, "row"))
  BY <1>1, PickedAre DEF Sound
<1> QED BY <1>2, SoundIsKept

LEMMA KeptSaves ==
  ASSUME NEW all, Kept(all), Whole(all)
  PROVE  Kept(Picked(all, "row"))
<1> DEFINE p == Picked(all, "row")
<1>1. IsList(p) /\ Range(p) \subseteq Range(all) /\ Led(p)
  BY PickedAre DEF Kept
<1> HIDE DEF p
<1>2. Kept(p)
  BY <1>1 DEF Kept
<1> QED BY <1>2 DEF p

-----------------------------------------------------------------------------
(* What is inserted.                                                        *)

\* Some of the rows, chunk by chunk.
LEMMA ChunkRows ==
  ASSUME NEW rows, IsList(rows), NEW k \in Nat \ {0}
  PROVE  IsList(Chunk(rows, k)) /\ Range(Chunk(rows, k)) \subseteq Range(rows)
<1> DEFINE m == (k - 1) * ChunkLen + 1
           n == IF k * ChunkLen < Len(rows) THEN k * ChunkLen ELSE Len(rows)
<1>1. Len(rows) \in Nat /\ DOMAIN rows = 1 .. Len(rows)
  BY ListIs
<1>2. m \in Nat \ {0} /\ n \in Nat /\ n <= Len(rows)
  <2>1. ChunkLen \in Nat /\ k - 1 \in Nat
    BY ChunkAssumption
  <2>2. \A a, c \in Nat : a * c \in Nat
    OBVIOUS
  <2>3. (k - 1) * ChunkLen \in Nat /\ k * ChunkLen \in Nat
    BY <2>1, <2>2
  <2> QED BY <1>1, <2>3
<1> HIDE DEF m, n
<1>3. \A i \in m .. n : rows[i] \in Range(rows)
  BY <1>1, <1>2 DEF Range
<1>4. SubSeq(rows, m, n) \in Seq(Range(rows))
  BY <1>2, <1>3, SubSeqProperties
<1>5. Chunk(rows, k) = SubSeq(rows, m, n)
  BY DEF Chunk, m, n
<1>6. \A i \in DOMAIN SubSeq(rows, m, n) : SubSeq(rows, m, n)[i] \in Range(rows)
  BY <1>4, ElementOfSeq, LenProperties
<1> QED BY <1>4, <1>5, <1>6, ListsAreSeqs DEF Range

LEMMA ChunksRows ==
  ASSUME NEW rows, IsList(rows), NEW ks, NEW but,
         but = FlattenSeq([k \in 1 .. Chunks(rows) |-> IF k \in ks THEN <<>> ELSE Chunk(rows, k)])
  PROVE  IsList(but) /\ Range(but) \subseteq Range(rows)
<1> DEFINE n == Chunks(rows)  f == [k \in 1 .. n |-> IF k \in ks THEN <<>> ELSE Chunk(rows, k)]
<1>1. n \in Nat
  <2>1. Len(rows) \in Nat /\ ChunkLen \in Nat \ {0}
    BY ListIs, ChunkAssumption
  <2>2. \A a \in Nat, c \in Nat \ {0} : (a + c - 1) \div c \in Nat
    OBVIOUS
  <2> QED BY <2>1, <2>2 DEF Chunks
<1>2. but = FlattenSeq(f)
  OBVIOUS
<1>3. DOMAIN f = 1 .. n /\ f = [k \in 1 .. n |-> f[k]]
  OBVIOUS
<1> HIDE DEF n
<1>4. \A k \in 1 .. n : IsList(f[k]) /\ Range(f[k]) \subseteq Range(rows)
  <2> SUFFICES ASSUME NEW k \in 1 .. n PROVE IsList(f[k]) /\ Range(f[k]) \subseteq Range(rows)
    OBVIOUS
  <2>1. k \in Nat \ {0}
    BY <1>1
  <2>2. IsList(Chunk(rows, k)) /\ Range(Chunk(rows, k)) \subseteq Range(rows)
    BY <2>1, ChunkRows
  <2>3. f[k] = <<>> \/ f[k] = Chunk(rows, k)
    OBVIOUS
  <2> QED BY <2>2, <2>3, EmptyList
<1> HIDE DEF f
<1>5. IsList(f)
  BY <1>1, <1>3, FunctionsAreLists
<1>6. /\ IsList(FlattenSeq(f))
      /\ \A e \in Range(FlattenSeq(f)) : \E k \in DOMAIN f : e \in Range(f[k])
  BY <1>3, <1>4, <1>5, JoinedLists
<1> QED BY <1>2, <1>3, <1>4, <1>6

\* Every row of the table is as it was or the first of its id.
LEMMA InsertedRows ==
  ASSUME NEW table, NEW rows, IsList(rows), NEW id \in DOMAIN Inserted(table, rows)
  PROVE  \/ id \in DOMAIN table /\ Inserted(table, rows)[id] = table[id]
         \/ \E i \in DOMAIN rows :
              /\ rows[i].id = id /\ rows[i].owner = Inserted(table, rows)[id]
              /\ \A j \in 1 .. i - 1 : rows[j].id # id
<1> DEFINE new == [x \in IdsOf(rows) |-> rows[FirstRow(rows, x)].owner]
<1>1. Inserted(table, rows) =
        [x \in DOMAIN table \union DOMAIN new |-> IF x \in DOMAIN table THEN table[x] ELSE new[x]]
  BY DEF Inserted, InsertIgnore
<1>2. DOMAIN new = IdsOf(rows) /\ \A x \in IdsOf(rows) : new[x] = rows[FirstRow(rows, x)].owner
  OBVIOUS
<1> HIDE DEF new
<1>3. CASE id \in DOMAIN table
  BY <1>1, <1>3
<1>4. CASE id \notin DOMAIN table
  <2>1. id \in IdsOf(rows) /\ Inserted(table, rows)[id] = rows[FirstRow(rows, id)].owner
    BY <1>1, <1>2, <1>4
  <2> DEFINE T == {i \in DOMAIN rows : rows[i].id = id}
  <2>2. Len(rows) \in Nat /\ DOMAIN rows = 1 .. Len(rows)
    BY ListIs
  <2>3. T # {} /\ T \subseteq Nat
    BY <2>1, <2>2 DEF IdsOf
  <2> HIDE DEF T
  <2>4. PICK i \in T : \A m \in T : i <= m
    BY <2>3, Least
  <2>5. i \in DOMAIN rows /\ rows[i].id = id /\ \A j \in 1 .. i - 1 : rows[j].id # id
    <3>1. ASSUME NEW j \in 1 .. i - 1, rows[j].id = id PROVE FALSE
      <4>1. j \in T /\ i \in 1 .. Len(rows)
        BY <2>2, <2>4, <3>1 DEF T
      <4> QED BY <2>4, <4>1
    <3> QED BY <2>4, <3>1 DEF T
  <2> DEFINE First(x) == x \in DOMAIN rows /\ rows[x].id = id /\ \A j \in 1 .. x - 1 : rows[j].id # id
  <2>6. FirstRow(rows, id) = CHOOSE x : First(x)
    BY DEF FirstRow
  <2>7. First(i)
    BY <2>5
  <2> HIDE DEF First
  <2>8. First(FirstRow(rows, id))
    BY <2>6, <2>7
  <2> QED BY <2>1, <2>8 DEF First
<1> QED BY <1>3, <1>4

-----------------------------------------------------------------------------
(* The invariant.                                                           *)

Kinds == {"BRAN", "EQUI", "SUPP"}
ZonesAre ==
  IsList(zones) /\ \A z \in Range(zones) : z[1] \in DOMAIN project.parts /\ z[2] \in Kinds
\* A row below itself is what a failure leaves.
RowsAre(table) ==
  \A id \in DOMAIN table : Owned(id, table[id]) /\ (faults = 0 => table[id] # id)
BatchIs == Kept(batch.rows) /\ batch.step \in {"idle", "insert", "relate"}
TreeInv ==
  project \in Projects /\ faults \in Nat /\ RoomsAre /\ ZonesAre /\ RowsAre(pbs) /\ BatchIs

\* Which kind of node hangs below which depends on the project alone.
LEMMA OwnedElsewhere ==
  ASSUME project' = project, NEW id, NEW owner
  PROVE  Owned(id, owner)' <=> Owned(id, owner)
<1>1. Parts' = Parts /\ Rooms' = Rooms /\ Factories' = Factories
  BY DEF Parts, Rooms, Factories
<1>2. RoomNames' = RoomNames /\ LevelNames' = LevelNames
  BY <1>1 DEF RoomNames, LevelNames
<1>3. FixNames' = FixNames /\ PartNames' = PartNames
  BY <1>1 DEF FixNames, PartNames
<1>4. ChildNames' = ChildNames /\ MemberNames' = MemberNames
  BY DEF ChildNames, MemberNames
<1>5. Placed(id, owner)' <=> Placed(id, owner)
  BY <1>1, <1>2, <1>3, <1>4 DEF Placed
<1>6. Listed(id, owner)' <=> Listed(id, owner)
  BY <1>2 DEF Listed
<1> QED BY <1>5, <1>6 DEF Owned

LEMMA KeptElsewhere ==
  ASSUME project' = project, NEW s
  PROVE  Kept(s)' <=> Kept(s)
<1>1. (\A e \in Range(s) : Owned(e.id, e.owner))' <=> \A e \in Range(s) : Owned(e.id, e.owner)
  BY OwnedElsewhere
<1> QED BY <1>1 DEF Kept

\* An insert of rows leaves a table of owned rows, none of them below itself
\* unless some were lost.
LEMMA InsertKeeps ==
  ASSUME project \in Projects, project' = project, RowsAre(pbs), faults \in Nat,
         NEW rows, IsList(rows), \A e \in Range(rows) : Owned(e.id, e.owner),
         pbs' = Inserted(pbs, rows),
         (faults' = 0 => faults = 0 /\ Led(rows))
  PROVE  RowsAre(pbs)'
<1> SUFFICES ASSUME NEW id \in DOMAIN pbs'
             PROVE  Owned(id, pbs[id])' /\ (faults' = 0 => pbs'[id] # id)
  BY DEF RowsAre
<1>1. CASE id \in DOMAIN pbs /\ pbs'[id] = pbs[id]
  BY <1>1, OwnedElsewhere DEF RowsAre
<1>2. CASE \E i \in DOMAIN rows :
             /\ rows[i].id = id /\ rows[i].owner = pbs'[id]
             /\ \A j \in 1 .. i - 1 : rows[j].id # id
  <2>1. PICK i \in DOMAIN rows :
          /\ rows[i].id = id /\ rows[i].owner = pbs'[id]
          /\ \A j \in 1 .. i - 1 : rows[j].id # id
    BY <1>2
  <2>2. rows[i] \in Range(rows)
    BY DEF Range
  <2>3. Owned(id, pbs[id])'
    BY <2>1, <2>2, OwnedElsewhere
  <2>4. ASSUME Led(rows), pbs'[id] = id PROVE FALSE
    <3>1. PICK j \in DOMAIN rows : j < i /\ rows[j].id = rows[i].id
      BY <2>1, <2>4 DEF Led
    <3>2. j \in 1 .. i - 1
      BY <3>1, ListIs
    <3> QED BY <2>1, <3>1, <3>2
  <2> QED BY <2>3, <2>4
<1> QED BY <1>1, <1>2, InsertedRows

LEMMA InsertStep ==
  ASSUME TreeInv, insert_pe_into_table_with_chunks
  PROVE  TreeInv'
<1>0. project' = project /\ (NoFault \/ Fault)
  BY DEF insert_pe_into_table_with_chunks
<1> USE DEF Fault, NoFault
<1>1. faults' \in Nat /\ project' = project /\ (faults' = 0 => faults = 0)
  BY <1>0 DEF TreeInv
<1> USE DEF insert_pe_into_table_with_chunks
<1>2. RoomsAre' /\ ZonesAre'
  BY DEF TreeInv, RoomsAre, ZonesAre, Factories
<1>3. batch'.rows = batch.rows /\ batch'.step = "relate"
  OBVIOUS
<1>4. BatchIs'
  BY <1>1, <1>3, KeptElsewhere DEF TreeInv, BatchIs
<1>5. RowsAre(pbs)'
  <2> DEFINE rows == batch.rows
             but(ks) == FlattenSeq([k \in 1 .. Chunks(rows) |-> IF k \in ks THEN <<>> ELSE Chunk(rows, k)])
  <2>1. IsList(rows) /\ (\A e \in Range(rows) : Owned(e.id, e.owner)) /\ Led(rows)
    BY DEF TreeInv, BatchIs, Kept
  <2>2. RowsAre(pbs) /\ faults \in Nat /\ project \in Projects
    BY DEF TreeInv
  <2>3. CASE NoFault /\ pbs' = Inserted(pbs, rows)
    BY <1>1, <2>1, <2>2, <2>3, InsertKeeps
  <2>4. ASSUME NEW ks, Fault, pbs' = Inserted(pbs, but(ks))
        PROVE  RowsAre(pbs)'
    <3> DEFINE b == but(ks)
    <3>1. IsList(b) /\ Range(b) \subseteq Range(rows)
      <4>1. b = FlattenSeq([k \in 1 .. Chunks(rows) |-> IF k \in ks THEN <<>> ELSE Chunk(rows, k)])
        OBVIOUS
      <4> HIDE DEF b, rows
      <4> QED BY <2>1, <4>1, ChunksRows
    <3>2. pbs' = Inserted(pbs, b) /\ \A e \in Range(b) : Owned(e.id, e.owner)
      BY <2>1, <2>4, <3>1
    <3>3. faults' # 0
      BY <2>2, <2>4
    <3> HIDE DEF b
    <3> QED BY <1>1, <2>2, <3>1, <3>2, <3>3, InsertKeeps
  <2>5. \/ NoFault /\ pbs' = Inserted(pbs, rows)
        \/ \E k \in 1 .. Chunks(rows) :
             Fault /\ (pbs' = Inserted(pbs, but({k})) \/ pbs' = Inserted(pbs, but(k .. Chunks(rows))))
    OBVIOUS
  <2> HIDE DEF insert_pe_into_table_with_chunks, rows, but, Fault, NoFault
  <2> QED BY <2>3, <2>4, <2>5
<1> QED BY <1>1, <1>2, <1>4, <1>5 DEF TreeInv

LEMMA AnyOrder ==
  ASSUME NEW S, IsFiniteSet(S), NEW seq \in SetToSeqs(S)
  PROVE  IsList(seq) /\ Range(seq) \subseteq S /\ \A i \in DOMAIN seq : seq[i] \in S
<1>1. Cardinality(S) \in Nat
  BY FS_CardinalityType
<1>2. seq \in [1 .. Cardinality(S) -> S]
  BY DEF SetToSeqs
<1>3. seq \in Seq(S)
  BY <1>1, <1>2, SeqDef
<1> QED BY <1>2, <1>3, ListsAreSeqs DEF Range

\* The number of failures only grows.
Counted == faults' \in Nat /\ (faults' = 0 => faults = 0)

LEMMA CountedFaults ==
  ASSUME faults \in Nat, NoFault \/ Fault \/ faults' = faults
  PROVE  Counted
BY DEF NoFault, Fault, Counted

LEMMA SameTable ==
  ASSUME TreeInv, Counted, project' = project, pbs' = pbs
  PROVE  project' \in Projects /\ faults' \in Nat /\ RowsAre(pbs)'
<1>1. (\A id \in DOMAIN pbs : Owned(id, pbs[id]))'
  BY OwnedElsewhere DEF TreeInv, RowsAre
<1>2. (\A id \in DOMAIN pbs : faults = 0 => pbs[id] # id)'
  BY DEF TreeInv, RowsAre, Counted
<1> QED BY <1>1, <1>2 DEF TreeInv, Counted, RowsAre

LEMMA SameRooms ==
  ASSUME RoomsAre, project' = project, rooms' = rooms
  PROVE  RoomsAre'
BY DEF RoomsAre, Factories

LEMMA SameZones ==
  ASSUME ZonesAre, project' = project, zones' = zones
  PROVE  ZonesAre'
BY DEF ZonesAre

LEMMA SameBatch ==
  ASSUME BatchIs, project' = project, batch' = batch \/ batch' = NoBatch
  PROVE  BatchIs'
<1>1. CASE batch' = batch
  <2>1. Kept(batch.rows)'
    BY <1>1, KeptElsewhere DEF BatchIs
  <2> QED BY <1>1, <2>1 DEF BatchIs
<1>2. CASE batch' = NoBatch
  <2>1. Kept(<<>>)'
    BY EmptyList DEF Kept, Led, Range
  <2>2. batch'.rows = <<>> /\ batch'.step = "idle"
    BY <1>2 DEF NoBatch
  <2> QED BY <2>1, <2>2 DEF BatchIs
<1> QED BY <1>1, <1>2

LEMMA NewBatch ==
  ASSUME project' = project, NEW all, Kept(Picked(all, "row")), Save(all)
  PROVE  BatchIs'
<1> DEFINE rows == Picked(all, "row")
<1>1. batch'.rows = rows /\ batch'.step = "insert"
  BY DEF Save
<1>2. Kept(rows)'
  BY KeptElsewhere
<1> HIDE DEF rows
<1> QED BY <1>1, <1>2 DEF BatchIs

LEMMA RelateStep ==
  ASSUME TreeInv, insert_relate_to_table
  PROVE  TreeInv'
<1>1. /\ project' = project /\ pbs' = pbs /\ rooms' = rooms /\ zones' = zones /\ batch' = NoBatch
      /\ NoFault \/ Fault
  BY DEF insert_relate_to_table, Saved
<1>2. Counted
  BY <1>1, CountedFaults DEF TreeInv
<1> QED
  BY <1>1, <1>2, SameTable, SameRooms, SameZones, SameBatch DEF TreeInv

LEMMA FixedStep ==
  ASSUME TreeInv, set_pbs_fixed_node
  PROVE  TreeInv'
<1>1. /\ project' = project /\ pbs' = pbs /\ rooms' = rooms /\ zones' = zones
      /\ NoFault \/ Fault
      /\ Save(FixedNodes) \/ batch' = batch
  BY DEF set_pbs_fixed_node, Fails
<1>2. Counted
  BY <1>1, CountedFaults DEF TreeInv
<1>3. Kept(Picked(FixedNodes, "row"))
  BY FixedSound, SoundSaves DEF TreeInv
<1>4. BatchIs'
  BY <1>1, <1>3, NewBatch, SameBatch DEF TreeInv
<1> QED
  BY <1>1, <1>2, <1>4, SameTable, SameRooms, SameZones DEF TreeInv

LEMMA OnePerNameIs ==
  ASSUME NEW seq, IsList(seq)
  PROVE  IsList(OnePerName(seq)) /\ Range(OnePerName(seq)) \subseteq Range(seq)
<1> DEFINE f == [i \in DOMAIN seq |-> IF \E k \in 1 .. i - 1 : seq[k].name = seq[i].name THEN <<>> ELSE <<seq[i]>>]
<1>1. OnePerName(seq) = FlattenSeq(<<>> \o f)
  BY DEF OnePerName, Each
<1>2. f = [i \in DOMAIN seq |-> f[i]] /\ \A i \in DOMAIN seq : f[i] = <<>> \/ f[i] = <<seq[i]>>
  OBVIOUS
<1> HIDE DEF f
<1>3. \A i \in DOMAIN seq : IsList(f[i]) /\ Range(f[i]) \subseteq {seq[i]}
  BY <1>2, OneList, EmptyList
<1>4. /\ <<>> \o f = f /\ IsList(FlattenSeq(f))
      /\ \A e \in Range(FlattenSeq(f)) : \E i \in DOMAIN seq : e \in Range(f[i])
  BY <1>2, <1>3, EachList
<1>5. \A i \in DOMAIN seq : seq[i] \in Range(seq)
  BY DEF Range
<1> QED BY <1>1, <1>3, <1>4, <1>5

LEMMA RoomsStep ==
  ASSUME TreeInv, query_all_room_name
  PROVE  TreeInv'
<1>1. /\ project' = project /\ pbs' = pbs /\ batch' = batch /\ zones' = zones
      /\ NoFault \/ Fault
      /\ \/ rooms' = [f \in DOMAIN project.rooms |-> OnePerName(project.rooms[f])]
         \/ rooms' = rooms
  BY DEF query_all_room_name, Fails
<1>2. Counted
  BY <1>1, CountedFaults DEF TreeInv
<1>3. ASSUME rooms' = [f \in DOMAIN project.rooms |-> OnePerName(project.rooms[f])]
      PROVE  RoomsAre'
  <2>1. \A f \in DOMAIN project.rooms :
          IsList(OnePerName(project.rooms[f])) /\ Range(OnePerName(project.rooms[f])) \subseteq Range(project.rooms[f])
    BY ListsAssumption, OnePerNameIs DEF TreeInv
  <2> QED BY <1>1, <1>3, <2>1 DEF RoomsAre, Factories
<1>4. RoomsAre'
  BY <1>1, <1>3, SameRooms DEF TreeInv
<1> QED
  BY <1>1, <1>2, <1>4, SameTable, SameZones, SameBatch DEF TreeInv

LEMMA FactoriesFinite ==
  ASSUME TreeInv
  PROVE  IsFiniteSet(DOMAIN rooms)
<1>1. IsFiniteSet(Factories) /\ DOMAIN rooms \subseteq Factories
  BY ListsAssumption DEF TreeInv, RoomsAre, Factories
<1> QED BY <1>1, FS_Subset

LEMMA RoomNodesStep ==
  ASSUME TreeInv, set_pbs_room_node
  PROVE  TreeInv'
<1>1. /\ project' = project /\ pbs' = pbs /\ rooms' = rooms /\ zones' = zones /\ NoFault
      /\ \/ batch' = batch
         \/ \E factories \in SetToSeqs(DOMAIN rooms) : Save(Each(factories, FactoryNodes))
  BY DEF set_pbs_room_node
<1>2. Counted
  BY <1>1, CountedFaults DEF TreeInv
<1>3. ASSUME NEW factories \in SetToSeqs(DOMAIN rooms) PROVE Sound(Each(factories, FactoryNodes))
  <2> DEFINE f == [i \in DOMAIN factories |-> FactoryNodes(i - 1, factories[i])]
  <2>1. IsList(factories) /\ \A i \in DOMAIN factories : factories[i] \in DOMAIN rooms
    BY FactoriesFinite, AnyOrder
  <2>2. Each(factories, FactoryNodes) = FlattenSeq(<<>> \o f)
    BY DEF Each
  <2>3. ASSUME NEW i \in DOMAIN factories PROVE Sound(f[i])
    <3>1. Sound(FactoryNodes(i - 1, factories[i]))
      BY <2>1, FactorySound DEF TreeInv
    <3> QED BY <3>1
  <2>4. f = [i \in DOMAIN factories |-> f[i]]
    OBVIOUS
  <2> HIDE DEF f
  <2> QED BY <2>1, <2>2, <2>3, <2>4, SoundEach
<1>4. BatchIs'
  BY <1>1, <1>3, SoundSaves, NewBatch, SameBatch DEF TreeInv
<1> QED
  BY <1>1, <1>2, <1>4, SameTable, SameRooms, SameZones DEF TreeInv

LEMMA RoomMajorsStep ==
  ASSUME TreeInv, set_pbs_room_major_node
  PROVE  TreeInv'
<1> DEFINE inOne(f) == [j \in DOMAIN rooms[f] |-> RoomMajorNodes(rooms[f][j].name)]
           inAll(factories) == [i \in DOMAIN factories |-> FlattenSeq(<<>> \o inOne(factories[i]))]
           all(factories) == FlattenSeq(<<>> \o inAll(factories))
<1>1. /\ project' = project /\ pbs' = pbs /\ rooms' = rooms /\ zones' = zones
      /\ NoFault \/ Fault
      /\ \/ batch' = batch
         \/ \E factories \in SetToSeqs(DOMAIN rooms) : Save(all(factories))
  BY DEF set_pbs_room_major_node, Fails, Each
<1>2. Counted
  BY <1>1, CountedFaults DEF TreeInv
<1>3. ASSUME NEW f \in DOMAIN rooms
      PROVE  Kept(FlattenSeq(<<>> \o inOne(f))) /\ Whole(FlattenSeq(<<>> \o inOne(f)))
  <2> DEFINE g == inOne(f)
  <2>1. IsList(rooms[f])
    BY DEF TreeInv, RoomsAre
  <2>2. g = [j \in DOMAIN rooms[f] |-> g[j]]
    OBVIOUS
  <2>3. ASSUME NEW j \in DOMAIN rooms[f] PROVE Kept(g[j]) /\ Whole(g[j])
    <3>1. rooms[f][j].name \in RoomNames
      BY RoomsNamed DEF TreeInv
    <3>2. g[j] = RoomMajorNodes(rooms[f][j].name)
      OBVIOUS
    <3> QED BY <3>1, <3>2, RoomMajorsKept
  <2> HIDE DEF g
  <2>4. Kept(FlattenSeq(<<>> \o g)) /\ Whole(FlattenSeq(<<>> \o g))
    BY <2>1, <2>2, <2>3, KeptEach
  <2> QED BY <2>4 DEF g
<1> HIDE DEF inOne
<1>4. ASSUME NEW factories \in SetToSeqs(DOMAIN rooms) PROVE Kept(all(factories)) /\ Whole(all(factories))
  <2> DEFINE g == inAll(factories)
  <2>1. IsList(factories) /\ \A i \in DOMAIN factories : factories[i] \in DOMAIN rooms
    BY FactoriesFinite, AnyOrder
  <2>2. g = [i \in DOMAIN factories |-> g[i]]
    OBVIOUS
  <2>3. \A i \in DOMAIN factories : Kept(g[i]) /\ Whole(g[i])
    BY <1>3, <2>1
  <2> HIDE DEF g
  <2>4. Kept(FlattenSeq(<<>> \o g)) /\ Whole(FlattenSeq(<<>> \o g))
    BY <2>1, <2>2, <2>3, KeptEach
  <2> QED BY <2>4 DEF g
<1> HIDE DEF all
<1>5. BatchIs'
  BY <1>1, <1>4, KeptSaves, NewBatch, SameBatch DEF TreeInv
<1> QED
  BY <1>1, <1>2, <1>5, SameTable, SameRooms, SameZones DEF TreeInv

LEMMA ZonesStep ==
  ASSUME TreeInv, query_all_zone_with_major
  PROVE  TreeInv'
<1> DEFINE kinds(z) == <<<<z, "BRAN">>, <<z, "EQUI">>, <<z, "SUPP">>>>
           S == DOMAIN majors \intersect DOMAIN project.parts
<1>1. /\ project' = project /\ pbs' = pbs /\ rooms' = rooms /\ batch' = batch
      /\ NoFault \/ Fault
      /\ \/ zones' = zones
         \/ \E order \in SetToSeqs(S) : zones' = FlattenSeq([i \in DOMAIN order |-> kinds(order[i])])
  BY DEF query_all_zone_with_major, Fails
<1>2. Counted
  BY <1>1, CountedFaults DEF TreeInv
<1>3. ASSUME NEW z \in DOMAIN project.parts
      PROVE  /\ IsList(kinds(z))
             /\ \A k \in Range(kinds(z)) : k[1] \in DOMAIN project.parts /\ k[2] \in Kinds
  <2> DEFINE a == <<z, "BRAN">>  b == <<z, "EQUI">>  c == <<z, "SUPP">>
             T == {a, b, c}
  <2>1. \A k \in T : k[1] = z /\ k[2] \in Kinds
    BY DEF Kinds
  <2>2. kinds(z) = <<a, b, c>> /\ a \in T /\ b \in T /\ c \in T
    OBVIOUS
  <2> HIDE DEF a, b, c, T
  <2>3. <<a, b, c>> \in Seq(T)
    BY <2>2
  <2>4. \A k \in Range(<<a, b, c>>) : k \in T
    BY <2>3, LenProperties DEF Range
  <2> QED BY <2>1, <2>2, <2>3, <2>4, ListsAreSeqs
<1> HIDE DEF kinds
<1>4. ASSUME NEW order \in SetToSeqs(S), zones' = FlattenSeq([i \in DOMAIN order |-> kinds(order[i])])
      PROVE  ZonesAre'
  <2>1. IsFiniteSet(S)
    <3>1. IsFiniteSet(DOMAIN project.parts)
      BY ListsAssumption DEF TreeInv
    <3> QED BY <3>1, FS_Subset
  <2>2. IsList(order) /\ \A i \in DOMAIN order : order[i] \in DOMAIN project.parts
    BY <2>1, AnyOrder
  <2> DEFINE f == [i \in DOMAIN order |-> kinds(order[i])]
  <2>3. f = [i \in DOMAIN order |-> f[i]] /\ zones' = FlattenSeq(f)
    BY <1>4
  <2>4. \A i \in DOMAIN order :
          IsList(f[i]) /\ \A k \in Range(f[i]) : k[1] \in DOMAIN project.parts /\ k[2] \in Kinds
    BY <1>3, <2>2
  <2> HIDE DEF f
  <2>5. /\ IsList(FlattenSeq(f))
        /\ \A e \in Range(FlattenSeq(f)) : \E i \in DOMAIN order : e \in Range(f[i])
    BY <2>2, <2>3, <2>4, EachList
  <2> QED BY <1>1, <2>3, <2>4, <2>5 DEF ZonesAre
<1>5. ZonesAre'
  BY <1>1, <1>4, SameZones DEF TreeInv
<1> QED
  BY <1>1, <1>2, <1>5, SameTable, SameRooms, SameBatch DEF TreeInv

LEMMA PartsStep ==
  ASSUME TreeInv, set_pbs_node
  PROVE  TreeInv'
<1> DEFINE zone == zones[1][1]
           parts == project.parts[zone]
           bran == set_pbs_bran_node(parts.bran, majors[zone])
           equi == set_pbs_equi_node(parts.equi, majors[zone])
           supp == set_pbs_supp_and_stru_node(parts.stru, parts.rest, majors[zone])
<1>1. /\ project' = project /\ pbs' = pbs /\ rooms' = rooms /\ zones' = Tail(zones) /\ zones # <<>>
      /\ NoFault \/ Fault
      /\ \/ batch' = batch
         \/ Save(CASE zones[1][2] = "BRAN" -> bran [] zones[1][2] = "EQUI" -> equi [] zones[1][2] = "SUPP" -> supp)
  BY DEF set_pbs_node
<1>2. Counted
  BY <1>1, CountedFaults DEF TreeInv
<1>3. IsList(zones) /\ \A z \in Range(zones) : z[1] \in DOMAIN project.parts /\ z[2] \in Kinds
  BY DEF TreeInv, ZonesAre
<1>4. zone \in DOMAIN project.parts /\ zones[1][2] \in Kinds
  <2>1. Len(zones) # 0
    BY <1>1, <1>3, EmptySeq DEF IsList
  <2>2. 1 \in DOMAIN zones
    BY <1>3, <2>1, ListIs
  <2> QED BY <1>3, <2>2 DEF Range
<1>5. /\ IsList(parts.bran) /\ Range(parts.bran) \subseteq Parts
      /\ IsList(parts.equi) /\ Range(parts.equi) \subseteq Parts
      /\ IsList(parts.stru) /\ Range(parts.stru) \subseteq Parts
      /\ IsList(parts.rest) /\ Range(parts.rest) \subseteq Parts
  <2> HIDE DEF zone
  <2>1. PartsIn(project, zone) \subseteq Parts
    BY <1>4 DEF Parts, PartsOf
  <2> QED BY <1>4, <2>1, ListsAssumption DEF TreeInv, PartsIn
<1> HIDE DEF parts
<1>6. Sound(bran) /\ Sound(equi) /\ Sound(supp)
  <2>1. Deep(bran) /\ Deep(equi) /\ Deep(supp)
    BY <1>5, BranSound, EquiSound, SupportsSound DEF TreeInv
  <2> HIDE DEF bran, equi, supp
  <2> QED BY <2>1, DeepIsSound
<1> HIDE DEF bran, equi, supp
<1>7. Sound(CASE zones[1][2] = "BRAN" -> bran [] zones[1][2] = "EQUI" -> equi [] zones[1][2] = "SUPP" -> supp)
  <2>1. CASE zones[1][2] = "BRAN"
    BY <1>6, <2>1
  <2>2. CASE zones[1][2] = "EQUI"
    BY <1>6, <2>2
  <2>3. CASE zones[1][2] = "SUPP"
    BY <1>6, <2>3
  <2> QED BY <1>4, <2>1, <2>2, <2>3 DEF Kinds
<1>8. BatchIs'
  BY <1>1, <1>7, SoundSaves, NewBatch, SameBatch DEF TreeInv
<1>9. ZonesAre'
  <2>1. /\ Tail(zones) \in Seq(Range(zones))
    BY <1>1, <1>3, HeadTailProperties DEF IsList
  <2> DEFINE t == Tail(zones)
  <2>2. IsList(t) /\ t \in Seq(Range(zones))
    BY <2>1, ListsAreSeqs
  <2> HIDE DEF t
  <2>3. \A e \in Range(t) : e \in Range(zones)
    BY <2>2, LenProperties, ElementOfSeq DEF Range
  <2>4. zones' = t
    BY <1>1 DEF t
  <2> QED BY <1>1, <1>3, <2>2, <2>3, <2>4 DEF ZonesAre
<1> QED
  BY <1>1, <1>2, <1>8, <1>9, SameTable, SameRooms DEF TreeInv

LEMMA OtherSteps ==
  ASSUME TreeInv, project' = project, pbs' = pbs, zones' = zones, rooms' = rooms,
         batch' = batch, NoFault \/ Fault \/ faults' = faults
  PROVE  TreeInv'
<1>1. Counted
  BY CountedFaults DEF TreeInv
<1> QED
  BY <1>1, SameTable, SameRooms, SameZones, SameBatch DEF TreeInv

LEMMA MajorsWritten ==
  ASSUME WriteMajors
  PROVE  NoFault \/ Fault
BY DEF WriteMajors

LEMMA MaterialKeeps ==
  ASSUME MaterialJob \/ Tasks
  PROVE  /\ project' = project
         /\ NoFault \/ Fault \/ faults' = faults
         /\ pbs' = pbs /\ edges' = edges /\ zones' = zones /\ rooms' = rooms /\ batch' = batch
<1>1. pbs' = pbs /\ edges' = edges /\ zones' = zones /\ rooms' = rooms /\ batch' = batch
  BY DEF MaterialJob, Tasks, pbsVars
<1>2. ASSUME SaveAll PROVE project' = project /\ (NoFault \/ Fault \/ faults' = faults)
  <2>1. CASE gen_pdms_major_table
    BY <2>1, MajorsWritten DEF gen_pdms_major_table
  <2>2. CASE define_material_surreal_funtions
    BY <2>2 DEF define_material_surreal_funtions
  <2>3. CASE define_tf_surreal_functions
    BY <2>3 DEF define_tf_surreal_functions
  <2>4. CASE query_all_site_with_major
    BY <2>4 DEF query_all_site_with_major
  <2>5. CASE Gather
    BY <2>5 DEF Gather, EnterGetter, Query, Overlook, GiveUp
  <2>6. CASE Spawn
    BY <2>6 DEF Spawn
  <2>7. CASE Join \/ Return
    BY <2>7 DEF Join, Return
  <2>8. CASE SearchPanics
    BY <2>8 DEF SearchPanics, Saving
  <2> QED BY <1>2, <2>1, <2>2, <2>3, <2>4, <2>5, <2>6, <2>7, <2>8 DEF SaveAll
<1>3. ASSUME TaskStep PROVE project' = project /\ (NoFault \/ Fault)
  BY <1>3 DEF TaskStep, InsertRows, InsertMysql
<1> QED BY <1>1, <1>2, <1>3 DEF MaterialJob, Tasks

LEMMA MaterialSteps ==
  ASSUME TreeInv, MaterialJob \/ Tasks
  PROVE  TreeInv'
BY MaterialKeeps, OtherSteps

LEMMA TreeInit == Init => TreeInv
<1> SUFFICES ASSUME Init PROVE TreeInv
  OBVIOUS
<1>1. project \in Projects /\ faults = 0 /\ pbs = <<>> /\ rooms = <<>> /\ zones = <<>> /\ batch = NoBatch
  BY DEF Init
<1>2. RoomsAre /\ ZonesAre /\ RowsAre(pbs)
  BY <1>1, EmptyList DEF RoomsAre, ZonesAre, RowsAre
<1>3. BatchIs
  <2>1. batch.rows = <<>> /\ batch.step = "idle"
    BY <1>1 DEF NoBatch
  <2> QED BY <2>1, EmptyList DEF BatchIs, Kept, Led
<1> QED BY <1>1, <1>2, <1>3 DEF TreeInv

LEMMA TreeStep == TreeInv /\ [Next]_vars => TreeInv'
<1> SUFFICES ASSUME TreeInv, [Next]_vars PROVE TreeInv'
  OBVIOUS
<1>1. CASE MaterialJob \/ Tasks
  BY <1>1, MaterialSteps
<1>2. CASE PbsJob
  <2>1. CASE set_pdms_major_code
    BY <2>1, MajorsWritten, OtherSteps DEF set_pdms_major_code, Fails
  <2>2. CASE set_pbs_fixed_node \/ query_all_room_name \/ set_pbs_room_node \/ set_pbs_room_major_node
    BY <2>2, FixedStep, RoomsStep, RoomNodesStep, RoomMajorsStep
  <2>3. CASE query_all_zone_with_major \/ set_pbs_node
    BY <2>3, ZonesStep, PartsStep
  <2>4. CASE Finished
    BY <2>4, OtherSteps DEF Finished
  <2>5. CASE insert_pe_into_table_with_chunks \/ insert_relate_to_table
    BY <2>5, InsertStep, RelateStep
  <2> QED BY <1>2, <2>1, <2>2, <2>3, <2>4, <2>5 DEF PbsJob, PbsStep
<1>3. CASE Again
  <2>1. /\ project' = project /\ pbs' = pbs /\ batch' = batch /\ faults' = faults
        /\ rooms' = <<>> /\ zones' = <<>>
    BY <1>3 DEF Again
  <2>2. Counted
    BY <2>1, CountedFaults DEF TreeInv
  <2>3. RoomsAre' /\ ZonesAre'
    BY <2>1, EmptyList DEF RoomsAre, ZonesAre
  <2> QED BY <2>1, <2>2, <2>3, SameTable, SameBatch DEF TreeInv
<1>4. CASE Exit \/ UNCHANGED vars
  BY <1>4, OtherSteps DEF Exit, vars, pbsVars
<1> QED BY <1>1, <1>2, <1>3, <1>4 DEF Next

LEMMA TreeAlways == Spec => []TreeInv
BY TreeInit, TreeStep, PTL DEF Spec

-----------------------------------------------------------------------------
(* Following the owners: with every step from a base, the rows below join.  *)

Below(S) == {id \in DOMAIN pbs : pbs[id] \in S}
Climbs(up, base, n) ==
  up = [k \in 0 .. n |-> IF k = 0 THEN base ELSE up[k - 1] \union Below(up[k - 1])]

LEMMA ClimbExists ==
  ASSUME NEW base
  PROVE  \A n \in Nat : \E up : Climbs(up, base, n)
<1> DEFINE T == {n \in Nat : \E up : Climbs(up, base, n)}
<1>1. 0 \in T
  <2>1. Climbs([k \in 0 .. 0 |-> base], base, 0)
    BY DEF Climbs
  <2> QED BY <2>1
<1>2. ASSUME NEW n \in Nat, n \in T PROVE n + 1 \in T
  <2>1. PICK up : Climbs(up, base, n)
    BY <1>2
  <2> DEFINE z == [k \in 0 .. n + 1 |-> IF k = n + 1 THEN up[n] \union Below(up[n]) ELSE up[k]]
  <2>2. ASSUME NEW k \in 0 .. n + 1
        PROVE  z[k] = IF k = 0 THEN base ELSE z[k - 1] \union Below(z[k - 1])
    <3>1. CASE k = n + 1
      <4>1. k # 0 /\ k - 1 = n /\ z[k - 1] = up[n] /\ z[k] = up[n] \union Below(up[n])
        BY <3>1
      <4> HIDE DEF z
      <4> QED BY <4>1
    <3>2. CASE k # n + 1
      <4>1. k \in 0 .. n /\ z[k] = up[k]
        BY <3>2
      <4>2. k # 0 => k - 1 \in 0 .. n /\ z[k - 1] = up[k - 1]
        BY <4>1
      <4>3. up[k] = IF k = 0 THEN base ELSE up[k - 1] \union Below(up[k - 1])
        BY <2>1, <4>1 DEF Climbs
      <4> HIDE DEF z
      <4> QED BY <4>1, <4>2, <4>3
    <3> QED BY <3>1, <3>2
  <2>3. z = [k \in 0 .. n + 1 |-> z[k]]
    OBVIOUS
  <2> HIDE DEF z
  <2>4. Climbs(z, base, n + 1)
    BY <2>2, <2>3 DEF Climbs
  <2> QED BY <2>4
<1> HIDE DEF T
<1>3. Nat \subseteq T
  BY <1>1, <1>2, SetInduction
<1> QED BY <1>3 DEF T

Depth == Len(SscLevels)
LEMMA DepthIs ==
  Depth \in Nat /\ TreeDepth = Depth + 10 /\ IsList(SscLevels) /\ DOMAIN SscLevels = 1 .. Depth
BY SscAssumption, ListIs DEF IsList, Depth, TreeDepth

\* A ladder: every rung holds the one before and what is below it.
Ladder(up) ==
  /\ \A m, n \in 0 .. TreeDepth : m <= n => up[m] \subseteq up[n]
  /\ \A n \in 0 .. TreeDepth - 1 : \A id \in DOMAIN pbs : pbs[id] \in up[n] => id \in up[n + 1]

LEMMA LadderTo ==
  ASSUME NEW base
  PROVE  \E up : up[0] = base /\ up[TreeDepth] = LeadingTo(base) /\ Ladder(up)
<1> DEFINE up == CHOOSE f : Climbs(f, base, TreeDepth)
<1>1. TreeDepth \in Nat
  BY DepthIs
<1>2. Climbs(up, base, TreeDepth)
  BY <1>1, ClimbExists
<1>3. up[TreeDepth] = LeadingTo(base)
  BY DEF LeadingTo, Climbs, Below
<1> HIDE DEF up
<1>4. up[0] = base
  BY <1>1, <1>2 DEF Climbs
<1>5. \A n \in 0 .. TreeDepth - 1 : up[n + 1] = up[n] \union Below(up[n])
  <2> SUFFICES ASSUME NEW n \in 0 .. TreeDepth - 1 PROVE up[n + 1] = up[n] \union Below(up[n])
    OBVIOUS
  <2> DEFINE k == n + 1
  <2>1. k \in 0 .. TreeDepth /\ k # 0 /\ k - 1 = n
    BY <1>1
  <2> HIDE DEF k
  <2>2. up[k] = up[k - 1] \union Below(up[k - 1])
    BY <1>2, <2>1 DEF Climbs
  <2> QED BY <2>1, <2>2 DEF k
<1>6. ASSUME NEW m \in 0 .. TreeDepth
      PROVE  \A n \in 0 .. TreeDepth : m <= n => up[m] \subseteq up[n]
  <2> DEFINE T == {n \in Nat : n \in 0 .. TreeDepth /\ m <= n => up[m] \subseteq up[n]}
  <2>1. 0 \in T
    OBVIOUS
  <2>2. ASSUME NEW n \in Nat, n \in T PROVE n + 1 \in T
    <3> SUFFICES ASSUME n + 1 \in 0 .. TreeDepth, m <= n + 1 PROVE up[m] \subseteq up[n + 1]
      OBVIOUS
    <3>1. CASE m = n + 1
      BY <3>1
    <3>2. CASE m # n + 1
      <4>1. m <= n /\ n \in 0 .. TreeDepth - 1 /\ n \in 0 .. TreeDepth
        BY <1>1, <3>2
      <4> QED BY <1>5, <2>2, <4>1
    <3> QED BY <3>1, <3>2
  <2> HIDE DEF T
  <2>3. Nat \subseteq T
    BY <2>1, <2>2, SetInduction
  <2> QED BY <1>1, <2>3 DEF T
<1>7. Ladder(up)
  BY <1>5, <1>6 DEF Ladder, Below
<1> QED BY <1>3, <1>4, <1>7

-----------------------------------------------------------------------------
(* Every row has a rank: the steps that lead from it to a base.             *)

\* What a row of one name may hang below, and one of two.
LEMMA SingleRows ==
  ASSUME NEW n, NEW o, Owned(<<n>>, o)
  PROVE  \/ n = "root" /\ o = AboveRoot
         \/ \E i \in DOMAIN SscLevels : n = SscLevels[i].name /\ o \in {Root, <<SscLevels[i].owner>>}
         \/ n \in Factories /\ o = Unit
         \/ n \in RoomNames /\ \E f \in Factories, l \in LevelNames : o = <<f, l>>
         \/ n \in FixNames /\ IsPair(o)
         \/ n \in PartNames /\ (IsPair(o) \/ \E m \in FixNames : o = <<m>>)
         \/ n \in ChildNames /\ \E m \in PartNames : o = <<m>>
         \/ n \in MemberNames /\ \E m \in ChildNames : o = <<m>>
<1>1. ~Listed(<<n>>, o)
  BY Ids DEF Listed
<1>2. Placed(<<n>>, o)
  BY <1>1 DEF Owned
<1>3. \A a, b : <<n>> # <<a, b>> /\ (<<n>> = <<a>> => n = a)
  BY Ids
<1>4. \A f : <<n>> \notin {InstallLevel(f), InstallArea(f)}
  BY <1>3 DEF InstallLevel, InstallArea
<1>5. <<n>> = Root => n = "root"
  BY <1>3 DEF Root
<1> QED BY <1>2, <1>3, <1>4, <1>5 DEF Placed

LEMMA PairRows ==
  ASSUME NEW a, NEW b, NEW o, Owned(<<a, b>>, o)
  PROVE  \/ a \in Factories /\ b \in {"levels", "areas"} /\ o = <<a>>
         \/ a \in Factories /\ b \in LevelNames /\ o = InstallLevel(a)
         \/ a \in RoomNames /\ Listed(<<a, b>>, o)
<1>1. \A c, d : <<a, b>> # <<c>> /\ (<<a, b>> = <<c, d>> => a = c /\ b = d)
  BY Ids
<1>2. <<a, b>> # Root
  BY <1>1 DEF Root
<1>3. CASE Listed(<<a, b>>, o)
  BY <1>1, <1>3 DEF Listed
<1>4. CASE Placed(<<a, b>>, o)
  BY <1>1, <1>2, <1>4 DEF Placed, InstallLevel, InstallArea
<1> QED BY <1>3, <1>4 DEF Owned

LEMMA TopsAreTop ==
  ASSUME TreeInv
  PROVE  AboveRoot \notin DOMAIN pbs
<1> SUFFICES ASSUME AboveRoot \in DOMAIN pbs PROVE FALSE
  OBVIOUS
<1>1. Owned(<<"above">>, pbs[AboveRoot]) /\ project \in Projects
  BY DEF TreeInv, RowsAre, AboveRoot
<1>2. "above" \in FixedNames
  BY FixedNamesAre
<1>3. "above" = "root" \/ \E i \in DOMAIN SscLevels : "above" = SscLevels[i].name
  BY <1>1, <1>2, SingleRows, KindsApart
<1>4. ASSUME NEW i \in DOMAIN SscLevels, "above" = SscLevels[i].name PROVE FALSE
  BY <1>4, SscAssumption DEF AboveRoot
<1> QED BY <1>3, <1>4

LEMMA RootIs ==
  ASSUME TreeInv, Root \in DOMAIN pbs
  PROVE  pbs[Root] = AboveRoot
<1>1. Owned(<<"root">>, pbs[Root]) /\ project \in Projects
  BY DEF TreeInv, RowsAre, Root
<1>2. "root" \in FixedNames /\ \A i \in DOMAIN SscLevels : "root" # SscLevels[i].name
  <2>1. \A i \in DOMAIN SscLevels : <<SscLevels[i].name>> # Root
    BY SscAssumption
  <2> QED BY <2>1, FixedNamesAre DEF Root
<1> QED BY <1>1, <1>2, SingleRows, KindsApart

\* A ladder that holds the root, what is below no row, the disciplines that a
\* failure has left below themselves, and the rooms that hang elsewhere than
\* below a level.
Rungs(up) ==
  /\ Ladder(up)
  /\ Root \in DOMAIN pbs => Root \in up[0]
  /\ \A id \in DOMAIN pbs : pbs[id] \notin DOMAIN pbs => id \in up[1]
  /\ faults # 0 => OwnCodes \subseteq up[0]
  /\ \A n \in RoomNames \intersect FixNames :
       \/ <<n>> \notin DOMAIN pbs \/ <<n>> \in up[0]
       \/ \E f \in Factories, l \in LevelNames : pbs[<<n>>] = <<f, l>>

\* The rows of fixed nodes: each is below one that the sheet lists before it.
LEMMA FixedRanks ==
  ASSUME TreeInv, NEW up, Rungs(up), NEW n \in FixedNames, <<n>> \in DOMAIN pbs
  PROVE  <<n>> \in up[Depth]
<1>1. Depth \in Nat /\ TreeDepth = Depth + 10 /\ DOMAIN SscLevels = 1 .. Depth
  BY DepthIs
<1>2. \A i, j \in 0 .. TreeDepth : i <= j => up[i] \subseteq up[j]
  BY DEF Rungs, Ladder
<1>3. \A id \in DOMAIN pbs : pbs[id] \notin DOMAIN pbs => id \in up[1]
  BY DEF Rungs
<1>4. \A m \in FixedNames : <<m>> \in DOMAIN pbs =>
        \/ <<m>> \in up[0]
        \/ \E i \in 1 .. Depth : m = SscLevels[i].name /\ pbs[<<m>>] \in {Root, <<SscLevels[i].owner>>}
  <2> SUFFICES ASSUME NEW m \in FixedNames, <<m>> \in DOMAIN pbs
               PROVE  \/ <<m>> \in up[0]
                      \/ \E i \in 1 .. Depth : m = SscLevels[i].name /\ pbs[<<m>>] \in {Root, <<SscLevels[i].owner>>}
    OBVIOUS
  <2>1. Owned(<<m>>, pbs[<<m>>]) /\ project \in Projects
    BY DEF TreeInv, RowsAre
  <2>2. \/ m = "root"
        \/ \E i \in DOMAIN SscLevels : m = SscLevels[i].name /\ pbs[<<m>>] \in {Root, <<SscLevels[i].owner>>}
    BY <2>1, SingleRows, KindsApart
  <2>3. m = "root" => <<m>> \in up[0]
    BY DEF Rungs, Root
  <2> QED BY <1>1, <2>2, <2>3
<1>5. Root \in DOMAIN pbs => Root \in up[0]
  BY DEF Rungs
<1> DEFINE Ranked(i) ==
             \A k \in 1 .. i : \A m \in FixedNames :
               /\ <<m>> \in DOMAIN pbs /\ m = SscLevels[k].name
               /\ pbs[<<m>>] \in {Root, <<SscLevels[k].owner>>}
               => <<m>> \in up[k]
           T == {i \in Nat : i <= Depth => Ranked(i)}
<1>6. 0 \in T
  OBVIOUS
<1>7. ASSUME NEW i \in Nat, i \in T PROVE i + 1 \in T
  <2> SUFFICES ASSUME i + 1 <= Depth,
                      NEW m \in FixedNames, <<m>> \in DOMAIN pbs, m = SscLevels[i + 1].name,
                      pbs[<<m>>] \in {Root, <<SscLevels[i + 1].owner>>}
               PROVE  <<m>> \in up[i + 1]
    <3>1. i + 1 <= Depth => Ranked(i)
      BY <1>1, <1>7
    <3>2. \A k \in 1 .. i + 1 : k \in 1 .. i \/ k = i + 1
      OBVIOUS
    <3> QED BY <3>1, <3>2
  <2> DEFINE o == pbs[<<m>>]
  <2>1. i \in 0 .. TreeDepth - 1 /\ i + 1 \in 1 .. Depth /\ 0 \in 0 .. TreeDepth /\ i \in 0 .. TreeDepth
        /\ i + 1 \in 0 .. TreeDepth
    BY <1>1
  <2>2. CASE o \notin DOMAIN pbs
    <3>1. <<m>> \in up[1]
      BY <1>3, <2>2
    <3>2. 1 \in 0 .. TreeDepth /\ 1 <= i + 1
      BY <1>1
    <3> QED BY <1>2, <2>1, <3>1, <3>2
  <2>3. CASE o = Root /\ o \in DOMAIN pbs
    <3>1. o \in up[i]
      BY <1>2, <1>5, <2>1, <2>3
    <3> QED BY <2>1, <3>1 DEF Rungs, Ladder
  <2>4. CASE o = <<SscLevels[i + 1].owner>> /\ o \in DOMAIN pbs
    <3> DEFINE w == SscLevels[i + 1].owner
    <3>1. w \in FixedNames
      BY <1>1, <2>1, FixedNamesAre
    <3>2. CASE <<w>> \in up[0]
      <4>1. o \in up[i]
        BY <1>2, <2>1, <2>4, <3>2
      <4> QED BY <2>1, <4>1 DEF Rungs, Ladder
    <3>3. ASSUME NEW k \in 1 .. Depth, w = SscLevels[k].name, pbs[<<w>>] \in {Root, <<SscLevels[k].owner>>}
          PROVE  <<m>> \in up[i + 1]
      <4>1. ~(i + 1 <= k)
        BY <1>1, <2>1, <3>3, SscAssumption
      <4>2. k \in 1 .. i /\ k \in 0 .. TreeDepth /\ k <= i
        BY <1>1, <4>1
      <4>3. <<w>> \in up[k]
        <5>1. Ranked(i)
          <6>1. i <= Depth => Ranked(i)
            BY <1>7
          <6>2. i <= Depth
            BY <1>1, <2>1
          <6> QED BY <6>1, <6>2
        <5>2. <<w>> \in DOMAIN pbs
          BY <2>4
        <5> HIDE DEF w
        <5> QED BY <3>1, <3>3, <4>2, <5>1, <5>2
      <4>4. o \in up[i]
        BY <1>2, <2>1, <2>4, <4>2, <4>3
      <4> QED BY <2>1, <4>4 DEF Rungs, Ladder
    <3> QED BY <1>4, <2>4, <3>1, <3>2, <3>3
  <2> QED BY <2>2, <2>3, <2>4
<1>8. Ranked(Depth)
  <2>1. Nat \subseteq T
    <3> HIDE DEF T
    <3> QED BY <1>6, <1>7, SetInduction
  <2> QED BY <1>1, <2>1
<1>9. CASE <<n>> \in up[0]
  BY <1>1, <1>2, <1>9
<1>10. ASSUME NEW i \in 1 .. Depth, n = SscLevels[i].name, pbs[<<n>>] \in {Root, <<SscLevels[i].owner>>}
       PROVE  <<n>> \in up[Depth]
  <2>1. <<n>> \in up[i]
    BY <1>8, <1>10
  <2>2. i \in 0 .. TreeDepth /\ Depth \in 0 .. TreeDepth /\ i <= Depth
    BY <1>1
  <2> QED BY <1>2, <2>1, <2>2
<1> QED BY <1>4, <1>9, <1>10

\* The disciplines of a room: at most two below one another. The one with its
\* own code is in the base, or it is below the room.
LEMMA MajorRanks ==
  ASSUME TreeInv, NEW up, Rungs(up), NEW n \in RoomNames,
         NEW k \in 0 .. TreeDepth - 2, <<n>> \in DOMAIN pbs => <<n>> \in up[k],
         NEW c, <<n, c>> \in DOMAIN pbs
  PROVE  <<n, c>> \in up[k + 2]
<1>1. \A i, j \in 0 .. TreeDepth : i <= j => up[i] \subseteq up[j]
  BY DEF Rungs, Ladder
<1>2. TreeDepth \in Nat /\ 0 \in 0 .. TreeDepth /\ k \in 0 .. TreeDepth - 1 /\ k + 1 \in 0 .. TreeDepth - 1
      /\ k \in 0 .. TreeDepth /\ k + 1 \in 0 .. TreeDepth /\ k + 2 \in 0 .. TreeDepth /\ (k + 1) + 1 = k + 2
  BY DepthIs
<1>3. up[0] \subseteq up[k] /\ up[0] \subseteq up[k + 1] /\ up[0] \subseteq up[k + 2] /\ up[k + 1] \subseteq up[k + 2]
  BY <1>1, <1>2
<1>4. \A id \in DOMAIN pbs : pbs[id] \notin DOMAIN pbs => id \in up[k + 1] /\ id \in up[k + 2]
  <2>1. 1 \in 0 .. TreeDepth /\ 1 <= k + 1 /\ 1 <= k + 2
    BY <1>2
  <2>2. up[1] \subseteq up[k + 1] /\ up[1] \subseteq up[k + 2]
    BY <1>1, <1>2, <2>1
  <2> QED BY <2>2 DEF Rungs
<1>5. PICK r \in Rooms : n = r.name
  BY DEF RoomNames
<1>6. ASSUME NEW d, <<n, d>> \in DOMAIN pbs
      PROVE  \E m \in Range(SheetMajors) :
               d = m.code /\ pbs[<<n, d>>] = IF m.above = NoCell THEN <<n>> ELSE <<n, m.above>>
  <2>1. Owned(<<n, d>>, pbs[<<n, d>>]) /\ project \in Projects
    BY <1>6 DEF TreeInv, RowsAre
  <2>2. n \notin Factories
    BY <2>1, KindsApart
  <2>3. Listed(<<n, d>>, pbs[<<n, d>>])
    BY <2>1, <2>2, PairRows
  <2>4. PICK x \in RoomNames, m \in Range(SheetMajors) :
          <<n, d>> = <<x, m.code>> /\ pbs[<<n, d>>] = IF m.above = NoCell THEN <<x>> ELSE <<x, m.above>>
    BY <2>3 DEF Listed
  <2>5. x = n /\ d = m.code
    BY <2>4, Ids
  <2> QED BY <2>4, <2>5
<1>7. ASSUME NEW d, <<n, d>> \in DOMAIN pbs, NEW m \in Range(SheetMajors), d = m.code,
             pbs[<<n, d>>] = IF m.above = NoCell THEN <<n>> ELSE <<n, m.above>>,
             m.above \in {NoCell, m.code}
      PROVE  <<n, d>> \in up[k + 1]
  <2>1. CASE pbs[<<n, d>>] \notin DOMAIN pbs
    BY <1>4, <1>7, <2>1
  <2>2. CASE pbs[<<n, d>>] = <<n>> /\ <<n>> \in DOMAIN pbs
    BY <1>2, <1>7, <2>2 DEF Rungs, Ladder
  <2>3. CASE pbs[<<n, d>>] # <<n>>
    <3>1. m.above = m.code /\ pbs[<<n, d>>] = <<n, d>>
      BY <1>7, <2>3
    <3>2. faults # 0
      BY <1>7, <3>1 DEF TreeInv, RowsAre
    <3>3. <<n, d>> \in OwnCodes
      BY <1>5, <1>7, <3>1 DEF OwnCodes, MajorId
    <3> QED BY <1>3, <3>2, <3>3 DEF Rungs
  <2> QED BY <2>1, <2>2, <2>3
<1>8. PICK m \in Range(SheetMajors) :
        c = m.code /\ pbs[<<n, c>>] = IF m.above = NoCell THEN <<n>> ELSE <<n, m.above>>
  BY <1>6
<1>9. CASE m.above \in {NoCell, m.code}
  BY <1>3, <1>7, <1>8, <1>9
<1>10. CASE m.above \notin {NoCell, m.code}
  <2>1. pbs[<<n, c>>] = <<n, m.above>>
    BY <1>8, <1>10
  <2>2. CASE <<n, m.above>> \notin DOMAIN pbs
    BY <1>4, <2>1, <2>2
  <2>3. CASE <<n, m.above>> \in DOMAIN pbs
    <3>1. PICK p \in Range(SheetMajors) :
            /\ m.above = p.code
            /\ pbs[<<n, m.above>>] = IF p.above = NoCell THEN <<n>> ELSE <<n, p.above>>
      BY <1>6, <2>3
    <3>2. p.above \in {NoCell, p.code}
      BY <1>10, <3>1, TwoLevels
    <3>3. <<n, m.above>> \in up[k + 1]
      BY <1>7, <2>3, <3>1, <3>2
    <3> QED BY <1>2, <2>1, <3>3 DEF Rungs, Ladder
  <2> QED BY <2>2, <2>3
<1> QED BY <1>9, <1>10

LEMMA Ranks ==
  ASSUME TreeInv, NEW up, Rungs(up)
  PROVE  DOMAIN pbs \subseteq up[TreeDepth]
<1>1. Ladder(up)
  BY DEF Rungs
<1> DEFINE d == Depth
<1>2. d \in Nat /\ TreeDepth = d + 10
  BY DepthIs
<1>3. \A i, j \in 0 .. TreeDepth : i <= j => up[i] \subseteq up[j]
  BY <1>1 DEF Ladder
<1>4. project \in Projects /\ \A id \in DOMAIN pbs : Owned(id, pbs[id])
  BY DEF TreeInv, RowsAre
<1> HIDE DEF d
<1>5. ASSUME NEW id \in DOMAIN pbs, NEW n \in 0 .. TreeDepth - 1,
             pbs[id] \in DOMAIN pbs => pbs[id] \in up[n]
      PROVE  id \in up[n + 1]
  <2>1. n \in 0 .. TreeDepth /\ n + 1 \in 0 .. TreeDepth /\ 0 \in 0 .. TreeDepth /\ 0 <= n + 1
    BY <1>2
  <2>2. CASE pbs[id] \in DOMAIN pbs
    BY <1>1, <1>5, <2>2 DEF Ladder
  <2>3. CASE pbs[id] \notin DOMAIN pbs
    <3>1. id \in up[1] /\ 1 \in 0 .. TreeDepth /\ 1 <= n + 1
      BY <1>2, <2>3 DEF Rungs
    <3> QED BY <1>3, <2>1, <3>1
  <2> QED BY <2>2, <2>3
<1>6. \A n \in 0 .. TreeDepth : up[0] \subseteq up[n]
  BY <1>2, <1>3
<1>7. ASSUME NEW i \in 0 .. 10, NEW j \in 0 .. 10, i <= j PROVE up[d + i] \subseteq up[d + j]
  <2>1. d + i \in 0 .. TreeDepth /\ d + j \in 0 .. TreeDepth /\ d + i <= d + j
    BY <1>2, <1>7
  <2> QED BY <1>3, <2>1
<1>8. ASSUME NEW id \in DOMAIN pbs, NEW i \in 0 .. 9, pbs[id] \in DOMAIN pbs => pbs[id] \in up[d + i]
      PROVE  id \in up[d + (i + 1)]
  <2> DEFINE n == d + i
  <2>1. n \in 0 .. TreeDepth - 1 /\ n + 1 = d + (i + 1)
    BY <1>2
  <2> HIDE DEF n
  <2>2. pbs[id] \in DOMAIN pbs => pbs[id] \in up[n]
    BY <1>8 DEF n
  <2>3. id \in up[n + 1]
    BY <1>5, <2>1, <2>2
  <2> QED BY <2>1, <2>3
<1>9. \A n \in FixedNames : <<n>> \in DOMAIN pbs => <<n>> \in up[d + 0]
  BY <1>2, FixedRanks DEF d
<1>10. ASSUME NEW f \in Factories, <<f>> \in DOMAIN pbs PROVE <<f>> \in up[d + 1]
  <2>1. pbs[<<f>>] = Unit
    BY <1>4, <1>10, SingleRows, KindsApart, FixedNamesAre
  <2>2. Unit = <<"unit">> /\ "unit" \in FixedNames
    BY FixedNamesAre DEF Unit
  <2>3. pbs[<<f>>] \in DOMAIN pbs => pbs[<<f>>] \in up[d + 0]
    BY <1>9, <2>1, <2>2
  <2> QED BY <1>8, <1>10, <2>3
<1>11. ASSUME NEW f \in Factories, NEW b \in {"levels", "areas"}, <<f, b>> \in DOMAIN pbs
       PROVE  <<f, b>> \in up[d + 2]
  <2>1. pbs[<<f, b>>] = <<f>>
    BY <1>4, <1>11, PairRows, KindsApart, LevelsAre
  <2>2. pbs[<<f, b>>] \in DOMAIN pbs => pbs[<<f, b>>] \in up[d + 1]
    BY <1>10, <2>1
  <2> QED BY <1>8, <1>11, <2>2
<1>12. ASSUME NEW f \in Factories, NEW b, <<f, b>> \in DOMAIN pbs PROVE <<f, b>> \in up[d + 3]
  <2>1. CASE b \in {"levels", "areas"}
    <3>1. <<f, b>> \in up[d + 2]
      BY <1>11, <1>12, <2>1
    <3>2. up[d + 2] \subseteq up[d + 3]
      BY <1>7
    <3> QED BY <3>1, <3>2
  <2>2. CASE b \notin {"levels", "areas"}
    <3>1. pbs[<<f, b>>] = <<f, "levels">>
      BY <1>4, <1>12, <2>2, PairRows, KindsApart DEF InstallLevel
    <3>2. pbs[<<f, b>>] \in DOMAIN pbs => pbs[<<f, b>>] \in up[d + 2]
      BY <1>11, <3>1
    <3> QED BY <1>8, <1>12, <3>2
  <2> QED BY <2>1, <2>2
<1>13. ASSUME NEW n \in RoomNames, <<n>> \in DOMAIN pbs PROVE <<n>> \in up[d + 4]
  <2>1. CASE <<n>> \in up[0]
    <3>1. d + 4 \in 0 .. TreeDepth
      BY <1>2
    <3> QED BY <1>6, <2>1, <3>1
  <2>2. CASE <<n>> \notin up[0]
    <3>1. PICK f \in Factories, l \in LevelNames : pbs[<<n>>] = <<f, l>>
      <4>1. CASE n \in FixNames
        BY <1>13, <2>2, <4>1 DEF Rungs
      <4>2. CASE n \notin FixNames
        BY <1>4, <1>13, <4>2, SingleRows, KindsApart, FixedNamesAre
      <4> QED BY <4>1, <4>2
    <3>2. pbs[<<n>>] \in DOMAIN pbs => pbs[<<n>>] \in up[d + 3]
      BY <1>12, <3>1
    <3> QED BY <1>8, <1>13, <3>2
  <2> QED BY <2>1, <2>2
<1>14. ASSUME NEW n \in RoomNames, NEW c, <<n, c>> \in DOMAIN pbs PROVE <<n, c>> \in up[d + 6]
  <2> DEFINE k == d + 4
  <2>1. k \in 0 .. TreeDepth - 2 /\ k + 2 = d + 6
    BY <1>2
  <2>2. <<n>> \in DOMAIN pbs => <<n>> \in up[k]
    BY <1>13
  <2> HIDE DEF k
  <2>3. <<n, c>> \in up[k + 2]
    BY <1>14, <2>1, <2>2, MajorRanks
  <2> QED BY <2>1, <2>3
<1>15. ASSUME NEW id \in DOMAIN pbs, IsPair(id) PROVE id \in up[d + 6]
  <2>1. PICK a, b : id = <<a, b>>
    BY <1>15 DEF IsPair
  <2>2. a \in Factories \/ a \in RoomNames
    BY <1>4, <2>1, PairRows
  <2> QED BY <1>7, <1>12, <1>14, <2>1, <2>2
<1>16. ASSUME NEW n \in FixNames, <<n>> \in DOMAIN pbs PROVE <<n>> \in up[d + 7]
  <2>1. CASE n \in RoomNames
    BY <1>7, <1>13, <1>16, <2>1
  <2>2. CASE n \notin RoomNames
    <3>1. IsPair(pbs[<<n>>])
      BY <1>4, <1>16, <2>2, SingleRows, KindsApart, FixedNamesAre
    <3>2. pbs[<<n>>] \in DOMAIN pbs => pbs[<<n>>] \in up[d + 6]
      BY <1>15, <3>1
    <3> QED BY <1>8, <1>16, <3>2
  <2> QED BY <2>1, <2>2
<1>17. ASSUME NEW n \in PartNames, <<n>> \in DOMAIN pbs PROVE <<n>> \in up[d + 8]
  <2>1. IsPair(pbs[<<n>>]) \/ \E m \in FixNames : pbs[<<n>>] = <<m>>
    BY <1>4, <1>17, SingleRows, KindsApart, FixedNamesAre
  <2>2. pbs[<<n>>] \in DOMAIN pbs => pbs[<<n>>] \in up[d + 7]
    BY <1>7, <1>15, <1>16, <2>1
  <2> QED BY <1>8, <1>17, <2>2
<1>18. ASSUME NEW n \in ChildNames, <<n>> \in DOMAIN pbs PROVE <<n>> \in up[d + 9]
  <2>1. \E m \in PartNames : pbs[<<n>>] = <<m>>
    BY <1>4, <1>18, SingleRows, KindsApart, FixedNamesAre
  <2>2. pbs[<<n>>] \in DOMAIN pbs => pbs[<<n>>] \in up[d + 8]
    BY <1>17, <2>1
  <2> QED BY <1>8, <1>18, <2>2
<1>19. ASSUME NEW n \in MemberNames, <<n>> \in DOMAIN pbs PROVE <<n>> \in up[d + 10]
  <2>1. \E m \in ChildNames : pbs[<<n>>] = <<m>>
    BY <1>4, <1>19, SingleRows, KindsApart, FixedNamesAre
  <2>2. pbs[<<n>>] \in DOMAIN pbs => pbs[<<n>>] \in up[d + 9]
    BY <1>18, <2>1
  <2> QED BY <1>8, <1>19, <2>2
<1>20. ASSUME NEW id \in DOMAIN pbs PROVE id \in up[d + 10]
  <2>1. CASE IsPair(id)
    BY <1>7, <1>15, <2>1
  <2>2. CASE ~IsPair(id)
    <3>1. ~Listed(id, pbs[id])
      BY <2>2 DEF Listed, IsPair
    <3>2. Placed(id, pbs[id])
      BY <1>4, <3>1 DEF Owned
    <3>3. /\ Root = <<"root">> /\ "root" \in FixedNames
          /\ \A i \in DOMAIN SscLevels : SscLevels[i].name \in FixedNames
      BY FixedNamesAre DEF Root
    <3>4. \E n : id = <<n>> /\ n \in FixedNames \union Factories \union RoomNames \union FixNames
                                     \union PartNames \union ChildNames \union MemberNames
      BY <2>2, <3>2, <3>3 DEF Placed, IsPair, InstallLevel, InstallArea
    <3>5. PICK n : id = <<n>> /\ n \in FixedNames \union Factories \union RoomNames \union FixNames
                                     \union PartNames \union ChildNames \union MemberNames
      BY <3>4
    <3>6. \E i \in 0 .. 10 : id \in up[d + i]
      BY <1>9, <1>10, <1>13, <1>16, <1>17, <1>18, <1>19, <3>5
    <3> QED BY <1>7, <3>6
  <2> QED BY <2>1, <2>2
<1> QED BY <1>2, <1>20

LEMMA OwnersEnd ==
  ASSUME TreeInv
  PROVE  OwnersNeverLoop
<1> DEFINE base == Tops \union (RoomIds \intersect FixedIds) \union (IF faults = 0 THEN {} ELSE OwnCodes)
<1>1. PICK up : up[0] = base /\ up[TreeDepth] = LeadingTo(base) /\ Ladder(up)
  BY LadderTo
<1>2. Tops \subseteq base /\ RoomIds \intersect FixedIds \subseteq base /\ (faults # 0 => OwnCodes \subseteq base)
  OBVIOUS
<1>3. OwnersNeverLoop <=> DOMAIN pbs \subseteq LeadingTo(base)
  BY DEF OwnersNeverLoop
<1> HIDE DEF base
<1>4. Root \in DOMAIN pbs => Root \in Tops
  BY RootIs, TopsAreTop DEF Tops
<1>5. up[0] \subseteq up[1]
  <2>1. TreeDepth \in Nat /\ 0 \in 0 .. TreeDepth /\ 1 \in 0 .. TreeDepth /\ 0 <= 1
    BY DepthIs
  <2> QED BY <1>1, <2>1 DEF Ladder
<1>6. \A n \in RoomNames \intersect FixNames : <<n>> \in up[0]
  <2>1. \A n \in RoomNames \intersect FixNames : <<n>> \in RoomIds /\ <<n>> \in FixedIds
    BY DEF RoomNames, FixNames, RoomIds, FixedIds
  <2> QED BY <1>1, <1>2, <2>1
<1>7. \A id \in DOMAIN pbs : pbs[id] \notin DOMAIN pbs => id \in up[1]
  BY <1>1, <1>2, <1>5 DEF Tops
<1>8. Rungs(up)
  BY <1>1, <1>2, <1>4, <1>6, <1>7 DEF Rungs
<1> QED BY <1>1, <1>3, <1>8, Ranks

-----------------------------------------------------------------------------
(* Whatever was saved and lost, and however often the jobs ran: the owners  *)
(* of a row end, at the root or at a row that is not there.                 *)
THEOREM OwnersAlwaysEnd == Spec => []OwnersNeverLoop
<1>1. TreeInv => OwnersNeverLoop
  BY OwnersEnd
<1> QED BY <1>1, TreeAlways, PTL

-----------------------------------------------------------------------------
(* What the stages collect: the place a node has among those of its owner,   *)
(* and that the owner is collected with it or was there.                    *)

FoundRooms(f) == OnePerName(project.rooms[f])

\* A place that is one node's alone,
Ordered(o, k, id) ==
  \/ \E i \in DOMAIN SscLevels :
       /\ k = i - 1 /\ id = <<SscLevels[i].name>>
       /\ o = IF SscLevels[i].owner = NoCell THEN Root ELSE <<SscLevels[i].owner>>
  \/ \E f \in Factories :
       \/ id = <<f>> /\ o = Unit
       \/ id = InstallLevel(f) /\ o = <<f>> /\ k = 0
       \/ id = InstallArea(f) /\ o = <<f>> /\ k = 1
       \/ id = <<f, k>> /\ o = InstallLevel(f) /\ k \in LevelNames
       \/ \E i \in DOMAIN FoundRooms(f) :
            k = i - 1 /\ id = <<FoundRooms(f)[i].name>> /\ o = <<f, FoundRooms(f)[i].level>>
  \/ \E n \in RoomNames, m \in Range(SheetMajors) :
       /\ k = m.order /\ id = <<n, m.code>>
       /\ o = IF m.above = NoCell THEN <<n>> ELSE <<n, m.above>>
  \/ \E x \in Parts : \E j \in DOMAIN x.children :
       k = j - 1 /\ id = <<x.children[j].id>> /\ o = <<x.id>>
  \/ \E c \in ChildrenOf(project) : \E j \in DOMAIN c.members :
       k = j - 1 /\ id = <<c.members[j]>> /\ o = <<c.id>>

\* and the places that parts and the fixed nodes of supports share.
ZoneMajor(c) == \E m \in Range(SheetMajors) : c = m.code /\ m.above # NoCell
Crowded(o, id) ==
  /\ \E n \in FixNames \union PartNames : id = <<n>>
  /\ \/ \E n \in FixNames : o = <<n>>
     \/ \E c : ZoneMajor(c) /\ \E x \in Parts : o = <<x.room, c>>

\* Fixed nodes of supports come when the rooms they may be are there.
RoomsThere == RoomIds \ NoRoomNode \subseteq DOMAIN pbs
Seated(e, S) ==
  \/ e.id = Root /\ e.what = {"row"}
  \/ /\ e.owner \in S /\ "edge" \in e.what
     /\ Ordered(e.owner, e.order, e.id) \/ (Crowded(e.owner, e.id) /\ RoomsThere)
Fitting(s, S) == IsList(s) /\ \A e \in Range(s) : Seated(e, S)
RowIds(s) == {e.id : e \in {x \in Range(s) : "row" \in x.what}}

LEMMA FittingEmpty ==
  ASSUME NEW S
  PROVE  Fitting(<<>>, S)
BY EmptyList DEF Fitting

LEMMA FittingOne ==
  ASSUME NEW S, NEW id, NEW owner \in S, NEW order, NEW what, "edge" \in what,
         Ordered(owner, order, id) \/ (Crowded(owner, id) /\ RoomsThere)
  PROVE  Fitting(<<Node(id, owner, order, what)>>, S)
<1> DEFINE e == Node(id, owner, order, what)
<1>1. e.id = id /\ e.owner = owner /\ e.order = order /\ e.what = what
  BY NodeIs
<1> HIDE DEF e
<1>2. Seated(e, S)
  BY <1>1 DEF Seated
<1> QED BY <1>2, OneList DEF Fitting, e

LEMMA FittingLinked ==
  ASSUME NEW S, NEW id, NEW owner \in S, NEW order,
         Ordered(owner, order, id) \/ (Crowded(owner, id) /\ RoomsThere)
  PROVE  Fitting(Linked(id, owner, order), S)
<1>1. "edge" \in Both
  BY DEF Both
<1>2. Fitting(<<Node(id, owner, order, Both)>>, S)
  BY <1>1, FittingOne
<1> QED BY <1>2 DEF Linked

LEMMA FittingBoth ==
  ASSUME NEW S, NEW s, NEW t, Fitting(s, S), Fitting(t, S)
  PROVE  Fitting(s \o t, S)
BY BothLists DEF Fitting

LEMMA FittingEach ==
  ASSUME NEW S, NEW seq, IsList(seq), NEW f, f = [i \in DOMAIN seq |-> f[i]],
         \A i \in DOMAIN seq : Fitting(f[i], S)
  PROVE  Fitting(FlattenSeq(<<>> \o f), S)
<1>1. \A i \in DOMAIN seq : IsList(f[i])
  BY DEF Fitting
<1>2. /\ <<>> \o f = f /\ IsList(FlattenSeq(f))
      /\ \A e \in Range(FlattenSeq(f)) : \E i \in DOMAIN seq : e \in Range(f[i])
  BY <1>1, EachList
<1> QED BY <1>2 DEF Fitting

LEMMA RowOfOne ==
  ASSUME NEW id, NEW owner, NEW order
  PROVE  /\ IsList(Linked(id, owner, order)) /\ id \in RowIds(Linked(id, owner, order))
         /\ \A what : "row" \in what =>
              /\ IsList(<<Node(id, owner, order, what)>>)
              /\ id \in RowIds(<<Node(id, owner, order, what)>>)
<1> SUFFICES ASSUME NEW what, "row" \in what
             PROVE  /\ IsList(<<Node(id, owner, order, what)>>)
                    /\ id \in RowIds(<<Node(id, owner, order, what)>>)
  BY DEF Linked, Both
<1> DEFINE e == Node(id, owner, order, what)
<1>1. e.id = id /\ e.what = what
  BY NodeIs
<1> HIDE DEF e
<1>2. IsList(<<e>>) /\ Range(<<e>>) = {e}
  BY OneList
<1>3. id \in RowIds(<<e>>)
  BY <1>1, <1>2 DEF RowIds
<1> QED BY <1>2, <1>3 DEF e

LEMMA RowsOfBoth ==
  ASSUME NEW s, NEW t, IsList(s), IsList(t)
  PROVE  RowIds(s) \subseteq RowIds(s \o t) /\ RowIds(t) \subseteq RowIds(s \o t)
BY BothLists DEF RowIds

LEMMA RowsOfEach ==
  ASSUME NEW seq, IsList(seq), NEW f, f = [i \in DOMAIN seq |-> f[i]],
         \A i \in DOMAIN seq : IsList(f[i])
  PROVE  \A i \in DOMAIN seq : RowIds(f[i]) \subseteq RowIds(FlattenSeq(<<>> \o f))
<1>1. \A i \in DOMAIN seq : Range(f[i]) \subseteq Range(FlattenSeq(<<>> \o f))
  BY EachHas
<1> QED BY <1>1 DEF RowIds

\* What a stage collects becomes rows and edges.
LEMMA PickedHas ==
  ASSUME NEW all, IsList(all), NEW what
  PROVE  /\ IsList(Picked(all, what))
         /\ \A e \in Range(all) : what \in e.what => e \in Range(Picked(all, what))
         /\ \A e \in Range(Picked(all, what)) : e \in Range(all) /\ what \in e.what
<1> DEFINE f == [i \in DOMAIN all |-> IF what \in all[i].what THEN <<all[i]>> ELSE <<>>]
<1>1. Picked(all, what) = FlattenSeq(<<>> \o f)
  BY DEF Picked, Each
<1>2. f = [i \in DOMAIN all |-> f[i]]
      /\ \A i \in DOMAIN all : f[i] = IF what \in all[i].what THEN <<all[i]>> ELSE <<>>
  OBVIOUS
<1> HIDE DEF f
<1>3. ASSUME NEW i \in DOMAIN all
      PROVE  IsList(f[i]) /\ Range(f[i]) = IF what \in all[i].what THEN {all[i]} ELSE {}
  <2> DEFINE e == all[i]
  <2>1. f[i] = IF what \in e.what THEN <<e>> ELSE <<>>
    BY <1>2
  <2> HIDE DEF e
  <2>2. IsList(<<e>>) /\ Range(<<e>>) = {e}
    BY OneList
  <2>3. IsList(f[i]) /\ Range(f[i]) = IF what \in e.what THEN {e} ELSE {}
    BY <2>1, <2>2, EmptyList
  <2> QED BY <2>3 DEF e
<1>4. \A i \in DOMAIN all : Range(f[i]) \subseteq Range(FlattenSeq(<<>> \o f))
  BY <1>2, <1>3, EachHas
<1>5. /\ <<>> \o f = f /\ IsList(FlattenSeq(f))
      /\ \A e \in Range(FlattenSeq(f)) : \E i \in DOMAIN all : e \in Range(f[i])
  BY <1>2, <1>3, EachList
<1>6. \A e \in Range(all) : \E i \in DOMAIN all : e = all[i]
  BY DEF Range
<1>7. \A i \in DOMAIN all : all[i] \in Range(all)
  BY DEF Range
<1>8. ASSUME NEW e \in Range(all), what \in e.what PROVE e \in Range(FlattenSeq(<<>> \o f))
  <2>1. PICK i \in DOMAIN all : e = all[i]
    BY <1>6
  <2>2. e \in Range(f[i])
    BY <1>3, <1>8, <2>1
  <2> QED BY <1>4, <2>2
<1>9. ASSUME NEW e \in Range(FlattenSeq(f)) PROVE e \in Range(all) /\ what \in e.what
  <2>1. PICK i \in DOMAIN all : e \in Range(f[i])
    BY <1>5
  <2> QED BY <1>3, <1>7, <2>1
<1> QED BY <1>1, <1>5, <1>8, <1>9

LEMMA FixedFits ==
  /\ Fitting(FixedNodes, RowIds(FixedNodes))
  /\ Root \in RowIds(FixedNodes) /\ Unit \in RowIds(FixedNodes)
<1> DEFINE owner(l) == IF l.owner = NoCell THEN Root ELSE <<l.owner>>
           f == [i \in DOMAIN SscLevels |-> Linked(<<SscLevels[i].name>>, owner(SscLevels[i]), i - 1)]
           top == <<Node(Root, AboveRoot, 0, {"row"})>>
           S == RowIds(FixedNodes)
<1>1. FixedNodes = top \o FlattenSeq(<<>> \o f)
  BY DEF FixedNodes, Each
<1>2. f = [i \in DOMAIN SscLevels |-> f[i]] /\ IsList(SscLevels)
  BY SscAssumption DEF IsList
<1>3. \A i \in DOMAIN SscLevels : f[i] = Linked(<<SscLevels[i].name>>, owner(SscLevels[i]), i - 1)
  OBVIOUS
<1> HIDE DEF f, top, S
<1>4. \A i \in DOMAIN SscLevels : IsList(f[i]) /\ <<SscLevels[i].name>> \in RowIds(f[i])
  BY <1>3, RowOfOne
<1>5. IsList(top) /\ Root \in RowIds(top)
  BY RowOfOne DEF top
<1>6. IsList(FlattenSeq(<<>> \o f))
  BY <1>2, <1>4, EachList
<1>7. RowIds(top) \subseteq S /\ RowIds(FlattenSeq(<<>> \o f)) \subseteq S
  BY <1>1, <1>5, <1>6, RowsOfBoth DEF S
<1>8. \A i \in DOMAIN SscLevels : RowIds(f[i]) \subseteq RowIds(FlattenSeq(<<>> \o f))
  BY <1>2, <1>4, RowsOfEach
<1>9. Root \in S /\ \A n \in SscNames : <<n>> \in S
  <2> SUFFICES ASSUME NEW n \in SscNames PROVE <<n>> \in S
    BY <1>5, <1>7
  <2>1. PICK i \in DOMAIN SscLevels : n = SscLevels[i].name
    BY DEF SscNames, Range
  <2> QED BY <1>4, <1>7, <1>8, <2>1
<1>10. Unit \in S
  BY <1>9, UnitAssumption DEF Unit
<1>11. Fitting(top, S)
  <2> DEFINE e == Node(Root, AboveRoot, 0, {"row"})
  <2>1. e.id = Root /\ e.what = {"row"}
    BY NodeIs
  <2>2. top = <<e>>
    BY DEF top
  <2> HIDE DEF e
  <2> QED BY <2>1, <2>2, OneList DEF Fitting, Seated
<1>12. ASSUME NEW i \in DOMAIN SscLevels PROVE Fitting(f[i], S)
  <2> DEFINE l == SscLevels[i]  o == owner(l)  k == i - 1
  <2>1. l.owner = NoCell \/ l.owner \in SscNames
    BY UnitAssumption DEF Range
  <2>2. o \in S
    BY <1>9, <2>1
  <2>3. Ordered(o, k, <<l.name>>)
    BY DEF Ordered
  <2>4. f[i] = Linked(<<l.name>>, o, k)
    BY <1>3
  <2> HIDE DEF o, l, k
  <2> QED BY <2>2, <2>3, <2>4, FittingLinked
<1>13. Fitting(FlattenSeq(<<>> \o f), S)
  BY <1>2, <1>12, FittingEach
<1> QED BY <1>1, <1>9, <1>10, <1>11, <1>13, FittingBoth DEF S

\* The rooms that were found are those of the project: of every name the first.
RoomsFound == rooms = [f \in Factories |-> FoundRooms(f)]

LEMMA FirstOfName ==
  ASSUME NEW seq, IsList(seq), NEW r \in Range(seq)
  PROVE  \E i \in DOMAIN OnePerName(seq) : OnePerName(seq)[i].name = r.name
<1> DEFINE f == [i \in DOMAIN seq |-> IF \E k \in 1 .. i - 1 : seq[k].name = seq[i].name THEN <<>> ELSE <<seq[i]>>]
           T == {i \in DOMAIN seq : seq[i].name = r.name}
<1>1. OnePerName(seq) = FlattenSeq(<<>> \o f)
  BY DEF OnePerName, Each
<1>2. /\ f = [i \in DOMAIN seq |-> f[i]]
      /\ \A i \in DOMAIN seq :
           f[i] = IF \E k \in 1 .. i - 1 : seq[k].name = seq[i].name THEN <<>> ELSE <<seq[i]>>
  OBVIOUS
<1> HIDE DEF f
<1>3. \A i \in DOMAIN seq : IsList(f[i])
  BY <1>2, OneList, EmptyList
<1>4. DOMAIN seq = 1 .. Len(seq) /\ Len(seq) \in Nat
  BY ListIs
<1>5. T \subseteq Nat /\ T # {}
  BY <1>4 DEF Range
<1>6. PICK i \in T : \A j \in T : i <= j
  <2> HIDE DEF T
  <2> QED BY <1>5, Least
<1>7. ~(\E k \in 1 .. i - 1 : seq[k].name = seq[i].name)
  <2> SUFFICES ASSUME NEW k \in 1 .. i - 1, seq[k].name = seq[i].name PROVE FALSE
    OBVIOUS
  <2>1. i \in 1 .. Len(seq) /\ seq[i].name = r.name
    BY <1>4, <1>6
  <2>2. k \in DOMAIN seq /\ ~(i <= k)
    BY <1>4, <2>1
  <2>3. k \in T
    BY <2>1, <2>2
  <2> QED BY <1>6, <2>2, <2>3
<1>8. i \in DOMAIN seq /\ f[i] = <<seq[i]>> /\ seq[i].name = r.name
  BY <1>2, <1>6, <1>7
<1>9. seq[i] \in Range(f[i])
  BY <1>8, OneList
<1>10. Range(f[i]) \subseteq Range(OnePerName(seq))
  BY <1>1, <1>2, <1>3, <1>8, EachHas
<1>11. seq[i] \in Range(OnePerName(seq))
  BY <1>9, <1>10
<1> QED BY <1>8, <1>11 DEF Range

\* Of the rooms of a factory: each, and each level below its fixed node.
LEMMA RoomNodesFit ==
  ASSUME project \in Projects, RoomsFound, RoomsAre, NEW f \in Factories,
         NEW S, RowIds(RoomNodes(f)) \subseteq S, InstallLevel(f) \in S
  PROVE  /\ Fitting(RoomNodes(f), S)
         /\ \A i \in DOMAIN rooms[f] : Numeric(rooms[f][i]) => <<rooms[f][i].name>> \in RowIds(RoomNodes(f))
<1> DEFINE rs == rooms[f]
           listed(i) == \E k \in 1 .. i - 1 : rs[k].level = rs[i].level
           level(i) == Linked(<<f, rs[i].level>>, InstallLevel(f), rs[i].level)
           node(i) == Linked(<<rs[i].name>>, <<f, rs[i].level>>, i - 1)
           room(i) == IF ~Numeric(rs[i]) THEN <<>> ELSE (IF listed(i) THEN <<>> ELSE level(i)) \o node(i)
           g == [i \in DOMAIN rs |-> room(i)]
<1>1. f \in DOMAIN rooms /\ rs = FoundRooms(f) /\ IsList(rs)
  BY DEF RoomsFound, RoomsAre
<1>2. RoomNodes(f) = FlattenSeq(<<>> \o g)
  BY DEF RoomNodes, Each
<1>3. g = [i \in DOMAIN rs |-> g[i]] /\ \A i \in DOMAIN rs : g[i] = room(i)
  OBVIOUS
<1>4. ASSUME NEW i \in DOMAIN rs PROVE rs[i].name \in RoomNames /\ rs[i].level \in LevelNames
  BY <1>1, RoomsNamed
<1>5. DOMAIN rs = 1 .. Len(rs) /\ Len(rs) \in Nat
  BY <1>1, ListIs
<1> HIDE DEF g, rs
<1>6. ASSUME NEW i \in DOMAIN rs
      PROVE  /\ IsList(level(i)) /\ <<f, rs[i].level>> \in RowIds(level(i))
             /\ IsList(node(i)) /\ <<rs[i].name>> \in RowIds(node(i))
  BY RowOfOne
<1> HIDE DEF level, node
<1>7. ASSUME NEW i \in DOMAIN rs, Numeric(rs[i])
      PROVE  /\ g[i] = (IF listed(i) THEN <<>> ELSE level(i)) \o node(i) /\ IsList(g[i])
             /\ <<rs[i].name>> \in RowIds(g[i])
             /\ listed(i) \/ <<f, rs[i].level>> \in RowIds(g[i])
  <2> DEFINE s == IF listed(i) THEN <<>> ELSE level(i)
  <2>1. IsList(s) /\ (listed(i) \/ s = level(i))
    BY <1>6, EmptyList
  <2>2. g[i] = s \o node(i)
    BY <1>3, <1>7
  <2> HIDE DEF s, listed
  <2>3. RowIds(s) \subseteq RowIds(g[i]) /\ RowIds(node(i)) \subseteq RowIds(g[i]) /\ IsList(g[i])
    BY <1>6, <2>1, <2>2, RowsOfBoth, BothLists
  <2> QED BY <1>6, <2>1, <2>2, <2>3 DEF s
<1>8. ASSUME NEW i \in DOMAIN rs, ~Numeric(rs[i]) PROVE g[i] = <<>>
  BY <1>3, <1>8
<1> HIDE DEF room, listed
<1>9. \A i \in DOMAIN rs : IsList(g[i])
  BY <1>7, <1>8, EmptyList
<1>10. \A i \in DOMAIN rs : RowIds(g[i]) \subseteq RowIds(RoomNodes(f))
  BY <1>1, <1>2, <1>3, <1>9, RowsOfEach
<1>11. ASSUME NEW i \in DOMAIN rs, Numeric(rs[i]) PROVE <<f, rs[i].level>> \in S
  <2> DEFINE T == {k \in DOMAIN rs : rs[k].level = rs[i].level}
  <2>1. T \subseteq Nat /\ T # {}
    BY <1>5
  <2>2. PICK k \in T : \A j \in T : k <= j
    <3> HIDE DEF T
    <3> QED BY <2>1, Least
  <2>3. k \in DOMAIN rs /\ rs[k].level = rs[i].level /\ Numeric(rs[k])
    BY <1>11, <2>2 DEF Numeric
  <2>4. ~listed(k)
    <3> SUFFICES ASSUME NEW j \in 1 .. k - 1, rs[j].level = rs[k].level PROVE FALSE
      BY DEF listed
    <3>1. j \in DOMAIN rs /\ ~(k <= j)
      BY <1>5, <2>3
    <3> QED BY <2>2, <2>3, <3>1
  <2>5. <<f, rs[k].level>> \in RowIds(g[k])
    BY <1>7, <2>3, <2>4
  <2> QED BY <1>10, <2>3, <2>5
<1>12. ASSUME NEW i \in DOMAIN rs PROVE Fitting(g[i], S)
  <2>1. CASE ~Numeric(rs[i])
    BY <1>8, <2>1, FittingEmpty
  <2>2. CASE Numeric(rs[i])
    <3> DEFINE l == rs[i].level  n == rs[i].name  k == i - 1  o == <<f, l>>
    <3>1. Ordered(InstallLevel(f), l, <<f, l>>)
      BY <1>4 DEF Ordered
    <3>2. Ordered(o, k, <<n>>)
      BY <1>1 DEF Ordered
    <3>3. o \in S
      BY <1>11, <2>2
    <3>4. level(i) = Linked(<<f, l>>, InstallLevel(f), l) /\ node(i) = Linked(<<n>>, o, k)
      BY DEF level, node
    <3> HIDE DEF l, n, k, o
    <3>5. Fitting(level(i), S) /\ Fitting(node(i), S)
      BY <3>1, <3>2, <3>3, <3>4, FittingLinked
    <3>6. Fitting(IF listed(i) THEN <<>> ELSE level(i), S)
      BY <3>5, FittingEmpty
    <3> QED BY <1>7, <2>2, <3>5, <3>6, FittingBoth
  <2> QED BY <2>1, <2>2
<1>13. Fitting(RoomNodes(f), S)
  BY <1>1, <1>2, <1>3, <1>12, FittingEach
<1> QED BY <1>7, <1>10, <1>13 DEF rs

LEMMA FactoryNodesFit ==
  ASSUME project \in Projects, RoomsFound, RoomsAre, NEW f \in Factories, NEW order,
         NEW S, RowIds(FactoryNodes(order, f)) \subseteq S, Unit \in S
  PROVE  /\ Fitting(FactoryNodes(order, f), S)
         /\ RowIds(RoomNodes(f)) \subseteq RowIds(FactoryNodes(order, f))
<1> DEFINE a == Linked(<<f>>, Unit, order)  b == Linked(InstallLevel(f), <<f>>, 0)
           c == Linked(InstallArea(f), <<f>>, 1)  d == RoomNodes(f)
           all == FactoryNodes(order, f)
<1>1. all = a \o b \o c \o d
  BY DEF FactoryNodes
<1>2. f \in DOMAIN rooms
  BY DEF RoomsFound
<1>3. IsList(d)
  BY <1>2, RoomsSound DEF Sound
<1>4. /\ IsList(a) /\ <<f>> \in RowIds(a) /\ IsList(b) /\ InstallLevel(f) \in RowIds(b) /\ IsList(c)
  BY RowOfOne
<1>5. /\ Ordered(Unit, order, <<f>>) /\ Ordered(<<f>>, 0, InstallLevel(f)) /\ Ordered(<<f>>, 1, InstallArea(f))
  BY DEF Ordered
<1> HIDE DEF b, c, d, all
<1>6. /\ IsList(a \o b) /\ IsList(a \o b \o c)
      /\ RowIds(a) \subseteq RowIds(a \o b) /\ RowIds(b) \subseteq RowIds(a \o b)
      /\ RowIds(a \o b) \subseteq RowIds(a \o b \o c)
      /\ RowIds(a \o b \o c) \subseteq RowIds(all) /\ RowIds(d) \subseteq RowIds(all)
  BY <1>1, <1>3, <1>4, BothLists, RowsOfBoth
<1>7. <<f>> \in S /\ InstallLevel(f) \in S /\ RowIds(d) \subseteq S
  BY <1>4, <1>6 DEF all
<1>8. Fitting(a, S) /\ Fitting(b, S) /\ Fitting(c, S)
  BY <1>5, <1>7, FittingLinked DEF b, c
<1>9. Fitting(d, S)
  BY <1>7, RoomNodesFit DEF d
<1> HIDE DEF a
<1>10. Fitting(a \o b, S)
  BY <1>8, FittingBoth
<1>11. Fitting(a \o b \o c, S)
  BY <1>8, <1>10, FittingBoth
<1>12. Fitting(all, S)
  BY <1>1, <1>9, <1>11, FittingBoth
<1> QED BY <1>6, <1>12 DEF all, d

\* The disciplines of the sheet, those of a room.
LEMMA RoomMajorsFit ==
  ASSUME NEW n \in RoomNames, NEW S, RowIds(RoomMajorNodes(n)) \subseteq S, <<n>> \in S
  PROVE  /\ Fitting(RoomMajorNodes(n), S)
         /\ \A m \in Range(SheetMajors) : <<n, m.code>> \in RowIds(RoomMajorNodes(n))
<1> DEFINE s == RoomMajorNodes(n)
           above(m) == IF m.above = NoCell THEN <<n>> ELSE MajorId(n, m.above)
<1>1. /\ DOMAIN s = DOMAIN SheetMajors /\ s = [i \in DOMAIN SheetMajors |-> s[i]]
      /\ \A i \in DOMAIN SheetMajors :
           s[i] = Node(MajorId(n, SheetMajors[i].code), above(SheetMajors[i]), SheetMajors[i].order, Both)
  BY DEF RoomMajorNodes
<1> HIDE DEF s
<1>2. IsList(s)
  BY <1>1, RoomMajorsKept DEF Kept, s
<1>3. ASSUME NEW i \in DOMAIN SheetMajors
      PROVE  /\ s[i].id = <<n, SheetMajors[i].code>> /\ s[i].owner = above(SheetMajors[i])
             /\ s[i].order = SheetMajors[i].order /\ s[i].what = Both
             /\ <<n, SheetMajors[i].code>> \in RowIds(s)
  <2> DEFINE id == MajorId(n, SheetMajors[i].code)  owner == above(SheetMajors[i])
             order == SheetMajors[i].order
  <2>1. s[i] = Node(id, owner, order, Both)
    BY <1>1
  <2>2. id = <<n, SheetMajors[i].code>>
    BY DEF MajorId
  <2> HIDE DEF id, owner, order, above
  <2>3. s[i].id = id /\ s[i].owner = owner /\ s[i].order = order /\ s[i].what = Both
    BY <2>1, NodeIs
  <2>4. s[i] \in Range(s) /\ "row" \in s[i].what
    BY <1>1, <2>3 DEF Range, Both
  <2>5. id \in RowIds(s)
    BY <2>3, <2>4 DEF RowIds
  <2> QED BY <2>2, <2>3, <2>5 DEF owner, order
<1>4. ASSUME NEW m \in Range(SheetMajors) PROVE <<n, m.code>> \in RowIds(s)
  <2>1. PICK i \in DOMAIN SheetMajors : m = SheetMajors[i]
    BY DEF Range
  <2> QED BY <1>3, <2>1
<1>5. ASSUME NEW i \in DOMAIN SheetMajors PROVE Seated(s[i], S)
  <2> DEFINE m == SheetMajors[i]
  <2>1. m \in Range(SheetMajors)
    BY DEF Range
  <2>2. above(m) = IF m.above = NoCell THEN <<n>> ELSE <<n, m.above>>
    BY DEF MajorId
  <2>3. Ordered(above(m), m.order, <<n, m.code>>)
    BY <2>1, <2>2 DEF Ordered
  <2>4. above(m) \in S
    <3>1. CASE m.above = NoCell
      BY <2>2, <3>1
    <3>2. CASE m.above # NoCell
      <4>1. PICK j \in DOMAIN SheetMajors : SheetMajors[j].code = m.above
        BY <3>2, SheetMajorsAre
      <4>2. <<n, SheetMajors[j].code>> \in S
        BY <1>3 DEF s
      <4> QED BY <2>2, <3>2, <4>1, <4>2
    <3> QED BY <3>1, <3>2
  <2>5. s[i].id = <<n, m.code>> /\ s[i].owner = above(m) /\ s[i].order = m.order /\ "edge" \in s[i].what
    BY <1>3 DEF Both
  <2> HIDE DEF m, above
  <2> QED BY <2>3, <2>4, <2>5 DEF Seated
<1>6. \A e \in Range(s) : \E i \in DOMAIN SheetMajors : e = s[i]
  BY <1>1 DEF Range
<1>7. Fitting(s, S)
  BY <1>2, <1>5, <1>6 DEF Fitting
<1> QED BY <1>4, <1>7 DEF s

-----------------------------------------------------------------------------
(* The parts of a zone.                                                     *)

\* A place for parts: the node of a room and a discipline of a zone.
PlaceIs(x, major, S) == MajorId(x.room, major) \in S

LEMMA PartFits ==
  ASSUME NEW x \in Parts, NEW i, NEW major, ZoneMajor(major), RoomsThere, NEW S, PlaceIs(x, major, S)
  PROVE  /\ Fitting(Part(i, x, major), S)
         /\ IsList(Part(i, x, major)) /\ <<x.id>> \in RowIds(Part(i, x, major))
<1>1. Crowded(MajorId(x.room, major), <<x.id>>)
  BY DEF Crowded, MajorId, PartNames
<1>2. Part(i, x, major) = Linked(<<x.id>>, MajorId(x.room, major), i)
  BY DEF Part
<1>3. MajorId(x.room, major) \in S
  BY DEF PlaceIs
<1> QED BY <1>1, <1>2, <1>3, FittingLinked, RowOfOne

LEMMA ChildOrdered ==
  ASSUME NEW x \in Parts, NEW j \in DOMAIN x.children
  PROVE  Ordered(<<x.id>>, j - 1, <<x.children[j].id>>)
BY DEF Ordered

LEMMA MembersFit ==
  ASSUME project \in Projects, NEW c \in ChildrenOf(project), NEW S, <<c.id>> \in S \/ c.members = <<>>
  PROVE  Fitting(Members(c), S)
<1> DEFINE f == [k \in DOMAIN c.members |-> Linked(<<c.members[k]>>, <<c.id>>, k - 1)]
<1>1. ASSUME NEW k \in DOMAIN c.members PROVE Fitting(f[k], S)
  <2>1. Ordered(<<c.id>>, k - 1, <<c.members[k]>>)
    BY DEF Ordered
  <2>2. <<c.id>> \in S
    BY EmptyList
  <2> DEFINE o == <<c.id>>  id == <<c.members[k]>>  n == k - 1
  <2>3. f[k] = Linked(id, o, n) /\ Ordered(o, n, id) /\ o \in S
    BY <2>1, <2>2
  <2> HIDE DEF o, id, n, f
  <2> QED BY <2>3, FittingLinked
<1>2. Members(c) = FlattenSeq(<<>> \o f)
  BY DEF Members, Each
<1>3. f = [k \in DOMAIN c.members |-> f[k]] /\ IsList(c.members)
  BY ChildrenHold
<1> HIDE DEF f
<1> QED BY <1>1, <1>2, <1>3, FittingEach

LEMMA BranFits ==
  ASSUME project \in Projects, NEW nodes, IsList(nodes), Range(nodes) \subseteq Parts,
         NEW major, ZoneMajor(major), RoomsThere,
         NEW S, \A x \in Range(nodes) : InRoom(x) => PlaceIs(x, major, S),
         RowIds(set_pbs_bran_node(nodes, major)) \subseteq S
  PROVE  Fitting(set_pbs_bran_node(nodes, major), S)
<1> DEFINE below(x) == [j \in DOMAIN x.children |-> Linked(<<x.children[j].id>>, <<x.id>>, j - 1)]
           bran(i) ==
             IF ~InRoom(nodes[i]) THEN <<>>
             ELSE Part(i - 1, nodes[i], major) \o FlattenSeq(<<>> \o below(nodes[i]))
           f == [i \in DOMAIN nodes |-> bran(i)]
<1>1. set_pbs_bran_node(nodes, major) = FlattenSeq(<<>> \o f)
  BY DEF set_pbs_bran_node, Each
<1>2. f = [i \in DOMAIN nodes |-> f[i]] /\ \A i \in DOMAIN nodes : f[i] = bran(i)
  OBVIOUS
<1>3. \A i \in DOMAIN nodes : nodes[i] \in Parts /\ nodes[i] \in Range(nodes)
  BY DEF Range
<1>4. ASSUME NEW x \in Parts, <<x.id>> \in S PROVE Fitting(FlattenSeq(<<>> \o below(x)), S)
  <2>1. ASSUME NEW j \in DOMAIN x.children PROVE Fitting(below(x)[j], S)
    <3> DEFINE o == <<x.id>>  id == <<x.children[j].id>>  n == j - 1
    <3>1. Ordered(o, n, id)
      BY ChildOrdered
    <3>2. below(x)[j] = Linked(id, o, n) /\ o \in S
      BY <1>4
    <3> HIDE DEF o, id, n, below
    <3> QED BY <3>1, <3>2, FittingLinked
  <2>2. below(x) = [j \in DOMAIN x.children |-> below(x)[j]] /\ IsList(x.children)
    BY PartsHold
  <2> HIDE DEF below
  <2> QED BY <2>1, <2>2, FittingEach
<1>5. ASSUME NEW x \in Parts PROVE IsList(FlattenSeq(<<>> \o below(x)))
  <2>1. ASSUME NEW j \in DOMAIN x.children PROVE IsList(below(x)[j])
    <3>1. below(x)[j] = Linked(<<x.children[j].id>>, <<x.id>>, j - 1)
      OBVIOUS
    <3> QED BY <3>1, RowOfOne
  <2>2. below(x) = [j \in DOMAIN x.children |-> below(x)[j]] /\ IsList(x.children)
    BY PartsHold
  <2> HIDE DEF below
  <2> QED BY <2>1, <2>2, EachList
<1> HIDE DEF f, below
<1>6. ASSUME NEW i \in DOMAIN nodes, InRoom(nodes[i])
      PROVE  /\ f[i] = Part(i - 1, nodes[i], major) \o FlattenSeq(<<>> \o below(nodes[i]))
             /\ IsList(f[i]) /\ <<nodes[i].id>> \in RowIds(f[i])
             /\ Fitting(Part(i - 1, nodes[i], major), S)
  <2> DEFINE x == nodes[i]  p == Part(i - 1, x, major)  b == FlattenSeq(<<>> \o below(x))
  <2>1. x \in Parts /\ PlaceIs(x, major, S)
    BY <1>3, <1>6
  <2>2. f[i] = p \o b
    BY <1>2, <1>6
  <2> HIDE DEF x
  <2>3. Fitting(p, S) /\ IsList(p) /\ <<x.id>> \in RowIds(p) /\ IsList(b)
    BY <1>5, <2>1, PartFits
  <2> HIDE DEF p, b
  <2>4. IsList(f[i]) /\ RowIds(p) \subseteq RowIds(f[i])
    BY <2>2, <2>3, BothLists, RowsOfBoth
  <2> QED BY <2>2, <2>3, <2>4 DEF p, b, x
<1>7. ASSUME NEW i \in DOMAIN nodes, ~InRoom(nodes[i]) PROVE f[i] = <<>>
  BY <1>2, <1>7
<1> HIDE DEF bran
<1>8. \A i \in DOMAIN nodes : IsList(f[i])
  BY <1>6, <1>7, EmptyList
<1>9. \A i \in DOMAIN nodes : RowIds(f[i]) \subseteq S
  BY <1>1, <1>2, <1>8, RowsOfEach
<1>10. ASSUME NEW i \in DOMAIN nodes PROVE Fitting(f[i], S)
  <2>1. CASE InRoom(nodes[i])
    <3>1. <<nodes[i].id>> \in S
      BY <1>6, <1>9, <2>1
    <3>2. Fitting(FlattenSeq(<<>> \o below(nodes[i])), S)
      BY <1>3, <1>4, <3>1
    <3> QED BY <1>6, <2>1, <3>2, FittingBoth
  <2>2. CASE ~InRoom(nodes[i])
    BY <1>7, <2>2, FittingEmpty
  <2> QED BY <2>1, <2>2
<1> QED BY <1>1, <1>2, <1>10, FittingEach

LEMMA SubeFits ==
  ASSUME project \in Projects, NEW x \in Parts, NEW j \in DOMAIN x.children, NEW S, <<x.id>> \in S,
         RowIds(SubeIn(x, j - 1, x.children[j])) \subseteq S
  PROVE  Fitting(SubeIn(x, j - 1, x.children[j]), S)
<1> DEFINE c == x.children[j]  o == <<x.id>>  n == j - 1
           what == IF c.members = <<>> THEN {"edge"} ELSE Both
           s == <<Node(<<c.id>>, o, n, what)>>
<1>1. c \in ChildrenOf(project)
  BY PartsHold
<1>2. Ordered(o, n, <<c.id>>) /\ "edge" \in what /\ o \in S
  BY ChildOrdered DEF Both
<1>3. SubeIn(x, n, c) = IF c.noun # "SUBE" THEN Linked(<<c.id>>, o, n) ELSE s \o Members(c)
  BY DEF SubeIn
<1>4. c.members = <<>> \/ ("row" \in what /\ what = Both)
  BY DEF Both
<1>5. RowIds(SubeIn(x, n, c)) \subseteq S
  OBVIOUS
<1> HIDE DEF o, n, c, what
<1>6. Fitting(s, S) /\ Fitting(Linked(<<c.id>>, o, n), S)
  BY <1>2, FittingOne, FittingLinked
<1>7. CASE c.noun # "SUBE"
  BY <1>3, <1>6, <1>7 DEF c, n
<1>8. CASE c.noun = "SUBE"
  <2>1. IsList(Members(c)) /\ IsList(s)
    BY <1>1, <1>6, MembersSound DEF Deep, Fitting
  <2>2. c.members = <<>> \/ <<c.id>> \in RowIds(s)
    BY <1>4, RowOfOne
  <2> HIDE DEF s
  <2>3. RowIds(s) \subseteq S
    BY <1>3, <1>5, <1>8, <2>1, RowsOfBoth
  <2>4. Fitting(Members(c), S)
    BY <1>1, <2>2, <2>3, MembersFit
  <2>5. Fitting(s \o Members(c), S)
    BY <1>6, <2>4, FittingBoth DEF s
  <2> QED BY <1>3, <1>8, <2>5 DEF c, n
<1> QED BY <1>7, <1>8

LEMMA EquiFits ==
  ASSUME project \in Projects, NEW nodes, IsList(nodes), Range(nodes) \subseteq Parts,
         NEW major, ZoneMajor(major), RoomsThere,
         NEW S, \A x \in Range(nodes) : InRoom(x) => PlaceIs(x, major, S),
         RowIds(set_pbs_equi_node(nodes, major)) \subseteq S
  PROVE  Fitting(set_pbs_equi_node(nodes, major), S)
<1> DEFINE below(x) == [j \in DOMAIN x.children |-> SubeIn(x, j - 1, x.children[j])]
           equi(i) ==
             IF ~InRoom(nodes[i]) THEN <<>>
             ELSE Part(i - 1, nodes[i], major) \o FlattenSeq(<<>> \o below(nodes[i]))
           f == [i \in DOMAIN nodes |-> equi(i)]
<1>1. set_pbs_equi_node(nodes, major) = FlattenSeq(<<>> \o f)
  BY DEF set_pbs_equi_node, Each
<1>2. f = [i \in DOMAIN nodes |-> f[i]] /\ \A i \in DOMAIN nodes : f[i] = equi(i)
  OBVIOUS
<1>3. \A i \in DOMAIN nodes : nodes[i] \in Parts /\ nodes[i] \in Range(nodes)
  BY DEF Range
<1>4. ASSUME NEW x \in Parts
      PROVE  /\ below(x) = [j \in DOMAIN x.children |-> below(x)[j]] /\ IsList(x.children)
             /\ \A j \in DOMAIN x.children : below(x)[j] = SubeIn(x, j - 1, x.children[j]) /\ IsList(below(x)[j])
  <2>1. below(x) = [j \in DOMAIN x.children |-> below(x)[j]] /\ IsList(x.children)
    BY PartsHold
  <2>2. ASSUME NEW j \in DOMAIN x.children PROVE IsList(SubeIn(x, j - 1, x.children[j]))
    BY SubeSound DEF Deep
  <2> QED BY <2>1, <2>2
<1> HIDE DEF f, below
<1>5. ASSUME NEW x \in Parts PROVE IsList(FlattenSeq(<<>> \o below(x)))
  BY <1>4, EachList
<1>6. ASSUME NEW x \in Parts, <<x.id>> \in S, RowIds(FlattenSeq(<<>> \o below(x))) \subseteq S
      PROVE  Fitting(FlattenSeq(<<>> \o below(x)), S)
  <2>1. \A j \in DOMAIN x.children : RowIds(below(x)[j]) \subseteq S
    BY <1>4, <1>6, RowsOfEach
  <2>2. \A j \in DOMAIN x.children : Fitting(below(x)[j], S)
    BY <1>4, <1>6, <2>1, SubeFits
  <2> QED BY <1>4, <2>2, FittingEach
<1>7. ASSUME NEW i \in DOMAIN nodes, InRoom(nodes[i])
      PROVE  /\ f[i] = Part(i - 1, nodes[i], major) \o FlattenSeq(<<>> \o below(nodes[i]))
             /\ IsList(f[i]) /\ <<nodes[i].id>> \in RowIds(f[i])
             /\ RowIds(FlattenSeq(<<>> \o below(nodes[i]))) \subseteq RowIds(f[i])
             /\ Fitting(Part(i - 1, nodes[i], major), S)
  <2> DEFINE x == nodes[i]  p == Part(i - 1, x, major)  b == FlattenSeq(<<>> \o below(x))
  <2>1. x \in Parts /\ PlaceIs(x, major, S)
    BY <1>3, <1>7
  <2>2. f[i] = p \o b
    BY <1>2, <1>7
  <2> HIDE DEF x
  <2>3. Fitting(p, S) /\ IsList(p) /\ <<x.id>> \in RowIds(p) /\ IsList(b)
    BY <1>5, <2>1, PartFits
  <2> HIDE DEF p, b
  <2>4. IsList(f[i]) /\ RowIds(p) \subseteq RowIds(f[i]) /\ RowIds(b) \subseteq RowIds(f[i])
    BY <2>2, <2>3, BothLists, RowsOfBoth
  <2> QED BY <2>2, <2>3, <2>4 DEF p, b, x
<1>8. ASSUME NEW i \in DOMAIN nodes, ~InRoom(nodes[i]) PROVE f[i] = <<>>
  BY <1>2, <1>8
<1> HIDE DEF equi
<1>9. \A i \in DOMAIN nodes : IsList(f[i])
  BY <1>7, <1>8, EmptyList
<1>10. \A i \in DOMAIN nodes : RowIds(f[i]) \subseteq S
  BY <1>1, <1>2, <1>9, RowsOfEach
<1>11. ASSUME NEW i \in DOMAIN nodes PROVE Fitting(f[i], S)
  <2>1. CASE InRoom(nodes[i])
    <3>1. <<nodes[i].id>> \in S /\ RowIds(FlattenSeq(<<>> \o below(nodes[i]))) \subseteq S
      BY <1>7, <1>10, <2>1
    <3>2. Fitting(FlattenSeq(<<>> \o below(nodes[i])), S)
      BY <1>3, <1>6, <3>1
    <3> QED BY <1>7, <2>1, <3>2, FittingBoth
  <2>2. CASE ~InRoom(nodes[i])
    BY <1>8, <2>2, FittingEmpty
  <2> QED BY <2>1, <2>2
<1> QED BY <1>1, <1>2, <1>11, FittingEach

LEMMA SupportChildrenFit ==
  ASSUME project \in Projects, NEW x \in Parts, NEW nouns_, NEW S, <<x.id>> \in S,
         RowIds(SupportChildren(x, nouns_)) \subseteq S
  PROVE  Fitting(SupportChildren(x, nouns_), S)
<1> DEFINE child(j) == Linked(<<x.children[j].id>>, <<x.id>>, j - 1)
           more(j) == IF x.children[j].noun \in nouns_ THEN Members(x.children[j]) ELSE <<>>
           f == [j \in DOMAIN x.children |-> child(j) \o more(j)]
<1>1. SupportChildren(x, nouns_) = FlattenSeq(<<>> \o f)
  BY DEF SupportChildren, Each
<1>2. f = [j \in DOMAIN x.children |-> f[j]] /\ \A j \in DOMAIN x.children : f[j] = child(j) \o more(j)
  OBVIOUS
<1>3. IsList(x.children)
  BY PartsHold
<1> HIDE DEF f
<1>4. ASSUME NEW j \in DOMAIN x.children
      PROVE  /\ IsList(child(j)) /\ <<x.children[j].id>> \in RowIds(child(j)) /\ Fitting(child(j), S)
             /\ IsList(more(j))
  <2> DEFINE o == <<x.id>>  id == <<x.children[j].id>>  n == j - 1
  <2>1. Ordered(o, n, id) /\ o \in S
    BY ChildOrdered
  <2>2. IsList(more(j))
    BY PartsHold, MembersSound, EmptyList DEF Deep
  <2>3. child(j) = Linked(id, o, n)
    OBVIOUS
  <2> HIDE DEF o, id, n, child
  <2>4. IsList(child(j)) /\ id \in RowIds(child(j)) /\ Fitting(child(j), S)
    BY <2>1, <2>3, FittingLinked, RowOfOne
  <2> QED BY <2>2, <2>4 DEF id
<1> HIDE DEF child
<1>5. \A j \in DOMAIN x.children : IsList(f[j]) /\ RowIds(child(j)) \subseteq RowIds(f[j])
  <2> HIDE DEF more
  <2> QED BY <1>2, <1>4, BothLists, RowsOfBoth
<1>6. \A j \in DOMAIN x.children : RowIds(f[j]) \subseteq S
  BY <1>1, <1>2, <1>3, <1>5, RowsOfEach
<1>7. ASSUME NEW j \in DOMAIN x.children PROVE Fitting(f[j], S)
  <2>1. <<x.children[j].id>> \in S /\ x.children[j] \in ChildrenOf(project)
    BY <1>4, <1>5, <1>6, PartsHold
  <2>2. Fitting(more(j), S)
    BY <2>1, MembersFit, FittingEmpty
  <2> HIDE DEF more
  <2> QED BY <1>2, <1>4, <2>2, FittingBoth
<1> QED BY <1>1, <1>2, <1>3, <1>7, FittingEach

LEMMA SupportsFit ==
  ASSUME project \in Projects, NEW stru, NEW rest, IsList(stru), IsList(rest),
         Range(stru) \subseteq Parts, Range(rest) \subseteq Parts,
         NEW major, ZoneMajor(major), RoomsThere,
         NEW S, \A x \in Range(stru) \union Range(rest) : InRoom(x) => PlaceIs(x, major, S),
         RowIds(set_pbs_supp_and_stru_node(stru, rest, major)) \subseteq S
  PROVE  Fitting(set_pbs_supp_and_stru_node(stru, rest, major), S)
<1> DEFINE nodes == stru \o rest
           plain(i) ==
             IF ~InRoom(stru[i]) THEN <<>>
             ELSE Part(i - 1, stru[i], major) \o SupportChildren(stru[i], {"FRMW"})
           named(x) == InRoom(x) /\ x.fix # <<>>
           first(i) ==
             \A k \in 1 .. i - 1 : named(nodes[k]) => FixedId(nodes[k]) # FixedId(nodes[i])
           fixed(i) == Linked(FixedId(nodes[i]), MajorId(nodes[i].room, major), i - 1)
           part(i) == Linked(<<nodes[i].id>>, FixedId(nodes[i]), IF nodes[i].noun = "STRU" THEN 0 ELSE 1)
           children(i) == SupportChildren(nodes[i], {"FRMW", "HANG"})
           support(i) ==
             IF ~named(nodes[i]) THEN <<>>
             ELSE (IF first(i) THEN fixed(i) ELSE <<>>) \o part(i) \o children(i)
           f == [i \in DOMAIN stru |-> plain(i)]
           g == [i \in DOMAIN nodes |-> support(i)]
           all == set_pbs_supp_and_stru_node(stru, rest, major)
<1>1. all = IF major \in OnlyStru THEN FlattenSeq(<<>> \o f) ELSE FlattenSeq(<<>> \o g)
  BY DEF set_pbs_supp_and_stru_node, Each
<1>2. /\ f = [i \in DOMAIN stru |-> f[i]] /\ \A i \in DOMAIN stru : f[i] = plain(i)
      /\ g = [i \in DOMAIN nodes |-> g[i]] /\ \A i \in DOMAIN nodes : g[i] = support(i)
  OBVIOUS
<1>3. /\ IsList(nodes) /\ Range(nodes) = Range(stru) \union Range(rest)
      /\ DOMAIN nodes = 1 .. Len(nodes) /\ Len(nodes) \in Nat
  BY BothLists, ListIs
<1>4. RowIds(all) \subseteq S
  OBVIOUS
<1> HIDE DEF f, g, nodes, all
<1>5. ASSUME NEW i \in DOMAIN stru PROVE stru[i] \in Parts /\ (InRoom(stru[i]) => PlaceIs(stru[i], major, S))
  BY DEF Range
<1>6. ASSUME NEW i \in DOMAIN nodes PROVE nodes[i] \in Parts /\ (InRoom(nodes[i]) => PlaceIs(nodes[i], major, S))
  <2>1. nodes[i] \in Range(nodes)
    BY DEF Range
  <2> QED BY <1>3, <2>1
<1>7. CASE major \in OnlyStru
  <2>1. ASSUME NEW i \in DOMAIN stru, InRoom(stru[i])
        PROVE  /\ f[i] = Part(i - 1, stru[i], major) \o SupportChildren(stru[i], {"FRMW"})
               /\ IsList(f[i]) /\ <<stru[i].id>> \in RowIds(f[i])
               /\ RowIds(SupportChildren(stru[i], {"FRMW"})) \subseteq RowIds(f[i])
               /\ Fitting(Part(i - 1, stru[i], major), S)
    <3> DEFINE x == stru[i]  p == Part(i - 1, x, major)  b == SupportChildren(x, {"FRMW"})
    <3>1. x \in Parts /\ PlaceIs(x, major, S)
      BY <1>5, <2>1
    <3>2. f[i] = p \o b
      BY <1>2, <2>1
    <3> HIDE DEF x
    <3>3. Fitting(p, S) /\ IsList(p) /\ <<x.id>> \in RowIds(p) /\ IsList(b)
      BY <3>1, PartFits, SupportChildrenSound DEF Deep
    <3> HIDE DEF p, b
    <3>4. IsList(f[i]) /\ RowIds(p) \subseteq RowIds(f[i]) /\ RowIds(b) \subseteq RowIds(f[i])
      BY <3>2, <3>3, BothLists, RowsOfBoth
    <3> QED BY <3>2, <3>3, <3>4 DEF p, b, x
  <2>2. ASSUME NEW i \in DOMAIN stru, ~InRoom(stru[i]) PROVE f[i] = <<>>
    BY <1>2, <2>2
  <2> HIDE DEF plain
  <2>3. \A i \in DOMAIN stru : IsList(f[i])
    BY <2>1, <2>2, EmptyList
  <2>4. \A i \in DOMAIN stru : RowIds(f[i]) \subseteq S
    BY <1>1, <1>2, <1>4, <1>7, <2>3, RowsOfEach
  <2>5. ASSUME NEW i \in DOMAIN stru PROVE Fitting(f[i], S)
    <3>1. CASE InRoom(stru[i])
      <4>1. <<stru[i].id>> \in S /\ RowIds(SupportChildren(stru[i], {"FRMW"})) \subseteq S
        BY <2>1, <2>4, <3>1
      <4>2. Fitting(SupportChildren(stru[i], {"FRMW"}), S)
        BY <1>5, <4>1, SupportChildrenFit
      <4> QED BY <2>1, <3>1, <4>2, FittingBoth
    <3>2. CASE ~InRoom(stru[i])
      BY <2>2, <3>2, FittingEmpty
    <3> QED BY <3>1, <3>2
  <2>6. Fitting(FlattenSeq(<<>> \o f), S)
    BY <1>2, <2>5, FittingEach
  <2> QED BY <1>1, <1>7, <2>6 DEF all
<1>8. CASE major \notin OnlyStru
  <2>1. ASSUME NEW i \in DOMAIN nodes
        PROVE  /\ IsList(fixed(i)) /\ FixedId(nodes[i]) \in RowIds(fixed(i))
               /\ IsList(part(i)) /\ <<nodes[i].id>> \in RowIds(part(i)) /\ IsList(children(i))
    BY <1>6, RowOfOne, SupportChildrenSound DEF Deep
  <2>2. ASSUME NEW i \in DOMAIN nodes, named(nodes[i])
        PROVE  /\ Crowded(MajorId(nodes[i].room, major), FixedId(nodes[i]))
               /\ Crowded(FixedId(nodes[i]), <<nodes[i].id>>)
               /\ MajorId(nodes[i].room, major) \in S
    <3> DEFINE x == nodes[i]
    <3>1. x \in Parts /\ PlaceIs(x, major, S) /\ x.fix # <<>>
      BY <1>6, <2>2
    <3> HIDE DEF x
    <3>2. x.fix[1] \in FixNames /\ x.id \in PartNames
      BY <3>1, PartsHold
    <3>3. Crowded(MajorId(x.room, major), FixedId(x)) /\ Crowded(FixedId(x), <<x.id>>)
      BY <3>1, <3>2 DEF Crowded, MajorId, FixedId
    <3> QED BY <3>1, <3>3 DEF PlaceIs, x
  <2>3. ASSUME NEW i \in DOMAIN nodes, named(nodes[i])
        PROVE  Fitting(fixed(i), S) /\ (FixedId(nodes[i]) \in S => Fitting(part(i), S))
    <3> DEFINE a == FixedId(nodes[i])  b == MajorId(nodes[i].room, major)  k == i - 1
               c == <<nodes[i].id>>  l == IF nodes[i].noun = "STRU" THEN 0 ELSE 1
    <3>1. Crowded(b, a) /\ Crowded(a, c) /\ b \in S
      BY <2>2, <2>3
    <3>2. fixed(i) = Linked(a, b, k) /\ part(i) = Linked(c, a, l)
      OBVIOUS
    <3> HIDE DEF a, b, c, k, l, fixed, part
    <3>3. Fitting(fixed(i), S) /\ (a \in S => Fitting(part(i), S))
      BY <3>1, <3>2, FittingLinked
    <3> QED BY <3>3 DEF a
  <2> DEFINE ahead(i) == IF first(i) THEN fixed(i) ELSE <<>>
  <2>4. ASSUME NEW i \in DOMAIN nodes, named(nodes[i])
        PROVE  /\ g[i] = ahead(i) \o part(i) \o children(i) /\ IsList(g[i])
               /\ RowIds(children(i)) \subseteq RowIds(g[i])
               /\ <<nodes[i].id>> \in RowIds(g[i])
               /\ first(i) => FixedId(nodes[i]) \in RowIds(g[i])
    <3>1. g[i] = ahead(i) \o part(i) \o children(i)
      BY <1>2, <2>4
    <3>2. IsList(ahead(i)) /\ (first(i) => ahead(i) = fixed(i))
      BY <2>1, EmptyList
    <3> HIDE DEF ahead, part, children, fixed, first
    <3>3. IsList(ahead(i) \o part(i)) /\ RowIds(ahead(i)) \subseteq RowIds(ahead(i) \o part(i))
          /\ RowIds(part(i)) \subseteq RowIds(ahead(i) \o part(i))
      BY <2>1, <3>2, BothLists, RowsOfBoth
    <3>4. /\ IsList(g[i]) /\ RowIds(ahead(i) \o part(i)) \subseteq RowIds(g[i])
          /\ RowIds(children(i)) \subseteq RowIds(g[i])
      BY <2>1, <3>1, <3>3, BothLists, RowsOfBoth
    <3>5. <<nodes[i].id>> \in RowIds(part(i)) /\ FixedId(nodes[i]) \in RowIds(fixed(i))
      BY <2>1
    <3> QED BY <3>1, <3>2, <3>3, <3>4, <3>5
  <2>5. ASSUME NEW i \in DOMAIN nodes, ~named(nodes[i]) PROVE g[i] = <<>>
    BY <1>2, <2>5
  <2> HIDE DEF support
  <2>6. \A i \in DOMAIN nodes : IsList(g[i])
    BY <2>4, <2>5, EmptyList
  <2>7. \A i \in DOMAIN nodes : RowIds(g[i]) \subseteq S
    BY <1>1, <1>2, <1>3, <1>4, <1>8, <2>6, RowsOfEach
  <2>8. ASSUME NEW i \in DOMAIN nodes, named(nodes[i]) PROVE FixedId(nodes[i]) \in S
    <3> DEFINE T == {k \in DOMAIN nodes : named(nodes[k]) /\ FixedId(nodes[k]) = FixedId(nodes[i])}
    <3>1. T \subseteq Nat /\ T # {}
      BY <1>3, <2>8
    <3>2. PICK k \in T : \A j \in T : k <= j
      <4> HIDE DEF T
      <4> QED BY <3>1, Least
    <3>3. k \in DOMAIN nodes /\ named(nodes[k]) /\ FixedId(nodes[k]) = FixedId(nodes[i])
      BY <3>2
    <3>4. first(k)
      <4> SUFFICES ASSUME NEW j \in 1 .. k - 1, named(nodes[j]), FixedId(nodes[j]) = FixedId(nodes[k]) PROVE FALSE
        OBVIOUS
      <4>1. j \in DOMAIN nodes /\ ~(k <= j)
        BY <1>3, <3>3
      <4>2. j \in T
        BY <3>3, <4>1
      <4> HIDE DEF T
      <4> QED BY <3>2, <4>1, <4>2
    <3> HIDE DEF T, first, named
    <3> QED BY <2>4, <2>7, <3>3, <3>4
  <2>9. ASSUME NEW i \in DOMAIN nodes PROVE Fitting(g[i], S)
    <3>1. CASE named(nodes[i])
      <4>1. <<nodes[i].id>> \in S /\ RowIds(children(i)) \subseteq S /\ nodes[i] \in Parts
        BY <1>6, <2>4, <2>7, <3>1
      <4>2. Fitting(children(i), S)
        BY <4>1, SupportChildrenFit
      <4>3. Fitting(part(i), S) /\ Fitting(fixed(i), S)
        BY <2>3, <2>8, <3>1
      <4>4. Fitting(ahead(i), S)
        BY <4>3, FittingEmpty
      <4> HIDE DEF ahead, part, children, fixed
      <4>5. Fitting(ahead(i) \o part(i), S)
        BY <4>3, <4>4, FittingBoth
      <4> QED BY <2>4, <3>1, <4>2, <4>5, FittingBoth
    <3>2. CASE ~named(nodes[i])
      BY <2>5, <3>2, FittingEmpty
    <3> QED BY <3>1, <3>2
  <2>10. Fitting(FlattenSeq(<<>> \o g), S)
    BY <1>2, <1>3, <2>9, FittingEach
  <2> QED BY <1>1, <1>8, <2>10 DEF all
<1> QED BY <1>7, <1>8

-----------------------------------------------------------------------------
(* The table of the disciplines: every one is of the sheet, those of zones   *)
(* are below one.                                                           *)

SheetMajor(c) == \E m \in Range(SheetMajors) : c = m.code

LEMMA SheetMajorsHave ==
  ASSUME NEW k \in DOMAIN SheetLevels
  PROVE  /\ SheetMajor(SheetLevels[k].code)
         /\ \A row \in Range(SheetLevels[k].zones) : ZoneMajor(row.zoneCode)
<1> DEFINE site(i) == [code |-> SheetLevels[i].code, above |-> NoCell, order |-> i - 1]
           row(i, j) == [code |-> SheetLevels[i].zones[j].zoneCode, above |-> SheetLevels[i].code, order |-> j - 1]
           zone(i) == [j \in DOMAIN SheetLevels[i].zones |-> <<row(i, j)>>]
           f == [i \in DOMAIN SheetLevels |-> <<site(i)>> \o FlattenSeq(<<>> \o zone(i))]
<1>1. SheetMajors = FlattenSeq(<<>> \o f)
  BY DEF SheetMajors, Each
<1>2. /\ IsList(SheetLevels) /\ \A i \in DOMAIN SheetLevels : IsList(SheetLevels[i].zones)
      /\ SheetLevels[k].code # NoCell
  BY SheetIsRead
<1>3. f = [i \in DOMAIN SheetLevels |-> f[i]]
      /\ \A i \in DOMAIN SheetLevels : f[i] = <<site(i)>> \o FlattenSeq(<<>> \o zone(i))
  OBVIOUS
<1> HIDE DEF f
<1>4. ASSUME NEW i \in DOMAIN SheetLevels
      PROVE  /\ IsList(FlattenSeq(<<>> \o zone(i)))
             /\ \A j \in DOMAIN SheetLevels[i].zones : row(i, j) \in Range(FlattenSeq(<<>> \o zone(i)))
  <2> DEFINE z == zone(i)
  <2>1. z = [j \in DOMAIN SheetLevels[i].zones |-> z[j]] /\ IsList(SheetLevels[i].zones)
    BY <1>2
  <2>2. \A j \in DOMAIN SheetLevels[i].zones : z[j] = <<row(i, j)>>
    OBVIOUS
  <2> HIDE DEF z, row
  <2>3. \A j \in DOMAIN SheetLevels[i].zones : IsList(z[j]) /\ row(i, j) \in Range(z[j])
    BY <2>2, OneList
  <2>4. /\ IsList(FlattenSeq(<<>> \o z))
        /\ \A j \in DOMAIN SheetLevels[i].zones : Range(z[j]) \subseteq Range(FlattenSeq(<<>> \o z))
    BY <2>1, <2>3, EachList, EachHas
  <2>5. \A j \in DOMAIN SheetLevels[i].zones : row(i, j) \in Range(FlattenSeq(<<>> \o z))
    BY <2>3, <2>4
  <2> QED BY <2>4, <2>5 DEF z
<1> HIDE DEF zone
<1>5. ASSUME NEW i \in DOMAIN SheetLevels
      PROVE  /\ IsList(f[i]) /\ site(i) \in Range(f[i])
             /\ Range(FlattenSeq(<<>> \o zone(i))) \subseteq Range(f[i])
  <2> DEFINE t == FlattenSeq(<<>> \o zone(i))  s == site(i)
  <2>1. IsList(t) /\ f[i] = <<s>> \o t
    BY <1>3, <1>4
  <2> HIDE DEF t, s
  <2>2. IsList(<<s>>) /\ Range(<<s>>) = {s}
    BY OneList
  <2>3. IsList(f[i]) /\ Range(f[i]) = {s} \union Range(t)
    BY <2>1, <2>2, BothLists
  <2> QED BY <2>3 DEF s, t
<1>6. Range(f[k]) \subseteq Range(SheetMajors)
  BY <1>1, <1>2, <1>3, <1>5, EachHas
<1>7. SheetMajor(SheetLevels[k].code)
  <2>1. site(k) \in Range(SheetMajors) /\ site(k).code = SheetLevels[k].code
    BY <1>5, <1>6
  <2> HIDE DEF site
  <2> QED BY <2>1 DEF SheetMajor
<1>8. ASSUME NEW r \in Range(SheetLevels[k].zones) PROVE ZoneMajor(r.zoneCode)
  <2>1. PICK j \in DOMAIN SheetLevels[k].zones : r = SheetLevels[k].zones[j]
    BY DEF Range
  <2>2. row(k, j) \in Range(SheetMajors)
    BY <1>4, <1>5, <1>6
  <2>3. row(k, j).code = r.zoneCode /\ row(k, j).above # NoCell
    BY <1>2, <2>1
  <2> HIDE DEF row
  <2> QED BY <2>2, <2>3 DEF ZoneMajor
<1> QED BY <1>7, <1>8

\* A site has the code of a group, a zone that of a zone in one.
MajorsAre ==
  \A x \in DOMAIN majors :
    IF x \in DOMAIN project.elements THEN SheetMajor(majors[x]) \/ ZoneMajor(majors[x])
    ELSE ZoneMajor(majors[x])

LEMMA WinsIs ==
  ASSUME NEW ks, ks \subseteq 1 .. Len(SheetGroups), ks # {}
  PROVE  Wins(ks) \in ks /\ Wins(ks) \in DOMAIN SheetLevels
<1>1. Len(SheetGroups) \in Nat /\ DOMAIN SheetLevels = 1 .. Len(SheetGroups)
  BY SheetIsRead, ListIs
<1> DEFINE n == Len(SheetGroups)
<1>2. n \in Nat /\ ks \subseteq 0 .. n
  BY <1>1
<1> HIDE DEF n
<1>3. \E k \in ks : \A j \in ks : j <= k
  BY <1>2, Greatest
<1> QED BY <1>1, <1>3 DEF Wins

LEMMA MajorsGrow ==
  ASSUME MajorsAre, project' = project, WriteMajors
  PROVE  MajorsAre' /\ \A x \in DOMAIN majors : x \in DOMAIN majors' /\ majors'[x] = majors[x]
<1> SUFFICES ASSUME NEW unread, NEW rows \in AllMajors(SheetGroups, project.elements, unread),
                    majors' = InsertIgnore(majors, rows)
             PROVE  MajorsAre' /\ \A x \in DOMAIN majors : x \in DOMAIN majors' /\ majors'[x] = majors[x]
  <2>1. CASE UNCHANGED majors
    BY <2>1 DEF MajorsAre
  <2> QED BY <2>1 DEF WriteMajors
<1> DEFINE elements == project.elements
           read == [s \in DOMAIN elements \ unread |-> elements[s]]
           sites == SiteMajors(SheetGroups, read)
           codes(z) == UNION {ZoneCodes(SheetGroups, read, s, z) : s \in {t \in DOMAIN read : z \in DOMAIN read[t].zones}}
           zs == {z \in UNION {DOMAIN read[s].zones : s \in DOMAIN read} : codes(z) # {}}
<1>1. PICK f : /\ f \in [zs -> UNION {codes(z) : z \in zs}] /\ \A z \in zs : f[z] \in codes(z)
               /\ rows = InsertIgnore(sites, f)
  BY DEF AllMajors
<1>2. DOMAIN f = zs
  BY <1>1
<1>3. /\ DOMAIN rows = DOMAIN sites \union DOMAIN f
      /\ \A x \in DOMAIN rows : rows[x] = IF x \in DOMAIN sites THEN sites[x] ELSE f[x]
  <2> HIDE DEF sites
  <2> QED BY <1>1 DEF InsertIgnore
<1>4. /\ DOMAIN majors' = DOMAIN majors \union DOMAIN rows
      /\ \A x \in DOMAIN majors' : majors'[x] = IF x \in DOMAIN majors THEN majors[x] ELSE rows[x]
  BY DEF InsertIgnore
<1>5. DOMAIN read \subseteq DOMAIN elements
  OBVIOUS
<1> HIDE DEF read
<1>6. ASSUME NEW s \in DOMAIN sites PROVE s \in DOMAIN elements /\ SheetMajor(sites[s])
  <2> DEFINE ks == Matching(SheetGroups, read[s].name)
  <2>1. s \in DOMAIN read /\ ks # {} /\ sites[s] = SheetGroups[Wins(ks)].code
    BY DEF SiteMajors, Classified
  <2>2. ks \subseteq 1 .. Len(SheetGroups)
    BY DEF Matching
  <2> HIDE DEF ks
  <2>3. Wins(ks) \in DOMAIN SheetLevels
    BY <2>1, <2>2, WinsIs
  <2>4. sites[s] = SheetLevels[Wins(ks)].code
    BY <2>1, <2>3, SheetIsRead
  <2> QED BY <1>5, <2>1, <2>3, <2>4, SheetMajorsHave
<1>7. ASSUME NEW s, NEW z, NEW c \in ZoneCodes(SheetGroups, read, s, z) PROVE ZoneMajor(c)
  <2> DEFINE name == read[s].zones[z]
             keys(k) == DOMAIN SheetGroups[k].zones \intersect name
             ks == {k \in Matching(SheetGroups, read[s].name) : keys(k) # {}}
  <2>1. ks # {} /\ c \in {SheetGroups[Wins(ks)].zones[key] : key \in keys(Wins(ks))}
    <3> HIDE DEF ZoneMajor
    <3> QED BY DEF ZoneCodes
  <2>2. ks \subseteq 1 .. Len(SheetGroups)
    BY DEF Matching
  <2> DEFINE k == Wins(ks)
  <2>3. k \in DOMAIN SheetLevels
    <3> HIDE DEF ks
    <3> QED BY <2>1, <2>2, WinsIs
  <2> HIDE DEF ks
  <2>4. PICK key \in DOMAIN SheetGroups[k].zones : c = SheetGroups[k].zones[key]
    BY <2>1
  <2> HIDE DEF k
  <2>5. PICK row \in Range(SheetLevels[k].zones) : c = row.zoneCode
    BY <2>3, <2>4, SheetIsRead
  <2> QED BY <2>3, <2>5, SheetMajorsHave
<1>8. ASSUME NEW z \in DOMAIN f PROVE ZoneMajor(f[z])
  <2>1. f[z] \in codes(z)
    BY <1>1, <1>2
  <2>2. PICK s : f[z] \in ZoneCodes(SheetGroups, read, s, z)
    BY <2>1
  <2> QED BY <1>7, <2>2
<1> HIDE DEF sites, zs
<1>9. ASSUME NEW x \in DOMAIN majors'
      PROVE  IF x \in DOMAIN elements THEN SheetMajor(majors'[x]) \/ ZoneMajor(majors'[x]) ELSE ZoneMajor(majors'[x])
  <2>1. CASE x \in DOMAIN majors
    BY <1>4, <2>1 DEF MajorsAre
  <2>2. CASE x \notin DOMAIN majors /\ x \in DOMAIN sites
    BY <1>3, <1>4, <1>6, <2>2
  <2>3. CASE x \notin DOMAIN majors /\ x \notin DOMAIN sites
    BY <1>3, <1>4, <1>8, <2>3
  <2> QED BY <2>1, <2>2, <2>3
<1>10. MajorsAre'
  <2>1. MajorsAre' <=>
          \A x \in DOMAIN majors' :
            IF x \in DOMAIN project.elements THEN SheetMajor(majors'[x]) \/ ZoneMajor(majors'[x])
            ELSE ZoneMajor(majors'[x])
    BY DEF MajorsAre
  <2> QED BY <1>9, <2>1
<1> QED BY <1>4, <1>10

-----------------------------------------------------------------------------
(* Without failures a row is saved with its owner or after it: what is there *)
(* when a stage begins, and what its batch adds.                             *)

Away == NoRoomNode \union UnknownRooms
\* The rows that are there or about to be.
Coming == DOMAIN pbs \union (IF batch.step = "insert" THEN IdsOf(batch.rows) ELSE {})
Found == Coming \union Away

Due == {"pbs_rooms", "pbs_room_majors", "pbs_zone_list", "pbs_zones"}
AfterFixed == Due \union {"pbs_room_nodes"}
AfterRooms == {"pbs_room_nodes", "pbs_room_majors", "pbs_zone_list", "pbs_zones"}
AfterNodes == {"pbs_room_majors", "pbs_zone_list", "pbs_zones"}
AfterMajors == {"pbs_zone_list", "pbs_zones"}

MajorsListed(S) == \A n \in RoomNames, m \in Range(SheetMajors) : <<n, m.code>> \in S
StagesDone ==
  /\ pc \in AfterFixed => Unit \in Coming
  /\ pc \in AfterRooms => RoomsFound
  /\ pc \in AfterNodes => RoomIds \ NoRoomNode \subseteq Coming
  /\ pc \in AfterMajors => MajorsListed(Coming)
BatchIsDue == batch.step # "idle" => pc \in Due
ZonesHaveMajors == \A z \in Range(zones) : z[1] \in DOMAIN majors

\* The owner of a row is there, or away for a reason; rooms are below levels.
Rooted == \A id \in DOMAIN pbs : id = Root \/ pbs[id] \in DOMAIN pbs \union Away
BelowLevel(o) == \E f \in Factories, l \in LevelNames : o = <<f, l>>
RoomsBelowLevels ==
  \A n \in RoomNames : <<n>> \in DOMAIN pbs /\ <<n>> \notin NoRoomNode => BelowLevel(pbs[<<n>>])
BatchFits ==
  batch.step # "idle" =>
    /\ \A e \in Range(batch.rows) :
         Seated(e, Found) /\ (e.id = Root \/ e \in Range(batch.edges))
    /\ IsList(batch.edges) /\ \A e \in Range(batch.edges) : Seated(e, Found) /\ "edge" \in e.what
PlaceInv ==
  /\ MajorsAre /\ BatchIsDue /\ ZonesHaveMajors
  /\ faults = 0 => StagesDone /\ Rooted /\ RoomsBelowLevels /\ BatchFits

\* A place depends on the project alone.
LEMMA PlacesStay ==
  ASSUME project' = project, NEW o, NEW k, NEW id
  PROVE  /\ Ordered(o, k, id)' <=> Ordered(o, k, id)
         /\ Crowded(o, id)' <=> Crowded(o, id)
<1>1. Parts' = Parts /\ Rooms' = Rooms /\ Factories' = Factories
  BY DEF Parts, Rooms, Factories
<1>2. /\ RoomNames' = RoomNames /\ LevelNames' = LevelNames
      /\ FixNames' = FixNames /\ PartNames' = PartNames
      /\ ChildrenOf(project)' = ChildrenOf(project)
  BY <1>1 DEF RoomNames, LevelNames, FixNames, PartNames
<1>3. \A f : FoundRooms(f)' = FoundRooms(f)
  BY DEF FoundRooms
<1>4. Crowded(o, id)' <=> Crowded(o, id)
  BY <1>1, <1>2 DEF Crowded
<1>5. Ordered(o, k, id)' <=> Ordered(o, k, id)
  BY <1>1, <1>2, <1>3 DEF Ordered
<1> QED BY <1>4, <1>5

MajorsKept == \A x \in DOMAIN majors : x \in DOMAIN majors' /\ majors'[x] = majors[x]

\* A reason stays one.
LEMMA ReasonsStay ==
  ASSUME project' = project, MajorsKept
  PROVE  /\ RoomIds' = RoomIds /\ NoRoomNode' = NoRoomNode /\ Away \subseteq Away'
         /\ RoomNames' = RoomNames /\ Factories' = Factories /\ LevelNames' = LevelNames
<1>1. Parts' = Parts /\ Rooms' = Rooms /\ Factories' = Factories
  BY DEF Parts, Rooms, Factories
<1>2. RoomIds' = RoomIds /\ NoRoomNode' = NoRoomNode
  BY <1>1 DEF RoomIds, NoRoomNode
<1>3. UnknownRooms \subseteq UnknownRooms'
  <2> SUFFICES ASSUME NEW id \in UnknownRooms PROVE id \in UnknownRooms'
    OBVIOUS
  <2>1. PICK x \in Parts, z \in DOMAIN majors \intersect DOMAIN project.parts :
          /\ x \in PartsIn(project, z) /\ x.room \notin {r.name : r \in Rooms}
          /\ id = <<x.room, majors[z]>>
    BY DEF UnknownRooms
  <2>2. z \in DOMAIN majors' /\ majors'[z] = majors[z]
    BY <2>1 DEF MajorsKept
  <2> DEFINE p == <<x, z>>
             reasons == {y \in Parts' \X (DOMAIN majors' \intersect DOMAIN project'.parts) :
                           /\ y[1] \in PartsIn(project', y[2])
                           /\ y[1].room \notin {r.name : r \in Rooms'}}
  <2>3. p[1] = x /\ p[2] = z /\ p \in Parts' \X (DOMAIN majors' \intersect DOMAIN project'.parts)
    BY <1>1, <2>2
  <2>4. p[1] \in PartsIn(project', p[2]) /\ p[1].room \notin {r.name : r \in Rooms'}
    BY <1>1, <2>1, <2>3
  <2>5. id = <<p[1].room, majors'[p[2]]>>
    BY <2>1, <2>2, <2>3
  <2> HIDE DEF p
  <2>6. p \in reasons
    BY <2>3, <2>4
  <2>7. UnknownRooms' = {<<y[1].room, majors'[y[2]]>> : y \in reasons}
    BY DEF UnknownRooms
  <2> HIDE DEF reasons
  <2> QED BY <2>5, <2>6, <2>7
<1> QED BY <1>1, <1>2, <1>3 DEF Away, RoomNames, LevelNames

LEMMA FitsStays ==
  ASSUME project' = project, DOMAIN pbs \subseteq DOMAIN pbs', MajorsKept,
         NEW e, NEW S, S \subseteq Found', Seated(e, S)
  PROVE  Seated(e, Found)'
<1>1. CASE e.id = Root /\ e.what = {"row"}
  BY <1>1 DEF Seated
<1>2. CASE e.owner \in S /\ "edge" \in e.what
           /\ (Ordered(e.owner, e.order, e.id) \/ (Crowded(e.owner, e.id) /\ RoomsThere))
  <2>1. /\ Ordered(e.owner, e.order, e.id) => Ordered(e.owner, e.order, e.id)'
        /\ Crowded(e.owner, e.id) => Crowded(e.owner, e.id)'
    BY PlacesStay
  <2>2. RoomsThere => RoomsThere'
    BY ReasonsStay DEF RoomsThere
  <2>3. e.owner \in Found'
    BY <1>2
  <2> QED BY <1>2, <2>1, <2>2, <2>3 DEF Seated
<1> QED BY <1>1, <1>2 DEF Seated

\* What a batch holds still fits when more is found.
LEMMA BatchStays ==
  ASSUME project' = project, BatchFits, DOMAIN pbs \subseteq DOMAIN pbs', Found \subseteq Found',
         MajorsKept,
         batch'.step # "idle" =>
           batch.step # "idle" /\ batch'.rows = batch.rows /\ batch'.edges = batch.edges
  PROVE  BatchFits'
<1> SUFFICES ASSUME batch'.step # "idle" PROVE BatchFits'
  BY DEF BatchFits
<1>1. batch.step # "idle" /\ batch'.rows = batch.rows /\ batch'.edges = batch.edges
  OBVIOUS
<1>2. \A e : Seated(e, Found) => Seated(e, Found)'
  BY FitsStays
<1>3. \A e \in Range(batch.rows) : Seated(e, Found)' /\ (e.id = Root \/ e \in Range(batch.edges))
  BY <1>1, <1>2 DEF BatchFits
<1>4. IsList(batch.edges) /\ \A e \in Range(batch.edges) : Seated(e, Found)' /\ "edge" \in e.what
  BY <1>1, <1>2 DEF BatchFits
<1> QED BY <1>1, <1>3, <1>4 DEF BatchFits

LEMMA FittingOn ==
  ASSUME NEW S, NEW T, S \subseteq T, NEW s, Fitting(s, S)
  PROVE  Fitting(s, T)
BY DEF Seated, Fitting

LEMMA NewBatchFits ==
  ASSUME project' = project, pbs' = pbs, majors' = majors,
         NEW all, Fitting(all, DOMAIN pbs \union RowIds(all) \union Away), Save(all)
  PROVE  BatchFits' /\ Coming' = DOMAIN pbs \union RowIds(all) /\ batch'.step = "insert"
<1> DEFINE rows == Picked(all, "row")  es == Picked(all, "edge")
           S == DOMAIN pbs \union RowIds(all) \union Away
<1>1. batch'.rows = rows /\ batch'.edges = es /\ batch'.step = "insert"
  BY DEF Save
<1>2. /\ IsList(rows) /\ IsList(es) /\ IsList(all)
      /\ \A e \in Range(all) : ("row" \in e.what => e \in Range(rows)) /\ ("edge" \in e.what => e \in Range(es))
      /\ \A e \in Range(rows) : e \in Range(all) /\ "row" \in e.what
      /\ \A e \in Range(es) : e \in Range(all) /\ "edge" \in e.what
  BY PickedHas DEF Fitting
<1>3. \A e \in Range(all) : Seated(e, S)
  BY DEF Fitting
<1> HIDE DEF rows, es
<1>4. IdsOf(rows) = RowIds(all)
  <2>1. \A id \in IdsOf(rows) : \E e \in Range(rows) : id = e.id
    BY DEF IdsOf, Range
  <2>2. \A e \in Range(rows) : e.id \in IdsOf(rows)
    BY DEF IdsOf, Range
  <2> QED BY <1>2, <2>1, <2>2 DEF RowIds
<1>5. Coming' = DOMAIN pbs \union RowIds(all)
  BY <1>1, <1>4 DEF Coming
<1>6. MajorsKept
  BY DEF MajorsKept
<1>7. S \subseteq Found'
  BY <1>5, <1>6, ReasonsStay DEF Found
<1> HIDE DEF S
<1>8. \A e \in Range(all) : Seated(e, Found)'
  BY <1>3, <1>6, <1>7, FitsStays
<1>9. \A e \in Range(rows) : Seated(e, Found)' /\ (e.id = Root \/ e \in Range(es))
  <2> SUFFICES ASSUME NEW e \in Range(rows) PROVE Seated(e, Found)' /\ (e.id = Root \/ e \in Range(es))
    OBVIOUS
  <2>1. e \in Range(all) /\ Seated(e, S)
    BY <1>2, <1>3
  <2>2. e.id = Root \/ "edge" \in e.what
    BY <2>1 DEF Seated
  <2> QED BY <1>2, <1>8, <2>1, <2>2
<1>10. \A e \in Range(es) : Seated(e, Found)' /\ "edge" \in e.what
  BY <1>2, <1>8
<1>11. BatchFits'
  BY <1>1, <1>2, <1>9, <1>10 DEF BatchFits
<1> QED BY <1>1, <1>5, <1>11

\* Any order of a set holds all of it, once.
LEMMA AllOrdered ==
  ASSUME NEW S, IsFiniteSet(S), NEW seq \in SetToSeqs(S)
  PROVE  /\ \A x \in S : \E i \in DOMAIN seq : seq[i] = x
         /\ \A i, j \in DOMAIN seq : seq[i] = seq[j] => i = j
<1> DEFINE n == Cardinality(S)
<1>1. n \in Nat
  BY FS_CardinalityType
<1>2. seq \in [1 .. n -> S] /\ \A i, j \in 1 .. n : i # j => seq[i] # seq[j]
  BY DEF SetToSeqs
<1>3. IsFiniteSet(1 .. n) /\ Cardinality(1 .. n) = n
  BY <1>1, FS_Interval
<1>4. seq \in Injection(1 .. n, S)
  BY <1>2 DEF Injection, IsInjective
<1>5. seq \in Surjection(1 .. n, S)
  BY <1>3, <1>4, FS_Injection
<1>6. \A x \in S : \E i \in 1 .. n : seq[i] = x
  BY <1>5 DEF Surjection
<1> HIDE DEF n
<1> QED BY <1>2, <1>6

LEMMA SameRows ==
  ASSUME project' = project, pbs' = pbs, MajorsKept, Rooted, RoomsBelowLevels
  PROVE  Rooted' /\ RoomsBelowLevels'
<1> USE ReasonsStay
<1>1. Rooted'
  <2>1. \A id \in DOMAIN pbs : id = Root \/ pbs[id] \in DOMAIN pbs \union Away'
    BY DEF Rooted
  <2> QED BY <2>1 DEF Rooted
<1>2. \A o : BelowLevel(o)' <=> BelowLevel(o)
  BY DEF BelowLevel
<1>3. RoomsBelowLevels'
  BY <1>2 DEF RoomsBelowLevels
<1> QED BY <1>1, <1>3

\* A step of something else: the program is at the same stage, or at none.
LEMMA ElsewhereStep ==
  ASSUME PlaceInv, Counted, project' = project, pbs' = pbs, batch' = batch,
         MajorsKept, MajorsAre', ZonesHaveMajors',
         (pc' = pc /\ rooms' = rooms) \/ (pc' \notin AfterFixed /\ batch.step = "idle")
  PROVE  PlaceInv'
<1>1. BatchIsDue'
  BY DEF PlaceInv, BatchIsDue
<1>2. ASSUME faults' = 0 PROVE StagesDone' /\ Rooted' /\ RoomsBelowLevels' /\ BatchFits'
  <2>1. StagesDone /\ Rooted /\ RoomsBelowLevels /\ BatchFits
    BY <1>2 DEF PlaceInv, Counted
  <2>2. Coming' = Coming /\ Found \subseteq Found'
    BY ReasonsStay DEF Coming, Found
  <2>3. BatchFits'
    BY <2>1, <2>2, BatchStays
  <2>4. CASE pc' = pc /\ rooms' = rooms
    <3>1. RoomsFound => RoomsFound'
      <4>1. Factories' = Factories /\ \A f : FoundRooms(f)' = FoundRooms(f)
        BY DEF Factories, FoundRooms
      <4> QED BY <2>4, <4>1 DEF RoomsFound
    <3>2. MajorsListed(Coming) => MajorsListed(Coming)'
      BY <2>2, ReasonsStay DEF MajorsListed
    <3>3. StagesDone'
      BY <2>1, <2>2, <2>4, <3>1, <3>2, ReasonsStay DEF StagesDone
    <3> QED BY <2>1, <2>3, <3>3, SameRows
  <2>5. CASE pc' \notin AfterFixed
    <3>1. pc' \notin AfterRooms \union AfterNodes \union AfterMajors
      BY <2>5 DEF AfterFixed, AfterRooms, AfterNodes, AfterMajors, Due
    <3>2. StagesDone'
      BY <2>5, <3>1 DEF StagesDone
    <3> QED BY <2>1, <2>3, <3>2, SameRows
  <2> QED BY <2>4, <2>5
<1> QED BY <1>1, <1>2 DEF PlaceInv

LEMMA SameMajors ==
  ASSUME project' = project, majors' = majors, MajorsAre
  PROVE  MajorsKept /\ MajorsAre' /\ (ZonesHaveMajors /\ zones' = zones => ZonesHaveMajors')
BY DEF MajorsKept, MajorsAre, ZonesHaveMajors

LEMMA WrittenMajors ==
  ASSUME MajorsAre, project' = project, WriteMajors
  PROVE  MajorsKept /\ MajorsAre' /\ (ZonesHaveMajors /\ zones' = zones => ZonesHaveMajors')
<1>1. MajorsKept /\ MajorsAre'
  BY MajorsGrow DEF MajorsKept
<1> QED BY <1>1 DEF MajorsKept, ZonesHaveMajors

\* The material job runs while no batch is saved.
LEMMA MaterialPlaces ==
  ASSUME TreeInv, PlaceInv, MaterialJob \/ Tasks
  PROVE  PlaceInv'
<1>1. pbs' = pbs /\ zones' = zones /\ rooms' = rooms /\ batch' = batch
  BY DEF MaterialJob, Tasks, pbsVars
<1> DEFINE Stages == {"majors", "define", "define_tf", "sites", "save", "join", "failed", "returned"}
           Outside == /\ pc \in Stages /\ pc' \in Stages
                      /\ WriteMajors \/ majors' = majors
<1>2. ASSUME SaveAll PROVE Outside /\ project' = project /\ (NoFault \/ Fault \/ faults' = faults)
  <2>1. CASE gen_pdms_major_table
    BY <2>1, MajorsWritten DEF gen_pdms_major_table
  <2>2. CASE define_material_surreal_funtions
    BY <2>2 DEF define_material_surreal_funtions
  <2>3. CASE define_tf_surreal_functions
    BY <2>3 DEF define_tf_surreal_functions
  <2>4. CASE query_all_site_with_major
    BY <2>4 DEF query_all_site_with_major
  <2>5. CASE Gather
    BY <2>5 DEF Gather, EnterGetter, Query, Overlook, GiveUp, Saving
  <2>6. CASE Spawn
    BY <2>6 DEF Spawn, Saving
  <2>7. CASE Join \/ Return
    BY <2>7 DEF Join, Return
  <2>8. CASE SearchPanics
    BY <2>8 DEF SearchPanics, Saving
  <2> HIDE DEF Outside
  <2> QED BY <1>2, <2>1, <2>2, <2>3, <2>4, <2>5, <2>6, <2>7, <2>8 DEF SaveAll
<1>3. ASSUME TaskStep
      PROVE  pc' = pc /\ majors' = majors /\ project' = project /\ (NoFault \/ Fault)
  BY <1>3 DEF TaskStep, InsertRows, InsertMysql
<1>4. SaveAll \/ TaskStep
  BY DEF MaterialJob, Tasks
<1>5. Counted /\ project' = project
  BY <1>2, <1>3, <1>4, CountedFaults DEF TreeInv
<1>6. MajorsAre /\ ZonesHaveMajors /\ BatchIsDue
  BY DEF PlaceInv
<1>7. CASE SaveAll
  <2>1. pc \notin Due /\ pc' \notin AfterFixed
    BY <1>2, <1>7 DEF Due, AfterFixed
  <2>2. batch.step = "idle"
    BY <1>6, <2>1 DEF BatchIsDue
  <2>3. WriteMajors \/ majors' = majors
    BY <1>2, <1>7
  <2>4. MajorsKept /\ MajorsAre' /\ ZonesHaveMajors'
    BY <1>1, <1>5, <1>6, <2>3, SameMajors, WrittenMajors
  <2> QED BY <1>1, <1>5, <2>1, <2>2, <2>4, ElsewhereStep
<1>8. CASE TaskStep
  <2>1. MajorsKept /\ MajorsAre' /\ ZonesHaveMajors'
    BY <1>1, <1>3, <1>6, <1>8, SameMajors
  <2> QED BY <1>1, <1>3, <1>5, <1>8, <2>1, ElsewhereStep
<1> QED BY <1>4, <1>7, <1>8

\* A stage that is done stays so.
LEMMA StagesStay ==
  ASSUME project' = project, MajorsKept, pc' = pc, rooms' = rooms, Coming \subseteq Coming', StagesDone
  PROVE  StagesDone'
<1>1. RoomsFound => RoomsFound'
  <2>1. Factories' = Factories /\ \A f : FoundRooms(f)' = FoundRooms(f)
    BY DEF Factories, FoundRooms
  <2> QED BY <2>1 DEF RoomsFound
<1>2. MajorsListed(Coming) => MajorsListed(Coming)'
  BY ReasonsStay DEF MajorsListed
<1>3. RoomIds' = RoomIds /\ NoRoomNode' = NoRoomNode
  BY ReasonsStay
<1> QED BY <1>1, <1>2, <1>3 DEF StagesDone

LEMMA FoundRoomsAre ==
  ASSUME project \in Projects, NEW f \in Factories
  PROVE  /\ IsList(FoundRooms(f)) /\ Range(FoundRooms(f)) \subseteq Range(project.rooms[f])
         /\ \A i \in DOMAIN FoundRooms(f) :
              FoundRooms(f)[i] \in Rooms /\ FoundRooms(f)[i].name \in RoomNames
              /\ FoundRooms(f)[i].level \in LevelNames
<1>1. IsList(project.rooms[f])
  BY ListsAssumption DEF Factories
<1>2. IsList(FoundRooms(f)) /\ Range(FoundRooms(f)) \subseteq Range(project.rooms[f])
  BY <1>1, OnePerNameIs DEF FoundRooms
<1>3. Range(project.rooms[f]) \subseteq Rooms
  BY DEF Rooms, RoomsOf, Factories
<1>4. \A i \in DOMAIN FoundRooms(f) : FoundRooms(f)[i] \in Rooms
  BY <1>2, <1>3 DEF Range
<1> QED BY <1>2, <1>4 DEF RoomNames, LevelNames

\* A room is listed by a level alone.
LEMMA RoomsHangBelowLevels ==
  ASSUME project \in Projects, NEW n \in RoomNames, NEW o, NEW k, Ordered(o, k, <<n>>)
  PROVE  BelowLevel(o)
<1> USE KindsApart, Ids
<1>1. ASSUME NEW i \in DOMAIN SscLevels, <<n>> = <<SscLevels[i].name>> PROVE FALSE
  BY <1>1, FixedNamesAre
<1>2. ASSUME NEW f \in Factories, <<n>> = <<f>> PROVE FALSE
  BY <1>2
<1>3. ASSUME NEW f \in Factories, NEW i \in DOMAIN FoundRooms(f), o = <<f, FoundRooms(f)[i].level>>
      PROVE  BelowLevel(o)
  BY <1>3, FoundRoomsAre DEF BelowLevel
<1>4. ASSUME NEW x \in Parts, NEW j \in DOMAIN x.children, <<n>> = <<x.children[j].id>> PROVE FALSE
  <2>1. x.children[j].id \in ChildNames
    BY PartsHold DEF ChildNames
  <2> QED BY <1>4, <2>1
<1>5. ASSUME NEW c \in ChildrenOf(project), NEW j \in DOMAIN c.members, <<n>> = <<c.members[j]>> PROVE FALSE
  <2>1. c.members[j] \in MemberNames
    BY DEF MemberNames, Range
  <2> QED BY <1>5, <2>1
<1>6. \A a, b : <<n>> # <<a, b>>
  OBVIOUS
<1>7. \A f : <<n>> # InstallLevel(f) /\ <<n>> # InstallArea(f)
  BY <1>6 DEF InstallLevel, InstallArea
<1> QED BY <1>1, <1>2, <1>3, <1>4, <1>5, <1>6, <1>7 DEF Ordered

LEMMA InsertedAre ==
  ASSUME NEW table, NEW rows
  PROVE  /\ DOMAIN Inserted(table, rows) = DOMAIN table \union IdsOf(rows)
         /\ \A id \in DOMAIN table : Inserted(table, rows)[id] = table[id]
<1> DEFINE new == [x \in IdsOf(rows) |-> rows[FirstRow(rows, x)].owner]
<1>1. Inserted(table, rows) =
        [x \in DOMAIN table \union DOMAIN new |-> IF x \in DOMAIN table THEN table[x] ELSE new[x]]
  BY DEF Inserted, InsertIgnore
<1>2. DOMAIN new = IdsOf(rows)
  OBVIOUS
<1> HIDE DEF new
<1> QED BY <1>1, <1>2

LEMMA InsertPlaces ==
  ASSUME TreeInv, PlaceInv, insert_pe_into_table_with_chunks
  PROVE  PlaceInv'
<1> DEFINE rows == batch.rows
<1>1. /\ batch.step = "insert" /\ project' = project /\ majors' = majors /\ pc' = pc
      /\ rooms' = rooms /\ zones' = zones
      /\ (NoFault /\ pbs' = Inserted(pbs, rows)) \/ Fault
      /\ batch' = [batch EXCEPT !.step = "relate"]
  BY DEF insert_pe_into_table_with_chunks
<1>2. batch'.rows = batch.rows /\ batch'.edges = batch.edges
  BY <1>1
<1>3. MajorsKept /\ MajorsAre' /\ ZonesHaveMajors'
  BY <1>1, SameMajors DEF PlaceInv
<1>4. BatchIsDue'
  BY <1>1 DEF PlaceInv, BatchIsDue
<1>5. ASSUME faults' = 0 PROVE StagesDone' /\ Rooted' /\ RoomsBelowLevels' /\ BatchFits'
  <2>1. pbs' = Inserted(pbs, rows) /\ faults = 0
    BY <1>1, <1>5 DEF Fault, NoFault, TreeInv
  <2>2. StagesDone /\ Rooted /\ RoomsBelowLevels /\ BatchFits
    BY <2>1 DEF PlaceInv
  <2> HIDE DEF rows
  <2>3. DOMAIN pbs' = DOMAIN pbs \union IdsOf(rows) /\ \A id \in DOMAIN pbs : pbs'[id] = pbs[id]
    BY <2>1, InsertedAre
  <2>4. batch'.step # "insert" /\ Coming = DOMAIN pbs'
    <3>1. batch'.step = "relate"
      BY <1>1 DEF insert_pe_into_table_with_chunks
    <3> QED BY <1>1, <2>3, <3>1 DEF Coming, rows
  <2>5. Coming' = Coming
    BY <2>4 DEF Coming
  <2>6. Away \subseteq Away' /\ RoomNames' = RoomNames /\ NoRoomNode' = NoRoomNode /\ Found \subseteq Found'
    BY <1>1, <1>3, <2>5, ReasonsStay DEF Found
  <2>7. StagesDone'
    BY <1>1, <1>3, <2>2, <2>5, StagesStay
  <2>8. BatchFits'
    BY <1>1, <1>2, <1>3, <2>2, <2>3, <2>6, BatchStays
  <2>9. ASSUME NEW id \in DOMAIN pbs', id \notin DOMAIN pbs
        PROVE  \E e \in Range(rows) : e.id = id /\ e.owner = pbs'[id] /\ Seated(e, Found)
    <3>1. IsList(rows)
      BY DEF TreeInv, BatchIs, Kept, rows
    <3>2. PICK i \in DOMAIN rows : rows[i].id = id /\ rows[i].owner = pbs'[id]
      BY <2>1, <2>9, <3>1, InsertedRows
    <3>3. rows[i] \in Range(rows)
      BY DEF Range
    <3>4. Seated(rows[i], Found)
      BY <1>1, <2>2, <3>3 DEF BatchFits, rows
    <3> QED BY <3>2, <3>3, <3>4
  <2>10. Rooted'
    <3> SUFFICES ASSUME NEW id \in DOMAIN pbs', id # Root PROVE pbs'[id] \in DOMAIN pbs' \union Away'
      BY DEF Rooted
    <3>1. CASE id \in DOMAIN pbs
      BY <2>2, <2>3, <2>6, <3>1 DEF Rooted
    <3>2. CASE id \notin DOMAIN pbs
      <4>1. PICK e \in Range(rows) : e.id = id /\ e.owner = pbs'[id] /\ Seated(e, Found)
        BY <2>9, <3>2
      <4>2. pbs'[id] \in Found
        BY <4>1 DEF Seated
      <4> QED BY <2>4, <2>6, <4>2 DEF Found
    <3> QED BY <3>1, <3>2
  <2>11. RoomsBelowLevels'
    <3>1. \A o : BelowLevel(o)' <=> BelowLevel(o)
      BY <1>1, <1>3, ReasonsStay DEF BelowLevel
    <3> SUFFICES ASSUME NEW n \in RoomNames, <<n>> \in DOMAIN pbs', <<n>> \notin NoRoomNode
                 PROVE  BelowLevel(pbs'[<<n>>])
      BY <2>6, <3>1 DEF RoomsBelowLevels
    <3> DEFINE id == <<n>>
    <3>2. CASE id \in DOMAIN pbs
      BY <2>2, <2>3, <3>2 DEF RoomsBelowLevels
    <3>3. CASE id \notin DOMAIN pbs
      <4>1. PICK e \in Range(rows) : e.id = id /\ e.owner = pbs'[id] /\ Seated(e, Found)
        BY <2>9, <3>3
      <4>2. id # Root
        <5>1. "root" \notin RoomNames
          BY KindsApart, FixedNamesAre DEF TreeInv
        <5> QED BY <5>1, Ids DEF Root
      <4>3. ~RoomsThere
        <5>1. id \in RoomIds
          BY DEF RoomIds, RoomNames
        <5> QED BY <3>3, <5>1 DEF RoomsThere
      <4>4. Ordered(pbs'[id], e.order, id)
        BY <4>1, <4>2, <4>3 DEF Seated
      <4> QED BY <4>4, RoomsHangBelowLevels DEF TreeInv
    <3> QED BY <3>2, <3>3
  <2> QED BY <2>2, <2>7, <2>8, <2>10, <2>11
<1> QED BY <1>3, <1>4, <1>5 DEF PlaceInv

LEMMA RelatePlaces ==
  ASSUME TreeInv, PlaceInv, insert_relate_to_table
  PROVE  PlaceInv'
<1>1. /\ batch.step = "relate" /\ project' = project /\ majors' = majors /\ pc' = pc /\ pbs' = pbs
      /\ rooms' = rooms /\ zones' = zones /\ (NoFault \/ Fault) /\ batch' = NoBatch
  BY DEF insert_relate_to_table, Saved
<1>2. batch'.step = "idle" /\ Counted
  BY <1>1, CountedFaults DEF NoBatch, TreeInv
<1>3. MajorsKept /\ MajorsAre' /\ ZonesHaveMajors'
  BY <1>1, SameMajors DEF PlaceInv
<1>4. BatchIsDue'
  BY <1>2 DEF BatchIsDue
<1>5. ASSUME faults' = 0 PROVE StagesDone' /\ Rooted' /\ RoomsBelowLevels' /\ BatchFits'
  <2>1. StagesDone /\ Rooted /\ RoomsBelowLevels
    BY <1>2, <1>5 DEF PlaceInv, Counted
  <2>2. Coming' = Coming
    BY <1>1, <1>2 DEF Coming
  <2>3. StagesDone' /\ Rooted' /\ RoomsBelowLevels'
    BY <1>1, <1>3, <2>1, <2>2, StagesStay, SameRows
  <2> QED BY <1>2, <2>3 DEF BatchFits
<1> QED BY <1>3, <1>4, <1>5 DEF PlaceInv

\* A stage that collects nodes, and one that fails.
LEMMA SavePlaces ==
  ASSUME PlaceInv, Counted, project' = project, pbs' = pbs, majors' = majors, pc' \in Due,
         NEW all, Save(all), ZonesHaveMajors',
         faults = 0 => Fitting(all, DOMAIN pbs \union RowIds(all) \union Away),
         faults = 0 /\ Coming' = DOMAIN pbs \union RowIds(all) => StagesDone'
  PROVE  PlaceInv'
<1>1. MajorsKept /\ MajorsAre'
  BY SameMajors DEF PlaceInv
<1>2. BatchIsDue'
  BY DEF BatchIsDue
<1>3. ASSUME faults' = 0 PROVE StagesDone' /\ Rooted' /\ RoomsBelowLevels' /\ BatchFits'
  <2>1. faults = 0 /\ Rooted /\ RoomsBelowLevels
    BY <1>3 DEF PlaceInv, Counted
  <2>2. BatchFits' /\ Coming' = DOMAIN pbs \union RowIds(all)
    BY <2>1, NewBatchFits
  <2> QED BY <1>1, <2>1, <2>2, SameRows
<1> QED BY <1>1, <1>2, <1>3 DEF PlaceInv

LEMMA NoBatchIs ==
  ASSUME batch = NoBatch
  PROVE  batch.step = "idle" /\ Coming = DOMAIN pbs
BY DEF NoBatch, Coming

LEMMA FailedPlaces ==
  ASSUME TreeInv, PlaceInv, batch = NoBatch, Fails
  PROVE  PlaceInv'
<1>1. /\ project' = project /\ majors' = majors /\ pbs' = pbs /\ zones' = zones /\ batch' = batch
      /\ Fault /\ pc' = "pbs_failed"
  BY DEF Fails
<1>2. Counted /\ MajorsKept /\ MajorsAre' /\ ZonesHaveMajors'
  BY <1>1, CountedFaults, SameMajors DEF TreeInv, PlaceInv
<1>3. pc' \notin AfterFixed
  BY <1>1 DEF AfterFixed, Due
<1> QED BY <1>1, <1>2, <1>3, NoBatchIs, ElsewhereStep

LEMMA MajorPlaces ==
  ASSUME TreeInv, PlaceInv, set_pdms_major_code
  PROVE  PlaceInv'
<1>1. CASE Fails
  BY <1>1, FailedPlaces DEF set_pdms_major_code, Ready
<1>2. CASE ~Fails
  <2>1. /\ project' = project /\ pbs' = pbs /\ zones' = zones /\ batch' = batch /\ batch = NoBatch
        /\ WriteMajors /\ pc' = "pbs_fixed"
    BY <1>2 DEF set_pdms_major_code, Ready
  <2>2. Counted /\ MajorsKept /\ MajorsAre' /\ ZonesHaveMajors'
    BY <2>1, MajorsWritten, CountedFaults, WrittenMajors DEF TreeInv, PlaceInv
  <2>3. pc' \notin AfterFixed
    BY <2>1 DEF AfterFixed, Due
  <2> QED BY <2>1, <2>2, <2>3, NoBatchIs, ElsewhereStep
<1> QED BY <1>1, <1>2

LEMMA FixedPlaces ==
  ASSUME TreeInv, PlaceInv, set_pbs_fixed_node
  PROVE  PlaceInv'
<1>1. CASE Fails
  BY <1>1, FailedPlaces DEF set_pbs_fixed_node, Ready
<1>2. CASE ~Fails
  <2>1. /\ project' = project /\ majors' = majors /\ pbs' = pbs /\ zones' = zones
        /\ NoFault /\ pc' = "pbs_rooms" /\ Save(FixedNodes)
    BY <1>2 DEF set_pbs_fixed_node
  <2>2. Counted /\ ZonesHaveMajors'
    BY <2>1, CountedFaults, SameMajors DEF TreeInv, PlaceInv
  <2>3. Fitting(FixedNodes, DOMAIN pbs \union RowIds(FixedNodes) \union Away)
    BY FixedFits, FittingOn
  <2>4. pc' \in Due /\ pc' \notin AfterRooms \union AfterNodes \union AfterMajors
    BY <2>1 DEF Due, AfterRooms, AfterNodes, AfterMajors
  <2>5. ASSUME Coming' = DOMAIN pbs \union RowIds(FixedNodes) PROVE StagesDone'
    <3>1. Unit \in Coming'
      BY <2>5, FixedFits
    <3> QED BY <2>4, <3>1 DEF StagesDone
  <2> QED BY <2>1, <2>2, <2>3, <2>4, <2>5, SavePlaces
<1> QED BY <1>1, <1>2

LEMMA RoomPlaces ==
  ASSUME TreeInv, PlaceInv, query_all_room_name
  PROVE  PlaceInv'
<1>1. CASE Fails
  BY <1>1, FailedPlaces DEF query_all_room_name, Ready
<1>2. CASE ~Fails
  <2>1. /\ project' = project /\ majors' = majors /\ pbs' = pbs /\ zones' = zones /\ batch' = batch
        /\ NoFault /\ pc = "pbs_rooms" /\ pc' = "pbs_room_nodes" /\ batch = NoBatch
        /\ rooms' = [f \in DOMAIN project.rooms |-> OnePerName(project.rooms[f])]
    BY <1>2 DEF query_all_room_name, Ready
  <2>2. Counted /\ MajorsKept /\ MajorsAre' /\ ZonesHaveMajors' /\ batch.step = "idle"
    BY <2>1, CountedFaults, SameMajors, NoBatchIs DEF TreeInv, PlaceInv
  <2>3. BatchIsDue'
    BY <2>1, <2>2 DEF BatchIsDue
  <2>4. ASSUME faults' = 0 PROVE StagesDone' /\ Rooted' /\ RoomsBelowLevels' /\ BatchFits'
    <3>1. StagesDone /\ Rooted /\ RoomsBelowLevels
      BY <2>2, <2>4 DEF PlaceInv, Counted
    <3>2. RoomsFound'
      BY <2>1 DEF RoomsFound, FoundRooms, Factories
    <3>3. Unit \in Coming'
      <4>1. Unit \in Coming
        BY <2>1, <3>1 DEF StagesDone, AfterFixed, Due
      <4> QED BY <2>1, <4>1 DEF Coming
    <3>4. pc' \notin AfterNodes \union AfterMajors
      BY <2>1 DEF AfterNodes, AfterMajors
    <3>5. StagesDone'
      BY <3>2, <3>3, <3>4 DEF StagesDone
    <3>6. BatchFits'
      BY <2>1, <2>2 DEF BatchFits
    <3> QED BY <2>1, <2>2, <3>1, <3>5, <3>6, SameRows
  <2> QED BY <2>2, <2>3, <2>4 DEF PlaceInv
<1> QED BY <1>1, <1>2

\* Factories in any order: their nodes, and all numbered rooms.
LEMMA FactoriesFit ==
  ASSUME TreeInv, RoomsFound, NEW factories \in SetToSeqs(DOMAIN rooms), NEW S, Unit \in S,
         RowIds(Each(factories, FactoryNodes)) \subseteq S
  PROVE  /\ Fitting(Each(factories, FactoryNodes), S)
         /\ RoomIds \ NoRoomNode \subseteq RowIds(Each(factories, FactoryNodes))
<1> DEFINE f == [i \in DOMAIN factories |-> FactoryNodes(i - 1, factories[i])]
           all == Each(factories, FactoryNodes)
<1>1. all = FlattenSeq(<<>> \o f)
  BY DEF Each
<1>2. f = [i \in DOMAIN factories |-> f[i]]
      /\ \A i \in DOMAIN factories : f[i] = FactoryNodes(i - 1, factories[i])
  OBVIOUS
<1>3. IsList(factories) /\ \A i \in DOMAIN factories : factories[i] \in DOMAIN rooms
  BY FactoriesFinite, AnyOrder
<1>4. DOMAIN rooms = Factories /\ RoomsAre /\ project \in Projects
  BY DEF RoomsFound, TreeInv
<1> HIDE DEF f
<1>5. \A i \in DOMAIN factories : IsList(f[i])
  BY <1>2, <1>3, FactorySound DEF TreeInv, Sound
<1>6. \A i \in DOMAIN factories : RowIds(f[i]) \subseteq RowIds(all)
  BY <1>1, <1>2, <1>3, <1>5, RowsOfEach
<1> HIDE DEF all
<1>7. ASSUME NEW i \in DOMAIN factories
      PROVE  Fitting(f[i], S) /\ RowIds(RoomNodes(factories[i])) \subseteq RowIds(all)
  <2> DEFINE n == i - 1  g == factories[i]
  <2>1. f[i] = FactoryNodes(n, g) /\ g \in Factories
    BY <1>2, <1>3, <1>4
  <2>2. RowIds(FactoryNodes(n, g)) \subseteq S /\ RowIds(FactoryNodes(n, g)) \subseteq RowIds(all)
    BY <1>6, <2>1 DEF all
  <2> HIDE DEF n, g
  <2>3. Fitting(FactoryNodes(n, g), S) /\ RowIds(RoomNodes(g)) \subseteq RowIds(FactoryNodes(n, g))
    BY <1>4, <2>1, <2>2, FactoryNodesFit
  <2> QED BY <2>1, <2>2, <2>3 DEF g
<1>8. Fitting(all, S)
  BY <1>1, <1>2, <1>3, <1>7, FittingEach
<1>9. ASSUME NEW id \in RoomIds \ NoRoomNode PROVE id \in RowIds(all)
  <2>1. PICK r \in Rooms : id = <<r.name>>
    BY DEF RoomIds
  <2>2. PICK g \in Factories : r \in Range(project.rooms[g])
    BY DEF Rooms, RoomsOf, Factories
  <2>3. PICK i \in DOMAIN factories : factories[i] = g
    BY <1>4, <2>2, FactoriesFinite, AllOrdered
  <2>4. IsList(project.rooms[g])
    BY <1>4, ListsAssumption DEF Factories
  <2>5. PICK k \in DOMAIN FoundRooms(g) : FoundRooms(g)[k].name = r.name
    BY <2>2, <2>4, FirstOfName DEF FoundRooms
  <2>6. FoundRooms(g)[k] \in Rooms
    BY <1>4, <2>2, <2>5, FoundRoomsAre
  <2>7. Numeric(FoundRooms(g)[k])
    <3>1. CASE ~Numeric(FoundRooms(g)[k])
      <4>1. id \in NoRoomNode
        BY <2>1, <2>5, <2>6, <3>1 DEF NoRoomNode
      <4> QED BY <4>1
    <3> QED BY <3>1
  <2>8. rooms[g] = FoundRooms(g)
    BY <2>2 DEF RoomsFound
  <2> DEFINE T == RowIds(RoomNodes(g)) \union {InstallLevel(g)}
  <2>9. RowIds(RoomNodes(g)) \subseteq T /\ InstallLevel(g) \in T
    OBVIOUS
  <2> HIDE DEF T
  <2>10. <<rooms[g][k].name>> \in RowIds(RoomNodes(g))
    BY <1>4, <2>2, <2>5, <2>7, <2>8, <2>9, RoomNodesFit
  <2> QED BY <1>7, <2>1, <2>3, <2>5, <2>8, <2>10
<1> QED BY <1>8, <1>9 DEF all

\* The disciplines of all rooms.
LEMMA DisciplinesFit ==
  ASSUME TreeInv, RoomsFound, NEW factories \in SetToSeqs(DOMAIN rooms),
         NEW all, all = Each(factories, LAMBDA i, f : Each(rooms[f], LAMBDA j, r : RoomMajorNodes(r.name))),
         NEW S, RowIds(all) \subseteq S, \A n \in RoomNames : <<n>> \in S
  PROVE  Fitting(all, S) /\ MajorsListed(RowIds(all))
<1> DEFINE inOne(f) == [j \in DOMAIN rooms[f] |-> RoomMajorNodes(rooms[f][j].name)]
           one(f) == FlattenSeq(<<>> \o inOne(f))
           g == [i \in DOMAIN factories |-> one(factories[i])]
<1>1. all = FlattenSeq(<<>> \o g)
  BY DEF Each
<1>2. DOMAIN rooms = Factories /\ RoomsAre /\ project \in Projects
      /\ \A f \in Factories : rooms[f] = FoundRooms(f)
  BY DEF RoomsFound, TreeInv
<1>3. ASSUME NEW f \in Factories
      PROVE  /\ IsList(one(f)) /\ (RowIds(one(f)) \subseteq S => Fitting(one(f), S))
             /\ \A j \in DOMAIN rooms[f] : RowIds(RoomMajorNodes(rooms[f][j].name)) \subseteq RowIds(one(f))
  <2> DEFINE h == inOne(f)  rs == rooms[f]
  <2>1. IsList(rs) /\ \A j \in DOMAIN rs : rs[j].name \in RoomNames
    BY <1>2, FoundRoomsAre
  <2>2. h = [j \in DOMAIN rs |-> h[j]] /\ \A j \in DOMAIN rs : h[j] = RoomMajorNodes(rs[j].name)
    OBVIOUS
  <2> HIDE DEF h, rs
  <2>3. \A j \in DOMAIN rs : IsList(h[j])
    BY <2>1, <2>2, RoomMajorsKept DEF Kept
  <2>4. IsList(FlattenSeq(<<>> \o h)) /\ \A j \in DOMAIN rs : RowIds(h[j]) \subseteq RowIds(FlattenSeq(<<>> \o h))
    BY <2>1, <2>2, <2>3, EachList, RowsOfEach
  <2>5. ASSUME RowIds(FlattenSeq(<<>> \o h)) \subseteq S PROVE Fitting(FlattenSeq(<<>> \o h), S)
    <3>1. ASSUME NEW j \in DOMAIN rs PROVE Fitting(h[j], S)
      <4> DEFINE n == rs[j].name
      <4>1. h[j] = RoomMajorNodes(n) /\ n \in RoomNames
        BY <2>1, <2>2
      <4>2. RowIds(RoomMajorNodes(n)) \subseteq S
        BY <2>4, <2>5, <4>1
      <4> HIDE DEF n
      <4> QED BY <4>1, <4>2, RoomMajorsFit
    <3> QED BY <2>1, <2>2, <3>1, FittingEach
  <2>6. \A j \in DOMAIN rs : RowIds(RoomMajorNodes(rs[j].name)) \subseteq RowIds(FlattenSeq(<<>> \o h))
    BY <2>2, <2>4
  <2> QED BY <2>4, <2>5, <2>6 DEF h, rs
<1> HIDE DEF one
<1>4. g = [i \in DOMAIN factories |-> g[i]] /\ \A i \in DOMAIN factories : g[i] = one(factories[i])
  OBVIOUS
<1> HIDE DEF g
<1>5. IsList(factories) /\ \A i \in DOMAIN factories : factories[i] \in Factories
  BY <1>2, FactoriesFinite, AnyOrder
<1>6. \A i \in DOMAIN factories : IsList(g[i])
  BY <1>3, <1>4, <1>5
<1>7. \A i \in DOMAIN factories : RowIds(g[i]) \subseteq RowIds(all)
  BY <1>1, <1>4, <1>5, <1>6, RowsOfEach
<1>8. ASSUME NEW i \in DOMAIN factories PROVE Fitting(g[i], S)
  <2>1. factories[i] \in Factories /\ g[i] = one(factories[i])
    BY <1>4, <1>5
  <2>2. RowIds(one(factories[i])) \subseteq S
    BY <1>7, <2>1
  <2> QED BY <1>3, <2>1, <2>2
<1>9. Fitting(all, S)
  BY <1>1, <1>4, <1>5, <1>8, FittingEach
<1>10. ASSUME NEW n \in RoomNames, NEW m \in Range(SheetMajors) PROVE <<n, m.code>> \in RowIds(all)
  <2>1. PICK r \in Rooms : n = r.name
    BY DEF RoomNames
  <2>2. PICK f \in Factories : r \in Range(project.rooms[f])
    BY <2>1 DEF Rooms, RoomsOf, Factories
  <2>3. PICK i \in DOMAIN factories : factories[i] = f
    <3>1. \A x \in DOMAIN rooms : \E i \in DOMAIN factories : factories[i] = x
      BY FactoriesFinite, AllOrdered
    <3> QED BY <1>2, <2>2, <3>1
  <2>4. IsList(project.rooms[f])
    BY <1>2, ListsAssumption DEF Factories
  <2>5. PICK k \in DOMAIN FoundRooms(f) : FoundRooms(f)[k].name = n
    BY <2>1, <2>2, <2>4, FirstOfName DEF FoundRooms
  <2>6. RowIds(RoomMajorNodes(n)) \subseteq RowIds(one(f))
    BY <1>2, <1>3, <2>5
  <2>7. RowIds(RoomMajorNodes(n)) \subseteq RowIds(all)
    BY <1>4, <1>7, <2>3, <2>6
  <2>8. RowIds(RoomMajorNodes(n)) \subseteq S /\ <<n>> \in S
    BY <2>7
  <2>9. <<n, m.code>> \in RowIds(RoomMajorNodes(n))
    BY <2>8, RoomMajorsFit
  <2> QED BY <2>7, <2>9
<1> QED BY <1>9, <1>10 DEF MajorsListed

LEMMA RoomNodePlaces ==
  ASSUME TreeInv, PlaceInv, set_pbs_room_node
  PROVE  PlaceInv'
<1>1. /\ project' = project /\ majors' = majors /\ pbs' = pbs /\ zones' = zones /\ rooms' = rooms /\ NoFault
      /\ pc = "pbs_room_nodes" /\ batch = NoBatch
      /\ \/ pc' = "pbs_failed" /\ batch' = batch
         \/ /\ pc' = "pbs_room_majors"
            /\ \E factories \in SetToSeqs(DOMAIN rooms) : Save(Each(factories, FactoryNodes))
  BY DEF set_pbs_room_node, Ready
<1>2. Counted /\ MajorsKept /\ MajorsAre' /\ ZonesHaveMajors'
  BY <1>1, CountedFaults, SameMajors DEF TreeInv, PlaceInv
<1>3. batch.step = "idle" /\ Coming = DOMAIN pbs
  BY <1>1, NoBatchIs
<1>4. CASE pc' = "pbs_failed" /\ batch' = batch
  <2>1. pc' \notin AfterFixed
    BY <1>4 DEF AfterFixed, Due
  <2> QED BY <1>1, <1>2, <1>3, <1>4, <2>1, ElsewhereStep
<1>5. ASSUME pc' = "pbs_room_majors", NEW factories \in SetToSeqs(DOMAIN rooms), Save(Each(factories, FactoryNodes))
      PROVE  PlaceInv'
  <2> DEFINE all == Each(factories, FactoryNodes)
             S == DOMAIN pbs \union RowIds(all) \union Away
  <2>1. pc' \in Due /\ pc' \notin AfterMajors /\ pc' \in AfterFixed /\ pc' \in AfterRooms
    BY <1>5 DEF Due, AfterMajors, AfterFixed, AfterRooms
  <2>2. ASSUME faults = 0
        PROVE  /\ Fitting(all, S) /\ RoomIds \ NoRoomNode \subseteq RowIds(all)
               /\ Unit \in DOMAIN pbs /\ RoomsFound
    <3>1. StagesDone
      BY <2>2 DEF PlaceInv
    <3>2. Unit \in DOMAIN pbs /\ RoomsFound
      BY <1>1, <1>3, <3>1 DEF StagesDone, AfterFixed, AfterRooms
    <3>3. Unit \in S /\ RowIds(all) \subseteq S
      BY <3>2
    <3> HIDE DEF S
    <3>4. Fitting(Each(factories, FactoryNodes), S)
          /\ RoomIds \ NoRoomNode \subseteq RowIds(Each(factories, FactoryNodes))
      BY <3>2, <3>3, FactoriesFit
    <3> QED BY <3>2, <3>4
  <2> HIDE DEF all
  <2>3. ASSUME faults = 0, Coming' = DOMAIN pbs \union RowIds(all) PROVE StagesDone'
    <3>1. Unit \in Coming' /\ RoomIds \ NoRoomNode \subseteq Coming' /\ RoomsFound
      BY <2>2, <2>3
    <3>2. RoomsFound'
      BY <1>1, <3>1 DEF RoomsFound, FoundRooms, Factories
    <3> QED BY <1>1, <1>2, <2>1, <3>1, <3>2, ReasonsStay DEF StagesDone
  <2>4. Save(all)
    BY <1>5 DEF all
  <2> QED BY <1>1, <1>2, <2>1, <2>2, <2>3, <2>4, SavePlaces
<1> QED BY <1>1, <1>4, <1>5

LEMMA RoomMajorPlaces ==
  ASSUME TreeInv, PlaceInv, set_pbs_room_major_node
  PROVE  PlaceInv'
<1> DEFINE nodes(factories) ==
             Each(factories, LAMBDA i, f : Each(rooms[f], LAMBDA j, r : RoomMajorNodes(r.name)))
<1>1. CASE Fails
  BY <1>1, FailedPlaces DEF set_pbs_room_major_node, Ready
<1>2. CASE ~Fails
  <2>1. /\ project' = project /\ majors' = majors /\ pbs' = pbs /\ zones' = zones /\ rooms' = rooms /\ NoFault
        /\ pc = "pbs_room_majors" /\ batch = NoBatch /\ pc' = "pbs_zone_list"
        /\ \E factories \in SetToSeqs(DOMAIN rooms) : Save(nodes(factories))
    BY <1>2 DEF set_pbs_room_major_node, Ready
  <2>2. PICK factories \in SetToSeqs(DOMAIN rooms) : Save(nodes(factories))
    BY <2>1
  <2> DEFINE all == nodes(factories)
             S == DOMAIN pbs \union RowIds(all) \union Away
  <2>3. Save(all) /\ all = nodes(factories)
    BY <2>2
  <2>4. Counted /\ MajorsKept /\ MajorsAre' /\ ZonesHaveMajors' /\ batch.step = "idle" /\ Coming = DOMAIN pbs
    BY <2>1, CountedFaults, SameMajors, NoBatchIs DEF TreeInv, PlaceInv
  <2>5. pc' \in Due /\ pc' \in AfterFixed /\ pc' \in AfterRooms /\ pc' \in AfterNodes
    BY <2>1 DEF Due, AfterFixed, AfterRooms, AfterNodes
  <2>6. ASSUME faults = 0
        PROVE  Unit \in DOMAIN pbs /\ RoomsFound /\ RoomIds \ NoRoomNode \subseteq DOMAIN pbs
    <3>1. StagesDone
      BY <2>6 DEF PlaceInv
    <3> QED BY <2>1, <2>4, <3>1 DEF StagesDone, AfterFixed, AfterRooms, AfterNodes, Due
  <2> HIDE DEF all
  <2>7. ASSUME faults = 0 PROVE Fitting(all, S) /\ MajorsListed(RowIds(all))
    <3>1. \A n \in RoomNames : <<n>> \in S
      <4> SUFFICES ASSUME NEW n \in RoomNames PROVE <<n>> \in S
        OBVIOUS
      <4>1. <<n>> \in RoomIds
        BY DEF RoomIds, RoomNames
      <4> QED BY <2>6, <2>7, <4>1 DEF Away
    <3>2. RowIds(all) \subseteq S
      OBVIOUS
    <3> HIDE DEF S
    <3> QED BY <2>3, <2>6, <2>7, <3>1, <3>2, DisciplinesFit
  <2> HIDE DEF nodes
  <2>8. ASSUME faults = 0, Coming' = DOMAIN pbs \union RowIds(all) PROVE StagesDone'
    <3>1. Unit \in Coming' /\ RoomIds \ NoRoomNode \subseteq Coming' /\ RoomsFound
      BY <2>6, <2>8
    <3>2. RoomsFound'
      BY <2>1, <3>1 DEF RoomsFound, FoundRooms, Factories
    <3>3. MajorsListed(Coming)'
      <4>1. \A n \in RoomNames, m \in Range(SheetMajors) : <<n, m.code>> \in Coming'
        BY <2>7, <2>8 DEF MajorsListed
      <4> QED BY <2>1, <2>4, <4>1, ReasonsStay DEF MajorsListed
    <3> QED BY <2>1, <2>4, <2>5, <3>1, <3>2, <3>3, ReasonsStay DEF StagesDone
  <2> QED BY <2>1, <2>3, <2>4, <2>5, <2>7, <2>8, SavePlaces
<1> QED BY <1>1, <1>2

LEMMA ZoneListPlaces ==
  ASSUME TreeInv, PlaceInv, query_all_zone_with_major
  PROVE  PlaceInv'
<1> DEFINE kinds(z) == <<<<z, "BRAN">>, <<z, "EQUI">>, <<z, "SUPP">>>>
           T == DOMAIN majors \intersect DOMAIN project.parts
<1>1. CASE Fails
  BY <1>1, FailedPlaces DEF query_all_zone_with_major, Ready
<1>2. CASE ~Fails
  <2>1. /\ project' = project /\ majors' = majors /\ pbs' = pbs /\ rooms' = rooms /\ batch' = batch /\ NoFault
        /\ pc = "pbs_zone_list" /\ batch = NoBatch /\ pc' = "pbs_zones"
        /\ \E order \in SetToSeqs(T) : zones' = FlattenSeq([i \in DOMAIN order |-> kinds(order[i])])
    BY <1>2 DEF query_all_zone_with_major, Ready
  <2>2. PICK order \in SetToSeqs(T) : zones' = FlattenSeq([i \in DOMAIN order |-> kinds(order[i])])
    BY <2>1
  <2>3. IsFiniteSet(T)
    <3>1. IsFiniteSet(DOMAIN project.parts)
      BY ListsAssumption DEF TreeInv
    <3> QED BY <3>1, FS_Subset
  <2> HIDE DEF T
  <2>4. IsList(order) /\ \A i \in DOMAIN order : order[i] \in T
    BY <2>3, AnyOrder
  <2>5. ASSUME NEW z PROVE IsList(kinds(z)) /\ \A k \in Range(kinds(z)) : k[1] = z
    <3> DEFINE a == <<z, "BRAN">>  b == <<z, "EQUI">>  c == <<z, "SUPP">>  U == {a, b, c}
    <3>1. \A k \in U : k[1] = z
      OBVIOUS
    <3>2. kinds(z) = <<a, b, c>> /\ a \in U /\ b \in U /\ c \in U
      OBVIOUS
    <3> HIDE DEF a, b, c, U
    <3>3. <<a, b, c>> \in Seq(U)
      BY <3>2
    <3>4. \A k \in Range(<<a, b, c>>) : k \in U
      BY <3>3, LenProperties DEF Range
    <3> QED BY <3>1, <3>2, <3>3, <3>4, ListsAreSeqs
  <2> HIDE DEF kinds
  <2> DEFINE f == [i \in DOMAIN order |-> kinds(order[i])]
  <2>6. f = [i \in DOMAIN order |-> f[i]] /\ zones' = FlattenSeq(f)
        /\ \A i \in DOMAIN order : IsList(f[i]) /\ \A k \in Range(f[i]) : k[1] \in T
    BY <2>2, <2>4, <2>5
  <2> HIDE DEF f
  <2>7. \A e \in Range(FlattenSeq(f)) : \E i \in DOMAIN order : e \in Range(f[i])
    BY <2>4, <2>6, EachList
  <2>8. ZonesHaveMajors'
    BY <2>1, <2>6, <2>7 DEF ZonesHaveMajors, T
  <2>9. Counted /\ MajorsKept /\ MajorsAre' /\ batch.step = "idle"
    BY <2>1, CountedFaults, SameMajors, NoBatchIs DEF TreeInv, PlaceInv
  <2>10. BatchIsDue'
    BY <2>1, <2>9 DEF BatchIsDue
  <2>11. ASSUME faults' = 0 PROVE StagesDone' /\ Rooted' /\ RoomsBelowLevels' /\ BatchFits'
    <3>1. StagesDone /\ Rooted /\ RoomsBelowLevels
      BY <2>9, <2>11 DEF PlaceInv, Counted
    <3>2. Coming' = Coming
      BY <2>1 DEF Coming
    <3>3. /\ Unit \in Coming /\ RoomsFound /\ RoomIds \ NoRoomNode \subseteq Coming /\ MajorsListed(Coming)
      BY <2>1, <3>1 DEF StagesDone, AfterFixed, AfterRooms, AfterNodes, AfterMajors, Due
    <3>4. RoomsFound' /\ MajorsListed(Coming)'
      <4>1. RoomsFound'
        BY <2>1, <3>3 DEF RoomsFound, FoundRooms, Factories
      <4>2. MajorsListed(Coming)'
        BY <2>1, <2>9, <3>2, <3>3, ReasonsStay DEF MajorsListed
      <4> QED BY <4>1, <4>2
    <3>5. StagesDone'
      BY <2>1, <2>9, <3>2, <3>3, <3>4, ReasonsStay DEF StagesDone
    <3>6. BatchFits'
      BY <2>1, <2>9 DEF BatchFits
    <3> QED BY <2>1, <2>9, <3>1, <3>5, <3>6, SameRows
  <2> QED BY <2>8, <2>9, <2>10, <2>11 DEF PlaceInv
<1> QED BY <1>1, <1>2

\* The parts of a zone with a discipline have a place.
LEMMA PlacesOfParts ==
  ASSUME TreeInv, PlaceInv, faults = 0, RoomsThere, MajorsListed(DOMAIN pbs),
         NEW z \in DOMAIN majors, z \in DOMAIN project.parts
  PROVE  /\ ZoneMajor(majors[z])
         /\ \A x \in PartsIn(project, z) : PlaceIs(x, majors[z], DOMAIN pbs \union Away)
<1>1. project \in Projects /\ MajorsAre
  BY DEF TreeInv, PlaceInv
<1>2. z \notin DOMAIN project.elements
  BY <1>1, ElementsAssumption
<1>3. ZoneMajor(majors[z])
  BY <1>1, <1>2 DEF MajorsAre
<1>4. ASSUME NEW x \in PartsIn(project, z) PROVE <<x.room, majors[z]>> \in DOMAIN pbs \union Away
  <2>1. CASE x.room \in RoomNames
    <3>1. PICK m \in Range(SheetMajors) : majors[z] = m.code
      BY <1>3 DEF ZoneMajor
    <3> QED BY <2>1, <3>1 DEF MajorsListed
  <2>2. CASE x.room \notin RoomNames
    <3> DEFINE p == <<x, z>>
               reasons == {y \in Parts \X (DOMAIN majors \intersect DOMAIN project.parts) :
                             y[1] \in PartsIn(project, y[2]) /\ y[1].room \notin {r.name : r \in Rooms}}
    <3>1. x \in Parts
      BY DEF Parts, PartsOf
    <3>2. p \in reasons /\ p[1] = x /\ p[2] = z
      BY <2>2, <3>1 DEF RoomNames
    <3>3. UnknownRooms = {<<y[1].room, majors[y[2]]>> : y \in reasons}
      BY DEF UnknownRooms
    <3>4. <<p[1].room, majors[p[2]]>> \in UnknownRooms
      <4> HIDE DEF reasons, p
      <4> QED BY <3>2, <3>3
    <3> HIDE DEF p
    <3> QED BY <3>2, <3>4 DEF Away
  <2> QED BY <2>1, <2>2
<1> QED BY <1>3, <1>4 DEF PlaceIs, MajorId

LEMMA PartPlaces ==
  ASSUME TreeInv, PlaceInv, set_pbs_node
  PROVE  PlaceInv'
<1> DEFINE zone == zones[1][1]
           kind == zones[1][2]
           parts == project.parts[zone]
           major == majors[zone]
           bran == set_pbs_bran_node(parts.bran, major)
           equi == set_pbs_equi_node(parts.equi, major)
           supp == set_pbs_supp_and_stru_node(parts.stru, parts.rest, major)
           all == CASE kind = "BRAN" -> bran [] kind = "EQUI" -> equi [] kind = "SUPP" -> supp
           S == DOMAIN pbs \union RowIds(all) \union Away
<1>1. /\ project' = project /\ majors' = majors /\ pbs' = pbs /\ rooms' = rooms /\ zones' = Tail(zones)
      /\ zones # <<>> /\ pc = "pbs_zones" /\ batch = NoBatch /\ pc' = pc
      /\ (NoFault /\ Save(all)) \/ (Fault /\ batch' = batch)
  BY DEF set_pbs_node, Ready
<1>2. Counted /\ MajorsKept /\ MajorsAre' /\ batch.step = "idle" /\ Coming = DOMAIN pbs
  BY <1>1, CountedFaults, SameMajors, NoBatchIs DEF TreeInv, PlaceInv
<1>3. /\ IsList(zones) /\ \A z \in Range(zones) : z[1] \in DOMAIN project.parts /\ z[2] \in Kinds
      /\ \A z \in Range(zones) : z[1] \in DOMAIN majors
  BY DEF TreeInv, ZonesAre, PlaceInv, ZonesHaveMajors
<1>4. zone \in DOMAIN project.parts /\ zone \in DOMAIN majors /\ kind \in Kinds
  <2>1. Len(zones) # 0
    BY <1>1, <1>3, EmptySeq DEF IsList
  <2>2. 1 \in DOMAIN zones
    BY <1>3, <2>1, ListIs
  <2> QED BY <1>3, <2>2 DEF Range
<1>5. ZonesHaveMajors'
  <2> DEFINE t == Tail(zones)
  <2>1. t \in Seq(Range(zones))
    BY <1>1, <1>3, HeadTailProperties DEF IsList
  <2> HIDE DEF t
  <2>2. \A e \in Range(t) : e \in Range(zones)
    BY <2>1, LenProperties, ElementOfSeq DEF Range
  <2>3. zones' = t
    BY <1>1 DEF t
  <2> QED BY <1>1, <1>3, <2>2, <2>3 DEF ZonesHaveMajors
<1> HIDE DEF zone, kind
<1>6. /\ IsList(parts.bran) /\ IsList(parts.equi) /\ IsList(parts.stru) /\ IsList(parts.rest)
      /\ Range(parts.bran) \subseteq PartsIn(project, zone) /\ Range(parts.equi) \subseteq PartsIn(project, zone)
      /\ Range(parts.stru) \union Range(parts.rest) \subseteq PartsIn(project, zone)
      /\ PartsIn(project, zone) \subseteq Parts /\ project \in Projects
  <2>1. PartsIn(project, zone) \subseteq Parts /\ project \in Projects
    BY <1>4 DEF Parts, PartsOf, TreeInv
  <2> QED BY <1>4, <2>1, ListsAssumption DEF PartsIn
<1> HIDE DEF parts, major, bran, equi, supp
<1>7. all = IF kind = "BRAN" THEN bran ELSE IF kind = "EQUI" THEN equi ELSE supp
  BY <1>4 DEF Kinds
<1> HIDE DEF all
<1>8. RowIds(all) \subseteq S /\ DOMAIN pbs \union Away \subseteq S
  OBVIOUS
<1>9. ASSUME faults = 0
      PROVE  Unit \in DOMAIN pbs /\ RoomsFound /\ RoomIds \ NoRoomNode \subseteq DOMAIN pbs
             /\ MajorsListed(DOMAIN pbs)
  <2>1. StagesDone
    BY <1>9 DEF PlaceInv
  <2> QED BY <1>1, <1>2, <2>1 DEF StagesDone, AfterFixed, AfterRooms, AfterNodes, AfterMajors, Due
<1> HIDE DEF S
<1>10. ASSUME faults = 0 PROVE Fitting(all, S)
  <2>1. RoomsThere
    BY <1>9, <1>10 DEF RoomsThere
  <2>2. /\ ZoneMajor(major)
        /\ \A x \in PartsIn(project, zone) : PlaceIs(x, major, DOMAIN pbs \union Away)
    BY <1>4, <1>9, <1>10, <2>1, PlacesOfParts DEF major
  <2>3. \A x \in PartsIn(project, zone) : PlaceIs(x, major, S)
    BY <1>8, <2>2 DEF PlaceIs
  <2>4. CASE all = bran
    <3>1. RowIds(set_pbs_bran_node(parts.bran, major)) \subseteq S
      BY <1>8, <2>4 DEF bran
    <3>2. Range(parts.bran) \subseteq Parts /\ \A x \in Range(parts.bran) : InRoom(x) => PlaceIs(x, major, S)
      BY <1>6, <2>3
    <3>3. Fitting(set_pbs_bran_node(parts.bran, major), S)
      BY <1>6, <2>1, <2>2, <3>1, <3>2, BranFits
    <3> QED BY <2>4, <3>3 DEF bran
  <2>5. CASE all = equi
    <3>1. RowIds(set_pbs_equi_node(parts.equi, major)) \subseteq S
      BY <1>8, <2>5 DEF equi
    <3>2. Range(parts.equi) \subseteq Parts /\ \A x \in Range(parts.equi) : InRoom(x) => PlaceIs(x, major, S)
      BY <1>6, <2>3
    <3>3. Fitting(set_pbs_equi_node(parts.equi, major), S)
      BY <1>6, <2>1, <2>2, <3>1, <3>2, EquiFits
    <3> QED BY <2>5, <3>3 DEF equi
  <2>6. CASE all = supp
    <3>1. RowIds(set_pbs_supp_and_stru_node(parts.stru, parts.rest, major)) \subseteq S
      BY <1>8, <2>6 DEF supp
    <3>2. /\ Range(parts.stru) \subseteq Parts /\ Range(parts.rest) \subseteq Parts
          /\ \A x \in Range(parts.stru) \union Range(parts.rest) : InRoom(x) => PlaceIs(x, major, S)
      BY <1>6, <2>3
    <3>3. Fitting(set_pbs_supp_and_stru_node(parts.stru, parts.rest, major), S)
      BY <1>6, <2>1, <2>2, <3>1, <3>2, SupportsFit
    <3> QED BY <2>6, <3>3 DEF supp
  <2> QED BY <1>7, <2>4, <2>5, <2>6
<1>11. CASE Save(all)
  <2>1. pc' \in Due
    BY <1>1 DEF Due
  <2>2. ASSUME Coming' = DOMAIN pbs \union RowIds(all), faults = 0 PROVE StagesDone'
    <3>1. Coming \subseteq Coming' /\ StagesDone
      BY <1>2, <2>2 DEF PlaceInv
    <3> QED BY <1>1, <1>2, <3>1, StagesStay
  <2> QED BY <1>1, <1>2, <1>5, <1>10, <1>11, <2>1, <2>2, SavePlaces DEF S
<1>12. CASE batch' = batch
  BY <1>1, <1>2, <1>5, <1>12, ElsewhereStep
<1> QED BY <1>1, <1>11, <1>12

LEMMA PlaceInit == Init => PlaceInv
<1> SUFFICES ASSUME Init PROVE PlaceInv
  OBVIOUS
<1>1. pbs = <<>> /\ majors = <<>> /\ zones = <<>> /\ batch = NoBatch /\ pc \in {"majors", "pbs_majors"}
  BY DEF Init, Begins
<1>2. MajorsAre /\ ZonesHaveMajors /\ Rooted /\ RoomsBelowLevels
  BY <1>1, EmptyList DEF MajorsAre, ZonesHaveMajors, Rooted, RoomsBelowLevels
<1>3. BatchIsDue /\ BatchFits
  BY <1>1, NoBatchIs DEF BatchIsDue, BatchFits
<1>4. StagesDone
  BY <1>1 DEF StagesDone, AfterFixed, AfterRooms, AfterNodes, AfterMajors, Due
<1> QED BY <1>2, <1>3, <1>4 DEF PlaceInv

LEMMA PlaceStep == TreeInv /\ PlaceInv /\ [Next]_vars => PlaceInv'
<1> SUFFICES ASSUME TreeInv, PlaceInv, [Next]_vars PROVE PlaceInv'
  OBVIOUS
<1> DEFINE Others == {"majors", "pbs_majors", "returned", "failed", "pbs_done", "pbs_failed", "exited"}
<1>1. CASE MaterialJob \/ Tasks
  BY <1>1, MaterialPlaces
<1>2. ASSUME project' = project, majors' = majors, pbs' = pbs, batch' = batch, faults' = faults,
             \/ zones' = zones /\ pc' = pc /\ rooms' = rooms
             \/ (zones' = zones \/ zones' = <<>>) /\ pc' \in Others /\ batch.step = "idle"
      PROVE  PlaceInv'
  <2>1. Counted /\ MajorsKept /\ MajorsAre'
    BY <1>2, CountedFaults, SameMajors DEF TreeInv, PlaceInv
  <2>2. ZonesHaveMajors'
    <3>1. CASE zones' = zones
      BY <1>2, <3>1, SameMajors DEF PlaceInv
    <3>2. CASE zones' = <<>>
      BY <3>2, EmptyList DEF ZonesHaveMajors
    <3> QED BY <1>2, <3>1, <3>2
  <2>3. pc' \in Others => pc' \notin AfterFixed
    BY DEF AfterFixed, Due
  <2> HIDE DEF Others
  <2> QED BY <1>2, <2>1, <2>2, <2>3, ElsewhereStep
<1>3. CASE PbsJob
  <2>1. CASE set_pdms_major_code \/ set_pbs_fixed_node \/ query_all_room_name \/ set_pbs_room_node
    BY <2>1, MajorPlaces, FixedPlaces, RoomPlaces, RoomNodePlaces
  <2>2. CASE set_pbs_room_major_node \/ query_all_zone_with_major \/ set_pbs_node
    BY <2>2, RoomMajorPlaces, ZoneListPlaces, PartPlaces
  <2>3. CASE Finished
    <3>1. /\ project' = project /\ majors' = majors /\ pbs' = pbs /\ batch' = batch /\ zones' = zones
          /\ faults' = faults /\ pc' \in Others /\ batch = NoBatch
      BY <2>3 DEF Finished, Ready
    <3> QED BY <1>2, <3>1, NoBatchIs
  <2>4. CASE insert_pe_into_table_with_chunks \/ insert_relate_to_table
    BY <2>4, InsertPlaces, RelatePlaces
  <2> QED BY <1>3, <2>1, <2>2, <2>3, <2>4 DEF PbsJob, PbsStep
<1>4. CASE Again \/ Exit
  <2>1. /\ project' = project /\ majors' = majors /\ pbs' = pbs /\ batch' = batch
        /\ zones' = zones \/ zones' = <<>>
        /\ faults' = faults /\ pc' \in Others /\ pc \in Ends
    BY <1>4 DEF Again, Exit, pbsVars, Begins
  <2>2. pc \notin Due
    BY <2>1 DEF Ends, Due
  <2>3. batch.step = "idle"
    BY <2>2 DEF PlaceInv, BatchIsDue
  <2> QED BY <1>2, <2>1, <2>3
<1>5. CASE UNCHANGED vars
  <2>1. /\ project' = project /\ majors' = majors /\ pbs' = pbs /\ batch' = batch /\ zones' = zones
        /\ faults' = faults /\ pc' = pc /\ rooms' = rooms
    BY <1>5 DEF vars, pbsVars
  <2> QED BY <1>2, <2>1
<1> QED BY <1>1, <1>3, <1>4, <1>5 DEF Next

LEMMA PlaceAlways == Spec => []PlaceInv
BY TreeAlways, PlaceInit, PlaceStep, PTL DEF Spec

\* Without failures every owner is a row, or away for a reason.
LEMMA OrphansEnd ==
  ASSUME TreeInv, PlaceInv
  PROVE  OrphansHaveAReason
<1> SUFFICES ASSUME faults = 0 PROVE DOMAIN pbs \subseteq LeadingTo({Root} \union NoRoomNode \union UnknownRooms)
  BY DEF OrphansHaveAReason
<1> DEFINE base == {Root} \union NoRoomNode \union UnknownRooms
<1>1. PICK up : up[0] = base /\ up[TreeDepth] = LeadingTo(base) /\ Ladder(up)
  BY LadderTo
<1>2. Root \in up[0] /\ Away \subseteq up[0] /\ NoRoomNode \subseteq up[0]
  BY <1>1 DEF Away
<1> HIDE DEF base
<1>3. Rooted /\ RoomsBelowLevels
  BY DEF PlaceInv
<1>4. TreeDepth \in Nat /\ TreeDepth > 0
  BY DepthIs
<1>5. \A id \in DOMAIN pbs : pbs[id] \notin DOMAIN pbs => id \in up[1]
  <2> SUFFICES ASSUME NEW id \in DOMAIN pbs, pbs[id] \notin DOMAIN pbs PROVE id \in up[1]
    OBVIOUS
  <2>1. CASE id = Root
    <3>1. 0 \in 0 .. TreeDepth /\ 1 \in 0 .. TreeDepth /\ 0 <= 1
      BY <1>4
    <3>2. up[0] \subseteq up[1]
      BY <1>1, <3>1 DEF Ladder
    <3> QED BY <1>2, <2>1, <3>2
  <2>2. CASE id # Root
    <3>1. pbs[id] \in up[0]
      BY <1>2, <1>3, <2>2 DEF Rooted
    <3>2. 0 \in 0 .. TreeDepth - 1 /\ 0 + 1 = 1
      BY <1>4
    <3>3. id \in up[0 + 1]
      BY <1>1, <3>1, <3>2 DEF Ladder
    <3> QED BY <3>2, <3>3
  <2> QED BY <2>1, <2>2
<1>6. ASSUME NEW n \in RoomNames
      PROVE  \/ <<n>> \notin DOMAIN pbs \/ <<n>> \in up[0]
             \/ \E f \in Factories, l \in LevelNames : pbs[<<n>>] = <<f, l>>
  BY <1>2, <1>3 DEF RoomsBelowLevels, BelowLevel
<1>7. Rungs(up)
  BY <1>1, <1>2, <1>5, <1>6 DEF Rungs
<1>8. DOMAIN pbs \subseteq LeadingTo(base)
  BY <1>1, <1>7, Ranks
<1> QED BY <1>8 DEF base

-----------------------------------------------------------------------------
(* While nothing has failed, in any job and between any two of its saves: a  *)
(* row that does not lead to the root is below a room without a node, or in   *)
(* one that the project does not list.                                       *)
THEOREM OrphansAlwaysHaveAReason == Spec => []OrphansHaveAReason
<1>1. TreeInv /\ PlaceInv => OrphansHaveAReason
  BY OrphansEnd
<1> QED BY <1>1, TreeAlways, PlaceAlways, PTL

-----------------------------------------------------------------------------
(* The edges of one call: of two of one key the first stays, or the last.   *)

FromEdge(s, key, id) == \E e \in Range(s) : KeyOf(e) = key /\ id = e.id

Merged(new, table, es) ==
  /\ DOMAIN new = DOMAIN table \union KeysOf(es)
  /\ \/ /\ \A key \in DOMAIN table : new[key] = table[key]
        /\ \A key \in KeysOf(es) \ DOMAIN table : FromEdge(es, key, new[key])
     \/ /\ \A key \in DOMAIN table \ KeysOf(es) : new[key] = table[key]
        /\ \A key \in KeysOf(es) : FromEdge(es, key, new[key])

LEMMA RelatedAre ==
  ASSUME NEW table, NEW es, IsList(es), NEW new \in Related(table, es)
  PROVE  Merged(new, table, es)
<1> DEFINE of(key) == {i \in DOMAIN es : KeyOf(es[i]) = key}
           head(key) == CHOOSE i \in of(key) : \A j \in of(key) : i <= j
           end(key) == CHOOSE i \in of(key) : \A j \in of(key) : j <= i
           first == [key \in KeysOf(es) |-> es[head(key)].id]
           last == [key \in KeysOf(es) |-> es[end(key)].id]
<1>1. new \in {InsertIgnore(table, first), InsertIgnore(last, table)}
  BY DEF Related
<1>2. Len(es) \in Nat /\ DOMAIN es = 1 .. Len(es)
  BY ListIs
<1>3. ASSUME NEW key \in KeysOf(es) PROVE head(key) \in of(key) /\ end(key) \in of(key)
  <2> DEFINE T == of(key)  n == Len(es)
  <2>1. T \subseteq 0 .. n /\ T \subseteq Nat /\ T # {} /\ n \in Nat
    BY <1>2 DEF KeysOf, Range
  <2>2. head(key) = (CHOOSE i \in T : \A j \in T : i <= j) /\ end(key) = CHOOSE i \in T : \A j \in T : j <= i
    OBVIOUS
  <2> HIDE DEF T, n, head, end
  <2>3. (\E i \in T : \A j \in T : i <= j) /\ \E i \in T : \A j \in T : j <= i
    BY <2>1, Least, Greatest
  <2>4. head(key) \in T /\ end(key) \in T
    BY <2>2, <2>3
  <2> QED BY <2>4 DEF T
<1> HIDE DEF head, end
<1>4. ASSUME NEW key \in KeysOf(es), NEW i \in of(key) PROVE FromEdge(es, key, es[i].id)
  BY DEF FromEdge, Range
<1>5. DOMAIN first = KeysOf(es) /\ DOMAIN last = KeysOf(es)
  OBVIOUS
<1>6. \A key \in KeysOf(es) : FromEdge(es, key, first[key]) /\ FromEdge(es, key, last[key])
  BY <1>3, <1>4
<1> HIDE DEF first, last
<1>7. CASE new = InsertIgnore(table, first)
  <2>1. /\ DOMAIN new = DOMAIN table \union KeysOf(es)
        /\ \A key \in DOMAIN new : new[key] = IF key \in DOMAIN table THEN table[key] ELSE first[key]
    BY <1>5, <1>7 DEF InsertIgnore
  <2> QED BY <1>6, <2>1 DEF Merged
<1>8. CASE new = InsertIgnore(last, table)
  <2>1. /\ DOMAIN new = DOMAIN table \union KeysOf(es)
        /\ \A key \in DOMAIN new : new[key] = IF key \in KeysOf(es) THEN last[key] ELSE table[key]
    BY <1>5, <1>8 DEF InsertIgnore
  <2> QED BY <1>6, <2>1 DEF Merged
<1> QED BY <1>1, <1>7, <1>8

-----------------------------------------------------------------------------
(* One node to a place, but for factories and the nodes that share theirs.  *)

LEMMA SinglePlaces ==
  ASSUME project \in Projects, NEW s, NEW k, NEW id, Ordered(<<s>>, k, id)
  PROVE  \/ /\ s \in FixedNames /\ s # "unit"
            /\ \E i \in DOMAIN SscLevels : k = i - 1 /\ id = <<SscLevels[i].name>>
         \/ s = "unit" /\ \E f \in Factories : id = <<f>>
         \/ s \in Factories /\ ((k = 0 /\ id = InstallLevel(s)) \/ (k = 1 /\ id = InstallArea(s)))
         \/ s \in RoomNames
            /\ \E m \in Range(SheetMajors) : m.above = NoCell /\ k = m.order /\ id = <<s, m.code>>
         \/ \E x \in Parts : \E j \in DOMAIN x.children :
              x.id = s /\ k = j - 1 /\ id = <<x.children[j].id>>
         \/ \E c \in ChildrenOf(project) : \E j \in DOMAIN c.members :
              c.id = s /\ k = j - 1 /\ id = <<c.members[j]>>
<1>1. \A a, b : <<s>> # <<a, b>> /\ (<<s>> = <<a>> => s = a)
  BY Ids
<1>2. CASE \E i \in DOMAIN SscLevels :
             /\ k = i - 1 /\ id = <<SscLevels[i].name>>
             /\ <<s>> = IF SscLevels[i].owner = NoCell THEN Root ELSE <<SscLevels[i].owner>>
  <2>1. PICK i \in DOMAIN SscLevels :
          /\ k = i - 1 /\ id = <<SscLevels[i].name>>
          /\ <<s>> = IF SscLevels[i].owner = NoCell THEN Root ELSE <<SscLevels[i].owner>>
    BY <1>2
  <2>2. s \in FixedNames
    BY <1>1, <2>1, FixedNamesAre DEF Root
  <2>3. s # "unit"
    <3>1. CASE SscLevels[i].owner = NoCell
      BY <1>1, <2>1, <3>1 DEF Root
    <3>2. CASE SscLevels[i].owner # NoCell
      <4>1. SscLevels[i] \in Range(SscLevels)
        BY DEF Range
      <4>2. SscLevels[i].owner \in SscNames \ {Unit[1]}
        BY <3>2, <4>1, UnitAssumption
      <4> QED BY <1>1, <2>1, <3>2, <4>2 DEF Unit
    <3> QED BY <3>1, <3>2
  <2> QED BY <2>1, <2>2, <2>3
<1>3. CASE \E f \in Factories :
             \/ id = <<f>> /\ <<s>> = Unit
             \/ id = InstallLevel(f) /\ <<s>> = <<f>> /\ k = 0
             \/ id = InstallArea(f) /\ <<s>> = <<f>> /\ k = 1
             \/ id = <<f, k>> /\ <<s>> = InstallLevel(f) /\ k \in LevelNames
             \/ \E i \in DOMAIN FoundRooms(f) :
                  k = i - 1 /\ id = <<FoundRooms(f)[i].name>> /\ <<s>> = <<f, FoundRooms(f)[i].level>>
  <2>1. <<s>> = Unit => s = "unit"
    BY <1>1 DEF Unit
  <2>2. \A f : <<s>> # InstallLevel(f)
    BY <1>1 DEF InstallLevel
  <2> QED BY <1>1, <1>3, <2>1, <2>2
<1>4. CASE \E n \in RoomNames, m \in Range(SheetMajors) :
             /\ k = m.order /\ id = <<n, m.code>>
             /\ <<s>> = IF m.above = NoCell THEN <<n>> ELSE <<n, m.above>>
  BY <1>1, <1>4
<1>5. CASE \E x \in Parts : \E j \in DOMAIN x.children :
             k = j - 1 /\ id = <<x.children[j].id>> /\ <<s>> = <<x.id>>
  BY <1>1, <1>5
<1>6. CASE \E c \in ChildrenOf(project) : \E j \in DOMAIN c.members :
             k = j - 1 /\ id = <<c.members[j]>> /\ <<s>> = <<c.id>>
  BY <1>1, <1>6
<1> QED BY <1>2, <1>3, <1>4, <1>5, <1>6 DEF Ordered

LEMMA PairPlaces ==
  ASSUME project \in Projects, NEW s, NEW t, NEW k, NEW id, Ordered(<<s, t>>, k, id)
  PROVE  \/ s \in Factories /\ t = "levels" /\ id = <<s, k>>
         \/ /\ s \in Factories /\ t \in LevelNames
            /\ \E i \in DOMAIN FoundRooms(s) : k = i - 1 /\ id = <<FoundRooms(s)[i].name>>
         \/ /\ s \in RoomNames /\ t # NoCell
            /\ \E m \in Range(SheetMajors) : m.above = t /\ k = m.order /\ id = <<s, m.code>>
<1>1. \A a, b : <<s, t>> # <<a>> /\ (<<s, t>> = <<a, b>> => s = a /\ t = b)
  BY Ids
<1>2. <<s, t>> # Root /\ <<s, t>> # Unit
  BY <1>1 DEF Root, Unit
<1>3. CASE \E f \in Factories :
             \/ id = <<f, k>> /\ <<s, t>> = InstallLevel(f)
             \/ \E i \in DOMAIN FoundRooms(f) :
                  k = i - 1 /\ id = <<FoundRooms(f)[i].name>> /\ <<s, t>> = <<f, FoundRooms(f)[i].level>>
  <2>1. PICK f \in Factories :
          \/ id = <<f, k>> /\ <<s, t>> = InstallLevel(f)
          \/ \E i \in DOMAIN FoundRooms(f) :
               k = i - 1 /\ id = <<FoundRooms(f)[i].name>> /\ <<s, t>> = <<f, FoundRooms(f)[i].level>>
    BY <1>3
  <2>2. CASE id = <<f, k>> /\ <<s, t>> = InstallLevel(f)
    BY <1>1, <2>2 DEF InstallLevel
  <2>3. ASSUME NEW i \in DOMAIN FoundRooms(f), k = i - 1, id = <<FoundRooms(f)[i].name>>,
               <<s, t>> = <<f, FoundRooms(f)[i].level>>
        PROVE  /\ s \in Factories /\ t \in LevelNames
               /\ \E j \in DOMAIN FoundRooms(s) : k = j - 1 /\ id = <<FoundRooms(s)[j].name>>
    <3>1. s = f /\ t = FoundRooms(f)[i].level
      BY <1>1, <2>3
    <3>2. t \in LevelNames
      BY <3>1, FoundRoomsAre
    <3> QED BY <2>3, <3>1, <3>2
  <2> QED BY <2>1, <2>2, <2>3
<1>4. CASE \E n \in RoomNames, m \in Range(SheetMajors) :
             /\ k = m.order /\ id = <<n, m.code>>
             /\ <<s, t>> = IF m.above = NoCell THEN <<n>> ELSE <<n, m.above>>
  <2>1. PICK n \in RoomNames, m \in Range(SheetMajors) :
          /\ k = m.order /\ id = <<n, m.code>>
          /\ <<s, t>> = IF m.above = NoCell THEN <<n>> ELSE <<n, m.above>>
    BY <1>4
  <2>2. m.above # NoCell /\ s = n /\ t = m.above
    BY <1>1, <2>1
  <2> QED BY <2>1, <2>2
<1> QED BY <1>1, <1>2, <1>3, <1>4 DEF Ordered

LEMMA OwnerIs ==
  ASSUME NEW o, NEW k, NEW id, Ordered(o, k, id)
  PROVE  (\E s : o = <<s>>) \/ (\E s, t : o = <<s, t>>)
BY DEF Ordered, Root, Unit, InstallLevel

\* Of the children of one part, and the members of one child, one has a place.
LEMMA OneChild ==
  ASSUME project \in Projects
  PROVE  /\ \A x, y \in Parts : \A i \in DOMAIN x.children, j \in DOMAIN y.children :
              x.id = y.id /\ i - 1 = j - 1 => x.children[i].id = y.children[j].id
         /\ \A c, d \in ChildrenOf(project) : \A i \in DOMAIN c.members, j \in DOMAIN d.members :
              c.id = d.id /\ i - 1 = j - 1 => c.members[i] = d.members[j]
<1>1. ASSUME NEW x \in Parts, NEW y \in Parts, NEW i \in DOMAIN x.children, NEW j \in DOMAIN y.children,
             x.id = y.id, i - 1 = j - 1
      PROVE  x.children[i].id = y.children[j].id
  <2>1. x.children = y.children
    BY <1>1, ElementsAssumption DEF Parts
  <2>2. i \in Nat /\ j \in Nat
    <3>1. IsList(x.children)
      BY PartsHold
    <3> QED BY <2>1, <3>1, ListIs
  <2> QED BY <1>1, <2>1, <2>2
<1>2. ASSUME NEW c \in ChildrenOf(project), NEW d \in ChildrenOf(project),
             NEW i \in DOMAIN c.members, NEW j \in DOMAIN d.members, c.id = d.id, i - 1 = j - 1
      PROVE  c.members[i] = d.members[j]
  <2>1. c.members = d.members
    BY <1>2, ElementsAssumption
  <2>2. i \in Nat /\ j \in Nat
    <3>1. IsList(c.members)
      BY ChildrenHold
    <3> QED BY <2>1, <3>1, ListIs
  <2> QED BY <1>2, <2>1, <2>2
<1> QED BY <1>1, <1>2

LEMMA OnePlace ==
  ASSUME project \in Projects, NEW o, NEW k, NEW a, NEW b, Ordered(o, k, a), Ordered(o, k, b), o # Unit
  PROVE  a = b
<1>1. ASSUME NEW s, o = <<s>>
      PROVE  a = b
  <2>1. s # "unit" /\ Ordered(<<s>>, k, a) /\ Ordered(<<s>>, k, b)
    BY <1>1 DEF Unit
  <2>2. CASE s \in FixedNames
    <3>1. s \notin Factories /\ s \notin RoomNames /\ (\A x \in Parts : x.id # s)
          /\ \A c \in ChildrenOf(project) : c.id # s
      BY <2>2, KindsApart DEF PartNames, ChildNames
    <3>2. PICK i \in DOMAIN SscLevels : k = i - 1 /\ a = <<SscLevels[i].name>>
      BY <2>1, <3>1, SinglePlaces
    <3>3. PICK j \in DOMAIN SscLevels : k = j - 1 /\ b = <<SscLevels[j].name>>
      BY <2>1, <3>1, SinglePlaces
    <3>4. i \in Nat /\ j \in Nat
      BY SscAssumption, ListIs DEF IsList
    <3>5. i = j
      BY <3>2, <3>3, <3>4
    <3> QED BY <3>2, <3>3, <3>5
  <2>3. CASE s \in Factories
    <3>1. s \notin FixedNames /\ s \notin RoomNames /\ (\A x \in Parts : x.id # s)
          /\ \A c \in ChildrenOf(project) : c.id # s
      BY <2>3, KindsApart DEF PartNames, ChildNames
    <3>2. (k = 0 /\ a = InstallLevel(s)) \/ (k = 1 /\ a = InstallArea(s))
      BY <2>1, <3>1, SinglePlaces
    <3>3. (k = 0 /\ b = InstallLevel(s)) \/ (k = 1 /\ b = InstallArea(s))
      BY <2>1, <3>1, SinglePlaces
    <3> QED BY <3>2, <3>3
  <2>4. CASE s \in RoomNames
    <3>1. s \notin FixedNames /\ s \notin Factories /\ (\A x \in Parts : x.id # s)
          /\ \A c \in ChildrenOf(project) : c.id # s
      BY <2>4, KindsApart DEF PartNames, ChildNames
    <3>2. PICK m \in Range(SheetMajors) : m.above = NoCell /\ k = m.order /\ a = <<s, m.code>>
      BY <2>1, <3>1, SinglePlaces
    <3>3. PICK n \in Range(SheetMajors) : n.above = NoCell /\ k = n.order /\ b = <<s, n.code>>
      BY <2>1, <3>1, SinglePlaces
    <3>4. m.code = n.code
      BY <3>2, <3>3, OneOrder
    <3> QED BY <3>2, <3>3, <3>4
  <2>5. CASE s \in PartNames
    <3>1. s \notin FixedNames /\ s \notin Factories /\ s \notin RoomNames
          /\ \A c \in ChildrenOf(project) : c.id # s
      BY <2>5, KindsApart DEF ChildNames
    <3>2. \E x \in Parts : \E j \in DOMAIN x.children : x.id = s /\ k = j - 1 /\ a = <<x.children[j].id>>
      BY <2>1, <3>1, SinglePlaces
    <3>3. \E x \in Parts : \E j \in DOMAIN x.children : x.id = s /\ k = j - 1 /\ b = <<x.children[j].id>>
      BY <2>1, <3>1, SinglePlaces
    <3>4. PICK x \in Parts : \E i \in DOMAIN x.children : x.id = s /\ k = i - 1 /\ a = <<x.children[i].id>>
      BY <3>2
    <3>5. PICK y \in Parts : \E j \in DOMAIN y.children : y.id = s /\ k = j - 1 /\ b = <<y.children[j].id>>
      BY <3>3
    <3> QED BY <3>4, <3>5, OneChild
  <2>6. CASE s \in ChildNames
    <3>1. s \notin FixedNames /\ s \notin Factories /\ s \notin RoomNames /\ \A x \in Parts : x.id # s
      BY <2>6, KindsApart DEF PartNames
    <3>2. \E c \in ChildrenOf(project) : \E j \in DOMAIN c.members : c.id = s /\ k = j - 1 /\ a = <<c.members[j]>>
      BY <2>1, <3>1, SinglePlaces
    <3>3. \E c \in ChildrenOf(project) : \E j \in DOMAIN c.members : c.id = s /\ k = j - 1 /\ b = <<c.members[j]>>
      BY <2>1, <3>1, SinglePlaces
    <3>4. PICK c \in ChildrenOf(project) : \E i \in DOMAIN c.members : c.id = s /\ k = i - 1 /\ a = <<c.members[i]>>
      BY <3>2
    <3>5. PICK d \in ChildrenOf(project) : \E j \in DOMAIN d.members : d.id = s /\ k = j - 1 /\ b = <<d.members[j]>>
      BY <3>3
    <3> QED BY <3>4, <3>5, OneChild
  <2>7. s \in FixedNames \union Factories \union RoomNames \union PartNames \union ChildNames
    BY <2>1, SinglePlaces DEF PartNames, ChildNames
  <2> QED BY <2>2, <2>3, <2>4, <2>5, <2>6, <2>7
<1>2. ASSUME NEW s, NEW t, o = <<s, t>>
      PROVE  a = b
  <2>1. Ordered(<<s, t>>, k, a) /\ Ordered(<<s, t>>, k, b)
    BY <1>2
  <2>2. CASE s \in RoomNames
    <3>1. s \notin Factories
      BY <2>2, KindsApart
    <3>2. PICK m \in Range(SheetMajors) : m.above = t /\ k = m.order /\ a = <<s, m.code>>
      BY <2>1, <3>1, PairPlaces
    <3>3. PICK n \in Range(SheetMajors) : n.above = t /\ k = n.order /\ b = <<s, n.code>>
      BY <2>1, <3>1, PairPlaces
    <3>4. m.code = n.code
      BY <3>2, <3>3, OneOrder
    <3> QED BY <3>2, <3>3, <3>4
  <2>3. CASE s \in Factories /\ t = "levels"
    <3>1. t \notin LevelNames /\ s \notin RoomNames
      BY <2>3, LevelsAre, KindsApart
    <3> QED BY <2>1, <3>1, PairPlaces
  <2>4. CASE s \in Factories /\ t # "levels"
    <3>1. s \notin RoomNames
      BY <2>4, KindsApart
    <3>2. PICK i \in DOMAIN FoundRooms(s) : k = i - 1 /\ a = <<FoundRooms(s)[i].name>>
      BY <2>1, <2>4, <3>1, PairPlaces
    <3>3. PICK j \in DOMAIN FoundRooms(s) : k = j - 1 /\ b = <<FoundRooms(s)[j].name>>
      BY <2>1, <2>4, <3>1, PairPlaces
    <3>4. i \in Nat /\ j \in Nat
      BY <2>4, FoundRoomsAre, ListIs
    <3>5. i = j
      BY <3>2, <3>3, <3>4
    <3> QED BY <3>2, <3>3, <3>5
  <2>5. s \in RoomNames \union Factories
    BY <2>1, PairPlaces
  <2> QED BY <2>2, <2>3, <2>4, <2>5
<1> QED BY <1>1, <1>2, OwnerIs

\* A place that parts share is a node's alone only below a room that is a fixed
\* node, and below a discipline that is listed by itself.
LEMMA FreePlace ==
  ASSUME project \in Projects, NEW o, NEW k, NEW a, NEW b, Ordered(o, k, a), Crowded(o, b),
         o \notin FixedIds \intersect RoomIds
  PROVE  a = o
<1>1. CASE \E n \in FixNames : o = <<n>>
  <2>1. PICK n \in FixNames : o = <<n>>
    BY <1>1
  <2>2. n \notin FixedNames /\ n \notin Factories /\ (\A x \in Parts : x.id # n)
        /\ (\A c \in ChildrenOf(project) : c.id # n) /\ n # "unit"
    BY KindsApart, FixedNamesAre DEF PartNames, ChildNames
  <2>3. n \in RoomNames
    BY <2>1, <2>2, SinglePlaces
  <2>4. o \in FixedIds /\ o \in RoomIds
    BY <2>1, <2>3 DEF FixNames, FixedIds, RoomNames, RoomIds
  <2> QED BY <2>4
<1>2. CASE \E c : ZoneMajor(c) /\ \E x \in Parts : o = <<x.room, c>>
  <2>0. PICK c : ZoneMajor(c) /\ \E x \in Parts : o = <<x.room, c>>
    BY <1>2
  <2>1. PICK x \in Parts : ZoneMajor(c) /\ o = <<x.room, c>>
    BY <2>0
  <2> DEFINE s == x.room
  <2>2. s \notin Factories
    BY KindsApart
  <2>3. o = <<s, c>>
    BY <2>1
  <2> HIDE DEF s
  <2>4. PICK m \in Range(SheetMajors) : m.above = c /\ k = m.order /\ a = <<s, m.code>>
    BY <2>2, <2>3, PairPlaces
  <2>5. PICK n \in Range(SheetMajors) : c = n.code /\ n.above # NoCell
    BY <2>1 DEF ZoneMajor
  <2>6. m.code = c
    BY <2>4, <2>5, OneOrder
  <2> QED BY <2>3, <2>4, <2>6
<1> QED BY <1>1, <1>2 DEF Crowded

-----------------------------------------------------------------------------
(* Without failures every row is listed: the key of its edge is there, or     *)
(* comes with the edges of the batch, and a key of one node's alone can hold *)
(* no other node.                                                            *)

Awaited == KeysOf(IF batch.step = "idle" THEN <<>> ELSE batch.edges)
EdgesAre ==
  \A key \in DOMAIN edges :
    /\ key = <<key[1], key[2]>>
    /\ Ordered(key[1], key[2], edges[key]) \/ Crowded(key[1], edges[key])
RowsListed ==
  \A id \in DOMAIN pbs :
    \/ id = Root \/ SharesItsOrder(id)
    \/ \E k : Ordered(pbs[id], k, id) /\ <<pbs[id], k>> \in DOMAIN edges \union Awaited

\* Factories are counted in the order of a call, which may be another in the next
\* run: either all of one run's edges are there or all of the other's.
UnitIn(es) == \E e \in Range(es) : e.owner = Unit
FactoriesIn(es) ==
  \A f \in Factories : \E e \in Range(es) :
    /\ e.owner = Unit /\ e.id = <<f>>
    /\ \A d \in Range(es) : KeyOf(d) = KeyOf(e) => d.id = e.id
UnitListed == \E key \in DOMAIN edges : key[1] = Unit
FactoriesListed == \A f \in Factories : \E key \in DOMAIN edges : key[1] = Unit /\ edges[key] = <<f>>
UnitsListed ==
  /\ UnitListed => FactoriesListed
  /\ batch.step # "idle" /\ UnitIn(batch.edges) => FactoriesIn(batch.edges)
ListInv == faults = 0 => EdgesAre /\ RowsListed /\ UnitsListed

LEMMA KeyIs ==
  ASSUME NEW e
  PROVE  KeyOf(e) = <<e.owner, e.order>> /\ KeyOf(e)[1] = e.owner /\ KeyOf(e)[2] = e.order
BY DEF KeyOf

\* What an edge of a batch may say.
EdgeIs(key, id) ==
  key = <<key[1], key[2]>> /\ (Ordered(key[1], key[2], id) \/ Crowded(key[1], id))

LEMMA EdgesFit ==
  ASSUME BatchFits, batch.step # "idle", NEW key, NEW id, FromEdge(batch.edges, key, id)
  PROVE  EdgeIs(key, id)
<1>1. PICK e \in Range(batch.edges) : KeyOf(e) = key /\ id = e.id
  BY DEF FromEdge
<1>2. Seated(e, Found) /\ "edge" \in e.what
  BY DEF BatchFits
<1>3. e.what # {"row"}
  BY <1>2
<1>4. Ordered(e.owner, e.order, e.id) \/ Crowded(e.owner, e.id)
  BY <1>2, <1>3 DEF Seated
<1> QED BY <1>1, <1>4, KeyIs DEF EdgeIs

\* Below the unit are factories alone.
LEMMA UnitPlaces ==
  ASSUME project \in Projects, NEW k, NEW id, Ordered(Unit, k, id) \/ Crowded(Unit, id)
  PROVE  \E f \in Factories : id = <<f>>
<1>1. "unit" \in FixedNames
  BY FixedNamesAre
<1>2. ~Crowded(Unit, id)
  <2>1. \A n \in FixNames : Unit # <<n>>
    BY <1>1, KindsApart, Ids DEF Unit
  <2>2. \A s, t : Unit # <<s, t>>
    BY Ids DEF Unit
  <2> QED BY <2>1, <2>2 DEF Crowded
<1>3. Ordered(<<"unit">>, k, id)
  BY <1>2 DEF Unit
<1>4. "unit" \notin Factories /\ "unit" \notin RoomNames /\ (\A x \in Parts : x.id # "unit")
      /\ \A c \in ChildrenOf(project) : c.id # "unit"
  BY <1>1, KindsApart DEF PartNames, ChildNames
<1> DEFINE u == "unit"
<1>5. Ordered(<<u>>, k, id) /\ u \notin Factories /\ u \notin RoomNames /\ (\A x \in Parts : x.id # u)
      /\ \A c \in ChildrenOf(project) : c.id # u
  BY <1>3, <1>4
<1>6. ~(u # "unit")
  OBVIOUS
<1> HIDE DEF u
<1> QED BY <1>5, <1>6, SinglePlaces

LEMMA SharesStay ==
  ASSUME project' = project, NEW id, pbs'[id] = pbs[id], SharesItsOrder(id)
  PROVE  SharesItsOrder(id)'
<1>1. FixedIds' = FixedIds /\ RoomIds' = RoomIds /\ Parts' = Parts
  BY DEF FixedIds, RoomIds, Rooms, Parts
<1> QED BY <1>1 DEF SharesItsOrder

LEMMA ListedStay ==
  ASSUME project' = project, pbs' = pbs, RowsListed,
         DOMAIN edges \union Awaited \subseteq (DOMAIN edges \union Awaited)'
  PROVE  RowsListed'
<1> SUFFICES ASSUME NEW id \in DOMAIN pbs, id # Root, ~SharesItsOrder(id)'
             PROVE  \E k : Ordered(pbs[id], k, id)' /\ <<pbs[id], k>> \in (DOMAIN edges \union Awaited)'
  BY DEF RowsListed
<1>1. ~SharesItsOrder(id)
  BY SharesStay
<1>2. PICK k : Ordered(pbs[id], k, id) /\ <<pbs[id], k>> \in DOMAIN edges \union Awaited
  BY <1>1 DEF RowsListed
<1>3. Ordered(pbs[id], k, id)'
  BY <1>2, PlacesStay
<1> QED BY <1>2, <1>3

LEMMA EdgesStay ==
  ASSUME project' = project, edges' = edges
  PROVE  (EdgesAre => EdgesAre') /\ (UnitListed' <=> UnitListed) /\ (FactoriesListed' <=> FactoriesListed)
<1>1. EdgesAre => EdgesAre'
  BY PlacesStay DEF EdgesAre
<1> QED BY <1>1 DEF UnitListed, FactoriesListed, Factories

LEMMA FactoriesStay ==
  ASSUME project' = project, NEW es
  PROVE  FactoriesIn(es)' <=> FactoriesIn(es)
BY DEF FactoriesIn, Factories

\* A step that has nothing to do with the tree.
LEMMA ListSame ==
  ASSUME ListInv, Counted, project' = project, pbs' = pbs, edges' = edges, batch' = batch
  PROVE  ListInv'
<1> SUFFICES ASSUME faults' = 0 PROVE EdgesAre' /\ RowsListed' /\ UnitsListed'
  BY DEF ListInv
<1>1. EdgesAre /\ RowsListed /\ UnitsListed
  BY DEF ListInv, Counted
<1>2. Awaited' = Awaited
  BY DEF Awaited
<1>3. RowsListed'
  BY <1>1, <1>2, ListedStay
<1>4. FactoriesIn(batch.edges)' <=> FactoriesIn(batch.edges)
  BY DEF FactoriesIn, Factories
<1>5. UnitsListed'
  BY <1>1, <1>4, EdgesStay DEF UnitsListed
<1> QED BY <1>1, <1>3, <1>5, EdgesStay

\* A new row is listed by an edge of its batch.
LEMMA InsertLists ==
  ASSUME TreeInv, PlaceInv, ListInv, insert_pe_into_table_with_chunks
  PROVE  ListInv'
<1> DEFINE rows == batch.rows
<1>1. /\ batch.step = "insert" /\ project' = project /\ edges' = edges
      /\ (NoFault /\ pbs' = Inserted(pbs, rows)) \/ Fault
      /\ batch' = [batch EXCEPT !.step = "relate"]
  BY DEF insert_pe_into_table_with_chunks
<1>2. batch'.edges = batch.edges
  BY <1>1
<1>3. batch.step # "idle" /\ batch'.step # "idle"
  <2>1. batch'.step = "relate"
    BY <1>1 DEF insert_pe_into_table_with_chunks
  <2> QED BY <1>1, <2>1
<1> SUFFICES ASSUME faults' = 0 PROVE EdgesAre' /\ RowsListed' /\ UnitsListed'
  BY DEF ListInv
<1>4. pbs' = Inserted(pbs, rows) /\ faults = 0
  BY <1>1 DEF Fault, NoFault, TreeInv
<1>5. EdgesAre /\ RowsListed /\ UnitsListed /\ BatchFits
  BY <1>4 DEF ListInv, PlaceInv
<1>6. Awaited = KeysOf(batch.edges) /\ Awaited' = Awaited
  BY <1>2, <1>3 DEF Awaited
<1>7. UnitsListed'
  BY <1>1, <1>2, <1>3, <1>5, EdgesStay, FactoriesStay DEF UnitsListed
<1> HIDE DEF rows
<1>8. DOMAIN pbs' = DOMAIN pbs \union IdsOf(rows) /\ \A id \in DOMAIN pbs : pbs'[id] = pbs[id]
  BY <1>4, InsertedAre
<1>9. RowsListed'
  <2> SUFFICES ASSUME NEW id \in DOMAIN pbs', id # Root, ~SharesItsOrder(id)'
               PROVE  \E k : Ordered(pbs[id], k, id)' /\ <<pbs'[id], k>> \in (DOMAIN edges \union Awaited)'
    BY DEF RowsListed
  <2>1. CASE id \in DOMAIN pbs
    <3>1. ~SharesItsOrder(id)
      BY <1>1, <1>8, <2>1, SharesStay
    <3>2. PICK o : o = pbs[id] /\ o = pbs'[id]
      BY <1>8, <2>1
    <3>3. PICK k : Ordered(o, k, id) /\ <<o, k>> \in DOMAIN edges \union Awaited
      BY <1>5, <2>1, <3>1, <3>2 DEF RowsListed
    <3>4. Ordered(o, k, id)'
      BY <1>1, <3>3, PlacesStay
    <3> QED BY <1>1, <1>6, <3>2, <3>3, <3>4
  <2>2. CASE id \notin DOMAIN pbs
    <3>1. IsList(rows)
      BY DEF TreeInv, BatchIs, Kept, rows
    <3>2. PICK i \in DOMAIN rows : rows[i].id = id /\ rows[i].owner = pbs'[id]
      BY <1>4, <2>2, <3>1, InsertedRows
    <3> DEFINE e == rows[i]
    <3>3. e.id = id /\ e.owner = pbs'[id] /\ e \in Range(rows)
      BY <3>2 DEF Range
    <3> HIDE DEF e
    <3>4. e \in Range(batch.edges) /\ Seated(e, Found)
      BY <1>3, <1>5, <3>3 DEF BatchFits, rows
    <3>5. CASE Crowded(e.owner, e.id)
      <4>1. PICK n \in FixNames \union PartNames : id = <<n>>
        BY <3>3, <3>5 DEF Crowded
      <4>2. FixedIds' = FixedIds /\ Parts' = Parts
        BY <1>1 DEF FixedIds, Parts
      <4>3. id \in FixedIds \union {<<p.id>> : p \in Parts}
        BY <4>1 DEF FixNames, PartNames, FixedIds
      <4> QED BY <4>2, <4>3 DEF SharesItsOrder
    <3>6. CASE Ordered(e.owner, e.order, e.id)
      <4>1. PICK o, k : o = e.owner /\ k = e.order /\ o = pbs'[id]
        BY <3>3
      <4>2. Ordered(o, k, id)
        BY <3>3, <3>6, <4>1
      <4>3. Ordered(o, k, id)'
        BY <1>1, <4>2, PlacesStay
      <4>4. KeyOf(e) \in KeysOf(batch.edges)
        BY <3>4 DEF KeysOf
      <4>5. <<o, k>> \in Awaited
        BY <1>6, <4>1, <4>4, KeyIs
      <4> QED BY <1>1, <1>6, <4>1, <4>3, <4>5
    <3>7. e.id # Root
      BY <3>3
    <3> QED BY <3>4, <3>5, <3>6, <3>7 DEF Seated
  <2> QED BY <2>1, <2>2
<1> QED BY <1>1, <1>5, <1>7, <1>9, EdgesStay

\* Whichever of two edges of one key stays, all factories stay listed.
LEMMA UnitsStay ==
  ASSUME UnitListed => FactoriesListed, NEW es, UnitIn(es) => FactoriesIn(es),
         NEW new, Merged(new, edges, es),
         \E key \in DOMAIN new : key[1] = Unit, NEW f \in Factories
  PROVE  \E key \in DOMAIN new : key[1] = Unit /\ new[key] = <<f>>
<1> DEFINE keys == DOMAIN new
<1>0. /\ keys = DOMAIN edges \union KeysOf(es)
      /\ \/ /\ \A key \in DOMAIN edges : new[key] = edges[key]
            /\ \A key \in KeysOf(es) \ DOMAIN edges : FromEdge(es, key, new[key])
         \/ /\ \A key \in DOMAIN edges \ KeysOf(es) : new[key] = edges[key]
            /\ \A key \in KeysOf(es) : FromEdge(es, key, new[key])
  BY DEF Merged
<1> HIDE DEF keys
<1> SUFFICES \E key \in keys : key[1] = Unit /\ new[key] = <<f>>
  BY DEF keys
<1>1. \A key \in KeysOf(es) : key[1] = Unit => UnitIn(es)
  BY KeyIs DEF KeysOf, UnitIn
<1>2. ASSUME NEW e \in Range(es), \A d \in Range(es) : KeyOf(d) = KeyOf(e) => d.id = e.id, e.id = <<f>>,
             FromEdge(es, KeyOf(e), new[KeyOf(e)])
      PROVE  new[KeyOf(e)] = <<f>>
  BY <1>2 DEF FromEdge
<1>3. CASE UnitListed /\ \A key \in DOMAIN edges : new[key] = edges[key]
  BY <1>0, <1>3 DEF FactoriesListed
<1>4. CASE UnitIn(es) /\ ((~UnitListed /\ \A key \in KeysOf(es) \ DOMAIN edges : FromEdge(es, key, new[key]))
                          \/ \A key \in KeysOf(es) : FromEdge(es, key, new[key]))
  <2>1. PICK e \in Range(es) : /\ e.owner = Unit /\ e.id = <<f>>
                               /\ \A d \in Range(es) : KeyOf(d) = KeyOf(e) => d.id = e.id
    BY <1>4 DEF FactoriesIn
  <2>2. KeyOf(e) \in KeysOf(es) /\ KeyOf(e)[1] = Unit
    BY <2>1, KeyIs DEF KeysOf
  <2>3. FromEdge(es, KeyOf(e), new[KeyOf(e)])
    BY <1>4, <2>2 DEF UnitListed
  <2> QED BY <1>0, <1>2, <2>1, <2>2, <2>3
<1>5. CASE UnitListed /\ ~UnitIn(es) /\ \A key \in DOMAIN edges \ KeysOf(es) : new[key] = edges[key]
  <2>1. PICK key \in DOMAIN edges : key[1] = Unit /\ edges[key] = <<f>>
    BY <1>5 DEF FactoriesListed
  <2>2. key \notin KeysOf(es)
    BY <1>1, <1>5, <2>1
  <2> QED BY <1>0, <1>5, <2>1, <2>2
<1>6. UnitListed \/ UnitIn(es)
  BY <1>0, <1>1 DEF UnitListed, keys
<1> QED BY <1>0, <1>3, <1>4, <1>5, <1>6

LEMMA RelateLists ==
  ASSUME TreeInv, PlaceInv, ListInv, insert_relate_to_table
  PROVE  ListInv'
<1> DEFINE es == batch.edges
<1>1. /\ batch.step = "relate" /\ project' = project /\ pbs' = pbs
      /\ (NoFault /\ edges' \in Related(edges, es)) \/ Fault
      /\ batch' = NoBatch
  BY DEF insert_relate_to_table, Saved
<1> SUFFICES ASSUME faults' = 0 PROVE EdgesAre' /\ RowsListed' /\ UnitsListed'
  BY DEF ListInv
<1>2. edges' \in Related(edges, es) /\ faults = 0
  BY <1>1 DEF Fault, NoFault, TreeInv
<1>3. EdgesAre /\ RowsListed /\ UnitsListed /\ BatchFits
  BY <1>2 DEF ListInv, PlaceInv
<1>4. batch.step # "idle" /\ batch'.step = "idle"
  BY <1>1 DEF NoBatch
<1>5. IsList(es) /\ Awaited = KeysOf(es)
  BY <1>3, <1>4 DEF BatchFits, Awaited
<1>6. \A key, id : FromEdge(es, key, id) => EdgeIs(key, id)
  BY <1>3, <1>4, EdgesFit
<1>7. /\ UnitListed => FactoriesListed
      /\ UnitIn(es) => FactoriesIn(es)
  BY <1>3, <1>4 DEF UnitsListed
<1> HIDE DEF es
<1>8. PICK new : new = edges' /\ Merged(new, edges, es)
  BY <1>2, <1>5, RelatedAre
<1>9. EdgesAre'
  <2>1. ASSUME NEW key \in DOMAIN new PROVE EdgeIs(key, new[key])
    <3>1. (new[key] = edges[key] /\ key \in DOMAIN edges) \/ FromEdge(es, key, new[key])
      BY <1>8 DEF Merged
    <3>2. key \in DOMAIN edges => EdgeIs(key, edges[key])
      BY <1>3 DEF EdgesAre, EdgeIs
    <3> QED BY <1>6, <3>1, <3>2
  <2> QED BY <1>1, <1>8, <2>1, PlacesStay DEF EdgesAre, EdgeIs
<1>10. RowsListed'
  <2>1. DOMAIN edges \union Awaited \subseteq DOMAIN edges'
    BY <1>5, <1>8 DEF Merged
  <2> QED BY <1>1, <1>3, <2>1, ListedStay
<1>11. UnitListed' => FactoriesListed'
  <2> SUFFICES ASSUME UnitListed', NEW f \in Factories'
               PROVE  \E key \in DOMAIN edges' : key[1] = Unit /\ edges'[key] = <<f>>
    BY DEF FactoriesListed
  <2>1. f \in Factories
    BY <1>1 DEF Factories
  <2>2. \E key \in DOMAIN new : key[1] = Unit
    BY <1>8 DEF UnitListed
  <2>3. \E key \in DOMAIN new : key[1] = Unit /\ new[key] = <<f>>
    BY <1>7, <1>8, <2>1, <2>2, UnitsStay
  <2> QED BY <1>8, <2>3
<1>12. UnitsListed'
  BY <1>4, <1>11 DEF UnitsListed
<1> QED BY <1>9, <1>10, <1>12

\* A stage that collects nodes: all factories, or none.
LEMMA SaveLists ==
  ASSUME TreeInv, ListInv, PlaceInv', Counted, batch = NoBatch,
         project' = project, pbs' = pbs, edges' = edges,
         NEW all, IsList(all), Save(all),
         \/ \A e \in Range(all), f \in Factories : e.id # <<f>>
         \/ faults = 0 => FactoriesIn(Picked(all, "edge"))
  PROVE  ListInv'
<1> SUFFICES ASSUME faults' = 0 PROVE EdgesAre' /\ RowsListed' /\ UnitsListed'
  BY DEF ListInv
<1>1. faults = 0 /\ EdgesAre /\ RowsListed /\ UnitsListed /\ BatchFits'
  BY DEF ListInv, PlaceInv, Counted
<1> DEFINE es == Picked(all, "edge")
<1>2. batch'.edges = es /\ batch'.step = "insert"
  BY DEF Save
<1>3. IsList(es) /\ \A e \in Range(es) : e \in Range(all) /\ "edge" \in e.what
  BY PickedHas
<1> HIDE DEF es
<1>4. RowsListed'
  <2>1. Awaited = {}
    BY NoBatchIs, EmptyList DEF Awaited, KeysOf
  <2> QED BY <1>1, <2>1, ListedStay
<1>5. UnitIn(es) => FactoriesIn(es)
  <2>1. CASE faults = 0 => FactoriesIn(Picked(all, "edge"))
    BY <1>1, <2>1 DEF es
  <2>2. CASE \A e \in Range(all), f \in Factories : e.id # <<f>>
    <3> SUFFICES ASSUME NEW e \in Range(es), e.owner = Unit PROVE FALSE
      BY DEF UnitIn
    <3>1. Seated(e, Found)' /\ "edge" \in e.what
      BY <1>1, <1>2 DEF BatchFits
    <3>2. e.what # {"row"}
      BY <3>1
    <3>3. Ordered(e.owner, e.order, e.id)' \/ Crowded(e.owner, e.id)'
      BY <3>1, <3>2 DEF Seated
    <3>4. Ordered(e.owner, e.order, e.id) \/ Crowded(e.owner, e.id)
      BY <3>3, PlacesStay
    <3>5. PICK k, id : k = e.order /\ id = e.id /\ (Ordered(Unit, k, id) \/ Crowded(Unit, id))
      BY <3>4
    <3>6. \E f \in Factories : id = <<f>>
      BY <3>5, UnitPlaces DEF TreeInv
    <3> QED BY <1>3, <2>2, <3>5, <3>6
  <2> QED BY <2>1, <2>2
<1>6. UnitsListed'
  <2>1. UnitListed' => FactoriesListed'
    BY <1>1, EdgesStay DEF UnitsListed
  <2>2. UnitIn(es) => FactoriesIn(es)'
    BY <1>5, FactoriesStay
  <2> QED BY <1>2, <2>1, <2>2 DEF UnitsListed
<1> QED BY <1>1, <1>4, <1>6, EdgesStay

\* No fixed node is a factory, and no discipline.
LEMMA FixedIsNoFactory ==
  ASSUME project \in Projects, NEW e \in Range(FixedNodes), NEW f \in Factories
  PROVE  e.id # <<f>>
<1> DEFINE owner(l) == IF l.owner = NoCell THEN Root ELSE <<l.owner>>
           g == [i \in DOMAIN SscLevels |-> Linked(<<SscLevels[i].name>>, owner(SscLevels[i]), i - 1)]
           top == <<Node(Root, AboveRoot, 0, {"row"})>>
<1>1. FixedNodes = top \o FlattenSeq(<<>> \o g)
  BY DEF FixedNodes, Each
<1>2. g = [i \in DOMAIN SscLevels |-> g[i]] /\ IsList(SscLevels)
  BY SscAssumption DEF IsList
<1>3. IsList(top) /\ \A d \in Range(top) : d.id = Root
  BY OneList, NodeIs
<1>4. ASSUME NEW i \in DOMAIN SscLevels
      PROVE  IsList(g[i]) /\ \A d \in Range(g[i]) : d.id = <<SscLevels[i].name>>
  <2> DEFINE n == <<SscLevels[i].name>>  o == owner(SscLevels[i])
  <2>1. g[i] = Linked(n, o, i - 1)
    OBVIOUS
  <2> HIDE DEF n, o
  <2>2. IsList(Linked(n, o, i - 1)) /\ \A d \in Range(Linked(n, o, i - 1)) : d.id = n
    BY OneList, NodeIs DEF Linked
  <2> QED BY <2>1, <2>2 DEF n
<1> HIDE DEF g, top
<1>5. /\ <<>> \o g = g /\ IsList(FlattenSeq(g))
      /\ \A d \in Range(FlattenSeq(g)) : \E i \in DOMAIN SscLevels : d \in Range(g[i])
  BY <1>2, <1>4, EachList
<1>6. e \in Range(top) \/ e \in Range(FlattenSeq(g))
  BY <1>1, <1>3, <1>5, BothLists
<1>7. e.id = Root \/ \E i \in DOMAIN SscLevels : e.id = <<SscLevels[i].name>>
  BY <1>3, <1>4, <1>5, <1>6
<1>8. f \notin FixedNames
  BY KindsApart
<1> QED BY <1>7, <1>8, FixedNamesAre, Ids DEF Root

\* A level and a room hang below a pair.
LEMMA RoomEdges ==
  ASSUME RoomsAre, NEW f \in DOMAIN rooms, NEW e \in Range(RoomNodes(f))
  PROVE  IsPair(e.owner)
<1> DEFINE rs == rooms[f]
           listed(i) == \E k \in 1 .. i - 1 : rs[k].level = rs[i].level
           level(i) == IF listed(i) THEN <<>> ELSE Linked(<<f, rs[i].level>>, InstallLevel(f), rs[i].level)
           room(i) ==
             IF ~Numeric(rs[i]) THEN <<>> ELSE level(i) \o Linked(<<rs[i].name>>, <<f, rs[i].level>>, i - 1)
           g == [i \in DOMAIN rs |-> room(i)]
<1>1. RoomNodes(f) = FlattenSeq(<<>> \o g) /\ g = [i \in DOMAIN rs |-> g[i]]
  BY DEF RoomNodes, Each
<1>2. IsList(rs)
  BY DEF RoomsAre
<1>3. ASSUME NEW i \in DOMAIN rs
      PROVE  IsList(g[i]) /\ \A d \in Range(g[i]) : IsPair(d.owner)
  <2>1. \A id, owner, order :
          /\ IsList(Linked(id, owner, order)) /\ Range(Linked(id, owner, order)) = {Node(id, owner, order, Both)}
          /\ \A d \in Range(Linked(id, owner, order)) : d.owner = owner
    BY OneList, NodeIs DEF Linked
  <2>2. IsPair(InstallLevel(f)) /\ \A l : IsPair(<<f, l>>)
    BY DEF IsPair, InstallLevel
  <2>3. IsList(level(i)) /\ \A d \in Range(level(i)) : IsPair(d.owner)
    <3> DEFINE a == <<f, rs[i].level>>  k == rs[i].level  b == InstallLevel(f)
    <3>1. IsList(Linked(a, b, k)) /\ (\A d \in Range(Linked(a, b, k)) : d.owner = b) /\ IsPair(b)
      BY <2>1, <2>2
    <3>2. level(i) = <<>> \/ level(i) = Linked(a, b, k)
      OBVIOUS
    <3> HIDE DEF level, a, b, k
    <3> QED BY <3>1, <3>2, EmptyList
  <2> HIDE DEF level
  <2> DEFINE a == <<rs[i].name>>  b == <<f, rs[i].level>>  k == i - 1
  <2>4. IsList(Linked(a, b, k)) /\ (\A d \in Range(Linked(a, b, k)) : d.owner = b) /\ IsPair(b)
    BY <2>1, <2>2
  <2>5. g[i] = <<>> \/ g[i] = level(i) \o Linked(a, b, k)
    OBVIOUS
  <2> DEFINE s == level(i)  t == Linked(a, b, k)
  <2>6. g[i] = <<>> \/ g[i] = s \o t
    BY <2>5
  <2>7. /\ IsList(s) /\ IsList(t) /\ (\A d \in Range(s) : IsPair(d.owner))
        /\ \A d \in Range(t) : IsPair(d.owner)
    BY <2>3, <2>4
  <2> HIDE DEF g, s, t
  <2>8. IsList(s \o t) /\ Range(s \o t) = Range(s) \union Range(t)
    BY <2>7, BothLists
  <2>9. CASE g[i] = s \o t
    BY <2>7, <2>8, <2>9
  <2>10. CASE g[i] = <<>>
    BY <2>10, EmptyList
  <2> QED BY <2>6, <2>9, <2>10
<1> HIDE DEF g, rs
<1>4. <<>> \o g = g /\ \A d \in Range(FlattenSeq(g)) : \E i \in DOMAIN rs : d \in Range(g[i])
  BY <1>1, <1>2, <1>3, EachList
<1> QED BY <1>1, <1>3, <1>4

\* A factory hangs below the unit, and of its nodes it alone.
LEMMA FactoryEdges ==
  ASSUME TreeInv, NEW f \in DOMAIN rooms, NEW order
  PROVE  /\ IsList(FactoryNodes(order, f))
         /\ \E e \in Range(FactoryNodes(order, f)) :
              e.owner = Unit /\ e.id = <<f>> /\ e.order = order /\ "edge" \in e.what
         /\ \A e \in Range(FactoryNodes(order, f)) : e.owner = Unit => e.id = <<f>> /\ e.order = order
<1> DEFINE a == Linked(<<f>>, Unit, order)
           b == Linked(InstallLevel(f), <<f>>, 0)
           c == Linked(InstallArea(f), <<f>>, 1)
           d == RoomNodes(f)
<1>1. FactoryNodes(order, f) = a \o b \o c \o d
  BY DEF FactoryNodes
<1>2. RoomsAre /\ project \in Projects /\ f \in Factories
  BY DEF TreeInv, RoomsAre
<1>3. /\ IsList(a) /\ Range(a) = {Node(<<f>>, Unit, order, Both)}
      /\ IsList(b) /\ Range(b) = {Node(InstallLevel(f), <<f>>, 0, Both)}
      /\ IsList(c) /\ Range(c) = {Node(InstallArea(f), <<f>>, 1, Both)}
  BY OneList DEF Linked
<1>4. IsList(d)
  BY <1>2, RoomsSound DEF Sound
<1>5. \A e \in Range(d) : e.owner # Unit
  <2>1. \A e \in Range(d) : IsPair(e.owner)
    BY <1>2, RoomEdges
  <2>2. ~IsPair(Unit)
    BY Ids DEF Unit, IsPair
  <2> QED BY <2>1, <2>2
<1>6. <<f>> # Unit
  <2>1. f # "unit"
    BY <1>2, KindsApart, FixedNamesAre
  <2> QED BY <2>1, Ids DEF Unit
<1>7. \A e \in Range(b) \union Range(c) : e.owner # Unit
  BY <1>3, <1>6, NodeIs
<1>8. \A e \in Range(a) : e.owner = Unit /\ e.id = <<f>> /\ e.order = order /\ "edge" \in e.what
  BY <1>3, NodeIs DEF Both
<1>9. \E e : e \in Range(a)
  BY <1>3
<1> HIDE DEF a, b, c, d
<1>10. IsList(a \o b) /\ Range(a \o b) = Range(a) \union Range(b)
  BY <1>3, BothLists
<1>11. IsList(a \o b \o c) /\ Range(a \o b \o c) = Range(a) \union Range(b) \union Range(c)
  BY <1>3, <1>10, BothLists
<1>12. IsList(a \o b \o c \o d) /\ Range(a \o b \o c \o d) = Range(a) \union Range(b) \union Range(c) \union Range(d)
  BY <1>4, <1>11, BothLists
<1> QED BY <1>1, <1>5, <1>7, <1>8, <1>9, <1>12

LEMMA AllFactories ==
  ASSUME TreeInv, RoomsFound, NEW factories \in SetToSeqs(DOMAIN rooms)
  PROVE  /\ IsList(Each(factories, FactoryNodes))
         /\ FactoriesIn(Picked(Each(factories, FactoryNodes), "edge"))
<1> DEFINE g == [i \in DOMAIN factories |-> FactoryNodes(i - 1, factories[i])]
           all == Each(factories, FactoryNodes)
<1>1. all = FlattenSeq(<<>> \o g)
  BY DEF Each
<1>2. g = [i \in DOMAIN factories |-> g[i]]
      /\ \A i \in DOMAIN factories : g[i] = FactoryNodes(i - 1, factories[i])
  OBVIOUS
<1>3. /\ IsList(factories) /\ \A i \in DOMAIN factories : factories[i] \in DOMAIN rooms
      /\ \A f \in DOMAIN rooms : \E i \in DOMAIN factories : factories[i] = f
  BY FactoriesFinite, AnyOrder, AllOrdered
<1> HIDE DEF g, all
<1>4. ASSUME NEW i \in DOMAIN factories
      PROVE  /\ IsList(g[i])
             /\ \E e \in Range(g[i]) :
                  e.owner = Unit /\ e.id = <<factories[i]>> /\ e.order = i - 1 /\ "edge" \in e.what
             /\ \A e \in Range(g[i]) : e.owner = Unit => e.id = <<factories[i]>> /\ e.order = i - 1
  <2> DEFINE f == factories[i]  k == i - 1
  <2>1. f \in DOMAIN rooms /\ g[i] = FactoryNodes(k, f)
    BY <1>2, <1>3
  <2> HIDE DEF f, k
  <2>2. /\ IsList(FactoryNodes(k, f))
        /\ \E e \in Range(FactoryNodes(k, f)) :
             e.owner = Unit /\ e.id = <<f>> /\ e.order = k /\ "edge" \in e.what
        /\ \A e \in Range(FactoryNodes(k, f)) : e.owner = Unit => e.id = <<f>> /\ e.order = k
    BY <2>1, FactoryEdges
  <2> QED BY <2>1, <2>2 DEF f, k
<1>5. /\ IsList(all) /\ \A e \in Range(all) : \E i \in DOMAIN factories : e \in Range(g[i])
      /\ \A i \in DOMAIN factories : Range(g[i]) \subseteq Range(all)
  BY <1>1, <1>2, <1>3, <1>4, EachList, EachHas
<1> DEFINE es == Picked(all, "edge")
<1>6. /\ \A e \in Range(all) : "edge" \in e.what => e \in Range(es)
      /\ \A e \in Range(es) : e \in Range(all)
  BY <1>5, PickedHas
<1> HIDE DEF es
<1>7. ASSUME NEW f \in Factories
      PROVE  \E e \in Range(es) : /\ e.owner = Unit /\ e.id = <<f>>
                                  /\ \A d \in Range(es) : KeyOf(d) = KeyOf(e) => d.id = e.id
  <2>1. PICK i \in DOMAIN factories : factories[i] = f
    BY <1>3 DEF RoomsFound
  <2>2. PICK e \in Range(g[i]) : e.owner = Unit /\ e.id = <<f>> /\ e.order = i - 1 /\ "edge" \in e.what
    BY <1>4, <2>1
  <2>3. e \in Range(es)
    BY <1>5, <1>6, <2>2
  <2>4. ASSUME NEW d \in Range(es), KeyOf(d) = KeyOf(e) PROVE d.id = e.id
    <3>1. d.owner = Unit /\ d.order = i - 1
      BY <2>2, <2>4, KeyIs, Ids
    <3>2. PICK j \in DOMAIN factories : d \in Range(g[j])
      BY <1>5, <1>6
    <3>3. d.id = <<factories[j]>> /\ d.order = j - 1
      BY <1>4, <3>1, <3>2
    <3>4. i \in Nat /\ j \in Nat
      BY <1>3, ListIs
    <3>5. i = j
      BY <3>1, <3>3, <3>4
    <3> QED BY <2>1, <2>2, <3>3, <3>5
  <2> QED BY <2>2, <2>3, <2>4
<1>8. FactoriesIn(es)
  BY <1>7 DEF FactoriesIn
<1> QED BY <1>5, <1>8 DEF all, es

LEMMA MajorIsNoFactory ==
  ASSUME TreeInv, NEW factories \in SetToSeqs(DOMAIN rooms),
         NEW all, all = Each(factories, LAMBDA i, f : Each(rooms[f], LAMBDA j, r : RoomMajorNodes(r.name)))
  PROVE  IsList(all) /\ \A e \in Range(all), f \in Factories : e.id # <<f>>
<1> DEFINE inOne(f) == [j \in DOMAIN rooms[f] |-> RoomMajorNodes(rooms[f][j].name)]
           one(f) == FlattenSeq(<<>> \o inOne(f))
           g == [i \in DOMAIN factories |-> one(factories[i])]
<1>1. all = FlattenSeq(<<>> \o g)
  BY DEF Each
<1>2. RoomsAre
  BY DEF TreeInv
<1>3. ASSUME NEW f \in DOMAIN rooms
      PROVE  IsList(one(f)) /\ \A e \in Range(one(f)) : IsPair(e.id)
  <2> DEFINE h == inOne(f)  rs == rooms[f]
  <2>1. IsList(rs) /\ \A j \in DOMAIN rs : rs[j].name \in RoomNames
    BY <1>2, RoomsNamed DEF RoomsAre
  <2>2. h = [j \in DOMAIN rs |-> h[j]] /\ \A j \in DOMAIN rs : h[j] = RoomMajorNodes(rs[j].name)
    OBVIOUS
  <2> HIDE DEF h, rs
  <2>3. ASSUME NEW j \in DOMAIN rs PROVE IsList(h[j]) /\ \A e \in Range(h[j]) : IsPair(e.id)
    <3> DEFINE n == rs[j].name
    <3>1. n \in RoomNames /\ h[j] = RoomMajorNodes(n)
      BY <2>1, <2>2
    <3> HIDE DEF n
    <3>2. IsList(RoomMajorNodes(n))
      BY <3>1, RoomMajorsKept DEF Kept
    <3>3. \A e \in Range(RoomMajorNodes(n)) : IsPair(e.id)
      BY <3>1, RoomMajorsKept
    <3> QED BY <3>1, <3>2, <3>3
  <2>4. /\ IsList(FlattenSeq(h)) /\ <<>> \o h = h
        /\ \A e \in Range(FlattenSeq(h)) : \E j \in DOMAIN rs : e \in Range(h[j])
    BY <2>1, <2>2, <2>3, EachList
  <2>5. IsList(FlattenSeq(<<>> \o h)) /\ \A e \in Range(FlattenSeq(<<>> \o h)) : IsPair(e.id)
    BY <2>3, <2>4
  <2> QED BY <2>5 DEF h
<1> HIDE DEF one
<1>4. g = [i \in DOMAIN factories |-> g[i]] /\ \A i \in DOMAIN factories : g[i] = one(factories[i])
  OBVIOUS
<1> HIDE DEF g
<1>5. IsList(factories) /\ \A i \in DOMAIN factories : factories[i] \in DOMAIN rooms
  BY FactoriesFinite, AnyOrder
<1>6. \A i \in DOMAIN factories : IsList(g[i]) /\ \A e \in Range(g[i]) : IsPair(e.id)
  BY <1>3, <1>4, <1>5
<1>7. /\ IsList(FlattenSeq(g)) /\ <<>> \o g = g
      /\ \A e \in Range(FlattenSeq(g)) : \E i \in DOMAIN factories : e \in Range(g[i])
  BY <1>4, <1>5, <1>6, EachList
<1>8. \A f : ~IsPair(<<f>>)
  BY Ids DEF IsPair
<1> QED BY <1>1, <1>6, <1>7, <1>8

\* The stages, one by one: each hands a batch to save or, when its call fails, none.
LEMMA FixedLists ==
  ASSUME TreeInv, ListInv, PlaceInv', set_pbs_fixed_node
  PROVE  ListInv'
<1>1. /\ project' = project /\ pbs' = pbs /\ edges' = edges /\ batch = NoBatch
      /\ (NoFault /\ Save(FixedNodes)) \/ (Fault /\ batch' = batch)
  BY DEF set_pbs_fixed_node, Ready, Fails
<1>2. Counted /\ project \in Projects
  BY <1>1, CountedFaults DEF TreeInv
<1>3. CASE Save(FixedNodes)
  <2>1. IsList(FixedNodes)
    BY FixedSound DEF Sound
  <2>2. \A e \in Range(FixedNodes), f \in Factories : e.id # <<f>>
    BY <1>2, FixedIsNoFactory
  <2> QED BY <1>1, <1>2, <1>3, <2>1, <2>2, SaveLists
<1>4. CASE batch' = batch
  BY <1>1, <1>2, <1>4, ListSame
<1> QED BY <1>1, <1>3, <1>4

LEMMA RoomNodeLists ==
  ASSUME TreeInv, PlaceInv, ListInv, PlaceInv', set_pbs_room_node
  PROVE  ListInv'
<1>1. /\ project' = project /\ pbs' = pbs /\ edges' = edges /\ batch = NoBatch /\ NoFault
      /\ pc = "pbs_room_nodes"
      /\ batch' = batch \/ \E factories \in SetToSeqs(DOMAIN rooms) : Save(Each(factories, FactoryNodes))
  BY DEF set_pbs_room_node, Ready
<1>2. Counted
  BY <1>1, CountedFaults DEF TreeInv
<1>3. ASSUME NEW factories \in SetToSeqs(DOMAIN rooms), Save(Each(factories, FactoryNodes))
      PROVE  ListInv'
  <2> DEFINE all == Each(factories, FactoryNodes)
  <2>1. IsList(all)
    <3> DEFINE g == [i \in DOMAIN factories |-> FactoryNodes(i - 1, factories[i])]
    <3>1. all = FlattenSeq(<<>> \o g) /\ g = [i \in DOMAIN factories |-> g[i]]
      BY DEF Each
    <3>2. IsList(factories) /\ \A i \in DOMAIN factories : factories[i] \in DOMAIN rooms
      BY FactoriesFinite, AnyOrder
    <3>3. \A i \in DOMAIN factories : IsList(g[i])
      BY <3>2, FactoryEdges
    <3> HIDE DEF g, all
    <3> QED BY <3>1, <3>2, <3>3, EachList
  <2>2. faults = 0 => FactoriesIn(Picked(all, "edge"))
    <3>1. faults = 0 => RoomsFound
      BY <1>1 DEF PlaceInv, StagesDone, AfterRooms
    <3> QED BY <3>1, AllFactories
  <2>3. Save(all)
    BY <1>3
  <2> HIDE DEF all
  <2> QED BY <1>1, <1>2, <2>1, <2>2, <2>3, SaveLists
<1>4. CASE batch' = batch
  BY <1>1, <1>2, <1>4, ListSame
<1> QED BY <1>1, <1>3, <1>4

LEMMA RoomMajorLists ==
  ASSUME TreeInv, ListInv, PlaceInv', set_pbs_room_major_node
  PROVE  ListInv'
<1> DEFINE nodes(factories) ==
             Each(factories, LAMBDA i, f : Each(rooms[f], LAMBDA j, r : RoomMajorNodes(r.name)))
<1>1. /\ project' = project /\ pbs' = pbs /\ edges' = edges /\ batch = NoBatch
      /\ \/ NoFault /\ \E factories \in SetToSeqs(DOMAIN rooms) : Save(nodes(factories))
         \/ Fault /\ batch' = batch
  BY DEF set_pbs_room_major_node, Ready, Fails
<1>2. Counted
  BY <1>1, CountedFaults DEF TreeInv
<1>3. ASSUME NEW factories \in SetToSeqs(DOMAIN rooms), Save(nodes(factories))
      PROVE  ListInv'
  <2> DEFINE all == nodes(factories)
  <2>1. IsList(all) /\ \A e \in Range(all), f \in Factories : e.id # <<f>>
    BY MajorIsNoFactory
  <2>2. Save(all)
    BY <1>3
  <2> HIDE DEF all
  <2> QED BY <1>1, <1>2, <2>1, <2>2, SaveLists
<1> HIDE DEF nodes
<1>4. CASE batch' = batch
  BY <1>1, <1>2, <1>4, ListSame
<1> QED BY <1>1, <1>3, <1>4

LEMMA PartLists ==
  ASSUME TreeInv, ListInv, PlaceInv', set_pbs_node
  PROVE  ListInv'
<1> DEFINE zone == zones[1][1]
           kind == zones[1][2]
           parts == project.parts[zone]
           bran == set_pbs_bran_node(parts.bran, majors[zone])
           equi == set_pbs_equi_node(parts.equi, majors[zone])
           supp == set_pbs_supp_and_stru_node(parts.stru, parts.rest, majors[zone])
           all == CASE kind = "BRAN" -> bran [] kind = "EQUI" -> equi [] kind = "SUPP" -> supp
<1>1. /\ project' = project /\ pbs' = pbs /\ edges' = edges /\ zones # <<>> /\ batch = NoBatch
      /\ (NoFault /\ Save(all)) \/ (Fault /\ batch' = batch)
  BY DEF set_pbs_node, Ready
<1>2. Counted /\ project \in Projects
  BY <1>1, CountedFaults DEF TreeInv
<1>3. zone \in DOMAIN project.parts /\ kind \in Kinds
  <2>1. IsList(zones) /\ \A z \in Range(zones) : z[1] \in DOMAIN project.parts /\ z[2] \in Kinds
    BY DEF TreeInv, ZonesAre
  <2>2. Len(zones) # 0
    BY <1>1, <2>1, EmptySeq DEF IsList
  <2>3. 1 \in DOMAIN zones
    BY <2>1, <2>2, ListIs
  <2> QED BY <2>1, <2>3 DEF Range
<1> HIDE DEF zone, kind
<1>4. /\ IsList(parts.bran) /\ IsList(parts.equi) /\ IsList(parts.stru) /\ IsList(parts.rest)
      /\ Range(parts.bran) \subseteq Parts /\ Range(parts.equi) \subseteq Parts
      /\ Range(parts.stru) \subseteq Parts /\ Range(parts.rest) \subseteq Parts
  <2>1. PartsIn(project, zone) \subseteq Parts
    BY <1>3 DEF Parts, PartsOf
  <2> QED BY <1>2, <1>3, <2>1, ListsAssumption DEF PartsIn
<1> HIDE DEF parts
<1>5. Deep(bran) /\ Deep(equi) /\ Deep(supp)
  BY <1>2, <1>4, BranSound, EquiSound, SupportsSound
<1> HIDE DEF bran, equi, supp
<1>6. Deep(all)
  <2>1. all = IF kind = "BRAN" THEN bran ELSE IF kind = "EQUI" THEN equi ELSE supp
    BY <1>3 DEF Kinds
  <2> HIDE DEF all
  <2> QED BY <1>5, <2>1
<1> HIDE DEF all
<1>7. IsList(all) /\ \A e \in Range(all), f \in Factories : e.id # <<f>>
  BY <1>2, <1>6, DeepIsNoFactory DEF Deep
<1>8. CASE Save(all)
  BY <1>1, <1>2, <1>7, <1>8, SaveLists
<1>9. CASE batch' = batch
  BY <1>1, <1>2, <1>9, ListSame
<1> QED BY <1>1, <1>8, <1>9

LEMMA ListInit == Init => ListInv
<1> SUFFICES ASSUME Init PROVE EdgesAre /\ RowsListed /\ UnitsListed
  BY DEF ListInv
<1>1. pbs = <<>> /\ edges = <<>> /\ batch = NoBatch
  BY DEF Init
<1> QED BY <1>1, NoBatchIs DEF EdgesAre, RowsListed, UnitsListed, UnitListed

LEMMA ListStep == TreeInv /\ PlaceInv /\ ListInv /\ PlaceInv' /\ [Next]_vars => ListInv'
<1> SUFFICES ASSUME TreeInv, PlaceInv, ListInv, PlaceInv', [Next]_vars PROVE ListInv'
  OBVIOUS
<1>1. CASE MaterialJob \/ Tasks
  <2>1. Counted
    BY <1>1, MaterialKeeps, CountedFaults DEF TreeInv
  <2> QED BY <1>1, <2>1, MaterialKeeps, ListSame
<1>2. CASE PbsJob
  <2>1. CASE set_pdms_major_code
    <3>1. /\ project' = project /\ pbs' = pbs /\ edges' = edges /\ batch' = batch
          /\ WriteMajors \/ Fault
      BY <2>1 DEF set_pdms_major_code, Fails
    <3>2. Counted
      BY <3>1, MajorsWritten, CountedFaults DEF TreeInv
    <3> QED BY <3>1, <3>2, ListSame
  <2>2. CASE query_all_room_name \/ query_all_zone_with_major \/ Finished
    <3>1. /\ project' = project /\ pbs' = pbs /\ edges' = edges /\ batch' = batch
          /\ NoFault \/ Fault \/ faults' = faults
      BY <2>2 DEF query_all_room_name, query_all_zone_with_major, Finished, Fails
    <3>2. Counted
      BY <3>1, CountedFaults DEF TreeInv
    <3> QED BY <3>1, <3>2, ListSame
  <2>3. CASE set_pbs_fixed_node \/ set_pbs_room_node \/ set_pbs_room_major_node \/ set_pbs_node
    BY <2>3, FixedLists, RoomNodeLists, RoomMajorLists, PartLists
  <2>4. CASE insert_pe_into_table_with_chunks \/ insert_relate_to_table
    BY <2>4, InsertLists, RelateLists
  <2> QED BY <1>2, <2>1, <2>2, <2>3, <2>4 DEF PbsJob, PbsStep
<1>3. CASE Again \/ Exit \/ UNCHANGED vars
  <2>1. /\ project' = project /\ pbs' = pbs /\ edges' = edges /\ batch' = batch /\ faults' = faults
    BY <1>3 DEF Again, Exit, vars, pbsVars
  <2>2. Counted
    BY <2>1, CountedFaults DEF TreeInv
  <2> QED BY <2>1, <2>2, ListSame
<1> QED BY <1>1, <1>2, <1>3 DEF Next

\* Once a run is done no edge is awaited: the edge of a row is there, under a key
\* that no other node can hold.
LEMMA ListEnds ==
  ASSUME TreeInv, PlaceInv, ListInv
  PROVE  EveryRowIsListed
<1> SUFFICES ASSUME pc = "pbs_done", faults = 0, NEW id \in DOMAIN pbs, id # Root, ~SharesItsOrder(id)
             PROVE  Edged(id)
  BY DEF EveryRowIsListed
<1>1. EdgesAre /\ RowsListed /\ UnitsListed /\ project \in Projects
  BY DEF ListInv, TreeInv
<1>2. Awaited = {}
  <2>1. pc \notin Due
    BY DEF Due
  <2>2. batch.step = "idle"
    BY <2>1 DEF PlaceInv, BatchIsDue
  <2> QED BY <2>2, EmptyList DEF Awaited, KeysOf
<1>3. PICK o, k : o = pbs[id] /\ Ordered(o, k, id) /\ <<o, k>> \in DOMAIN edges
  BY <1>1, <1>2 DEF RowsListed
<1> DEFINE key == <<o, k>>
<1>4. key[1] = o /\ key[2] = k /\ key \in DOMAIN edges
  BY <1>3
<1> HIDE DEF key
<1>5. Ordered(o, k, edges[key]) \/ Crowded(o, edges[key])
  BY <1>1, <1>4 DEF EdgesAre
<1>6. PICK b : b = edges[key] /\ (Ordered(o, k, b) \/ Crowded(o, b))
  BY <1>5
<1>7. CASE o = Unit
  <2>1. PICK f \in Factories : id = <<f>>
    BY <1>1, <1>3, <1>7, UnitPlaces
  <2>2. UnitListed
    BY <1>4, <1>7 DEF UnitListed
  <2>3. PICK at_ \in DOMAIN edges : at_[1] = Unit /\ edges[at_] = <<f>>
    BY <1>1, <2>2 DEF UnitsListed, FactoriesListed
  <2> QED BY <1>3, <1>7, <2>1, <2>3 DEF Edged
<1>8. CASE o # Unit
  <2>1. o \notin FixedIds \intersect RoomIds
    BY <1>3 DEF SharesItsOrder
  <2>2. id # o
    BY <1>3 DEF TreeInv, RowsAre
  <2>3. ~Crowded(o, b)
    BY <1>1, <1>3, <2>1, <2>2, FreePlace
  <2>4. b = id
    BY <1>1, <1>3, <1>6, <1>8, <2>3, OnePlace
  <2> QED BY <1>3, <1>4, <1>6, <2>4 DEF Edged
<1> QED BY <1>7, <1>8

-----------------------------------------------------------------------------
(* After a run without failures, the owner of a row lists it: no edge has     *)
(* taken the key of another, but where parts and the fixed nodes of supports  *)
(* share theirs.                                                             *)
THEOREM EveryRowIsAlwaysListed == Spec => []EveryRowIsListed
<1>1. Init => TreeInv /\ PlaceInv /\ ListInv
  BY TreeInit, PlaceInit, ListInit
<1>2. TreeInv /\ PlaceInv /\ ListInv /\ [Next]_vars => (TreeInv /\ PlaceInv /\ ListInv)'
  BY TreeStep, PlaceStep, ListStep
<1>3. TreeInv /\ PlaceInv /\ ListInv => EveryRowIsListed
  BY ListEnds
<1> QED BY <1>1, <1>2, <1>3, PTL DEF Spec

====
