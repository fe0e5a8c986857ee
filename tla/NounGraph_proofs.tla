-------------------------- MODULE NounGraph_proofs --------------------------
(***************************************************************************)
(* For any noun graph and any plants it allows, a query made of its paths   *)
(* finds the relatives it asks for.                                         *)
(***************************************************************************)
EXTENDS NounGraph, FiniteSetTheorems, SequenceTheorems, WellFoundedInduction, TLAPS

-----------------------------------------------------------------------------
(* Numbers.                                                                 *)

LEMMA Least ==
  ASSUME NEW T, T \subseteq Nat, T # {}
  PROVE  \E n \in T : \A m \in T : n <= m
<1> DEFINE R == OpToRel(<, Nat)
<1>1. IsWellFoundedOn(R, Nat)
  BY NatLessThanWellFounded
<1>2. \A x, y \in Nat : x < y => <<x, y>> \in R
  BY DEF OpToRel
<1> HIDE DEF R
<1>3. \E x \in T : \A y \in T : ~(<<y, x>> \in R)
  BY <1>1, WFMin
<1>4. \E x \in T : \A y \in T : ~(y < x)
  BY <1>2, <1>3
<1> QED BY <1>4

LEMMA SetInduction ==
  ASSUME NEW T, 0 \in T, \A n \in Nat : n \in T => n + 1 \in T
  PROVE  Nat \subseteq T
<1> DEFINE C == Nat \ T
<1> SUFFICES ASSUME C # {} PROVE FALSE
  OBVIOUS
<1>1. PICK n \in C : \A m \in C : n <= m
  <2> HIDE DEF C
  <2>1. C \subseteq Nat
    BY DEF C
  <2> QED BY <2>1, Least
<1>2. n # 0 /\ n - 1 \in Nat /\ n - 1 \notin C
  BY <1>1
<1> QED BY <1>2

LEMMA Largest ==
  ASSUME NEW S, S \subseteq Nat, S # {}, NEW n \in Nat, \A x \in S : x <= n
  PROVE  Max(S) \in S /\ \A x \in S : x <= Max(S)
<1> DEFINE T == {n - x : x \in S}
<1>1. T \subseteq Nat /\ T # {}
  <2>1. PICK x \in S : TRUE
    OBVIOUS
  <2>2. n - x \in T
    BY <2>1
  <2>3. \A y \in S : y \in Nat /\ y <= n
    OBVIOUS
  <2> QED BY <2>2, <2>3
<1>2. PICK t \in T : \A m \in T : t <= m
  <2> HIDE DEF T
  <2> QED BY <1>1, Least
<1>3. PICK x \in S : t = n - x
  BY <1>2
<1>4. \A y \in S : x >= y
  <2> SUFFICES ASSUME NEW y \in S PROVE x >= y
    OBVIOUS
  <2>1. t <= n - y
    BY <1>2
  <2> QED BY <1>3, <2>1
<1>5. Max(S) \in S /\ \A y \in S : Max(S) >= y
  BY <1>4 DEF Max
<1> QED BY <1>5

LEMMA Smallest ==
  ASSUME NEW S, S \subseteq Nat, S # {}
  PROVE  Min(S) \in S /\ \A x \in S : Min(S) <= x
<1>1. \E x \in S : \A y \in S : x =< y
  BY Least
<1> QED BY <1>1 DEF Min

-----------------------------------------------------------------------------
(* From an element up.                                                      *)

IsUp(up, c, p, n) ==
  up = [k \in 0 .. n |-> IF k = 0 THEN c ELSE IF up[k - 1] = 0 THEN 0 ELSE p.owner[up[k - 1]]]

LEMMA UpExists ==
  ASSUME NEW c, NEW p
  PROVE  \A n \in Nat : \E up : IsUp(up, c, p, n)
<1> DEFINE T == {n \in Nat : \E up : IsUp(up, c, p, n)}
<1>1. 0 \in T
  <2>1. IsUp([k \in 0 .. 0 |-> c], c, p, 0)
    BY DEF IsUp
  <2> QED BY <2>1
<1>2. ASSUME NEW n \in Nat, n \in T PROVE n + 1 \in T
  <2>1. PICK up : IsUp(up, c, p, n)
    BY <1>2
  <2> DEFINE z == [k \in 0 .. n + 1 |->
                     IF k = n + 1 THEN (IF up[n] = 0 THEN 0 ELSE p.owner[up[n]]) ELSE up[k]]
  <2>2. ASSUME NEW k \in 0 .. n + 1
        PROVE  z[k] = IF k = 0 THEN c ELSE IF z[k - 1] = 0 THEN 0 ELSE p.owner[z[k - 1]]
    <3>1. CASE k = n + 1
      <4>1. k # 0 /\ k - 1 = n /\ z[k - 1] = up[n]
        BY <3>1
      <4> QED BY <3>1, <4>1
    <3>2. CASE k # n + 1
      <4>1. k \in 0 .. n /\ z[k] = up[k]
        BY <3>2
      <4>2. k # 0 => k - 1 \in 0 .. n /\ z[k - 1] = up[k - 1]
        BY <4>1
      <4>3. up[k] = IF k = 0 THEN c ELSE IF up[k - 1] = 0 THEN 0 ELSE p.owner[up[k - 1]]
        BY <2>1, <4>1 DEF IsUp
      <4> QED BY <4>1, <4>2, <4>3
    <3> QED BY <3>1, <3>2
  <2>3. z = [k \in 0 .. n + 1 |-> z[k]]
    OBVIOUS
  <2> HIDE DEF z
  <2>4. IsUp(z, c, p, n + 1)
    BY <2>2, <2>3 DEF IsUp
  <2> QED BY <2>4
<1> HIDE DEF T
<1>3. Nat \subseteq T
  BY <1>1, <1>2, SetInduction
<1> QED BY <1>3 DEF T

LEMMA UpIs ==
  ASSUME NEW p, IsPlant(p), NEW c \in DOMAIN p.owner
  PROVE  /\ Up(c, p)[0] = c
         /\ \A k \in 0 .. c : k + 1 <= c =>
              Up(c, p)[k + 1] = IF Up(c, p)[k] = 0 THEN 0 ELSE p.owner[Up(c, p)[k]]
         /\ \A k \in 0 .. c : /\ Up(c, p)[k] \in DOMAIN p.owner \union {0}
                              /\ Up(c, p)[k] # 0 => Up(c, p)[k] <= c - k
<1> DEFINE up == Up(c, p)
<1>1. c \in Nat \ {0}
  BY DEF IsPlant
<1>2. up = CHOOSE u : IsUp(u, c, p, c)
  BY DEF Up, IsUp
<1>3. IsUp(up, c, p, c)
  BY <1>1, <1>2, UpExists
<1> HIDE DEF up
<1>4. up[0] = c
  BY <1>1, <1>3 DEF IsUp
<1>5. ASSUME NEW k \in 0 .. c, k + 1 <= c
      PROVE  up[k + 1] = IF up[k] = 0 THEN 0 ELSE p.owner[up[k]]
  <2>1. k + 1 \in 0 .. c /\ k + 1 # 0 /\ (k + 1) - 1 = k
    BY <1>1, <1>5
  <2> QED BY <1>3, <2>1 DEF IsUp
<1> DEFINE P(k) == up[k] \in DOMAIN p.owner \union {0} /\ (up[k] # 0 => up[k] <= c - k)
           T == {k \in Nat : k <= c => P(k)}
<1>6. 0 \in T
  BY <1>1, <1>4
<1>7. ASSUME NEW k \in Nat, k \in T PROVE k + 1 \in T
  <2> SUFFICES ASSUME k + 1 <= c PROVE P(k + 1)
    OBVIOUS
  <2>1. P(k) /\ k \in 0 .. c
    BY <1>1, <1>7
  <2>2. up[k + 1] = IF up[k] = 0 THEN 0 ELSE p.owner[up[k]]
    BY <1>5, <2>1
  <2>3. CASE up[k] = 0
    BY <2>2, <2>3
  <2>4. CASE up[k] # 0
    <3>1. up[k] \in DOMAIN p.owner /\ up[k] <= c - k /\ up[k + 1] = p.owner[up[k]]
      BY <2>1, <2>2, <2>4
    <3>2. up[k] \in Nat /\ up[k + 1] \in DOMAIN p.owner \union {0} /\ up[k + 1] < up[k]
      BY <3>1 DEF IsPlant
    <3>3. up[k + 1] \in Nat
      BY <3>2 DEF IsPlant
    <3> QED BY <1>1, <3>1, <3>2, <3>3
  <2> QED BY <2>3, <2>4
<1> HIDE DEF T
<1>8. Nat \subseteq T
  BY <1>6, <1>7, SetInduction
<1>9. \A k \in 0 .. c : P(k)
  BY <1>1, <1>8 DEF T
<1> QED BY <1>4, <1>5, <1>9 DEF up

\* What is above the owner of an element is above it.
LEMMA OwnerIsAbove ==
  ASSUME NEW p, IsPlant(p), NEW c \in DOMAIN p.owner
  PROVE  /\ c \in Above(c, p)
         /\ p.owner[c] # 0 => p.owner[c] \in DOMAIN p.owner /\ Above(p.owner[c], p) \subseteq Above(c, p)
<1>1. c \in Nat \ {0} /\ Up(c, p)[0] = c
  BY UpIs DEF IsPlant
<1>2. c \in Above(c, p)
  BY <1>1 DEF Above
<1>3. ASSUME p.owner[c] # 0
      PROVE  p.owner[c] \in DOMAIN p.owner /\ Above(p.owner[c], p) \subseteq Above(c, p)
  <2>1. PICK o \in DOMAIN p.owner : o = p.owner[c]
    BY <1>3 DEF IsPlant
  <2>2. o \in Nat \ {0} /\ o < c
    BY <2>1 DEF IsPlant
  <2> DEFINE T == {k \in Nat : k <= o => Up(c, p)[k + 1] = Up(o, p)[k]}
  <2>3. 0 \in T
    BY <1>1, <2>1, <2>2, UpIs
  <2>4. ASSUME NEW k \in Nat, k \in T PROVE k + 1 \in T
    <3> SUFFICES ASSUME k + 1 <= o PROVE Up(c, p)[(k + 1) + 1] = Up(o, p)[k + 1]
      OBVIOUS
    <3>1. Up(c, p)[k + 1] = Up(o, p)[k]
      BY <2>2, <2>4
    <3>2. k + 1 \in 0 .. c /\ (k + 1) + 1 <= c /\ k \in 0 .. o
      BY <1>1, <2>2
    <3>3. Up(c, p)[(k + 1) + 1] = IF Up(c, p)[k + 1] = 0 THEN 0 ELSE p.owner[Up(c, p)[k + 1]]
      BY <3>2, UpIs
    <3>4. Up(o, p)[k + 1] = IF Up(o, p)[k] = 0 THEN 0 ELSE p.owner[Up(o, p)[k]]
      BY <3>2, UpIs
    <3> QED BY <3>1, <3>3, <3>4
  <2> HIDE DEF T
  <2>5. Nat \subseteq T
    BY <2>3, <2>4, SetInduction
  <2>6. ASSUME NEW k \in 0 .. o PROVE Up(o, p)[k] = Up(c, p)[k + 1] /\ k + 1 \in 0 .. c
    BY <1>1, <2>2, <2>5 DEF T
  <2>7. Above(o, p) \subseteq Above(c, p)
    <3> SUFFICES ASSUME NEW k \in 0 .. o, Up(o, p)[k] # 0 PROVE Up(o, p)[k] \in Above(c, p)
      BY DEF Above
    <3>1. Up(o, p)[k] = Up(c, p)[k + 1] /\ k + 1 \in 0 .. c
      BY <2>6
    <3> QED BY <3>1 DEF Above
  <2> QED BY <2>1, <2>7
<1> QED BY <1>2, <1>3

\* The owner of an element above another is above it, too.
LEMMA AboveGoesOn ==
  ASSUME NEW p, IsPlant(p), NEW c \in DOMAIN p.owner, NEW x \in Above(c, p)
  PROVE  x \in DOMAIN p.owner /\ (p.owner[x] # 0 => p.owner[x] \in Above(c, p))
<1>1. PICK k \in 0 .. c : x = Up(c, p)[k] /\ x # 0
  BY DEF Above
<1>2. c \in Nat /\ x \in DOMAIN p.owner /\ x <= c - k
  <2>1. Up(c, p)[k] \in DOMAIN p.owner \union {0} /\ (Up(c, p)[k] # 0 => Up(c, p)[k] <= c - k)
    BY UpIs
  <2> QED BY <1>1, <2>1 DEF IsPlant
<1>3. ASSUME p.owner[x] # 0 PROVE p.owner[x] \in Above(c, p)
  <2>1. p.owner[x] \in Nat /\ p.owner[x] < x /\ x \in Nat
    BY <1>2, <1>3 DEF IsPlant
  <2>2. k + 1 <= c /\ k + 1 \in 0 .. c
    BY <1>2, <1>3, <2>1
  <2>3. Up(c, p)[k + 1] = p.owner[x]
    BY <1>1, <2>2, UpIs
  <2> QED BY <1>3, <2>2, <2>3 DEF Above
<1> QED BY <1>2, <1>3

-----------------------------------------------------------------------------
(* Simple paths.                                                            *)

IsWalk(walk, start, n) ==
  walk = [k \in 0 .. n |-> IF k = 0 THEN {<<start>>} ELSE UNION {Prolonged(path) : path \in walk[k - 1]}]

LEMMA WalkExists ==
  ASSUME NEW start
  PROVE  \A n \in Nat : \E walk : IsWalk(walk, start, n)
<1> DEFINE T == {n \in Nat : \E walk : IsWalk(walk, start, n)}
<1>1. 0 \in T
  <2>1. IsWalk([k \in 0 .. 0 |-> {<<start>>}], start, 0)
    BY DEF IsWalk
  <2> QED BY <2>1
<1>2. ASSUME NEW n \in Nat, n \in T PROVE n + 1 \in T
  <2>1. PICK walk : IsWalk(walk, start, n)
    BY <1>2
  <2> DEFINE next == UNION {Prolonged(path) : path \in walk[n]}
             z == [k \in 0 .. n + 1 |-> IF k = n + 1 THEN next ELSE walk[k]]
  <2>2. ASSUME NEW k \in 0 .. n + 1
        PROVE  z[k] = IF k = 0 THEN {<<start>>} ELSE UNION {Prolonged(path) : path \in z[k - 1]}
    <3>1. CASE k = n + 1
      <4>1. k # 0 /\ z[k - 1] = walk[n] /\ z[k] = next
        BY <3>1
      <4> QED BY <4>1
    <3>2. CASE k # n + 1
      <4>1. k \in 0 .. n /\ z[k] = walk[k]
        BY <3>2
      <4>2. k # 0 => k - 1 \in 0 .. n /\ z[k - 1] = walk[k - 1]
        BY <4>1
      <4>3. walk[k] = IF k = 0 THEN {<<start>>} ELSE UNION {Prolonged(path) : path \in walk[k - 1]}
        BY <2>1, <4>1 DEF IsWalk
      <4> QED BY <4>1, <4>2, <4>3
    <3> QED BY <3>1, <3>2
  <2>3. z = [k \in 0 .. n + 1 |-> z[k]]
    OBVIOUS
  <2> HIDE DEF z
  <2>4. IsWalk(z, start, n + 1)
    BY <2>2, <2>3 DEF IsWalk
  <2> QED BY <2>4
<1> HIDE DEF T
<1>3. Nat \subseteq T
  BY <1>1, <1>2, SetInduction
<1> QED BY <1>3 DEF T

LEMMA GraphIsFinite ==
  ASSUME IsFiniteSet(Owning)
  PROVE  IsFiniteSet(NOUN_GRAPH) /\ Cardinality(NOUN_GRAPH) \in Nat
<1> DEFINE S1 == {e[1] : e \in Owning}  S2 == {e[2] : e \in Owning}
           f1 == [e \in Owning |-> e[1]]  f2 == [e \in Owning |-> e[2]]
<1>1. f1 \in Surjection(Owning, S1) /\ f2 \in Surjection(Owning, S2)
  BY DEF Surjection
<1>2. NOUN_GRAPH = S1 \union S2
  BY DEF NOUN_GRAPH
<1> HIDE DEF S1, S2, f1, f2
<1>3. IsFiniteSet(S1) /\ IsFiniteSet(S2)
  BY <1>1, FS_Surjection
<1>4. IsFiniteSet(NOUN_GRAPH)
  BY <1>2, <1>3, FS_Union
<1> QED BY <1>4, FS_CardinalityType

LEMMA OwnersAreNouns ==
  ASSUME NEW n
  PROVE  OwnersOf(n) \subseteq NOUN_GRAPH
BY DEF OwnersOf, NOUN_GRAPH

LEMMA LinkedAreNouns ==
  ASSUME NEW m, NEW n, <<m, n>> \in Owning
  PROVE  m \in NOUN_GRAPH /\ n \in NOUN_GRAPH /\ n \in OwnersOf(m)
<1> DEFINE e == <<m, n>>
<1>1. e \in Owning /\ e[1] = m /\ e[2] = n
  OBVIOUS
<1> HIDE DEF e
<1> QED BY <1>1 DEF OwnersOf, NOUN_GRAPH

LEMMA WalksAre ==
  ASSUME IsFiniteSet(Owning), NEW start \in NOUN_GRAPH
  PROVE  \E walk : /\ IsWalk(walk, start, Cardinality(NOUN_GRAPH))
                   /\ Walks(start) = UNION {walk[k] : k \in 0 .. Cardinality(NOUN_GRAPH)}
                   /\ \A k \in 0 .. Cardinality(NOUN_GRAPH) :
                        \A q \in walk[k] : q \in Seq(NOUN_GRAPH) /\ Len(q) = k + 1
<1> DEFINE N == Cardinality(NOUN_GRAPH)
           walk == CHOOSE w : IsWalk(w, start, N)
<1>1. N \in Nat
  BY GraphIsFinite
<1>2. Walks(start) = UNION {walk[k] : k \in 0 .. N}
  BY DEF Walks, IsWalk
<1>3. IsWalk(walk, start, N)
  BY <1>1, WalkExists
<1> HIDE DEF walk, N
<1> DEFINE T == {k \in Nat : k <= N => \A q \in walk[k] : q \in Seq(NOUN_GRAPH) /\ Len(q) = k + 1}
<1>4. 0 \in T
  <2>1. walk[0] = {<<start>>}
    BY <1>1, <1>3 DEF IsWalk
  <2>2. <<start>> \in Seq(NOUN_GRAPH) /\ Len(<<start>>) = 0 + 1
    OBVIOUS
  <2>3. \A q \in walk[0] : q = <<start>>
    BY <2>1
  <2>4. \A q \in walk[0] : q \in Seq(NOUN_GRAPH) /\ Len(q) = 0 + 1
    BY <2>2, <2>3
  <2> QED BY <2>4
<1>5. ASSUME NEW k \in Nat, k \in T PROVE k + 1 \in T
  <2> SUFFICES ASSUME k + 1 <= N, NEW q \in walk[k + 1]
               PROVE  q \in Seq(NOUN_GRAPH) /\ Len(q) = (k + 1) + 1
    OBVIOUS
  <2>1. walk[k + 1] = UNION {Prolonged(path) : path \in walk[k]}
    <3>1. k + 1 \in 0 .. N /\ k + 1 # 0 /\ (k + 1) - 1 = k
      BY <1>1
    <3> QED BY <1>3, <3>1 DEF IsWalk
  <2>2. PICK path \in walk[k] : q \in Prolonged(path)
    BY <2>1
  <2>3. PICK n \in NOUN_GRAPH : q = Append(path, n)
    BY <2>2, OwnersAreNouns DEF Prolonged
  <2>4. path \in Seq(NOUN_GRAPH) /\ Len(path) = k + 1
    BY <1>1, <1>5
  <2> QED BY <2>3, <2>4
<1> HIDE DEF T
<1>6. Nat \subseteq T
  BY <1>4, <1>5, SetInduction
<1>7. \A k \in 0 .. N : \A q \in walk[k] : q \in Seq(NOUN_GRAPH) /\ Len(q) = k + 1
  BY <1>1, <1>6 DEF T
<1> QED BY <1>2, <1>3, <1>7 DEF N

Linked(q) == \A i \in 1 .. Len(q) : i + 1 <= Len(q) => <<q[i], q[i + 1]>> \in Owning
Simple(q) == \A i, j \in 1 .. Len(q) : q[i] = q[j] => i = j

LEMMA SimpleIsShort ==
  ASSUME IsFiniteSet(Owning), NEW q \in Seq(NOUN_GRAPH), Simple(q)
  PROVE  Len(q) <= Cardinality(NOUN_GRAPH)
<1>1. Len(q) \in Nat /\ q \in [1 .. Len(q) -> NOUN_GRAPH]
  BY LenProperties
<1>2. q \in Injection(1 .. Len(q), NOUN_GRAPH)
  BY <1>1 DEF Injection, IsInjective, Simple
<1>3. Cardinality(1 .. Len(q)) <= Cardinality(NOUN_GRAPH)
  BY <1>2, GraphIsFinite, FS_Injection
<1>4. Cardinality(1 .. Len(q)) = Len(q)
  BY <1>1, FS_Interval
<1> QED BY <1>3, <1>4

\* Every simple path from a noun is one of its walks.
LEMMA WalksHave ==
  ASSUME IsFiniteSet(Owning), NEW q \in Seq(NOUN_GRAPH), q # <<>>, Linked(q), Simple(q)
  PROVE  q \in Walks(q[1])
<1> DEFINE N == Cardinality(NOUN_GRAPH)  start == q[1]
<1>1. Len(q) \in Nat \ {0} /\ start \in NOUN_GRAPH /\ N \in Nat /\ Len(q) <= N
  BY LenProperties, EmptySeq, ElementOfSeq, GraphIsFinite, SimpleIsShort
<1>2. PICK walk : /\ IsWalk(walk, start, N)
                  /\ Walks(start) = UNION {walk[k] : k \in 0 .. N}
                  /\ \A k \in 0 .. N : \A r \in walk[k] : r \in Seq(NOUN_GRAPH) /\ Len(r) = k + 1
  BY <1>1, WalksAre
<1> HIDE DEF N, start
<1> DEFINE T == {k \in Nat : k + 1 <= Len(q) => SubSeq(q, 1, k + 1) \in walk[k]}
<1>3. 0 \in T
  <2>1. walk[0] = {<<start>>}
    BY <1>1, <1>2 DEF IsWalk
  <2>2. SubSeq(q, 1, 0 + 1) = <<start>>
    <3>1. 1 <= Len(q) /\ 0 + 1 = 1
      BY <1>1
    <3>2. Len(SubSeq(q, 1, 1)) = 1 /\ SubSeq(q, 1, 1)[1] = q[1] /\ SubSeq(q, 1, 1) \in Seq(NOUN_GRAPH)
      BY <1>1, <3>1
    <3>3. SubSeq(q, 1, 1) = <<q[1]>>
      <4> DEFINE r == SubSeq(q, 1, 1)
      <4>1. Len(r) = 1 /\ r[1] = q[1] /\ r \in Seq(NOUN_GRAPH)
        BY <3>2
      <4> HIDE DEF r
      <4>2. r = <<r[1]>>
        BY <4>1
      <4> QED BY <4>1, <4>2 DEF r
    <3> QED BY <3>1, <3>3 DEF start
  <2>3. SubSeq(q, 1, 0 + 1) \in walk[0]
    <3> DEFINE first == <<start>>
    <3>1. first \in walk[0]
      BY <2>1
    <3> HIDE DEF first
    <3> QED BY <2>2, <3>1 DEF first
  <2> QED BY <2>3
<1>4. ASSUME NEW k \in Nat, k \in T PROVE k + 1 \in T
  <2> SUFFICES ASSUME (k + 1) + 1 <= Len(q) PROVE SubSeq(q, 1, (k + 1) + 1) \in walk[k + 1]
    OBVIOUS
  <2> DEFINE r == SubSeq(q, 1, k + 1)  n == q[(k + 1) + 1]
  <2>1. r \in walk[k]
    BY <1>1, <1>4
  <2>2. walk[k + 1] = UNION {Prolonged(path) : path \in walk[k]}
    <3>1. k + 1 \in 0 .. N /\ k + 1 # 0 /\ (k + 1) - 1 = k
      BY <1>1
    <3> QED BY <1>2, <3>1 DEF IsWalk
  <2>3. /\ Len(r) = k + 1 /\ \A i \in 1 .. k + 1 : r[i] = q[i]
        /\ SubSeq(q, 1, (k + 1) + 1) = Append(r, n)
    BY <1>1
  <2>4. n \in OwnersOf(Last(r))
    <3>1. <<q[k + 1], n>> \in Owning
      BY <1>1 DEF Linked
    <3>2. Last(r) = q[k + 1]
      BY <2>3 DEF Last
    <3> QED BY <3>1, <3>2, LinkedAreNouns
  <2>5. n \notin Range(r)
    <3>1. \A i \in 1 .. k + 1 : q[i] # n
      <4> SUFFICES ASSUME NEW i \in 1 .. k + 1, q[i] = n PROVE FALSE
        OBVIOUS
      <4>1. i \in 1 .. Len(q) /\ (k + 1) + 1 \in 1 .. Len(q) /\ i # (k + 1) + 1
        BY <1>1
      <4> QED BY <4>1 DEF Simple
    <3>2. DOMAIN r = 1 .. k + 1
      BY <1>1
    <3> HIDE DEF r, n
    <3> QED BY <2>3, <3>1, <3>2 DEF Range
  <2>6. Append(r, n) \in Prolonged(r)
    BY <2>4, <2>5 DEF Prolonged
  <2> HIDE DEF r, n
  <2> QED BY <2>1, <2>2, <2>3, <2>6
<1> HIDE DEF T
<1>5. Nat \subseteq T
  BY <1>3, <1>4, SetInduction
<1>6. PICK k \in 0 .. N : k \in Nat /\ k + 1 = Len(q)
  <2>1. Len(q) - 1 \in 0 .. N /\ (Len(q) - 1) + 1 = Len(q) /\ Len(q) - 1 \in Nat
    BY <1>1
  <2> QED BY <2>1
<1>7. SubSeq(q, 1, k + 1) \in walk[k]
  BY <1>1, <1>5, <1>6 DEF T
<1>8. SubSeq(q, 1, k + 1) = q
  BY <1>1, <1>6
<1> QED BY <1>2, <1>6, <1>7, <1>8 DEF start

\* What a path is, and that a line of nouns without repetition is one.
LEMMA PathsAre ==
  ASSUME IsFiniteSet(Owning), NEW start, NEW end, NEW p \in find_noun_path(start, end)
  PROVE  p \in Seq(NOUN_GRAPH) /\ Len(p) \in 2 .. Cardinality(NOUN_GRAPH) + 2
<1>1. start \in NOUN_GRAPH /\ end \in NOUN_GRAPH
  BY DEF find_noun_path
<1>2. PICK q \in Walks(start) : p = Append(q, end)
  BY <1>1 DEF find_noun_path
<1>3. Cardinality(NOUN_GRAPH) \in Nat
  BY GraphIsFinite
<1>4. PICK k \in 0 .. Cardinality(NOUN_GRAPH) : q \in Seq(NOUN_GRAPH) /\ Len(q) = k + 1
  BY <1>1, <1>2, WalksAre
<1>5. p \in Seq(NOUN_GRAPH) /\ Len(p) = Len(q) + 1
  BY <1>1, <1>2, <1>4
<1> QED BY <1>3, <1>4, <1>5

LEMMA PathFound ==
  ASSUME IsFiniteSet(Owning), NEW q \in Seq(NOUN_GRAPH), q # <<>>, Linked(q), Simple(q),
         NEW end, <<q[Len(q)], end>> \in Owning, \A i \in 1 .. Len(q) : q[i] # end
  PROVE  Append(q, end) \in find_noun_path(q[1], end)
<1>1. Len(q) \in Nat \ {0} /\ q[1] \in NOUN_GRAPH
  BY LenProperties, EmptySeq, ElementOfSeq
<1>2. end \in NOUN_GRAPH /\ end \in OwnersOf(Last(q))
  BY LinkedAreNouns DEF Last
<1>3. Reaches(q, end)
  BY <1>1, <1>2 DEF Reaches
<1>4. q \in Walks(q[1])
  BY WalksHave
<1>5. {q[1], end} \subseteq NOUN_GRAPH
  BY <1>1, <1>2
<1> QED BY <1>3, <1>4, <1>5 DEF find_noun_path

\* A noun that owns another is found by a path of the two.
LEMMA OwnersAreFound ==
  ASSUME IsFiniteSet(Owning), NEW m, NEW n, <<m, n>> \in Owning
  PROVE  is_owner_type(m, n)
<1>1. m \in NOUN_GRAPH /\ n \in NOUN_GRAPH /\ n \in OwnersOf(m)
  BY LinkedAreNouns
<1> DEFINE q == <<m>>
<1>2. q \in Seq(NOUN_GRAPH) /\ q # <<>> /\ Len(q) = 1 /\ q[1] = m
  BY <1>1
<1>3. Len(Append(q, n)) = 2
  BY <1>1, <1>2
<1> HIDE DEF q
<1>4. Linked(q) /\ Simple(q)
  BY <1>2 DEF Linked, Simple
<1>5. q \in Walks(m)
  BY <1>2, <1>4, WalksHave
<1>6. Reaches(q, n)
  BY <1>1, <1>2 DEF Reaches, Last
<1>7. Append(q, n) \in find_noun_path(m, n)
  BY <1>1, <1>5, <1>6 DEF find_noun_path
<1> QED BY <1>3, <1>7 DEF is_owner_type

-----------------------------------------------------------------------------
(* The query made of a set of paths.                                        *)

\* Along a path no step turns away its nouns, and the last one keeps what it meets.
Follows(sql, q) ==
  /\ sql # <<>> /\ Len(sql[1].steps) \in Nat
  /\ Len(q) - 1 \in 1 .. Len(sql[1].steps)
  /\ sql[1].steps[Len(q) - 1].named
  /\ \A i \in 1 .. Len(q) - 1 : sql[1].steps[i].named => q[i + 1] \in sql[1].steps[i].nouns

LEMMA SqlFollows ==
  ASSUME NEW M \in Nat, NEW paths, \A p \in paths : p \in Seq(NOUN_GRAPH) /\ Len(p) \in 2 .. M,
         NEW self \in BOOLEAN, NEW p \in paths
  PROVE  Sql(paths, self)[1].self = self /\ Follows(Sql(paths, self), p)
<1> DEFINE L == Lengths(paths)  steps == Steps(paths)
<1>1. L \subseteq Nat /\ Len(p) \in L /\ \A n \in L : n \in 2 .. M
  BY DEF Lengths
<1>2. Max(L) \in L /\ \A n \in L : n <= Max(L)
  <2> HIDE DEF L
  <2>1. L \subseteq Nat /\ L # {} /\ \A x \in L : x <= M
    BY <1>1
  <2> QED BY <2>1, Largest
<1>3. Min(L) \in L /\ \A n \in L : Min(L) <= n
  <2> HIDE DEF L
  <2> QED BY <1>1, Smallest
<1>4. steps = [i \in 1 .. Max(L) - 1 |-> Step(paths, i)]
  BY DEF Steps
<1>5. Len(p) \in 2 .. M /\ Len(p) <= Max(L) /\ Max(L) \in Nat /\ Min(L) \in Nat /\ Min(L) <= Len(p)
  BY <1>1, <1>2, <1>3
<1>6. Max(L) - 1 \in Nat /\ Len(steps) = Max(L) - 1
  BY <1>4, <1>5
<1>7. \A i \in 1 .. Max(L) - 1 : steps[i] = Step(paths, i)
  BY <1>4
<1>8. Len(p) - 1 \in 1 .. Max(L) - 1
  BY <1>5
<1>9. Step(paths, Len(p) - 1).named
  <2>1. Len(p) - 1 >= Min(L) - 1
    BY <1>5
  <2> QED BY <2>1 DEF Step
<1>10. ASSUME NEW i \in 1 .. Len(p) - 1, Step(paths, i).named
       PROVE  p[i + 1] \in Step(paths, i).nouns
  <2>1. Step(paths, i).nouns = At(paths, i)
    BY <1>10 DEF Step
  <2>2. Len(p) > i
    BY <1>5
  <2> QED BY <2>1, <2>2 DEF At
<1>11. Sql(paths, self) = <<[self |-> self, steps |-> steps]>>
  BY DEF Sql
<1> HIDE DEF steps, L
<1> DEFINE query == [self |-> self, steps |-> steps]
<1>12. query.self = self /\ query.steps = steps
  OBVIOUS
<1> HIDE DEF query
<1>13. Sql(paths, self) # <<>> /\ Sql(paths, self)[1] = query
  BY <1>11 DEF query
<1> QED BY <1>6, <1>7, <1>8, <1>9, <1>10, <1>12, <1>13 DEF Follows

LEMMA SqlIs ==
  ASSUME NEW M \in Nat, NEW paths, \A p \in paths : p \in Seq(NOUN_GRAPH) /\ Len(p) \in 2 .. M,
         NEW self \in BOOLEAN, Sql(paths, self) # <<>>
  PROVE  Sql(paths, self)[1].self = self /\ Len(Sql(paths, self)[1].steps) \in Nat
<1>1. CASE paths # {}
  <2>1. PICK p \in paths : TRUE
    BY <1>1
  <2> QED BY <2>1, SqlFollows DEF Follows
<1>2. CASE paths = {}
  <2> DEFINE none == <<>>  query == [self |-> self, steps |-> none]
  <2>1. Sql(paths, self) = <<query>>
    BY <1>2 DEF Sql, Steps
  <2>2. query.self = self /\ query.steps = none /\ Len(none) \in Nat
    OBVIOUS
  <2> HIDE DEF query, none
  <2>3. Sql(paths, self)[1] = query
    BY <2>1
  <2> QED BY <2>2, <2>3
<1> QED BY <1>1, <1>2

LEMMA SqlOfSelf ==
  ASSUME NEW paths
  PROVE  Sql(paths, TRUE) # <<>>
BY DEF Sql

IsMet(met, p, e, steps, near, n) ==
  met = [i \in 0 .. n |->
           IF i = 0 THEN {e}
           ELSE {c \in UNION {near[x] : x \in met[i - 1]} : steps[i].named => p.noun[c] \in steps[i].nouns}]

LEMMA MetExists ==
  ASSUME NEW p, NEW e, NEW steps, NEW near
  PROVE  \A n \in Nat : \E met : IsMet(met, p, e, steps, near, n)
<1> DEFINE T == {n \in Nat : \E met : IsMet(met, p, e, steps, near, n)}
           next(i, S) == {c \in UNION {near[x] : x \in S} : steps[i].named => p.noun[c] \in steps[i].nouns}
<1>1. 0 \in T
  <2>1. IsMet([i \in 0 .. 0 |-> {e}], p, e, steps, near, 0)
    BY DEF IsMet
  <2> QED BY <2>1
<1>2. ASSUME NEW n \in Nat, n \in T PROVE n + 1 \in T
  <2>1. PICK met : IsMet(met, p, e, steps, near, n)
    BY <1>2
  <2>2. \A k \in 0 .. n : met[k] = IF k = 0 THEN {e} ELSE next(k, met[k - 1])
    BY <2>1 DEF IsMet
  <2> DEFINE z == [k \in 0 .. n + 1 |-> IF k = n + 1 THEN next(n + 1, met[n]) ELSE met[k]]
  <2>3. z = [k \in 0 .. n + 1 |-> z[k]] /\ z[n + 1] = next(n + 1, met[n]) /\ \A k \in 0 .. n : z[k] = met[k]
    OBVIOUS
  <2> HIDE DEF z
  <2>4. ASSUME NEW k \in 0 .. n + 1
        PROVE  z[k] = IF k = 0 THEN {e} ELSE next(k, z[k - 1])
    <3>1. CASE k = n + 1
      <4>1. k # 0 /\ k - 1 = n /\ n \in 0 .. n
        BY <3>1
      <4>2. z[k - 1] = met[n] /\ z[k] = next(k, met[n])
        BY <2>3, <3>1, <4>1, Zenon
      <4> QED BY <4>1, <4>2, Zenon
    <3>2. CASE k # n + 1
      <4> HIDE DEF next
      <4>1. k \in 0 .. n /\ z[k] = met[k]
        BY <2>3, <3>2
      <4>2. k # 0 => k - 1 \in 0 .. n /\ z[k - 1] = met[k - 1]
        <5>1. k # 0 => k - 1 \in 0 .. n
          BY <4>1
        <5> QED BY <2>3, <5>1, Zenon
      <4>3. met[k] = IF k = 0 THEN {e} ELSE next(k, met[k - 1])
        BY <2>2, <4>1
      <4>4. ASSUME k # 0 PROVE next(k, met[k - 1]) = next(k, z[k - 1])
        <5>1. met[k - 1] = z[k - 1]
          BY <4>2, <4>4
        <5> QED BY <5>1, Zenon
      <4> QED BY <4>1, <4>3, <4>4, Zenon
    <3> QED BY <3>1, <3>2
  <2>5. IsMet(z, p, e, steps, near, n + 1)
    BY <2>3, <2>4 DEF IsMet
  <2> QED BY <2>5
<1> HIDE DEF T
<1>3. Nat \subseteq T
  BY <1>1, <1>2, SetInduction
<1> QED BY <1>3 DEF T

\* Step by step, what is met; and what is selected of it.
AreMet(met, p, e, sql, near) ==
  /\ met[0] = {e}
  /\ \A i \in 0 .. Len(sql.steps) : i + 1 <= Len(sql.steps) =>
       met[i + 1] = {c \in UNION {near[x] : x \in met[i]} :
                       sql.steps[i + 1].named => p.noun[c] \in sql.steps[i + 1].nouns}
  /\ Selected(p, e, sql, near) =
       (IF sql.self THEN {e} ELSE {})
         \union UNION {met[i] : i \in {j \in 1 .. Len(sql.steps) : sql.steps[j].named}}

LEMMA SelectedIs ==
  ASSUME NEW p, NEW e, NEW sql, NEW near, Len(sql.steps) \in Nat
  PROVE  \E met : AreMet(met, p, e, sql, near)
<1> DEFINE n == Len(sql.steps)
           met == CHOOSE m : IsMet(m, p, e, sql.steps, near, n)
<1>1. IsMet(met, p, e, sql.steps, near, n)
  BY MetExists
<1>2. Selected(p, e, sql, near) =
        (IF sql.self THEN {e} ELSE {}) \union UNION {met[i] : i \in {j \in 1 .. n : sql.steps[j].named}}
  BY DEF Selected, IsMet
<1> HIDE DEF met
<1>3. met[0] = {e}
  BY <1>1 DEF IsMet
<1>4. ASSUME NEW i \in 0 .. n, i + 1 <= n
      PROVE  met[i + 1] = {c \in UNION {near[x] : x \in met[i]} :
                             sql.steps[i + 1].named => p.noun[c] \in sql.steps[i + 1].nouns}
  <2>1. i + 1 \in 0 .. n /\ i + 1 # 0 /\ (i + 1) - 1 = i
    BY <1>4
  <2> QED BY <1>1, <2>1 DEF IsMet
<1>5. AreMet(met, p, e, sql, near)
  BY <1>2, <1>3, <1>4 DEF AreMet
<1> QED BY <1>5

\* What is met stays in a set that the relation does not leave.
LEMMA SelectedWithin ==
  ASSUME NEW p, NEW e, NEW sql, NEW near, Len(sql.steps) \in Nat,
         NEW S, e \in S, \A x \in S : near[x] \subseteq S
  PROVE  Selected(p, e, sql, near) \subseteq S
<1> DEFINE n == Len(sql.steps)
<1>1. PICK met : AreMet(met, p, e, sql, near)
  BY SelectedIs, Zenon
<1> HIDE DEF n
<1> DEFINE T == {i \in Nat : i <= n => met[i] \subseteq S}
<1>2. 0 \in T
  BY <1>1 DEF AreMet
<1>3. ASSUME NEW i \in Nat, i \in T PROVE i + 1 \in T
  <2> SUFFICES ASSUME i + 1 <= n, NEW c \in met[i + 1] PROVE c \in S
    OBVIOUS
  <2>1. i \in 0 .. n /\ met[i] \subseteq S
    BY <1>3 DEF n
  <2>2. c \in UNION {near[x] : x \in met[i]}
    BY <1>1, <2>1 DEF AreMet, n
  <2> QED BY <2>1, <2>2
<1> HIDE DEF T
<1>4. Nat \subseteq T
  BY <1>2, <1>3, SetInduction
<1>5. \A i \in 1 .. n : met[i] \subseteq S
  BY <1>4 DEF T, n
<1> QED BY <1>1, <1>5 DEF AreMet, n

\* A line of related elements is met, if no step turns their nouns away.
LEMMA LineIsMet ==
  ASSUME NEW p, NEW e, NEW sql, NEW near, Len(sql.steps) \in Nat,
         NEW k \in 1 .. Len(sql.steps), sql.steps[k].named, NEW y, y[0] = e,
         \A i \in 0 .. k : i + 1 <= k => y[i + 1] \in near[y[i]],
         \A i \in 1 .. k : sql.steps[i].named => p.noun[y[i]] \in sql.steps[i].nouns
  PROVE  y[k] \in Selected(p, e, sql, near)
<1> DEFINE n == Len(sql.steps)
<1>1. PICK met : AreMet(met, p, e, sql, near)
  BY SelectedIs, Zenon
<1> DEFINE T == {i \in Nat : i <= k => y[i] \in met[i]}
<1>2. 0 \in T
  BY <1>1 DEF AreMet
<1>3. ASSUME NEW i \in Nat, i \in T PROVE i + 1 \in T
  <2> SUFFICES ASSUME i + 1 <= k PROVE y[i + 1] \in met[i + 1]
    OBVIOUS
  <2>1. i \in 0 .. k /\ i + 1 \in 1 .. k /\ i \in 0 .. n /\ i + 1 <= n
    OBVIOUS
  <2>2. y[i] \in met[i] /\ y[i + 1] \in near[y[i]]
    BY <1>3, <2>1
  <2>3. sql.steps[i + 1].named => p.noun[y[i + 1]] \in sql.steps[i + 1].nouns
    BY <2>1
  <2>4. y[i + 1] \in UNION {near[x] : x \in met[i]}
    BY <2>2
  <2> QED BY <1>1, <2>1, <2>3, <2>4 DEF AreMet
<1> HIDE DEF T
<1>4. Nat \subseteq T
  BY <1>2, <1>3, SetInduction
<1>5. y[k] \in met[k] /\ k \in 1 .. n
  BY <1>4 DEF T
<1> QED BY <1>1, <1>5 DEF AreMet, n

LEMMA SelfIsSelected ==
  ASSUME NEW p, NEW e, NEW sql, NEW near, sql.self
  PROVE  e \in Selected(p, e, sql, near)
BY DEF Selected

-----------------------------------------------------------------------------
(* The lines of a plant.                                                    *)

\* Below an element that is not the top's owner there is none that is.
LEMMA LineIs ==
  ASSUME NEW p, IsPlant(p), NEW c \in DOMAIN p.owner, NEW k \in 0 .. c, Up(c, p)[k] # 0
  PROVE  /\ \A i \in 0 .. k : Up(c, p)[i] \in DOMAIN p.owner
         /\ \A i \in 0 .. k : i + 1 <= k =>
              /\ Up(c, p)[i + 1] = p.owner[Up(c, p)[i]]
              /\ <<p.noun[Up(c, p)[i]], p.noun[Up(c, p)[i + 1]]>> \in Owning
<1> DEFINE up == Up(c, p)
<1>1. c \in Nat /\ k \in Nat /\ k <= c
  BY DEF IsPlant
<1>2. /\ \A j \in 0 .. c : j + 1 <= c => up[j + 1] = IF up[j] = 0 THEN 0 ELSE p.owner[up[j]]
      /\ \A j \in 0 .. c : up[j] \in DOMAIN p.owner \union {0}
  BY UpIs
<1> HIDE DEF up
<1>3. ASSUME NEW i \in 0 .. k PROVE up[i] # 0
  <2> SUFFICES ASSUME up[i] = 0 PROVE FALSE
    OBVIOUS
  <2> DEFINE T == {j \in Nat : i + j <= k => up[i + j] = 0}
  <2>1. 0 \in T
    BY <1>1
  <2>2. ASSUME NEW j \in Nat, j \in T PROVE j + 1 \in T
    <3> SUFFICES ASSUME i + (j + 1) <= k PROVE up[i + (j + 1)] = 0
      OBVIOUS
    <3>1. i + j \in 0 .. c /\ (i + j) + 1 <= c /\ (i + j) + 1 = i + (j + 1) /\ i + j <= k
      BY <1>1
    <3>2. up[i + j] = 0
      BY <2>2, <3>1
    <3>3. up[(i + j) + 1] = 0
      BY <1>2, <3>1, <3>2
    <3> QED BY <3>1, <3>3
  <2> HIDE DEF T
  <2>3. Nat \subseteq T
    BY <2>1, <2>2, SetInduction
  <2>4. k - i \in Nat /\ i + (k - i) = k
    BY <1>1
  <2>5. up[k] = 0
    BY <1>1, <2>3, <2>4 DEF T
  <2> QED BY <2>5 DEF up
<1>4. \A i \in 0 .. k : up[i] \in DOMAIN p.owner /\ up[i] # 0
  <2> TAKE i \in 0 .. k
  <2>1. i \in 0 .. c
    BY <1>1
  <2> QED BY <1>2, <1>3, <2>1
<1>5. ASSUME NEW i \in 0 .. k, i + 1 <= k
      PROVE  /\ up[i + 1] = p.owner[up[i]]
             /\ <<p.noun[up[i]], p.noun[up[i + 1]]>> \in Owning
  <2>1. i \in 0 .. c /\ i + 1 <= c /\ i + 1 \in 0 .. k
    BY <1>1, <1>5
  <2>2. up[i + 1] = p.owner[up[i]] /\ up[i + 1] # 0 /\ up[i] \in DOMAIN p.owner
    BY <1>2, <1>4, <2>1
  <2>3. <<p.noun[up[i]], p.noun[p.owner[up[i]]]>> \in Owning
    BY <2>2 DEF IsPlant
  <2> QED BY <2>2, <2>3
<1> QED BY <1>4, <1>5 DEF up

\* The nouns of a line that repeats none are a path of the graph.
Nouns(c, p, k) == [i \in 1 .. k + 1 |-> p.noun[Up(c, p)[i - 1]]]

LEMMA LineIsAPath ==
  ASSUME IsFiniteSet(Owning), NEW p, IsPlant(p), NEW c \in DOMAIN p.owner,
         NEW k \in 0 .. c, k # 0, Up(c, p)[k] # 0,
         \A i, j \in 0 .. k : p.noun[Up(c, p)[i]] = p.noun[Up(c, p)[j]] => i = j
  PROVE  Nouns(c, p, k) \in find_noun_path(p.noun[c], p.noun[Up(c, p)[k]])
<1> DEFINE up == Up(c, p)  q == [i \in 1 .. k |-> p.noun[up[i - 1]]]  end == p.noun[up[k]]
<1>1. c \in Nat /\ k \in Nat \ {0} /\ up[0] = c
  BY UpIs DEF IsPlant
<1>2. \A i \in 0 .. k : i + 1 <= k => <<p.noun[up[i]], p.noun[up[i + 1]]>> \in Owning
  BY LineIs
<1>3. \A i, j \in 0 .. k : p.noun[up[i]] = p.noun[up[j]] => i = j
  OBVIOUS
<1> HIDE DEF up
<1>4. \A i \in 1 .. k : q[i] = p.noun[up[i - 1]] /\ q[i] \in NOUN_GRAPH
  <2> TAKE i \in 1 .. k
  <2>1. i - 1 \in 0 .. k /\ (i - 1) + 1 <= k /\ (i - 1) + 1 = i
    BY <1>1
  <2>2. <<p.noun[up[i - 1]], p.noun[up[i]]>> \in Owning
    BY <1>2, <2>1
  <2> QED BY <2>2, LinkedAreNouns
<1>5. q \in Seq(NOUN_GRAPH) /\ Len(q) = k /\ q # <<>>
  <2>1. q = [i \in 1 .. k |-> q[i]]
    OBVIOUS
  <2> HIDE DEF q
  <2>2. q \in [1 .. k -> NOUN_GRAPH]
    BY <1>4, <2>1
  <2>3. q \in Seq(NOUN_GRAPH) /\ Len(q) = k
    BY <1>1, <2>2
  <2> QED BY <1>1, <2>3
<1>6. Nouns(c, p, k) = Append(q, end)
  <2>1. Append(q, end) = [i \in 1 .. k + 1 |-> IF i = k + 1 THEN end ELSE q[i]]
    BY <1>1, <1>5
  <2>2. \A i \in 1 .. k + 1 : p.noun[up[i - 1]] = IF i = k + 1 THEN end ELSE q[i]
    BY <1>1, <1>4
  <2> HIDE DEF q, end
  <2> QED BY <2>1, <2>2 DEF Nouns, up
<1>7. Linked(q)
  <2> SUFFICES ASSUME NEW i \in 1 .. k, i + 1 <= k PROVE <<q[i], q[i + 1]>> \in Owning
    BY <1>5 DEF Linked
  <2>1. i - 1 \in 0 .. k /\ (i - 1) + 1 <= k /\ (i - 1) + 1 = i /\ i + 1 \in 1 .. k /\ (i + 1) - 1 = i
    BY <1>1
  <2>2. <<p.noun[up[i - 1]], p.noun[up[i]]>> \in Owning
    BY <1>2, <2>1
  <2>3. q[i] = p.noun[up[i - 1]] /\ q[i + 1] = p.noun[up[i]]
    BY <1>4, <2>1
  <2> QED BY <2>2, <2>3
<1>8. Simple(q)
  <2> SUFFICES ASSUME NEW i \in 1 .. k, NEW j \in 1 .. k, q[i] = q[j] PROVE i = j
    BY <1>5 DEF Simple
  <2>1. i - 1 \in 0 .. k /\ j - 1 \in 0 .. k
    BY <1>1
  <2>2. p.noun[up[i - 1]] = p.noun[up[j - 1]]
    BY <1>4
  <2>3. i - 1 = j - 1
    BY <1>3, <2>1, <2>2
  <2> QED BY <2>3
<1>9. <<q[Len(q)], end>> \in Owning
  <2>1. k - 1 \in 0 .. k /\ (k - 1) + 1 <= k /\ (k - 1) + 1 = k /\ k \in 1 .. k
    BY <1>1
  <2>2. <<p.noun[up[k - 1]], p.noun[up[k]]>> \in Owning
    BY <1>2, <2>1
  <2>3. q[Len(q)] = p.noun[up[k - 1]]
    BY <1>4, <1>5, <2>1
  <2> QED BY <2>2, <2>3
<1>10. \A i \in 1 .. Len(q) : q[i] # end
  <2> SUFFICES ASSUME NEW i \in 1 .. k, q[i] = end PROVE FALSE
    BY <1>5
  <2>1. i - 1 \in 0 .. k /\ k \in 0 .. k /\ i - 1 # k
    BY <1>1
  <2>2. p.noun[up[i - 1]] = p.noun[up[k]]
    BY <1>4
  <2> QED BY <1>3, <2>1, <2>2
<1>11. q[1] = p.noun[c]
  BY <1>1, <1>4
<1> HIDE DEF q, end
<1>12. Append(q, end) \in find_noun_path(q[1], end)
  BY <1>5, <1>7, <1>8, <1>9, <1>10, PathFound
<1> QED BY <1>6, <1>11, <1>12 DEF end, up

-----------------------------------------------------------------------------
(* What is asked for, from an element down and up.                          *)

DownPaths(noun, nouns) == {Reverse(p) : p \in UNION {find_noun_path(n, noun) : n \in nouns}}
UpPaths(noun, nouns) == UNION {find_noun_path(noun, n) : n \in nouns}

LEMMA QueriesAreOfPaths ==
  ASSUME IsFiniteSet(Owning), NEW noun, NEW nouns
  PROVE  /\ Cardinality(NOUN_GRAPH) + 2 \in Nat
         /\ \A q \in UpPaths(noun, nouns) :
              q \in Seq(NOUN_GRAPH) /\ Len(q) \in 2 .. Cardinality(NOUN_GRAPH) + 2
         /\ \A q \in DownPaths(noun, nouns) :
              q \in Seq(NOUN_GRAPH) /\ Len(q) \in 2 .. Cardinality(NOUN_GRAPH) + 2
<1>1. Cardinality(NOUN_GRAPH) + 2 \in Nat
  BY GraphIsFinite
<1>2. ASSUME NEW q \in UpPaths(noun, nouns)
      PROVE  q \in Seq(NOUN_GRAPH) /\ Len(q) \in 2 .. Cardinality(NOUN_GRAPH) + 2
  BY PathsAre DEF UpPaths
<1>3. ASSUME NEW q \in DownPaths(noun, nouns)
      PROVE  q \in Seq(NOUN_GRAPH) /\ Len(q) \in 2 .. Cardinality(NOUN_GRAPH) + 2
  <2>1. PICK n \in nouns : \E r \in find_noun_path(n, noun) : q = Reverse(r)
    BY DEF DownPaths
  <2> PICK r \in find_noun_path(n, noun) : q = Reverse(r)
    BY <2>1
  <2>2. r \in Seq(NOUN_GRAPH) /\ Len(r) \in 2 .. Cardinality(NOUN_GRAPH) + 2
    BY PathsAre
  <2>3. Reverse(r) \in Seq(NOUN_GRAPH) /\ Len(Reverse(r)) = Len(r)
    <3>1. \A i \in 1 .. Len(r) : r[(Len(r) - i) + 1] \in NOUN_GRAPH
      BY <2>2
    <3> QED BY <2>2, <3>1 DEF Reverse
  <2> QED BY <2>2, <2>3
<1> QED BY <1>1, <1>2, <1>3

\* What is found lies below.
LEMMA OnlyBelow ==
  ASSUME IsFiniteSet(Owning), NEW p, IsPlant(p), NEW e \in DOMAIN p.owner, NEW nouns,
         NEW c \in query_filter_deep_children_by_path(p, e, nouns)
  PROVE  c \in DOMAIN p.owner /\ e \in Above(c, p) /\ p.noun[c] \in nouns
<1> DEFINE sql == Sql(DownPaths(p.noun[e], nouns), p.noun[e] \in nouns)
           near == [x \in DOMAIN p.owner |-> ChildrenOf(p, x)]
           S == {x \in DOMAIN p.owner : e \in Above(x, p)}
<1>1. sql # <<>> /\ c \in Selected(p, e, sql[1], near) /\ p.noun[c] \in nouns
  BY DEF query_filter_deep_children_by_path, gen_noun_incoming_relate_sql, DownPaths
<1>2. Len(sql[1].steps) \in Nat
  BY <1>1, QueriesAreOfPaths, SqlIs
<1>3. e \in S
  BY OwnerIsAbove
<1>4. ASSUME NEW x \in S PROVE near[x] \subseteq S
  <2> SUFFICES ASSUME NEW y \in DOMAIN p.owner, p.owner[y] = x PROVE e \in Above(y, p)
    BY DEF ChildrenOf
  <2>1. x # 0
    BY DEF IsPlant
  <2> QED BY <2>1, OwnerIsAbove
<1> HIDE DEF sql, near, S
<1>5. Selected(p, e, sql[1], near) \subseteq S
  BY <1>2, <1>3, <1>4, SelectedWithin
<1> QED BY <1>1, <1>5 DEF S

\* What is found lies above.
LEMMA OnlyAbove ==
  ASSUME IsFiniteSet(Owning), NEW p, IsPlant(p), NEW e \in DOMAIN p.owner, NEW nouns,
         NEW c \in owners_by_path(p, e, nouns)
  PROVE  c \in Above(e, p) /\ p.noun[c] \in nouns
<1> DEFINE sql == Sql(UpPaths(p.noun[e], nouns), p.noun[e] \in nouns)
           near == [x \in DOMAIN p.owner |-> OwnerOf(p, x)]
           S == Above(e, p)
<1>1. sql # <<>> /\ c \in Selected(p, e, sql[1], near) /\ p.noun[c] \in nouns
  BY DEF owners_by_path, gen_noun_outcoming_relate_sql, UpPaths
<1>2. Len(sql[1].steps) \in Nat
  BY <1>1, QueriesAreOfPaths, SqlIs
<1>3. e \in S
  BY OwnerIsAbove
<1>4. ASSUME NEW x \in S PROVE near[x] \subseteq S
  <2>1. x \in DOMAIN p.owner /\ (p.owner[x] # 0 => p.owner[x] \in Above(e, p))
    BY AboveGoesOn
  <2> QED BY <2>1 DEF OwnerOf
<1> HIDE DEF sql, near, S
<1>5. Selected(p, e, sql[1], near) \subseteq S
  BY <1>2, <1>3, <1>4, SelectedWithin
<1> QED BY <1>1, <1>5 DEF S

\* An element of a noun asked for is found, if the nouns from it up differ.
LEMMA AllBelow ==
  ASSUME IsFiniteSet(Owning), NEW p, IsPlant(p), NEW e \in DOMAIN p.owner, NEW nouns,
         NEW c \in DOMAIN p.owner, Unrepeated(c, e, p), p.noun[c] \in nouns
  PROVE  c \in query_filter_deep_children_by_path(p, e, nouns)
<1> DEFINE sql == Sql(DownPaths(p.noun[e], nouns), p.noun[e] \in nouns)
           near == [x \in DOMAIN p.owner |-> ChildrenOf(p, x)]
           up == Up(c, p)
<1> SUFFICES sql # <<>> /\ c \in Selected(p, e, sql[1], near)
  BY DEF query_filter_deep_children_by_path, gen_noun_incoming_relate_sql, DownPaths
<1>1. PICK k \in 0 .. c : /\ up[k] = e
                          /\ \A i, j \in 0 .. k : p.noun[up[i]] = p.noun[up[j]] => i = j
  BY DEF Unrepeated
<1>2. c \in Nat /\ k \in Nat /\ k <= c /\ up[0] = c /\ e # 0
  <2>1. c \in Nat /\ e # 0
    BY DEF IsPlant
  <2>2. up[0] = c
    BY UpIs
  <2> HIDE DEF up, sql, near
  <2> QED BY <2>1, <2>2
<1>3. CASE k = 0
  <2>1. c = e
    BY <1>1, <1>2, <1>3
  <2>2. (p.noun[e] \in nouns) = TRUE
    BY <2>1
  <2>3. sql # <<>>
    BY <2>2, SqlOfSelf
  <2>4. sql[1].self
    BY <2>2, <2>3, QueriesAreOfPaths, SqlIs
  <2> HIDE DEF sql, near
  <2> QED BY <2>1, <2>3, <2>4, SelfIsSelected
<1>4. CASE k # 0
  <2> DEFINE r == Nouns(c, p, k)  q == Reverse(r)
             y == [i \in 0 .. k |-> up[k - i]]
  <2>1. /\ \A i \in 0 .. k : up[i] \in DOMAIN p.owner
        /\ \A i \in 0 .. k : i + 1 <= k => up[i + 1] = p.owner[up[i]]
    <3>1. Up(c, p)[k] # 0
      BY <1>1, <1>2
    <3> HIDE DEF up
    <3> QED BY <3>1, LineIs DEF up
  <2>2. r \in find_noun_path(p.noun[c], p.noun[e])
    BY <1>1, <1>2, <1>4, LineIsAPath
  <2>3. q \in DownPaths(p.noun[e], nouns)
    BY <2>2 DEF DownPaths
  <2>4. Len(q) = k + 1 /\ \A i \in 0 .. k : q[i + 1] = p.noun[up[k - i]]
    <3>1. Len(r) = k + 1 /\ \A i \in 1 .. k + 1 : r[i] = p.noun[up[i - 1]]
      BY <1>2 DEF Nouns
    <3> HIDE DEF r, up
    <3>2. q = [i \in 1 .. k + 1 |-> r[((k + 1) - i) + 1]]
      BY <3>1 DEF Reverse
    <3>3. Len(q) = k + 1
      BY <1>2, <3>2
    <3>4. ASSUME NEW i \in 0 .. k PROVE q[i + 1] = p.noun[up[k - i]]
      <4>1. i + 1 \in 1 .. k + 1 /\ ((k + 1) - (i + 1)) + 1 = (k - i) + 1
        BY <1>2
      <4>2. (k - i) + 1 \in 1 .. k + 1 /\ ((k - i) + 1) - 1 = k - i
        BY <1>2
      <4>3. q[i + 1] = r[(k - i) + 1]
        BY <3>2, <4>1
      <4> QED BY <3>1, <4>2, <4>3
    <3> QED BY <3>3, <3>4
  <2> HIDE DEF q, r
  <2>5. /\ sql # <<>> /\ Len(sql[1].steps) \in Nat
        /\ k \in 1 .. Len(sql[1].steps)
        /\ sql[1].steps[k].named
        /\ \A i \in 1 .. k : sql[1].steps[i].named => q[i + 1] \in sql[1].steps[i].nouns
    <3>1. Len(q) - 1 = k
      BY <1>2, <2>4
    <3> DEFINE paths == DownPaths(p.noun[e], nouns)  self == p.noun[e] \in nouns
               M == Cardinality(NOUN_GRAPH) + 2
    <3>2. M \in Nat /\ \A x \in paths : x \in Seq(NOUN_GRAPH) /\ Len(x) \in 2 .. M
      BY QueriesAreOfPaths
    <3>3. q \in paths /\ self \in BOOLEAN
      BY <2>3
    <3>4. sql = Sql(paths, self)
      OBVIOUS
    <3> HIDE DEF paths, self, M, sql
    <3>5. Follows(Sql(paths, self), q)
      BY <3>2, <3>3, SqlFollows
    <3>6. Follows(sql, q)
      BY <3>4, <3>5
    <3> QED BY <3>1, <3>6 DEF Follows
  <2>6. y[0] = e /\ y[k] = c
    BY <1>1, <1>2
  <2>7. ASSUME NEW i \in 0 .. k, i + 1 <= k PROVE y[i + 1] \in near[y[i]]
    <3>1. k - i \in 0 .. k /\ k - (i + 1) \in 0 .. k /\ (k - (i + 1)) + 1 = k - i /\ (k - (i + 1)) + 1 <= k
      BY <1>2, <2>7
    <3>2. y[i] = up[k - i] /\ y[i + 1] = up[k - (i + 1)]
      BY <1>2, <2>7
    <3> HIDE DEF up, y
    <3>3. y[i] \in DOMAIN p.owner /\ y[i + 1] \in DOMAIN p.owner
      BY <2>1, <3>1, <3>2
    <3>4. p.owner[y[i + 1]] = y[i]
      BY <2>1, <3>1, <3>2
    <3> QED BY <3>3, <3>4 DEF ChildrenOf
  <2>8. ASSUME NEW i \in 1 .. k, sql[1].steps[i].named PROVE p.noun[y[i]] \in sql[1].steps[i].nouns
    <3>1. i \in 0 .. k /\ y[i] = up[k - i]
      BY <1>2
    <3> HIDE DEF sql, up, y
    <3> QED BY <2>4, <2>5, <2>8, <3>1
  <2> HIDE DEF sql, near, y
  <2>9. y[k] \in Selected(p, e, sql[1], near)
    BY <2>5, <2>6, <2>7, <2>8, LineIsMet
  <2> QED BY <2>5, <2>6, <2>9
<1> QED BY <1>3, <1>4

LEMMA AllAbove ==
  ASSUME IsFiniteSet(Owning), NEW p, IsPlant(p), NEW e \in DOMAIN p.owner, NEW nouns,
         NEW o \in Above(e, p), Unrepeated(e, o, p), p.noun[o] \in nouns
  PROVE  o \in owners_by_path(p, e, nouns)
<1> DEFINE sql == Sql(UpPaths(p.noun[e], nouns), p.noun[e] \in nouns)
           near == [x \in DOMAIN p.owner |-> OwnerOf(p, x)]
           up == Up(e, p)
<1> SUFFICES sql # <<>> /\ o \in Selected(p, e, sql[1], near)
  BY DEF owners_by_path, gen_noun_outcoming_relate_sql, UpPaths
<1>1. PICK k \in 0 .. e : /\ up[k] = o
                          /\ \A i, j \in 0 .. k : p.noun[up[i]] = p.noun[up[j]] => i = j
  BY DEF Unrepeated
<1>2. e \in Nat /\ k \in Nat /\ k <= e /\ up[0] = e /\ o # 0
  <2>1. e \in Nat /\ o # 0
    BY DEF IsPlant, Above
  <2>2. up[0] = e
    BY UpIs
  <2> HIDE DEF up, sql, near
  <2> QED BY <2>1, <2>2
<1>3. CASE k = 0
  <2>1. o = e
    BY <1>1, <1>2, <1>3
  <2>2. (p.noun[e] \in nouns) = TRUE
    BY <2>1
  <2>3. sql # <<>>
    BY <2>2, SqlOfSelf
  <2>4. sql[1].self
    BY <2>2, <2>3, QueriesAreOfPaths, SqlIs
  <2> HIDE DEF sql, near
  <2> QED BY <2>1, <2>3, <2>4, SelfIsSelected
<1>4. CASE k # 0
  <2> DEFINE q == Nouns(e, p, k)
  <2>1. /\ \A i \in 0 .. k : up[i] \in DOMAIN p.owner
        /\ \A i \in 0 .. k : i + 1 <= k => up[i + 1] = p.owner[up[i]]
    <3>1. Up(e, p)[k] # 0
      BY <1>1, <1>2
    <3> HIDE DEF up
    <3> QED BY <3>1, LineIs DEF up
  <2>2. q \in find_noun_path(p.noun[e], p.noun[o])
    BY <1>1, <1>2, <1>4, LineIsAPath
  <2>3. q \in UpPaths(p.noun[e], nouns)
    BY <2>2 DEF UpPaths
  <2>4. Len(q) = k + 1 /\ \A i \in 0 .. k : q[i + 1] = p.noun[up[i]]
    <3>1. q = [i \in 1 .. k + 1 |-> p.noun[up[i - 1]]]
      BY DEF Nouns
    <3> HIDE DEF q, up
    <3>2. \A i \in 0 .. k : i + 1 \in 1 .. k + 1 /\ (i + 1) - 1 = i
      BY <1>2
    <3> QED BY <1>2, <3>1, <3>2
  <2> HIDE DEF q
  <2>5. /\ sql # <<>> /\ Len(sql[1].steps) \in Nat
        /\ k \in 1 .. Len(sql[1].steps)
        /\ sql[1].steps[k].named
        /\ \A i \in 1 .. k : sql[1].steps[i].named => q[i + 1] \in sql[1].steps[i].nouns
    <3>1. Len(q) - 1 = k
      BY <1>2, <2>4
    <3> DEFINE paths == UpPaths(p.noun[e], nouns)  self == p.noun[e] \in nouns
               M == Cardinality(NOUN_GRAPH) + 2
    <3>2. M \in Nat /\ \A x \in paths : x \in Seq(NOUN_GRAPH) /\ Len(x) \in 2 .. M
      BY QueriesAreOfPaths
    <3>3. q \in paths /\ self \in BOOLEAN
      BY <2>3
    <3>4. sql = Sql(paths, self)
      OBVIOUS
    <3> HIDE DEF paths, self, M, sql
    <3>5. Follows(Sql(paths, self), q)
      BY <3>2, <3>3, SqlFollows
    <3>6. Follows(sql, q)
      BY <3>4, <3>5
    <3> QED BY <3>1, <3>6 DEF Follows
  <2> HIDE DEF up
  <2>6. ASSUME NEW i \in 0 .. k, i + 1 <= k PROVE up[i + 1] \in near[up[i]]
    <3>1. i + 1 \in 0 .. k /\ up[i] \in DOMAIN p.owner /\ up[i + 1] \in DOMAIN p.owner
      BY <1>2, <2>1, <2>6
    <3>2. up[i + 1] = p.owner[up[i]] /\ up[i + 1] # 0
      BY <2>1, <2>6, <3>1 DEF IsPlant
    <3> QED BY <3>1, <3>2 DEF OwnerOf
  <2>7. ASSUME NEW i \in 1 .. k, sql[1].steps[i].named PROVE p.noun[up[i]] \in sql[1].steps[i].nouns
    <3>1. i \in 0 .. k
      BY <1>2
    <3> HIDE DEF sql
    <3> QED BY <2>4, <2>5, <2>7, <3>1
  <2> HIDE DEF sql, near
  <2>8. up[k] \in Selected(p, e, sql[1], near)
    BY <1>2, <2>5, <2>6, <2>7, LineIsMet
  <2> QED BY <1>1, <2>5, <2>8
<1> QED BY <1>3, <1>4

LEMMA OwnerIsFound ==
  ASSUME IsFiniteSet(Owning), NEW p, IsPlant(p), NEW e \in DOMAIN p.owner
  PROVE  {o \in OwnerOf(p, e) : is_owner_type(p.noun[e], p.noun[o])} = OwnerOf(p, e)
<1> SUFFICES ASSUME NEW o \in OwnerOf(p, e) PROVE is_owner_type(p.noun[e], p.noun[o])
  OBVIOUS
<1>1. o = p.owner[e] /\ p.owner[e] # 0
  BY DEF OwnerOf
<1>2. <<p.noun[e], p.noun[p.owner[e]]>> \in Owning
  BY <1>1 DEF IsPlant
<1> QED BY <1>1, <1>2, OwnersAreFound

-----------------------------------------------------------------------------
(* A query by the paths of the noun graph finds only relatives of the nouns *)
(* asked for, and all of those whose line of owners repeats no noun: for    *)
(* any graph and any plant it allows (rs_surreal/graph.rs, noun_graph.rs).  *)
NounInv == plant \in Plants /\ RelativesAreFound

THEOREM RelativesAreAlwaysFound == NounSpec => []RelativesAreFound
<1>1. NounInit => NounInv
  BY DEF NounInit, NounInv, RelativesAreFound
<1>2. NounInv /\ [NounNext]_nounVars => NounInv'
  <2> SUFFICES ASSUME NounInv, [NounNext]_nounVars PROVE NounInv'
    OBVIOUS
  <2>1. CASE UNCHANGED nounVars
    BY <2>1 DEF NounInv, nounVars, RelativesAreFound, Above, Unrepeated
  <2>2. CASE NounNext
    <3>1. PICK e \in DOMAIN plant.owner, nouns \in Filters : Ask(e, nouns)
      BY <2>2 DEF NounNext
    <3>2. IsFiniteSet(Owning) /\ IsPlant(plant) /\ plant \in Plants /\ plant' = plant
      BY <3>1, PlantsAssumption DEF NounInv, Ask
    <3>3. /\ answer'.of = e /\ answer'.nouns = nouns
          /\ answer'.down = query_filter_deep_children_by_path(plant, e, nouns)
          /\ answer'.up = owners_by_path(plant, e, nouns)
          /\ answer'.owned = {o \in OwnerOf(plant, e) : is_owner_type(plant.noun[e], plant.noun[o])}
      BY <3>1 DEF Ask
    <3> DEFINE below == {c \in DOMAIN plant.owner : e \in Above(c, plant) /\ plant.noun[c] \in nouns}
               above == {o \in Above(e, plant) : plant.noun[o] \in nouns}
    <3>4. answer'.down \subseteq below
      BY <3>2, <3>3, OnlyBelow
    <3>5. {c \in below : Unrepeated(c, e, plant)} \subseteq answer'.down
      BY <3>2, <3>3, AllBelow
    <3>6. answer'.up \subseteq above
      BY <3>2, <3>3, OnlyAbove
    <3>7. {o \in above : Unrepeated(e, o, plant)} \subseteq answer'.up
      BY <3>2, <3>3, AllAbove
    <3>8. answer'.owned = OwnerOf(plant, e)
      BY <3>2, <3>3, OwnerIsFound
    <3>9. RelativesAreFound'
      BY <3>2, <3>3, <3>4, <3>5, <3>6, <3>7, <3>8 DEF RelativesAreFound
    <3> QED BY <3>2, <3>9 DEF NounInv
  <2> QED BY <2>1, <2>2
<1>3. NounInv => RelativesAreFound
  BY DEF NounInv
<1> QED BY <1>1, <1>2, <1>3, PTL DEF NounSpec

====
