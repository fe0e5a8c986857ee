----------------------- MODULE CacheInvalidation_proofs -----------------------
(***************************************************************************)
(* What holds of the caches for any elements, requests, readers and number  *)
(* of changes: types, that the batch of changed elements and owners is      *)
(* enough for the caches keyed by what they are read from, and that a world *)
(* transform is wrong only with an excuse.                                  *)
(***************************************************************************)
EXTENDS CacheInvalidation, TLAPS

-----------------------------------------------------------------------------
(* Types *)

RowOf == Refnos \X Nat \X (Refnos \union {None})
NounOrNone == {Noun[e] : e \in Refnos} \union {None}
Values == RowOf \union (NounOrNone \X NounOrNone) \union (SUBSET Refnos) \union (SUBSET RowOf)
Worlds == [up : SUBSET RowOf, joint : SUBSET Values]

Calls == [stage : {"none", "query", "store"}, fn : Caches \union {"none"},
          key : Refnos \union {None}, value : Values, flaws : SUBSET Flaws]
FoldStages == {"none", "mat4", "attmaps", "refnos", "joint", "keep_mat4", "keep_transform"}
Folds == [stage : FoldStages, key : Refnos \union {None}, up : SUBSET RowOf,
          value : Values \union Worlds, flaws : SUBSET Flaws]
Entries == [value : Values \union Worlds, flaws : SUBSET Flaws]

CallOK(r) == r.stage # "none" => r.fn \in Caches /\ r.key \in Refnos
FoldOK(f) ==
  /\ f.stage # "none" => f.key \in Refnos
  /\ f.stage = "joint" => Ref[f.key] # None

ReadersOK ==
  /\ call \in [Readers -> Calls]
  /\ fold \in [Readers -> Folds]
  /\ \A t \in Readers : CallOK(call[t]) /\ FoldOK(fold[t])
CachesOK ==
  /\ cache \in [AllCaches -> [Refnos -> SUBSET Entries]]
  /\ \A c \in Caches, k \in Refnos : \A x \in cache[c][k] : x.value \in Values
WriterOK ==
  /\ owner \in [Refnos -> Refnos \union {None}]
  /\ attr \in [Refnos -> Nat]
  /\ updates \in Nat
  /\ dirty \subseteq Refnos
  /\ clearing \subseteq Refnos
  /\ todo \subseteq AllCaches

TypeInv == ReadersOK /\ CachesOK /\ WriterOK

LEMMA LeafCaches ==
  /\ "QUERY_ANCESTOR_REFNOS" \in Caches
  /\ "GET_NAMED_ATTMAP" \in Caches
  /\ Caches \intersect WorldCaches = {}
  /\ Caches \subseteq AllCaches
  /\ WorldCaches \subseteq AllCaches
<1>1. Caches \intersect WorldCaches = {}
  BY CachesAssumption DEF WorldCaches, Covered, OwnRow, MemberLists, MemberRows, Referred
<1> QED
  BY <1>1, CachesAssumption DEF AllCaches

LEMMA NothingType == NoCall \in Calls /\ NoFold \in Folds
<1>1. {} \in SUBSET Refnos /\ {} \in SUBSET RowOf /\ {} \in SUBSET Values /\ {} \in SUBSET Flaws
  OBVIOUS
<1>2. {} \in Values
  BY <1>1 DEF Values
<1>3. NoWorld \in Worlds
  BY <1>1 DEF NoWorld, Worlds
<1>4. NoCall \in Calls
  BY <1>1, <1>2 DEF NoCall, Calls
<1>5. NoFold \in Folds
  BY <1>1, <1>3 DEF NoFold, Folds, FoldStages
<1> QED
  BY <1>4, <1>5

LEMMA RowType ==
  ASSUME WriterOK, NEW e \in Refnos
  PROVE  Row(e) \in RowOf
BY DEF WriterOK, Row, RowOf

LEMMA RowsType ==
  ASSUME WriterOK, NEW k \in Refnos
  PROVE  Rows(k) \in SUBSET RowOf
BY RowType DEF Rows, Up

\* The answer of the database has the type of a leaf's value.
LEMMA ValueType ==
  ASSUME WriterOK, NEW c \in Caches, NEW k \in Refnos
  PROVE  Value(c, k) \in Values
<1>1. Row(k) \in RowOf /\ (Ref[k] # None => Row(Ref[k]) \in RowOf)
  BY RowType, ElementsAssumption
<1>2. <<Noun[k], OwnerNoun(k)>> \in NounOrNone \X NounOrNone
  BY DEF OwnerNoun, NounOrNone, WriterOK
<1>3. Members(k) \in SUBSET Refnos /\ Up(k) \in SUBSET Refnos /\ Under(k) \in SUBSET Refnos
  BY DEF Members, Up, Under
<1>4. {Row(e) : e \in Members(k)} \in SUBSET RowOf
  BY RowType DEF Members
<1>5. \/ Value(c, k) \in RowOf
      \/ Value(c, k) \in NounOrNone \X NounOrNone
      \/ Value(c, k) \in SUBSET Refnos
      \/ Value(c, k) \in SUBSET RowOf
  BY <1>1, <1>2, <1>3, <1>4 DEF Value
<1> QED
  BY <1>5 DEF Values

LEMMA InitType == Init => TypeInv
<1> SUFFICES ASSUME Init PROVE TypeInv
  OBVIOUS
<1>1. \A t \in Readers : call[t] = NoCall /\ fold[t] = NoFold
  BY DEF Init
<1>2. ReadersOK
  BY <1>1, NothingType DEF Init, ReadersOK, CallOK, FoldOK, NoCall, NoFold
<1>3. CachesOK
  BY LeafCaches DEF Init, CachesOK
<1>4. WriterOK
  BY ElementsAssumption DEF Init, WriterOK
<1> QED
  BY <1>2, <1>3, <1>4 DEF TypeInv

LEMMA TypeInvOK == TypeInv => TypeOK
<1> SUFFICES ASSUME TypeInv PROVE TypeOK
  OBVIOUS
<1>1. \A t \in Readers : call[t].stage \in {"none", "query", "store"} /\ fold[t].stage \in FoldStages
  BY DEF TypeInv, ReadersOK, Calls, Folds
<1> QED
  BY <1>1 DEF TypeInv, TypeOK, ReadersOK, WriterOK, CallOK, FoldOK, FoldStages

LEMMA SetCall ==
  ASSUME ReadersOK, NEW t \in Readers, NEW r \in Calls, CallOK(r),
         call' = [call EXCEPT ![t] = r]
  PROVE  call' \in [Readers -> Calls] /\ \A s \in Readers : CallOK(call'[s])
<1>1. \A s \in Readers : call'[s] = IF s = t THEN r ELSE call[s]
  BY DEF ReadersOK
<1> QED
  BY <1>1 DEF ReadersOK

LEMMA SetFold ==
  ASSUME ReadersOK, NEW t \in Readers, NEW f \in Folds, FoldOK(f),
         fold' = [fold EXCEPT ![t] = f]
  PROVE  fold' \in [Readers -> Folds] /\ \A s \in Readers : FoldOK(fold'[s])
<1>1. \A s \in Readers : fold'[s] = IF s = t THEN f ELSE fold[s]
  BY DEF ReadersOK
<1> QED
  BY <1>1 DEF ReadersOK

LEMMA SetEntry ==
  ASSUME CachesOK, NEW c \in AllCaches, NEW k \in Refnos, NEW x \in Entries,
         c \in Caches => x.value \in Values,
         cache' = [cache EXCEPT ![c] = [cache[c] EXCEPT ![k] = {x}]]
  PROVE  CachesOK'
<1>1. cache' \in [AllCaches -> [Refnos -> SUBSET Entries]]
  BY DEF CachesOK
<1>2. \A d \in AllCaches, j \in Refnos :
        cache'[d][j] = IF d = c /\ j = k THEN {x} ELSE cache[d][j]
  BY DEF CachesOK
<1>3. \A d \in Caches, j \in Refnos : \A y \in cache'[d][j] : y.value \in Values
  BY <1>2, LeafCaches DEF CachesOK
<1> QED
  BY <1>1, <1>3 DEF CachesOK

LEMMA EntryType ==
  ASSUME NEW v \in Values \union Worlds, NEW f \in SUBSET Flaws
  PROVE  Entry(v, f) \in Entries /\ Entry(v, f).value = v /\ Entry(v, f).flaws = f
BY DEF Entry, Entries

LEMMA ServedType ==
  ASSUME CachesOK, NEW c \in AllCaches, NEW k \in Refnos
  PROVE  Served(c, k) \in SUBSET Flaws
<1>1. \A x \in cache[c][k] : x.flaws \in SUBSET Flaws
  BY DEF CachesOK, Entries
<1>2. UNION {entry.flaws : entry \in cache[c][k]} \in SUBSET Flaws
  BY <1>1
<1>3. (IF ClearPending(c, k) THEN {"clear"} ELSE {}) \in SUBSET Flaws
  BY DEF Flaws
<1> QED
  BY <1>2, <1>3 DEF Served

LEMMA MissType ==
  ASSUME ReadersOK, NEW t \in Readers, NEW c \in Caches, NEW k \in Refnos, Miss(t, c, k)
  PROVE  call' \in [Readers -> Calls] /\ \A s \in Readers : CallOK(call'[s])
<1> DEFINE r == [NoCall EXCEPT !.stage = "query", !.fn = c, !.key = k]
<1>1. r \in Calls /\ CallOK(r)
  BY NothingType DEF Calls, CallOK
<1>2. call' = [call EXCEPT ![t] = r]
  BY DEF Miss
<1> HIDE DEF r
<1> QED
  BY <1>1, <1>2, SetCall

\* What the fold becomes after a leaf.
LEMMA ResumeType ==
  ASSUME ReadersOK, NEW t \in Readers, NEW answer \in SUBSET Values, NEW flaws \in SUBSET Flaws,
         Resume(t, answer, flaws)
  PROVE  fold' \in [Readers -> Folds] /\ \A s \in Readers : FoldOK(fold'[s])
<1> DEFINE f == fold[t]
<1>1. f \in Folds /\ FoldOK(f)
  BY DEF ReadersOK
<1>2. CASE f.stage = "none"
  BY <1>1, <1>2, SetFold DEF Resume
<1>3. CASE f.stage # "none"
  <2> DEFINE sofar == f.flaws \union flaws
             done(w) == [f EXCEPT !.stage = "keep_mat4", !.value = w, !.flaws = sofar]
             join == [f EXCEPT !.stage = "joint", !.flaws = sofar]
  <2>1. sofar \in SUBSET Flaws
    BY <1>1 DEF Folds
  <2>2. \A w \in Worlds : done(w) \in Folds /\ FoldOK(done(w))
    BY <1>1, <1>3, <2>1 DEF Folds, FoldOK, FoldStages
  <2>3. NoWorld \in Worlds /\ [up |-> f.up, joint |-> {}] \in Worlds /\ [up |-> f.up, joint |-> answer] \in Worlds
    BY <1>1 DEF NoWorld, Worlds, Folds
  <2>4. Ref[f.key] # None => join \in Folds /\ FoldOK(join)
    BY <1>1, <1>3, <2>1 DEF Folds, FoldOK, FoldStages
  <2>5. \/ \E w \in {NoWorld, [up |-> f.up, joint |-> {}], [up |-> f.up, joint |-> answer]} :
              fold' = [fold EXCEPT ![t] = done(w)]
        \/ Ref[f.key] # None /\ fold' = [fold EXCEPT ![t] = join]
    BY <1>3 DEF Resume
  <2> HIDE DEF done, join
  <2> QED
    BY <2>2, <2>3, <2>4, <2>5, SetFold
<1> QED
  BY <1>2, <1>3
-----------------------------------------------------------------------------
(* Every step keeps the types *)


\* What a reader leaves alone keeps its type.
LEMMA SameType ==
  ASSUME TypeInv
  PROVE  /\ UNCHANGED <<Database, Clear>> => WriterOK'
         /\ UNCHANGED cache => CachesOK'
         /\ UNCHANGED call => call' \in [Readers -> Calls] /\ \A s \in Readers : CallOK(call'[s])
         /\ UNCHANGED fold => fold' \in [Readers -> Folds] /\ \A s \in Readers : FoldOK(fold'[s])
         /\ (/\ call' \in [Readers -> Calls] /\ \A s \in Readers : CallOK(call'[s])
             /\ fold' \in [Readers -> Folds] /\ \A s \in Readers : FoldOK(fold'[s])) => ReadersOK'
<1>1. UNCHANGED <<Database, Clear>> => WriterOK'
  BY DEF TypeInv, WriterOK, Database, Clear
<1>2. UNCHANGED cache => CachesOK'
  BY DEF TypeInv, CachesOK
<1>3. UNCHANGED call => call' \in [Readers -> Calls] /\ \A s \in Readers : CallOK(call'[s])
  BY DEF TypeInv, ReadersOK
<1>4. UNCHANGED fold => fold' \in [Readers -> Folds] /\ \A s \in Readers : FoldOK(fold'[s])
  BY DEF TypeInv, ReadersOK
<1>5. (/\ call' \in [Readers -> Calls] /\ \A s \in Readers : CallOK(call'[s])
       /\ fold' \in [Readers -> Folds] /\ \A s \in Readers : FoldOK(fold'[s])) => ReadersOK'
  BY DEF ReadersOK
<1> QED
  BY <1>1, <1>2, <1>3, <1>4, <1>5

\* An action of a reader is typed if what it writes is.
LEMMA ReaderTyped ==
  ASSUME TypeInv, UNCHANGED <<Database, Clear>>,
         UNCHANGED cache \/ CachesOK',
         UNCHANGED call \/ (call' \in [Readers -> Calls] /\ \A s \in Readers : CallOK(call'[s])),
         UNCHANGED fold \/ (fold' \in [Readers -> Folds] /\ \A s \in Readers : FoldOK(fold'[s]))
  PROVE  TypeInv'
BY SameType DEF TypeInv

LEMMA RequestType ==
  ASSUME TypeInv, NEW t \in Readers, NEW c \in Caches, NEW k \in Refnos, Request(t, c, k)
  PROVE  TypeInv'
BY MissType, ReaderTyped DEF Request, TypeInv

LEMMA QueryType ==
  ASSUME TypeInv, NEW t \in Readers, Query(t)
  PROVE  TypeInv'
<1> DEFINE r == [call[t] EXCEPT !.stage = "store", !.value = Value(call[t].fn, call[t].key)]
<1>1. call[t] \in Calls /\ CallOK(call[t]) /\ call[t].stage = "query"
  BY DEF TypeInv, ReadersOK, Query, Calling
<1>2. Value(call[t].fn, call[t].key) \in Values
  BY <1>1, ValueType DEF CallOK, TypeInv
<1>3. r \in Calls /\ CallOK(r)
  BY <1>1, <1>2 DEF Calls, CallOK
<1>4. call' = [call EXCEPT ![t] = r] /\ UNCHANGED <<Database, Clear>> /\ UNCHANGED cache /\ UNCHANGED fold
  BY DEF Query
<1> HIDE DEF r
<1>5. call' \in [Readers -> Calls] /\ \A s \in Readers : CallOK(call'[s])
  BY <1>3, <1>4, SetCall DEF TypeInv
<1> QED
  BY <1>4, <1>5, ReaderTyped

LEMMA StoreType ==
  ASSUME TypeInv, NEW t \in Readers, Store(t)
  PROVE  TypeInv'
<1>1. call[t] \in Calls /\ CallOK(call[t]) /\ call[t].stage = "store"
  BY DEF TypeInv, ReadersOK, Store, Calling
<1>2. call[t].fn \in Caches /\ call[t].fn \in AllCaches /\ call[t].key \in Refnos
      /\ call[t].value \in Values /\ call[t].flaws \in SUBSET Flaws
  BY <1>1, LeafCaches DEF CallOK, Calls
<1>3. CachesOK'
  <2> DEFINE x == Entry(call[t].value, call[t].flaws)
  <2>1. x \in Entries /\ x.value \in Values
    BY <1>2, EntryType
  <2>2. cache' = [cache EXCEPT ![call[t].fn] = [cache[call[t].fn] EXCEPT ![call[t].key] = {x}]]
    BY DEF Store
  <2> HIDE DEF x
  <2> QED
    BY <1>2, <2>1, <2>2, SetEntry DEF TypeInv
<1>4. call' \in [Readers -> Calls] /\ \A s \in Readers : CallOK(call'[s])
  <2>1. CallOK(NoCall) /\ NoCall \in Calls
    BY NothingType DEF CallOK, NoCall
  <2> QED
    BY <2>1, SetCall DEF Store, TypeInv
<1>5. fold' \in [Readers -> Folds] /\ \A s \in Readers : FoldOK(fold'[s])
  <2>1. {call[t].value} \in SUBSET Values /\ Resume(t, {call[t].value}, call[t].flaws)
    BY <1>2 DEF Store
  <2> QED
    BY <1>2, <2>1, ResumeType DEF TypeInv
<1>6. UNCHANGED <<Database, Clear>>
  BY DEF Store
<1> QED
  BY <1>3, <1>4, <1>5, <1>6, ReaderTyped

LEMMA QueryFailsType ==
  ASSUME TypeInv, NEW t \in Readers, QueryFails(t)
  PROVE  TypeInv'
<1>1. call' \in [Readers -> Calls] /\ \A s \in Readers : CallOK(call'[s])
  <2>1. CallOK(NoCall) /\ NoCall \in Calls
    BY NothingType DEF CallOK, NoCall
  <2> QED
    BY <2>1, SetCall DEF QueryFails, TypeInv
<1>2. fold' \in [Readers -> Folds] /\ \A s \in Readers : FoldOK(fold'[s])
  <2>1. FoldOK(NoFold) /\ NoFold \in Folds
    BY NothingType DEF FoldOK, NoFold
  <2>2. CASE fold[t].stage = "joint"
    <3>1. {} \in SUBSET Values /\ {"error"} \in SUBSET Flaws /\ Resume(t, {}, {"error"})
      BY <2>2 DEF QueryFails, Flaws
    <3> QED
      BY <3>1, ResumeType DEF TypeInv
  <2>3. CASE fold[t].stage # "joint"
    BY <2>1, <2>3, SetFold DEF QueryFails, TypeInv
  <2> QED
    BY <2>2, <2>3
<1> QED
  BY <1>1, <1>2, ReaderTyped DEF QueryFails
LEMMA get_world_transformType ==
  ASSUME TypeInv, NEW t \in Readers, NEW k \in Refnos, get_world_transform(t, k)
  PROVE  TypeInv'
<1> DEFINE f == [NoFold EXCEPT !.stage = "mat4", !.key = k]
<1>1. f \in Folds /\ FoldOK(f)
  BY NothingType DEF Folds, FoldStages, FoldOK
<1>2. fold' = [fold EXCEPT ![t] = f] /\ UNCHANGED <<Database, Clear>> /\ UNCHANGED cache /\ UNCHANGED call
  BY DEF get_world_transform
<1> HIDE DEF f
<1>3. fold' \in [Readers -> Folds] /\ \A s \in Readers : FoldOK(fold'[s])
  BY <1>1, <1>2, SetFold DEF TypeInv
<1> QED
  BY <1>2, <1>3, ReaderTyped

LEMMA get_world_mat4Type ==
  ASSUME TypeInv, NEW t \in Readers, get_world_mat4(t)
  PROVE  TypeInv'
<1> DEFINE key == fold[t].key
           miss == [fold[t] EXCEPT !.stage = "attmaps"]
           hit(x) == [fold[t] EXCEPT !.stage = "keep_transform", !.value = x.value,
                                     !.flaws = Served("GET_WORLD_MAT4", key)]
<1>1. fold[t] \in Folds /\ FoldOK(fold[t]) /\ fold[t].stage = "mat4" /\ key \in Refnos
  BY DEF TypeInv, ReadersOK, FoldOK, get_world_mat4, Folding
<1>2. "GET_WORLD_MAT4" \in AllCaches
  BY DEF AllCaches, WorldCaches
<1>3. miss \in Folds /\ FoldOK(miss)
  BY <1>1 DEF Folds, FoldOK, FoldStages
<1>4. \A x \in cache["GET_WORLD_MAT4"][key] : hit(x) \in Folds /\ FoldOK(hit(x))
  <2>1. Served("GET_WORLD_MAT4", key) \in SUBSET Flaws
    BY <1>1, <1>2, ServedType DEF TypeInv
  <2>2. \A x \in cache["GET_WORLD_MAT4"][key] : x.value \in Values \union Worlds
    BY <1>1, <1>2 DEF TypeInv, CachesOK, Entries
  <2> QED
    BY <1>1, <2>1, <2>2 DEF Folds, FoldOK, FoldStages
<1>5. /\ \/ fold' = [fold EXCEPT ![t] = miss]
         \/ \E x \in cache["GET_WORLD_MAT4"][key] : fold' = [fold EXCEPT ![t] = hit(x)]
      /\ UNCHANGED <<Database, Clear>> /\ UNCHANGED cache /\ UNCHANGED call
  BY DEF get_world_mat4
<1> HIDE DEF miss, hit
<1>6. fold' \in [Readers -> Folds] /\ \A s \in Readers : FoldOK(fold'[s])
  BY <1>3, <1>4, <1>5, SetFold DEF TypeInv
<1> QED
  BY <1>5, <1>6, ReaderTyped

LEMMA get_ancestor_attmapsType ==
  ASSUME TypeInv, NEW t \in Readers, get_ancestor_attmaps(t)
  PROVE  TypeInv'
<1> DEFINE f == [fold[t] EXCEPT !.stage = "refnos", !.up = Rows(fold[t].key)]
<1>1. fold[t] \in Folds /\ FoldOK(fold[t]) /\ fold[t].stage = "attmaps" /\ fold[t].key \in Refnos
  BY DEF TypeInv, ReadersOK, FoldOK, get_ancestor_attmaps, Folding
<1>2. Rows(fold[t].key) \in SUBSET RowOf
  BY <1>1, RowsType DEF TypeInv
<1>3. f \in Folds /\ FoldOK(f)
  BY <1>1, <1>2 DEF Folds, FoldOK, FoldStages
<1>4. NoFold \in Folds /\ FoldOK(NoFold)
  BY NothingType DEF FoldOK, NoFold
<1>5. /\ fold' = [fold EXCEPT ![t] = f] \/ fold' = [fold EXCEPT ![t] = NoFold]
      /\ UNCHANGED <<Database, Clear>> /\ UNCHANGED cache /\ UNCHANGED call
  BY DEF get_ancestor_attmaps
<1> HIDE DEF f
<1>6. fold' \in [Readers -> Folds] /\ \A s \in Readers : FoldOK(fold'[s])
  BY <1>3, <1>4, <1>5, SetFold DEF TypeInv
<1> QED
  BY <1>5, <1>6, ReaderTyped

\* The leaf a fold reads is an entry of a leaf cache.
LEMMA LeafType ==
  ASSUME TypeInv, NEW t \in Readers, fold[t].stage \in {"refnos", "joint"}
  PROVE  Leaf(fold[t])[1] \in Caches /\ Leaf(fold[t])[2] \in Refnos
BY LeafCaches, ElementsAssumption DEF Leaf, TypeInv, ReadersOK, FoldOK

LEMMA ReadLeafType ==
  ASSUME TypeInv, NEW t \in Readers, ReadLeaf(t)
  PROVE  TypeInv'
<1> DEFINE c == Leaf(fold[t])[1]
           k == Leaf(fold[t])[2]
<1>1. c \in Caches /\ c \in AllCaches /\ k \in Refnos
  BY LeafType, LeafCaches DEF ReadLeaf, Folding
<1>2. /\ \/ UNCHANGED call /\ \E x \in cache[c][k] : Resume(t, {x.value}, Served(c, k))
         \/ UNCHANGED fold /\ Miss(t, c, k)
      /\ UNCHANGED <<Database, Clear>> /\ UNCHANGED cache
  BY DEF ReadLeaf
<1> HIDE DEF c, k
<1>3. ASSUME NEW x \in cache[c][k], UNCHANGED call, Resume(t, {x.value}, Served(c, k))
      PROVE  TypeInv'
  <2>1. {x.value} \in SUBSET Values
    BY <1>1 DEF TypeInv, CachesOK
  <2>2. Served(c, k) \in SUBSET Flaws
    BY <1>1, ServedType DEF TypeInv
  <2>3. fold' \in [Readers -> Folds] /\ \A s \in Readers : FoldOK(fold'[s])
    BY <1>3, <2>1, <2>2, ResumeType DEF TypeInv
  <2> QED
    BY <1>2, <1>3, <2>3, ReaderTyped
<1>4. ASSUME Miss(t, c, k), UNCHANGED fold PROVE TypeInv'
  <2>1. call' \in [Readers -> Calls] /\ \A s \in Readers : CallOK(call'[s])
    BY <1>1, <1>4, MissType DEF TypeInv
  <2> QED
    BY <1>2, <1>4, <2>1, ReaderTyped
<1> QED
  BY <1>2, <1>3, <1>4

\* A fold's value is kept in a world cache.
LEMMA KeepType ==
  ASSUME TypeInv, NEW t \in Readers, NEW c \in WorldCaches, fold[t].stage # "none",
         cache' = [cache EXCEPT ![c] =
           [cache[c] EXCEPT ![fold[t].key] = {Entry(fold[t].value, fold[t].flaws)}]]
  PROVE  CachesOK'
<1> DEFINE x == Entry(fold[t].value, fold[t].flaws)
<1>1. fold[t].key \in Refnos /\ fold[t].value \in Values \union Worlds /\ fold[t].flaws \in SUBSET Flaws
  BY DEF TypeInv, ReadersOK, FoldOK, Folds
<1>2. x \in Entries /\ c \in AllCaches /\ c \notin Caches
  BY <1>1, EntryType, LeafCaches
<1>3. cache' = [cache EXCEPT ![c] = [cache[c] EXCEPT ![fold[t].key] = {x}]]
  OBVIOUS
<1> HIDE DEF x
<1> QED
  BY <1>1, <1>2, <1>3, SetEntry DEF TypeInv

LEMMA KeepMat4Type ==
  ASSUME TypeInv, NEW t \in Readers, KeepMat4(t)
  PROVE  TypeInv'
<1> DEFINE f == [fold[t] EXCEPT !.stage = "keep_transform"]
<1>1. fold[t] \in Folds /\ FoldOK(fold[t]) /\ fold[t].stage = "keep_mat4"
  BY DEF TypeInv, ReadersOK, KeepMat4, Folding
<1>2. f \in Folds /\ FoldOK(f)
  BY <1>1 DEF Folds, FoldOK, FoldStages
<1>3. fold' = [fold EXCEPT ![t] = f] /\ UNCHANGED <<Database, Clear>> /\ UNCHANGED call
  BY DEF KeepMat4
<1> HIDE DEF f
<1>4. fold' \in [Readers -> Folds] /\ \A s \in Readers : FoldOK(fold'[s])
  BY <1>2, <1>3, SetFold DEF TypeInv
<1>5. CachesOK'
  BY <1>1, KeepType DEF KeepMat4, WorldCaches
<1> QED
  BY <1>3, <1>4, <1>5, ReaderTyped

LEMMA KeepTransformType ==
  ASSUME TypeInv, NEW t \in Readers, KeepTransform(t)
  PROVE  TypeInv'
<1>1. fold[t].stage = "keep_transform"
  BY DEF KeepTransform, Folding
<1>2. NoFold \in Folds /\ FoldOK(NoFold)
  BY NothingType DEF FoldOK, NoFold
<1>3. fold' = [fold EXCEPT ![t] = NoFold] /\ UNCHANGED <<Database, Clear>> /\ UNCHANGED call
  BY DEF KeepTransform
<1>4. fold' \in [Readers -> Folds] /\ \A s \in Readers : FoldOK(fold'[s])
  BY <1>2, <1>3, SetFold DEF TypeInv
<1>5. CachesOK'
  BY <1>1, KeepType DEF KeepTransform, WorldCaches
<1> QED
  BY <1>3, <1>4, <1>5, ReaderTyped
LEMMA OvertakeType ==
  ASSUME ReadersOK, Overtake
  PROVE  ReadersOK'
<1>1. "update" \in Flaws
  BY DEF Flaws
<1>2. \A t \in Readers : call'[t] \in Calls /\ CallOK(call'[t])
  <2> SUFFICES ASSUME NEW t \in Readers PROVE call'[t] \in Calls /\ CallOK(call'[t])
    OBVIOUS
  <2> DEFINE r == [call[t] EXCEPT !.flaws = call[t].flaws \union {"update"}]
  <2>1. call[t] \in Calls /\ CallOK(call[t])
    BY DEF ReadersOK
  <2>2. r \in Calls /\ CallOK(r)
    BY <1>1, <2>1 DEF Calls, CallOK
  <2>3. call'[t] = r \/ call'[t] = call[t]
    BY DEF Overtake
  <2> QED
    BY <2>1, <2>2, <2>3
<1>3. \A t \in Readers : fold'[t] \in Folds /\ FoldOK(fold'[t])
  <2> SUFFICES ASSUME NEW t \in Readers PROVE fold'[t] \in Folds /\ FoldOK(fold'[t])
    OBVIOUS
  <2> DEFINE f == [fold[t] EXCEPT !.flaws = fold[t].flaws \union {"update"}]
  <2>1. fold[t] \in Folds /\ FoldOK(fold[t])
    BY DEF ReadersOK
  <2>2. f \in Folds /\ FoldOK(f)
    BY <1>1, <2>1 DEF Folds, FoldOK
  <2>3. fold'[t] = f \/ fold'[t] = fold[t]
    BY DEF Overtake
  <2> QED
    BY <2>1, <2>2, <2>3
<1>4. call' \in [Readers -> Calls]
  BY <1>2 DEF Overtake
<1>5. fold' \in [Readers -> Folds]
  BY <1>3 DEF Overtake
<1> QED
  BY <1>2, <1>3, <1>4, <1>5 DEF ReadersOK

LEMMA ChangeType ==
  ASSUME TypeInv, NEW e \in Refnos, NEW o \in Refnos \union {None}, Change(e, o),
         owner' \in [Refnos -> Refnos \union {None}], attr' \in [Refnos -> Nat]
  PROVE  TypeInv'
<1>1. ReadersOK' /\ CachesOK'
  BY OvertakeType DEF Change, TypeInv, CachesOK
<1>2. Touched(e, o) \subseteq Refnos
  BY DEF Touched, TypeInv, WriterOK
<1>3. WriterOK'
  BY <1>2 DEF Change, TypeInv, WriterOK
<1> QED
  BY <1>1, <1>3 DEF TypeInv

LEMMA ModifyType ==
  ASSUME TypeInv, NEW e \in Refnos, Modify(e)
  PROVE  TypeInv'
<1>1. owner[e] \in Refnos \union {None} /\ owner' \in [Refnos -> Refnos \union {None}]
      /\ attr' \in [Refnos -> Nat]
  BY DEF Modify, TypeInv, WriterOK
<1> QED
  BY <1>1, ChangeType DEF Modify

LEMMA MoveType ==
  ASSUME TypeInv, NEW e \in Refnos, NEW o \in Refnos \union {None}, Move(e, o)
  PROVE  TypeInv'
<1>1. owner' \in [Refnos -> Refnos \union {None}] /\ attr' \in [Refnos -> Nat]
  BY DEF Move, TypeInv, WriterOK
<1> QED
  BY <1>1, ChangeType DEF Move

LEMMA clear_all_caches_batchType ==
  ASSUME TypeInv, clear_all_caches_batch
  PROVE  TypeInv'
<1>1. ReadersOK' /\ CachesOK'
  BY DEF clear_all_caches_batch, TypeInv, ReadersOK, CachesOK
<1>2. WriterOK'
  BY LeafCaches DEF clear_all_caches_batch, TypeInv, WriterOK, Database
<1> QED
  BY <1>1, <1>2 DEF TypeInv

LEMMA remove_allType ==
  ASSUME TypeInv, NEW c \in AllCaches, remove_all(c)
  PROVE  TypeInv'
<1>1. ReadersOK'
  BY DEF remove_all, TypeInv, ReadersOK
<1>2. WriterOK'
  BY DEF remove_all, TypeInv, WriterOK, Database
<1>3. CachesOK'
  <2> DEFINE kept == [k \in Refnos |-> IF c \in WorldCaches \/ k \in clearing THEN {} ELSE cache[c][k]]
  <2>1. kept \in [Refnos -> SUBSET Entries] /\ \A k \in Refnos : kept[k] \subseteq cache[c][k]
    BY DEF TypeInv, CachesOK
  <2>2. cache' = [cache EXCEPT ![c] = kept]
    BY DEF remove_all
  <2> HIDE DEF kept
  <2>3. \A d \in AllCaches : cache'[d] = IF d = c THEN kept ELSE cache[d]
    BY <2>2 DEF TypeInv, CachesOK
  <2>4. cache' \in [AllCaches -> [Refnos -> SUBSET Entries]]
    BY <2>1, <2>2 DEF TypeInv, CachesOK
  <2>5. \A d \in Caches, k \in Refnos : \A x \in cache'[d][k] : x.value \in Values
    BY <2>1, <2>3, LeafCaches DEF TypeInv, CachesOK
  <2> QED
    BY <2>4, <2>5 DEF CachesOK
<1> QED
  BY <1>1, <1>2, <1>3 DEF TypeInv

LEMMA ReadType ==
  ASSUME TypeInv, NEW t \in Readers, Read(t)
  PROVE  TypeInv'
BY RequestType, QueryType, StoreType, QueryFailsType, get_world_transformType, get_world_mat4Type,
   get_ancestor_attmapsType, ReadLeafType, KeepMat4Type, KeepTransformType DEF Read

LEMMA StepType == TypeInv /\ [Next]_vars => TypeInv'
<1> SUFFICES ASSUME TypeInv, [Next]_vars PROVE TypeInv'
  OBVIOUS
<1>1. CASE UNCHANGED vars
  BY <1>1, ReaderTyped DEF vars, Database, Clear
<1>2. ASSUME NEW t \in Readers, Read(t) PROVE TypeInv'
  BY <1>2, ReadType
<1>3. ASSUME NEW e \in Refnos, Modify(e) PROVE TypeInv'
  BY <1>3, ModifyType
<1>4. ASSUME NEW e \in Refnos, NEW o \in Refnos \union {None}, Move(e, o) PROVE TypeInv'
  BY <1>4, MoveType
<1>5. CASE clear_all_caches_batch
  BY <1>5, clear_all_caches_batchType
<1>6. ASSUME NEW c \in AllCaches, remove_all(c) PROVE TypeInv'
  BY <1>6, remove_allType
<1> QED
  BY <1>1, <1>2, <1>3, <1>4, <1>5, <1>6 DEF Next

THEOREM TypesHold == Spec => []TypeInv
<1> QED
  BY InitType, StepType, PTL DEF Spec

\* A call names a cache and an element while it lasts, a fold its element, and
\* one that reads a joint has an element to refer to; batches hold elements only.
THEOREM TypeCorrect == Spec => []TypeOK
<1> QED
  BY TypesHold, TypeInvOK, PTL
-----------------------------------------------------------------------------
(* Freshness: the inductive invariant *)

\* What an answer that no update, clear or error excuses has to say.  Of the
\* ancestors only whether there are any is sure: the batch of an update does not
\* name the elements further down.
Right(c, k, v) ==
  IF c \in WorldCaches THEN v = WorldValue(k)
  ELSE IF c = "QUERY_ANCESTOR_REFNOS" THEN v \subseteq {k} <=> owner[k] = None
  ELSE c \in Covered => v = Value(c, k)

EntriesRight ==
  \A c \in AllCaches, k \in Refnos : ~ClearPending(c, k) =>
    \A x \in cache[c][k] : x.flaws = {} => Right(c, k, x.value)

CallRight(r) == r.stage = "store" /\ r.flaws = {} => Right(r.fn, r.key, r.value)

FoldRight(f) ==
  f.flaws = {} =>
    /\ f.stage \in {"refnos", "joint"} => f.up = Rows(f.key)
    /\ f.stage = "joint" => owner[f.key] # None
    /\ f.stage \in {"keep_mat4", "keep_transform"} => f.value = WorldValue(f.key)

\* A fold has at most one call, the one for the leaf it needs.
CallServesFold(r, f) ==
  r.stage # "none" =>
    /\ f.stage \in {"none", "refnos", "joint"}
    /\ f.stage # "none" => r.fn = Leaf(f)[1] /\ r.key = Leaf(f)[2]

ReadersRight ==
  \A t \in Readers : CallRight(call[t]) /\ FoldRight(fold[t]) /\ CallServesFold(call[t], fold[t])

NoneOwnsItself == \A e \in Refnos : owner[e] # e

FreshInv == NoneOwnsItself /\ EntriesRight /\ ReadersRight

LEMMA FreshMeans == TypeInv /\ FreshInv => CoveredEntriesAreFresh /\ WorldEntriesAreFresh
<1> SUFFICES ASSUME TypeInv, FreshInv PROVE CoveredEntriesAreFresh /\ WorldEntriesAreFresh
  OBVIOUS
<1>1. \A c \in AllCaches, k \in Refnos : \A v \in Sound(c, k) : Right(c, k, v)
  BY DEF FreshInv, EntriesRight, Sound
<1>2. "QUERY_ANCESTOR_REFNOS" \notin Covered
  BY DEF Covered, OwnRow, MemberLists, MemberRows
<1>3. CoveredEntriesAreFresh
  BY <1>1, <1>2, LeafCaches DEF CoveredEntriesAreFresh, Right
<1>4. WorldEntriesAreFresh
  BY <1>1, LeafCaches DEF WorldEntriesAreFresh, Right
<1> QED
  BY <1>3, <1>4

LEMMA IdleRight ==
  /\ CallRight(NoCall)
  /\ FoldRight(NoFold)
  /\ \A f : CallServesFold(NoCall, f)
<1>1. NoCall.stage = "none" /\ NoFold.stage = "none"
  BY DEF NoCall, NoFold
<1> QED
  BY <1>1 DEF CallRight, FoldRight, CallServesFold

LEMMA InitFresh == Init => FreshInv
<1> SUFFICES ASSUME Init PROVE FreshInv
  OBVIOUS
<1>1. NoneOwnsItself
  BY ElementsAssumption DEF Init, NoneOwnsItself
<1>2. EntriesRight
  BY DEF Init, EntriesRight
<1>3. \A t \in Readers : call[t] = NoCall /\ fold[t] = NoFold
  BY DEF Init
<1>4. CallRight(NoCall) /\ FoldRight(NoFold) /\ CallServesFold(NoCall, NoFold)
  BY IdleRight
<1>5. ReadersRight
  BY <1>3, <1>4 DEF ReadersRight
<1> QED
  BY <1>1, <1>2, <1>5 DEF FreshInv

-----------------------------------------------------------------------------
(* The tree *)

LEMMA UpSelf ==
  ASSUME NEW k \in Refnos
  PROVE  k \in Up(k)
BY DEF Up

\* A root and only a root has no ancestor but itself.
LEMMA OnlyRootsAreAlone ==
  ASSUME WriterOK, NoneOwnsItself, NEW k \in Refnos
  PROVE  Up(k) \subseteq {k} <=> owner[k] = None
<1>1. ASSUME owner[k] = None PROVE Up(k) \subseteq {k}
  <2>1. Closed({k})
    BY <1>1 DEF Closed
  <2> QED
    BY <2>1 DEF Up
<1>2. ASSUME owner[k] # None PROVE ~(Up(k) \subseteq {k})
  <2>1. owner[k] \in Refnos /\ owner[k] # k
    BY <1>2 DEF WriterOK, NoneOwnsItself
  <2>2. \A S \in SUBSET Refnos : k \in S /\ Closed(S) => owner[k] \in S
    BY <1>2 DEF Closed
  <2>3. owner[k] \in Up(k)
    BY <2>1, <2>2 DEF Up
  <2> QED
    BY <2>1, <2>3
<1> QED
  BY <1>1, <1>2

\* What the database answers is right.
LEMMA AnswersAreRight ==
  ASSUME WriterOK, NoneOwnsItself, NEW c \in Caches, NEW k \in Refnos
  PROVE  Right(c, k, Value(c, k))
<1>1. CASE c = "QUERY_ANCESTOR_REFNOS"
  <2>1. Value(c, k) = Up(k)
    BY <1>1 DEF Value, OwnRow, MemberLists, MemberRows, Referred
  <2> QED
    BY <1>1, <2>1, OnlyRootsAreAlone DEF Right, WorldCaches
<1>2. CASE c # "QUERY_ANCESTOR_REFNOS"
  BY <1>2, LeafCaches DEF Right
<1> QED
  BY <1>1, <1>2

-----------------------------------------------------------------------------
(* Steps that leave the database alone *)

LEMMA SameDatabase ==
  ASSUME UNCHANGED Database
  PROVE  /\ \A c, k, v : Right(c, k, v)' <=> Right(c, k, v)
         /\ \A k : Rows(k)' = Rows(k) /\ WorldValue(k)' = WorldValue(k)
<1>1. owner' = owner /\ attr' = attr
  BY DEF Database
<1>2. \A k : Row(k)' = Row(k)
  BY <1>1 DEF Row
<1>3. \A k : Up(k)' = Up(k)
  BY <1>1 DEF Up, Closed
<1>4. \A k : Under(k)' = Under(k)
  BY <1>3 DEF Under
<1>5. \A k : Members(k)' = Members(k)
  BY <1>1 DEF Members
<1>6. \A k : OwnerNoun(k)' = OwnerNoun(k)
  BY <1>1 DEF OwnerNoun
<1>7. \A k : Rows(k)' = Rows(k)
  BY <1>2, <1>3 DEF Rows
<1>8. \A k : WorldValue(k)' = WorldValue(k)
  BY <1>1, <1>2, <1>7 DEF WorldValue
<1>9. \A c, k : Value(c, k)' = Value(c, k)
  BY <1>2, <1>3, <1>4, <1>5, <1>6 DEF Value
<1> QED
  BY <1>1, <1>7, <1>8, <1>9 DEF Right
LEMMA SameRight ==
  ASSUME UNCHANGED Database
  PROVE  /\ \A r : CallRight(r)' <=> CallRight(r)
         /\ \A f : FoldRight(f)' <=> FoldRight(f)
         /\ NoneOwnsItself => NoneOwnsItself'
<1>1. owner' = owner
  BY DEF Database
<1>2. \A r : CallRight(r)' <=> CallRight(r)
  BY SameDatabase DEF CallRight
<1>3. \A f : FoldRight(f)' <=> FoldRight(f)
  BY <1>1, SameDatabase DEF FoldRight
<1> QED
  BY <1>1, <1>2, <1>3 DEF NoneOwnsItself

LEMMA SameClear ==
  ASSUME UNCHANGED Clear
  PROVE  \A c, k : ClearPending(c, k)' <=> ClearPending(c, k)
BY DEF Clear, ClearPending

\* A reader's step is right if the entry it stores and what it goes on with are.
LEMMA ReaderRight ==
  ASSUME TypeInv, FreshInv, UNCHANGED <<Database, Clear>>,
         NEW t \in Readers, NEW r, NEW f,
         call' = [call EXCEPT ![t] = r],
         fold' = [fold EXCEPT ![t] = f],
         CallRight(r), FoldRight(f), CallServesFold(r, f),
         EntriesRight'
  PROVE  FreshInv'
<1>1. NoneOwnsItself'
  BY SameRight DEF FreshInv, Database
<1>2. UNCHANGED Database
  OBVIOUS
<1>3. \A s \in Readers : call'[s] = (IF s = t THEN r ELSE call[s]) /\ fold'[s] = (IF s = t THEN f ELSE fold[s])
  BY DEF TypeInv, ReadersOK
<1>4. \A s \in Readers : CallRight(call'[s]) /\ FoldRight(fold'[s]) /\ CallServesFold(call'[s], fold'[s])
  BY <1>3 DEF FreshInv, ReadersRight
<1>5. \A s \in Readers : CallRight(call[s])' /\ FoldRight(fold[s])' /\ CallServesFold(call[s], fold[s])'
  <2> SUFFICES ASSUME NEW s \in Readers
               PROVE  CallRight(call[s])' /\ FoldRight(fold[s])' /\ CallServesFold(call[s], fold[s])'
    OBVIOUS
  <2>1. CallRight(call[s])'
    BY <1>2, <1>4, SameDatabase DEF CallRight
  <2>2. FoldRight(fold[s])'
    BY <1>2, <1>4, SameDatabase DEF FoldRight, Database
  <2>3. CallServesFold(call[s], fold[s])'
    BY <1>4 DEF CallServesFold, Leaf
  <2> QED
    BY <2>1, <2>2, <2>3
<1> QED
  BY <1>1, <1>5 DEF FreshInv, ReadersRight

LEMMA SameEntries ==
  ASSUME FreshInv, UNCHANGED <<Database, Clear>>, UNCHANGED cache
  PROVE  EntriesRight'
<1>1. UNCHANGED Database /\ UNCHANGED Clear
  OBVIOUS
<1> QED
  BY <1>1, SameDatabase, SameClear DEF FreshInv, EntriesRight

\* A stored entry is right if its value is, unless something excuses it.
LEMMA StoredRight ==
  ASSUME TypeInv, FreshInv, UNCHANGED <<Database, Clear>>,
         NEW c \in AllCaches, NEW k \in Refnos, NEW v, NEW flaws,
         cache' = [cache EXCEPT ![c] = [cache[c] EXCEPT ![k] = {Entry(v, flaws)}]],
         flaws = {} => Right(c, k, v)
  PROVE  EntriesRight'
<1>1. UNCHANGED Database /\ UNCHANGED Clear
  OBVIOUS
<1>2. \A d \in AllCaches, j \in Refnos :
        cache'[d][j] = IF d = c /\ j = k THEN {Entry(v, flaws)} ELSE cache[d][j]
  BY DEF TypeInv, CachesOK
<1>3. \A d \in AllCaches, j \in Refnos : \A x \in cache'[d][j] :
        ~ClearPending(d, j) /\ x.flaws = {} => Right(d, j, x.value)
  <2> SUFFICES ASSUME NEW d \in AllCaches, NEW j \in Refnos, NEW x \in cache'[d][j],
                      ~ClearPending(d, j), x.flaws = {}
               PROVE  Right(d, j, x.value)
    OBVIOUS
  <2>1. CASE d = c /\ j = k
    BY <1>2, <2>1 DEF Entry
  <2>2. CASE ~(d = c /\ j = k)
    BY <1>2, <2>2 DEF FreshInv, EntriesRight
  <2> QED
    BY <2>1, <2>2
<1> QED
  BY <1>1, <1>3, SameDatabase, SameClear DEF EntriesRight
LEMMA ServedRight ==
  ASSUME TypeInv, FreshInv, NEW c \in AllCaches, NEW k \in Refnos, NEW x \in cache[c][k],
         Served(c, k) = {}
  PROVE  Right(c, k, x.value)
<1>1. x.flaws \subseteq UNION {entry.flaws : entry \in cache[c][k]}
  OBVIOUS
<1>2. x.flaws = {}
  BY <1>1 DEF Served
<1>3. ~ClearPending(c, k)
  BY DEF Served
<1> QED
  BY <1>2, <1>3 DEF FreshInv, EntriesRight

LEMMA RowIsRight ==
  ASSUME NEW k, NEW v, Right("GET_NAMED_ATTMAP", k, v)
  PROVE  v = Row(k)
<1>1. "GET_NAMED_ATTMAP" \in OwnRow
  BY DEF OwnRow
<1>2. Value("GET_NAMED_ATTMAP", k) = Row(k)
  BY <1>1 DEF Value, MemberLists, MemberRows, Referred
<1>3. "GET_NAMED_ATTMAP" \in Covered /\ "GET_NAMED_ATTMAP" \notin WorldCaches
  BY <1>1 DEF Covered, WorldCaches
<1> QED
  BY <1>2, <1>3 DEF Right

\* A right leaf carries a fold to a right place.
LEMMA ResumeRight ==
  ASSUME TypeInv, FreshInv, NEW t \in Readers, NEW answer, NEW flaws \in SUBSET Flaws,
         Resume(t, answer, flaws), fold[t].stage \in {"none", "refnos", "joint"},
         flaws = {} /\ fold[t].stage # "none" =>
           \E v : answer = {v} /\ Right(Leaf(fold[t])[1], Leaf(fold[t])[2], v)
  PROVE  \E f : fold' = [fold EXCEPT ![t] = f] /\ FoldRight(f)
<1> DEFINE f == fold[t]
           sofar == f.flaws \union flaws
           done(w) == [f EXCEPT !.stage = "keep_mat4", !.value = w, !.flaws = sofar]
           join == [f EXCEPT !.stage = "joint", !.flaws = sofar]
<1>1. f \in Folds /\ FoldOK(f) /\ FoldRight(f)
  BY DEF TypeInv, ReadersOK, FreshInv, ReadersRight
<1>2. \A w : /\ done(w).stage = "keep_mat4" /\ done(w).value = w
             /\ done(w).key = f.key /\ done(w).flaws = sofar
  BY <1>1 DEF Folds
<1>3. \A w : (sofar = {} => w = WorldValue(f.key)) => FoldRight(done(w))
  BY <1>2 DEF FoldRight
<1>4. sofar = {} => f.flaws = {} /\ flaws = {}
  OBVIOUS
<1>5. CASE f.stage = "none"
  BY <1>1, <1>5 DEF Resume
<1>6. CASE f.stage = "refnos"
  <2>1. sofar = {} => (UNION answer \subseteq {f.key} <=> owner[f.key] = None)
    <3> SUFFICES ASSUME sofar = {} PROVE UNION answer \subseteq {f.key} <=> owner[f.key] = None
      OBVIOUS
    <3>1. PICK v : answer = {v} /\ Right("QUERY_ANCESTOR_REFNOS", f.key, v)
      BY <1>4, <1>6 DEF Leaf
    <3>2. v \subseteq {f.key} <=> owner[f.key] = None
      BY <3>1 DEF Right, WorldCaches
    <3> QED
      BY <3>1, <3>2
  <2>2. CASE UNION answer \subseteq {f.key}
    <3>1. fold' = [fold EXCEPT ![t] = done(NoWorld)]
      BY <1>6, <2>2 DEF Resume
    <3>2. sofar = {} => NoWorld = WorldValue(f.key)
      BY <2>1, <2>2 DEF WorldValue
    <3> QED
      BY <1>3, <3>1, <3>2
  <2>3. CASE ~(UNION answer \subseteq {f.key}) /\ Ref[f.key] = None
    <3> DEFINE w == [up |-> f.up, joint |-> {}]
    <3>1. fold' = [fold EXCEPT ![t] = done(w)]
      BY <1>6, <2>3 DEF Resume
    <3>2. sofar = {} => w = WorldValue(f.key)
      <4> SUFFICES ASSUME sofar = {} PROVE w = WorldValue(f.key)
        OBVIOUS
      <4>1. owner[f.key] # None /\ f.up = Rows(f.key)
        BY <1>1, <1>4, <1>6, <2>1, <2>3 DEF FoldRight
      <4>2. {Row(e) : e \in {Ref[f.key]} \ {None}} = {}
        BY <2>3
      <4> QED
        BY <4>1, <4>2 DEF WorldValue
    <3> HIDE DEF w
    <3> QED
      BY <1>3, <3>1, <3>2
  <2>4. CASE ~(UNION answer \subseteq {f.key}) /\ Ref[f.key] # None
    <3>1. fold' = [fold EXCEPT ![t] = join]
      BY <1>6, <2>4 DEF Resume
    <3>2. join.stage = "joint" /\ join.key = f.key /\ join.up = f.up /\ join.flaws = sofar
      BY <1>1 DEF Folds
    <3>3. sofar = {} => owner[f.key] # None /\ f.up = Rows(f.key)
      BY <1>1, <1>4, <1>6, <2>1, <2>4 DEF FoldRight
    <3>4. FoldRight(join)
      BY <3>2, <3>3 DEF FoldRight
    <3> HIDE DEF join
    <3> QED
      BY <3>1, <3>4
  <2> QED
    BY <2>2, <2>3, <2>4
<1>7. CASE f.stage = "joint"
  <2> DEFINE w == [up |-> f.up, joint |-> answer]
  <2>1. fold' = [fold EXCEPT ![t] = done(w)]
    BY <1>7 DEF Resume
  <2>2. sofar = {} => w = WorldValue(f.key)
    <3> SUFFICES ASSUME sofar = {} PROVE w = WorldValue(f.key)
      OBVIOUS
    <3>1. PICK v : answer = {v} /\ Right("GET_NAMED_ATTMAP", Ref[f.key], v)
      BY <1>4, <1>7 DEF Leaf
    <3>2. v = Row(Ref[f.key])
      BY <3>1, RowIsRight
    <3>3. owner[f.key] # None /\ f.up = Rows(f.key) /\ Ref[f.key] # None
      BY <1>1, <1>4, <1>7 DEF FoldRight, FoldOK
    <3>4. {Row(e) : e \in {Ref[f.key]} \ {None}} = {v}
      BY <3>2, <3>3
    <3> QED
      BY <3>1, <3>3, <3>4 DEF WorldValue
  <2> HIDE DEF w
  <2> QED
    BY <1>3, <2>1, <2>2
<1> QED
  BY <1>5, <1>6, <1>7
-----------------------------------------------------------------------------
(* Every step keeps entries and fills right *)

LEMMA SelfUpdate ==
  ASSUME TypeInv, NEW t \in Readers
  PROVE  /\ call = [call EXCEPT ![t] = call[t]]
         /\ fold = [fold EXCEPT ![t] = fold[t]]
BY DEF TypeInv, ReadersOK

LEMMA ReaderFacts ==
  ASSUME TypeInv, FreshInv, NEW t \in Readers
  PROVE  /\ call[t] \in Calls /\ fold[t] \in Folds /\ CallOK(call[t]) /\ FoldOK(fold[t])
         /\ CallRight(call[t]) /\ FoldRight(fold[t]) /\ CallServesFold(call[t], fold[t])
         /\ call = [call EXCEPT ![t] = call[t]]
         /\ fold = [fold EXCEPT ![t] = fold[t]]
BY SelfUpdate DEF TypeInv, ReadersOK, FreshInv, ReadersRight

\* A lookup that misses, for the fold or for its own sake.
LEMMA MissFresh ==
  ASSUME TypeInv, FreshInv, NEW t \in Readers, NEW c \in Caches, NEW k \in Refnos,
         Miss(t, c, k), UNCHANGED <<Database, cache, fold, Clear>>,
         fold[t].stage \in {"none", "refnos", "joint"},
         fold[t].stage # "none" => c = Leaf(fold[t])[1] /\ k = Leaf(fold[t])[2]
  PROVE  FreshInv'
<1> DEFINE r == [NoCall EXCEPT !.stage = "query", !.fn = c, !.key = k]
<1>1. r.stage = "query" /\ r.fn = c /\ r.key = k
  BY DEF NoCall
<1>2. call' = [call EXCEPT ![t] = r] /\ UNCHANGED <<Database, Clear>> /\ UNCHANGED cache
  BY DEF Miss
<1> HIDE DEF r
<1>3. CallRight(r) /\ CallServesFold(r, fold[t])
  BY <1>1 DEF CallRight, CallServesFold
<1>4. FoldRight(fold[t]) /\ fold' = [fold EXCEPT ![t] = fold[t]]
  BY ReaderFacts
<1>5. EntriesRight'
  BY <1>2, SameEntries
<1> QED
  BY <1>2, <1>3, <1>4, <1>5, ReaderRight

LEMMA RequestFresh ==
  ASSUME TypeInv, FreshInv, NEW t \in Readers, NEW c \in Caches, NEW k \in Refnos, Request(t, c, k)
  PROVE  FreshInv'
<1>1. fold[t].stage = "none"
  BY DEF Request, Idle, Folding
<1> QED
  BY <1>1, MissFresh DEF Request

LEMMA QueryFresh ==
  ASSUME TypeInv, FreshInv, NEW t \in Readers, Query(t)
  PROVE  FreshInv'
<1> DEFINE r == [call[t] EXCEPT !.stage = "store", !.value = Value(call[t].fn, call[t].key)]
<1>0. call[t].stage = "query" /\ call[t] \in Calls /\ CallOK(call[t])
      /\ CallServesFold(call[t], fold[t]) /\ FoldRight(fold[t])
      /\ fold = [fold EXCEPT ![t] = fold[t]]
  BY ReaderFacts DEF Query, Calling
<1>1. r.stage = "store" /\ r.fn = call[t].fn /\ r.key = call[t].key
      /\ r.value = Value(call[t].fn, call[t].key)
  BY <1>0 DEF Calls
<1>2. call' = [call EXCEPT ![t] = r] /\ UNCHANGED <<Database, Clear>> /\ UNCHANGED cache /\ UNCHANGED fold
  BY DEF Query
<1> HIDE DEF r
<1>3. CallRight(r)
  BY <1>0, <1>1, AnswersAreRight DEF CallRight, CallOK, TypeInv, FreshInv
<1>4. CallServesFold(r, fold[t])
  BY <1>0, <1>1 DEF CallServesFold
<1>5. EntriesRight'
  BY <1>2, SameEntries
<1> QED
  BY <1>0, <1>2, <1>3, <1>4, <1>5, ReaderRight

LEMMA StoreFresh ==
  ASSUME TypeInv, FreshInv, NEW t \in Readers, Store(t)
  PROVE  FreshInv'
<1> DEFINE r == call[t]
<1>1. r.stage = "store" /\ r \in Calls /\ CallOK(r) /\ CallRight(r) /\ CallServesFold(r, fold[t])
  BY ReaderFacts DEF Store, Calling
<1>2. r.fn \in AllCaches /\ r.key \in Refnos /\ r.flaws \in SUBSET Flaws
  BY <1>1, LeafCaches DEF CallOK, Calls
<1>3. r.flaws = {} => Right(r.fn, r.key, r.value)
  BY <1>1 DEF CallRight
<1>4. UNCHANGED <<Database, Clear>>
      /\ cache' = [cache EXCEPT ![r.fn] = [cache[r.fn] EXCEPT ![r.key] = {Entry(r.value, r.flaws)}]]
      /\ call' = [call EXCEPT ![t] = NoCall]
      /\ Resume(t, {r.value}, r.flaws)
  BY DEF Store
<1> HIDE DEF r
<1>5. EntriesRight'
  BY <1>2, <1>3, <1>4, StoredRight
<1>6. \E f : fold' = [fold EXCEPT ![t] = f] /\ FoldRight(f)
  <2>1. fold[t].stage \in {"none", "refnos", "joint"}
    BY <1>1 DEF CallServesFold
  <2>2. r.flaws = {} /\ fold[t].stage # "none" =>
          \E v : {r.value} = {v} /\ Right(Leaf(fold[t])[1], Leaf(fold[t])[2], v)
    BY <1>1, <1>3 DEF CallServesFold
  <2> QED
    BY <1>2, <1>4, <2>1, <2>2, ResumeRight
<1>7. PICK f : fold' = [fold EXCEPT ![t] = f] /\ FoldRight(f)
  BY <1>6
<1>8. CallRight(NoCall) /\ CallServesFold(NoCall, f)
  BY IdleRight
<1> QED
  BY <1>4, <1>5, <1>7, <1>8, ReaderRight

LEMMA QueryFailsFresh ==
  ASSUME TypeInv, FreshInv, NEW t \in Readers, QueryFails(t)
  PROVE  FreshInv'
<1>1. UNCHANGED <<Database, Clear>> /\ UNCHANGED cache /\ call' = [call EXCEPT ![t] = NoCall]
  BY DEF QueryFails
<1>2. EntriesRight'
  BY <1>1, SameEntries
<1>3. \E f : fold' = [fold EXCEPT ![t] = f] /\ FoldRight(f)
  <2>1. CASE fold[t].stage = "joint"
    <3>1. Resume(t, {}, {"error"}) /\ {"error"} \in SUBSET Flaws /\ {"error"} # {}
      BY <2>1 DEF QueryFails, Flaws
    <3> QED
      BY <2>1, <3>1, ResumeRight
  <2>2. CASE fold[t].stage # "joint"
    BY <2>2, IdleRight DEF QueryFails
  <2> QED
    BY <2>1, <2>2
<1>4. PICK f : fold' = [fold EXCEPT ![t] = f] /\ FoldRight(f)
  BY <1>3
<1>5. CallRight(NoCall) /\ CallServesFold(NoCall, f)
  BY IdleRight
<1> QED
  BY <1>1, <1>2, <1>4, <1>5, ReaderRight
\* A step of the fold itself, which has no call under way.
LEMMA FoldStep ==
  ASSUME TypeInv, FreshInv, UNCHANGED <<Database, Clear>>, UNCHANGED call,
         NEW t \in Readers, NEW f, fold' = [fold EXCEPT ![t] = f], FoldRight(f),
         call[t].stage = "none", EntriesRight'
  PROVE  FreshInv'
<1>1. call' = [call EXCEPT ![t] = call[t]] /\ CallRight(call[t])
  BY ReaderFacts
<1>2. CallServesFold(call[t], f)
  BY DEF CallServesFold
<1> QED
  BY <1>1, <1>2, ReaderRight

LEMMA get_world_transformFresh ==
  ASSUME TypeInv, FreshInv, NEW t \in Readers, NEW k \in Refnos, get_world_transform(t, k)
  PROVE  FreshInv'
<1> DEFINE f == [NoFold EXCEPT !.stage = "mat4", !.key = k]
<1>1. FoldRight(f)
  BY DEF FoldRight, NoFold
<1>2. /\ fold' = [fold EXCEPT ![t] = f] /\ UNCHANGED <<Database, Clear>>
      /\ UNCHANGED cache /\ UNCHANGED call /\ call[t].stage = "none"
  BY DEF get_world_transform, Idle, Calling
<1> HIDE DEF f
<1>3. EntriesRight'
  BY <1>2, SameEntries
<1> QED
  BY <1>1, <1>2, <1>3, FoldStep

LEMMA get_world_mat4Fresh ==
  ASSUME TypeInv, FreshInv, NEW t \in Readers, get_world_mat4(t)
  PROVE  FreshInv'
<1> DEFINE key == fold[t].key
           miss == [fold[t] EXCEPT !.stage = "attmaps"]
           hit(x) == [fold[t] EXCEPT !.stage = "keep_transform", !.value = x.value,
                                     !.flaws = Served("GET_WORLD_MAT4", key)]
<1>1. /\ \/ fold' = [fold EXCEPT ![t] = miss]
         \/ \E x \in cache["GET_WORLD_MAT4"][key] : fold' = [fold EXCEPT ![t] = hit(x)]
      /\ UNCHANGED <<Database, Clear>> /\ UNCHANGED cache /\ UNCHANGED call
      /\ call[t].stage = "none" /\ fold[t].stage = "mat4"
  BY DEF get_world_mat4, Folding, Calling
<1>2. fold[t] \in Folds /\ key \in Refnos
  BY <1>1, ReaderFacts DEF FoldOK
<1>3. FoldRight(miss)
  <2>1. miss.stage = "attmaps"
    BY <1>2 DEF Folds
  <2> QED
    BY <2>1 DEF FoldRight
<1>4. \A x \in cache["GET_WORLD_MAT4"][key] : FoldRight(hit(x))
  <2> SUFFICES ASSUME NEW x \in cache["GET_WORLD_MAT4"][key] PROVE FoldRight(hit(x))
    OBVIOUS
  <2>1. hit(x).stage = "keep_transform" /\ hit(x).key = key /\ hit(x).value = x.value
        /\ hit(x).flaws = Served("GET_WORLD_MAT4", key)
    BY <1>2 DEF Folds
  <2>2. "GET_WORLD_MAT4" \in AllCaches /\ "GET_WORLD_MAT4" \in WorldCaches
    BY DEF AllCaches, WorldCaches
  <2>3. Served("GET_WORLD_MAT4", key) = {} => Right("GET_WORLD_MAT4", key, x.value)
    BY <1>2, <2>2, ServedRight
  <2>4. Served("GET_WORLD_MAT4", key) = {} => x.value = WorldValue(key)
    BY <2>2, <2>3 DEF Right
  <2> HIDE DEF hit
  <2> QED
    BY <2>1, <2>4 DEF FoldRight
<1> HIDE DEF miss, hit
<1>5. EntriesRight'
  BY <1>1, SameEntries
<1> QED
  BY <1>1, <1>3, <1>4, <1>5, FoldStep

LEMMA get_ancestor_attmapsFresh ==
  ASSUME TypeInv, FreshInv, NEW t \in Readers, get_ancestor_attmaps(t)
  PROVE  FreshInv'
<1> DEFINE f == [fold[t] EXCEPT !.stage = "refnos", !.up = Rows(fold[t].key)]
<1>1. /\ fold' = [fold EXCEPT ![t] = f] \/ fold' = [fold EXCEPT ![t] = NoFold]
      /\ UNCHANGED <<Database, Clear>> /\ UNCHANGED cache /\ UNCHANGED call
      /\ call[t].stage = "none"
  BY DEF get_ancestor_attmaps, Folding, Calling
<1>2. f.stage = "refnos" /\ f.up = Rows(f.key)
  BY ReaderFacts DEF Folds
<1>3. FoldRight(f) /\ FoldRight(NoFold)
  BY <1>2, IdleRight DEF FoldRight
<1> HIDE DEF f
<1>4. EntriesRight'
  BY <1>1, SameEntries
<1> QED
  BY <1>1, <1>3, <1>4, FoldStep

LEMMA ReadLeafFresh ==
  ASSUME TypeInv, FreshInv, NEW t \in Readers, ReadLeaf(t)
  PROVE  FreshInv'
<1> DEFINE c == Leaf(fold[t])[1]
           k == Leaf(fold[t])[2]
<1>1. /\ \/ UNCHANGED call /\ \E x \in cache[c][k] : Resume(t, {x.value}, Served(c, k))
         \/ UNCHANGED fold /\ Miss(t, c, k)
      /\ UNCHANGED <<Database, Clear>> /\ UNCHANGED cache
      /\ call[t].stage = "none" /\ fold[t].stage \in {"refnos", "joint"}
  BY DEF ReadLeaf, Folding, Calling
<1>2. c \in Caches /\ c \in AllCaches /\ k \in Refnos
  BY <1>1, LeafType, LeafCaches
<1>3. ASSUME Miss(t, c, k), UNCHANGED fold PROVE FreshInv'
  BY <1>1, <1>2, <1>3, MissFresh
<1>4. ASSUME UNCHANGED call, NEW x \in cache[c][k], Resume(t, {x.value}, Served(c, k))
      PROVE  FreshInv'
  <2>1. Served(c, k) \in SUBSET Flaws
    BY <1>2, ServedType DEF TypeInv
  <2>2. Served(c, k) = {} => \E v : {x.value} = {v} /\ Right(c, k, v)
    BY <1>2, ServedRight
  <2> HIDE DEF c, k
  <2>3. \E f : fold' = [fold EXCEPT ![t] = f] /\ FoldRight(f)
    BY <1>1, <1>4, <2>1, <2>2, ResumeRight DEF c, k
  <2>4. EntriesRight'
    BY <1>1, SameEntries
  <2> QED
    BY <1>1, <1>4, <2>3, <2>4, FoldStep
<1> QED
  BY <1>1, <1>3, <1>4

LEMMA KeepMat4Fresh ==
  ASSUME TypeInv, FreshInv, NEW t \in Readers, KeepMat4(t)
  PROVE  FreshInv'
<1> DEFINE f == [fold[t] EXCEPT !.stage = "keep_transform"]
<1>1. /\ fold' = [fold EXCEPT ![t] = f]
      /\ cache' = [cache EXCEPT !["GET_WORLD_MAT4"] =
           [cache["GET_WORLD_MAT4"] EXCEPT ![fold[t].key] = {Entry(fold[t].value, fold[t].flaws)}]]
      /\ UNCHANGED <<Database, Clear>> /\ UNCHANGED call
      /\ call[t].stage = "none" /\ fold[t].stage = "keep_mat4"
  BY DEF KeepMat4, Folding, Calling
<1>2. fold[t] \in Folds /\ FoldRight(fold[t]) /\ fold[t].key \in Refnos
  BY <1>1, ReaderFacts DEF FoldOK
<1>3. f.stage = "keep_transform" /\ f.key = fold[t].key /\ f.value = fold[t].value /\ f.flaws = fold[t].flaws
  BY <1>2 DEF Folds
<1>4. fold[t].flaws = {} => fold[t].value = WorldValue(fold[t].key)
  BY <1>1, <1>2 DEF FoldRight
<1>5. FoldRight(f)
  BY <1>3, <1>4 DEF FoldRight
<1> HIDE DEF f
<1>6. "GET_WORLD_MAT4" \in AllCaches /\ "GET_WORLD_MAT4" \in WorldCaches
  BY DEF AllCaches, WorldCaches
<1>7. fold[t].flaws = {} => Right("GET_WORLD_MAT4", fold[t].key, fold[t].value)
  BY <1>4, <1>6 DEF Right
<1>8. EntriesRight'
  BY <1>1, <1>2, <1>6, <1>7, StoredRight
<1> QED
  BY <1>1, <1>5, <1>8, FoldStep

LEMMA KeepTransformFresh ==
  ASSUME TypeInv, FreshInv, NEW t \in Readers, KeepTransform(t)
  PROVE  FreshInv'
<1>1. /\ fold' = [fold EXCEPT ![t] = NoFold]
      /\ cache' = [cache EXCEPT !["GET_WORLD_TRANSFORM"] =
           [cache["GET_WORLD_TRANSFORM"] EXCEPT ![fold[t].key] = {Entry(fold[t].value, fold[t].flaws)}]]
      /\ UNCHANGED <<Database, Clear>> /\ UNCHANGED call
      /\ call[t].stage = "none" /\ fold[t].stage = "keep_transform"
  BY DEF KeepTransform, Folding, Calling
<1>2. fold[t] \in Folds /\ FoldRight(fold[t]) /\ fold[t].key \in Refnos
  BY <1>1, ReaderFacts DEF FoldOK
<1>3. fold[t].flaws = {} => fold[t].value = WorldValue(fold[t].key)
  BY <1>1, <1>2 DEF FoldRight
<1>4. "GET_WORLD_TRANSFORM" \in AllCaches /\ "GET_WORLD_TRANSFORM" \in WorldCaches
  BY DEF AllCaches, WorldCaches
<1>5. fold[t].flaws = {} => Right("GET_WORLD_TRANSFORM", fold[t].key, fold[t].value)
  BY <1>3, <1>4 DEF Right
<1>6. EntriesRight'
  BY <1>1, <1>2, <1>4, <1>5, StoredRight
<1> QED
  BY <1>1, <1>6, IdleRight, FoldStep
\* The value of a covered cache is the same for every key the batch leaves out.
LEMMA UntouchedValue ==
  ASSUME WriterOK, NEW e \in Refnos, NEW o \in Refnos \union {None},
         \A x \in Refnos : owner'[x] = IF x = e THEN o ELSE owner[x],
         \A x \in Refnos \ {e} : attr'[x] = attr[x],
         NEW c \in Covered, NEW k \in Refnos, k \notin Touched(e, o)
  PROVE  Value(c, k)' = Value(c, k)
<1>1. k # e /\ k # owner[e] /\ k # o
  BY ElementsAssumption DEF Touched
<1>2. \A x \in Refnos \ {e} : Row(x)' = Row(x)
  BY DEF Row
<1>3. Members(k)' = Members(k) /\ e \notin Members(k)
  BY <1>1 DEF Members
<1>4. OwnerNoun(k)' = OwnerNoun(k)
  BY <1>1 DEF OwnerNoun
<1>5. {Row(x) : x \in Members(k)}' = {Row(x) : x \in Members(k)}
  <2>1. \A x \in Members(k) : Row(x)' = Row(x)
    BY <1>2, <1>3 DEF Members
  <2> QED
    BY <1>3, <2>1
<1>6. Row(k)' = Row(k)
  BY <1>1, <1>2
<1>7. CASE c \in OwnRow
  BY <1>6, <1>7 DEF Value, OwnRow, MemberLists, MemberRows, Referred
<1>8. CASE c = "GET_SELF_AND_OWNER_TYPE_NAME"
  BY <1>4, <1>8 DEF Value, OwnRow, MemberLists, MemberRows, Referred
<1>9. CASE c \in MemberLists
  BY <1>3, <1>9 DEF Value, OwnRow, MemberLists, MemberRows, Referred
<1>10. CASE c \in MemberRows
  BY <1>5, <1>10 DEF Value, OwnRow, MemberLists, MemberRows, Referred
<1> QED
  BY <1>7, <1>8, <1>9, <1>10 DEF Covered

\* An update excuses every fill that has read, and the clears to come excuse
\* what its batch names.
LEMMA ChangeFresh ==
  ASSUME TypeInv, FreshInv, NEW e \in Refnos, NEW o \in Refnos \union {None}, Change(e, o),
         \A x \in Refnos : owner'[x] = IF x = e THEN o ELSE owner[x],
         \A x \in Refnos \ {e} : attr'[x] = attr[x],
         o # e
  PROVE  FreshInv'
<1>1. NoneOwnsItself'
  BY DEF FreshInv, NoneOwnsItself
<1>2. dirty' = dirty \union Touched(e, o) /\ UNCHANGED <<cache, clearing, todo>> /\ Overtake
  BY DEF Change
<1>3. e \in Touched(e, o)
  BY ElementsAssumption DEF Touched
<1>4. EntriesRight'
  <2> SUFFICES ASSUME NEW c \in AllCaches, NEW k \in Refnos, ~ClearPending(c, k)',
                      NEW x \in cache[c][k], x.flaws = {}
               PROVE  Right(c, k, x.value)'
    BY <1>2 DEF EntriesRight
  <2>1. c \notin WorldCaches
    BY <1>2, <1>3 DEF ClearPending
  <2>2. k \notin Touched(e, o) /\ ~ClearPending(c, k)
    BY <1>2, <2>1 DEF ClearPending
  <2>3. Right(c, k, x.value)
    BY <2>2 DEF FreshInv, EntriesRight
  <2>4. CASE c = "QUERY_ANCESTOR_REFNOS"
    <3>1. owner'[k] = owner[k]
      BY <1>3, <2>2
    <3> QED
      BY <2>1, <2>3, <2>4, <3>1 DEF Right
  <2>5. CASE c # "QUERY_ANCESTOR_REFNOS" /\ c \in Covered
    <3>1. Value(c, k)' = Value(c, k)
      BY <2>2, <2>5, UntouchedValue DEF TypeInv
    <3> QED
      BY <2>1, <2>3, <2>5, <3>1 DEF Right
  <2>6. CASE c # "QUERY_ANCESTOR_REFNOS" /\ c \notin Covered
    BY <2>1, <2>6 DEF Right
  <2> QED
    BY <2>4, <2>5, <2>6
<1>5. ReadersRight'
  <2> SUFFICES ASSUME NEW t \in Readers
               PROVE  CallRight(call[t])' /\ FoldRight(fold[t])' /\ CallServesFold(call[t], fold[t])'
    BY DEF ReadersRight
  <2>0. call[t] \in Calls /\ fold[t] \in Folds /\ CallServesFold(call[t], fold[t])
    BY ReaderFacts
  <2>1. /\ call'[t].stage = call[t].stage /\ call'[t].fn = call[t].fn /\ call'[t].key = call[t].key
        /\ call[t].stage = "store" => call'[t].flaws # {}
    BY <1>2, <2>0 DEF Overtake, Calling, Calls
  <2>2. /\ fold'[t].stage = fold[t].stage /\ fold'[t].key = fold[t].key
        /\ fold[t].stage \notin {"none", "mat4", "attmaps"} => fold'[t].flaws # {}
    BY <1>2, <2>0 DEF Overtake, Folds
  <2>3. CallRight(call[t])'
    BY <2>1 DEF CallRight
  <2>4. FoldRight(fold[t])'
    BY <2>2 DEF FoldRight
  <2>5. CallServesFold(call[t], fold[t])'
    BY <2>0, <2>1, <2>2 DEF CallServesFold, Leaf
  <2> QED
    BY <2>3, <2>4, <2>5
<1> QED
  BY <1>1, <1>4, <1>5 DEF FreshInv

LEMMA ModifyFresh ==
  ASSUME TypeInv, FreshInv, NEW e \in Refnos, Modify(e)
  PROVE  FreshInv'
<1>1. owner[e] \in Refnos \union {None} /\ owner[e] # e
  BY DEF TypeInv, WriterOK, FreshInv, NoneOwnsItself
<1>2. owner' = owner /\ attr' = [attr EXCEPT ![e] = attr[e] + 1] /\ Change(e, owner[e])
  BY DEF Modify
<1>3. \A x \in Refnos : owner'[x] = IF x = e THEN owner[e] ELSE owner[x]
  BY <1>2
<1>4. \A x \in Refnos \ {e} : attr'[x] = attr[x]
  BY <1>2 DEF TypeInv, WriterOK
<1> QED
  BY <1>1, <1>2, <1>3, <1>4, ChangeFresh

LEMMA MoveFresh ==
  ASSUME TypeInv, FreshInv, NEW e \in Refnos, NEW o \in Refnos \union {None}, Move(e, o)
  PROVE  FreshInv'
<1>1. o # e
  BY UpSelf, ElementsAssumption DEF Move
<1>2. owner' = [owner EXCEPT ![e] = o] /\ attr' = attr /\ Change(e, o)
  BY DEF Move
<1>3. \A x \in Refnos : owner'[x] = IF x = e THEN o ELSE owner[x]
  BY <1>2 DEF TypeInv, WriterOK
<1> QED
  BY <1>1, <1>2, <1>3, ChangeFresh

\* The writer's clears: what they have not dropped they still have to drop.
LEMMA WriterFresh ==
  ASSUME TypeInv, FreshInv, UNCHANGED Database, UNCHANGED call, UNCHANGED fold,
         \A c \in AllCaches, k \in Refnos : ~ClearPending(c, k)' =>
           cache'[c][k] = {} \/ (cache'[c][k] \subseteq cache[c][k] /\ ~ClearPending(c, k))
  PROVE  FreshInv'
<1>1. EntriesRight'
  BY SameDatabase DEF FreshInv, EntriesRight
<1>2. ReadersRight'
  <2> SUFFICES ASSUME NEW t \in Readers
               PROVE  CallRight(call[t])' /\ FoldRight(fold[t])' /\ CallServesFold(call[t], fold[t])'
    BY DEF ReadersRight
  <2>1. CallRight(call[t]) /\ FoldRight(fold[t]) /\ CallServesFold(call[t], fold[t])
    BY ReaderFacts
  <2>2. CallRight(call[t])'
    BY <2>1, SameDatabase DEF CallRight
  <2>3. FoldRight(fold[t])'
    BY <2>1, SameDatabase DEF FoldRight, Database
  <2>4. CallServesFold(call[t], fold[t])'
    BY <2>1 DEF CallServesFold, Leaf
  <2> QED
    BY <2>2, <2>3, <2>4
<1>3. NoneOwnsItself'
  BY SameRight DEF FreshInv
<1> QED
  BY <1>1, <1>2, <1>3 DEF FreshInv

LEMMA clear_all_caches_batchFresh ==
  ASSUME TypeInv, FreshInv, clear_all_caches_batch
  PROVE  FreshInv'
<1>1. UNCHANGED Database /\ UNCHANGED call /\ UNCHANGED fold /\ UNCHANGED cache
  BY DEF clear_all_caches_batch
<1>2. \A c \in AllCaches, k \in Refnos : ~ClearPending(c, k)' => ~ClearPending(c, k)
  BY LeafCaches DEF clear_all_caches_batch, ClearPending
<1> QED
  BY <1>1, <1>2, WriterFresh

LEMMA remove_allFresh ==
  ASSUME TypeInv, FreshInv, NEW c \in AllCaches, remove_all(c)
  PROVE  FreshInv'
<1>1. UNCHANGED Database /\ UNCHANGED call /\ UNCHANGED fold
  BY DEF remove_all
<1>2. \A d \in AllCaches, k \in Refnos :
        cache'[d][k] = IF d = c /\ (c \in WorldCaches \/ k \in clearing) THEN {} ELSE cache[d][k]
  BY DEF remove_all, TypeInv, CachesOK
<1>3. \A d \in AllCaches \ {c}, k \in Refnos : ClearPending(d, k) => ClearPending(d, k)'
  BY DEF remove_all, ClearPending
<1>4. \A k \in Refnos : ~ClearPending(c, k)' => cache'[c][k] = {} \/ ~ClearPending(c, k)
  BY <1>2 DEF remove_all, ClearPending
<1>5. \A d \in AllCaches, k \in Refnos : ~ClearPending(d, k)' =>
        cache'[d][k] = {} \/ (cache'[d][k] \subseteq cache[d][k] /\ ~ClearPending(d, k))
  BY <1>2, <1>3, <1>4
<1> QED
  BY <1>1, <1>5, WriterFresh

LEMMA ReadFresh ==
  ASSUME TypeInv, FreshInv, NEW t \in Readers, Read(t)
  PROVE  FreshInv'
BY RequestFresh, QueryFresh, StoreFresh, QueryFailsFresh, get_world_transformFresh,
   get_world_mat4Fresh, get_ancestor_attmapsFresh, ReadLeafFresh, KeepMat4Fresh,
   KeepTransformFresh DEF Read

LEMMA StepFresh == TypeInv /\ FreshInv /\ [Next]_vars => FreshInv'
<1> SUFFICES ASSUME TypeInv, FreshInv, [Next]_vars PROVE FreshInv'
  OBVIOUS
<1>1. CASE UNCHANGED vars
  <2>1. UNCHANGED Database /\ UNCHANGED call /\ UNCHANGED fold /\ UNCHANGED cache /\ UNCHANGED Clear
    BY <1>1 DEF vars, Database, Clear
  <2> QED
    BY <2>1, SameClear, WriterFresh
<1>2. ASSUME NEW t \in Readers, Read(t) PROVE FreshInv'
  BY <1>2, ReadFresh
<1>3. ASSUME NEW e \in Refnos, Modify(e) PROVE FreshInv'
  BY <1>3, ModifyFresh
<1>4. ASSUME NEW e \in Refnos, NEW o \in Refnos \union {None}, Move(e, o) PROVE FreshInv'
  BY <1>4, MoveFresh
<1>5. CASE clear_all_caches_batch
  BY <1>5, clear_all_caches_batchFresh
<1>6. ASSUME NEW c \in AllCaches, remove_all(c) PROVE FreshInv'
  BY <1>6, remove_allFresh
<1> QED
  BY <1>1, <1>2, <1>3, <1>4, <1>5, <1>6 DEF Next

LEMMA FreshHolds == Spec => [](CoveredEntriesAreFresh /\ WorldEntriesAreFresh)
<1>1. Init => TypeInv /\ FreshInv
  BY InitType, InitFresh
<1>2. TypeInv /\ FreshInv /\ [Next]_vars => (TypeInv /\ FreshInv)'
  BY StepType, StepFresh
<1> QED
  BY <1>1, <1>2, FreshMeans, PTL DEF Spec

\* For the caches keyed by what they are read from, naming the changed elements
\* and their owners is enough, whatever the readers do between the statements.
THEOREM BatchCoversItsCaches == Spec => []CoveredEntriesAreFresh
<1> QED
  BY FreshHolds, PTL

\* A world transform that no update, clear or error has touched on its way is the
\* one the rows of the element, its ancestors and its reference give.
THEOREM WorldTransformsAreExcused == Spec => []WorldEntriesAreFresh
<1> QED
  BY FreshHolds, PTL
=============================================================================
