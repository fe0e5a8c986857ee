------------------------- MODULE CacheInvalidation -------------------------
(***************************************************************************)
(* The process caches of the persistent world (#[cached] functions of      *)
(* query.rs, graph.rs and spatial.rs) against a writer that changes        *)
(* elements and then calls clear_all_caches_batch with the changed elements*)
(* and their owners.                                                       *)
(*                                                                         *)
(* #[cached] holds the lock of its cache for the lookup and again for the  *)
(* store, never across the query between them, so a fill is three steps.   *)
(* The world transform is a fold of one uncached read and of reads that go *)
(* through caches of their own.                                            *)
(***************************************************************************)
EXTENDS Naturals, Sequences

CONSTANTS
  Readers,      \* tasks of the process that call cached functions
  Refnos,       \* elements
  None,         \* no element
  Noun,         \* the noun of an element: it never changes
  Ref,          \* the element an element refers to (CREF, SPRE), or None
  Caches,       \* the per-element caches of this instance
  Requests,     \* the <<cache, key>> the readers ask for
  FirstOwner,   \* the owner of every element at the start
  MaxUpdates    \* bound: changes of the writer

\* clear_all_caches_batch in the order of its statements.
ClearOrder ==
  <<"GET_WORLD_TRANSFORM", "GET_WORLD_MAT4",
    "QUERY_ANCESTOR_REFNOS", "QUERY_DEEP_CHILDREN_REFNOS", "GET_PE", "GET_TYPE_NAME",
    "GET_SELF_AND_OWNER_TYPE_NAME", "GET_SIBLINGS", "GET_NAMED_ATTMAP",
    "GET_NAMED_ATTMAP_WITH_UDA", "GET_CHILDREN_REFNOS", "GET_CHILDREN_NAMED_ATTMAPS",
    "GET_CAT_ATTMAP", "GET_CAT_REFNO", "GET_CHILDREN_PES">>

WorldCaches == {"GET_WORLD_TRANSFORM", "GET_WORLD_MAT4"}

AllCaches == Caches \union WorldCaches

\* By what the value of an element is read from.
OwnRow == {"GET_PE", "GET_TYPE_NAME", "GET_NAMED_ATTMAP"}
MemberLists == {"GET_SIBLINGS", "GET_CHILDREN_REFNOS"}
MemberRows == {"GET_CHILDREN_NAMED_ATTMAPS", "GET_CHILDREN_PES"}
Referred == {"GET_CAT_ATTMAP", "GET_CAT_REFNO", "GET_NAMED_ATTMAP_WITH_UDA"}

\* The caches whose values are read from the element, its owner's noun and its
\* members alone: the batch of changed elements and owners names their keys.
Covered == OwnRow \union {"GET_SELF_AND_OWNER_TYPE_NAME"} \union MemberLists \union MemberRows

ASSUME CachesAssumption ==
  /\ Caches \subseteq Covered \union Referred
       \union {"QUERY_ANCESTOR_REFNOS", "QUERY_DEEP_CHILDREN_REFNOS"}
  /\ {"QUERY_ANCESTOR_REFNOS", "GET_NAMED_ATTMAP"} \subseteq Caches
  /\ Requests \subseteq AllCaches \X Refnos

ASSUME ElementsAssumption ==
  /\ None \notin Refnos
  /\ Ref \in [Refnos -> Refnos \union {None}]
  /\ FirstOwner \in [Refnos -> Refnos \union {None}]
  /\ \A e \in Refnos : FirstOwner[e] # e
  /\ MaxUpdates \in Nat

VARIABLES
  owner,     \* the tree: the owner of an element, None for a root or a deleted one
  attr,      \* the version of an element's row
  updates,   \* how many changes were made
  cache,     \* per cache and key: at most one [value, flaws]
  call,      \* per reader: the cached leaf function it is in
  fold,      \* per reader: the world transform it computes
  dirty,     \* changed elements and their owners, not yet given to a clear
  clearing,  \* the argument of the running clear_all_caches_batch
  todo       \* the caches it has still to clear

vars == <<owner, attr, updates, cache, call, fold, dirty, clearing, todo>>

-----------------------------------------------------------------------------
(* What the functions compute *)

Members(k) == {e \in Refnos : owner[e] = k}

Closed(S) == \A e \in S : owner[e] \in S \union {None}

\* fn::ancestor: the element and its owners up to the root.
Up(k) == {e \in Refnos : \A S \in SUBSET Refnos : (k \in S /\ Closed(S)) => e \in S}

Under(k) == {e \in Refnos : k \in Up(e)}

OwnerNoun(k) == IF owner[k] = None THEN None ELSE Noun[owner[k]]

Row(e) == <<e, attr[e], owner[e]>>

\* The value of a cached function, asked of the database as it is now.
Value(c, k) ==
  CASE c \in OwnRow -> Row(k)
    [] c = "GET_SELF_AND_OWNER_TYPE_NAME" -> <<Noun[k], OwnerNoun(k)>>
    [] c \in MemberLists -> Members(k)
    [] c \in MemberRows -> {Row(e) : e \in Members(k)}
    [] c \in Referred -> IF Ref[k] = None THEN Row(k) ELSE Row(Ref[k])
    [] c = "QUERY_ANCESTOR_REFNOS" -> Up(k)
    [] OTHER -> Under(k)    \* QUERY_DEEP_CHILDREN_REFNOS

\* The ancestors' rows (get_ancestor_attmaps, not cached) and, of a joint, the
\* row of the element it is connected to.
Rows(k) == {Row(e) : e \in Up(k)}
NoWorld == [up |-> {}, joint |-> {}]
WorldValue(k) ==
  IF owner[k] = None THEN NoWorld
  ELSE [up |-> Rows(k), joint |-> {Row(e) : e \in {Ref[k]} \ {None}}]

\* Whether the running or the next clear will still drop the entry.
ClearPending(c, k) ==
  IF c \in WorldCaches THEN dirty # {} \/ c \in todo
  ELSE k \in dirty \/ (c \in todo /\ k \in clearing)

AnyClearPending == dirty # {} \/ todo # {}

-----------------------------------------------------------------------------
(* Fills.  flaws is a history of the fill: "update" if the database changed  *)
(* since its first read, "clear" if it was served an entry a clear had still *)
(* to drop, "error" if an error was swallowed.                            *)

Flaws == {"update", "clear", "error"}

NoCall == [stage |-> "none", fn |-> "none", key |-> None, value |-> {}, flaws |-> {}]
NoFold == [stage |-> "none", key |-> None, up |-> {}, value |-> NoWorld, flaws |-> {}]

Entry(v, f) == [value |-> v, flaws |-> f]

Init ==
  /\ owner = FirstOwner
  /\ attr = [e \in Refnos |-> 0]
  /\ updates = 0
  /\ cache = [c \in AllCaches |-> [k \in Refnos |-> {}]]
  /\ call = [t \in Readers |-> NoCall]
  /\ fold = [t \in Readers |-> NoFold]
  /\ dirty = {} /\ clearing = {} /\ todo = {}

Database == <<owner, attr, updates>>
Clear == <<dirty, clearing, todo>>

Calling(t, stage) == call[t].stage = stage
Folding(t, stage) == fold[t].stage = stage /\ Calling(t, "none")
Idle(t) == Calling(t, "none") /\ Folding(t, "none")

\* A lookup that misses: the lock of the cache is given up again.
Miss(t, c, k) ==
  /\ cache[c][k] = {}
  /\ call' = [call EXCEPT ![t] = [NoCall EXCEPT !.stage = "query", !.fn = c, !.key = k]]

\* What a hit adds to the flaws of the fill it serves.
Served(c, k) ==
  (UNION {entry.flaws : entry \in cache[c][k]})
    \union (IF ClearPending(c, k) THEN {"clear"} ELSE {})

\* Application code calls a cached function; a hit changes nothing.
Request(t, c, k) ==
  /\ <<c, k>> \in Requests
  /\ c \in Caches
  /\ Idle(t)
  /\ Miss(t, c, k)
  /\ UNCHANGED <<Database, cache, fold, Clear>>

\* The database answers with its present state.
Query(t) ==
  /\ Calling(t, "query")
  /\ call' = [call EXCEPT ![t] = [call[t] EXCEPT
                !.stage = "store", !.value = Value(call[t].fn, call[t].key)]]
  /\ UNCHANGED <<Database, cache, fold, Clear>>

-----------------------------------------------------------------------------
(* get_world_transform outside every context *)

\* What the fold does with the answer of the leaf it waits for, if there is one.
Resume(t, answer, flaws) ==
  LET f == fold[t]
      sofar == f.flaws \union flaws
      done(w) == [f EXCEPT !.stage = "keep_mat4", !.value = w, !.flaws = sofar]
  IN  fold' = [fold EXCEPT ![t] =
        CASE f.stage = "none" -> f
          [] f.stage = "refnos" ->
               IF UNION answer \subseteq {f.key} THEN done(NoWorld)
               ELSE IF Ref[f.key] = None THEN done([up |-> f.up, joint |-> {}])
               ELSE [f EXCEPT !.stage = "joint", !.flaws = sofar]
          [] OTHER -> done([up |-> f.up, joint |-> answer])]

\* #[cached(result = true)] stores the value under the lock of its cache.
Store(t) ==
  /\ Calling(t, "store")
  /\ cache' = [cache EXCEPT ![call[t].fn] =
                [cache[call[t].fn] EXCEPT ![call[t].key] = {Entry(call[t].value, call[t].flaws)}]]
  /\ call' = [call EXCEPT ![t] = NoCall]
  /\ Resume(t, {call[t].value}, call[t].flaws)
  /\ UNCHANGED <<Database, Clear>>

\* The query errs: nothing is stored, the ? operator ends the fold, but the
\* joint's `if let Ok` carries on without it.
QueryFails(t) ==
  /\ Calling(t, "query")
  /\ call' = [call EXCEPT ![t] = NoCall]
  /\ IF fold[t].stage = "joint" THEN Resume(t, {}, {"error"})
     ELSE fold' = [fold EXCEPT ![t] = NoFold]
  /\ UNCHANGED <<Database, cache, Clear>>

get_world_transform(t, k) ==
  /\ <<"GET_WORLD_TRANSFORM", k>> \in Requests
  /\ Idle(t)
  /\ cache["GET_WORLD_TRANSFORM"][k] = {}
  /\ fold' = [fold EXCEPT ![t] = [NoFold EXCEPT !.stage = "mat4", !.key = k]]
  /\ UNCHANGED <<Database, cache, call, Clear>>

get_world_mat4(t) ==
  LET entries == cache["GET_WORLD_MAT4"][fold[t].key]
  IN  /\ Folding(t, "mat4")
      /\ \/ /\ entries = {}
            /\ fold' = [fold EXCEPT ![t] = [fold[t] EXCEPT !.stage = "attmaps"]]
         \/ \E entry \in entries :
              fold' = [fold EXCEPT ![t] = [fold[t] EXCEPT
                !.stage = "keep_transform", !.value = entry.value,
                !.flaws = Served("GET_WORLD_MAT4", fold[t].key)]]
      /\ UNCHANGED <<Database, cache, call, Clear>>

get_ancestor_attmaps(t) ==
  /\ Folding(t, "attmaps")
  /\ \/ fold' = [fold EXCEPT ![t] = [fold[t] EXCEPT !.stage = "refnos", !.up = Rows(fold[t].key)]]
     \/ fold' = [fold EXCEPT ![t] = NoFold]     \* the query errs
  /\ UNCHANGED <<Database, cache, call, Clear>>

\* The leaf the fold reads next, through its cache.
Leaf(f) ==
  IF f.stage = "refnos" THEN <<"QUERY_ANCESTOR_REFNOS", f.key>>
  ELSE <<"GET_NAMED_ATTMAP", Ref[f.key]>>

ReadLeaf(t) ==
  LET leaf == Leaf(fold[t])
  IN  /\ Folding(t, "refnos") \/ Folding(t, "joint")
      /\ \/ /\ \E entry \in cache[leaf[1]][leaf[2]] :
                 Resume(t, {entry.value}, Served(leaf[1], leaf[2]))
            /\ UNCHANGED call
         \/ /\ Miss(t, leaf[1], leaf[2])
            /\ UNCHANGED fold
      /\ UNCHANGED <<Database, cache, Clear>>

KeepMat4(t) ==
  /\ Folding(t, "keep_mat4")
  /\ cache' = [cache EXCEPT !["GET_WORLD_MAT4"] =
       [cache["GET_WORLD_MAT4"] EXCEPT ![fold[t].key] = {Entry(fold[t].value, fold[t].flaws)}]]
  /\ fold' = [fold EXCEPT ![t] = [fold[t] EXCEPT !.stage = "keep_transform"]]
  /\ UNCHANGED <<Database, call, Clear>>

KeepTransform(t) ==
  /\ Folding(t, "keep_transform")
  /\ cache' = [cache EXCEPT !["GET_WORLD_TRANSFORM"] =
       [cache["GET_WORLD_TRANSFORM"] EXCEPT ![fold[t].key] = {Entry(fold[t].value, fold[t].flaws)}]]
  /\ fold' = [fold EXCEPT ![t] = NoFold]
  /\ UNCHANGED <<Database, call, Clear>>

-----------------------------------------------------------------------------
(* The writer: the incremental pipeline outside this crate *)

\* Every fill that has read something has been overtaken by the change.
Overtake ==
  /\ call' = [t \in Readers |->
       IF Calling(t, "store") THEN [call[t] EXCEPT !.flaws = call[t].flaws \union {"update"}]
       ELSE call[t]]
  /\ fold' = [t \in Readers |->
       IF fold[t].stage \in {"none", "mat4", "attmaps"} THEN fold[t]
       ELSE [fold[t] EXCEPT !.flaws = fold[t].flaws \union {"update"}]]

Touched_owners_left_out(e, o) == {e}                \* (mutant)
Touched_unfiltered(e, o) == {e, owner[e], o}       \* (mutant)

\* geom.rs: the pipeline names the changed elements and their owners.
Touched(e, o) == {e, owner[e], o} \ {None}

Change(e, o) ==
  /\ updates < MaxUpdates
  /\ updates' = updates + 1
  /\ dirty' = dirty \union Touched(e, o)
  /\ Overtake
  /\ UNCHANGED <<cache, clearing, todo>>

\* An element's attributes change.
Modify(e) ==
  /\ Change(e, owner[e])
  /\ attr' = [attr EXCEPT ![e] = attr[e] + 1]
  /\ UNCHANGED owner

\* An element is moved, deleted (no owner) or inserted (it had none).
Move(e, o) ==
  /\ Change(e, o)
  /\ o # owner[e]
  /\ o # None => e \notin Up(o)    \* not below itself
  /\ owner' = [owner EXCEPT ![e] = o]
  /\ UNCHANGED attr

\* The call: an empty batch still drops the world caches.
clear_all_caches_batch ==
  /\ todo = {}
  /\ clearing' = dirty
  /\ dirty' = {}
  /\ todo' = IF dirty = {} THEN WorldCaches ELSE AllCaches
  /\ UNCHANGED <<Database, cache, call, fold>>

Position == [c \in AllCaches |-> CHOOSE i \in DOMAIN ClearOrder : ClearOrder[i] = c]

remove_all_by_key(c) ==    \* (mutant) the world caches are not dropped wholesale
  /\ c \in todo
  /\ \A d \in todo \ {c} : Position[c] < Position[d]
  /\ cache' = [cache EXCEPT ![c] = [k \in Refnos |-> IF k \in clearing THEN {} ELSE cache[c][k]]]
  /\ todo' = todo \ {c}
  /\ clearing' = IF todo = {c} THEN {} ELSE clearing
  /\ UNCHANGED <<Database, call, fold, dirty>>

\* One statement of it, under the lock of one cache.
remove_all(c) ==
  /\ c \in todo
  /\ \A d \in todo \ {c} : Position[c] < Position[d]
  /\ cache' = [cache EXCEPT ![c] =
       [k \in Refnos |-> IF c \in WorldCaches \/ k \in clearing THEN {} ELSE cache[c][k]]]
  /\ todo' = todo \ {c}
  /\ clearing' = IF todo = {c} THEN {} ELSE clearing
  /\ UNCHANGED <<Database, call, fold, dirty>>

Read(t) ==
  \/ \E c \in Caches, k \in Refnos : Request(t, c, k)
  \/ \E k \in Refnos : get_world_transform(t, k)
  \/ Query(t)
  \/ QueryFails(t)
  \/ Store(t)
  \/ get_world_mat4(t)
  \/ get_ancestor_attmaps(t)
  \/ ReadLeaf(t)
  \/ KeepMat4(t)
  \/ KeepTransform(t)

Next ==
  \/ \E t \in Readers : Read(t)
  \/ \E e \in Refnos : Modify(e)
  \/ \E e \in Refnos, o \in Refnos \union {None} : Move(e, o)
  \/ clear_all_caches_batch
  \/ \E c \in AllCaches : remove_all(c)

Spec == Init /\ [][Next]_vars

-----------------------------------------------------------------------------
(* Properties *)

TypeOK ==
  /\ owner \in [Refnos -> Refnos \union {None}]
  /\ attr \in [Refnos -> Nat]
  /\ updates \in Nat
  /\ \A t \in Readers :
       /\ call[t].stage \in {"none", "query", "store"}
       /\ call[t].stage # "none" => call[t].fn \in Caches /\ call[t].key \in Refnos
       /\ fold[t].stage \in {"none", "mat4", "attmaps", "refnos", "joint", "keep_mat4", "keep_transform"}
       /\ fold[t].stage # "none" => fold[t].key \in Refnos
       /\ fold[t].stage = "joint" => Ref[fold[t].key] # None
  /\ dirty \subseteq Refnos
  /\ clearing \subseteq Refnos
  /\ todo \subseteq AllCaches

\* The values the cache answers with although nothing excuses a stale one.
Sound(c, k) ==
  IF ClearPending(c, k) THEN {}
  ELSE {entry.value : entry \in {x \in cache[c][k] : x.flaws = {}}}

\* An entry of a cache keyed by what it is read from is outdated only while a
\* clear is still to drop it, or when an update overtook its fill: the batch of
\* changed elements and owners is enough for these caches.
CoveredEntriesAreFresh ==
  \A c \in Caches \intersect Covered, k \in Refnos :
    \A v \in Sound(c, k) : v = Value(c, k)

\* A world transform is wrong only when its fold overlapped an update or a clear
\* or swallowed an error, or was built on an entry of which that is true.
WorldEntriesAreFresh ==
  \A c \in WorldCaches, k \in Refnos : \A v \in Sound(c, k) : v = WorldValue(k)

(***************************************************************************)
(* What the comments say and the code does not do.                         *)
(***************************************************************************)

\* query.rs:1022-1026: dropping the world caches once per batch is enough.  An
\* entry whose fold no update overtook is right once the clear has ended.
OncePerBatchIsEnough ==
  ~AnyClearPending =>
    \A c \in WorldCaches, k \in Refnos : \A entry \in cache[c][k] :
      entry.flaws \subseteq {"clear"} => entry.value = WorldValue(k)

\* geom.rs:65-66: the cache of query_deep_children_refnos is covered by the
\* invalidation.
DeepChildrenAreCovered ==
  ("QUERY_DEEP_CHILDREN_REFNOS" \in Caches /\ ~AnyClearPending) =>
    \A k \in Refnos : \A v \in Sound("QUERY_DEEP_CHILDREN_REFNOS", k) : v = Under(k)
=============================================================================
