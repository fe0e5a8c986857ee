------------------------ MODULE ReadRouting_proofs ------------------------
(***************************************************************************)
(* Proofs about ReadRouting, for every set of tasks, elements, staging     *)
(* databases and providers, and for every nesting and call depth.          *)
(***************************************************************************)
EXTENDS ReadRouting, SequenceTheorems, TLAPS

-----------------------------------------------------------------------------
(***************************************************************************)
(* Part 1.  Stacks of frames.                                              *)
(***************************************************************************)

\* Every frame but the last waits for the collector its next step names.
Linked(s) ==
  \A i \in 1 .. Len(s) - 1 :
    /\ s[i].todo # <<>>
    /\ Head(s[i].todo).kind \in {"call", "try"}
    /\ s[i + 1].op = Head(s[i].todo).arg

\* The last frame has a step to do.
Busy(s) == s # <<>> /\ s[Len(s)].todo # <<>>

\* A frame that has done a step is a frame: it kept all but its todo and got.
LEMMA AdvancedFrame ==
  ASSUME NEW f \in Frame, f.todo # <<>>, NEW tags \in SUBSET Tags
  PROVE  LET g == [f EXCEPT !.todo = Tail(f.todo), !.got = f.got \union tags]
         IN  /\ g \in Frame
             /\ g.op = f.op /\ g.key = f.key /\ g.cache = f.cache
             /\ g.todo = Tail(f.todo) /\ g.got = f.got \union tags
<1>1. f.todo \in Seq(Step) BY DEF Frame
<1>2. Tail(f.todo) \in Seq(Step) BY <1>1, HeadTailProperties
<1>3. QED BY <1>2 DEF Frame

\* Advance changes the last frame of a stack only.
LEMMA AdvanceProperties ==
  ASSUME NEW s \in Seq(Frame), Busy(s), NEW tags \in SUBSET Tags
  PROVE  LET a == Advance(s, tags)
             f == s[Len(s)]
             g == [f EXCEPT !.todo = Tail(f.todo), !.got = f.got \union tags]
         IN  /\ a \in Seq(Frame)
             /\ Len(a) = Len(s)
             /\ \A i \in 1 .. Len(s) : a[i] = IF i = Len(s) THEN g ELSE s[i]
<1> DEFINE f == s[Len(s)]
           g == [f EXCEPT !.todo = Tail(f.todo), !.got = f.got \union tags]
<1>1. Len(s) \in 1 .. Len(s) BY EmptySeq DEF Busy
<1>2. f \in Frame BY <1>1, ElementOfSeq
<1>3. g \in Frame BY <1>2, AdvancedFrame DEF Busy
<1>4. Advance(s, tags) = [s EXCEPT ![Len(s)] = g] BY DEF Advance
<1> HIDE DEF g
<1>5. QED BY <1>1, <1>3, <1>4, ExceptSeq DEF g

LEMMA PopProperties ==
  ASSUME NEW S, NEW s \in Seq(S), s # <<>>
  PROVE  /\ Pop(s) \in Seq(S)
         /\ Len(Pop(s)) = Len(s) - 1
         /\ \A i \in 1 .. Len(s) - 1 : Pop(s)[i] = s[i]
<1>1. Len(s) \in Nat \ {0} BY EmptySeq
<1>2. \A i \in 1 .. Len(s) - 1 : s[i] \in S BY <1>1, ElementOfSeq
<1>3. Len(s) - 1 \in Int BY <1>1
<1> DEFINE n == Len(s) - 1
<1> HIDE DEF n
<1>4. /\ SubSeq(s, 1, n) \in Seq(S)
      /\ Len(SubSeq(s, 1, n)) = IF 1 <= n THEN n - 1 + 1 ELSE 0
      /\ \A i \in 1 .. n - 1 + 1 : SubSeq(s, 1, n)[i] = s[1 + i - 1]
  BY <1>2, <1>3, SubSeqProperties DEF n
<1>5. n \in Nat /\ n - 1 + 1 = n BY <1>1 DEF n
<1>6. \A i \in 1 .. n : 1 + i - 1 = i BY <1>5
<1>7. Pop(s) = SubSeq(s, 1, n) BY DEF Pop, n
<1>8. Len(Pop(s)) = n BY <1>4, <1>5, <1>7
<1>9. \A i \in 1 .. n : Pop(s)[i] = s[i] BY <1>4, <1>5, <1>6, <1>7
<1>10. QED BY <1>4, <1>7, <1>8, <1>9 DEF n

\* A linked stack stays linked when its last frame does a step, is dropped,
\* or is followed by the frame of the collector it calls.
LEMMA AdvanceLinked ==
  ASSUME NEW s \in Seq(Frame), Busy(s), Linked(s), NEW tags \in SUBSET Tags
  PROVE  Linked(Advance(s, tags))
<1>1. Len(s) \in Nat BY LenProperties
<1> DEFINE a == Advance(s, tags)
<1>2. s[Len(s)] \in Frame BY EmptySeq, ElementOfSeq DEF Busy
<1> DEFINE f == s[Len(s)]
           g == [f EXCEPT !.todo = Tail(f.todo), !.got = f.got \union tags]
<1>3. /\ Len(a) = Len(s)
      /\ \A i \in 1 .. Len(s) : a[i] = IF i = Len(s) THEN g ELSE s[i]
  BY AdvanceProperties
<1>4. g.op = f.op BY <1>2, AdvancedFrame DEF Busy
<1> HIDE DEF a, g
<1>5. \A i \in 1 .. Len(s) - 1 : a[i] = s[i] /\ a[i + 1].op = s[i + 1].op
  BY <1>1, <1>3, <1>4
<1>6. Linked(a) BY <1>1, <1>3, <1>5 DEF Linked
<1>7. QED BY <1>6 DEF a

LEMMA PopLinked ==
  ASSUME NEW s \in Seq(Frame), s # <<>>, Linked(s)
  PROVE  /\ Linked(Pop(s))
         /\ Len(s) # 1 => Busy(Pop(s))
<1>1. Len(s) \in Nat \ {0} BY EmptySeq
<1>2. /\ Pop(s) \in Seq(Frame)
      /\ Len(Pop(s)) = Len(s) - 1
      /\ \A i \in 1 .. Len(s) - 1 : Pop(s)[i] = s[i]
  BY PopProperties
<1>3. Linked(Pop(s))
  <2>1. \A i \in 1 .. Len(Pop(s)) - 1 : i \in 1 .. Len(s) - 1 /\ i + 1 \in 1 .. Len(s) - 1
    BY <1>1, <1>2
  <2>2. \A i \in 1 .. Len(Pop(s)) - 1 : Pop(s)[i] = s[i] /\ Pop(s)[i + 1] = s[i + 1]
    BY <1>2, <2>1
  <2> QED BY <2>1, <2>2 DEF Linked
<1>4. Len(s) # 1 => Pop(s) # <<>> BY <1>1, <1>2, EmptySeq
<1>5. QED BY <1>1, <1>2, <1>3, <1>4, EmptySeq DEF Linked, Busy

LEMMA CallLinked ==
  ASSUME NEW s \in Seq(Frame), Busy(s), Linked(s), NEW f \in Frame,
         Head(s[Len(s)].todo).kind \in {"call", "try"},
         f.op = Head(s[Len(s)].todo).arg
  PROVE  Linked(Append(s, f))
<1>1. Len(s) \in Nat BY LenProperties
<1>2. /\ Len(Append(s, f)) = Len(s) + 1
      /\ \A i \in 1 .. Len(s) : Append(s, f)[i] = s[i]
      /\ Append(s, f)[Len(s) + 1] = f
  BY AppendProperties
<1>3. QED BY <1>1, <1>2 DEF Linked, Busy

\* The frame of a caller whose call erred: nothing left but to err in turn.
LEMMA UnwindProperties ==
  ASSUME NEW s \in Seq(Frame), s # <<>>, Linked(s)
  PROVE  /\ Unwind(s) \in Seq(Frame)
         /\ Linked(Unwind(s))
<1>1. Len(s) \in Nat \ {0} BY EmptySeq
<1>2. CASE Len(s) = 1 BY <1>2 DEF Unwind, Linked
<1>3. CASE Len(s) # 1 /\ Head(s[Len(s) - 1].todo).kind = "try"
  <2>1. Unwind(s) = Advance(Pop(s), {Swallowed}) BY <1>3 DEF Unwind
  <2>2. Pop(s) \in Seq(Frame) /\ Linked(Pop(s)) /\ Busy(Pop(s))
    BY <1>3, PopProperties, PopLinked
  <2>3. {Swallowed} \in SUBSET Tags BY DEF Tags
  <2>4. Advance(Pop(s), {Swallowed}) \in Seq(Frame)
    BY <2>2, <2>3, AdvanceProperties
  <2>5. Linked(Advance(Pop(s), {Swallowed})) BY <2>2, <2>3, AdvanceLinked
  <2>6. QED BY <2>1, <2>4, <2>5
<1>4. CASE Len(s) # 1 /\ Head(s[Len(s) - 1].todo).kind # "try"
  <2> DEFINE p == Pop(s)
             n == Len(s) - 1
             f == [s[n] EXCEPT !.todo = <<Erring>>]
  <2>1. p \in Seq(Frame) /\ Len(p) = n /\ Linked(p) BY PopProperties, PopLinked
  <2>. n \in 1 .. Len(p) BY <1>1, <1>4, <2>1
  <2>2. Unwind(s) = [p EXCEPT ![n] = f] BY <1>4 DEF Unwind
  <2>3. p[n] = s[n] /\ p[n] \in Frame BY <2>1, ElementOfSeq, PopProperties
  <2>4. <<Erring>> \in Seq(Step) BY DEF Step
  <2>5. f \in Frame /\ f.op = p[n].op BY <2>3, <2>4 DEF Frame
  <2> HIDE DEF p, n, f
  <2>6. /\ [p EXCEPT ![n] = f] \in Seq(Frame)
        /\ Len([p EXCEPT ![n] = f]) = Len(p)
        /\ \A j \in 1 .. Len(p) : [p EXCEPT ![n] = f][j] = IF j = n THEN f ELSE p[j]
    BY <2>1, <2>5, ExceptSeq
  <2>7. Len(p) \in Nat BY <2>1, LenProperties
  <2>8. Linked([p EXCEPT ![n] = f]) BY <2>1, <2>5, <2>6, <2>7 DEF Linked
  <2>9. QED BY <2>2, <2>6, <2>8
<1>5. QED BY <1>2, <1>3, <1>4

-----------------------------------------------------------------------------
(***************************************************************************)
(* Part 2.  Plans: what a collector may do in the current context.         *)
(***************************************************************************)
FaithfulSteps(w) == {Ask(w), Erring} \union {Call(op) : op \in Faithful(w)}
PersistentSteps  == {Ask(Persistent), Erring}

\* The task-locals agree with the world the computation is about.
Fits(c) ==
  /\ c.world = Persistent => c.staging = None /\ c.direct = None
  /\ c.world \in StagingDbs => c.staging = c.world /\ c.direct = None
  /\ c.world \in Providers => c.staging = None /\ c.direct = c.world

FaithfulHere(t, op) == Fits(Current(t)) /\ op \in Faithful(Current(t).world)

GoodPlan(t, op, plan) ==
  /\ plan.cache \in Caches \union {None}
  /\ plan.todo \in Seq(Step)
  /\ plan.cache \in PersistentOnlyCaches => plan.todo \in Seq(PersistentSteps)
  /\ FaithfulHere(t, op) =>
       /\ plan.todo \in Seq(FaithfulSteps(Current(t).world))
       /\ plan.cache # None =>
            plan.cache \in PersistentOnlyCaches /\ Current(t).world = Persistent

\* What the task-locals say about the world.
LEMMA ContextWorld ==
  ASSUME NEW t, Current(t) \in Context, NEW op
  PROVE  /\ Current(t).world \in Worlds
         /\ active_staging_reads(t) \in Worlds \union {None}
         /\ active_direct_reads(t) \in Worlds \union {None}
         /\ data_db(t) \in Worlds
         /\ active_staging_reads(t) = None => data_db(t) = Persistent
         /\ FaithfulHere(t, op) =>
              /\ active_direct_reads(t) # None => Current(t).world = active_direct_reads(t)
              /\ active_staging_reads(t) # None => Current(t).world = active_staging_reads(t)
              /\ active_direct_reads(t) = None => Current(t).world = data_db(t)
              /\ op \notin StagingFaithful => active_staging_reads(t) = None
              /\ op \notin DirectFaithful => active_direct_reads(t) = None
<1>1. Persistent \in Worlds /\ None \notin Worlds /\ Persistent # None
  BY RoutingAssumption DEF Worlds, Persistent, None
<1>2. /\ Current(t).world \in Worlds
      /\ Current(t).staging \in StagingDbs \union {None}
      /\ Current(t).direct \in Providers \union {None}
  BY DEF Context
<1>3. Persistent \notin StagingDbs \union Providers
  BY RoutingAssumption
<1>4. QED
  BY <1>1, <1>2, <1>3, RoutingAssumption
  DEF Worlds, active_staging_reads, active_direct_reads, data_db, FaithfulHere,
      Fits, Faithful

\* A body that asks one world is good, cached or not, if that world is the
\* one the context stands for.
LEMMA AskIsGood ==
  ASSUME NEW t, Current(t) \in Context, NEW op,
         NEW c \in Caches \union {None}, NEW d \in Worlds,
         c \in PersistentOnlyCaches => d = Persistent,
         FaithfulHere(t, op) =>
           /\ d = Current(t).world
           /\ c # None => c \in PersistentOnlyCaches /\ d = Persistent
  PROVE  GoodPlan(t, op, [cache |-> c, todo |-> <<Ask(d)>>])
<1> DEFINE w == Current(t).world
<1>1. Ask(d) \in Step BY DEF Step, Ask
<1>2. <<Ask(d)>> \in Seq(Step) BY <1>1
<1>3. c \in PersistentOnlyCaches => <<Ask(d)>> \in Seq(PersistentSteps)
  BY DEF PersistentSteps
<1>4. FaithfulHere(t, op) => <<Ask(d)>> \in Seq(FaithfulSteps(w))
  BY DEF FaithfulSteps
<1>5. QED BY <1>2, <1>3, <1>4 DEF GoodPlan

\* A body that is neither cached nor faithful only has to be made of steps.
LEMMA StepsAreGood ==
  ASSUME NEW t, NEW op, NEW c \in (Caches \ PersistentOnlyCaches) \union {None},
         NEW todo \in Seq(Step), ~FaithfulHere(t, op)
  PROVE  GoodPlan(t, op, [cache |-> c, todo |-> todo])
<1>1. c \notin PersistentOnlyCaches BY DEF PersistentOnlyCaches, Caches, None
<1>2. QED BY <1>1 DEF GoodPlan

AllGood(t, op, plans) == \A plan \in plans : GoodPlan(t, op, plan)

\* An active context is the world itself.
LEMMA DirectOrGood ==
  ASSUME NEW t, Current(t) \in Context, NEW op, NEW otherwise,
         active_direct_reads(t) = None => AllGood(t, op, otherwise)
  PROVE  AllGood(t, op, DirectOr(t, otherwise))
<1>1. CASE active_direct_reads(t) = None BY <1>1 DEF DirectOr
<1>2. CASE active_direct_reads(t) # None
  <2>1. active_direct_reads(t) \in Worlds BY <1>2, ContextWorld
  <2>2. None \notin PersistentOnlyCaches BY DEF PersistentOnlyCaches, Caches, None
  <2>3. GoodPlan(t, op, [cache |-> None, todo |-> <<Ask(active_direct_reads(t))>>])
    BY <1>2, <2>1, <2>2, ContextWorld, AskIsGood
  <2>4. QED BY <1>2, <2>3 DEF DirectOr, AllGood, Plain
<1>3. QED BY <1>1, <1>2

LEMMA StagingOrGood ==
  ASSUME NEW t, Current(t) \in Context, NEW op, NEW otherwise,
         active_staging_reads(t) = None => AllGood(t, op, otherwise)
  PROVE  AllGood(t, op, StagingOr(t, otherwise))
<1>1. CASE active_staging_reads(t) = None BY <1>1 DEF StagingOr
<1>2. CASE active_staging_reads(t) # None
  <2>1. active_staging_reads(t) \in Worlds BY <1>2, ContextWorld
  <2>2. None \notin PersistentOnlyCaches BY DEF PersistentOnlyCaches, Caches, None
  <2>3. GoodPlan(t, op, [cache |-> None, todo |-> <<Ask(active_staging_reads(t))>>])
    BY <1>2, <2>1, <2>2, ContextWorld, AskIsGood
  <2>4. QED BY <1>2, <2>3 DEF StagingOr, AllGood, Plain
<1>3. QED BY <1>1, <1>2

\* SUL_DB by name: sound where the collector is not faithful in a context.
LEMMA SulGood ==
  ASSUME NEW t, Current(t) \in Context, NEW op,
         op \in StagingFaithful => active_staging_reads(t) = None,
         op \in DirectFaithful => active_direct_reads(t) = None
  PROVE  /\ AllGood(t, op, Plain(Sul))
         /\ \A c \in PersistentOnlyCaches : AllGood(t, op, Cached(c, Sul))
<1>1. Persistent \in Worlds BY DEF Worlds
<1>2. None \notin PersistentOnlyCaches /\ PersistentOnlyCaches \subseteq Caches
  BY DEF PersistentOnlyCaches, Caches, None
<1>3. FaithfulHere(t, op) => Current(t).world = Persistent BY ContextWorld
<1>4. GoodPlan(t, op, [cache |-> None, todo |-> <<Ask(Persistent)>>])
  BY <1>1, <1>2, <1>3, AskIsGood
<1>5. \A c \in PersistentOnlyCaches :
        GoodPlan(t, op, [cache |-> c, todo |-> <<Ask(Persistent)>>])
  BY <1>1, <1>2, <1>3, AskIsGood
<1>6. QED BY <1>4, <1>5 DEF AllGood, Plain, Cached, Sul

\* data_db(): the staging database or SUL_DB, blind to a direct context.
LEMMA DataDbGood ==
  ASSUME NEW t, Current(t) \in Context, NEW op,
         op \in DirectFaithful => active_direct_reads(t) = None
  PROVE  /\ AllGood(t, op, Plain(<<Ask(data_db(t))>>))
         /\ active_staging_reads(t) = None =>
              \A c \in PersistentOnlyCaches : AllGood(t, op, Cached(c, <<Ask(data_db(t))>>))
<1>1. data_db(t) \in Worlds BY ContextWorld
<1>2. None \notin PersistentOnlyCaches /\ PersistentOnlyCaches \subseteq Caches
  BY DEF PersistentOnlyCaches, Caches, None
<1>3. FaithfulHere(t, op) => Current(t).world = data_db(t) BY ContextWorld
<1>4. GoodPlan(t, op, [cache |-> None, todo |-> <<Ask(data_db(t))>>])
  BY <1>1, <1>2, <1>3, AskIsGood
<1>5. ASSUME active_staging_reads(t) = None, NEW c \in PersistentOnlyCaches
      PROVE  GoodPlan(t, op, [cache |-> c, todo |-> <<Ask(data_db(t))>>])
  <2>1. data_db(t) = Persistent BY <1>5, ContextWorld
  <2>2. QED BY <1>1, <1>2, <1>3, <2>1, AskIsGood
<1>6. QED BY <1>4, <1>5 DEF AllGood, Plain, Cached

\* A body of a collector that promises nothing about worlds, not filling a
\* persistent-only cache, has only to be made of steps.
LEMMA CompositeGood ==
  ASSUME NEW t, NEW op, op \notin StagingFaithful \union DirectFaithful \union PersistentFaithful,
         NEW todo \in Seq(Step)
  PROVE  /\ AllGood(t, op, Plain(todo))
         /\ \A c \in (Caches \ PersistentOnlyCaches) \union {None} :
              GoodPlan(t, op, [cache |-> c, todo |-> todo])
<1>1. ~FaithfulHere(t, op) BY DEF FaithfulHere, Faithful
<1>2. QED BY <1>1, StepsAreGood DEF AllGood, Plain

\* A body that calls and asks only what is faithful to the same world.
LEMMA FaithfulGood ==
  ASSUME NEW t, NEW op, NEW todo \in Seq(Step),
         FaithfulHere(t, op) => todo \in Seq(FaithfulSteps(Current(t).world))
  PROVE  AllGood(t, op, Plain(todo))
<1>1. None \notin PersistentOnlyCaches BY DEF PersistentOnlyCaches, Caches, None
<1>2. QED BY <1>1 DEF AllGood, Plain, GoodPlan

LEMMA StepsAreSteps ==
  /\ \A w \in Worlds : Ask(w) \in Step /\ SoftAsk(w) \in Step
  /\ \A op \in CollectorNames : Call(op) \in Step /\ Try(op) \in Step
BY DEF Step, Ask, SoftAsk, Call, Try

\* The world fold is made of steps, whichever way the data sends it.
LEMMA WorldFoldSteps == \A todo \in WorldFold : todo \in Seq(Step)
<1> DEFINE base == <<Call("get_ancestor_attmaps"), Call("query_ancestor_refnos")>>
           parts == <<Call("fold_spine"), Call("fold_cut"), Call("fold_zdis"), Call("fold_posl")>>
<1>1. base \in Seq(Step) BY StepsAreSteps DEF CollectorNames
<1>2. parts \in Seq(Step) BY StepsAreSteps DEF CollectorNames
<1>3. WorldFold = {base, base \o parts} BY DEF WorldFold
<1> HIDE DEF base, parts
<1>4. QED BY <1>1, <1>2, <1>3, ConcatProperties

\* Without a direct context, only staging and persistent collectors are faithful.
LEMMA NoDirectContext ==
  ASSUME NEW t, NEW op, active_direct_reads(t) = None,
         op \notin StagingFaithful \union PersistentFaithful
  PROVE  ~FaithfulHere(t, op)
BY RoutingAssumption DEF FaithfulHere, Faithful, Fits, active_direct_reads

\* The plans of every collector are good.
LEMMA PlansAreGood ==
  ASSUME NEW t \in Tasks, Current(t) \in Context, NEW op \in CollectorNames
  PROVE  AllGood(t, op, Plans(t, op))
<1> USE DEF Caches, PersistentOnlyCaches, StagingFaithful, DirectFaithful
<1>1. AllGood(t, "get_pe", get_pe(t))
  BY StagingOrGood, SulGood DEF get_pe
<1>2. AllGood(t, "query_ancestor_refnos", query_ancestor_refnos(t))
  BY DirectOrGood, StagingOrGood, SulGood DEF query_ancestor_refnos
<1>3. AllGood(t, "query_ancestor_of_type", query_ancestor_of_type(t))
  BY SulGood DEF query_ancestor_of_type
<1>4. AllGood(t, "get_ancestor_types", get_ancestor_types(t))
  BY DirectOrGood, SulGood DEF get_ancestor_types
<1>5. AllGood(t, "get_ancestor_attmaps", get_ancestor_attmaps(t))
  BY DirectOrGood, StagingOrGood, SulGood DEF get_ancestor_attmaps
<1>6. AllGood(t, "get_type_name", get_type_name(t))
  BY DirectOrGood, StagingOrGood, SulGood DEF get_type_name
<1>7. AllGood(t, "get_owner_type_name", get_owner_type_name(t))
  BY DataDbGood DEF get_owner_type_name
<1>8. AllGood(t, "get_self_and_owner_type_name", get_self_and_owner_type_name(t))
  BY StagingOrGood, DataDbGood DEF get_self_and_owner_type_name
<1>9. AllGood(t, "get_index_by_noun_in_parent", get_index_by_noun_in_parent(t))
  BY SulGood DEF get_index_by_noun_in_parent
<1>10. AllGood(t, "get_named_attmap", get_named_attmap(t))
  BY DirectOrGood, StagingOrGood, SulGood DEF get_named_attmap
<1>11. AllGood(t, "get_implicit_named_attmap", get_implicit_named_attmap(t))
  BY StagingOrGood, SulGood DEF get_implicit_named_attmap
<1>12. AllGood(t, "get_named_attmap_with_uda", get_named_attmap_with_uda(t))
  BY StagingOrGood, SulGood DEF get_named_attmap_with_uda
<1>13. AllGood(t, "get_siblings", get_siblings(t))
  BY SulGood DEF get_siblings
<1>14. AllGood(t, "get_cat_refno", get_cat_refno(t))
  BY DirectOrGood, SulGood DEF get_cat_refno
<1>15. AllGood(t, "get_cat_attmap", get_cat_attmap(t))
  BY SulGood DEF get_cat_attmap
<1>16. AllGood(t, "get_children_named_attmaps", get_children_named_attmaps(t))
  BY DirectOrGood, SulGood DEF get_children_named_attmaps
<1>17. AllGood(t, "get_children_pes", get_children_pes(t))
  BY DirectOrGood, SulGood DEF get_children_pes
<1>18. AllGood(t, "query_filter_children", query_filter_children(t))
  BY DirectOrGood, SulGood DEF query_filter_children
<1>19. AllGood(t, "get_children_refnos", get_children_refnos(t))
  BY DirectOrGood, StagingOrGood, DataDbGood DEF get_children_refnos
<1>20. AllGood(t, "query_single_by_paths", query_single_by_paths(t))
  BY DirectOrGood, SulGood DEF query_single_by_paths
<1>21. AllGood(t, "query_deep_children_refnos", query_deep_children_refnos(t))
  BY DirectOrGood, StagingOrGood, DataDbGood DEF query_deep_children_refnos
<1>22. AllGood(t, "fetch_loops_and_height", fetch_loops_and_height(t))
  BY DirectOrGood, DataDbGood DEF fetch_loops_and_height
<1>23. AllGood(t, "get_spline_pts", get_spline_pts(t))
  BY DirectOrGood, StagingOrGood, SulGood DEF get_spline_pts
<1>24. AllGood(t, "query_deep_children_refnos_pbs", query_deep_children_refnos_pbs(t))
  <2>1. <<Ask(data_db(t))>> \in Seq(Step) BY ContextWorld, StepsAreSteps
  <2>2. QED BY <2>1, CompositeGood DEF query_deep_children_refnos_pbs, Cached, AllGood,
            PersistentFaithful
<1>25. AllGood(t, "query_multi_children_refnos", query_multi_children_refnos(t))
  <2> DEFINE todo == <<Call("get_children_refnos")>>
  <2>1. todo \in Seq(Step) BY StepsAreSteps DEF CollectorNames
  <2>2. todo \in Seq(FaithfulSteps(Current(t).world))
    BY DEF FaithfulSteps, Faithful, PersistentFaithful
  <2>3. QED BY <2>1, <2>2, FaithfulGood DEF query_multi_children_refnos
<1>26. AllGood(t, "query_filter_ancestors", query_filter_ancestors(t))
  <2> DEFINE name == "query_filter_ancestors"
             todo == <<Call("get_type_name"), Call("query_ancestor_refnos"), Ask(data_db(t))>>
  <2>1. todo \in Seq(Step) BY ContextWorld, StepsAreSteps DEF CollectorNames
  <2>2. ASSUME FaithfulHere(t, name) PROVE todo \in Seq(FaithfulSteps(Current(t).world))
    <3>1. Current(t).world = data_db(t) BY <2>2, ContextWorld
    <3>2. {"get_type_name", "query_ancestor_refnos"} \subseteq Faithful(Current(t).world)
      BY DEF Faithful, PersistentFaithful
    <3>3. QED BY <3>1, <3>2 DEF FaithfulSteps
  <2>3. QED BY <2>1, <2>2, FaithfulGood DEF query_filter_ancestors
<1>27. AllGood(t, "query_filter_deep_children", query_filter_deep_children(t))
  <2> DEFINE name == "query_filter_deep_children"
             todo == <<Call("query_deep_children_refnos"), SoftAsk(data_db(t))>>
  <2>1. todo \in Seq(Step) BY ContextWorld, StepsAreSteps DEF CollectorNames
  <2>2. ASSUME active_direct_reads(t) = None PROVE AllGood(t, name, Plain(todo))
    <3>1. ~FaithfulHere(t, name) BY <2>2, NoDirectContext DEF PersistentFaithful
    <3>2. QED BY <2>1, <3>1, FaithfulGood
  <2>3. QED BY <2>2, DirectOrGood DEF query_filter_deep_children
<1>28. AllGood(t, "query_filter_deep_children_atts", query_filter_deep_children_atts(t))
  <2> DEFINE name == "query_filter_deep_children_atts"
             todo == <<Call("query_deep_children_refnos"), SoftAsk(data_db(t))>>
             d == active_direct_reads(t)
             both == <<Ask(d), Ask(d)>>
  <2>1. CASE d = None
    <3>1. todo \in Seq(Step) BY ContextWorld, StepsAreSteps DEF CollectorNames
    <3>2. ~FaithfulHere(t, name) BY <2>1, NoDirectContext DEF PersistentFaithful
    <3>3. QED BY <2>1, <3>1, <3>2, FaithfulGood DEF query_filter_deep_children_atts
  <2>2. CASE d # None
    <3>1. d \in Worlds BY <2>2, ContextWorld
    <3>2. both \in Seq(Step) BY <3>1, StepsAreSteps
    <3>3. FaithfulHere(t, name) => both \in Seq(FaithfulSteps(Current(t).world))
      BY <2>2, ContextWorld DEF FaithfulSteps
    <3>4. QED BY <2>2, <3>2, <3>3, FaithfulGood DEF query_filter_deep_children_atts
  <2>3. QED BY <2>1, <2>2
<1>29. AllGood(t, "get_spline_path", get_spline_path(t))
  <2> DEFINE one == <<Call("get_type_name")>>
             two == <<Call("get_type_name"), Try("get_children_refnos"),
                      Call("get_named_attmap"), Try("get_children_named_attmaps")>>
  <2>1. one \in Seq(Step) /\ two \in Seq(Step) BY StepsAreSteps DEF CollectorNames
  <2>2. get_spline_path(t) = UNION {Plain(one), Plain(two)} BY DEF get_spline_path
  <2> HIDE DEF one, two
  <2>3. QED BY <2>1, <2>2, CompositeGood DEF AllGood, PersistentFaithful
<1>30. AllGood(t, "cal_zdis_pkdi_in_section_by_spine", cal_zdis_pkdi_in_section_by_spine(t))
  <2> DEFINE one == <<Call("get_spline_path")>>
             two == <<Call("get_spline_path"), Call("get_world_mat4"), Try("get_spline_pts")>>
  <2>1. one \in Seq(Step) /\ two \in Seq(Step) BY StepsAreSteps DEF CollectorNames
  <2>2. cal_zdis_pkdi_in_section_by_spine(t) = UNION {Plain(one), Plain(two)}
    BY DEF cal_zdis_pkdi_in_section_by_spine
  <2> HIDE DEF one, two
  <2>3. QED BY <2>1, <2>2, CompositeGood DEF AllGood, PersistentFaithful
<1>31. AllGood(t, "query_pline", query_pline(t))
  <2> DEFINE own == <<Try("get_cat_attmap")>>
             lines == own \o <<Try("get_children_refnos")>>
             values == IF Deep(t) THEN <<>> ELSE <<Call("resolve_expression")>>
             line == lines \o <<Call("get_named_attmap")>> \o values
             wall == <<Call("implicit_wall_pline")>>
  <2>1. own \in Seq(Step) /\ wall \in Seq(Step) /\ values \in Seq(Step)
        /\ <<Try("get_children_refnos")>> \in Seq(Step) /\ <<Call("get_named_attmap")>> \in Seq(Step)
    BY StepsAreSteps DEF CollectorNames
  <2>2. lines \in Seq(Step) BY <2>1, ConcatProperties
  <2> HIDE DEF own, lines, values, wall
  <2>3. line \in Seq(Step) BY <2>1, <2>2, ConcatProperties
  <2> HIDE DEF line
  <2>4. own \o wall \in Seq(Step) /\ lines \o wall \in Seq(Step) /\ line \o wall \in Seq(Step)
    BY <2>1, <2>2, <2>3, ConcatProperties
  <2>5. query_pline(t) = UNION {Plain(own \o wall), Plain(lines \o wall), Plain(line),
                                Plain(line \o wall)}
    BY DEF query_pline, own, lines, line, values, wall
  <2>6. QED BY <2>3, <2>4, <2>5, CompositeGood DEF AllGood, PersistentFaithful
<1>32. AllGood(t, "query_deep_visible_inst_refnos", query_deep_visible_inst_refnos(t))
  <2> DEFINE own == <<Call("get_self_and_owner_type_name")>>
             one == own \o <<Call("get_children_refnos")>>
             two == own \o <<Call("query_filter_deep_children"),
                              Call("query_multi_children_refnos"),
                              Call("query_filter_deep_children")>>
  <2>1. own \in Seq(Step) /\ one \in Seq(Step) /\ two \in Seq(Step)
    BY StepsAreSteps, ConcatProperties DEF CollectorNames
  <2>2. query_deep_visible_inst_refnos(t) = UNION {Plain(own), Plain(one), Plain(two)}
    BY DEF query_deep_visible_inst_refnos
  <2> HIDE DEF own, one, two
  <2>3. QED BY <2>1, <2>2, CompositeGood DEF AllGood, PersistentFaithful
<1>33. AllGood(t, "get_world_mat4", get_world_mat4(t))
  BY WorldFoldSteps, CompositeGood DEF get_world_mat4, get_world_mat4_impl, AllGood, PersistentFaithful
<1>34. AllGood(t, "get_world_transform", get_world_transform(t))
  <2>1. <<Call("get_world_mat4")>> \in Seq(Step) BY StepsAreSteps DEF CollectorNames
  <2>2. QED BY <2>1, WorldFoldSteps, CompositeGood
            DEF get_world_transform, get_world_mat4_impl, Cached, AllGood, PersistentFaithful
<1>35. AllGood(t, "query_filter_children_atts", query_filter_children_atts(t))
  BY DirectOrGood, SulGood DEF query_filter_children_atts
<1>36. AllGood(t, "query_multi_filter_deep_children", query_multi_filter_deep_children(t))
  <2> DEFINE name == "query_multi_filter_deep_children"
             todo == <<Call("query_filter_deep_children"), Call("query_filter_deep_children")>>
  <2>1. todo \in Seq(Step) BY StepsAreSteps DEF CollectorNames
  <2>2. FaithfulHere(t, name) => "query_filter_deep_children" \in Faithful(Current(t).world)
    BY DEF FaithfulHere, Faithful, PersistentFaithful
  <2>3. FaithfulHere(t, name) => todo \in Seq(FaithfulSteps(Current(t).world))
    BY <2>2 DEF FaithfulSteps
  <2>4. QED BY <2>1, <2>3, FaithfulGood DEF query_multi_filter_deep_children
<1>37. AllGood(t, "query_group_by_cata_hash", query_group_by_cata_hash(t))
  <2> DEFINE name == "query_group_by_cata_hash"
             todo == <<Ask(active_direct_reads(t)), SoftAsk(Persistent)>>
  <2>1. ASSUME active_direct_reads(t) # None PROVE AllGood(t, name, Plain(todo))
    <3>1. active_direct_reads(t) \in Worlds /\ Persistent \in Worlds
      BY <2>1, ContextWorld DEF Worlds
    <3>2. todo \in Seq(Step) BY <3>1, StepsAreSteps
    <3>3. ~FaithfulHere(t, name) BY <2>1, ContextWorld
    <3>4. QED BY <3>2, <3>3, FaithfulGood
  <2>2. active_direct_reads(t) = None => AllGood(t, name, Plain(<<Ask(data_db(t))>>))
    BY DataDbGood
  <2>3. QED BY <2>1, <2>2 DEF query_group_by_cata_hash
<1>38. AllGood(t, "query_deep_children_refnos_filter_spre",
                  query_deep_children_refnos_filter_spre(t))
  <2> DEFINE name == "query_deep_children_refnos_filter_spre"
             todo == <<Ask(active_direct_reads(t)), Ask(data_db(t))>>
  <2>1. ASSUME active_direct_reads(t) # None PROVE AllGood(t, name, Plain(todo))
    <3>1. active_direct_reads(t) \in Worlds /\ data_db(t) \in Worlds BY <2>1, ContextWorld
    <3>2. todo \in Seq(Step) BY <3>1, StepsAreSteps
    <3>3. ~FaithfulHere(t, name) BY <2>1, ContextWorld
    <3>4. QED BY <3>2, <3>3, FaithfulGood
  <2>2. active_direct_reads(t) = None => AllGood(t, name, Plain(<<Ask(data_db(t))>>))
    BY DataDbGood
  <2>3. QED BY <2>1, <2>2 DEF query_deep_children_refnos_filter_spre
<1>39. AllGood(t, "query_multi_deep_versioned_children_filter_inst",
                  query_multi_deep_versioned_children_filter_inst(t))
  <2> DEFINE name == "query_multi_deep_versioned_children_filter_inst"
             d == active_direct_reads(t)
             direct == <<Ask(d), Ask(data_db(t))>>
             sul == <<Ask(Persistent), Ask(data_db(t))>>
  <2>1. data_db(t) \in Worlds /\ Persistent \in Worlds BY ContextWorld DEF Worlds
  <2>2. CASE d # None
    <3>1. d \in Worlds BY <2>2, ContextWorld
    <3>2. direct \in Seq(Step) BY <2>1, <3>1, StepsAreSteps
    <3>3. ~FaithfulHere(t, name) BY <2>2, ContextWorld
    <3>4. QED BY <2>2, <3>2, <3>3, FaithfulGood
              DEF query_multi_deep_versioned_children_filter_inst
  <2>3. CASE d = None
    <3>1. sul \in Seq(Step) BY <2>1, StepsAreSteps
    <3>2. FaithfulHere(t, name) => sul \in Seq(FaithfulSteps(Current(t).world))
      BY <2>3, ContextWorld DEF FaithfulSteps
    <3>3. QED BY <2>3, <3>1, <3>2, FaithfulGood
              DEF query_multi_deep_versioned_children_filter_inst
  <2>4. QED BY <2>2, <2>3
<1>40. AllGood(t, "get_next_prev", get_next_prev(t))
  <2>1. <<Call("get_siblings")>> \in Seq(Step) BY StepsAreSteps DEF CollectorNames
  <2>2. QED BY <2>1, CompositeGood DEF get_next_prev, PersistentFaithful
<1>41. AllGood(t, "get_or_create_cata_context", get_or_create_cata_context(t))
  <2> DEFINE own == <<Call("get_named_attmap"), Try("get_cat_attmap")>>
             above == <<Call("get_named_attmap"), Call("get_children_named_attmaps"),
                        Try("get_cat_attmap")>>
             cref == <<Try("get_named_attmap"), Try("get_cat_attmap")>>
  <2>1. own \in Seq(Step) /\ above \in Seq(Step) /\ cref \in Seq(Step)
    BY StepsAreSteps DEF CollectorNames
  <2>2. get_or_create_cata_context(t) =
          UNION {Plain(own), Plain(own \o above), Plain((own \o above) \o cref)}
    BY DEF get_or_create_cata_context
  <2> HIDE DEF own, above, cref
  <2>3. own \o above \in Seq(Step) BY <2>1, ConcatProperties
  <2>4. (own \o above) \o cref \in Seq(Step) BY <2>1, <2>3, ConcatProperties
  <2>5. QED BY <2>1, <2>2, <2>3, <2>4, CompositeGood DEF AllGood, PersistentFaithful
<1>42. AllGood(t, "resolve_expression", resolve_expression(t))
  <2> DEFINE own == <<Call("get_or_create_cata_context")>>
             named == <<Try("get_pe")>>
             beside == <<Try("get_next_prev"), Try("get_pe")>>
  <2>1. own \in Seq(Step) /\ named \in Seq(Step) /\ beside \in Seq(Step)
    BY StepsAreSteps DEF CollectorNames
  <2>2. resolve_expression(t) = UNION {Plain(own), Plain(own \o named), Plain(own \o beside)}
    BY DEF resolve_expression
  <2> HIDE DEF own, named, beside
  <2>3. own \o named \in Seq(Step) /\ own \o beside \in Seq(Step) BY <2>1, ConcatProperties
  <2>4. QED BY <2>1, <2>2, <2>3, CompositeGood DEF AllGood, PersistentFaithful
<1>43. AllGood(t, "implicit_wall_pline", implicit_wall_pline(t))
       /\ AllGood(t, "fold_spine", fold_spine(t))
  <2>1. <<>> \in Seq(Step) /\ <<Try("get_type_name")>> \in Seq(Step)
        /\ <<Try("get_spline_pts")>> \in Seq(Step)
    BY StepsAreSteps DEF CollectorNames
  <2>2. QED BY <2>1, CompositeGood DEF implicit_wall_pline, fold_spine, AllGood, PersistentFaithful
<1>44. AllGood(t, "fold_cut", fold_cut(t))
  <2> DEFINE line == <<Try("get_named_attmap"), Try("query_pline")>>
             others == <<Call("get_world_transform"), Call("get_world_transform")>>
  <2>1. <<>> \in Seq(Step) /\ line \in Seq(Step) /\ others \in Seq(Step)
    BY StepsAreSteps DEF CollectorNames
  <2>2. fold_cut(t) \subseteq UNION {Plain(<<>>), Plain(line), Plain(line \o others)}
    BY DEF fold_cut
  <2> HIDE DEF line, others
  <2>3. line \o others \in Seq(Step) BY <2>1, ConcatProperties
  <2>4. QED BY <2>1, <2>2, <2>3, CompositeGood DEF AllGood, PersistentFaithful
<1>45. AllGood(t, "fold_zdis", fold_zdis(t))
  <2> DEFINE place == <<Call("cal_zdis_pkdi_in_section_by_spine")>>
             index == <<Call("get_index_by_noun_in_parent")>>
  <2>1. <<>> \in Seq(Step) /\ place \in Seq(Step) /\ index \in Seq(Step)
    BY StepsAreSteps DEF CollectorNames
  <2>2. fold_zdis(t) \subseteq UNION {Plain(<<>>), Plain(place), Plain(index \o place)}
    BY DEF fold_zdis
  <2> HIDE DEF place, index
  <2>3. index \o place \in Seq(Step) BY <2>1, ConcatProperties
  <2>4. QED BY <2>1, <2>2, <2>3, CompositeGood DEF AllGood, PersistentFaithful
<1>46. AllGood(t, "fold_posl", fold_posl(t))
  <2> DEFINE above == <<Call("query_filter_ancestors")>>
             line == <<Try("get_named_attmap"), Try("query_pline")>>
  <2>1. <<>> \in Seq(Step) /\ above \in Seq(Step) /\ line \in Seq(Step)
    BY StepsAreSteps DEF CollectorNames
  <2>2. fold_posl(t) = UNION {Plain(<<>>), Plain(above), Plain(above \o line)}
    BY DEF fold_posl
  <2> HIDE DEF above, line
  <2>3. above \o line \in Seq(Step) BY <2>1, ConcatProperties
  <2>4. QED BY <2>1, <2>2, <2>3, CompositeGood DEF AllGood, PersistentFaithful
<1>47. QED
  BY <1>1, <1>2, <1>3, <1>4, <1>5, <1>6, <1>7, <1>8, <1>9, <1>10, <1>11,
     <1>12, <1>13, <1>14, <1>15, <1>16, <1>17, <1>18, <1>19, <1>20, <1>21,
     <1>22, <1>23, <1>24, <1>25, <1>26, <1>27, <1>28, <1>29, <1>30, <1>31,
     <1>32, <1>33, <1>34, <1>35, <1>36, <1>37, <1>38, <1>39, <1>40, <1>41,
     <1>42, <1>43, <1>44, <1>45, <1>46
  DEF Plans, CollectorNames

-----------------------------------------------------------------------------
(***************************************************************************)
(* Part 3.  The shape of the state.                                        *)
(***************************************************************************)

\* TypeOK, strengthened: only a running task executes calls, and the frames
\* of a task are linked, so that a step of a call always has a step to do.
Shape ==
  /\ TypeOK
  /\ \A t \in Tasks : contexts[t] = <<>> => frames[t] = <<>>
  /\ \A t \in Tasks : Linked(frames[t])

LEMMA StepShape ==
  ASSUME NEW s \in Step
  PROVE  /\ s.kind \in {"call", "try"} => s.arg \in CollectorNames
         /\ s.kind \in {"ask", "softask"} => s.arg \in Worlds
BY DEF Step, Erring

\* Scopes are entered and left, tasks start and end, outside collector calls.
LEMMA ContextStep ==
  ASSUME Shape, NEW t \in Tasks, frames[t] = <<>>, NEW s \in Seq(Context),
         contexts' = [contexts EXCEPT ![t] = s], UNCHANGED <<frames, cache>>
  PROVE  Shape'
BY DEF Shape, TypeOK, Linked

\* A step of a collector call.
LEMMA FrameStep ==
  ASSUME Shape, NEW t \in Tasks, contexts[t] # <<>>, NEW s \in Seq(Frame), Linked(s),
         frames' = [frames EXCEPT ![t] = s], UNCHANGED contexts,
         cache' \in [Caches -> [Refnos -> SUBSET Tags]]
  PROVE  Shape'
<1>1. TypeOK' BY DEF Shape, TypeOK
<1>2. \A u \in Tasks : frames'[u] = IF u = t THEN s ELSE frames[u]
  BY DEF Shape, TypeOK
<1>3. \A u \in Tasks : contexts'[u] = <<>> => frames'[u] = <<>>
  BY <1>2 DEF Shape
<1>4. \A u \in Tasks : Linked(frames'[u]) BY <1>2 DEF Shape
<1>5. QED BY <1>1, <1>3, <1>4 DEF Shape

\* What a state of the right shape says about a task inside a call.
LEMMA InsideCall ==
  ASSUME Shape, NEW t \in Tasks, frames[t] # <<>>
  PROVE  /\ contexts[t] # <<>>
         /\ Current(t) \in Context
         /\ frames[t] \in Seq(Frame)
         /\ Linked(frames[t])
         /\ Len(frames[t]) \in Nat \ {0}
         /\ Top(t) \in Frame
         /\ Top(t).todo # <<>> => Busy(frames[t]) /\ NextStep(t) \in Step
<1>1. contexts[t] \in Seq(Context) /\ contexts[t] # <<>> BY DEF Shape, TypeOK
<1>2. Current(t) \in Context BY <1>1, EmptySeq, ElementOfSeq DEF Current
<1>3. frames[t] \in Seq(Frame) /\ Linked(frames[t]) BY DEF Shape, TypeOK
<1>4. Len(frames[t]) \in Nat \ {0} BY <1>3, EmptySeq
<1>5. Top(t) \in Frame BY <1>3, <1>4, ElementOfSeq DEF Top
<1>6. Top(t).todo \in Seq(Step) BY <1>5 DEF Frame
<1>7. Top(t).todo # <<>> => NextStep(t) \in Step
  BY <1>6, HeadTailProperties DEF NextStep
<1>8. Top(t).todo # <<>> => Busy(frames[t]) BY DEF Busy, Top
<1>9. QED BY <1>1, <1>2, <1>3, <1>4, <1>5, <1>7, <1>8

\* A call starts with a frame of its plan, or of the cached value.
LEMMA NewFrameType ==
  ASSUME Shape, NEW t \in Tasks, Current(t) \in Context, NEW op \in CollectorNames,
         NEW k \in Refnos, NEW plan \in Plans(t, op)
  PROVE  /\ NewFrame(plan, op, k) \in Frame
         /\ NewFrame(plan, op, k).op = op
<1>1. plan.cache \in Caches \union {None} /\ plan.todo \in Seq(Step)
  BY PlansAreGood DEF AllGood, GoodPlan
<1>2. plan.cache # None => cache[plan.cache][k] \in SUBSET Tags
  BY <1>1 DEF Shape, TypeOK
<1>3. <<>> \in Seq(Step) BY EmptySeq
<1>4. QED BY <1>1, <1>2, <1>3 DEF NewFrame, Frame

LEMMA ShapeInit == Init => Shape
<1> SUFFICES ASSUME Init PROVE Shape OBVIOUS
<1>1. NoContext \in Context BY DEF NoContext, Context, Worlds
<1>2. contexts \in [Tasks -> Seq(Context)] BY <1>1 DEF Init
<1>3. frames \in [Tasks -> Seq(Frame)] BY DEF Init
<1>4. cache \in [Caches -> [Refnos -> SUBSET Tags]] BY DEF Init
<1>5. \A t \in Tasks : Linked(frames[t]) BY DEF Init, Linked
<1>6. QED BY <1>2, <1>3, <1>4, <1>5 DEF Shape, TypeOK, Init

LEMMA ShapeNext == Shape /\ [Next]_vars => Shape'
<1> SUFFICES ASSUME Shape, [Next]_vars PROVE Shape' OBVIOUS
<1>1. \A t \in Tasks : contexts[t] \in Seq(Context) BY DEF Shape, TypeOK
<1>2. \A t \in Tasks : Idle(t) => frames[t] = <<>> /\ Current(t) \in Context
  BY <1>1, EmptySeq, ElementOfSeq DEF Idle, Current
<1>3. ASSUME NEW t \in Tasks, NEW w \in StagingDbs, with_staging_reads(t, w) PROVE Shape'
  <2> DEFINE c == [Current(t) EXCEPT !.staging = w, !.world = w]
  <2>1. Idle(t) /\ contexts' = [contexts EXCEPT ![t] = Append(contexts[t], c)]
        /\ UNCHANGED <<frames, cache>>
    BY <1>3 DEF with_staging_reads, EnterScope
  <2>2. c \in Context BY <1>2, <2>1 DEF Context, Worlds
  <2>3. Append(contexts[t], c) \in Seq(Context) BY <1>1, <2>2, AppendProperties
  <2>4. QED BY <1>2, <2>1, <2>3, ContextStep
<1>4. ASSUME NEW t \in Tasks, NEW p \in Providers, with_direct_reads(t, p) PROVE Shape'
  <2> DEFINE c == [Current(t) EXCEPT !.direct = p, !.world = p]
  <2>1. Idle(t) /\ contexts' = [contexts EXCEPT ![t] = Append(contexts[t], c)]
        /\ UNCHANGED <<frames, cache>>
    BY <1>4 DEF with_direct_reads, EnterScope
  <2>2. c \in Context BY <1>2, <2>1 DEF Context, Worlds
  <2>3. Append(contexts[t], c) \in Seq(Context) BY <1>1, <2>2, AppendProperties
  <2>4. QED BY <1>2, <2>1, <2>3, ContextStep
<1>5. ASSUME NEW t \in Tasks, LeaveScope(t) PROVE Shape'
  <2>1. Pop(contexts[t]) \in Seq(Context)
    BY <1>1, <1>5, PopProperties DEF LeaveScope, Idle
  <2>2. QED BY <1>2, <1>5, <2>1, ContextStep DEF LeaveScope
<1>6. ASSUME NEW t \in Tasks, NEW u \in Tasks,
             spawn_with_staging_reads(t, u) \/ spawn_with_direct_reads(t, u)
      PROVE  Shape'
  <2>1. PICK staging \in StagingDbs \union {None}, direct \in Providers \union {None} :
          Idle(t) /\ Spawn(t, u, staging, direct)
    BY <1>2, <1>6 DEF spawn_with_staging_reads, spawn_with_direct_reads, Context,
                      active_staging_reads, active_direct_reads
  <2> DEFINE c == [staging |-> staging, direct |-> direct, world |-> Current(t).world]
  <2>2. c \in Context BY <1>2, <2>1 DEF Context
  <2>3. <<c>> \in Seq(Context) BY <2>2
  <2>4. frames[u] = <<>> BY <2>1 DEF Spawn, Shape
  <2>5. QED BY <2>1, <2>3, <2>4, ContextStep DEF Spawn
<1>7. ASSUME NEW t \in Tasks, Finish(t) PROVE Shape'
  <2>1. <<>> \in Seq(Context) BY EmptySeq
  <2>2. QED BY <1>2, <1>7, <2>1, ContextStep DEF Finish
<1>8. ASSUME NEW t \in Tasks, NEW op \in Collectors, NEW k \in Refnos, Request(t, op, k)
      PROVE  Shape'
  <2>1. PICK plan \in Plans(t, op) : frames' = [frames EXCEPT ![t] = <<NewFrame(plan, op, k)>>]
    BY <1>8 DEF Request
  <2>2. op \in CollectorNames BY CollectorsAssumption
  <2>3. NewFrame(plan, op, k) \in Frame BY <1>2, <1>8, <2>2, NewFrameType DEF Request
  <2>4. <<NewFrame(plan, op, k)>> \in Seq(Frame) BY <2>3
  <2>5. Linked(<<NewFrame(plan, op, k)>>) BY DEF Linked
  <2>6. cache' \in [Caches -> [Refnos -> SUBSET Tags]] BY <1>8 DEF Request, Shape, TypeOK
  <2>7. QED BY <1>8, <2>1, <2>4, <2>5, <2>6, FrameStep DEF Request, Idle
<1>9. ASSUME NEW t \in Tasks, NEW k \in Refnos, Descend(t, k) PROVE Shape'
  <2>1. frames[t] # <<>> /\ Top(t).todo # <<>> /\ NextStep(t).kind \in {"call", "try"}
    BY <1>9 DEF Descend
  <2> DEFINE op == NextStep(t).arg
  <2>2. PICK plan \in Plans(t, op) :
          frames' = [frames EXCEPT ![t] = Append(frames[t], NewFrame(plan, op, k))]
    BY <1>9 DEF Descend
  <2>3. op \in CollectorNames BY <2>1, InsideCall, StepShape
  <2> DEFINE f == NewFrame(plan, op, k)
  <2>4. f \in Frame /\ f.op = op BY <2>1, <2>3, InsideCall, NewFrameType
  <2>5. Append(frames[t], f) \in Seq(Frame) BY <2>1, <2>4, InsideCall, AppendProperties
  <2>6. Linked(Append(frames[t], f))
    BY <2>1, <2>4, InsideCall, CallLinked DEF NextStep, Top
  <2>7. cache' \in [Caches -> [Refnos -> SUBSET Tags]] BY <1>9 DEF Descend, Shape, TypeOK
  <2>8. QED BY <1>9, <2>1, <2>2, <2>5, <2>6, <2>7, InsideCall, FrameStep DEF Descend
<1>10. ASSUME NEW t \in Tasks, Answer(t) PROVE Shape'
  <2>1. frames[t] # <<>> /\ Top(t).todo # <<>> /\ NextStep(t).kind \in {"ask", "softask"}
    BY <1>10 DEF Answer
  <2>2. {NextStep(t).arg} \in SUBSET Tags BY <2>1, InsideCall, StepShape DEF Tags
  <2>3. /\ Advance(frames[t], {NextStep(t).arg}) \in Seq(Frame)
        /\ Linked(Advance(frames[t], {NextStep(t).arg}))
    BY <2>1, <2>2, InsideCall, AdvanceProperties, AdvanceLinked
  <2>4. cache' \in [Caches -> [Refnos -> SUBSET Tags]] BY <1>10 DEF Answer, Shape, TypeOK
  <2>5. QED BY <1>10, <2>1, <2>3, <2>4, InsideCall, FrameStep DEF Answer
<1>11. ASSUME NEW t \in Tasks, Fail(t) PROVE Shape'
  <2>1. frames[t] # <<>> BY <1>11 DEF Fail
  <2>2. Unwind(frames[t]) \in Seq(Frame) /\ Linked(Unwind(frames[t]))
    BY <2>1, InsideCall, UnwindProperties
  <2>3. cache' \in [Caches -> [Refnos -> SUBSET Tags]] BY <1>11 DEF Fail, Shape, TypeOK
  <2>4. QED BY <1>11, <2>1, <2>2, <2>3, InsideCall, FrameStep DEF Fail
<1>12. ASSUME NEW t \in Tasks, FailSoftly(t) PROVE Shape'
  <2>1. frames[t] # <<>> /\ Top(t).todo # <<>> BY <1>12 DEF FailSoftly
  <2>2. {Swallowed} \in SUBSET Tags BY DEF Tags
  <2>3. /\ Advance(frames[t], {Swallowed}) \in Seq(Frame)
        /\ Linked(Advance(frames[t], {Swallowed}))
    BY <2>1, <2>2, InsideCall, AdvanceProperties, AdvanceLinked
  <2>4. cache' \in [Caches -> [Refnos -> SUBSET Tags]] BY <1>12 DEF FailSoftly, Shape, TypeOK
  <2>5. QED BY <1>12, <2>1, <2>3, <2>4, InsideCall, FrameStep DEF FailSoftly
<1>13. ASSUME NEW t \in Tasks, Return(t) PROVE Shape'
  <2>1. frames[t] # <<>> BY <1>13 DEF Return
  <2>2. Top(t).got \in SUBSET Tags /\ Top(t).key \in Refnos
        /\ Top(t).cache \in Caches \union {None}
    BY <2>1, InsideCall DEF Frame
  <2>3. cache' \in [Caches -> [Refnos -> SUBSET Tags]]
    <3>1. cache \in [Caches -> [Refnos -> SUBSET Tags]] BY DEF Shape, TypeOK
    <3>2. CASE Top(t).cache = None BY <1>13, <3>1, <3>2 DEF Return
    <3>3. CASE Top(t).cache # None
      <4>1. cache' = [cache EXCEPT ![Top(t).cache][Top(t).key] = Top(t).got]
        BY <1>13, <3>3 DEF Return
      <4>2. Top(t).cache \in Caches BY <2>2, <3>3
      <4>3. QED BY <2>2, <3>1, <4>1, <4>2
    <3>4. QED BY <3>2, <3>3
  <2> DEFINE s == IF Len(frames[t]) = 1 THEN <<>>
                  ELSE Advance(Pop(frames[t]), Top(t).got)
  <2>4. s \in Seq(Frame) /\ Linked(s)
    <3>1. CASE Len(frames[t]) = 1 BY <3>1, EmptySeq DEF Linked
    <3>2. CASE Len(frames[t]) # 1
      <4>1. Pop(frames[t]) \in Seq(Frame) /\ Linked(Pop(frames[t])) /\ Busy(Pop(frames[t]))
        BY <2>1, <3>2, InsideCall, PopProperties, PopLinked
      <4>2. QED BY <2>2, <3>2, <4>1, AdvanceProperties, AdvanceLinked
    <3>3. QED BY <3>1, <3>2
  <2>5. frames' = [frames EXCEPT ![t] = s] BY <1>13 DEF Return
  <2> HIDE DEF s
  <2>6. QED BY <1>13, <2>1, <2>3, <2>4, <2>5, InsideCall, FrameStep DEF Return
<1>14. CASE UNCHANGED vars BY <1>14 DEF vars, Shape, TypeOK, Linked
<1>15. QED
  BY <1>3, <1>4, <1>5, <1>6, <1>7, <1>8, <1>9, <1>10, <1>11, <1>12, <1>13, <1>14 DEF Next

LEMMA ShapeInvariant == Spec => []Shape
BY ShapeInit, ShapeNext, PTL DEF Spec

\* Every variable keeps the shape the code gives it, at every nesting of
\* scopes and every depth of calls.
THEOREM TypeCorrect == Spec => []TypeOK
<1>1. Shape => TypeOK BY DEF Shape
<1>2. QED BY <1>1, ShapeInvariant, PTL

-----------------------------------------------------------------------------
(***************************************************************************)
(* Part 4.  How the contexts of a task come about.                         *)
(***************************************************************************)

\* How a step changes the contexts of the tasks.
LEMMA ContextsNext ==
  ASSUME Shape, [Next]_vars
  PROVE  \/ UNCHANGED contexts
         \/ \E t \in Tasks : /\ frames[t] = <<>>
                             /\ frames' = frames
                             /\ contexts[t] # <<>> /\ Current(t) \in Context
                             /\ \/ \E w \in StagingDbs : with_staging_reads(t, w)
                                \/ \E p \in Providers : with_direct_reads(t, p)
                                \/ LeaveScope(t)
                                \/ \E u \in Tasks : \/ spawn_with_staging_reads(t, u)
                                                    \/ spawn_with_direct_reads(t, u)
                                \/ Finish(t)
<1>1. \A t \in Tasks : contexts[t] # <<>> => Current(t) \in Context
  BY EmptySeq, ElementOfSeq DEF Shape, TypeOK, Current
<1>2. QED
  BY <1>1 DEF Next, vars, with_staging_reads, with_direct_reads, EnterScope, LeaveScope,
     spawn_with_staging_reads, spawn_with_direct_reads, Spawn, Finish, Request, Descend,
     Answer, Fail, FailSoftly, Return, Idle

LEMMA SingletonSeq ==
  ASSUME NEW S, NEW e \in S PROVE <<e>> \in Seq(S)
OBVIOUS

\* A property P of single contexts is kept if the context a step adds has it.
\* (P is the set of contexts that have it.)
LEMMA ContextsKeep ==
  ASSUME Shape, NEW P,
         \A t \in Tasks : \A i \in DOMAIN contexts[t] : contexts[t][i] \in P,
         [Next]_vars,
         \A t \in Tasks, w \in StagingDbs :
           with_staging_reads(t, w) => [Current(t) EXCEPT !.staging = w, !.world = w] \in P,
         \A t \in Tasks, p \in Providers :
           with_direct_reads(t, p) => [Current(t) EXCEPT !.direct = p, !.world = p] \in P,
         \A t, u \in Tasks, s \in StagingDbs \union {None}, d \in Providers \union {None} :
           \/ spawn_with_staging_reads(t, u) /\ s = active_staging_reads(t) /\ d = None
           \/ spawn_with_direct_reads(t, u) /\ s = None /\ d = active_direct_reads(t)
           => [staging |-> s, direct |-> d, world |-> Current(t).world] \in P
  PROVE  \A t \in Tasks : \A i \in DOMAIN contexts'[t] : contexts'[t][i] \in P
<1>1. \A t \in Tasks : contexts[t] \in Seq(Context) BY DEF Shape, TypeOK
<1>2. \A t \in Tasks : contexts[t] \in Seq(P)
  <2> SUFFICES ASSUME NEW t \in Tasks PROVE contexts[t] \in Seq(P) OBVIOUS
  <2>1. Len(contexts[t]) \in Nat /\ DOMAIN contexts[t] = 1 .. Len(contexts[t])
        /\ contexts[t] \in [1 .. Len(contexts[t]) -> Context]
    BY <1>1, LenProperties
  <2>2. contexts[t] \in [1 .. Len(contexts[t]) -> P] BY <2>1
  <2>3. contexts[t] \in UNION {[1 .. n -> P] : n \in Nat} BY <2>1, <2>2
  <2>4. QED BY <2>3, SeqDef
<1>3. contexts \in [Tasks -> Seq(P)] BY <1>2 DEF Shape, TypeOK
<1>4. contexts' \in [Tasks -> Seq(P)]
  <2>1. CASE UNCHANGED contexts BY <1>3, <2>1
  <2>2. ASSUME NEW t \in Tasks, NEW w \in StagingDbs, with_staging_reads(t, w)
        PROVE  contexts' \in [Tasks -> Seq(P)]
    <3> DEFINE c == [Current(t) EXCEPT !.staging = w, !.world = w]
    <3>1. c \in P BY <2>2
    <3>2. contexts' = [contexts EXCEPT ![t] = Append(contexts[t], c)]
      BY <2>2 DEF with_staging_reads, EnterScope
    <3> HIDE DEF c
    <3>3. Append(contexts[t], c) \in Seq(P) BY <1>3, <3>1, AppendProperties
    <3>4. QED BY <1>3, <3>2, <3>3
  <2>3. ASSUME NEW t \in Tasks, NEW p \in Providers, with_direct_reads(t, p)
        PROVE  contexts' \in [Tasks -> Seq(P)]
    <3> DEFINE c == [Current(t) EXCEPT !.direct = p, !.world = p]
    <3>1. c \in P BY <2>3
    <3>2. contexts' = [contexts EXCEPT ![t] = Append(contexts[t], c)]
      BY <2>3 DEF with_direct_reads, EnterScope
    <3> HIDE DEF c
    <3>3. Append(contexts[t], c) \in Seq(P) BY <1>3, <3>1, AppendProperties
    <3>4. QED BY <1>3, <3>2, <3>3
  <2>4. ASSUME NEW t \in Tasks, LeaveScope(t) PROVE contexts' \in [Tasks -> Seq(P)]
    <3>1. Pop(contexts[t]) \in Seq(P) BY <1>3, <2>4, PopProperties DEF LeaveScope, Idle
    <3>2. QED BY <1>3, <2>4, <3>1 DEF LeaveScope
  <2>5. ASSUME NEW t \in Tasks, NEW u \in Tasks, Current(t) \in Context,
               spawn_with_staging_reads(t, u) \/ spawn_with_direct_reads(t, u)
        PROVE  contexts' \in [Tasks -> Seq(P)]
    <3>1. PICK s \in StagingDbs \union {None}, d \in Providers \union {None} :
            /\ \/ spawn_with_staging_reads(t, u) /\ s = active_staging_reads(t) /\ d = None
               \/ spawn_with_direct_reads(t, u) /\ s = None /\ d = active_direct_reads(t)
            /\ Spawn(t, u, s, d)
      BY <2>5 DEF spawn_with_staging_reads, spawn_with_direct_reads, Context,
                  active_staging_reads, active_direct_reads
    <3> DEFINE c == [staging |-> s, direct |-> d, world |-> Current(t).world]
    <3>2. c \in P BY <3>1
    <3>3. contexts' = [contexts EXCEPT ![u] = <<c>>] BY <3>1 DEF Spawn
    <3> HIDE DEF c
    <3>4. <<c>> \in Seq(P) BY <3>2, SingletonSeq
    <3>5. QED BY <1>3, <3>3, <3>4
  <2>6. ASSUME NEW t \in Tasks, Finish(t) PROVE contexts' \in [Tasks -> Seq(P)]
    BY <1>3, <2>6, EmptySeq DEF Finish
  <2>7. QED BY <2>1, <2>2, <2>3, <2>4, <2>5, <2>6, ContextsNext
<1>5. QED BY <1>4, LenProperties, ElementOfSeq

-----------------------------------------------------------------------------
(***************************************************************************)
(* Part 5.  Provenance: one world per value.                               *)
(***************************************************************************)

\* What holds of a call f running under the task-locals c.
GoodFrame(c, f) ==
  /\ f.cache \in PersistentOnlyCaches =>
       f.got \subseteq {Persistent} /\ f.todo \in Seq(PersistentSteps)
  /\ Fits(c) /\ f.op \in Faithful(c.world) =>
       f.got \subseteq {c.world} /\ f.todo \in Seq(FaithfulSteps(c.world))

GoodStack(c, s) == \A i \in 1 .. Len(s) : GoodFrame(c, s[i])

\* CachesBelongToPersistentWorld is not inductive: a cache is filled with what
\* a frame gathered, so the frames must be good; a faithful frame may be given
\* a cached value, so the frames need the caches.
Provenance ==
  /\ CachesBelongToPersistentWorld
  /\ \A t \in Tasks : GoodStack(Current(t), frames[t])

\* The values that may be handed to a waiting call.
Accepts(c, f, tags) ==
  /\ f.cache \in PersistentOnlyCaches => tags \subseteq {Persistent}
  /\ Fits(c) /\ f.op \in Faithful(c.world) => tags \subseteq {c.world}

LEMMA AdvanceGood ==
  ASSUME NEW c, NEW s \in Seq(Frame), Busy(s), GoodStack(c, s), NEW tags \in SUBSET Tags,
         Accepts(c, s[Len(s)], tags)
  PROVE  GoodStack(c, Advance(s, tags))
<1> DEFINE f == s[Len(s)]
           g == [f EXCEPT !.todo = Tail(f.todo), !.got = f.got \union tags]
           a == Advance(s, tags)
<1>1. Len(s) \in 1 .. Len(s) BY EmptySeq DEF Busy
<1>2. f \in Frame /\ f.todo # <<>> BY <1>1, ElementOfSeq DEF Busy
<1>3. /\ Len(a) = Len(s)
      /\ \A i \in 1 .. Len(s) : a[i] = IF i = Len(s) THEN g ELSE s[i]
  BY AdvanceProperties
<1>4. g.op = f.op /\ g.cache = f.cache /\ g.todo = Tail(f.todo) /\ g.got = f.got \union tags
  BY <1>2, AdvancedFrame
<1>5. GoodFrame(c, f) BY <1>1 DEF GoodStack
<1>6. \A S : f.todo \in Seq(S) => Tail(f.todo) \in Seq(S)
  BY <1>2, HeadTailProperties
<1> HIDE DEF a, g, f
<1>7. GoodFrame(c, g) BY <1>4, <1>5, <1>6 DEF GoodFrame, Accepts, f
<1>8. GoodStack(c, a) BY <1>3, <1>7 DEF GoodStack
<1>9. QED BY <1>8 DEF a

LEMMA PopGood ==
  ASSUME NEW c, NEW s \in Seq(Frame), s # <<>>, GoodStack(c, s)
  PROVE  GoodStack(c, Pop(s))
<1>1. Len(s) \in Nat BY LenProperties
<1>2. QED BY <1>1, PopProperties DEF GoodStack

\* Only a call or try step waits, and a frame that fills a persistent-only
\* cache has none; a faithful frame waits for a faithful collector, and
\* swallows no error.
LEMMA WaitingFrame ==
  ASSUME NEW c, NEW f \in Frame, f.todo # <<>>, GoodFrame(c, f),
         Head(f.todo).kind \in {"call", "try"}
  PROVE  /\ f.cache \notin PersistentOnlyCaches
         /\ Fits(c) /\ f.op \in Faithful(c.world) =>
              Head(f.todo).kind # "try" /\ Head(f.todo).arg \in Faithful(c.world)
<1>1. \A S : f.todo \in Seq(S) => Head(f.todo) \in S BY HeadTailProperties
<1>2. QED BY <1>1 DEF GoodFrame, PersistentSteps, FaithfulSteps, Ask, Call, Erring

\* The frame below the last one, which waits for it.
LEMMA CallerOf ==
  ASSUME NEW c, NEW s \in Seq(Frame), Linked(s), GoodStack(c, s), s # <<>>, Len(s) # 1
  PROVE  LET f == s[Len(s) - 1]
         IN  /\ f \in Frame /\ GoodFrame(c, f) /\ f.todo # <<>>
             /\ Head(f.todo).kind \in {"call", "try"}
             /\ s[Len(s)].op = Head(f.todo).arg
             /\ Pop(s)[Len(Pop(s))] = f /\ Len(Pop(s)) = Len(s) - 1
<1>1. Len(s) \in Nat /\ Len(s) >= 2
  <2>1. Len(s) \in Nat \ {0} BY EmptySeq
  <2>2. \A n \in Nat \ {0} : n # 1 => n >= 2 OBVIOUS
  <2>3. QED BY <2>1, <2>2
<1>2. Len(s) - 1 \in 1 .. Len(s) - 1 /\ Len(s) - 1 \in 1 .. Len(s) BY <1>1
<1>3. s[Len(s) - 1] \in Frame BY <1>2, ElementOfSeq
<1>4. GoodFrame(c, s[Len(s) - 1]) BY <1>2 DEF GoodStack
<1>5. Len(s) - 1 + 1 = Len(s) BY <1>1
<1>6. Pop(s)[Len(s) - 1] = s[Len(s) - 1] /\ Len(Pop(s)) = Len(s) - 1
  BY <1>2, PopProperties
<1>7. QED BY <1>2, <1>3, <1>4, <1>5, <1>6 DEF Linked

LEMMA ReturnGood ==
  ASSUME NEW c, NEW s \in Seq(Frame), Linked(s), GoodStack(c, s), s # <<>>, Len(s) # 1
  PROVE  GoodStack(c, Advance(Pop(s), s[Len(s)].got))
<1> DEFINE f == s[Len(s) - 1]
           g == s[Len(s)]
<1>1. /\ f \in Frame /\ GoodFrame(c, f) /\ f.todo # <<>>
      /\ Head(f.todo).kind \in {"call", "try"} /\ g.op = Head(f.todo).arg
      /\ Pop(s)[Len(Pop(s))] = f
  BY CallerOf
<1>2. g \in Frame /\ GoodFrame(c, g)
  <2>1. Len(s) \in 1 .. Len(s) BY EmptySeq
  <2>2. QED BY <2>1, ElementOfSeq DEF GoodStack
<1>3. g.got \in SUBSET Tags BY <1>2 DEF Frame
<1>4. Pop(s) \in Seq(Frame) /\ Busy(Pop(s)) /\ GoodStack(c, Pop(s))
  BY PopProperties, PopLinked, PopGood
<1>5. Accepts(c, f, g.got) BY <1>1, <1>2, WaitingFrame DEF Accepts, GoodFrame
<1> HIDE DEF f, g
<1>6. GoodStack(c, Advance(Pop(s), g.got)) BY <1>1, <1>3, <1>4, <1>5, AdvanceGood
<1>7. QED BY <1>6 DEF g

LEMMA UnwindGood ==
  ASSUME NEW c, NEW s \in Seq(Frame), Linked(s), GoodStack(c, s), s # <<>>
  PROVE  GoodStack(c, Unwind(s))
<1>1. CASE Len(s) = 1 BY <1>1 DEF Unwind, GoodStack
<1>2. CASE Len(s) # 1
  <2> DEFINE n == Len(s) - 1
             f == s[n]
             p == Pop(s)
             g == [f EXCEPT !.todo = <<Erring>>]
  <2>1. /\ f \in Frame /\ GoodFrame(c, f) /\ f.todo # <<>>
        /\ Head(f.todo).kind \in {"call", "try"}
        /\ p[Len(p)] = f /\ Len(p) = n
    BY <1>2, CallerOf
  <2>2. p \in Seq(Frame) /\ Busy(p) /\ GoodStack(c, p)
    BY <1>2, PopProperties, PopLinked, PopGood
  <2>3. CASE Head(f.todo).kind = "try"
    <3>1. Accepts(c, f, {Swallowed}) BY <2>1, <2>3, WaitingFrame DEF Accepts
    <3>2. {Swallowed} \in SUBSET Tags BY DEF Tags
    <3>3. GoodStack(c, Advance(p, {Swallowed})) BY <2>1, <2>2, <3>1, <3>2, AdvanceGood
    <3>4. QED BY <1>2, <2>3, <3>3 DEF Unwind
  <2>4. CASE Head(f.todo).kind # "try"
    <3>1. <<Erring>> \in Seq(PersistentSteps) /\ <<Erring>> \in Seq(FaithfulSteps(c.world))
      BY SingletonSeq DEF PersistentSteps, FaithfulSteps
    <3>2. g.op = f.op /\ g.cache = f.cache /\ g.got = f.got /\ g.todo = <<Erring>>
      BY <2>1 DEF Frame
    <3>3. GoodFrame(c, g) BY <2>1, <3>1, <3>2 DEF GoodFrame
    <3>4. Unwind(s) = [p EXCEPT ![n] = g] BY <1>2, <2>4 DEF Unwind
    <3>5. g \in Frame
      <4>1. <<Erring>> \in Seq(Step) BY DEF Step
      <4>2. QED BY <2>1, <4>1 DEF Frame
    <3>6. n \in 1 .. Len(p) BY <2>1, <2>2, EmptySeq DEF Busy
    <3> HIDE DEF n, f, p, g
    <3>7. /\ Len([p EXCEPT ![n] = g]) = Len(p)
          /\ \A j \in 1 .. Len(p) : [p EXCEPT ![n] = g][j] = IF j = n THEN g ELSE p[j]
      BY <2>2, <3>5, <3>6, ExceptSeq
    <3>8. GoodStack(c, [p EXCEPT ![n] = g]) BY <2>2, <3>3, <3>7 DEF GoodStack
    <3>9. QED BY <3>4, <3>8
  <2>5. QED BY <2>3, <2>4
<1>3. QED BY <1>1, <1>2

\* The first frame of a call is good, also when the cache answers.
LEMMA NewFrameGood ==
  ASSUME CachesBelongToPersistentWorld, NEW t \in Tasks, Current(t) \in Context,
         NEW op \in CollectorNames, NEW k \in Refnos, NEW plan \in Plans(t, op)
  PROVE  GoodFrame(Current(t), NewFrame(plan, op, k))
<1> DEFINE c == Current(t)
           hit == plan.cache # None /\ cache[plan.cache][k] # {}
<1>1. GoodPlan(t, op, plan) BY PlansAreGood DEF AllGood
<1>2. None \notin PersistentOnlyCaches BY DEF PersistentOnlyCaches, Caches, None
<1>3. CASE hit
  <2> DEFINE got == cache[plan.cache][k]
  <2>1. NewFrame(plan, op, k) =
          [op |-> op, key |-> k, cache |-> None, todo |-> <<>>, got |-> got]
    BY <1>3 DEF NewFrame
  <2>2. Fits(c) /\ op \in Faithful(c.world) => got \subseteq {c.world}
    BY <1>1, <1>3 DEF GoodPlan, FaithfulHere, CachesBelongToPersistentWorld
  <2>3. \A S : <<>> \in Seq(S) BY EmptySeq
  <2> HIDE DEF got
  <2>4. QED BY <1>2, <2>1, <2>2, <2>3 DEF GoodFrame
<1>4. CASE ~hit
  <2>1. NewFrame(plan, op, k) =
          [op |-> op, key |-> k, cache |-> plan.cache, todo |-> plan.todo, got |-> {}]
    BY <1>4 DEF NewFrame
  <2>2. QED BY <1>1, <2>1 DEF GoodFrame, GoodPlan, FaithfulHere
<1>5. QED BY <1>3, <1>4


\* A step that changes the stack of one task, and no cache.
LEMMA StackStep ==
  ASSUME Shape, Provenance, NEW t \in Tasks, NEW s, GoodStack(Current(t), s),
         frames' = [frames EXCEPT ![t] = s], UNCHANGED <<contexts, cache>>
  PROVE  Provenance'
<1>1. \A u \in Tasks : frames'[u] = IF u = t THEN s ELSE frames[u]
  BY DEF Shape, TypeOK
<1>2. \A u \in Tasks : Current(u)' = Current(u) BY DEF Current
<1>3. \A u \in Tasks : GoodStack(Current(u), frames'[u]) BY <1>1 DEF Provenance
<1>4. CachesBelongToPersistentWorld' BY DEF Provenance, CachesBelongToPersistentWorld
<1>5. QED BY <1>2, <1>3, <1>4 DEF Provenance

\* Contexts change outside calls only, so the frames stay good.
LEMMA ContextsNextGood ==
  ASSUME Shape, Provenance, NEW t \in Tasks, frames[t] = <<>>, UNCHANGED <<frames, cache>>,
         \A u \in Tasks : u # t => contexts'[u] = contexts[u]
  PROVE  Provenance'
<1>1. ASSUME NEW u \in Tasks PROVE GoodStack(Current(u)', frames'[u])
  <2>1. CASE u = t BY <2>1 DEF GoodStack
  <2>2. CASE u # t BY <2>2 DEF Provenance, Current
  <2>3. QED BY <2>1, <2>2
<1>2. CachesBelongToPersistentWorld' BY DEF Provenance, CachesBelongToPersistentWorld
<1>3. QED BY <1>1, <1>2 DEF Provenance

LEMMA ProvenanceNext == Shape /\ Provenance /\ [Next]_vars => Provenance'
<1> SUFFICES ASSUME Shape, Provenance, [Next]_vars PROVE Provenance' OBVIOUS
<1>0. contexts \in [Tasks -> Seq(Context)] BY DEF Shape, TypeOK
<1>1. ASSUME NEW t \in Tasks,
             \/ \E w \in StagingDbs : with_staging_reads(t, w)
             \/ \E p \in Providers : with_direct_reads(t, p)
             \/ LeaveScope(t)
             \/ Finish(t)
      PROVE  Provenance'
  <2>1. frames[t] = <<>> /\ UNCHANGED <<frames, cache>>
    BY <1>1 DEF with_staging_reads, with_direct_reads, EnterScope, LeaveScope, Finish, Idle
  <2>2. \A u \in Tasks : u # t => contexts'[u] = contexts[u]
    BY <1>0, <1>1 DEF with_staging_reads, with_direct_reads, EnterScope, LeaveScope, Finish
  <2>3. QED BY <2>1, <2>2, ContextsNextGood
<1>2. ASSUME NEW t \in Tasks, NEW u \in Tasks,
             spawn_with_staging_reads(t, u) \/ spawn_with_direct_reads(t, u)
      PROVE  Provenance'
  <2>1. PICK s, d : Spawn(t, u, s, d)
    BY <1>2 DEF spawn_with_staging_reads, spawn_with_direct_reads
  <2>2. frames[u] = <<>> BY <2>1 DEF Spawn, Shape
  <2>3. UNCHANGED <<frames, cache>> BY <2>1 DEF Spawn
  <2>4. \A v \in Tasks : v # u => contexts'[v] = contexts[v] BY <1>0, <2>1 DEF Spawn
  <2>5. QED BY <2>2, <2>3, <2>4, ContextsNextGood
<1>3. ASSUME NEW t \in Tasks, NEW op \in Collectors, NEW k \in Refnos, Request(t, op, k)
      PROVE  Provenance'
  <2>1. PICK plan \in Plans(t, op) : frames' = [frames EXCEPT ![t] = <<NewFrame(plan, op, k)>>]
    BY <1>3 DEF Request
  <2>2. contexts[t] # <<>> /\ contexts[t] \in Seq(Context) BY <1>0, <1>3 DEF Request, Idle
  <2>3. Current(t) \in Context BY <2>2, EmptySeq, ElementOfSeq DEF Current
  <2>4. op \in CollectorNames BY CollectorsAssumption
  <2>5. GoodFrame(Current(t), NewFrame(plan, op, k))
    BY <2>3, <2>4, NewFrameGood DEF Provenance
  <2>6. GoodStack(Current(t), <<NewFrame(plan, op, k)>>) BY <2>5 DEF GoodStack
  <2>7. QED BY <1>3, <2>1, <2>6, StackStep DEF Request
<1>4. ASSUME NEW t \in Tasks, NEW k \in Refnos, Descend(t, k) PROVE Provenance'
  <2>1. frames[t] # <<>> /\ Top(t).todo # <<>> /\ NextStep(t).kind \in {"call", "try"}
    BY <1>4 DEF Descend
  <2> DEFINE op == NextStep(t).arg
  <2>2. PICK plan \in Plans(t, op) :
          frames' = [frames EXCEPT ![t] = Append(frames[t], NewFrame(plan, op, k))]
    BY <1>4 DEF Descend
  <2>3. op \in CollectorNames BY <2>1, InsideCall, StepShape
  <2> DEFINE f == NewFrame(plan, op, k)
  <2>4. f \in Frame BY <2>1, <2>3, InsideCall, NewFrameType
  <2>5. GoodFrame(Current(t), f) BY <2>1, <2>3, InsideCall, NewFrameGood DEF Provenance
  <2> HIDE DEF f
  <2>6. /\ Len(Append(frames[t], f)) = Len(frames[t]) + 1
        /\ \A i \in 1 .. Len(frames[t]) : Append(frames[t], f)[i] = frames[t][i]
        /\ Append(frames[t], f)[Len(frames[t]) + 1] = f
    BY <2>1, <2>4, InsideCall, AppendProperties
  <2>7. GoodStack(Current(t), Append(frames[t], f))
    BY <2>1, <2>5, <2>6, InsideCall DEF GoodStack, Provenance
  <2>8. QED BY <1>4, <2>2, <2>7, StackStep DEF Descend, f
<1>5. ASSUME NEW t \in Tasks, Answer(t) PROVE Provenance'
  <2> DEFINE d == NextStep(t).arg
  <2>1. frames[t] # <<>> /\ Top(t).todo # <<>> /\ NextStep(t).kind \in {"ask", "softask"}
    BY <1>5 DEF Answer
  <2>2. {d} \in SUBSET Tags BY <2>1, InsideCall, StepShape DEF Tags
  <2>3. GoodFrame(Current(t), Top(t)) BY <2>1, InsideCall DEF Provenance, GoodStack, Top
  <2>4. \A S : Top(t).todo \in Seq(S) => NextStep(t) \in S
    BY <2>1, HeadTailProperties DEF NextStep
  <2>5. Accepts(Current(t), Top(t), {d})
    BY <2>1, <2>3, <2>4
    DEF Accepts, GoodFrame, PersistentSteps, FaithfulSteps, Ask, Call, Erring
  <2>6. GoodStack(Current(t), Advance(frames[t], {d}))
    BY <2>1, <2>2, <2>5, InsideCall, AdvanceGood DEF Provenance, Top
  <2>7. QED BY <1>5, <2>6, StackStep DEF Answer
<1>6. ASSUME NEW t \in Tasks, Fail(t) PROVE Provenance'
  <2>1. frames[t] # <<>> BY <1>6 DEF Fail
  <2>2. GoodStack(Current(t), Unwind(frames[t]))
    BY <2>1, InsideCall, UnwindGood DEF Provenance
  <2>3. QED BY <1>6, <2>2, StackStep DEF Fail
<1>7. ASSUME NEW t \in Tasks, FailSoftly(t) PROVE Provenance'
  <2>1. frames[t] # <<>> /\ Top(t).todo # <<>> /\ NextStep(t).kind = "softask"
    BY <1>7 DEF FailSoftly
  <2>2. {Swallowed} \in SUBSET Tags BY DEF Tags
  <2>3. GoodFrame(Current(t), Top(t)) BY <2>1, InsideCall DEF Provenance, GoodStack, Top
  <2>4. \A S : Top(t).todo \in Seq(S) => NextStep(t) \in S
    BY <2>1, HeadTailProperties DEF NextStep
  <2>5. Accepts(Current(t), Top(t), {Swallowed})
    BY <2>1, <2>3, <2>4
    DEF Accepts, GoodFrame, PersistentSteps, FaithfulSteps, Ask, Call, Erring
  <2>6. GoodStack(Current(t), Advance(frames[t], {Swallowed}))
    BY <2>1, <2>2, <2>5, InsideCall, AdvanceGood DEF Provenance, Top
  <2>7. QED BY <1>7, <2>6, StackStep DEF FailSoftly
<1>8. ASSUME NEW t \in Tasks, Return(t) PROVE Provenance'
  <2> DEFINE c == Current(t)
             s == frames[t]
             r == IF Len(s) = 1 THEN <<>> ELSE Advance(Pop(s), Top(t).got)
  <2>1. s # <<>> /\ frames' = [frames EXCEPT ![t] = r] /\ UNCHANGED contexts
    BY <1>8 DEF Return
  <2>2. GoodFrame(c, Top(t)) /\ GoodStack(c, s) /\ s \in Seq(Frame) /\ Linked(s)
    BY <2>1, InsideCall DEF Provenance, GoodStack, Top
  <2>3. GoodStack(c, r)
    <3>1. CASE Len(s) = 1 BY <3>1 DEF GoodStack
    <3>2. CASE Len(s) # 1 BY <2>1, <2>2, <3>2, ReturnGood DEF Top
    <3>3. QED BY <3>1, <3>2
  <2>4. CachesBelongToPersistentWorld'
    <3>1. cache \in [Caches -> [Refnos -> SUBSET Tags]] BY DEF Shape, TypeOK
    <3>2. CASE Top(t).cache = None
      BY <1>8, <3>2 DEF Return, Provenance, CachesBelongToPersistentWorld
    <3>3. CASE Top(t).cache # None
      <4>1. cache' = [cache EXCEPT ![Top(t).cache][Top(t).key] = Top(t).got]
        BY <1>8, <3>3 DEF Return
      <4>2. PersistentOnlyCaches \subseteq Caches BY DEF PersistentOnlyCaches
      <4>3. \A x \in PersistentOnlyCaches, k \in Refnos :
              cache'[x][k] = cache[x][k] \/ (x = Top(t).cache /\ cache'[x][k] = Top(t).got)
        BY <3>1, <4>1, <4>2
      <4>4. QED BY <2>2, <4>3 DEF GoodFrame, Provenance, CachesBelongToPersistentWorld
    <3>4. QED BY <3>2, <3>3
  <2>5. \A u \in Tasks : frames'[u] = IF u = t THEN r ELSE frames[u]
    BY <2>1 DEF Shape, TypeOK
  <2>6. \A u \in Tasks : Current(u)' = Current(u) BY <2>1 DEF Current
  <2> HIDE DEF r, s
  <2>7. \A u \in Tasks : GoodStack(Current(u)', frames'[u])
    BY <2>3, <2>5, <2>6 DEF Provenance
  <2>8. QED BY <2>4, <2>7 DEF Provenance
<1>9. CASE UNCHANGED vars
  BY <1>9 DEF vars, Provenance, CachesBelongToPersistentWorld, Current
<1>10. QED
  BY <1>1, <1>2, <1>3, <1>4, <1>5, <1>6, <1>7, <1>8, <1>9 DEF Next

LEMMA ProvenanceInvariant == Spec => []Provenance
<1>1. Init => Provenance
  BY DEF Init, Provenance, CachesBelongToPersistentWorld, PersistentOnlyCaches, GoodStack
<1>2. QED BY <1>1, ProvenanceNext, ShapeInvariant, PTL DEF Spec

\* The persistent-only caches hold values of SUL_DB alone, whatever contexts
\* come and go, nest, and are lost at spawns.
THEOREM CachesArePersistent == Spec => []CachesBelongToPersistentWorld
<1>1. Provenance => CachesBelongToPersistentWorld BY DEF Provenance
<1>2. QED BY <1>1, ProvenanceInvariant, PTL

\* With disciplined callers the task-locals of every running task agree with
\* the world it computes for.
LEMMA ContextsFit ==
  ASSUME Disciplined
  PROVE  Spec => [](\A t \in Tasks : \A i \in DOMAIN contexts[t] : Fits(contexts[t][i]))
<1> DEFINE P == {c \in Context : Fits(c)}
           Inv == \A t \in Tasks : \A i \in DOMAIN contexts[t] : contexts[t][i] \in P
<1>1. /\ StagingDbs \intersect Providers = {}
      /\ {Persistent, None} \intersect (StagingDbs \union Providers) = {}
  BY RoutingAssumption
<1>2. Init => Inv
  <2>1. NoContext \in P BY <1>1 DEF NoContext, Context, Worlds, Fits
  <2>2. QED BY <2>1 DEF Init
<1>3. Shape /\ Inv /\ [Next]_vars => Inv'
  <2> SUFFICES ASSUME Shape, Inv, [Next]_vars PROVE Inv' OBVIOUS
  <2>1. \A t \in Tasks : Idle(t) => Current(t) \in Context /\ Fits(Current(t))
    <3> SUFFICES ASSUME NEW t \in Tasks, Idle(t)
                 PROVE  Current(t) \in Context /\ Fits(Current(t))
      OBVIOUS
    <3>1. contexts[t] \in Seq(Context) /\ contexts[t] # <<>> BY DEF Shape, TypeOK, Idle
    <3>2. Len(contexts[t]) \in DOMAIN contexts[t] BY <3>1, EmptySeq, LenProperties
    <3>3. QED BY <3>2 DEF Current
  <2>3. ASSUME NEW t \in Tasks, NEW w \in StagingDbs, with_staging_reads(t, w)
        PROVE  [Current(t) EXCEPT !.staging = w, !.world = w] \in P
    <3> DEFINE c == [Current(t) EXCEPT !.staging = w, !.world = w]
    <3>1. Idle(t) /\ active_direct_reads(t) = None BY <2>3, Zenon DEF with_staging_reads
    <3>2. c \in Context /\ c.staging = w /\ c.world = w /\ c.direct = None
      BY <2>1, <3>1 DEF Context, Worlds, active_direct_reads
    <3> HIDE DEF c
    <3>3. Fits(c) BY <1>1, <3>2 DEF Fits
    <3>4. c \in P BY <3>2, <3>3
    <3>5. QED BY <3>4 DEF c
  <2>4. ASSUME NEW t \in Tasks, NEW p \in Providers, with_direct_reads(t, p)
        PROVE  [Current(t) EXCEPT !.direct = p, !.world = p] \in P
    <3> DEFINE c == [Current(t) EXCEPT !.direct = p, !.world = p]
    <3>1. Idle(t) /\ active_staging_reads(t) = None BY <2>4 DEF with_direct_reads
    <3>2. c \in Context /\ c.direct = p /\ c.world = p /\ c.staging = None
      BY <2>1, <3>1 DEF Context, Worlds, active_staging_reads
    <3> HIDE DEF c
    <3>3. Fits(c) BY <1>1, <3>2 DEF Fits
    <3>4. c \in P BY <3>2, <3>3
    <3>5. QED BY <3>4 DEF c
  <2>5. ASSUME NEW t \in Tasks, NEW u \in Tasks,
               NEW s \in StagingDbs \union {None}, NEW d \in Providers \union {None},
               \/ spawn_with_staging_reads(t, u) /\ s = active_staging_reads(t) /\ d = None
               \/ spawn_with_direct_reads(t, u) /\ s = None /\ d = active_direct_reads(t)
        PROVE  [staging |-> s, direct |-> d, world |-> Current(t).world] \in P
    BY <1>1, <2>1, <2>5 DEF spawn_with_staging_reads, spawn_with_direct_reads, Context,
       active_staging_reads, active_direct_reads, Fits
  <2> HIDE DEF P
  <2>6. QED BY <2>3, <2>4, <2>5, ContextsKeep
<1>4. Inv => \A t \in Tasks : \A i \in DOMAIN contexts[t] : Fits(contexts[t][i])
  OBVIOUS
<1> HIDE DEF Inv
<1>5. QED BY <1>2, <1>3, <1>4, ShapeInvariant, PTL DEF Spec

\* No value of a faithful collector is stitched from two worlds, at any call
\* depth, in any nesting of scopes and in every spawned task.
THEOREM WorldsAreIsolated ==
  ASSUME Disciplined
  PROVE  Spec => []WorldIsolation
<1> DEFINE Fit == \A t \in Tasks : \A i \in DOMAIN contexts[t] : Fits(contexts[t][i])
<1>1. Shape /\ Provenance /\ Fit => WorldIsolation
  <2> SUFFICES ASSUME Shape, Provenance, Fit, NEW t \in Tasks, NEW i \in DOMAIN frames[t],
                      frames[t][i].op \in Faithful(Current(t).world)
               PROVE  frames[t][i].got \subseteq {Current(t).world}
    BY DEF WorldIsolation
  <2>1. frames[t] \in Seq(Frame) /\ DOMAIN frames[t] = 1 .. Len(frames[t])
    BY LenProperties DEF Shape, TypeOK
  <2>2. frames[t] # <<>> BY <2>1, EmptySeq
  <2>3. contexts[t] # <<>> /\ contexts[t] \in Seq(Context) BY <2>2 DEF Shape, TypeOK
  <2>4. Len(contexts[t]) \in DOMAIN contexts[t] BY <2>3, EmptySeq, LenProperties
  <2>5. Fits(Current(t)) BY <2>4 DEF Current
  <2>6. GoodFrame(Current(t), frames[t][i]) BY <2>1 DEF Provenance, GoodStack
  <2>7. QED BY <2>5, <2>6 DEF GoodFrame
<1> HIDE DEF Fit
<1>2. Spec => []Fit BY ContextsFit DEF Fit
<1>3. QED BY <1>1, <1>2, ShapeInvariant, ProvenanceInvariant, PTL
=============================================================================
