---------------------------- MODULE ReadRouting ----------------------------
(***************************************************************************)
(* The read path of aios_core: which world answers a read.                 *)
(*                                                                         *)
(* A read is made through a "collector" (get_pe, get_named_attmap, ...).   *)
(* It is answered by the persistent SurrealDB (SUL_DB), by the staging     *)
(* database of the commit window the task runs in (rs_surreal/staging.rs), *)
(* or by the E3D-file provider of the generation the task runs in          *)
(* (rs_surreal/direct.rs).  Two task-local contexts select the world; the  *)
(* process-wide #[cached] maps are keyed by refno alone and so belong to   *)
(* the persistent world only.                                              *)
(*                                                                         *)
(* The payload of a value is abstracted to its provenance: the set of      *)
(* worlds it was computed from, plus Swallowed when some failure on the    *)
(* way was replaced by a default.                                          *)
(***************************************************************************)
EXTENDS Naturals, Sequences, FiniteSets

CONSTANTS
  Tasks,        \* tokio tasks
  Roots,        \* the tasks that run from the start, with no context
  Refnos,       \* element reference numbers
  StagingDbs,   \* staging databases, one per commit window
  Providers,    \* direct read providers, one per generation
  Collectors,   \* the collectors application code calls
  Disciplined,  \* callers open no window inside a generation, and spawn
                \* with the spawner of the context they are in
  MaxScopes,    \* bound: nesting of with_*_reads
  MaxFrames,    \* bound: call depth from which a world fold asks for no other
                \* fold and a line of a profile for no expression
  MaxCached     \* bound: filled cache entries after which no call starts

Persistent == "SUL_DB"
None       == "none"
Swallowed  == "swallowed"

Worlds == {Persistent} \union StagingDbs \union Providers

ASSUME RoutingAssumption ==
  /\ Roots \subseteq Tasks
  /\ Disciplined \in BOOLEAN
  /\ StagingDbs \intersect Providers = {}
  /\ {Persistent, None, Swallowed} \intersect (StagingDbs \union Providers) = {}
  /\ MaxScopes \in Nat /\ MaxFrames \in Nat /\ MaxCached \in Nat

VARIABLES
  contexts, \* contexts[t]: the task-locals of t, one entry per scope it is
            \* inside, innermost last; <<>> when t is not running
  frames,   \* frames[t]: the stack of collector calls task t is executing
  cache     \* cache[c][r]: provenance of the cached value, {} when absent

vars == <<contexts, frames, cache>>

(***************************************************************************)
(* The task-local contexts: what STAGING_READS and DIRECT_READS hold, and  *)
(* the world the computation in the scope is about.                        *)
(***************************************************************************)
Context == [staging : StagingDbs \union {None},
            direct  : Providers \union {None},
            world   : Worlds]

NoContext == [staging |-> None, direct |-> None, world |-> Persistent]

Current(t) == contexts[t][Len(contexts[t])]

active_staging_reads(t) == Current(t).staging
active_direct_reads(t)  == Current(t).direct

data_db(t) == IF active_staging_reads(t) = None THEN Persistent
              ELSE active_staging_reads(t)

(***************************************************************************)
(* Plans: how one call of a collector proceeds in the current context.  A  *)
(* plan names the process cache the call goes through, if any, and the     *)
(* steps of its body.  Several plans: the data decides.                    *)
(***************************************************************************)
Caches == {"GET_PE", "QUERY_ANCESTOR_REFNOS", "QUERY_ANCESTOR_OF_TYPE",
           "GET_ANCESTOR_TYPES", "GET_TYPE_NAME",
           "GET_SELF_AND_OWNER_TYPE_NAME", "GET_NAMED_ATTMAP",
           "GET_NAMED_ATTMAP_WITH_UDA", "GET_SIBLINGS", "GET_CAT_REFNO",
           "GET_CAT_ATTMAP", "GET_CHILDREN_REFNOS",
           "GET_CHILDREN_NAMED_ATTMAPS", "GET_CHILDREN_PES",
           "QUERY_DEEP_CHILDREN_REFNOS", "QUERY_DEEP_CHILDREN_REFNOS_PBS",
           "GET_WORLD_TRANSFORM", "GET_WORLD_MAT4"}

\* A step asks a world, or calls another collector.  An error ends the call
\* ("ask", "call": the ? operator) or may be replaced by a default
\* ("softask": if let Ok; "try": if let Ok, unwrap_or_default).
Ask(w)     == [kind |-> "ask",     arg |-> w]
SoftAsk(w) == [kind |-> "softask", arg |-> w]
Call(op)   == [kind |-> "call",    arg |-> op]
Try(op)    == [kind |-> "try",     arg |-> op]
Erring     == [kind |-> "fail",    arg |-> None]

Plain(todo)     == {[cache |-> None, todo |-> todo]}
Cached(c, todo) == {[cache |-> c, todo |-> todo]}
Sul             == <<Ask(Persistent)>>

\* `if let Some(ctx) = active_direct_reads() { return ctx.provider()... }`
DirectOr(t, otherwise) ==
  IF active_direct_reads(t) = None THEN otherwise
  ELSE Plain(<<Ask(active_direct_reads(t))>>)

\* (mutant) asks the handle of the other context
StagingOr_swapped(t, otherwise) ==
  IF active_staging_reads(t) = None THEN otherwise
  ELSE Plain(<<Ask(active_direct_reads(t))>>)

\* `if let Some(ctx) = active_staging_reads() { return ..._on(ctx.db(), ..) }`
StagingOr(t, otherwise) ==
  IF active_staging_reads(t) = None THEN otherwise
  ELSE Plain(<<Ask(active_staging_reads(t))>>)

\* (mutant) #[cached] on the function that picks the database by context
get_children_refnos_cached(t) ==
  DirectOr(t, Cached("GET_CHILDREN_REFNOS", <<Ask(data_db(t))>>))
\* (mutant) the staging branch left out of a collector the world fold calls
get_ancestor_attmaps_unrouted(t) == DirectOr(t, Plain(Sul))

Deep(t) == Len(frames[t]) >= MaxFrames

\* rs_surreal/query.rs
get_pe(t) == StagingOr(t, Cached("GET_PE", Sul))
query_ancestor_refnos(t) ==
  DirectOr(t, StagingOr(t, Cached("QUERY_ANCESTOR_REFNOS", Sul)))
query_ancestor_of_type(t) == Cached("QUERY_ANCESTOR_OF_TYPE", Sul)
get_ancestor_types(t) == DirectOr(t, Cached("GET_ANCESTOR_TYPES", Sul))
get_ancestor_attmaps(t) == DirectOr(t, StagingOr(t, Plain(Sul)))
get_type_name(t) == DirectOr(t, StagingOr(t, Cached("GET_TYPE_NAME", Sul)))
get_owner_type_name(t) == Plain(<<Ask(data_db(t))>>)
get_self_and_owner_type_name(t) ==
  StagingOr(t, Cached("GET_SELF_AND_OWNER_TYPE_NAME", <<Ask(data_db(t))>>))
get_index_by_noun_in_parent(t) == Plain(Sul)
get_named_attmap(t) ==
  DirectOr(t, StagingOr(t, Cached("GET_NAMED_ATTMAP", Sul)))
get_implicit_named_attmap(t) == StagingOr(t, Plain(Sul))
get_named_attmap_with_uda(t) ==
  StagingOr(t, Cached("GET_NAMED_ATTMAP_WITH_UDA", Sul))
get_siblings(t) == Cached("GET_SIBLINGS", Sul)
get_next_prev(t) == Plain(<<Call("get_siblings")>>)
get_cat_refno(t) == DirectOr(t, Cached("GET_CAT_REFNO", Sul))
get_cat_attmap(t) == Cached("GET_CAT_ATTMAP", Sul)
get_children_named_attmaps(t) ==
  DirectOr(t, Cached("GET_CHILDREN_NAMED_ATTMAPS", Sul))
get_children_pes(t) == DirectOr(t, Cached("GET_CHILDREN_PES", Sul))
query_filter_children(t) == DirectOr(t, Plain(Sul))
query_filter_children_atts(t) == DirectOr(t, Plain(Sul))
get_children_refnos(t) ==
  DirectOr(t, StagingOr(t, Cached("GET_CHILDREN_REFNOS", <<Ask(data_db(t))>>)))
query_multi_children_refnos(t) == Plain(<<Call("get_children_refnos")>>)
query_single_by_paths(t) == DirectOr(t, Plain(Sul))
\* Mixed read: source model from the provider, products from SUL_DB, where an
\* erring statement counts as "nothing generated yet".
query_group_by_cata_hash(t) ==
  IF active_direct_reads(t) # None
  THEN Plain(<<Ask(active_direct_reads(t)), SoftAsk(Persistent)>>)
  ELSE Plain(<<Ask(data_db(t))>>)

\* rs_surreal/graph.rs, rs_surreal/geom.rs
query_deep_children_refnos(t) ==
  DirectOr(t, StagingOr(t,
    Cached("QUERY_DEEP_CHILDREN_REFNOS", <<Ask(data_db(t))>>)))
\* #[cached] on the function that picks the database by context.
query_deep_children_refnos_pbs(t) ==
  Cached("QUERY_DEEP_CHILDREN_REFNOS_PBS", <<Ask(data_db(t))>>)
query_filter_deep_children(t) ==
  DirectOr(t, Plain(<<Call("query_deep_children_refnos"), SoftAsk(data_db(t))>>))
query_filter_deep_children_atts(t) ==
  IF active_direct_reads(t) # None
  THEN Plain(<<Ask(active_direct_reads(t)), Ask(active_direct_reads(t))>>)
  ELSE Plain(<<Call("query_deep_children_refnos"), SoftAsk(data_db(t))>>)
query_multi_filter_deep_children(t) ==
  Plain(<<Call("query_filter_deep_children"), Call("query_filter_deep_children")>>)
\* Mixed reads: retain_ungenerated asks data_db() in a direct context too.
query_deep_children_refnos_filter_spre(t) ==
  IF active_direct_reads(t) # None
  THEN Plain(<<Ask(active_direct_reads(t)), Ask(data_db(t))>>)
  ELSE Plain(<<Ask(data_db(t))>>)
\* query_types asks SUL_DB by name.
query_multi_deep_versioned_children_filter_inst(t) ==
  IF active_direct_reads(t) # None
  THEN Plain(<<Ask(active_direct_reads(t)), Ask(data_db(t))>>)
  ELSE Plain(<<Ask(Persistent), Ask(data_db(t))>>)
query_filter_ancestors(t) ==
  Plain(<<Call("get_type_name"), Call("query_ancestor_refnos"), Ask(data_db(t))>>)
fetch_loops_and_height(t) == DirectOr(t, Plain(<<Ask(data_db(t))>>))
query_deep_visible_inst_refnos(t) ==
  LET own == <<Call("get_self_and_owner_type_name")>>
  IN  UNION {Plain(own),                                  \* member of a branch
             Plain(own \o <<Call("get_children_refnos")>>),    \* a branch
             Plain(own \o <<Call("query_filter_deep_children"),
                            Call("query_multi_children_refnos"),
                            Call("query_filter_deep_children")>>)}

\* rs_surreal/resolve.rs: without a catalogue element nothing more is read; an
\* expression with OF asks for the element it names or for a neighbour.
get_or_create_cata_context(t) ==
  LET own   == <<Call("get_named_attmap"), Try("get_cat_attmap")>>
      owner == own \o <<Call("get_named_attmap"), Call("get_children_named_attmaps"),
                        Try("get_cat_attmap")>>
  IN UNION {Plain(own), Plain(owner),
            Plain(owner \o <<Try("get_named_attmap"), Try("get_cat_attmap")>>)}
resolve_expression(t) ==
  LET own == <<Call("get_or_create_cata_context")>>
  IN UNION {Plain(own), Plain(own \o <<Try("get_pe")>>),
            Plain(own \o <<Try("get_next_prev"), Try("get_pe")>>)}

\* rs_surreal/spatial.rs
get_spline_pts(t) == DirectOr(t, StagingOr(t, Plain(Sul)))
get_spline_path(t) ==
  UNION {Plain(<<Call("get_type_name")>>),
         Plain(<<Call("get_type_name"), Try("get_children_refnos"),
                 Call("get_named_attmap"), Try("get_children_named_attmaps")>>)}
cal_zdis_pkdi_in_section_by_spine(t) ==
  UNION {Plain(<<Call("get_spline_path")>>),
         Plain(<<Call("get_spline_path"), Call("get_world_mat4"),
                 Try("get_spline_pts")>>)}
\* The lines of a profile up to the one asked for, each with the values of its
\* expressions, or, when none is it, the line a wall has without saying.
implicit_wall_pline(t) == UNION {Plain(<<>>), Plain(<<Try("get_type_name")>>)}
query_pline(t) ==
  LET own   == <<Try("get_cat_attmap")>>
      lines == own \o <<Try("get_children_refnos")>>
      line  == lines \o <<Call("get_named_attmap")>>
                 \o (IF Deep(t) THEN <<>> ELSE <<Call("resolve_expression")>>)
      wall  == <<Call("implicit_wall_pline")>>
  IN UNION {Plain(own \o wall), Plain(lines \o wall), Plain(line), Plain(line \o wall)}

\* One level of the fold over the owner chain has four parts, each reading what
\* the data asks for: the spine of a GENSEC that owns the element; SJOI, cut
\* against its CREF; ENDATU or ZDIS, placed along a spine; POSL, placed on a line
\* of an ancestor's profile (and of its JUSL alike). Other levels repeat them.
fold_spine(t) == UNION {Plain(<<>>), Plain(<<Try("get_spline_pts")>>)}
fold_cut(t) ==
  LET line == <<Try("get_named_attmap"), Try("query_pline")>>
      cut  == line \o <<Call("get_world_transform"), Call("get_world_transform")>>
  IN UNION {Plain(<<>>), Plain(line), IF Deep(t) THEN {} ELSE Plain(cut)}
fold_zdis(t) ==
  LET place == <<Call("cal_zdis_pkdi_in_section_by_spine")>>
      end   == <<Call("get_index_by_noun_in_parent")>> \o place
  IN Plain(<<>>) \union (IF Deep(t) THEN {} ELSE UNION {Plain(place), Plain(end)})
fold_posl(t) ==
  LET above == <<Call("query_filter_ancestors")>>
      line  == <<Try("get_named_attmap"), Try("query_pline")>>
  IN UNION {Plain(<<>>), Plain(above), Plain(above \o line)}
Folds == {"fold_spine", "fold_cut", "fold_zdis", "fold_posl"}

WorldFold ==
  LET base == <<Call("get_ancestor_attmaps"), Call("query_ancestor_refnos")>>
  IN {base, base \o <<Call("fold_spine"), Call("fold_cut"), Call("fold_zdis"), Call("fold_posl")>>}

get_world_mat4_impl(t, c) == {[cache |-> c, todo |-> body] : body \in WorldFold}

\* Only the staging context bypasses the process cache here ...
get_world_mat4(t) ==
  IF active_staging_reads(t) # None THEN get_world_mat4_impl(t, None)
  ELSE get_world_mat4_impl(t, "GET_WORLD_MAT4")
\* ... and both contexts bypass it here.
get_world_transform(t) ==
  IF active_direct_reads(t) # None \/ active_staging_reads(t) # None
  THEN get_world_mat4_impl(t, None)
  ELSE Cached("GET_WORLD_TRANSFORM", <<Call("get_world_mat4")>>)

Plans(t, op) ==
  CASE op = "get_pe" -> get_pe(t)
    [] op = "query_ancestor_refnos" -> query_ancestor_refnos(t)
    [] op = "query_ancestor_of_type" -> query_ancestor_of_type(t)
    [] op = "get_ancestor_types" -> get_ancestor_types(t)
    [] op = "get_ancestor_attmaps" -> get_ancestor_attmaps(t)
    [] op = "get_type_name" -> get_type_name(t)
    [] op = "get_owner_type_name" -> get_owner_type_name(t)
    [] op = "get_self_and_owner_type_name" -> get_self_and_owner_type_name(t)
    [] op = "get_index_by_noun_in_parent" -> get_index_by_noun_in_parent(t)
    [] op = "get_named_attmap" -> get_named_attmap(t)
    [] op = "get_implicit_named_attmap" -> get_implicit_named_attmap(t)
    [] op = "get_named_attmap_with_uda" -> get_named_attmap_with_uda(t)
    [] op = "get_siblings" -> get_siblings(t)
    [] op = "get_next_prev" -> get_next_prev(t)
    [] op = "get_or_create_cata_context" -> get_or_create_cata_context(t)
    [] op = "resolve_expression" -> resolve_expression(t)
    [] op = "get_cat_refno" -> get_cat_refno(t)
    [] op = "get_cat_attmap" -> get_cat_attmap(t)
    [] op = "get_children_named_attmaps" -> get_children_named_attmaps(t)
    [] op = "get_children_pes" -> get_children_pes(t)
    [] op = "query_filter_children" -> query_filter_children(t)
    [] op = "query_filter_children_atts" -> query_filter_children_atts(t)
    [] op = "get_children_refnos" -> get_children_refnos(t)
    [] op = "query_multi_children_refnos" -> query_multi_children_refnos(t)
    [] op = "query_single_by_paths" -> query_single_by_paths(t)
    [] op = "query_group_by_cata_hash" -> query_group_by_cata_hash(t)
    [] op = "query_deep_children_refnos" -> query_deep_children_refnos(t)
    [] op = "query_deep_children_refnos_pbs" -> query_deep_children_refnos_pbs(t)
    [] op = "query_filter_deep_children" -> query_filter_deep_children(t)
    [] op = "query_filter_deep_children_atts" -> query_filter_deep_children_atts(t)
    [] op = "query_multi_filter_deep_children" -> query_multi_filter_deep_children(t)
    [] op = "query_deep_children_refnos_filter_spre" ->
         query_deep_children_refnos_filter_spre(t)
    [] op = "query_multi_deep_versioned_children_filter_inst" ->
         query_multi_deep_versioned_children_filter_inst(t)
    [] op = "query_filter_ancestors" -> query_filter_ancestors(t)
    [] op = "fetch_loops_and_height" -> fetch_loops_and_height(t)
    [] op = "query_deep_visible_inst_refnos" -> query_deep_visible_inst_refnos(t)
    [] op = "get_spline_pts" -> get_spline_pts(t)
    [] op = "get_spline_path" -> get_spline_path(t)
    [] op = "cal_zdis_pkdi_in_section_by_spine" -> cal_zdis_pkdi_in_section_by_spine(t)
    [] op = "query_pline" -> query_pline(t)
    [] op = "implicit_wall_pline" -> implicit_wall_pline(t)
    [] op = "fold_spine" -> fold_spine(t)
    [] op = "fold_cut" -> fold_cut(t)
    [] op = "fold_zdis" -> fold_zdis(t)
    [] op = "fold_posl" -> fold_posl(t)
    [] op = "get_world_mat4" -> get_world_mat4(t)
    [] op = "get_world_transform" -> get_world_transform(t)

CollectorNames ==
  {"get_pe", "query_ancestor_refnos", "query_ancestor_of_type",
   "get_ancestor_types", "get_ancestor_attmaps", "get_type_name",
   "get_owner_type_name", "get_self_and_owner_type_name",
   "get_index_by_noun_in_parent", "get_named_attmap",
   "get_implicit_named_attmap", "get_named_attmap_with_uda", "get_siblings",
   "get_next_prev", "get_or_create_cata_context", "resolve_expression",
   "get_cat_refno", "get_cat_attmap", "get_children_named_attmaps",
   "get_children_pes", "query_filter_children", "query_filter_children_atts",
   "get_children_refnos", "query_group_by_cata_hash",
   "query_multi_filter_deep_children", "query_deep_children_refnos_filter_spre",
   "query_multi_deep_versioned_children_filter_inst",
   "query_multi_children_refnos", "query_single_by_paths",
   "query_deep_children_refnos", "query_deep_children_refnos_pbs",
   "query_filter_deep_children", "query_filter_deep_children_atts",
   "query_filter_ancestors", "fetch_loops_and_height",
   "query_deep_visible_inst_refnos", "get_spline_pts", "get_spline_path",
   "cal_zdis_pkdi_in_section_by_spine", "query_pline", "implicit_wall_pline",
   "fold_spine", "fold_cut", "fold_zdis", "fold_posl", "get_world_mat4",
   "get_world_transform"}

ASSUME CollectorsAssumption == Collectors \subseteq CollectorNames

(***************************************************************************)
(* Executing a call.  A frame is a collector body in progress: the steps   *)
(* still to do, the provenance gathered so far, the cache it fills on Ok.  *)
(***************************************************************************)
Tags == Worlds \union {Swallowed}
Step == [kind : {"ask", "softask"}, arg : Worlds]
          \union [kind : {"call", "try"}, arg : CollectorNames]
          \union {Erring}
Frame == [op : CollectorNames, key : Refnos, cache : Caches \union {None},
          todo : Seq(Step), got : SUBSET Tags]

Top(t)  == frames[t][Len(frames[t])]
NextStep(t) == Head(Top(t).todo)

\* #[cached] looks up before it runs the body; a hit runs nothing.
NewFrame(plan, op, k) ==
  IF plan.cache # None /\ cache[plan.cache][k] # {}
  THEN [op |-> op, key |-> k, cache |-> None, todo |-> <<>>,
        got |-> cache[plan.cache][k]]
  ELSE [op |-> op, key |-> k, cache |-> plan.cache, todo |-> plan.todo, got |-> {}]

\* The stack s once its last frame has finished the step at its head.
Advance(s, tags) ==
  LET f == s[Len(s)]
  IN  [s EXCEPT ![Len(s)] = [f EXCEPT !.todo = Tail(f.todo), !.got = f.got \union tags]]

Pop(s) == SubSeq(s, 1, Len(s) - 1)

\* The stack after its last frame ended with an error: a `try` step of the
\* caller swallows it, any other call of the caller errs in turn.
Unwind(s) ==
  IF Len(s) = 1 THEN <<>>
  ELSE IF Head(s[Len(s) - 1].todo).kind = "try" THEN Advance(Pop(s), {Swallowed})
  ELSE LET f == s[Len(s) - 1]
       IN  [Pop(s) EXCEPT ![Len(s) - 1] = [f EXCEPT !.todo = <<Erring>>]]

CacheEntries == {e \in Caches \X Refnos : cache[e[1]][e[2]] # {}}

Init ==
  /\ contexts = [t \in Tasks |-> IF t \in Roots THEN <<NoContext>> ELSE <<>>]
  /\ frames   = [t \in Tasks |-> <<>>]
  /\ cache    = [c \in Caches |-> [k \in Refnos |-> {}]]

\* Running, and in application code: not inside a collector.
Idle(t) == contexts[t] # <<>> /\ frames[t] = <<>>

EnterScope(t, c) ==
  /\ Len(contexts[t]) < MaxScopes
  /\ contexts' = [contexts EXCEPT ![t] = Append(@, c)]
  /\ UNCHANGED <<frames, cache>>

\* STAGING_READS.scope(ctx, fut): entered whatever the current context is.
with_staging_reads(t, w) ==
  /\ Idle(t)
  /\ Disciplined => active_direct_reads(t) = None
  /\ EnterScope(t, [Current(t) EXCEPT !.staging = w, !.world = w])

\* Refused inside a staging context (ADR-053 R6).
with_direct_reads(t, p) ==
  /\ Idle(t)
  /\ active_staging_reads(t) = None
  /\ EnterScope(t, [Current(t) EXCEPT !.direct = p, !.world = p])

\* The future of the innermost scope completes: the task-locals are restored.
LeaveScope(t) ==
  /\ Idle(t) /\ Len(contexts[t]) > 1
  /\ contexts' = [contexts EXCEPT ![t] = Pop(@)]
  /\ UNCHANGED <<frames, cache>>

\* Child u computes for the world of t, with the task-locals it is given.
Spawn(t, u, staging, direct) ==
  /\ contexts[u] = <<>>
  /\ contexts' = [contexts EXCEPT ![u] =
       <<[staging |-> staging, direct |-> direct, world |-> Current(t).world]>>]
  /\ UNCHANGED <<frames, cache>>

\* (mutant) a plain tokio::spawn: the task-local is not inherited
spawn_with_direct_reads_lost(t, u) ==
  /\ Idle(t)
  /\ Disciplined => active_staging_reads(t) = None
  /\ Spawn(t, u, None, None)

\* Each spawner captures its own context only, so it loses the other one.
spawn_with_staging_reads(t, u) ==
  /\ Idle(t)
  /\ Disciplined => active_direct_reads(t) = None
  /\ Spawn(t, u, active_staging_reads(t), None)
spawn_with_direct_reads(t, u) ==
  /\ Idle(t)
  /\ Disciplined => active_staging_reads(t) = None
  /\ Spawn(t, u, None, active_direct_reads(t))

\* A spawned task ends; its slot may be used again.
Finish(u) ==
  /\ Idle(u) /\ u \notin Roots /\ Len(contexts[u]) = 1
  /\ contexts' = [contexts EXCEPT ![u] = <<>>]
  /\ UNCHANGED <<frames, cache>>

\* Application code calls a collector.
Request(t, op, k) ==
  /\ Idle(t)
  /\ Cardinality(CacheEntries) < MaxCached
  /\ \E plan \in Plans(t, op) : frames' = [frames EXCEPT ![t] = <<NewFrame(plan, op, k)>>]
  /\ UNCHANGED <<contexts, cache>>

\* A collector calls another one, for the same or another element.
Descend(t, k) ==
  /\ frames[t] # <<>> /\ Top(t).todo # <<>> /\ NextStep(t).kind \in {"call", "try"}
  /\ \E plan \in Plans(t, NextStep(t).arg) :
       frames' = [frames EXCEPT ![t] = Append(@, NewFrame(plan, NextStep(t).arg, k))]
  /\ UNCHANGED <<contexts, cache>>

\* The database or the provider answers.
Answer(t) ==
  /\ frames[t] # <<>> /\ Top(t).todo # <<>> /\ NextStep(t).kind \in {"ask", "softask"}
  /\ frames' = [frames EXCEPT ![t] = Advance(@, {NextStep(t).arg})]
  /\ UNCHANGED <<contexts, cache>>

\* It errs, misses, or the provider does not implement the query.
Fail(t) ==
  /\ frames[t] # <<>> /\ Top(t).todo # <<>> /\ NextStep(t).kind \in {"ask", "softask", "fail"}
  /\ frames' = [frames EXCEPT ![t] = Unwind(@)]
  /\ UNCHANGED <<contexts, cache>>

\* The statement errs inside an accepted response and the body goes on.
FailSoftly(t) ==
  /\ frames[t] # <<>> /\ Top(t).todo # <<>> /\ NextStep(t).kind = "softask"
  /\ frames' = [frames EXCEPT ![t] = Advance(@, {Swallowed})]
  /\ UNCHANGED <<contexts, cache>>

\* The body is done: fill the cache (result = true: only Ok gets here), then
\* hand the value to the caller.
Return(t) ==
  /\ frames[t] # <<>> /\ Top(t).todo = <<>>
  /\ cache' = IF Top(t).cache = None THEN cache
              ELSE [cache EXCEPT ![Top(t).cache][Top(t).key] = Top(t).got]
  /\ frames' = [frames EXCEPT ![t] =
                  IF Len(@) = 1 THEN <<>>
                  ELSE Advance(Pop(@), Top(t).got)]
  /\ UNCHANGED contexts

Next ==
  \E t \in Tasks :
    \/ \E w \in StagingDbs : with_staging_reads(t, w)
    \/ \E p \in Providers : with_direct_reads(t, p)
    \/ LeaveScope(t)
    \/ \E u \in Tasks : spawn_with_staging_reads(t, u) \/ spawn_with_direct_reads(t, u)
    \/ Finish(t)
    \/ \E op \in Collectors, k \in Refnos : Request(t, op, k)
    \/ \E k \in Refnos : Descend(t, k)
    \/ Answer(t)
    \/ Fail(t)
    \/ FailSoftly(t)
    \/ Return(t)

Spec == Init /\ [][Next]_vars

-----------------------------------------------------------------------------
(***************************************************************************)
(* Properties.                                                             *)
(***************************************************************************)

\* Every variable keeps the shape the code gives it.
TypeOK ==
  /\ contexts \in [Tasks -> Seq(Context)]
  /\ frames \in [Tasks -> Seq(Frame)]
  /\ cache \in [Caches -> [Refnos -> SUBSET Tags]]

\* The caches whose cached function runs only when no context is active, or
\* reads SUL_DB by name.  The others are GET_WORLD_MAT4 (no direct branch in
\* front of it), GET_WORLD_TRANSFORM, computed from it, and the pbs cache.
PersistentOnlyCaches ==
  Caches \ {"GET_WORLD_TRANSFORM", "GET_WORLD_MAT4", "QUERY_DEEP_CHILDREN_REFNOS_PBS"}

\* Whatever contexts come and go, a persistent-only cache holds values read
\* from SUL_DB alone, and none built over a swallowed failure: the keys carry
\* no world, so one foreign value would be served to every later reader.
CachesBelongToPersistentWorld ==
  \A c \in PersistentOnlyCaches, k \in Refnos : cache[c][k] \subseteq {Persistent}

\* Collectors that answer from the active world and nothing else.
StagingFaithful ==
  {"get_pe", "query_ancestor_refnos", "get_ancestor_attmaps", "get_type_name",
   "get_owner_type_name", "get_self_and_owner_type_name", "get_named_attmap",
   "get_implicit_named_attmap", "get_named_attmap_with_uda",
   "get_children_refnos", "query_multi_children_refnos",
   "query_deep_children_refnos", "query_filter_ancestors",
   "query_group_by_cata_hash", "query_deep_children_refnos_filter_spre",
   "fetch_loops_and_height", "get_spline_pts"}
DirectFaithful ==
  {"get_named_attmap", "get_type_name", "get_cat_refno", "get_children_pes",
   "get_children_refnos", "get_children_named_attmaps", "get_ancestor_types",
   "get_ancestor_attmaps", "query_ancestor_refnos", "query_filter_children",
   "query_single_by_paths", "query_deep_children_refnos",
   "query_filter_deep_children", "query_filter_deep_children_atts",
   "query_filter_children_atts", "query_multi_filter_deep_children",
   "fetch_loops_and_height", "get_spline_pts", "query_multi_children_refnos"}
PersistentFaithful ==
  StagingFaithful \union
  {"get_cat_refno", "get_children_pes", "get_children_named_attmaps",
   "get_ancestor_types", "query_filter_children", "query_single_by_paths",
   "query_filter_children_atts", "query_ancestor_of_type", "get_siblings",
   "get_cat_attmap", "get_index_by_noun_in_parent",
   "query_multi_deep_versioned_children_filter_inst"}

Faithful(w) ==
  IF w \in StagingDbs THEN StagingFaithful
  ELSE IF w \in Providers THEN DirectFaithful ELSE PersistentFaithful

\* No value is stitched from two worlds: a call of a faithful collector, also
\* one nested in other calls and also in a spawned task, gathers provenance
\* only from the world its task computes in, and swallows no failure
\* (staging.rs: fail-closed; direct.rs: fail loud, never back to SurrealDB).
WorldIsolation ==
  \A t \in Tasks : \A i \in DOMAIN frames[t] :
    frames[t][i].op \in Faithful(Current(t).world) =>
      frames[t][i].got \subseteq {Current(t).world}

(***************************************************************************)
(* What the documentation says and the code does not do.                   *)
(***************************************************************************)

\* staging.rs:76-78, direct.rs:309-311: with a context present a result must
\* not be written into a process-level #[cached] cache.
NoContextValueCached ==
  \A c \in Caches, k \in Refnos : cache[c][k] \intersect (StagingDbs \union Providers) = {}

\* The collectors staging.rs:5-6 names as wired; direct.rs:43-47 names
\* get_world_transform as right once its leaves are routed.
Wired(w) == {"get_named_attmap", "get_world_transform"}
              \union (IF w \in StagingDbs THEN {"get_pe"} ELSE {})

\* staging.rs:8, direct.rs:19: inside a context a wired read only asks the
\* world of the context and never falls back to SurrealDB.
WiredReadsStayInTheirWorld ==
  \A t \in Tasks :
    frames[t] # <<>> /\ Current(t).world # Persistent
      /\ frames[t][1].op \in Wired(Current(t).world)
    => Persistent \notin frames[t][1].got
=============================================================================
