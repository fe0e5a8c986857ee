------------------------------ MODULE Material ------------------------------
(***************************************************************************)
(* The material lists (src/material): save_all_material_data classifies the*)
(* sites, loads the SurrealQL functions, queries every site by the getters *)
(* of its discipline and spawns the saves, one task per store, that it     *)
(* joins at the end. Some getters give up when a query fails, others skip  *)
(* it; the savers differ in what they do with an empty list and with a     *)
(* MySQL pool that cannot be reached. One search panics without a          *)
(* connection and takes the whole call with it.                            *)
(***************************************************************************)
EXTENDS MajorTable, MaterialTables

(***************************************************************************)
(* The getters: the part a SITE's name must contain and the queries, in    *)
(* their order. `guarded`: no query when no element is found. `strict`: an *)
(* answer that cannot be read ends the getter with an error; the others    *)
(* print it and go on without these rows.                                  *)
(***************************************************************************)
Strict(fn, nouns) ==
  [fn |-> fn, nouns |-> nouns, list |-> "main", guarded |-> FALSE, strict |-> TRUE]
Lenient(fn, nouns) == [Strict(fn, nouns) EXCEPT !.strict = FALSE]
Guarded(fn, nouns) == [Lenient(fn, nouns) EXCEPT !.guarded = TRUE]
Tubi(query) == [query EXCEPT !.list = "tubi"]

GyParts == {"ELBO", "TEE", "FLAN", "GASK", "OLET", "REDU", "CAP", "COUP"}

GyList(parts) ==
  [part |-> "PIPE",
   queries |-> <<Strict("gy_bend", {"BEND"}), Tubi(Lenient("gy_tubi", {"BRAN"})), parts>>]
get_gy_dzcl_tolerant == GyList(Lenient("gy_part", GyParts))
get_gy_dzcl == GyList(Strict("gy_part", GyParts))
get_gy_equi_list == [part |-> "PIPE", queries |-> <<Strict("gy_equip", {"EQUI"})>>]
get_gy_valv_list == [part |-> "PIPE", queries |-> <<Strict("gy_valve", {"VALV", "INST"})>>]
get_yk_dzcl_list ==
  [part |-> "INST", queries |-> <<Strict("yk_dzcl", {"VALV", "TEE", "COUP", "INST", "BEND"})>>]
\* `if refnos.is_empty() { return Ok(vec![]) }` before the only query.
get_yk_inst_pipe ==
  [part |-> "INST", queries |-> <<[Strict("yk_ybgd", {"INST"}) EXCEPT !.guarded = TRUE]>>]
get_yk_equi_list_material == [part |-> "INST", queries |-> <<Strict("yk_equi", {"EQUI"})>>]
get_dq_bran_list ==
  [part |-> "ELEC",
   queries |-> <<Guarded("dq_bran", {"BRAN"}), Guarded("dq_stru", {"STRU"}),
                 Guarded("dq_gensec", {"GENSEC"})>>]
get_tx_txsb_list_material == [part |-> "E", queries |-> <<Strict("tx_sb", {"ELCONN"})>>]
get_gps_dzcl_material ==
  [part |-> "PIPE",
   queries |-> <<Guarded("gps_bend", {"BEND"}), Tubi(Guarded("gps_tubi", {"BRAN"})),
                 Guarded("gps_elbo", {"ELBO"}), Guarded("gps_flan", {"FLAN"}),
                 Guarded("gps_redu", {"REDU"}), Guarded("gps_tee", {"TEE"})>>]
get_sb_dzcl_list_material == [part |-> "EQUI", queries |-> <<Lenient("eq_dz", {"EQUI"})>>]
get_nt_valv_list_material == [part |-> "HVAC", queries |-> <<Strict("nt_valv", {"DAMP"})>>]

\* get_tf_hvac_*_data, in the order they are called: each skips an empty list,
\* prints an answer it cannot read and returns Ok without it.
get_tf_hvac_strt_data == Guarded("fggd_strt", {"STRT"})
get_tf_hvac_tape_data == Guarded("fggd_tape", {"TAPE"})
get_tf_hvac_flex_data == Guarded("fggd_flex", {"FLEX"})
get_tf_hvac_bend_data == Guarded("fggd_bend", {"BEND"})
get_tf_hvac_ofst_data == Guarded("fggd_ofst", {"OFST"})
get_tf_hvac_trns_data == Guarded("fggd_TRNS", {"TRNS"})
get_tf_hvac_brco_data == Guarded("fggd_BRCO", {"BRCO"})
get_tf_hvac_thre_data == Guarded("fggd_THRE", {"THRE"})
get_tf_hvac_tee_data == Guarded("fggd_tee", {"TEE"})
get_tf_hvac_cap_data == Guarded("fggd_CAP", {"CAP"})
get_tf_hvac_stif_data == Guarded("fggd_STIF", {"STIF"})
get_tf_hvac_material ==
  [part |-> "HVAC",
   queries |-> <<get_tf_hvac_strt_data, get_tf_hvac_tape_data, get_tf_hvac_flex_data,
                 get_tf_hvac_bend_data, get_tf_hvac_ofst_data, get_tf_hvac_trns_data,
                 get_tf_hvac_brco_data, get_tf_hvac_thre_data, get_tf_hvac_tee_data,
                 get_tf_hvac_cap_data, get_tf_hvac_stif_data>>]

(***************************************************************************)
(* The savers. `surreal`: the tasks spawned for SurrealDB, each with the   *)
(* lists it inserts; `mysql`: the lists of the MySQL task.                 *)
(***************************************************************************)
Saver(get, table) ==
  [get |-> get, table |-> table,
   skipsEmpty |-> TRUE,       \* no task at all when the main list is empty
   dropsHandles |-> FALSE,    \* no pool: returns vec![] and not the handles it has
   keyed |-> TRUE,            \* the rows carry the id of their element
   surreal |-> << {"main"} >>,
   mysql |-> {"main"}, mysqlNeedsMain |-> FALSE]
GySaver(get, table) == [Saver(get, table) EXCEPT !.skipsEmpty = FALSE, !.dropsHandles = TRUE]

save_gy_material_dzcl ==
  [GySaver(get_gy_dzcl, "material_gy_list") EXCEPT
     !.surreal = << {"main", "tubi"} >>, !.mysql = {"main", "tubi"}, !.mysqlNeedsMain = TRUE]
save_gy_material_equi == GySaver(get_gy_equi_list, "material_gy_equi")
save_gy_material_valv == GySaver(get_gy_valv_list, "material_gy_valv")
save_yk_material_dzcl == Saver(get_yk_dzcl_list, "material_inst_list")
save_yk_material_pipe == Saver(get_yk_inst_pipe, "material_inst_pipe")
save_yk_material_equi == Saver(get_yk_equi_list_material, "material_inst_equi")
\* change_hvac_result_to_map renames every field, the id among them: a row has
\* no `id` any more and `insert ignore` gives it a random one.
save_tf_material_hvac ==
  [Saver(get_tf_hvac_material, "material_hvac_pipe") EXCEPT !.keyed = FALSE]
\* The list and its copy str_r go to one table, by two tasks.
DqSaver(keyed) ==
  [Saver(get_dq_bran_list, "material_elec_list") EXCEPT
     !.skipsEmpty = FALSE, !.keyed = keyed, !.surreal = << {"main"}, {"main"} >>]
save_dq_material_unkeyed == DqSaver(FALSE)
save_dq_material == DqSaver(TRUE)
save_tx_material_equi == Saver(get_tx_txsb_list_material, "material_tx_list")
GpsSaver(drops) ==
  [Saver(get_gps_dzcl_material, "material_gps_list") EXCEPT
     !.dropsHandles = drops, !.surreal = << {"main", "tubi"} >>, !.mysql = {"main", "tubi"}]
save_gps_material_dzcl_leaky == GpsSaver(TRUE)
save_gps_material_dzcl == GpsSaver(FALSE)
save_sb_material_dzcl == Saver(get_sb_dzcl_list_material, "material_sb_list")
save_nt_material_dzcl == Saver(get_nt_valv_list_material, "material_nt_valv")

AllSavers ==
  {save_gy_material_dzcl, save_gy_material_equi, save_gy_material_valv, save_yk_material_dzcl,
   save_yk_material_pipe, save_yk_material_equi, save_tf_material_hvac, save_dq_material,
   save_tx_material_equi, save_gps_material_dzcl, save_sb_material_dzcl, save_nt_material_dzcl}
SaverOf == [t \in {s.table : s \in AllSavers} |-> CHOOSE s \in AllSavers : s.table = t]

\* The match on site.major: the tables to fill, in order.
Savers(major) ==
  CASE major = "T" -> <<"material_gy_list", "material_gy_equi", "material_gy_valv">>
    [] major = "I" -> <<"material_inst_list", "material_inst_pipe", "material_inst_equi">>
    [] major = "V" -> <<"material_hvac_pipe">>
    [] major = "E" -> <<"material_elec_list", "material_tx_list">>
    [] major = "W" -> <<"material_gps_list">>
    [] major = "EQUI" -> <<"material_sb_list">>
    [] major = "N" -> <<"material_nt_valv">>
    [] OTHER -> <<>>

\* The directories define_material_surreal_funtions reads, in its order, and
\* the functions they define.
Scripts ==
  << {}, {"gy_bend", "gy_tubi", "gy_part", "gy_valve", "gy_equip"},
     {"dq_bran", "dq_stru", "dq_gensec"}, {"eq_dz"},
     {"gps_bend", "gps_tubi", "gps_elbo", "gps_flan", "gps_redu", "gps_tee"},
     {"nt_valv"}, {"tx_sb"}, {"yk_dzcl", "yk_equi", "yk_ybgd"} >>
TfScripts == {q.fn : q \in Range(get_tf_hvac_material.queries)}

VARIABLES
  defined,   \* the functions the database knows; they outlive a run
  run,       \* the number of its call
  queue,     \* the <<site, table>> still to do
  at,        \* the query of the getter at the head of the queue, 0 before get_pe
  data,      \* the rows it has collected: list -> functions that gave some; `unseen`,
             \* auxiliary: the functions whose elements were not found
  tasks,     \* spawned tasks that have not ended
  gathered,  \* auxiliary: what the getters that returned Ok gave
  surreal,   \* the rows in SurrealDB: <<table, site, fn, id>>
  mysql,     \* the rows in MySQL, which have no key: <<table, site, fn, run, columns filled>>
  failed,    \* auxiliary: the rows whose insert failed: <<store, table, site, fn, run>>
  panicked   \* auxiliary: the calls that ended in the panic of a search

Elements == project.elements
stores == <<surreal, mysql, failed>>
NoRows == [main |-> {}, tubi |-> {}, unseen |-> {}]


gen_pdms_major_table ==
  /\ pc = "majors"
  /\ \/ WriteMajors /\ pc' = "define"
     \/ Fault /\ pc' = "failed" /\ UNCHANGED majors
  /\ UNCHANGED <<project, defined, run, queue, at, data, tasks, gathered, panicked, stores>>

\* A script that cannot be read or run ends the whole call, which returns Ok.
define_material_surreal_funtions ==
  /\ pc = "define"
  /\ \/ NoFault /\ pc' = "define_tf" /\ defined' = defined \union UNION Range(Scripts)
     \/ \E k \in 1 .. Len(Scripts) :
          /\ Fault /\ pc' = "returned"
          /\ defined' = defined \union UNION {Scripts[i] : i \in 1 .. k - 1}
  /\ UNCHANGED <<majors, project, run, queue, at, data, tasks, gathered, panicked, stores>>

\* Its result is thrown away; a query that fails panics (unwrap).
define_tf_surreal_functions ==
  /\ pc = "define_tf"
  /\ \/ NoFault /\ pc' = "sites" /\ defined' = defined \union TfScripts
     \/ Fault /\ pc' = "sites" /\ UNCHANGED defined
     \/ Fault /\ pc' = "failed" /\ UNCHANGED defined
  /\ UNCHANGED <<majors, project, run, queue, at, data, tasks, gathered, panicked, stores>>

query_all_site_with_major ==
  /\ pc = "sites"
  /\ \/ /\ NoFault /\ pc' = "save"
        /\ \E sites \in SetToSeqs(DOMAIN majors \intersect DOMAIN Elements) :
             queue' = FlattenSeq([i \in DOMAIN sites |->
                        LET tables == Savers(majors[sites[i]])
                        IN [j \in DOMAIN tables |-> <<sites[i], tables[j]>>]])
     \/ Fault /\ pc' = "failed" /\ UNCHANGED queue
  /\ UNCHANGED <<majors, project, defined, run, at, data, tasks, gathered, panicked, stores>>

Saving == pc = "save" /\ queue # <<>>
Site == queue[1][1]
Getter == SaverOf[queue[1][2]].get
\* The elements of a query below a site.
Hit(site, q) == q.nouns \intersect Elements[site].nouns # {}
\* The ventilation's getter finds the elements of all its queries in one search
\* before them; every query of the others has a search of its own.
SearchesOnce == Getter = get_tf_hvac_material
NextSaver_again == UNCHANGED queue /\ at' = 0 /\ data' = NoRows
NextSaver == queue' = Tail(queue) /\ at' = 0 /\ data' = NoRows

\* The start of a getter: a SITE whose name lacks the part of the discipline,
\* one that is gone, or one search for all whose statement errs, gives nothing
\* and no error.
EnterGetter ==
  /\ Saving /\ at = 0
  /\ \/ /\ NoFault
        /\ at' = IF Getter.part \in Elements[Site].name THEN 1 ELSE Len(Getter.queries) + 1
     \/ Fault /\ at' = Len(Getter.queries) + 1
  /\ UNCHANGED <<queue, data>>

\* One query of the getter: the elements under the site, then the function.
Query ==
  /\ Saving /\ at \in 1 .. Len(Getter.queries)
  /\ LET q == Getter.queries[at]
         hit == Hit(Site, q)
         asked == hit \/ ~q.guarded
     IN \/ ~asked /\ NoFault /\ at' = at + 1 /\ UNCHANGED <<queue, data>>
        \/ /\ asked /\ NoFault /\ q.fn \in defined
           /\ data' = IF hit THEN [data EXCEPT ![q.list] = @ \union {q.fn}] ELSE data
           /\ at' = at + 1 /\ UNCHANGED queue
        \/ /\ asked /\ (Fault \/ (q.fn \notin defined /\ NoFault))
           /\ IF q.strict THEN NextSaver ELSE at' = at + 1 /\ UNCHANGED <<queue, data>>

\* query_filter_deep_children: an accepted response whose statement erred is no
\* elements and no error. A guarded query is passed over, another asks its
\* function about nothing and goes on with the empty answer.
Overlook ==
  /\ Saving /\ at \in 1 .. Len(Getter.queries) /\ ~SearchesOnce /\ Fault
  /\ LET q == Getter.queries[at]
     IN /\ Hit(Site, q) /\ (q.guarded \/ ~q.strict \/ q.fn \in defined)
        /\ data' = [data EXCEPT !.unseen = @ \union {q.fn}]
  /\ at' = at + 1 /\ UNCHANGED queue

\* A `?` of the getter: get_pe, the traversal or the connection failed. The
\* saver prints the error and returns no handles.
GiveUp == Saving /\ at <= Len(Getter.queries) /\ Fault /\ NextSaver

Gather ==
  /\ EnterGetter \/ Query \/ Overlook \/ GiveUp
  /\ UNCHANGED <<majors, project, defined, pc, run, tasks, gathered, panicked, stores>>

\* query_ele_filter_deep_children: without a connection its query is unwrapped.
\* The panic ends the call, whatever is still queued, and drops the handles it
\* has: the tasks of earlier savers run on and nobody waits for them.
SearchPanics ==
  /\ Saving /\ at = 0 /\ SearchesOnce /\ Getter.part \in Elements[Site].name /\ Fault
  /\ pc' = "failed" /\ panicked' = panicked \union {run}
  /\ queue' = <<>> /\ data' = NoRows /\ UNCHANGED at
  /\ UNCHANGED <<majors, project, defined, run, tasks, gathered, stores>>

Task(saver, store, n, todo, held) ==
  [run |-> run, site |-> Site, table |-> saver.table, store |-> store, n |-> n, todo |-> todo,
   data |-> data, keyed |-> saver.keyed, held |-> held]
\* The main list is inserted first; an insert of no rows does nothing.
Filled(lists) ==
  LET filled(l) == IF l \in lists /\ data[l] # {} THEN <<l>> ELSE <<>>
  IN filled("main") \o filled("tubi")
SurrealTasks(saver, held) ==
  {Task(saver, "surreal", n, Filled(saver.surreal[n]), held) :
     n \in {m \in DOMAIN saver.surreal : Filled(saver.surreal[m]) # <<>>}}
MysqlTask(saver) ==
  Task(saver, "mysql", 1,
       <<"table">> \o (IF saver.mysqlNeedsMain /\ data.main = {} THEN <<>>
                       ELSE Filled(saver.mysql)), TRUE)
Gathered(saver, pool, forgotten) ==
  [run |-> run, site |-> Site, table |-> saver.table, data |-> data, pool |-> pool, forgotten |-> forgotten]

\* The rest of a saver: it spawns its tasks and returns their handles.
Spawn ==
  /\ Saving /\ at = Len(Getter.queries) + 1
  /\ \E saver \in AllSavers :
       /\ saver.table = queue[1][2]
       /\ \/ /\ saver.skipsEmpty /\ data.main = {} /\ NoFault
             /\ gathered' = gathered \union {Gathered(saver, FALSE, FALSE)} /\ UNCHANGED tasks
          \/ /\ ~(saver.skipsEmpty /\ data.main = {}) /\ NoFault
             /\ gathered' = gathered \union {Gathered(saver, TRUE, FALSE)}
             /\ tasks' = tasks \union SurrealTasks(saver, TRUE) \union {MysqlTask(saver)}
          \/ /\ ~(saver.skipsEmpty /\ data.main = {}) /\ Fault
             /\ gathered' = gathered \union {Gathered(saver, FALSE, saver.dropsHandles)}
             /\ tasks' = tasks \union SurrealTasks(saver, ~saver.dropsHandles)
  /\ NextSaver
  /\ UNCHANGED <<majors, project, defined, pc, run, panicked, stores>>

Join ==
  /\ pc = "save" /\ queue = <<>> /\ pc' = "join"
  /\ UNCHANGED <<majors, project, defined, run, queue, at, data, tasks, gathered, panicked, stores, faults>>
Return ==
  /\ pc = "join" /\ ~\E t \in tasks : t.held /\ t.run = run
  /\ pc' = "returned"
  /\ UNCHANGED <<majors, project, defined, run, queue, at, data, tasks, gathered, panicked, stores, faults>>

(***************************************************************************)
(* The spawned tasks.                                                      *)
(***************************************************************************)
Id(t) == IF t.keyed THEN <<>> ELSE <<t.run, t.n>>
Rows(t, fns) == {<<t.table, t.site, fn, Id(t)>> : fn \in fns}
Failed(t, fns) == {<<t.store, t.table, t.site, fn, t.run>> : fn \in fns}
Step_left_over(t) == (tasks \ {t}) \union {[t EXCEPT !.todo = Tail(@)]}
Step(t) == (tasks \ {t}) \union
             (IF Len(t.todo) = 1 THEN {} ELSE {[t EXCEPT !.todo = Tail(@)]})

\* insert_into_table_with_chunks: an error stops it after the chunks before.
InsertRows(t) ==
  /\ t.store = "surreal"
  /\ LET fns == t.data[Head(t.todo)]
     IN \/ surreal' = surreal \union Rows(t, fns) /\ NoFault /\ UNCHANGED failed
        \/ \E kept \in SUBSET fns :
             /\ kept # fns /\ Fault
             /\ surreal' = surreal \union Rows(t, kept)
             /\ failed' = failed \union Failed(t, fns \ kept)
  /\ tasks' = Step(t) /\ UNCHANGED mysql

\* create_table_sql and one INSERT per list. Without its table the task ends;
\* an INSERT that fails, or that MySQL does not take, is printed.
InsertMysql(t) ==
  LET list == Head(t.todo) IN
  /\ t.store = "mysql"
  /\ \/ list = "table" /\ NoFault /\ tasks' = Step(t) /\ UNCHANGED <<mysql, failed>>
     \/ /\ list = "table" /\ Fault /\ tasks' = tasks \ {t} /\ UNCHANGED mysql
        /\ failed' = failed \union Failed(t, UNION {t.data[l] : l \in Range(Tail(t.todo))})
     \/ /\ list # "table" /\ NoFault /\ tasks' = Step(t) /\ UNCHANGED failed
        /\ IF Accepted(t.table, list)
           THEN mysql' = mysql \union {<<t.table, t.site, fn, t.run, Cells(t.table, list, fn)>> : fn \in t.data[list]}
           ELSE UNCHANGED mysql
     \/ /\ list # "table" /\ Fault /\ tasks' = Step(t) /\ UNCHANGED mysql
        /\ failed' = failed \union Failed(t, t.data[list])
  /\ UNCHANGED surreal

TaskStep ==
  /\ \E t \in tasks : InsertRows(t) \/ InsertMysql(t)
  /\ UNCHANGED <<majors, project, defined, pc, run, queue, at, data, gathered, panicked>>

SaveAll ==
  \/ gen_pdms_major_table \/ define_material_surreal_funtions \/ define_tf_surreal_functions
  \/ query_all_site_with_major \/ Gather \/ SearchPanics \/ Spawn \/ Join \/ Return
----------------------------------------------------------------------------
(***************************************************************************)
(* Properties.                                                             *)
(***************************************************************************)
\* The types of all variables: tasks have something left to do, and a getter
\* has its position within its queries.
MaterialTypeOK ==
  /\ faults \in 0 .. MaxFaults
  /\ \A x \in DOMAIN majors :
       x \in DOMAIN Elements \union UNION {DOMAIN Elements[s].zones : s \in DOMAIN Elements}
  /\ queue # <<>> => at \in 0 .. Len(Getter.queries) + 1
  /\ queue = <<>> => at = 0 /\ data = NoRows
  /\ \A t \in tasks : t.todo # <<>> /\ t.store \in {"surreal", "mysql"}
  /\ panicked \subseteq 1 .. run
  /\ \A g \in gathered : g.data.main \union g.data.tubi \subseteq (UNION Range(Scripts)) \union TfScripts

Tolerant == {"material_elec_list", "material_gps_list", "material_sb_list", "material_hvac_pipe"}
Wanted(g) == {q \in Range(SaverOf[g.table].get.queries) : Hit(g.site, q) /\ q.list = "main"}

\* A process, instrument, heating or telecom list is handed on with the rows of
\* every query or not at all (the `return Err(anyhow!(sql))` of their getters),
\* those of a query alone that found no elements because the statement of its
\* search erred, which is no error to query_filter_deep_children
\* (graph.rs:141-152). The other disciplines' getters tolerate missing rows, and
\* a site that lacks the part in its name gives none at all.
StrictListsAreWhole ==
  \A g \in gathered :
    \/ g.data.main = {}
    \/ g.table \in Tolerant
    \/ g.data.main = {q.fn : q \in Wanted(g)} \ g.data.unseen

TubiLeftOut(g) == SaverOf[g.table].skipsEmpty /\ g.data.main = {}
Broke(store, g, fn) == <<store, g.table, g.site, fn, g.run>> \in failed
InSurreal(g, fn) == \E r \in surreal : r[1] = g.table /\ r[2] = g.site /\ r[3] = fn
\* A row under all the columns there are for its fields, but for the length of
\* a bend, the quantity in the list of process pipes (gy.rs:159).
InMysql(g, fn) ==
  \E r \in mysql :
    /\ r[1] = g.table /\ r[2] = g.site /\ r[3] = fn /\ r[4] = g.run
    /\ LET t == Tables[g.table]
       IN \A f \in RowOf_(g.table, fn) \intersect DOMAIN t.names :
            t.names[f] \in r[5] \/ t.names[f] \notin ToSet(t.columns) \/ (fn = "gy_bend" /\ f = "length")

\* Once the program has ended, every row a getter returned is in SurrealDB or
\* its insert failed, and the same for MySQL where there was a connection,
\* each field in its column. The code makes four exceptions: the pipe rows
\* (tubi) of a water site with no other part (gps.rs:65), those of a process
\* site in MySQL alone (gy.rs:158), the lists of a process site whose pool
\* failed: its task is spawned and its handle dropped (`return vec![]`,
\* gy.rs:152), so nobody waits for it; and for the same reason all lists of a
\* call that the search of a later site ended in a panic (graph.rs:235).
NothingIsLostSilently ==
  pc = "exited" =>
    \A g \in gathered : \A fn \in g.data.main \union g.data.tubi :
      \/ TubiLeftOut(g)
      \/ g.forgotten /\ g.table \in {"material_gy_list", "material_gy_equi", "material_gy_valv"}
      \/ g.run \in panicked
      \/ /\ InSurreal(g, fn) \/ Broke("surreal", g, fn)
         /\ \/ ~g.pool \/ InMysql(g, fn) \/ Broke("mysql", g, fn)
            \/ g.table = "material_gy_list" /\ g.data.main = {}

\* Calling save_all_material_data again leaves one row per element in
\* SurrealDB (insert ignore by id), also where two tasks insert the same list;
\* ventilation rows have lost their id and are the exception.
RerunsKeepOneRow ==
  \A r1, r2 \in surreal :
    (r1[1] = r2[1] /\ r1[2] = r2[2] /\ r1[3] = r2[3])
      => (r1 = r2 \/ r1[1] = "material_hvac_pipe")
=============================================================================
