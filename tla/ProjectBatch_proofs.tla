------------------------- MODULE ProjectBatch_proofs -------------------------
(***************************************************************************)
(* What holds of the material lists of any projects, for any number of jobs *)
(* and of failing calls: a list of a strict getter is whole, rows with the  *)
(* id of their element are there once, and no row is lost unnoticed.        *)
(***************************************************************************)
EXTENDS PbsTree_proofs

USE DEF stores, materialVars, pbsVars, Fault, NoFault

-----------------------------------------------------------------------------
(* The jobs beside each other.                                              *)

\* The other job neither enters nor leaves the saves of this one.
LEMMA PbsStaysOutside ==
  ASSUME PbsStep
  PROVE  pc' = pc \/ (pc # "save" /\ pc' # "save")
<1>1. CASE set_pdms_major_code
  BY <1>1 DEF set_pdms_major_code, Ready, Fails
<1>2. CASE set_pbs_fixed_node
  BY <1>2 DEF set_pbs_fixed_node, Ready, Fails
<1>3. CASE query_all_room_name
  BY <1>3 DEF query_all_room_name, Ready, Fails
<1>4. CASE set_pbs_room_node
  BY <1>4 DEF set_pbs_room_node, Ready
<1>5. CASE set_pbs_room_major_node
  BY <1>5 DEF set_pbs_room_major_node, Ready, Fails
<1>6. CASE query_all_zone_with_major
  BY <1>6 DEF query_all_zone_with_major, Ready, Fails
<1>7. CASE set_pbs_node
  BY <1>7 DEF set_pbs_node
<1>8. CASE Finished
  BY <1>8 DEF Finished, Ready
<1>9. CASE insert_pe_into_table_with_chunks \/ insert_relate_to_table
  BY <1>9 DEF insert_pe_into_table_with_chunks, insert_relate_to_table
<1> QED
  BY <1>1, <1>2, <1>3, <1>4, <1>5, <1>6, <1>7, <1>8, <1>9 DEF PbsStep

-----------------------------------------------------------------------------
(* The table of the savers.                                                 *)

\* Every saver gives its rows the id of their element, but that of the
\* ventilation, whose ids are renamed away.
LEMMA KeyedButVentilation ==
  ASSUME NEW saver \in AllSavers, saver.table # "material_hvac_pipe"
  PROVE  saver.keyed = TRUE
<1> USE DEF Saver, GySaver
<1>1. CASE saver \in {save_gy_material_dzcl, save_gy_material_equi, save_gy_material_valv}
  BY <1>1 DEF save_gy_material_dzcl, save_gy_material_equi, save_gy_material_valv
<1>2. CASE saver \in {save_yk_material_dzcl, save_yk_material_pipe, save_yk_material_equi}
  BY <1>2 DEF save_yk_material_dzcl, save_yk_material_pipe, save_yk_material_equi
<1>3. CASE saver = save_tf_material_hvac
  BY <1>3 DEF save_tf_material_hvac
<1>4. CASE saver \in {save_dq_material, save_gps_material_dzcl}
  BY <1>4 DEF save_dq_material, DqSaver, save_gps_material_dzcl, GpsSaver
<1>5. CASE saver \in {save_tx_material_equi, save_sb_material_dzcl, save_nt_material_dzcl}
  BY <1>5 DEF save_tx_material_equi, save_sb_material_dzcl, save_nt_material_dzcl
<1> QED
  BY <1>1, <1>2, <1>3, <1>4, <1>5 DEF AllSavers

-----------------------------------------------------------------------------
(* One row per element.                                                     *)

Keyed(t) ==
  /\ {"keyed", "table", "todo"} \subseteq DOMAIN t
  /\ t.table = "material_hvac_pipe" \/ t.keyed = TRUE
RowsInv ==
  /\ \A t \in tasks : Keyed(t)
  /\ \A r \in surreal :
       /\ r = <<r[1], r[2], r[3], r[4]>>
       /\ r[1] = "material_hvac_pipe" \/ r[4] = <<>>

LEMMA RowsInit == Init => RowsInv
BY DEF Init, RowsInv

LEMMA SpawnKeyed ==
  ASSUME RowsInv, Spawn
  PROVE  RowsInv'
<1>1. PICK saver \in AllSavers :
        tasks' \subseteq tasks \union SurrealTasks(saver, TRUE) \union SurrealTasks(saver, FALSE)
                           \union SurrealTasks(saver, ~saver.dropsHandles) \union {MysqlTask(saver)}
  BY DEF Spawn
<1>2. ASSUME NEW n, NEW store, NEW todo, NEW held
      PROVE  Keyed(Task(saver, store, n, todo, held))
  BY KeyedButVentilation DEF Task, Keyed
<1>3. \A held : \A t \in SurrealTasks(saver, held) : Keyed(t)
  BY <1>2 DEF SurrealTasks
<1>4. Keyed(MysqlTask(saver))
  BY <1>2 DEF MysqlTask
<1>5. surreal' = surreal
  BY DEF Spawn
<1> QED
  BY <1>1, <1>3, <1>4, <1>5 DEF RowsInv

LEMMA TaskStepKeyed ==
  ASSUME RowsInv, TaskStep
  PROVE  RowsInv'
<1>1. PICK t \in tasks : InsertRows(t) \/ InsertMysql(t)
  BY DEF TaskStep
<1>2. Keyed(t) /\ Keyed([t EXCEPT !.todo = Tail(t.todo)])
  BY DEF RowsInv, Keyed
<1>3. \A u \in Step(t) : Keyed(u)
  BY <1>2 DEF Step, RowsInv
<1>4. \A u \in tasks' : Keyed(u)
  BY <1>1, <1>3 DEF InsertRows, InsertMysql, RowsInv
<1>5. \E fns : surreal' \subseteq surreal \union Rows(t, fns)
  <2>1. CASE InsertRows(t)
    BY <2>1 DEF InsertRows
  <2>2. CASE InsertMysql(t)
    BY <2>2 DEF InsertMysql
  <2> QED
    BY <1>1, <2>1, <2>2
<1>6. ASSUME NEW fns, NEW r \in Rows(t, fns)
      PROVE  /\ r = <<r[1], r[2], r[3], r[4]>>
             /\ r[1] = "material_hvac_pipe" \/ r[4] = <<>>
  BY <1>2, <1>6 DEF Rows, Id, Keyed
<1> QED
  BY <1>4, <1>5, <1>6 DEF RowsInv

LEMMA RowsStep == RowsInv /\ [Next]_vars => RowsInv'
<1> SUFFICES ASSUME RowsInv, [Next]_vars
             PROVE  RowsInv'
  OBVIOUS
<1>1. CASE UNCHANGED <<tasks, surreal>>
  BY <1>1 DEF RowsInv
<1>2. CASE Spawn
  BY <1>2, SpawnKeyed
<1>3. CASE TaskStep
  BY <1>3, TaskStepKeyed
<1>4. CASE Exit
  BY <1>4 DEF Exit, RowsInv
<1>5. CASE SaveAll
  BY <1>1, <1>2, <1>5 DEF SaveAll, gen_pdms_major_table, define_material_surreal_funtions,
       define_tf_surreal_functions, query_all_site_with_major, Gather, SearchPanics, Join, Return
<1>6. CASE UNCHANGED vars
  BY <1>1, <1>6 DEF vars
<1> QED
  BY <1>1, <1>3, <1>4, <1>5, <1>6 DEF Next, MaterialJob, Tasks, PbsJob, Again

\* A second job, and the second of two tasks with one list, leave one row per
\* element, for any projects, jobs and failing calls; ventilation is excepted.
THEOREM OneRowPerElement == Spec => []RerunsKeepOneRow
<1>1. RowsInv => RerunsKeepOneRow
  BY DEF RowsInv, RerunsKeepOneRow
<1> QED
  BY <1>1, RowsInit, RowsStep, PTL DEF Spec

-----------------------------------------------------------------------------
(* Whole lists.                                                             *)

StrictTables == DOMAIN SaverOf \ Tolerant
\* The functions whose rows a getter has after its queries before n.
Hits(queries, n) ==
  {queries[i].fn : i \in {j \in DOMAIN queries :
                            j < n /\ Hit(Site, queries[j]) /\ queries[j].list = "main"}}
Asked(queries, n) == {queries[i].fn : i \in {j \in DOMAIN queries : j < n}}

\* A getter of a strict table has the rows of all the queries it has made but
\* those that found no elements, or it has made none and is at its end.
Progress ==
  /\ at \in 0 .. Len(Getter.queries) + 1
  /\ at = 0 => data.main = {}
  /\ data.unseen \subseteq Asked(Getter.queries, at)
  /\ at # 0 => \/ data.main = Hits(Getter.queries, at) \ data.unseen
               \/ data.main = {} /\ at = Len(Getter.queries) + 1
ListsInv ==
  /\ DOMAIN data = {"main", "tubi", "unseen"}
  /\ pc # "save" \/ queue = <<>> => at = 0 /\ data = NoRows
  /\ Saving /\ queue[1][2] \in StrictTables => Progress
  /\ StrictListsAreWhole

\* Each query of a strict table's main list ends the getter when it fails, and
\* asks a function of its own.
StrictGetter(queries) ==
  /\ Len(queries) \in Nat /\ DOMAIN queries = 1 .. Len(queries)
  /\ \A i \in DOMAIN queries :
       queries[i].list \in {"main", "tubi"} /\ (queries[i].list = "main" => queries[i].strict = TRUE)
  /\ \A i, j \in DOMAIN queries : queries[i].fn = queries[j].fn => i = j

LEMMA StrictGetters ==
  ASSUME NEW saver \in AllSavers, saver.table \notin Tolerant
  PROVE  StrictGetter(saver.get.queries)
<1> USE DEF Saver, GySaver, Strict, Lenient, Tubi, StrictGetter
<1>1. CASE saver = save_gy_material_dzcl
  <2>1. saver.get = get_gy_dzcl
    BY <1>1 DEF save_gy_material_dzcl
  <2>2. get_gy_dzcl.queries = <<Strict("gy_bend", {"BEND"}), Tubi(Lenient("gy_tubi", {"BRAN"})), Strict("gy_part", GyParts)>>
    BY DEF get_gy_dzcl, GyList
  <2>3. Tubi(Lenient("gy_tubi", {"BRAN"})).list = "tubi"
    OBVIOUS
  <2>4. /\ Strict("gy_bend", {"BEND"}).strict = TRUE /\ Strict("gy_part", GyParts).strict = TRUE
        /\ Strict("gy_bend", {"BEND"}).list = "main" /\ Strict("gy_part", GyParts).list = "main"
    OBVIOUS
  <2>5. /\ Strict("gy_bend", {"BEND"}).fn = "gy_bend" /\ Strict("gy_part", GyParts).fn = "gy_part"
        /\ Tubi(Lenient("gy_tubi", {"BRAN"})).fn = "gy_tubi"
    OBVIOUS
  <2> HIDE DEF Strict, Lenient, Tubi
  <2> QED
    BY <2>1, <2>2, <2>3, <2>4, <2>5
<1>2. CASE saver \in {save_gy_material_equi, save_gy_material_valv}
  <2>1. save_gy_material_equi.get = get_gy_equi_list
    BY DEF save_gy_material_equi
  <2>2. save_gy_material_valv.get = get_gy_valv_list
    BY DEF save_gy_material_valv
  <2>3. StrictGetter(get_gy_equi_list.queries) /\ StrictGetter(get_gy_valv_list.queries)
    BY DEF get_gy_equi_list, get_gy_valv_list
  <2> QED
    BY <1>2, <2>1, <2>2, <2>3
<1>3. CASE saver \in {save_yk_material_dzcl, save_yk_material_pipe, save_yk_material_equi}
  BY <1>3 DEF save_yk_material_dzcl, save_yk_material_pipe, save_yk_material_equi,
       get_yk_dzcl_list, get_yk_inst_pipe, get_yk_equi_list_material
<1>4. CASE saver \in {save_tf_material_hvac, save_dq_material, save_gps_material_dzcl, save_sb_material_dzcl}
  <2>1. save_tf_material_hvac.table \in Tolerant
    BY DEF save_tf_material_hvac, Tolerant
  <2>2. save_dq_material.table \in Tolerant
    BY DEF save_dq_material, DqSaver, Tolerant
  <2>3. save_gps_material_dzcl.table \in Tolerant
    BY DEF save_gps_material_dzcl, GpsSaver, Tolerant
  <2>4. save_sb_material_dzcl.table \in Tolerant
    BY DEF save_sb_material_dzcl, Tolerant
  <2> QED
    BY <1>4, <2>1, <2>2, <2>3, <2>4
<1>5. CASE saver \in {save_tx_material_equi, save_nt_material_dzcl}
  BY <1>5 DEF save_tx_material_equi, save_nt_material_dzcl, get_tx_txsb_list_material,
       get_nt_valv_list_material
<1> QED
  BY <1>1, <1>2, <1>3, <1>4, <1>5 DEF AllSavers

\* The saver of a table.
LEMMA SaversOfTables ==
  ASSUME NEW table \in StrictTables
  PROVE  StrictGetter(SaverOf[table].get.queries)
<1>1. SaverOf[table] \in AllSavers /\ SaverOf[table].table = table
  BY DEF SaverOf, StrictTables
<1> QED
  BY <1>1, StrictGetters DEF StrictTables

LEMMA ListsInit == Init => ListsInv
BY DEF Init, ListsInv, StrictListsAreWhole, NoRows, Begins, Saving

\* A step of another part of the program.
LEMMA ListsElsewhere ==
  ASSUME ListsInv, UNCHANGED <<project, queue, at, data, gathered>>,
         pc' = pc \/ (pc # "save" /\ pc' # "save") \/ (pc # "save" /\ pc' = "save") \/ queue = <<>>
  PROVE  ListsInv'
<1>1. StrictListsAreWhole'
  BY DEF ListsInv, StrictListsAreWhole, Wanted, Hit, Elements
<1>2. Progress => Progress'
  BY DEF Progress, Hits, Asked, Getter, Hit, Site, Elements
<1> QED
  BY <1>1, <1>2 DEF ListsInv, Saving, Progress, NoRows

\* The next saver starts from nothing.
LEMMA ListsNext ==
  ASSUME ListsInv, NextSaver, StrictListsAreWhole', pc' = pc
  PROVE  ListsInv'
<1>1. data'.main = {} /\ data'.unseen = {} /\ at' = 0 /\ DOMAIN data' = {"main", "tubi", "unseen"}
  BY DEF NextSaver, NoRows
<1>2. (queue'[1][2] \in StrictTables') => Progress'
  <2> SUFFICES ASSUME queue'[1][2] \in StrictTables
               PROVE  Progress'
    BY DEF StrictTables, SaverOf, Tolerant
  <2>1. Len(Getter'.queries) \in Nat
    BY SaversOfTables DEF Getter, StrictGetter
  <2> QED
    BY <1>1, <2>1 DEF Progress
<1> QED
  BY <1>1, <1>2 DEF ListsInv, NextSaver

LEMMA ListsEnter ==
  ASSUME ListsInv, EnterGetter, UNCHANGED <<project, pc, gathered>>
  PROVE  ListsInv'
<1>1. StrictListsAreWhole'
  BY DEF ListsInv, StrictListsAreWhole, Wanted, Hit, Elements
<1>2. ASSUME queue[1][2] \in StrictTables
      PROVE  Progress'
  <2>1. StrictGetter(Getter.queries) /\ Getter' = Getter
    BY <1>2, SaversOfTables DEF Getter, EnterGetter
  <2>2. data.main = {} /\ data.unseen = {} /\ data' = data
    <3>1. at = 0 /\ data' = data /\ Progress
      BY <1>2 DEF ListsInv, EnterGetter
    <3>2. Asked(Getter.queries, at) = {}
      BY <2>1, <3>1 DEF Asked, StrictGetter
    <3> QED
      BY <3>1, <3>2 DEF Progress
  <2>3. at' = 1 \/ at' = Len(Getter.queries) + 1
    BY DEF EnterGetter
  <2>4. CASE at' = 1
    <3>1. Hits(Getter.queries, at)' = {}
      BY <2>1, <2>4 DEF Hits, StrictGetter
    <3>2. at' \in 0 .. Len(Getter'.queries) + 1
      BY <2>1, <2>4 DEF StrictGetter
    <3>3. data'.main = {} /\ data'.unseen = {}
      BY <2>2
    <3> QED
      BY <2>4, <3>1, <3>2, <3>3 DEF Progress
  <2>5. CASE at' = Len(Getter.queries) + 1
    BY <2>1, <2>2, <2>5 DEF Progress, StrictGetter
  <2> QED
    BY <2>3, <2>4, <2>5
<1>3. Saving /\ queue' = queue /\ data' = data
  BY DEF EnterGetter
<1> QED
  BY <1>1, <1>2, <1>3 DEF ListsInv, Saving, StrictTables

\* A query that is made, passed over or overlooked.
LEMMA ListsQuery ==
  ASSUME ListsInv, Query \/ Overlook, UNCHANGED <<project, pc, gathered>>
  PROVE  ListsInv'
<1>1. StrictListsAreWhole'
  BY DEF ListsInv, StrictListsAreWhole, Wanted, Hit, Elements
<1>2. CASE NextSaver
  BY <1>1, <1>2, ListsNext
<1>3. CASE ~NextSaver
  <2> DEFINE q == Getter.queries[at]
             hit == Hit(Site, q)
  <2>1. at' = at + 1 /\ queue' = queue /\ Saving /\ at \in 1 .. Len(Getter.queries)
    BY <1>3 DEF Query, Overlook
  <2>2. \/ data' = data /\ (~hit \/ ~q.strict)
        \/ hit /\ data' = [data EXCEPT ![q.list] = data[q.list] \union {q.fn}]
        \/ hit /\ data' = [data EXCEPT !.unseen = data.unseen \union {q.fn}]
    BY <1>3 DEF Query, Overlook
  <2>3. DOMAIN data' = {"main", "tubi", "unseen"}
    BY <2>2 DEF ListsInv
  <2>4. ASSUME queue[1][2] \in StrictTables
        PROVE  Progress'
    <3>1. StrictGetter(Getter.queries) /\ Getter' = Getter
      BY <2>1, <2>4, SaversOfTables DEF Getter
    <3>2. at \in DOMAIN Getter.queries /\ (q.list = "main" => q.strict = TRUE)
      BY <2>1, <3>1 DEF StrictGetter
    <3>3. /\ data.main = Hits(Getter.queries, at) \ data.unseen
          /\ data.unseen \subseteq Asked(Getter.queries, at)
      BY <2>1, <2>4, <3>1 DEF ListsInv, Progress, StrictGetter
    <3>4. Hits(Getter.queries, at + 1) =
            Hits(Getter.queries, at) \union (IF hit /\ q.list = "main" THEN {q.fn} ELSE {})
      BY <2>1, <3>1, <3>2 DEF Hits, StrictGetter
    <3>5. Asked(Getter.queries, at + 1) = Asked(Getter.queries, at) \union {q.fn}
      BY <2>1, <3>1, <3>2 DEF Asked, StrictGetter
    <3>6. q.fn \notin Asked(Getter.queries, at) /\ Hits(Getter.queries, at) \subseteq Asked(Getter.queries, at)
      BY <2>1, <3>1, <3>2 DEF Asked, Hits, StrictGetter
    <3>7. Hits(Getter.queries, at)' = Hits(Getter.queries, at + 1)
      BY <2>1, <3>1 DEF Hits, Hit, Site, Elements
    <3>8. Asked(Getter.queries, at)' = Asked(Getter.queries, at + 1)
      BY <2>1, <3>1 DEF Asked
    <3>9. q.list \in {"main", "tubi"}
      BY <3>1, <3>2 DEF StrictGetter
    <3>10. \/ data'.main = data.main \union (IF hit /\ q.list = "main" THEN {q.fn} ELSE {}) /\ data'.unseen = data.unseen
           \/ data'.main = data.main /\ data'.unseen = data.unseen \union {q.fn}
      BY <2>2, <3>2, <3>9 DEF ListsInv
    <3> HIDE DEF q, hit
    <3>11. /\ data'.main = Hits(Getter.queries, at + 1) \ data'.unseen
           /\ data'.unseen \subseteq Asked(Getter.queries, at + 1)
      BY <3>3, <3>4, <3>5, <3>6, <3>10
    <3> QED
      BY <2>1, <3>1, <3>7, <3>8, <3>11 DEF Progress, StrictGetter
  <2> QED
    BY <1>1, <2>1, <2>3, <2>4 DEF ListsInv, Saving, StrictTables
<1> QED
  BY <1>2, <1>3

LEMMA ListsSpawn ==
  ASSUME ListsInv, Spawn
  PROVE  ListsInv'
<1>1. PICK saver \in AllSavers :
        /\ saver.table = queue[1][2]
        /\ \E pool, forgotten : gathered' = gathered \union {Gathered(saver, pool, forgotten)}
  BY DEF Spawn
<1>2. ASSUME NEW pool, NEW forgotten, NEW g, g = Gathered(saver, pool, forgotten)
      PROVE  \/ g.data.main = {} \/ g.table \in Tolerant
             \/ g.data.main = {q.fn : q \in Wanted(g)} \ g.data.unseen
  <2> SUFFICES ASSUME saver.table \notin Tolerant, data.main # {}
               PROVE  data.main = {q.fn : q \in Wanted(g)} \ data.unseen
    BY <1>2 DEF Gathered
  <2>1. saver.table \in StrictTables
    BY <1>1 DEF StrictTables, SaverOf
  <2>2. StrictGetter(Getter.queries) /\ g.table = queue[1][2] /\ g.site = Site
    BY <1>1, <1>2, <2>1, SaversOfTables DEF Getter, Gathered
  <2>3. at = Len(Getter.queries) + 1 /\ Saving
    BY DEF Spawn
  <2>4. data.main = Hits(Getter.queries, Len(Getter.queries) + 1) \ data.unseen
    BY <1>1, <2>1, <2>2, <2>3 DEF ListsInv, Progress, StrictGetter
  <2>5. Wanted(g) = {Getter.queries[i] : i \in {j \in DOMAIN Getter.queries :
                       Hit(Site, Getter.queries[j]) /\ Getter.queries[j].list = "main"}}
    BY <2>2 DEF Wanted, Getter, Range
  <2> QED
    BY <2>2, <2>4, <2>5 DEF Hits, StrictGetter
<1>3. StrictListsAreWhole'
  <2>1. project' = project
    BY DEF Spawn
  <2> QED
    BY <1>1, <1>2, <2>1 DEF ListsInv, StrictListsAreWhole, Wanted, Hit, Elements
<1> QED
  BY <1>3, ListsNext DEF Spawn

LEMMA ListsStep == ListsInv /\ [Next]_vars => ListsInv'
<1> SUFFICES ASSUME ListsInv, [Next]_vars
             PROVE  ListsInv'
  OBVIOUS
<1>1. CASE Spawn
  BY <1>1, ListsSpawn
<1>2. CASE Gather
  <2>1. CASE GiveUp
    <3>1. StrictListsAreWhole'
      BY <1>2 DEF Gather, ListsInv, StrictListsAreWhole, Wanted, Hit, Elements
    <3> QED
      BY <1>2, <2>1, <3>1, ListsNext DEF Gather, GiveUp
  <2> QED
    BY <1>2, <2>1, ListsEnter, ListsQuery DEF Gather
<1>3. CASE query_all_site_with_major
  <2>1. StrictListsAreWhole'
    BY <1>3 DEF query_all_site_with_major, ListsInv, StrictListsAreWhole, Wanted, Hit, Elements
  <2>2. at = 0 /\ data = NoRows /\ at' = 0 /\ data' = NoRows
    BY <1>3 DEF query_all_site_with_major, ListsInv
  <2>3. ASSUME queue'[1][2] \in StrictTables PROVE Progress'
    <3>1. Len(Getter'.queries) \in Nat
      BY <2>3, SaversOfTables DEF Getter, StrictGetter
    <3> QED
      BY <2>2, <3>1 DEF Progress, NoRows
  <2> QED
    BY <2>1, <2>2, <2>3 DEF ListsInv, NoRows, StrictTables
<1>4. CASE gen_pdms_major_table \/ define_material_surreal_funtions \/ define_tf_surreal_functions
             \/ Join \/ Return
  BY <1>4, ListsElsewhere DEF gen_pdms_major_table, define_material_surreal_funtions,
       define_tf_surreal_functions, Join, Return
<1>5. CASE Tasks
  BY <1>5, ListsElsewhere DEF Tasks, TaskStep
<1>6. CASE PbsJob
  <2>1. project' = project
    BY <1>6 DEF PbsJob, PbsStep, set_pdms_major_code, set_pbs_fixed_node, query_all_room_name,
         set_pbs_room_node, set_pbs_room_major_node, query_all_zone_with_major, set_pbs_node, Finished,
         insert_pe_into_table_with_chunks, insert_relate_to_table, Fails
  <2> QED
    BY <1>6, <2>1, PbsStaysOutside, ListsElsewhere DEF PbsJob
<1>7. CASE Again \/ Exit
  BY <1>7, ListsElsewhere DEF Again, Exit, Ends, Begins
<1>8. CASE UNCHANGED vars
  BY <1>8, ListsElsewhere DEF vars
<1>9. CASE SearchPanics
  <2>1. StrictListsAreWhole'
    BY <1>9 DEF SearchPanics, ListsInv, StrictListsAreWhole, Wanted, Hit, Elements
  <2> QED
    BY <1>9, <2>1 DEF SearchPanics, ListsInv, Saving, NoRows
<1> QED
  BY <1>1, <1>2, <1>3, <1>4, <1>5, <1>6, <1>7, <1>8, <1>9 DEF Next, MaterialJob, SaveAll

\* The list of a strict getter is empty, or has the rows of every query whose
\* elements were found, in what its saver goes on to
\* store, for any projects, jobs and failing calls.
THEOREM StrictListsLackOnlyTheUnseen == Spec => []StrictListsAreWhole
<1>1. ListsInv => StrictListsAreWhole
  BY DEF ListsInv
<1> QED
  BY <1>1, ListsInit, ListsStep, PTL DEF Spec

-----------------------------------------------------------------------------
(* The tables of MySQL.                                                     *)

ListNames == {"main", "tubi"}

\* The columns of a table take the fields of a list.
Takes(table, fs) ==
  /\ ToSet(fs) \subseteq DOMAIN table.names
  /\ \A i \in DOMAIN fs : table.names[fs[i]] \in ToSet(table.columns)
  /\ \A i, j \in DOMAIN fs : table.names[fs[i]] = table.names[fs[j]] => i = j

\* Every field of a list is the field of a column and no two are of one, table
\* by table (create_*_table_sql and the save_*_mysql functions).
LEMMA ProcessTakes ==
  \A l \in ListNames : \A t \in {gy_list, gy_equi, gy_valv} : Takes(t, t.fields[l])
<1> USE DEF ListNames, Table, Takes, ToSet
<1>1. Takes(gy_list, gy_list.fields.main) /\ Takes(gy_list, gy_list.fields.tubi)
  BY DEF gy_list, gy_list_measured
<1>2. Takes(gy_equi, gy_equi.fields.main) /\ gy_equi.fields.tubi = gy_equi.fields.main
  BY DEF gy_equi
<1>3. Takes(gy_valv, gy_valv.fields.main) /\ gy_valv.fields.tubi = gy_valv.fields.main
  BY DEF gy_valv
<1> HIDE DEF Takes
<1> QED
  BY <1>1, <1>2, <1>3

LEMMA InstrumentTakes ==
  \A l \in ListNames : \A t \in {inst_list, inst_pipe, inst_equi} : Takes(t, t.fields[l])
<1> USE DEF ListNames, Table, Takes, ToSet
<1>1. Takes(inst_list, inst_list.fields.main) /\ inst_list.fields.tubi = inst_list.fields.main
  BY DEF inst_list
<1>2. Takes(inst_pipe, inst_pipe.fields.main) /\ inst_pipe.fields.tubi = inst_pipe.fields.main
  BY DEF inst_pipe
<1>3. Takes(inst_equi, inst_equi.fields.main) /\ inst_equi.fields.tubi = inst_equi.fields.main
  BY DEF inst_equi
<1> HIDE DEF Takes
<1> QED
  BY <1>1, <1>2, <1>3

LEMMA OtherTakes ==
  \A l \in ListNames : \A t \in {tx_list, gps_list, sb_list, nt_valv} : Takes(t, t.fields[l])
<1> USE DEF ListNames, Table, Takes, ToSet
<1>1. Takes(tx_list, tx_list.fields.main) /\ tx_list.fields.tubi = tx_list.fields.main
  BY DEF tx_list
<1>2. Takes(gps_list, gps_list.fields.main) /\ gps_list.fields.tubi = gps_list.fields.main
  BY DEF gps_list
<1>3. Takes(sb_list, sb_list.fields.main) /\ sb_list.fields.tubi = sb_list.fields.main
  BY DEF sb_list
<1>4. Takes(nt_valv, nt_valv.fields.main) /\ nt_valv.fields.tubi = nt_valv.fields.main
  BY DEF nt_valv
<1> HIDE DEF Takes
<1> QED
  BY <1>1, <1>2, <1>3, <1>4

\* The ventilation table names its columns as the getter names its fields.
LEMMA HvacTakes ==
  /\ Takes(hvac_pipe, hvac_columns)
  /\ \A l \in ListNames : hvac_pipe.fields[l] = hvac_columns
<1>1. /\ hvac_pipe.columns = hvac_columns
      /\ hvac_pipe.names = [c \in ToSet(hvac_columns) |-> c]
      /\ \A l \in ListNames : hvac_pipe.fields[l] = hvac_columns
  BY DEF hvac_pipe, Table, ListNames
<1>2. \E s : /\ s = hvac_columns
             /\ s = <<"reference", "segment", "material", "pressure", "width", "height", "thickness",
                      "area", "weight", "stiffener", "stiffener_length", "stiffener_weight", "flange",
                      "flange_length", "flange_weight", "gasket", "gasket_length", "bolts", "other",
                      "others", "screws", "nuts", "room">>
  BY DEF hvac_columns
<1>3. \A i, j \in DOMAIN hvac_columns : hvac_columns[i] = hvac_columns[j] => i = j
  BY <1>2
<1>4. \A i \in DOMAIN hvac_columns : hvac_columns[i] \in ToSet(hvac_columns)
  BY DEF ToSet
<1> QED
  BY <1>1, <1>3, <1>4 DEF Takes

LEMMA ElecTakes ==
  /\ Takes(elec_list, elec_list.fields.main)
  /\ elec_list.fields.tubi = elec_list.fields.main
<1> DEFINE fs == elec_list.fields.main
           names == elec_list.names
           columns == elec_list.columns
<1>1. /\ fs = <<"id", "num", "project_num", "project_name", "major", "room_code", "name", "pos",
                "bran_type", "supp_name", "stander_num", "item_num", "material", "width", "height",
                "size_num", "b_painting", "painting_color", "b_cover", "b_partition", "partition_num",
                "horizontal_or_vertical", "unit", "count">>
      /\ names = [id |-> "reference", num |-> "unit_no", project_num |-> "project",
                  project_name |-> "project_name", major |-> "major", room_code |-> "room",
                  name |-> "tray", pos |-> "height_above", bran_type |-> "tray_type",
                  supp_name |-> "support", stander_num |-> "standard", item_num |-> "item",
                  material |-> "material", width |-> "width", height |-> "height", size_num |-> "size",
                  b_painting |-> "painted", painting_color |-> "colour", b_cover |-> "cover",
                  b_partition |-> "partition", partition_num |-> "partition_no", spre |-> "spre",
                  catr |-> "catr", horizontal_or_vertical |-> "direction", unit |-> "unit",
                  count |-> "quantity"]
      /\ columns = <<"reference", "unit_no", "project", "project_name", "major", "room", "tray",
                     "height_above", "tray_type", "support", "standard", "item", "material", "width",
                     "height", "size", "painted", "colour", "cover", "partition", "partition_no",
                     "partition_shared_with", "direction", "unit", "quantity">>
  BY DEF elec_list, Table
<1>2. elec_list.fields.tubi = elec_list.fields.main
  BY DEF elec_list, Table
<1> HIDE DEF fs, names, columns
<1>3. \A i, j \in DOMAIN fs : names[fs[i]] = names[fs[j]] => i = j
  BY <1>1, SMTT(30)
<1>4. \A i \in DOMAIN fs : names[fs[i]] \in {columns[k] : k \in DOMAIN columns}
  BY <1>1, SMTT(30)
<1>5. \A i \in DOMAIN fs : fs[i] \in DOMAIN names
  BY <1>1, SMTT(30)
<1> QED
  BY <1>2, <1>3, <1>4, <1>5 DEF Takes, ToSet, fs, names, columns

\* MySQL takes the INSERT of every list of every table.
LEMMA EveryListIsTaken ==
  ASSUME NEW table \in DOMAIN Tables, NEW l \in ListNames
  PROVE  Accepted(table, l)
<1>1. Takes(Tables[table], Tables[table].fields[l])
  BY ProcessTakes, InstrumentTakes, OtherTakes, HvacTakes, ElecTakes DEF Tables, ListNames
<1> QED
  BY <1>1 DEF Accepted, Takes, Written

-----------------------------------------------------------------------------
(* The getters and savers.                                                  *)

FnsIn(queries, l) == {q.fn : q \in {p \in Range(queries) : p.list = l}}
\* What a getter asks for: the functions of its two lists.
Asks(get, main, tubi) ==
  /\ Len(get.queries) \in Nat /\ DOMAIN get.queries = 1 .. Len(get.queries)
  /\ \A q \in Range(get.queries) :
       \/ q.list = "main" /\ q.fn \in main
       \/ q.list = "tubi" /\ q.fn \in tubi

\* The function and the list of a query.
LEMMA QueryFields ==
  ASSUME NEW fn, NEW found
  PROVE  /\ Strict(fn, found).fn = fn /\ Strict(fn, found).list = "main"
         /\ Lenient(fn, found).fn = fn /\ Lenient(fn, found).list = "main"
         /\ Guarded(fn, found).fn = fn /\ Guarded(fn, found).list = "main"
         /\ Tubi(Lenient(fn, found)).fn = fn /\ Tubi(Lenient(fn, found)).list = "tubi"
         /\ Tubi(Guarded(fn, found)).fn = fn /\ Tubi(Guarded(fn, found)).list = "tubi"
BY DEF Strict, Lenient, Guarded, Tubi

Gps == {"gps_bend", "gps_elbo", "gps_flan", "gps_redu", "gps_tee"}

\* What the getters ask for, discipline by discipline.
LEMMA ProcessAsks ==
  /\ Asks(get_gy_dzcl, {"gy_bend", "gy_part"}, {"gy_tubi"})
  /\ Asks(get_gy_equi_list, {"gy_equip"}, {})
  /\ Asks(get_gy_valv_list, {"gy_valve"}, {})
<1> USE QueryFields DEF Asks, Range
<1>1. Asks(get_gy_dzcl, {"gy_bend", "gy_part"}, {"gy_tubi"})
  BY DEF get_gy_dzcl, GyList
<1>2. Asks(get_gy_equi_list, {"gy_equip"}, {})
  BY DEF get_gy_equi_list
<1>3. Asks(get_gy_valv_list, {"gy_valve"}, {})
  BY DEF get_gy_valv_list
<1> QED
  BY <1>1, <1>2, <1>3

LEMMA InstrumentAsks ==
  /\ Asks(get_yk_dzcl_list, {"yk_dzcl"}, {})
  /\ Asks(get_yk_inst_pipe, {"yk_ybgd"}, {})
  /\ Asks(get_yk_equi_list_material, {"yk_equi"}, {})
<1> USE DEF Strict, Asks, Range
<1>1. Asks(get_yk_dzcl_list, {"yk_dzcl"}, {})
  BY DEF get_yk_dzcl_list
<1>2. Asks(get_yk_inst_pipe, {"yk_ybgd"}, {})
  BY DEF get_yk_inst_pipe
<1>3. Asks(get_yk_equi_list_material, {"yk_equi"}, {})
  BY DEF get_yk_equi_list_material
<1> QED
  BY <1>1, <1>2, <1>3

LEMMA ElecAsks ==
  /\ Asks(get_dq_bran_list, {"dq_bran", "dq_stru", "dq_gensec"}, {})
  /\ Asks(get_tx_txsb_list_material, {"tx_sb"}, {})
<1> USE QueryFields DEF Asks, Range
<1>1. Asks(get_dq_bran_list, {"dq_bran", "dq_stru", "dq_gensec"}, {})
  BY DEF get_dq_bran_list
<1>2. Asks(get_tx_txsb_list_material, {"tx_sb"}, {})
  BY DEF get_tx_txsb_list_material
<1> QED
  BY <1>1, <1>2

LEMMA OtherAsks ==
  /\ Asks(get_gps_dzcl_material, Gps, {"gps_tubi"})
  /\ Asks(get_sb_dzcl_list_material, {"eq_dz"}, {})
  /\ Asks(get_nt_valv_list_material, {"nt_valv"}, {})
<1> USE QueryFields DEF Asks, Range
<1>1. Asks(get_gps_dzcl_material, Gps, {"gps_tubi"})
  BY DEF get_gps_dzcl_material, Gps
<1>2. Asks(get_sb_dzcl_list_material, {"eq_dz"}, {})
  BY DEF get_sb_dzcl_list_material
<1>3. Asks(get_nt_valv_list_material, {"nt_valv"}, {})
  BY DEF get_nt_valv_list_material
<1> QED
  BY <1>1, <1>2, <1>3

LEMMA HvacAsks == Asks(get_tf_hvac_material, TfScripts, {})
<1> USE DEF Strict, Lenient, Guarded
<1> DEFINE queries == get_tf_hvac_material.queries
<1>0. queries =
        <<get_tf_hvac_strt_data, get_tf_hvac_tape_data, get_tf_hvac_flex_data,
          get_tf_hvac_bend_data, get_tf_hvac_ofst_data, get_tf_hvac_trns_data,
          get_tf_hvac_brco_data, get_tf_hvac_thre_data, get_tf_hvac_tee_data,
          get_tf_hvac_cap_data, get_tf_hvac_stif_data>>
  BY DEF get_tf_hvac_material
<1>1. \A q \in {get_tf_hvac_strt_data, get_tf_hvac_tape_data, get_tf_hvac_flex_data,
                get_tf_hvac_bend_data, get_tf_hvac_ofst_data, get_tf_hvac_trns_data,
                get_tf_hvac_brco_data, get_tf_hvac_thre_data, get_tf_hvac_tee_data,
                get_tf_hvac_cap_data, get_tf_hvac_stif_data} : q.list = "main"
  BY DEF get_tf_hvac_strt_data, get_tf_hvac_tape_data, get_tf_hvac_flex_data,
         get_tf_hvac_bend_data, get_tf_hvac_ofst_data, get_tf_hvac_trns_data,
         get_tf_hvac_brco_data, get_tf_hvac_thre_data, get_tf_hvac_tee_data,
         get_tf_hvac_cap_data, get_tf_hvac_stif_data
<1> HIDE DEF queries
<1>2. Len(queries) = 11 /\ DOMAIN queries = 1 .. 11
  BY <1>0
<1>3. \A q \in Range(queries) : q.list = "main"
  BY <1>0, <1>1 DEF Range
<1> QED
  BY <1>2, <1>3 DEF Asks, TfScripts, queries

\* A saver: its table and getter, the lists each of its stores gets, and which
\* tables need a main list for MySQL or forget their handles.
Line(saver, table, get, lists) ==
  /\ saver.table = table /\ saver.get = get
  /\ 1 \in DOMAIN saver.surreal /\ saver.surreal[1] = lists /\ saver.mysql = lists
  /\ saver.mysqlNeedsMain = TRUE => table = "material_gy_list"
  /\ saver.dropsHandles = TRUE => table \in {"material_gy_list", "material_gy_equi", "material_gy_valv"}
  /\ saver.skipsEmpty \in BOOLEAN /\ saver.mysqlNeedsMain \in BOOLEAN /\ saver.dropsHandles \in BOOLEAN

LEMMA SaverLines ==
  /\ Line(save_gy_material_dzcl, "material_gy_list", get_gy_dzcl, {"main", "tubi"})
  /\ Line(save_gy_material_equi, "material_gy_equi", get_gy_equi_list, {"main"})
  /\ Line(save_gy_material_valv, "material_gy_valv", get_gy_valv_list, {"main"})
  /\ Line(save_yk_material_dzcl, "material_inst_list", get_yk_dzcl_list, {"main"})
  /\ Line(save_yk_material_pipe, "material_inst_pipe", get_yk_inst_pipe, {"main"})
  /\ Line(save_yk_material_equi, "material_inst_equi", get_yk_equi_list_material, {"main"})
  /\ Line(save_tf_material_hvac, "material_hvac_pipe", get_tf_hvac_material, {"main"})
  /\ Line(save_dq_material, "material_elec_list", get_dq_bran_list, {"main"})
  /\ Line(save_tx_material_equi, "material_tx_list", get_tx_txsb_list_material, {"main"})
  /\ Line(save_gps_material_dzcl, "material_gps_list", get_gps_dzcl_material, {"main", "tubi"})
  /\ Line(save_sb_material_dzcl, "material_sb_list", get_sb_dzcl_list_material, {"main"})
  /\ Line(save_nt_material_dzcl, "material_nt_valv", get_nt_valv_list_material, {"main"})
<1>1. ASSUME NEW get, NEW table
      PROVE  Line(Saver(get, table), table, get, {"main"})
  BY DEF Line, Saver
<1>2. ASSUME NEW get, NEW table, table \in {"material_gy_list", "material_gy_equi", "material_gy_valv"}
      PROVE  Line(GySaver(get, table), table, get, {"main"})
  BY <1>2 DEF Line, GySaver, Saver
<1>3. Line(save_gy_material_dzcl, "material_gy_list", get_gy_dzcl, {"main", "tubi"})
  BY DEF save_gy_material_dzcl, Line, GySaver, Saver
<1>4. Line(save_tf_material_hvac, "material_hvac_pipe", get_tf_hvac_material, {"main"})
  BY DEF save_tf_material_hvac, Line, Saver
<1>5. Line(save_dq_material, "material_elec_list", get_dq_bran_list, {"main"})
  BY DEF save_dq_material, DqSaver, Line, Saver
<1>6. Line(save_gps_material_dzcl, "material_gps_list", get_gps_dzcl_material, {"main", "tubi"})
  BY DEF save_gps_material_dzcl, GpsSaver, Line, Saver
<1> QED
  BY <1>1, <1>2, <1>3, <1>4, <1>5, <1>6 DEF save_gy_material_equi, save_gy_material_valv,
     save_yk_material_dzcl, save_yk_material_pipe, save_yk_material_equi, save_tx_material_equi,
     save_sb_material_dzcl, save_nt_material_dzcl

\* A table has one saver.
LEMMA SaverOfTable ==
  ASSUME NEW saver \in AllSavers
  PROVE  saver.table \in DOMAIN SaverOf /\ SaverOf[saver.table] = saver
<1>1. \A s, t \in AllSavers : s.table = t.table => s = t
  BY SaverLines DEF AllSavers, Line
<1> QED
  BY <1>1 DEF SaverOf

-----------------------------------------------------------------------------
(* The columns of the rows.                                                 *)

\* What is left of a row of a function that is in no column of its own.
Fits(table, l, fn) ==
  LET t == Tables[table]
  IN \A f \in RowOf_(table, fn) \intersect DOMAIN t.names :
       \/ f \in ToSet(t.fields[l])
       \/ t.names[f] \notin ToSet(t.columns)
       \/ fn = "gy_bend" /\ f = "length"

\* What a function returns has its column, discipline by discipline.
LEMMA ProcessFits ==
  /\ \A fn \in {"gy_bend", "gy_part"} : Fits("material_gy_list", "main", fn)
  /\ Fits("material_gy_list", "tubi", "gy_tubi")
  /\ Fits("material_gy_equi", "main", "gy_equip")
  /\ Fits("material_gy_valv", "main", "gy_valve")
<1> USE DEF Fits, RowOf_, FieldsOf
<1>1. /\ gy_list.fields.main = <<"id", "code", "noun">>
      /\ gy_list.fields.tubi = <<"id", "code", "noun", "length">>
  BY DEF gy_list, gy_list_measured, Table
<1>2. Tables["material_gy_list"] = gy_list
  BY DEF Tables
<1>3. \A fn \in {"gy_bend", "gy_part"} : Fits("material_gy_list", "main", fn)
  BY <1>1, <1>2 DEF ToSet
<1>4. Fits("material_gy_list", "tubi", "gy_tubi")
  BY <1>1, <1>2 DEF ToSet
<1>5. Fits("material_gy_equi", "main", "gy_equip")
  BY DEF Tables
<1>6. Fits("material_gy_valv", "main", "gy_valve")
  BY DEF Tables
<1> QED
  BY <1>3, <1>4, <1>5, <1>6

LEMMA InstrumentFits ==
  /\ Fits("material_inst_list", "main", "yk_dzcl")
  /\ Fits("material_inst_pipe", "main", "yk_ybgd")
  /\ Fits("material_inst_equi", "main", "yk_equi")
<1> USE DEF Fits, RowOf_, FieldsOf
<1>1. Fits("material_inst_list", "main", "yk_dzcl")
  <2>1. Tables["material_inst_list"] = inst_list
    BY DEF Tables
  <2>2. inst_list.fields.main = <<"id", "code", "type">>
    BY DEF inst_list, Table
  <2> QED
    BY <2>1, <2>2 DEF ToSet
<1>2. Fits("material_inst_pipe", "main", "yk_ybgd")
  BY DEF Tables
<1>3. Fits("material_inst_equi", "main", "yk_equi")
  BY DEF Tables
<1> QED
  BY <1>1, <1>2, <1>3

LEMMA ElecFits ==
  ASSUME NEW fn \in {"dq_bran", "dq_stru", "dq_gensec"}
  PROVE  Fits("material_elec_list", "main", fn)
<1> DEFINE fs == elec_list.fields.main
<1>1. fs = <<"id", "num", "project_num", "project_name", "major", "room_code", "name", "pos",
             "bran_type", "supp_name", "stander_num", "item_num", "material", "width", "height",
             "size_num", "b_painting", "painting_color", "b_cover", "b_partition", "partition_num",
             "horizontal_or_vertical", "unit", "count">>
  BY DEF elec_list, Table
<1>2. /\ elec_list.names.spre = "spre" /\ elec_list.names.catr = "catr"
      /\ "length" \notin DOMAIN elec_list.names
  BY DEF elec_list, Table
<1>3. "spre" \notin ToSet(elec_list.columns) /\ "catr" \notin ToSet(elec_list.columns)
  BY DEF elec_list, Table, ToSet
<1>4. Tables["material_elec_list"] = elec_list
  BY DEF Tables
<1>5. RowOf_("material_elec_list", fn) \subseteq
        {"id", "num", "project_num", "major", "room_code", "material", "stander_num", "unit",
         "item_num", "name", "pos", "bran_type", "width", "height", "size_num", "b_painting",
         "painting_color", "b_cover", "b_partition", "partition_num", "horizontal_or_vertical",
         "project_name", "supp_name", "count"} \union {"spre", "catr", "length"}
  BY DEF RowOf_, FieldsOf, get_dq_value_from_material, Tray
<1> HIDE DEF fs
<1>6. {"id", "num", "project_num", "major", "room_code", "material", "stander_num", "unit",
         "item_num", "name", "pos", "bran_type", "width", "height", "size_num", "b_painting",
         "painting_color", "b_cover", "b_partition", "partition_num", "horizontal_or_vertical",
         "project_name", "supp_name", "count"} \subseteq ToSet(fs)
  <2>1. DOMAIN fs = 1 .. 24
    BY <1>1
  <2>2. \A k \in 1 .. 24 : fs[k] \in ToSet(fs)
    BY <2>1 DEF ToSet
  <2> QED
    BY <1>1, <2>2, SMTT(30)
<1> QED
  BY <1>2, <1>3, <1>4, <1>5, <1>6 DEF Fits, fs

LEMMA OtherFits ==
  /\ Fits("material_tx_list", "main", "tx_sb")
  /\ \A fn \in Gps : Fits("material_gps_list", "main", fn)
  /\ Fits("material_gps_list", "tubi", "gps_tubi")
  /\ Fits("material_sb_list", "main", "eq_dz")
  /\ Fits("material_nt_valv", "main", "nt_valv")
<1> USE DEF Fits, RowOf_
<1>1. Fits("material_tx_list", "main", "tx_sb")
  BY DEF Tables, FieldsOf
<1>2. /\ gps_list.fields.main = <<"id", "code", "type", "radius", "length", "thick", "count">>
      /\ gps_list.fields.tubi = <<"id", "code", "type", "radius", "length", "thick", "count">>
  BY DEF gps_list, Table
<1>3. Tables["material_gps_list"] = gps_list
  BY DEF Tables
<1>4. \A fn \in Gps \union {"gps_tubi"} :
        RowOf_("material_gps_list", fn) \subseteq {"id", "code", "type", "radius", "length", "thick"}
  BY DEF Gps, FieldsOf
<1>5. (\A fn \in Gps : Fits("material_gps_list", "main", fn)) /\ Fits("material_gps_list", "tubi", "gps_tubi")
  BY <1>2, <1>3, <1>4 DEF ToSet
<1>6. Fits("material_sb_list", "main", "eq_dz")
  BY DEF Tables, FieldsOf
<1>7. Fits("material_nt_valv", "main", "nt_valv")
  BY DEF Tables, FieldsOf
<1> QED
  BY <1>1, <1>5, <1>6, <1>7

LEMMA HvacFits == \A fn : Fits("material_hvac_pipe", "main", fn)
<1>1. Tables["material_hvac_pipe"] = hvac_pipe
  BY DEF Tables
<1>2. DOMAIN hvac_pipe.names = ToSet(hvac_columns)
  BY DEF hvac_pipe, Table
<1> QED
  BY <1>1, <1>2, HvacTakes DEF Fits, ListNames

LEMMA GettersAsk ==
  ASSUME NEW table \in DOMAIN SaverOf
  PROVE  /\ Len(SaverOf[table].get.queries) \in Nat
         /\ DOMAIN SaverOf[table].get.queries = 1 .. Len(SaverOf[table].get.queries)
<1>1. PICK saver \in AllSavers : saver.table = table /\ SaverOf[table] = saver
  BY SaverOfTable DEF SaverOf
<1> QED
  BY <1>1, SaverLines, ProcessAsks, InstrumentAsks, ElecAsks, OtherAsks, HvacAsks DEF AllSavers, Line, Asks

\* The rows a getter asks for have a way into both stores.
LEMMA WayToStores ==
  ASSUME NEW table \in DOMAIN SaverOf, NEW l \in ListNames,
         NEW fn \in FnsIn(SaverOf[table].get.queries, l)
  PROVE  /\ table \in DOMAIN Tables
         /\ l \in SaverOf[table].surreal[1] /\ l \in SaverOf[table].mysql
         /\ Fits(table, l, fn)
<1>1. PICK saver \in AllSavers : saver.table = table
  BY DEF SaverOf
<1>2. SaverOf[table] = saver
  BY <1>1, SaverOfTable
<1>3. ASSUME NEW get, NEW main, NEW tubi, Asks(get, main, tubi), saver.get = get
      PROVE  (l = "main" /\ fn \in main) \/ (l = "tubi" /\ fn \in tubi)
  <2>1. PICK q \in Range(get.queries) : q.list = l /\ q.fn = fn
    BY <1>2, <1>3 DEF FnsIn
  <2> QED
    BY <1>3, <2>1 DEF Asks
<1>4. CASE saver \in {save_gy_material_dzcl, save_gy_material_equi, save_gy_material_valv}
  <2>1. CASE saver = save_gy_material_dzcl
    BY <1>1, <1>2, <1>3, <2>1, SaverLines, ProcessAsks, ProcessFits DEF Line, Tables
  <2>2. CASE saver \in {save_gy_material_equi, save_gy_material_valv}
    BY <1>1, <1>2, <1>3, <2>2, SaverLines, ProcessAsks, ProcessFits DEF Line, Tables
  <2> QED
    BY <1>4, <2>1, <2>2
<1>5. CASE saver \in {save_yk_material_dzcl, save_yk_material_pipe, save_yk_material_equi}
  BY <1>1, <1>2, <1>3, <1>5, SaverLines, InstrumentAsks, InstrumentFits DEF Line, Tables
<1>6. CASE saver = save_tf_material_hvac
  BY <1>1, <1>2, <1>3, <1>6, SaverLines, HvacAsks, HvacFits DEF Line, Tables
<1>7. CASE saver \in {save_dq_material, save_tx_material_equi}
  BY <1>1, <1>2, <1>3, <1>7, SaverLines, ElecAsks, ElecFits, OtherFits DEF Line, Tables
<1>8. CASE saver \in {save_gps_material_dzcl, save_sb_material_dzcl, save_nt_material_dzcl}
  BY <1>1, <1>2, <1>3, <1>8, SaverLines, OtherAsks, OtherFits DEF Line, Tables
<1> QED
  BY <1>4, <1>5, <1>6, <1>7, <1>8 DEF AllSavers

-----------------------------------------------------------------------------
(* Following a row from its getter into the stores.                         *)

TaskFields == {"run", "site", "table", "store", "n", "todo", "data", "keyed", "held"}
Sourced(table, rows) ==
  /\ ListNames \subseteq DOMAIN rows
  /\ \A l \in ListNames : rows[l] \subseteq FnsIn(SaverOf[table].get.queries, l)

\* A task that is waited for has the list before it.
Waiting(store, g, l) ==
  \E t \in tasks :
    /\ t.held = TRUE /\ t.store = store /\ t.run = g.run /\ t.table = g.table /\ t.site = g.site
    /\ t.data = g.data /\ l \in Range(t.todo)
Forgot(g) ==
  \/ g.forgotten /\ g.table \in {"material_gy_list", "material_gy_equi", "material_gy_valv"}
  \/ g.run \in panicked
ForSurreal(g, l, fn) == Waiting("surreal", g, l) \/ InSurreal(g, fn) \/ Broke("surreal", g, fn)
ForMysql(g, l, fn) ==
  \/ ~g.pool \/ Waiting("mysql", g, l) \/ InMysql(g, fn) \/ Broke("mysql", g, fn)
  \/ g.table = "material_gy_list" /\ g.data.main = {}
Followed(g) ==
  \A l \in ListNames : \A fn \in g.data[l] :
    TubiLeftOut(g) \/ Forgot(g) \/ (ForSurreal(g, l, fn) /\ ForMysql(g, l, fn))

\* A task that is waited for is of the call that is saving, or of one whose
\* handles are gone.
TasksOf(number, where) ==
  \A t \in tasks :
    /\ DOMAIN t = TaskFields
    /\ t.todo \in Seq(ListNames \union {"table"}) /\ t.todo # <<>>
    /\ t.held = TRUE => (t.run = number /\ where \in {"save", "join"}) \/ t.run \in panicked
DeliveryInv ==
  /\ Saving /\ queue[1][2] \in DOMAIN SaverOf => Sourced(queue[1][2], data)
  /\ TasksOf(run, pc)
  /\ \A g \in gathered : g.table \in DOMAIN SaverOf /\ Sourced(g.table, g.data) /\ Followed(g)

\* Nothing is under way in the beginning.
LEMMA DeliveryInit == Init => DeliveryInv
BY DEF Init, DeliveryInv, TasksOf, Saving

\* What is left of a sequence without its head.
LEMMA HeadAndRest ==
  ASSUME NEW S, NEW s \in Seq(S), s # <<>>
  PROVE  /\ Tail(s) \in Seq(S) /\ Range(s) = {Head(s)} \union Range(Tail(s))
         /\ Len(s) = 1 => Range(Tail(s)) = {}
         /\ Len(s) # 1 => Tail(s) # <<>>
<1>1. /\ Head(s) = s[1] /\ Tail(s) \in Seq(S) /\ Len(s) \in Nat \ {0} /\ DOMAIN s = 1 .. Len(s)
      /\ Len(Tail(s)) = Len(s) - 1 /\ DOMAIN Tail(s) = 1 .. Len(s) - 1
      /\ \A i \in 1 .. Len(s) - 1 : Tail(s)[i] = s[i + 1]
  OBVIOUS
<1>2. ASSUME NEW i \in 1 .. Len(s)
      PROVE  s[i] \in {Head(s)} \union Range(Tail(s))
  <2>1. CASE i = 1
    BY <1>1, <2>1
  <2>2. CASE i # 1
    <3>1. i - 1 \in 1 .. Len(s) - 1
      BY <1>1, <2>2
    <3>2. Tail(s)[i - 1] = s[i]
      BY <1>1, <3>1
    <3> QED
      BY <1>1, <3>1, <3>2 DEF Range
  <2> QED
    BY <2>1, <2>2
<1>3. Range(Tail(s)) \subseteq Range(s) /\ Head(s) \in Range(s)
  BY <1>1 DEF Range
<1>4. Len(s) = 1 => Range(Tail(s)) = {}
  BY <1>1 DEF Range
<1>5. Len(s) # 1 => Tail(s) # <<>>
  <2>1. Len(<<>>) = 0
    BY EmptySeq
  <2> QED
    BY <1>1, <2>1
<1> QED
  BY <1>1, <1>2, <1>3, <1>4, <1>5 DEF Range

\* A list of a task that is not its next one is left in what remains of it.
LEMMA RestWaits ==
  ASSUME TasksOf(run, pc), NEW t \in tasks, NEW l \in ListNames, l \in Range(t.todo),
         l # Head(t.todo), tasks' = Step(t)
  PROVE  [t EXCEPT !.todo = Tail(t.todo)] \in tasks' /\ l \in Range(Tail(t.todo))
<1>1. l \in Range(Tail(t.todo)) /\ (Len(t.todo) = 1 => Range(Tail(t.todo)) = {})
  BY HeadAndRest DEF TasksOf
<1> QED
  BY <1>1 DEF Step

\* A row that is waited for by SurrealDB is waited for, there or lost to an
\* error after a step of any task (InsertRows, InsertMysql).
LEMMA SurrealServed ==
  ASSUME DeliveryInv, NEW t \in tasks, InsertRows(t) \/ InsertMysql(t),
         NEW g \in gathered, NEW l \in ListNames, NEW fn \in g.data[l], ForSurreal(g, l, fn)
  PROVE  ForSurreal(g, l, fn)'
<1>1. surreal \subseteq surreal' /\ failed \subseteq failed' /\ tasks \ {t} \subseteq tasks'
  BY DEF InsertRows, InsertMysql, Step
<1>2. CASE InSurreal(g, fn) \/ Broke("surreal", g, fn)
  BY <1>1, <1>2 DEF ForSurreal, InSurreal, Broke
<1>3. CASE Waiting("surreal", g, l)
  <2>1. PICK w \in tasks :
          /\ w.held = TRUE /\ w.store = "surreal" /\ w.run = g.run /\ w.table = g.table
          /\ w.site = g.site /\ w.data = g.data /\ l \in Range(w.todo)
    BY <1>3 DEF Waiting
  <2>2. CASE w # t
    BY <1>1, <2>1, <2>2 DEF ForSurreal, Waiting
  <2>3. CASE w = t /\ l # Head(t.todo)
    <3> DEFINE rest == [t EXCEPT !.todo = Tail(t.todo)]
    <3>1. InsertRows(t) /\ tasks' = Step(t)
      BY <2>1, <2>3 DEF InsertRows, InsertMysql
    <3>2. rest \in tasks' /\ l \in Range(Tail(t.todo)) /\ DOMAIN t = TaskFields
      BY <2>1, <2>3, <3>1, RestWaits DEF DeliveryInv, TasksOf
    <3>3. /\ rest.held = TRUE /\ rest.store = "surreal" /\ rest.run = g.run /\ rest.table = g.table
          /\ rest.site = g.site /\ rest.data = g.data /\ rest.todo = Tail(t.todo)
      BY <2>1, <2>3, <3>2 DEF TaskFields
    <3> QED
      BY <3>2, <3>3 DEF ForSurreal, Waiting
  <2>4. CASE w = t /\ l = Head(t.todo)
    <3>1. InsertRows(t) /\ fn \in t.data[Head(t.todo)]
      BY <2>1, <2>4 DEF InsertMysql
    <3>2. \E kept \in SUBSET t.data[Head(t.todo)] :
            /\ surreal' = surreal \union Rows(t, kept)
            /\ Failed(t, t.data[Head(t.todo)] \ kept) \subseteq failed'
      BY <3>1 DEF InsertRows, Failed
    <3>3. PICK kept \in SUBSET t.data[Head(t.todo)] :
            /\ surreal' = surreal \union Rows(t, kept)
            /\ Failed(t, t.data[Head(t.todo)] \ kept) \subseteq failed'
      BY <3>2
    <3>4. CASE fn \in kept
      <4>1. <<t.table, t.site, fn, Id(t)>> \in surreal'
        BY <3>3, <3>4 DEF Rows
      <4> QED
        BY <2>1, <2>4, <4>1 DEF ForSurreal, InSurreal
    <3>5. CASE fn \notin kept
      <4>1. <<t.store, t.table, t.site, fn, t.run>> \in failed'
        BY <3>1, <3>3, <3>5 DEF Failed
      <4> QED
        BY <2>1, <2>4, <4>1 DEF ForSurreal, Broke
    <3> QED
      BY <3>4, <3>5
  <2> QED
    BY <2>2, <2>3, <2>4
<1> QED
  BY <1>2, <1>3 DEF ForSurreal

\* The row MySQL gets has every field in its column.
LEMMA RowIsWritten ==
  ASSUME NEW g, g.table \in DOMAIN SaverOf, Sourced(g.table, g.data),
         NEW l \in ListNames, NEW fn \in g.data[l],
         <<g.table, g.site, fn, g.run, Cells(g.table, l, fn)>> \in mysql'
  PROVE  InMysql(g, fn)'
<1> DEFINE t == Tables[g.table]
           cells == Cells(g.table, l, fn)
<1>1. Fits(g.table, l, fn)
  BY WayToStores DEF Sourced
<1>2. ASSUME NEW f \in RowOf_(g.table, fn) \intersect DOMAIN t.names
      PROVE  t.names[f] \in cells \/ t.names[f] \notin ToSet(t.columns) \/ (fn = "gy_bend" /\ f = "length")
  <2>1. f \in ToSet(t.fields[l]) => t.names[f] \in cells
    BY DEF Cells, Written
  <2> QED
    BY <1>1, <2>1 DEF Fits
<1> HIDE DEF cells
<1>3. <<g.table, g.site, fn, g.run, cells>>[5] = cells
  OBVIOUS
<1> QED
  BY <1>2, <1>3 DEF InMysql, cells

\* The same for MySQL, where the row has every field in its column.
LEMMA MysqlServed ==
  ASSUME DeliveryInv, NEW t \in tasks, InsertRows(t) \/ InsertMysql(t),
         NEW g \in gathered, NEW l \in ListNames, NEW fn \in g.data[l], ForMysql(g, l, fn)
  PROVE  ForMysql(g, l, fn)'
<1>1. mysql \subseteq mysql' /\ failed \subseteq failed' /\ tasks \ {t} \subseteq tasks'
  BY DEF InsertRows, InsertMysql, Step
<1>2. CASE InMysql(g, fn) \/ Broke("mysql", g, fn) \/ ~g.pool
           \/ (g.table = "material_gy_list" /\ g.data.main = {})
  BY <1>1, <1>2 DEF ForMysql, InMysql, Broke
<1>3. CASE Waiting("mysql", g, l)
  <2>1. PICK w \in tasks :
          /\ w.held = TRUE /\ w.store = "mysql" /\ w.run = g.run /\ w.table = g.table
          /\ w.site = g.site /\ w.data = g.data /\ l \in Range(w.todo)
    BY <1>3 DEF Waiting
  <2>2. CASE w # t
    BY <1>1, <2>1, <2>2 DEF ForMysql, Waiting
  <2>3. ASSUME w = t, l # Head(t.todo), tasks' = Step(t)
        PROVE  Waiting("mysql", g, l)'
    <3> DEFINE rest == [t EXCEPT !.todo = Tail(t.todo)]
    <3>1. rest \in tasks' /\ l \in Range(Tail(t.todo)) /\ DOMAIN t = TaskFields
      BY <2>1, <2>3, RestWaits DEF DeliveryInv, TasksOf
    <3>2. /\ rest.held = TRUE /\ rest.store = "mysql" /\ rest.run = g.run /\ rest.table = g.table
          /\ rest.site = g.site /\ rest.data = g.data /\ rest.todo = Tail(t.todo)
      BY <2>1, <2>3, <3>1 DEF TaskFields
    <3> QED
      BY <3>1, <3>2 DEF Waiting
  <2>4. ASSUME w = t, NEW fns, fn \in fns, failed' = failed \union Failed(t, fns)
        PROVE  Broke("mysql", g, fn)'
    <3>1. <<t.store, t.table, t.site, fn, t.run>> \in failed'
      BY <2>4 DEF Failed
    <3> QED
      BY <2>1, <2>4, <3>1 DEF Broke
  <2>5. CASE w = t
    <3>1. InsertMysql(t) /\ t.data = g.data /\ l # "table"
      BY <2>1, <2>5 DEF InsertRows, ListNames
    <3>2. CASE Head(t.todo) = "table" /\ tasks' = Step(t)
      BY <2>3, <2>5, <3>1, <3>2 DEF ForMysql
    <3>3. CASE /\ Head(t.todo) = "table"
               /\ failed' = failed \union Failed(t, UNION {t.data[k] : k \in Range(Tail(t.todo))})
      <4>1. l \in Range(Tail(t.todo))
        BY <2>1, <2>5, <3>1, <3>3, HeadAndRest DEF DeliveryInv, TasksOf
      <4>2. fn \in UNION {t.data[k] : k \in Range(Tail(t.todo))}
        BY <3>1, <4>1
      <4> QED
        BY <2>4, <2>5, <3>3, <4>2 DEF ForMysql
    <3>4. CASE Head(t.todo) # "table" /\ l = Head(t.todo)
      <4>1. CASE failed' = failed \union Failed(t, t.data[Head(t.todo)])
        BY <2>4, <2>5, <3>1, <3>4, <4>1 DEF ForMysql
      <4>2. CASE IF Accepted(t.table, l)
                 THEN mysql' = mysql \union {<<t.table, t.site, f, t.run, Cells(t.table, l, f)>> : f \in t.data[l]}
                 ELSE UNCHANGED mysql
        <5>1. g.table \in DOMAIN SaverOf /\ Sourced(g.table, g.data)
          BY DEF DeliveryInv
        <5>2. Accepted(g.table, l)
          BY <5>1, WayToStores, EveryListIsTaken DEF Sourced
        <5>3. <<g.table, g.site, fn, g.run, Cells(g.table, l, fn)>> \in mysql'
          BY <2>1, <2>5, <3>1, <4>2, <5>2
        <5> QED
          BY <5>1, <5>3, RowIsWritten DEF ForMysql
      <4> QED
        BY <3>1, <3>4, <4>1, <4>2 DEF InsertMysql
    <3>5. CASE Head(t.todo) # "table" /\ l # Head(t.todo)
      <4>1. tasks' = Step(t)
        BY <3>1, <3>5 DEF InsertMysql
      <4> QED
        BY <2>3, <2>5, <3>5, <4>1 DEF ForMysql
    <3> QED
      BY <3>1, <3>2, <3>3, <3>4, <3>5 DEF InsertMysql
  <2> QED
    BY <2>2, <2>5
<1> QED
  BY <1>2, <1>3 DEF ForMysql

\* A step of a task.
LEMMA DeliveryTaskStep ==
  ASSUME DeliveryInv, TaskStep
  PROVE  DeliveryInv'
<1>1. PICK t \in tasks : InsertRows(t) \/ InsertMysql(t)
  BY DEF TaskStep
<1>2. UNCHANGED <<project, pc, run, queue, data, gathered, panicked>>
  BY DEF TaskStep
<1>3. TasksOf(run, pc)'
  <2>1. ASSUME NEW u \in Step(t)
        PROVE  /\ DOMAIN u = TaskFields
               /\ u.todo \in Seq(ListNames \union {"table"}) /\ u.todo # <<>>
               /\ u.held = TRUE => (u.run = run /\ pc \in {"save", "join"}) \/ u.run \in panicked
    <3>1. CASE u \in tasks
      BY <3>1 DEF DeliveryInv, TasksOf
    <3>2. CASE u \notin tasks
      <4>1. u = [t EXCEPT !.todo = Tail(t.todo)] /\ Len(t.todo) # 1
        BY <2>1, <3>2 DEF Step
      <4>2. DOMAIN t = TaskFields /\ t.todo \in Seq(ListNames \union {"table"}) /\ t.todo # <<>>
        BY DEF DeliveryInv, TasksOf
      <4>3. u.todo = Tail(t.todo) /\ u.held = t.held /\ u.run = t.run /\ DOMAIN u = TaskFields
        BY <4>1, <4>2 DEF TaskFields
      <4> QED
        BY <4>1, <4>2, <4>3, HeadAndRest DEF DeliveryInv, TasksOf
    <3> QED
      BY <3>1, <3>2
  <2>2. tasks' \subseteq Step(t)
    BY <1>1 DEF InsertRows, InsertMysql, Step
  <2> QED
    BY <1>2, <2>1, <2>2 DEF TasksOf
<1>4. ASSUME NEW g \in gathered'
      PROVE  Followed(g)'
  <2>1. g \in gathered /\ Followed(g)
    BY <1>2, <1>4 DEF DeliveryInv
  <2>2. TubiLeftOut(g)' = TubiLeftOut(g) /\ Forgot(g)' = Forgot(g)
    BY <1>2 DEF TubiLeftOut, Forgot
  <2> QED
    BY <1>1, <2>1, <2>2, SurrealServed, MysqlServed DEF Followed
<1>5. (Saving /\ queue[1][2] \in DOMAIN SaverOf => Sourced(queue[1][2], data))'
  BY <1>2 DEF DeliveryInv, Saving, Sourced
<1>6. ASSUME NEW g \in gathered'
      PROVE  g.table \in DOMAIN SaverOf /\ Sourced(g.table, g.data)'
  BY <1>2, <1>6 DEF DeliveryInv, Sourced
<1> QED
  BY <1>3, <1>4, <1>5, <1>6 DEF DeliveryInv

\* A step that leaves tasks, stores and what was gathered alone.
\* A step of another part of the program.
LEMMA DeliveryElsewhere ==
  ASSUME DeliveryInv, UNCHANGED <<tasks, gathered, surreal, mysql, failed, panicked, queue, data>>,
         TasksOf(run', pc'),
         Saving' => Saving \/ Sourced(queue[1][2], data)
  PROVE  DeliveryInv'
<1>1. TasksOf(run, pc)'
  BY DEF TasksOf
<1>2. ASSUME NEW g \in gathered'
      PROVE  g.table \in DOMAIN SaverOf /\ Sourced(g.table, g.data) /\ Followed(g)'
  BY <1>2 DEF DeliveryInv, Followed, TubiLeftOut, Forgot, ForSurreal, ForMysql, Waiting, InSurreal, InMysql, Broke
<1> QED
  BY <1>1, <1>2 DEF DeliveryInv, Sourced

\* Nothing is gathered by an empty list of rows.
LEMMA NothingSourced ==
  ASSUME NEW table
  PROVE  Sourced(table, NoRows)
BY DEF Sourced, NoRows, ListNames

\* A step of a getter.
LEMMA DeliveryGather ==
  ASSUME DeliveryInv, ListsInv, Gather
  PROVE  DeliveryInv'
<1>1. UNCHANGED <<pc, run, tasks, gathered, surreal, mysql, failed, panicked>>
  BY DEF Gather
<1>2. (Saving /\ queue[1][2] \in DOMAIN SaverOf => Sourced(queue[1][2], data))'
  <2>1. CASE NextSaver
    BY <2>1, NothingSourced DEF NextSaver
  <2>2. CASE ~NextSaver
    <3>1. Saving /\ queue' = queue
      BY <2>2 DEF Gather, EnterGetter, Query, Overlook, GiveUp
    <3> SUFFICES ASSUME queue[1][2] \in DOMAIN SaverOf
                 PROVE  Sourced(queue[1][2], data')
      BY <3>1 DEF Sourced
    <3>2. Sourced(queue[1][2], data)
      BY <3>1 DEF DeliveryInv
    <3>3. CASE data' = data
      BY <3>2, <3>3
    <3>5. CASE \E fns : data' = [data EXCEPT !.unseen = fns]
      BY <3>2, <3>5 DEF Sourced, ListNames
    <3>4. CASE data' # data /\ ~\E fns : data' = [data EXCEPT !.unseen = fns]
      <4> DEFINE q == Getter.queries[at]
      <4>1. at \in 1 .. Len(Getter.queries) /\ data' = [data EXCEPT ![q.list] = data[q.list] \union {q.fn}]
        BY <2>2, <3>4 DEF Gather, EnterGetter, Query, Overlook, GiveUp
      <4>2. DOMAIN Getter.queries = 1 .. Len(Getter.queries)
        BY GettersAsk DEF Getter
      <4>3. q \in Range(Getter.queries)
        BY <4>1, <4>2 DEF Range
      <4> HIDE DEF q
      <4>4. q.fn \in FnsIn(Getter.queries, q.list)
        BY <4>3 DEF FnsIn
      <4> QED
        BY <3>2, <4>1, <4>4 DEF Sourced, Getter
    <3> QED
      BY <3>3, <3>4, <3>5
  <2> QED
    BY <2>1, <2>2
<1>3. ASSUME NEW g \in gathered'
      PROVE  g.table \in DOMAIN SaverOf /\ Sourced(g.table, g.data) /\ Followed(g)'
  BY <1>1, <1>3 DEF DeliveryInv, Followed, TubiLeftOut, Forgot, ForSurreal, ForMysql, Waiting, InSurreal, InMysql, Broke
<1> QED
  BY <1>1, <1>2, <1>3 DEF DeliveryInv, TasksOf, Sourced

\* A saver hands what its getter returned to tasks that insert it.
LEMMA DeliverySpawn ==
  ASSUME DeliveryInv, ListsInv, Spawn
  PROVE  DeliveryInv'
<1>1. PICK saver \in AllSavers :
        /\ saver.table = queue[1][2]
        /\ \/ /\ saver.skipsEmpty /\ data.main = {}
              /\ gathered' = gathered \union {Gathered(saver, FALSE, FALSE)} /\ UNCHANGED tasks
           \/ /\ gathered' = gathered \union {Gathered(saver, TRUE, FALSE)}
              /\ tasks' = tasks \union SurrealTasks(saver, TRUE) \union {MysqlTask(saver)}
           \/ /\ gathered' = gathered \union {Gathered(saver, FALSE, saver.dropsHandles)}
              /\ tasks' = tasks \union SurrealTasks(saver, ~saver.dropsHandles)
  BY DEF Spawn
<1>2. UNCHANGED <<pc, run, surreal, mysql, failed, panicked>> /\ NextSaver /\ pc = "save"
  BY DEF Spawn, Saving
<1>3. saver.table \in DOMAIN SaverOf /\ SaverOf[saver.table] = saver /\ Sourced(saver.table, data)
  BY <1>1, SaverOfTable DEF DeliveryInv, Spawn
<1>4. ASSUME NEW lists
      PROVE  /\ Filled(lists) \in Seq(ListNames \union {"table"})
             /\ \A l \in ListNames : l \in lists /\ data[l] # {} => l \in Range(Filled(lists))
  <2> DEFINE filled(l) == IF l \in lists /\ data[l] # {} THEN <<l>> ELSE <<>>
             S == ListNames \union {"table"}
  <2>1. Filled(lists) = filled("main") \o filled("tubi")
    BY DEF Filled
  <2>2. ASSUME NEW l \in ListNames
        PROVE  /\ filled(l) \in Seq(S)
               /\ l \in lists /\ data[l] # {} => l \in Range(filled(l))
    <3>1. <<l>> \in Seq(S) /\ <<>> \in Seq(S) /\ l \in Range(<<l>>)
      BY DEF Range
    <3> QED
      BY <3>1
  <2>3. "main" \in ListNames /\ "tubi" \in ListNames /\ ListNames = {"main", "tubi"}
    BY DEF ListNames
  <2> HIDE DEF filled, S
  <2>4. /\ filled("main") \o filled("tubi") \in Seq(S)
        /\ Range(filled("main") \o filled("tubi")) = Range(filled("main")) \union Range(filled("tubi"))
    BY <2>2, <2>3, ConcatProperties, RangeConcatenation
  <2> QED
    BY <2>1, <2>2, <2>3, <2>4 DEF S
<1>5. ASSUME NEW todo \in Seq(ListNames \union {"table"})
      PROVE  /\ <<"table">> \o todo \in Seq(ListNames \union {"table"}) /\ <<"table">> \o todo # <<>>
             /\ Range(todo) \subseteq Range(<<"table">> \o todo)
  <2> DEFINE head == <<"table">>
             S == ListNames \union {"table"}
  <2>1. head \in Seq(S) /\ "table" \in Range(head)
    BY DEF Range
  <2>2. todo \in Seq(S)
    OBVIOUS
  <2> HIDE DEF head, S
  <2>3. head \o todo \in Seq(S) /\ Range(head \o todo) = Range(head) \union Range(todo)
    BY <2>1, <2>2, ConcatProperties, RangeConcatenation
  <2>4. Range(<<>>) = {}
    BY DEF Range
  <2>5. head \o todo # <<>>
    BY <2>1, <2>3, <2>4, Zenon
  <2> QED
    BY <2>3, <2>5 DEF head, S
<1>6. TasksOf(run, pc)'
  <2>1. ASSUME NEW held, NEW t \in SurrealTasks(saver, held)
        PROVE  DOMAIN t = TaskFields /\ t.todo \in Seq(ListNames \union {"table"}) /\ t.todo # <<>> /\ t.run = run
    BY <1>4, <2>1 DEF SurrealTasks, Task, TaskFields
  <2>2. ASSUME NEW t, t = MysqlTask(saver)
        PROVE  DOMAIN t = TaskFields /\ t.todo \in Seq(ListNames \union {"table"}) /\ t.todo # <<>> /\ t.run = run
    <3>1. \E todo \in Seq(ListNames \union {"table"}) :
            t = Task(saver, "mysql", 1, <<"table">> \o todo, TRUE)
      <4>1. <<>> \in Seq(ListNames \union {"table"})
        OBVIOUS
      <4> QED
        BY <1>4, <2>2, <4>1 DEF MysqlTask
    <3> QED
      BY <1>5, <3>1 DEF Task, TaskFields
  <2>3. \A t \in tasks' : \/ t \in tasks \/ t = MysqlTask(saver)
                        \/ \E held : t \in SurrealTasks(saver, held)
    BY <1>1
  <2> QED
    BY <1>2, <2>1, <2>2, <2>3 DEF DeliveryInv, TasksOf
<1>7. ASSUME NEW g, NEW pool, NEW forgotten, g = Gathered(saver, pool, forgotten),
             NEW l \in ListNames, NEW fn \in g.data[l]
      PROVE  /\ g.run = run /\ g.site = Site /\ g.table = saver.table /\ g.data = data
             /\ g.pool = pool /\ g.forgotten = forgotten
             /\ l \in saver.surreal[1] /\ l \in saver.mysql /\ data[l] # {}
  <2>1. /\ g.run = run /\ g.site = Site /\ g.table = saver.table /\ g.data = data
        /\ g.pool = pool /\ g.forgotten = forgotten
    BY <1>7 DEF Gathered
  <2>2. fn \in FnsIn(SaverOf[saver.table].get.queries, l)
    BY <1>3, <1>7, <2>1 DEF Sourced
  <2> QED
    BY <1>3, <1>7, <2>1, <2>2, WayToStores
<1>8. ASSUME NEW g, NEW pool, NEW forgotten, g = Gathered(saver, pool, forgotten),
             NEW l \in ListNames, NEW fn \in g.data[l], SurrealTasks(saver, TRUE) \subseteq tasks'
      PROVE  Waiting("surreal", g, l)'
  <2> DEFINE t == Task(saver, "surreal", 1, Filled(saver.surreal[1]), TRUE)
  <2>1. l \in Range(Filled(saver.surreal[1]))
    BY <1>4, <1>7, <1>8
  <2>2. 1 \in DOMAIN saver.surreal
    BY SaverLines DEF AllSavers, Line
  <2>3. Filled(saver.surreal[1]) # <<>>
    BY <2>1 DEF Range
  <2>4. t \in tasks'
    BY <1>8, <2>2, <2>3 DEF SurrealTasks
  <2>5. /\ t.held = TRUE /\ t.store = "surreal" /\ t.run = run /\ t.table = saver.table /\ t.site = Site
        /\ t.data = data /\ t.todo = Filled(saver.surreal[1])
    BY DEF Task
  <2> HIDE DEF t
  <2> QED
    BY <1>7, <1>8, <2>1, <2>4, <2>5 DEF Waiting
<1>9. ASSUME NEW g, NEW pool, NEW forgotten, g = Gathered(saver, pool, forgotten),
             NEW l \in ListNames, NEW fn \in g.data[l], MysqlTask(saver) \in tasks'
      PROVE  ForMysql(g, l, fn)'
  <2>1. CASE saver.mysqlNeedsMain /\ data.main = {}
    <3>1. saver.table = "material_gy_list"
      BY <2>1, SaverLines DEF AllSavers, Line
    <3> QED
      BY <1>7, <1>9, <2>1, <3>1 DEF ForMysql
  <2>2. CASE ~(saver.mysqlNeedsMain /\ data.main = {})
    <3> DEFINE t == MysqlTask(saver)
    <3>1. t = Task(saver, "mysql", 1, <<"table">> \o Filled(saver.mysql), TRUE)
      BY <2>2 DEF MysqlTask
    <3>2. l \in Range(<<"table">> \o Filled(saver.mysql))
      BY <1>4, <1>5, <1>7, <1>9
    <3>3. /\ t.held = TRUE /\ t.store = "mysql" /\ t.run = run /\ t.table = saver.table /\ t.site = Site
          /\ t.data = data /\ t.todo = <<"table">> \o Filled(saver.mysql)
      BY <3>1 DEF Task
    <3> HIDE DEF t
    <3> QED
      BY <1>7, <1>9, <3>2, <3>3 DEF ForMysql, Waiting, t
  <2> QED
    BY <2>1, <2>2
<1>10. ASSUME NEW g \in gathered', g \notin gathered
       PROVE  g.table \in DOMAIN SaverOf /\ Sourced(g.table, g.data) /\ Followed(g)'
  <2>1. ASSUME NEW pool, NEW forgotten, g = Gathered(saver, pool, forgotten)
        PROVE  g.table \in DOMAIN SaverOf /\ Sourced(g.table, g.data)
    BY <1>3, <2>1 DEF Gathered
  <2>2. CASE saver.skipsEmpty /\ data.main = {} /\ g = Gathered(saver, FALSE, FALSE)
    <3>1. g.table = saver.table /\ g.data = data
      BY <2>2 DEF Gathered
    <3>2. TubiLeftOut(g)'
      BY <1>3, <2>2, <3>1 DEF TubiLeftOut
    <3> QED
      BY <2>1, <2>2, <3>2 DEF Followed
  <2>3. CASE g = Gathered(saver, TRUE, FALSE) /\ SurrealTasks(saver, TRUE) \subseteq tasks' /\ MysqlTask(saver) \in tasks'
    BY <1>8, <1>9, <2>1, <2>3 DEF Followed, ForSurreal
  <2>4. CASE /\ g = Gathered(saver, FALSE, saver.dropsHandles)
             /\ SurrealTasks(saver, ~saver.dropsHandles) \subseteq tasks'
    <3>1. g.forgotten = saver.dropsHandles /\ g.pool = FALSE /\ g.table = saver.table
      BY <2>4 DEF Gathered
    <3>4. g.table \in DOMAIN SaverOf /\ Sourced(g.table, g.data)
      BY <2>1, <2>4, Zenon
    <3>2. CASE saver.dropsHandles = TRUE
      <4>1. saver.table \in {"material_gy_list", "material_gy_equi", "material_gy_valv"}
        BY <3>2, SaverLines DEF AllSavers, Line
      <4> QED
        BY <2>1, <2>4, <3>1, <3>2, <4>1 DEF Followed, Forgot
    <3>3. CASE saver.dropsHandles # TRUE
      <4>1. saver.dropsHandles \in BOOLEAN
        BY SaverLines, Zenon DEF AllSavers, Line
      <4>2. saver.dropsHandles = FALSE
        BY <3>3, <4>1
      <4> QED
        <5>1. SurrealTasks(saver, TRUE) \subseteq tasks' /\ g = Gathered(saver, FALSE, FALSE)
          BY <2>4, <4>2
        <5>2. ASSUME NEW l \in ListNames, NEW fn \in g.data[l]
              PROVE  Waiting("surreal", g, l)' /\ g.pool = FALSE
          BY <1>8, <3>1, <5>1, <5>2
        <5> QED
          BY <3>4, <5>2 DEF Followed, ForSurreal, ForMysql
    <3> QED
      BY <3>2, <3>3
  <2> QED
    BY <1>1, <1>10, <2>2, <2>3, <2>4
<1>11. ASSUME NEW g \in gathered
       PROVE  g.table \in DOMAIN SaverOf /\ Sourced(g.table, g.data) /\ Followed(g)'
  <2>1. tasks \subseteq tasks'
    BY <1>1
  <2> QED
    BY <1>2, <1>11, <2>1 DEF DeliveryInv, Followed, TubiLeftOut, Forgot, ForSurreal, ForMysql,
       Waiting, InSurreal, InMysql, Broke
<1>12. (Saving /\ queue[1][2] \in DOMAIN SaverOf => Sourced(queue[1][2], data))'
  BY <1>2, NothingSourced DEF NextSaver
<1> QED
  BY <1>6, <1>10, <1>11, <1>12 DEF DeliveryInv, Sourced

\* Every step of the program keeps every row on its way.
LEMMA DeliveryStep == DeliveryInv /\ ListsInv /\ [Next]_vars => DeliveryInv'
<1> SUFFICES ASSUME DeliveryInv, ListsInv, [Next]_vars
             PROVE  DeliveryInv'
  OBVIOUS
<1>1. CASE Spawn
  BY <1>1, DeliverySpawn
<1>2. CASE Gather
  BY <1>2, DeliveryGather
<1>3. CASE Tasks
  BY <1>3, DeliveryTaskStep DEF Tasks
<1>4. CASE query_all_site_with_major
  <2>1. UNCHANGED <<run, tasks, gathered, surreal, mysql, failed, panicked, data>> /\ data = NoRows /\ pc # "save"
    BY <1>4 DEF query_all_site_with_major, ListsInv
  <2>2. TasksOf(run', pc')
    BY <1>4, <2>1 DEF query_all_site_with_major, DeliveryInv, TasksOf
  <2>3. ASSUME NEW g \in gathered'
        PROVE  g.table \in DOMAIN SaverOf /\ Sourced(g.table, g.data) /\ Followed(g)'
    BY <2>1, <2>3 DEF DeliveryInv, Followed, TubiLeftOut, Forgot, ForSurreal, ForMysql, Waiting, InSurreal, InMysql, Broke
  <2>4. \A table : Sourced(table, data')
    BY <2>1, NothingSourced
  <2> QED
    BY <2>1, <2>2, <2>3, <2>4 DEF DeliveryInv, TasksOf, Sourced
<1>5. CASE gen_pdms_major_table \/ define_material_surreal_funtions \/ define_tf_surreal_functions
  <2>1. UNCHANGED <<run, queue, data, tasks, gathered, surreal, mysql, failed, panicked>> /\ pc' # "save" /\ pc \notin {"save", "join"}
    BY <1>5 DEF gen_pdms_major_table, define_material_surreal_funtions, define_tf_surreal_functions
  <2> QED
    BY <2>1, DeliveryElsewhere DEF DeliveryInv, TasksOf, Saving
<1>6. CASE Join \/ Return
  <2>1. UNCHANGED <<run, queue, data, tasks, gathered, surreal, mysql, failed, panicked>> /\ pc' # "save"
    BY <1>6 DEF Join, Return
  <2>2. TasksOf(run', pc')
    BY <1>6 DEF Join, Return, DeliveryInv, TasksOf
  <2> QED
    BY <2>1, <2>2, DeliveryElsewhere DEF Saving
<1>7. CASE PbsJob
  <2>1. pc' = pc \/ pc \notin {"save", "join"}
    BY <1>7 DEF PbsJob, PbsStep, set_pdms_major_code, set_pbs_fixed_node, query_all_room_name,
         set_pbs_room_node, set_pbs_room_major_node, query_all_zone_with_major, set_pbs_node, Finished,
         insert_pe_into_table_with_chunks, insert_relate_to_table, Fails, Ready
  <2>2. pc' = pc \/ pc' # "save"
    BY <1>7, PbsStaysOutside DEF PbsJob
  <2> QED
    BY <1>7, <2>1, <2>2, DeliveryElsewhere DEF PbsJob, DeliveryInv, TasksOf, Saving
<1>8. CASE Again
  BY <1>8, DeliveryElsewhere DEF Again, Ends, Begins, DeliveryInv, TasksOf, Saving
<1>9. CASE Exit
  <2>1. \A store, g, l : Waiting(store, g, l) => g.run \in panicked
    BY <1>9 DEF Exit, Ends, Waiting, DeliveryInv, TasksOf
  <2>2. UNCHANGED <<gathered, surreal, mysql, failed, panicked>> /\ pc' = "exited" /\ tasks' = {}
    BY <1>9 DEF Exit
  <2>3. ASSUME NEW g \in gathered'
        PROVE  g.table \in DOMAIN SaverOf /\ Sourced(g.table, g.data) /\ Followed(g)'
    BY <2>1, <2>2, <2>3 DEF DeliveryInv, Followed, TubiLeftOut, Forgot, ForSurreal, ForMysql, InSurreal, InMysql, Broke
  <2> QED
    BY <2>2, <2>3 DEF DeliveryInv, TasksOf, Saving, Sourced
<1>10. CASE UNCHANGED vars
  BY <1>10, DeliveryElsewhere DEF vars, DeliveryInv, TasksOf, Saving
<1>11. CASE SearchPanics
  <2>1. /\ UNCHANGED <<gathered, surreal, mysql, failed, tasks, run>> /\ pc' = "failed" /\ ~Saving'
        /\ panicked' = panicked \union {run}
    BY <1>11 DEF SearchPanics, Saving
  <2>2. ASSUME NEW g \in gathered'
        PROVE  g.table \in DOMAIN SaverOf /\ Sourced(g.table, g.data) /\ Followed(g)'
    BY <2>1, <2>2 DEF DeliveryInv, Followed, TubiLeftOut, Forgot, ForSurreal, ForMysql, Waiting, InSurreal, InMysql, Broke
  <2> QED
    BY <2>1, <2>2 DEF DeliveryInv, TasksOf, Sourced
<1> QED
  BY <1>1, <1>2, <1>3, <1>4, <1>5, <1>6, <1>7, <1>8, <1>9, <1>10, <1>11 DEF Next, MaterialJob, SaveAll

\* When the program has ended, the rows the getters returned are in both
\* stores, every field in its column, or their insert failed, for any projects,
\* jobs and failing calls: the tasks of a saver that are waited for hold what is
\* not there yet, and none is left at the end. The four exceptions of the code
\* (gps.rs:65, gy.rs:158, gy.rs:152, graph.rs:235) are those of the property.
THEOREM RowsReachTheirStores == Spec => []NothingIsLostSilently
<1>1. DeliveryInv => NothingIsLostSilently
  <2> SUFFICES ASSUME DeliveryInv, pc = "exited", NEW g \in gathered, NEW fn \in g.data.main \union g.data.tubi,
                      ~TubiLeftOut(g), ~Forgot(g)
               PROVE  /\ InSurreal(g, fn) \/ Broke("surreal", g, fn)
                      /\ \/ ~g.pool \/ InMysql(g, fn) \/ Broke("mysql", g, fn)
                         \/ g.table = "material_gy_list" /\ g.data.main = {}
    BY DEF NothingIsLostSilently, Forgot
  <2>1. PICK l \in ListNames : fn \in g.data[l]
    BY DEF ListNames
  <2>2. \A store : ~Waiting(store, g, l)
    BY DEF DeliveryInv, TasksOf, Waiting, Forgot
  <2> QED
    BY <2>1, <2>2 DEF DeliveryInv, Followed, ForSurreal, ForMysql
<1> QED
  BY <1>1, ListsInit, ListsStep, DeliveryInit, DeliveryStep, PTL DEF Spec

-----------------------------------------------------------------------------
(* The types of all variables.                                              *)

Fns == (UNION Range(Scripts)) \union TfScripts
Places(p) == DOMAIN p.elements \union UNION {DOMAIN p.elements[s].zones : s \in DOMAIN p.elements}
Stages ==
  Begins \union Ends \union
    {"define", "define_tf", "sites", "save", "join", "exited",
     "pbs_fixed", "pbs_rooms", "pbs_room_nodes", "pbs_room_majors", "pbs_zone_list", "pbs_zones"}
\* Every place in the queue names a table that has a saver.
Queued == IsList(queue) /\ \A e \in Range(queue) : e[2] \in DOMAIN SaverOf
Positioned == queue # <<>> => at \in 0 .. Len(Getter.queries) + 1
Known(rows) == rows.main \union rows.tubi \subseteq Fns
WhereInv ==
  /\ project \in Projects /\ run \in 1 .. MaxRuns /\ faults \in 0 .. MaxFaults /\ pc \in Stages
  /\ DOMAIN majors \subseteq Places(project) /\ panicked \subseteq 1 .. run
GettingInv ==
  /\ Queued /\ Positioned /\ defined \subseteq Fns /\ Known(data)
  /\ \A t \in tasks : t.store \in {"surreal", "mysql"}
  /\ \A g \in gathered : Known(g.data)

\* A getter at the head of the queue has as many queries as a number says.
LEMMA HeadQueries ==
  ASSUME NEW q, IsList(q), \A e \in Range(q) : e[2] \in DOMAIN SaverOf, q # <<>>
  PROVE  Len(SaverOf[q[1][2]].get.queries) \in Nat /\ q[1][2] \in DOMAIN SaverOf
<1>1. Len(q) # 0 /\ Len(q) \in Nat /\ DOMAIN q = 1 .. Len(q)
  BY EmptySeq, ListIs DEF IsList
<1>2. q[1] \in Range(q)
  BY <1>1 DEF Range
<1> QED BY <1>2, GettersAsk

LEMMA HeadGetter == Queued /\ queue # <<>> => Len(Getter.queries) \in Nat /\ queue[1][2] \in DOMAIN SaverOf
BY HeadQueries DEF Queued, Getter

LEMMA HeadGetterNext == Queued' /\ queue' # <<>> => Len(Getter.queries)' \in Nat
<1> SUFFICES ASSUME Queued', queue' # <<>> PROVE Len(Getter.queries)' \in Nat
  OBVIOUS
<1>1. Len(SaverOf[queue'[1][2]].get.queries) \in Nat
  BY HeadQueries DEF Queued
<1> QED BY <1>1 DEF Getter

LEMMA ShorterQueue ==
  ASSUME Queued, queue # <<>>
  PROVE  IsList(Tail(queue)) /\ \A e \in Range(Tail(queue)) : e[2] \in DOMAIN SaverOf
<1>1. Tail(queue) \in Seq(Range(queue))
  BY HeadTailProperties DEF Queued, IsList
<1> DEFINE t == Tail(queue)
<1>2. t \in Seq(Range(queue))
  BY <1>1
<1> HIDE DEF t
<1>3. IsList(t) /\ \A e \in Range(t) : e \in Range(queue)
  BY <1>2, ListsAreSeqs, LenProperties, ElementOfSeq DEF Range
<1> QED BY <1>3 DEF Queued, t

\* The next saver starts at its beginning, whichever it is.
LEMMA NextIsPositioned ==
  ASSUME Queued, queue # <<>>, NextSaver
  PROVE  Queued' /\ Positioned' /\ Known(data)'
<1>1. queue' = Tail(queue) /\ at' = 0 /\ data' = NoRows
  BY DEF NextSaver
<1>2. Queued'
  BY <1>1, ShorterQueue DEF Queued
<1>3. ASSUME queue' # <<>> PROVE at' \in 0 .. (Len(Getter.queries)') + 1
  <2>6. Len(Getter.queries)' \in Nat
    BY <1>2, <1>3, HeadGetterNext
  <2> DEFINE n == Len(Getter.queries)'
  <2>7. n \in Nat
    BY <2>6
  <2> HIDE DEF n
  <2>8. at' \in 0 .. n + 1
    BY <1>1, <2>7
  <2> QED BY <2>8 DEF n
<1>4. Known(data)'
  BY <1>1 DEF Known, NoRows
<1> QED BY <1>2, <1>3, <1>4 DEF Positioned

LEMMA SameQueue ==
  ASSUME Queued, Positioned, queue' = queue, at' = at
  PROVE  Queued' /\ Positioned'
BY DEF Queued, Positioned, Getter

\* The tables a site's discipline asks for have savers.
LEMMA SaversHaveTables ==
  ASSUME NEW major
  PROVE  IsList(Savers(major)) /\ \A t \in Range(Savers(major)) : t \in DOMAIN SaverOf
<1> DEFINE S == DOMAIN SaverOf
<1>1. /\ "material_gy_list" \in S /\ "material_gy_equi" \in S /\ "material_gy_valv" \in S
      /\ "material_inst_list" \in S /\ "material_inst_pipe" \in S /\ "material_inst_equi" \in S
      /\ "material_hvac_pipe" \in S /\ "material_elec_list" \in S /\ "material_tx_list" \in S
      /\ "material_gps_list" \in S /\ "material_sb_list" \in S /\ "material_nt_valv" \in S
  BY SaverLines, SaverOfTable DEF AllSavers, Line
<1> HIDE DEF S
<1>2. Savers(major) \in Seq(S)
  BY <1>1 DEF Savers
<1> DEFINE s == Savers(major)
<1>3. s \in Seq(S)
  BY <1>2
<1> HIDE DEF s
<1>4. IsList(s) /\ \A t \in Range(s) : t \in S
  BY <1>3, ListsAreSeqs, LenProperties, ElementOfSeq DEF Range
<1> QED BY <1>4 DEF s, S

\* The table of disciplines has rows for sites and zones only.
LEMMA MajorsArePlaced ==
  ASSUME project \in Projects, DOMAIN majors \subseteq Places(project), WriteMajors
  PROVE  DOMAIN majors' \subseteq Places(project)
<1> SUFFICES ASSUME NEW unread, NEW rows \in AllMajors(SheetGroups, project.elements, unread),
                    majors' = InsertIgnore(majors, rows)
             PROVE  DOMAIN majors' \subseteq Places(project)
  BY DEF WriteMajors
<1> DEFINE elements == project.elements
           read == [s \in DOMAIN elements \ unread |-> elements[s]]
           sites == SiteMajors(SheetGroups, read)
           codes(z) == UNION {ZoneCodes(SheetGroups, read, s, z) : s \in {t \in DOMAIN read : z \in DOMAIN read[t].zones}}
           zs == {z \in UNION {DOMAIN read[s].zones : s \in DOMAIN read} : codes(z) # {}}
<1>1. PICK f : f \in [zs -> UNION {codes(z) : z \in zs}] /\ rows = InsertIgnore(sites, f)
  BY DEF AllMajors
<1>2. DOMAIN sites \subseteq DOMAIN read
  BY DEF SiteMajors, Classified
<1>3. DOMAIN f = zs
  BY <1>1
<1>4. DOMAIN rows = DOMAIN sites \union DOMAIN f
  <2> HIDE DEF sites
  <2> QED BY <1>1 DEF InsertIgnore
<1>5. DOMAIN read \subseteq DOMAIN elements /\ \A s \in DOMAIN read : read[s] = elements[s]
  OBVIOUS
<1>6. zs \subseteq UNION {DOMAIN read[s].zones : s \in DOMAIN read}
  OBVIOUS
<1> HIDE DEF read, sites, zs
<1>7. DOMAIN rows \subseteq Places(project)
  BY <1>2, <1>3, <1>4, <1>5, <1>6 DEF Places
<1>8. DOMAIN InsertIgnore(majors, rows) = DOMAIN majors \union DOMAIN rows
  BY DEF InsertIgnore
<1> QED BY <1>7, <1>8

LEMMA SameWhere ==
  ASSUME WhereInv, project' = project, NoFault \/ Fault \/ faults' = faults,
         majors' = majors \/ WriteMajors, run' = run, pc' \in Stages,
         panicked' \subseteq panicked \union {run}
  PROVE  WhereInv'
<1>1. DOMAIN majors' \subseteq Places(project)
  BY MajorsArePlaced DEF WhereInv
<1>2. faults' \in 0 .. MaxFaults
  BY BoundsAssumption DEF WhereInv
<1>3. panicked' \subseteq 1 .. run'
  BY RunsAssumption DEF WhereInv
<1> QED BY <1>1, <1>2, <1>3 DEF WhereInv

LEMMA WhereInit == Init => WhereInv
<1>1. 0 \in 0 .. MaxFaults /\ 1 \in 1 .. MaxRuns
  BY BoundsAssumption, RunsAssumption
<1>2. DOMAIN <<>> \subseteq Places(project)
  OBVIOUS
<1> QED BY <1>1, <1>2 DEF Init, WhereInv, Stages

LEMMA WhereMaterial ==
  ASSUME WhereInv, SaveAll \/ TaskStep
  PROVE  WhereInv'
<1> USE SameWhere DEF Stages, Begins, Ends
<1>1. CASE gen_pdms_major_table
  BY <1>1, MajorsWritten DEF gen_pdms_major_table
<1>2. CASE define_material_surreal_funtions \/ define_tf_surreal_functions
  BY <1>2 DEF define_material_surreal_funtions, define_tf_surreal_functions
<1>3. CASE query_all_site_with_major
  BY <1>3 DEF query_all_site_with_major
<1>4. CASE Gather
  <2>1. project' = project /\ (NoFault \/ Fault) /\ majors' = majors /\ run' = run /\ pc' = pc /\ panicked' = panicked
    BY <1>4 DEF Gather, EnterGetter, Query, Overlook, GiveUp
  <2> QED BY <2>1 DEF WhereInv
<1>5. CASE Spawn
  <2>1. project' = project /\ (NoFault \/ Fault) /\ majors' = majors /\ run' = run /\ pc' = pc /\ panicked' = panicked
    BY <1>5 DEF Spawn
  <2> QED BY <2>1 DEF WhereInv
<1>6. CASE Join \/ Return
  BY <1>6 DEF Join, Return
<1>7. CASE TaskStep
  <2>1. project' = project /\ (NoFault \/ Fault) /\ majors' = majors /\ run' = run /\ pc' = pc /\ panicked' = panicked
    BY <1>7 DEF TaskStep, InsertRows, InsertMysql
  <2> QED BY <2>1 DEF WhereInv
<1>8. CASE SearchPanics
  BY <1>8 DEF SearchPanics
<1> QED BY <1>1, <1>2, <1>3, <1>4, <1>5, <1>6, <1>7, <1>8 DEF SaveAll

LEMMA WherePbs ==
  ASSUME WhereInv, PbsJob
  PROVE  WhereInv'
<1> DEFINE To(stage) ==
             /\ project' = project /\ (NoFault \/ Fault \/ faults' = faults)
             /\ (majors' = majors \/ WriteMajors) /\ pc' \in {pc, stage, "pbs_failed"}
<1>1. run' = run /\ panicked' = panicked
  BY DEF PbsJob
<1>2. set_pdms_major_code => To("pbs_fixed")
  BY MajorsWritten DEF set_pdms_major_code, Fails
<1>3. set_pbs_fixed_node => To("pbs_rooms")
  BY DEF set_pbs_fixed_node, Fails
<1>4. query_all_room_name => To("pbs_room_nodes")
  BY DEF query_all_room_name, Fails
<1>5. set_pbs_room_node => To("pbs_room_majors")
  BY DEF set_pbs_room_node
<1>6. set_pbs_room_major_node => To("pbs_zone_list")
  BY DEF set_pbs_room_major_node, Fails
<1>7. query_all_zone_with_major => To("pbs_zones")
  BY DEF query_all_zone_with_major, Fails
<1>8. set_pbs_node \/ Finished => To("pbs_done")
  BY DEF set_pbs_node, Finished
<1>9. insert_pe_into_table_with_chunks \/ insert_relate_to_table => To("pbs_zones")
  BY DEF insert_pe_into_table_with_chunks, insert_relate_to_table
<1>10. PICK stage \in {"pbs_fixed", "pbs_rooms", "pbs_room_nodes", "pbs_room_majors", "pbs_zone_list",
                       "pbs_zones", "pbs_done"} : To(stage)
  <2> HIDE DEF To
  <2> QED BY <1>2, <1>3, <1>4, <1>5, <1>6, <1>7, <1>8, <1>9 DEF PbsJob, PbsStep
<1>11. pc \in Stages
  BY DEF WhereInv
<1>12. pc' \in Stages
  BY <1>10, <1>11 DEF Stages, Ends
<1> QED BY <1>1, <1>10, <1>12, SameWhere

LEMMA WhereStep == WhereInv /\ [Next]_vars => WhereInv'
<1> SUFFICES ASSUME WhereInv, [Next]_vars PROVE WhereInv'
  OBVIOUS
<1>1. CASE MaterialJob \/ Tasks
  BY <1>1, WhereMaterial DEF MaterialJob, Tasks
<1>2. CASE PbsJob
  BY <1>2, WherePbs
<1>3. CASE Again
  <2>1. project' = project /\ majors' = majors /\ faults' = faults /\ pc' \in Begins /\ run' = run + 1 /\ run < MaxRuns /\ panicked' = panicked
    BY <1>3 DEF Again
  <2>2. run' \in 1 .. MaxRuns /\ 1 .. run \subseteq 1 .. run'
    BY <2>1, RunsAssumption DEF WhereInv
  <2> QED BY <2>1, <2>2 DEF WhereInv, Stages
<1>4. CASE Exit
  <2>1. project' = project /\ majors' = majors /\ faults' = faults /\ pc' = "exited" /\ run' = run /\ panicked' = panicked
    BY <1>4 DEF Exit
  <2> QED BY <2>1 DEF WhereInv, Stages
<1>5. CASE UNCHANGED vars
  BY <1>5 DEF WhereInv, vars
<1> QED BY <1>1, <1>2, <1>3, <1>4, <1>5 DEF Next

LEMMA ScriptsDefine ==
  /\ UNION Range(Scripts) \subseteq Fns /\ TfScripts \subseteq Fns
  /\ \A k \in 1 .. Len(Scripts) : UNION {Scripts[i] : i \in 1 .. k - 1} \subseteq Fns
<1>1. Len(Scripts) = 8 /\ DOMAIN Scripts = 1 .. 8
  BY DEF Scripts
<1>2. \A i \in 1 .. 8 : Scripts[i] \in Range(Scripts)
  BY <1>1 DEF Range
<1>3. ASSUME NEW k \in 1 .. Len(Scripts) PROVE UNION {Scripts[i] : i \in 1 .. k - 1} \subseteq Fns
  <2> DEFINE S == {Scripts[i] : i \in 1 .. k - 1}
  <2>1. \A i \in 1 .. k - 1 : i \in 1 .. 8
    BY <1>1
  <2>2. S \subseteq Range(Scripts)
    BY <1>2, <2>1
  <2> HIDE DEF S
  <2>3. UNION S \subseteq Fns
    BY <2>2 DEF Fns
  <2> QED BY <2>3 DEF S
<1>4. UNION Range(Scripts) \subseteq Fns /\ TfScripts \subseteq Fns
  BY DEF Fns
<1> QED BY <1>3, <1>4

\* A step that leaves the getters alone.
LEMMA SameGetting ==
  ASSUME GettingInv, UNCHANGED <<queue, at, data, gathered>>, defined' \subseteq Fns,
         \A t \in tasks' : t.store \in {"surreal", "mysql"}
  PROVE  GettingInv'
<1>1. Queued' /\ Positioned'
  BY SameQueue DEF GettingInv
<1> QED BY <1>1 DEF GettingInv, Known

LEMMA GettingInit == Init => GettingInv
<1> SUFFICES ASSUME Init PROVE GettingInv
  OBVIOUS
<1>1. queue = <<>> /\ defined = {} /\ tasks = {} /\ gathered = {} /\ data = NoRows
  BY DEF Init
<1>2. Queued
  BY <1>1, EmptyList DEF Queued
<1> QED BY <1>1, <1>2 DEF GettingInv, Positioned, Known, NoRows

\* The queue of a run: for every site that has a discipline its savers, in any
\* order of the sites.
LEMMA GettingSites ==
  ASSUME GettingInv, WhereInv, ListsInv, query_all_site_with_major
  PROVE  GettingInv'
<1> DEFINE S == DOMAIN majors \intersect DOMAIN Elements
           line(site) == [j \in DOMAIN Savers(majors[site]) |-> <<site, Savers(majors[site])[j]>>]
<1>1. /\ UNCHANGED <<at, data, gathered, tasks, defined>> /\ at = 0 /\ data = NoRows
      /\ \/ queue' = queue
         \/ \E sites \in SetToSeqs(S) : queue' = FlattenSeq([i \in DOMAIN sites |-> line(sites[i])])
  BY DEF query_all_site_with_major, ListsInv
<1>2. IsFiniteSet(S)
  <2>1. IsFiniteSet(DOMAIN Elements)
    BY ListsAssumption DEF WhereInv, Elements
  <2> QED BY <2>1, FS_Subset
<1>3. ASSUME NEW site PROVE IsList(line(site)) /\ \A e \in Range(line(site)) : e[2] \in DOMAIN SaverOf
  <2> DEFINE s == Savers(majors[site])  l == line(site)
  <2>1. IsList(s) /\ \A t \in Range(s) : t \in DOMAIN SaverOf
    BY SaversHaveTables
  <2>2. Len(s) \in Nat /\ DOMAIN s = 1 .. Len(s) /\ \A j \in 1 .. Len(s) : s[j] \in Range(s)
    BY <2>1, ListIs
  <2>3. DOMAIN l = 1 .. Len(s) /\ l = [j \in 1 .. Len(s) |-> l[j]] /\ \A j \in 1 .. Len(s) : l[j][2] = s[j]
    BY <2>2
  <2> HIDE DEF s, l
  <2>4. IsList(l)
    BY <2>2, <2>3, FunctionsAreLists
  <2>5. \A e \in Range(l) : e[2] \in DOMAIN SaverOf
    BY <2>1, <2>2, <2>3 DEF Range
  <2> QED BY <2>4, <2>5 DEF l
<1>4. ASSUME NEW sites \in SetToSeqs(S), queue' = FlattenSeq([i \in DOMAIN sites |-> line(sites[i])])
      PROVE  Queued'
  <2> DEFINE f == [i \in DOMAIN sites |-> line(sites[i])]
  <2>1. IsList(sites)
    BY <1>2, AnyOrder
  <2>2. f = [i \in DOMAIN sites |-> f[i]] /\ queue' = FlattenSeq(f)
    BY <1>4
  <2>3. \A i \in DOMAIN sites : IsList(f[i]) /\ \A e \in Range(f[i]) : e[2] \in DOMAIN SaverOf
    BY <1>3
  <2> HIDE DEF f
  <2>4. IsList(FlattenSeq(f)) /\ \A e \in Range(FlattenSeq(f)) : \E i \in DOMAIN sites : e \in Range(f[i])
    BY <2>1, <2>2, <2>3, EachList
  <2> QED BY <2>2, <2>3, <2>4 DEF Queued
<1> HIDE DEF line
<1>5. Queued'
  BY <1>1, <1>4 DEF GettingInv, Queued
<1>6. queue' # <<>> => at' \in 0 .. (Len(Getter.queries)') + 1
  <2> SUFFICES ASSUME queue' # <<>> PROVE at' \in 0 .. (Len(Getter.queries)') + 1
    OBVIOUS
  <2>1. Len(Getter.queries)' \in Nat
    BY <1>5, HeadGetterNext
  <2> DEFINE n == Len(Getter.queries)'
  <2>2. n \in Nat
    BY <2>1
  <2> HIDE DEF n
  <2>3. at' \in 0 .. n + 1
    BY <1>1, <2>2
  <2> QED BY <2>3 DEF n
<1> QED BY <1>1, <1>5, <1>6 DEF GettingInv, Positioned, Known

LEMMA GettingDefines ==
  ASSUME GettingInv, define_material_surreal_funtions \/ define_tf_surreal_functions
  PROVE  GettingInv'
<1>1. UNCHANGED <<queue, at, data, gathered, tasks>>
  BY DEF define_material_surreal_funtions, define_tf_surreal_functions
<1>2. defined' \subseteq Fns
  <2>1. CASE define_tf_surreal_functions
    BY <2>1, ScriptsDefine DEF define_tf_surreal_functions, GettingInv
  <2>2. CASE define_material_surreal_funtions
    <3>1. CASE defined' = defined \union UNION Range(Scripts)
      BY <3>1, ScriptsDefine DEF GettingInv
    <3>2. ASSUME NEW k \in 1 .. Len(Scripts), defined' = defined \union UNION {Scripts[i] : i \in 1 .. k - 1}
          PROVE  defined' \subseteq Fns
      <4> DEFINE U == UNION {Scripts[i] : i \in 1 .. k - 1}
      <4>1. U \subseteq Fns
        BY ScriptsDefine
      <4> HIDE DEF U
      <4>2. defined' = defined \union U
        BY <3>2 DEF U
      <4> QED BY <4>1, <4>2 DEF GettingInv
    <3> QED BY <2>2, <3>1, <3>2 DEF define_material_surreal_funtions
  <2> QED BY <2>1, <2>2
<1> QED BY <1>1, <1>2, SameGetting DEF GettingInv

\* A getter moves on by one query, and what it collects is defined.
LEMMA GettingGather ==
  ASSUME GettingInv, ListsInv, Gather
  PROVE  GettingInv'
<1>1. UNCHANGED <<defined, tasks, gathered>> /\ queue # <<>> /\ Saving
  BY DEF Gather, EnterGetter, Query, Overlook, GiveUp, Saving
<1>2. Len(Getter.queries) \in Nat /\ at \in 0 .. Len(Getter.queries) + 1
  BY <1>1, HeadGetter DEF GettingInv, Positioned
<1>3. CASE NextSaver
  BY <1>1, <1>3, NextIsPositioned DEF GettingInv
<1>4. CASE ~NextSaver
  <2> DEFINE n == Len(Getter.queries)  q == Getter.queries[at]
  <2>1. /\ queue' = queue
        /\ at' \in {1, n + 1} \/ (at \in 1 .. n /\ at' = at + 1)
        /\ \/ data' = data \/ \E fns : data' = [data EXCEPT !.unseen = fns]
           \/ q.fn \in defined /\ data' = [data EXCEPT ![q.list] = data[q.list] \union {q.fn}]
    BY <1>4 DEF Gather, EnterGetter, Query, Overlook, GiveUp
  <2>2. Getter' = Getter
    BY <2>1 DEF Getter
  <2> HIDE DEF q
  <2>3. Queued' /\ Positioned'
    BY <1>2, <2>1, <2>2 DEF GettingInv, Queued, Positioned
  <2>4. Known(data)'
    <3>1. CASE data' = data
      BY <3>1 DEF GettingInv, Known
    <3>3. CASE \E fns : data' = [data EXCEPT !.unseen = fns]
      BY <3>3 DEF GettingInv, Known, ListsInv
    <3>2. CASE q.fn \in defined /\ data' = [data EXCEPT ![q.list] = data[q.list] \union {q.fn}]
      <4>1. data'.main \subseteq data.main \union {q.fn} /\ data'.tubi \subseteq data.tubi \union {q.fn}
        BY <3>2 DEF ListsInv
      <4> QED BY <3>2, <4>1 DEF GettingInv, Known
    <3> QED BY <2>1, <3>1, <3>2, <3>3
  <2> QED BY <1>1, <2>3, <2>4 DEF GettingInv
<1> QED BY <1>3, <1>4

LEMMA GettingSpawn ==
  ASSUME GettingInv, Spawn
  PROVE  GettingInv'
<1>1. defined' = defined /\ NextSaver /\ queue # <<>>
  BY DEF Spawn, Saving
<1>2. PICK saver \in AllSavers :
        /\ \/ UNCHANGED tasks
           \/ tasks' = tasks \union SurrealTasks(saver, TRUE) \union {MysqlTask(saver)}
           \/ tasks' = tasks \union SurrealTasks(saver, ~saver.dropsHandles)
        /\ \/ gathered' = gathered \union {Gathered(saver, FALSE, FALSE)}
           \/ gathered' = gathered \union {Gathered(saver, TRUE, FALSE)}
           \/ gathered' = gathered \union {Gathered(saver, FALSE, saver.dropsHandles)}
  BY DEF Spawn
<1>3. \A held : \A t \in SurrealTasks(saver, held) : t.store = "surreal"
  BY DEF SurrealTasks, Task
<1>4. MysqlTask(saver).store = "mysql"
  BY DEF MysqlTask, Task
<1>5. \A t \in tasks' : t.store \in {"surreal", "mysql"}
  BY <1>2, <1>3, <1>4 DEF GettingInv
<1>6. PICK new : gathered' = gathered \union {new} /\ new.data = data
  <2>1. /\ Gathered(saver, FALSE, FALSE).data = data /\ Gathered(saver, TRUE, FALSE).data = data
        /\ Gathered(saver, FALSE, saver.dropsHandles).data = data
    BY DEF Gathered
  <2> QED BY <1>2, <2>1, Zenon
<1>7. \A g \in gathered' : g \in gathered \/ g.data = data
  BY <1>6
<1>8. \A g \in gathered' : Known(g.data)
  BY <1>7 DEF GettingInv, Known
<1>9. Queued' /\ Positioned' /\ Known(data)'
  BY <1>1, NextIsPositioned DEF GettingInv
<1> QED BY <1>1, <1>5, <1>8, <1>9 DEF GettingInv, Known

LEMMA GettingTasks ==
  ASSUME GettingInv, DeliveryInv, TaskStep
  PROVE  GettingInv'
<1>1. UNCHANGED <<queue, at, data, gathered, defined>>
  BY DEF TaskStep
<1>2. PICK t \in tasks : tasks' = Step(t) \/ tasks' = tasks \ {t}
  BY DEF TaskStep, InsertRows, InsertMysql
<1>3. DOMAIN t = TaskFields
  BY DEF DeliveryInv, TasksOf
<1>4. [t EXCEPT !.todo = Tail(@)].store = t.store
  BY <1>3 DEF TaskFields
<1>5. \A u \in tasks' : u \in tasks \/ u.store = t.store
  BY <1>2, <1>4 DEF Step
<1> QED BY <1>1, <1>5, SameGetting DEF GettingInv

LEMMA GettingStep == GettingInv /\ WhereInv /\ ListsInv /\ DeliveryInv /\ [Next]_vars => GettingInv'
<1> SUFFICES ASSUME GettingInv, WhereInv, ListsInv, DeliveryInv, [Next]_vars
             PROVE  GettingInv'
  OBVIOUS
<1>1. CASE MaterialJob
  <2>1. CASE gen_pdms_major_table \/ Join \/ Return
    BY <2>1, SameGetting DEF gen_pdms_major_table, Join, Return, GettingInv
  <2>2. CASE SearchPanics
    <3>1. /\ queue' = <<>> /\ data' = NoRows /\ UNCHANGED <<defined, tasks, gathered>>
      BY <2>2 DEF SearchPanics
    <3>2. Queued'
      BY <3>1, EmptyList DEF Queued
    <3> QED BY <3>1, <3>2 DEF GettingInv, Positioned, Known, NoRows
  <2> QED BY <1>1, <2>1, <2>2, GettingDefines, GettingSites, GettingGather, GettingSpawn DEF MaterialJob, SaveAll
<1>2. CASE Tasks
  BY <1>2, GettingTasks DEF Tasks
<1>3. CASE PbsJob
  BY <1>3, SameGetting DEF PbsJob, GettingInv
<1>4. CASE Again
  BY <1>4, SameGetting DEF Again, GettingInv
<1>5. CASE Exit
  BY <1>5, SameGetting DEF Exit, GettingInv
<1>6. CASE UNCHANGED vars
  BY <1>6, SameGetting DEF vars, GettingInv
<1> QED BY <1>1, <1>2, <1>3, <1>4, <1>5, <1>6 DEF Next

\* At every step the variables of both jobs have their types: a getter is
\* within its queries, a saver that is queued exists, a task has something left
\* to insert and a store to insert it into, a row that was collected comes from
\* a function that the scripts define, the disciplines are those of sites and
\* zones of the project, and the zones and rooms of the tree are the project's.
THEOREM TypesAlwaysHold == Spec => []TypeOK
<1>1. WhereInv /\ GettingInv /\ ListsInv /\ DeliveryInv /\ TreeInv => TypeOK
  <2> SUFFICES ASSUME WhereInv, GettingInv, ListsInv, DeliveryInv, TreeInv PROVE TypeOK
    OBVIOUS
  <2>1. \A t \in tasks : t.todo # <<>> /\ t.store \in {"surreal", "mysql"}
    BY DEF DeliveryInv, TasksOf, GettingInv
  <2>2. \A g \in gathered : g.data.main \union g.data.tubi \subseteq (UNION Range(Scripts)) \union TfScripts
    BY DEF GettingInv, Known, Fns
  <2>3. \A x \in DOMAIN majors : x \in DOMAIN Elements \union UNION {DOMAIN Elements[s].zones : s \in DOMAIN Elements}
    BY DEF WhereInv, Places, Elements
  <2>4. MaterialTypeOK
    BY <2>1, <2>2, <2>3 DEF MaterialTypeOK, WhereInv, GettingInv, Positioned, ListsInv
  <2>5. \A z \in Range(zones) : z[1] \in DOMAIN project.parts /\ z[2] \in {"BRAN", "EQUI", "SUPP"}
    BY DEF TreeInv, ZonesAre, Kinds
  <2>6. DOMAIN rooms \subseteq DOMAIN project.rooms
    BY DEF TreeInv, RoomsAre, Factories
  <2> QED BY <2>4, <2>5, <2>6 DEF TypeOK, WhereInv, Stages, TreeInv, BatchIs
<1>2. Spec => []WhereInv
  BY WhereInit, WhereStep, PTL DEF Spec
<1>3. Spec => []ListsInv
  BY ListsInit, ListsStep, PTL DEF Spec
<1>4. Spec => []DeliveryInv
  BY <1>3, DeliveryInit, DeliveryStep, PTL DEF Spec
<1>5. Spec => []GettingInv
  BY <1>2, <1>3, <1>4, GettingInit, GettingStep, PTL DEF Spec
<1> QED BY <1>1, <1>2, <1>3, <1>4, <1>5, TreeAlways, PTL

=============================================================================
