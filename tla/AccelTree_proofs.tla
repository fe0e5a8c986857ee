--------------------------- MODULE AccelTree_proofs ---------------------------
(***************************************************************************)
(* What holds of the spatial tree for every set of elements, boxes, meshes, *)
(* tasks and files: its type, that the derived index is never wrong without *)
(* being known to be stale, that cached meshes are current, that the tree   *)
(* with its index and files implements the store of BoxStore, and that the  *)
(* nearest hit of a ray wins.                                               *)
(***************************************************************************)
EXTENDS AccelTree, FiniteSetTheorems, WellFoundedInduction, TLAPS

-----------------------------------------------------------------------------
(* Sizes and projections of sets of leaves *)

LEMMA LeavesFinite == \A S \in SUBSET Leaves : IsFiniteSet(S)
<1>1. IsFiniteSet(Leaves)
  BY TreeAssumption, FS_Product DEF Leaves
<1> QED
  BY <1>1, FS_Subset

LEMMA SizeType == \A S \in SUBSET Leaves : Cardinality(S) \in Nat
BY LeavesFinite, FS_CardinalityType

LEMMA SizeZero == \A S \in SUBSET Leaves : Cardinality(S) = 0 => S = {}
BY LeavesFinite, FS_EmptySet

LEMMA UnderType == \A S : Under(S) \in [Refnos -> SUBSET Boxes]
BY DEF Under, BoxesOf

LEMMA UnderNothing == Under({}) = NoBoxes
BY DEF Under, BoxesOf, NoBoxes

\* The index a write works with: healed if it was known to be stale.
LEMMA HealedType ==
  ASSUME TypeOK
  PROVE  ensure_refno_index \in [Refnos -> SUBSET Boxes]
BY UnderType DEF ensure_refno_index, TypeOK

-----------------------------------------------------------------------------
(* Type correctness *)

LEMMA IdleType == Idle \in TaskStates
BY DEF Idle, TaskStates

LEMMA InitType == Init => TypeOK
<1> SUFFICES ASSUME Init PROVE TypeOK
  OBVIOUS
<1>1. task \in [Tasks -> TaskStates]
  BY IdleType DEF Init
<1>2. disk \in Disks
  <2>1. PICK file \in SUBSET Inodes, before \in SUBSET Leaves : \E bytes \in {Torn, Whole(before)} :
          disk = [content |-> [j \in Inodes |-> IF j \in file THEN bytes ELSE Torn],
                  file |-> file, tmp |-> {}]
    BY DEF Init
  <2>2. {Torn, Whole(before)} \subseteq [readable : BOOLEAN, leaves : SUBSET Leaves]
    BY DEF Torn, Whole
  <2> QED
    BY <2>1, <2>2 DEF Disks
<1>3. did \in Dids
  BY DEF Init, Dids, NoBoxes
<1> QED
  BY <1>1, <1>2, <1>3 DEF Init, TypeOK, NoBoxes, NoMeshes, usize_MAX

LEMMA WriterType == TypeOK /\ Writer => TypeOK'
<1> SUFFICES ASSUME TypeOK, Writer PROVE TypeOK'
  OBVIOUS
<1> USE DEF TypeOK
<1>1. ASSUME NEW input \in SUBSET Leaves, sync_refnos(input) PROVE TypeOK'
  <2> DEFINE index == ensure_refno_index
             named == {l[1] : l \in input}
  <2>1. index \in [Refnos -> SUBSET Boxes]
    BY HealedType
  <2>2. /\ tree' \subseteq Leaves
        /\ refno_index' = [r \in Refnos |-> IF r \in named THEN BoxesOf(input, r) ELSE index[r]]
        /\ indexed_tree_len' = Cardinality(tree')
        /\ mesh_cache' = [k \in Keys |-> IF k[1] \in named THEN {} ELSE mesh_cache[k]]
        /\ dirty' = dirty \ named
        /\ did' = [op |-> "refresh", old |-> [r \in Refnos |-> IF r \in named THEN index[r] ELSE {}]]
        /\ UNCHANGED <<task, disk, dbgeom, regenerated>>
    BY <1>1 DEF sync_refnos, evict_meshes
  <2> HIDE DEF index, named
  <2>3. /\ refno_index' \in [Refnos -> SUBSET Boxes]
        /\ did' \in Dids
    BY <2>1, <2>2 DEF BoxesOf, Dids
  <2>4. indexed_tree_len' \in Nat
    BY <2>2, SizeType
  <2>5. mesh_cache' \in [Keys -> SUBSET Meshes] /\ dirty' \subseteq Refnos
    BY <2>2
  <2> QED
    BY <2>2, <2>3, <2>4, <2>5
<1>2. ASSUME NEW refnos \in SUBSET Refnos, remove_by_refnos(refnos) PROVE TypeOK'
  <2> DEFINE index == ensure_refno_index
  <2>1. index \in [Refnos -> SUBSET Boxes]
    BY HealedType
  <2>2. /\ tree' \subseteq Leaves
        /\ refno_index' = [r \in Refnos |-> IF r \in refnos THEN {} ELSE index[r]]
        /\ indexed_tree_len' = Cardinality(tree')
        /\ mesh_cache' = [k \in Keys |-> IF k[1] \in refnos THEN {} ELSE mesh_cache[k]]
        /\ dirty' = dirty \ refnos
        /\ did' = [op |-> "forget", old |-> [r \in Refnos |-> IF r \in refnos THEN index[r] ELSE {}]]
        /\ UNCHANGED <<task, disk, dbgeom, regenerated>>
    BY <1>2 DEF remove_by_refnos, evict_meshes
  <2> HIDE DEF index
  <2>3. /\ refno_index' \in [Refnos -> SUBSET Boxes]
        /\ did' \in Dids
    BY <2>1, <2>2 DEF Dids
  <2>4. indexed_tree_len' \in Nat
    BY <2>2, SizeType
  <2>5. mesh_cache' \in [Keys -> SUBSET Meshes] /\ dirty' \subseteq Refnos
    BY <2>2
  <2> QED
    BY <2>2, <2>3, <2>4, <2>5
<1>3. ASSUME NEW input \in SUBSET Leaves, replace(input) PROVE TypeOK'
  <2>1. did' \in Dids
    BY <1>3 DEF replace, Dids, NoBoxes
  <2>2. indexed_tree_len' \in Nat /\ refno_index' \in [Refnos -> SUBSET Boxes]
    BY <1>3, SizeType, UnderType DEF replace, rebuild_refno_index
  <2> QED
    BY <1>3, <2>1, <2>2 DEF replace
<1>4. ASSUME NEW leaves \in SUBSET Leaves, deref_mut(leaves) PROVE TypeOK'
  <2>1. did' \in Dids
    BY <1>4 DEF deref_mut, Dids, NoBoxes
  <2> QED
    BY <1>4, <2>1 DEF deref_mut
<1>5. ASSUME NEW leaves \in SUBSET Leaves, WriteField(leaves) PROVE TypeOK'
  <2>1. did' \in Dids
    BY <1>5 DEF WriteField, Dids, NoBoxes
  <2> QED
    BY <1>5, <2>1 DEF WriteField
<1> QED
  BY <1>1, <1>2, <1>3, <1>4, <1>5 DEF Writer

LEMMA RegenerateType ==
  ASSUME TypeOK, NEW r \in Refnos, Regenerate(r)
  PROVE  TypeOK'
BY DEF TypeOK, Regenerate, treeVars

LEMMA QueryType ==
  ASSUME TypeOK, NEW t \in Tasks, Query(t)
  PROVE  TypeOK'
<1> USE DEF TypeOK, treeVars
<1>t. task[t] \in TaskStates
  OBVIOUS
<1>1. ASSUME NEW candidates \in SUBSET {l[1] : l \in tree}, query_nearest_by_ray(t, candidates)
      PROVE TypeOK'
  <2>1. candidates \X {0} \subseteq Keys
    BY TreeAssumption DEF Keys, Leaves
  <2>2. [Idle EXCEPT !.at = "query", !.todo = candidates \X {0}] \in TaskStates
    BY <2>1 DEF Idle, TaskStates, Querying
  <2> QED
    BY <1>1, <2>2 DEF query_nearest_by_ray
<1>2. ASSUME NEW key \in Keys, RequestMesh(t, key) PROVE TypeOK'
  <2>1. [Idle EXCEPT !.at = "query", !.todo = {key}] \in TaskStates
    BY DEF Idle, TaskStates, Querying
  <2> QED
    BY <1>2, <2>1 DEF RequestMesh
<1>3. ASSUME Cast(t) PROVE TypeOK'
  <2>1. PICK key \in task[t].todo : \E new \in [seen : SUBSET (task[t].seen \cup (mesh_cache[key] \X {key[1]})),
                                                 best : SUBSET (task[t].best \cup (mesh_cache[key] \X {key[1]}))] :
          task' = [task EXCEPT ![t] = [task[t] EXCEPT
                     !.todo = task[t].todo \ {key}, !.seen = new.seen, !.best = new.best]]
    <3> DEFINE hits(key) == {m \in mesh_cache[key] : m <= Reach}
               nearest(key) == {m \in hits(key) : \A n \in hits(key) : m <= n}
               best(key) == IF nearest(key) # {} /\ \A m \in nearest(key) : Beats(m, key[1], task[t].best)
                            THEN nearest(key) \X {key[1]} ELSE task[t].best
    <3>1. PICK key \in task[t].todo :
            task' = [task EXCEPT ![t] = [task[t] EXCEPT
                       !.todo = task[t].todo \ {key}, !.seen = task[t].seen \cup (hits(key) \X {key[1]}),
                       !.best = best(key)]]
      BY <1>3 DEF Cast
    <3>2. hits(key) \X {key[1]} \subseteq mesh_cache[key] \X {key[1]}
      OBVIOUS
    <3>3. best(key) \subseteq task[t].best \cup (mesh_cache[key] \X {key[1]})
      OBVIOUS
    <3> DEFINE new == [seen |-> task[t].seen \cup (hits(key) \X {key[1]}), best |-> best(key)]
    <3> HIDE DEF hits, best
    <3>4. /\ new.seen = task[t].seen \cup (hits(key) \X {key[1]})
          /\ new.best = best(key)
      OBVIOUS
    <3>5. new \in [seen : SUBSET (task[t].seen \cup (mesh_cache[key] \X {key[1]})),
                   best : SUBSET (task[t].best \cup (mesh_cache[key] \X {key[1]}))]
      BY <3>2, <3>3
    <3> HIDE DEF new
    <3> QED
      BY <3>1, <3>4, <3>5
  <2>2. key \in Keys
    BY <1>t DEF TaskStates
  <2>3. (mesh_cache[key] \X {key[1]}) \subseteq Meshes \X Refnos
    BY <2>2 DEF Keys
  <2>4. PICK seen \in SUBSET (Meshes \X Refnos), best \in SUBSET (Meshes \X Refnos) :
          task' = [task EXCEPT ![t] = [task[t] EXCEPT
                     !.todo = task[t].todo \ {key}, !.seen = seen, !.best = best]]
    BY <1>t, <2>1, <2>3 DEF TaskStates
  <2> DEFINE next == [task[t] EXCEPT !.todo = task[t].todo \ {key}, !.seen = seen, !.best = best]
  <2>5. next \in TaskStates
    BY <1>t DEF TaskStates
  <2>6. task' = [task EXCEPT ![t] = next]
    BY <2>4
  <2> HIDE DEF next
  <2>7. task' \in [Tasks -> TaskStates]
    BY <2>5, <2>6
  <2> QED
    BY <1>3, <2>7 DEF Cast
<1>4. ASSUME get_tri_mesh_read(t) PROVE TypeOK'
  <2>1. PICK key \in task[t].todo : \E read \in SUBSET dbgeom[key[1]] :
          task' = [task EXCEPT ![t] = [task[t] EXCEPT !.at = "fetched", !.meshes = read]]
    BY <1>4 DEF get_tri_mesh_read
  <2>2. key \in Keys /\ key[1] \in Refnos
    BY <1>t DEF TaskStates, Keys
  <2>3. PICK read \in SUBSET Meshes :
          task' = [task EXCEPT ![t] = [task[t] EXCEPT !.at = "fetched", !.meshes = read]]
    BY <2>1, <2>2
  <2> DEFINE next == [task[t] EXCEPT !.at = "fetched", !.meshes = read]
  <2>4. next \in TaskStates
    BY <1>t DEF TaskStates, Querying
  <2>n. task' = [task EXCEPT ![t] = next]
    BY <2>3
  <2> HIDE DEF next
  <2>5. task' \in [Tasks -> TaskStates]
    BY <2>n, <2>4
  <2> QED
    BY <1>4, <2>5 DEF get_tri_mesh_read
<1>5. ASSUME get_tri_mesh_store(t) PROVE TypeOK'
  <2>1. PICK key \in task[t].todo :
          /\ mesh_cache' = IF task[t].meshes = {} THEN mesh_cache
                           ELSE [mesh_cache EXCEPT ![key] = task[t].meshes]
          /\ task' = [task EXCEPT ![t] = [task[t] EXCEPT !.at = "query", !.meshes = {},
                        !.todo = IF task[t].meshes = {} THEN task[t].todo \ {key} ELSE task[t].todo]]
    BY <1>5 DEF get_tri_mesh_store
  <2> DEFINE next == [task[t] EXCEPT !.at = "query", !.meshes = {},
                        !.todo = IF task[t].meshes = {} THEN task[t].todo \ {key} ELSE task[t].todo]
  <2>n. next \in TaskStates
    BY <1>t DEF TaskStates, Querying
  <2>2. task' \in [Tasks -> TaskStates]
    BY <2>n, <2>1
  <2>3. mesh_cache' \in [Keys -> SUBSET Meshes]
    BY <1>t, <2>1 DEF TaskStates
  <2> QED
    BY <1>5, <2>2, <2>3 DEF get_tri_mesh_store
<1>6. ASSUME Answer(t) PROVE TypeOK'
  BY <1>6, IdleType DEF Answer, Release
<1> QED
  BY <1>1, <1>2, <1>3, <1>4, <1>5, <1>6 DEF Query

LEMMA ReadType ==
  ASSUME TypeOK, NEW paths \in SUBSET Inodes
  PROVE  Read(paths) \subseteq Leaves
<1>1. \A i \in paths : disk.content[i].leaves \subseteq Leaves
  BY DEF TypeOK, Disks
<1> QED
  BY <1>1 DEF Read

LEMMA FileType ==
  ASSUME TypeOK, NEW t \in Tasks, File(t)
  PROVE  TypeOK'
<1> USE DEF TypeOK, treeVars, TreeUnchanged
<1>t. task[t] \in TaskStates
  OBVIOUS
<1>1. CASE serialize_create(t)
  <2>1. PICK i \in Inodes :
          /\ disk' = [disk EXCEPT !.content[i] = Torn, !.tmp = {i}]
          /\ task' = [task EXCEPT ![t] = [Idle EXCEPT !.at = "created", !.bytes = tree, !.fd = {i}]]
    BY <1>1 DEF serialize_create
  <2>2. [Idle EXCEPT !.at = "created", !.bytes = tree, !.fd = {i}] \in TaskStates
    BY DEF Idle, TaskStates, Saving
  <2>3. disk' \in Disks
    BY <2>1 DEF Disks, Torn
  <2> QED
    BY <1>1, <2>1, <2>2, <2>3 DEF serialize_create
<1>2. CASE serialize_write(t)
  <2>1. disk' \in Disks
    BY <1>2, <1>t DEF serialize_write, Disks, Whole, TaskStates
  <2>2. task' \in [Tasks -> TaskStates]
    BY <1>2, <1>t DEF serialize_write, Move, TaskStates, Saving
  <2> QED
    BY <1>2, <2>1, <2>2 DEF serialize_write
<1>3. CASE serialize_rename(t)
  <2>1. disk' \in Disks
    BY <1>3 DEF serialize_rename, Disks
  <2>2. did' \in Dids
    BY <1>3 DEF serialize_rename, Dids, NoBoxes
  <2> QED
    BY <1>3, <2>1, <2>2, IdleType DEF serialize_rename, Release
<1>4. CASE serialize_fails(t)
  BY <1>4, IdleType DEF serialize_fails, Release
<1>5. CASE load_check(t)
  <2>1. task' \in [Tasks -> TaskStates]
    BY <1>5, <1>t DEF load_check, Move, TaskStates, Loading
  <2> QED
    BY <1>5, <2>1 DEF load_check
<1>6. CASE load_read(t)
  <2>1. Read(disk.file) \subseteq Leaves
    BY ReadType DEF Disks
  <2>2. task' \in [Tasks -> TaskStates]
    BY <1>6, <1>t, <2>1 DEF load_read, TaskStates, Loading
  <2> QED
    BY <1>6, <2>2 DEF load_read
<1>7. CASE load_store(t)
  <2>1. task[t].bytes \subseteq Leaves
    BY <1>t DEF TaskStates
  <2>2. refno_index' \in [Refnos -> SUBSET Boxes] /\ indexed_tree_len' \in Nat
    BY <1>7, <2>1, SizeType, UnderType DEF load_store, rebuild_refno_index
  <2>3. did' \in Dids
    BY <1>7 DEF load_store, Dids, NoBoxes
  <2> QED
    BY <1>7, <2>1, <2>2, <2>3, IdleType DEF load_store, Release, Reset, NoMeshes
<1> QED
  BY <1>1, <1>2, <1>3, <1>4, <1>5, <1>6, <1>7 DEF File

LEMMA RestartType == TypeOK /\ (SnapshotRestore \/ Crash) => TypeOK'
<1> SUFFICES ASSUME TypeOK, SnapshotRestore \/ Crash PROVE TypeOK'
  OBVIOUS
<1> USE DEF TypeOK
<1>1. CASE SnapshotRestore
  <2>1. Read(disk.file) \subseteq Leaves
    BY ReadType DEF Disks
  <2>2. did' \in Dids
    BY <1>1 DEF SnapshotRestore, Dids, NoBoxes
  <2> QED
    BY <1>1, <2>1, <2>2 DEF SnapshotRestore, Reset, NoMeshes, NoBoxes
<1>2. CASE Crash
  <2>1. did' \in Dids
    BY <1>2 DEF Crash, Dids, NoBoxes
  <2> QED
    BY <1>2, <2>1, IdleType DEF Crash, Reset, NoMeshes, NoBoxes
<1> QED
  BY <1>1, <1>2

LEMMA NextType == TypeOK /\ [Next]_vars => TypeOK'
<1> SUFFICES ASSUME TypeOK, [Next]_vars PROVE TypeOK'
  OBVIOUS
<1>1. CASE UNCHANGED vars
  BY <1>1 DEF TypeOK, vars
<1> QED
  BY <1>1, WriterType, RegenerateType, QueryType, FileType, RestartType DEF Next

\* Every variable of the tree keeps its shape.
THEOREM TypeCorrect == Spec => []TypeOK
BY InitType, NextType, PTL DEF Spec

-----------------------------------------------------------------------------
(* The derived index *)

\* What a write finds through the index is what the tree holds.
LEMMA HealedAgrees == IndexAgrees => ensure_refno_index = Under(tree)
BY DEF IndexAgrees, ensure_refno_index

LEMMA SyncIndex ==
  ASSUME TypeOK, IndexAgrees, NEW input \in SUBSET Leaves, sync_refnos(input)
  PROVE  /\ refno_index' = Under(tree')
         /\ indexed_tree_len' = Cardinality(tree')
<1> DEFINE named == {l[1] : l \in input}
<1>1. ensure_refno_index = Under(tree)
  BY HealedAgrees
<1>2. /\ tree' = (tree \ {l \in Leaves : l[1] \in named /\ l[2] \in Under(tree)[l[1]]}) \cup input
      /\ refno_index' = [r \in Refnos |-> IF r \in named THEN BoxesOf(input, r) ELSE Under(tree)[r]]
      /\ indexed_tree_len' = Cardinality(tree')
  BY <1>1 DEF sync_refnos
<1>3. ASSUME NEW r \in Refnos, NEW b \in Boxes
      PROVE  <<r, b>> \in tree' <=> IF r \in named THEN <<r, b>> \in input ELSE <<r, b>> \in tree
  <2>1. <<r, b>> \in Leaves /\ <<r, b>>[1] = r /\ <<r, b>>[2] = b
    BY DEF Leaves
  <2>2. b \in Under(tree)[r] <=> <<r, b>> \in tree
    BY DEF Under, BoxesOf
  <2>3. <<r, b>> \in input => r \in named
    BY <2>1
  <2> HIDE DEF named
  <2> QED
    BY <1>2, <2>1, <2>2, <2>3
<1> HIDE DEF named
<1>4. ASSUME NEW r \in Refnos
      PROVE  BoxesOf(tree', r) = IF r \in named THEN BoxesOf(input, r) ELSE Under(tree)[r]
  BY <1>3 DEF BoxesOf, Under
<1> QED
  BY <1>2, <1>4 DEF Under

LEMMA RemoveIndex ==
  ASSUME TypeOK, IndexAgrees, NEW refnos \in SUBSET Refnos, remove_by_refnos(refnos)
  PROVE  /\ refno_index' = Under(tree')
         /\ indexed_tree_len' = Cardinality(tree')
<1>1. ensure_refno_index = Under(tree)
  BY HealedAgrees
<1>2. /\ tree' = tree \ {l \in Leaves : l[1] \in refnos /\ l[2] \in Under(tree)[l[1]]}
      /\ refno_index' = [r \in Refnos |-> IF r \in refnos THEN {} ELSE Under(tree)[r]]
      /\ indexed_tree_len' = Cardinality(tree')
  BY <1>1 DEF remove_by_refnos
<1>3. ASSUME NEW r \in Refnos, NEW b \in Boxes
      PROVE  <<r, b>> \in tree' <=> r \notin refnos /\ <<r, b>> \in tree
  <2>1. <<r, b>> \in Leaves /\ <<r, b>>[1] = r /\ <<r, b>>[2] = b
    BY DEF Leaves
  <2>2. b \in Under(tree)[r] <=> <<r, b>> \in tree
    BY DEF Under, BoxesOf
  <2> QED
    BY <1>2, <2>1, <2>2
<1>4. ASSUME NEW r \in Refnos
      PROVE  BoxesOf(tree', r) = IF r \in refnos THEN {} ELSE Under(tree)[r]
  BY <1>3 DEF BoxesOf, Under
<1> QED
  BY <1>2, <1>4 DEF Under

LEMMA InitIndex == Init => IndexAgrees
BY UnderNothing DEF Init, IndexAgrees

\* LengthTells: no write to the field leaves the size the index was built at.
LEMMA NextIndex ==
  ASSUME LengthTells, TypeOK, IndexAgrees, [Next]_vars
  PROVE  IndexAgrees'
<1> USE DEF IndexAgrees, IndexIsFresh, treeVars, TreeUnchanged
<1>t. TypeOK'
  BY NextType
<1>1. ASSUME NEW input \in SUBSET Leaves, sync_refnos(input) PROVE IndexAgrees'
  BY <1>1, SyncIndex
<1>2. ASSUME NEW refnos \in SUBSET Refnos, remove_by_refnos(refnos) PROVE IndexAgrees'
  BY <1>2, RemoveIndex
<1>3. ASSUME NEW input \in SUBSET Leaves, replace(input) PROVE IndexAgrees'
  BY <1>3 DEF replace, rebuild_refno_index
<1>4. ASSUME NEW leaves \in SUBSET Leaves, deref_mut(leaves) PROVE IndexAgrees'
  <2>1. Cardinality(leaves) # usize_MAX
    BY SizeType DEF usize_MAX
  <2> QED
    BY <1>4, <2>1 DEF deref_mut
<1>5. ASSUME NEW leaves \in SUBSET Leaves, WriteField(leaves) PROVE IndexAgrees'
  BY <1>5 DEF WriteField
<1>6. CASE SnapshotRestore
  <2>1. tree' \in SUBSET Leaves
    BY <1>t DEF TypeOK
  <2>2. Cardinality(tree') = 0 => tree' = {}
    BY <2>1, SizeZero
  <2> QED
    BY <1>6, <2>2, UnderNothing DEF SnapshotRestore
<1>7. CASE Crash
  BY <1>7, UnderNothing DEF Crash
<1>8. ASSUME NEW t \in Tasks, load_store(t) PROVE IndexAgrees'
  BY <1>8 DEF load_store, rebuild_refno_index
<1>9. CASE UNCHANGED treeVars
  BY <1>9
<1>10. ASSUME NEW t \in Tasks, Query(t) \/ File(t), ~load_store(t) PROVE UNCHANGED treeVars
  BY <1>10 DEF Query, File, query_nearest_by_ray, RequestMesh, Cast, get_tri_mesh_read,
     get_tri_mesh_store, Answer, serialize_create, serialize_write, serialize_rename,
     serialize_fails, load_check, load_read
<1>11. ASSUME NEW r \in Refnos, Regenerate(r) PROVE UNCHANGED treeVars
  BY <1>11 DEF Regenerate
<1>12. CASE UNCHANGED vars
  BY <1>12 DEF vars
<1> QED
  BY <1>1, <1>2, <1>3, <1>4, <1>5, <1>6, <1>7, <1>8, <1>9, <1>10, <1>11, <1>12 DEF Next, Writer

\* If writes to the public field change the tree's size, the index is right
\* whenever it passes for fresh, and so every lookup by element is exact.
THEOREM LookupsAreExact ==
  ASSUME LengthTells
  PROVE  Spec => []EntriesOfExact
<1>1. Init => TypeOK /\ IndexAgrees
  BY InitType, InitIndex
<1>2. (TypeOK /\ IndexAgrees) /\ [Next]_vars => (TypeOK /\ IndexAgrees)'
  BY NextType, NextIndex
<1>3. IndexAgrees => EntriesOfExact
  BY DEF IndexAgrees, EntriesOfExact, entries_of, Under
<1> QED
  BY <1>1, <1>2, <1>3, PTL DEF Spec

-----------------------------------------------------------------------------
(* The mesh cache *)

\* A mesh read and not stored yet is current too, in the same sense.
FetchedCurrent ==
  \A t \in Tasks : \A key \in Keys :
    (At(t, {"fetched"}) /\ Turn(t, key) /\ key[1] \notin dirty)
      => task[t].meshes \subseteq dbgeom[key[1]]

MeshInv == MeshesCurrent /\ FetchedCurrent

LEMMA TurnUnique ==
  ASSUME NEW t \in Tasks, task[t].todo \subseteq Keys,
         NEW k, NEW l, Turn(t, k), Turn(t, l)
  PROVE  k = l
<1>1. k \in Keys /\ l \in Keys /\ Before(k, l) /\ Before(l, k)
  BY DEF Turn
<1>2. k = <<k[1], k[2]>> /\ l = <<l[1], l[2]>>
  BY <1>1 DEF Keys
<1>3. k[1] \in Refnos /\ k[2] \in Sesnos /\ l[1] \in Refnos /\ l[2] \in Sesnos
  BY <1>1 DEF Keys
<1>4. k[1] \in Nat /\ k[2] \in Nat /\ l[1] \in Nat /\ l[2] \in Nat
  BY <1>3, TreeAssumption
<1>5. k[1] = l[1] /\ k[2] = l[2]
  BY <1>1, <1>4 DEF Before
<1> QED
  BY <1>2, <1>5

LEMMA InitMesh == Init => MeshInv
<1> SUFFICES ASSUME Init PROVE MeshInv
  OBVIOUS
<1>1. MeshesCurrent
  BY DEF Init, MeshesCurrent, NoMeshes
<1>2. FetchedCurrent
  BY DEF Init, FetchedCurrent, At, Idle
<1> QED
  BY <1>1, <1>2 DEF MeshInv

\* A write evicts what it refreshes, and no query is under way meanwhile.
LEMMA EvictMesh ==
  ASSUME MeshInv, Writable, NEW refnos \in SUBSET Refnos, evict_meshes(refnos),
         UNCHANGED <<task, dbgeom>>
  PROVE  MeshInv'
<1>1. MeshesCurrent'
  BY DEF MeshInv, MeshesCurrent, evict_meshes, Keys
<1>2. FetchedCurrent'
  BY DEF FetchedCurrent, Writable, At, Querying, Turn
<1> QED
  BY <1>1, <1>2 DEF MeshInv

LEMMA ResetMesh ==
  ASSUME Reset, UNCHANGED dbgeom,
         \A t \in Tasks : task'[t].at # "fetched"
  PROVE  MeshInv'
<1>1. MeshesCurrent'
  BY DEF MeshesCurrent, Reset, NoMeshes
<1>2. FetchedCurrent'
  BY DEF FetchedCurrent, At
<1> QED
  BY <1>1, <1>2 DEF MeshInv

LEMMA WriterMesh ==
  ASSUME TypeOK, MeshInv, Writer
  PROVE  MeshInv'
<1>1. ASSUME NEW input \in SUBSET Leaves, sync_refnos(input) PROVE MeshInv'
  <2> DEFINE named == {l[1] : l \in input}
  <2>1. named \subseteq Refnos
    BY DEF Leaves
  <2>2. Writable /\ evict_meshes(named) /\ UNCHANGED <<task, dbgeom>>
    BY <1>1 DEF sync_refnos, MayWrite
  <2> HIDE DEF named
  <2> QED
    BY <2>1, <2>2, EvictMesh
<1>2. ASSUME NEW refnos \in SUBSET Refnos, remove_by_refnos(refnos) PROVE MeshInv'
  BY <1>2, EvictMesh DEF remove_by_refnos, MayWrite
<1>3. ASSUME UNCHANGED <<mesh_cache, task, dbgeom, dirty>> PROVE MeshInv'
  BY <1>3 DEF MeshInv, MeshesCurrent, FetchedCurrent, At, Turn
<1> QED
  BY <1>1, <1>2, <1>3 DEF Writer, replace, deref_mut, WriteField

LEMMA RegenerateMesh ==
  ASSUME TypeOK, MeshInv, NEW r \in Refnos, Regenerate(r)
  PROVE  MeshInv'
<1>1. /\ \A s \in Refnos : s \notin dirty' => s \notin dirty /\ dbgeom'[s] = dbgeom[s]
      /\ UNCHANGED <<mesh_cache, task>>
  BY DEF Regenerate, TypeOK
<1>2. \A k \in Keys : k[1] \in Refnos
  BY DEF Keys
<1>3. MeshesCurrent'
  BY <1>1, <1>2 DEF MeshInv, MeshesCurrent
<1>4. FetchedCurrent'
  BY <1>1, <1>2 DEF MeshInv, FetchedCurrent, At, Turn
<1> QED
  BY <1>3, <1>4 DEF MeshInv

\* A step of one task that neither fetches nor stores.
LEMMA OtherMesh ==
  ASSUME TypeOK, MeshInv, NEW t \in Tasks,
         UNCHANGED <<mesh_cache, dbgeom, dirty>>,
         task'[t].at # "fetched", \A u \in Tasks \ {t} : task'[u] = task[u]
  PROVE  MeshInv'
<1>1. FetchedCurrent'
  BY DEF MeshInv, FetchedCurrent, At, Turn
<1> QED
  BY <1>1 DEF MeshInv, MeshesCurrent

LEMMA QueryMesh ==
  ASSUME TypeOK, MeshInv, NEW t \in Tasks, Query(t)
  PROVE  MeshInv'
<1>t. task[t] \in TaskStates
  BY DEF TypeOK
<1>1. ASSUME NEW candidates, query_nearest_by_ray(t, candidates) PROVE MeshInv'
  <2>1. task'[t].at # "fetched" /\ \A u \in Tasks \ {t} : task'[u] = task[u]
    BY <1>1 DEF query_nearest_by_ray, Idle, TypeOK
  <2> QED
    BY <1>1, <2>1, OtherMesh DEF query_nearest_by_ray
<1>2. ASSUME NEW key \in Keys, RequestMesh(t, key) PROVE MeshInv'
  <2>1. task'[t].at # "fetched" /\ \A u \in Tasks \ {t} : task'[u] = task[u]
    BY <1>2 DEF RequestMesh, Idle, TypeOK
  <2> QED
    BY <1>2, <2>1, OtherMesh DEF RequestMesh
<1>3. CASE Cast(t)
  <2>1. task'[t].at = task[t].at /\ \A u \in Tasks \ {t} : task'[u] = task[u]
    BY <1>3, <1>t DEF Cast, TypeOK, TaskStates
  <2>2. task'[t].at # "fetched"
    BY <1>3, <2>1 DEF Cast, At
  <2> QED
    BY <1>3, <2>1, <2>2, OtherMesh DEF Cast
<1>4. CASE get_tri_mesh_read(t)
  <2>1. PICK key \in task[t].todo : \E read \in SUBSET dbgeom[key[1]] :
          Turn(t, key) /\ task' = [task EXCEPT ![t] = [task[t] EXCEPT !.at = "fetched", !.meshes = read]]
    BY <1>4 DEF get_tri_mesh_read
  <2>2. PICK read \in SUBSET dbgeom[key[1]] :
          task' = [task EXCEPT ![t] = [task[t] EXCEPT !.at = "fetched", !.meshes = read]]
    BY <2>1
  <2>3. /\ task'[t].meshes = read
        /\ task'[t].todo = task[t].todo
        /\ \A u \in Tasks \ {t} : task'[u] = task[u]
    BY <2>2, <1>t DEF TypeOK, TaskStates
  <2>4. UNCHANGED <<mesh_cache, dbgeom, dirty>>
    BY <1>4 DEF get_tri_mesh_read
  <2>5. ASSUME NEW u \in Tasks, NEW k \in Keys, At(u, {"fetched"})', Turn(u, k)', k[1] \notin dirty'
        PROVE  task'[u].meshes \subseteq dbgeom'[k[1]]
    <3>1. CASE u = t
      <4>1. Turn(t, k)
        BY <2>3, <2>5, <3>1 DEF Turn
      <4>2. k = key
        BY <4>1, <2>1, <1>t, TurnUnique DEF TaskStates
      <4> QED
        BY <4>2, <2>2, <2>3, <2>4, <3>1
    <3>2. CASE u # t
      BY <3>2, <2>3, <2>4, <2>5 DEF MeshInv, FetchedCurrent, At, Turn
    <3> QED
      BY <3>1, <3>2
  <2>6. FetchedCurrent'
    BY <2>5 DEF FetchedCurrent
  <2> QED
    BY <2>4, <2>6 DEF MeshInv, MeshesCurrent
<1>5. CASE get_tri_mesh_store(t)
  <2>1. PICK key \in task[t].todo :
          /\ Turn(t, key)
          /\ mesh_cache' = IF task[t].meshes = {} THEN mesh_cache
                           ELSE [mesh_cache EXCEPT ![key] = task[t].meshes]
          /\ task' = [task EXCEPT ![t] = [task[t] EXCEPT !.at = "query", !.meshes = {},
                        !.todo = IF task[t].meshes = {} THEN task[t].todo \ {key} ELSE task[t].todo]]
    BY <1>5 DEF get_tri_mesh_store
  <2>2. UNCHANGED <<dbgeom, dirty>> /\ At(t, {"fetched"})
    BY <1>5 DEF get_tri_mesh_store
  <2>3. key \in Keys
    BY <1>t DEF TaskStates
  <2>4. key[1] \notin dirty => task[t].meshes \subseteq dbgeom[key[1]]
    BY <2>1, <2>2, <2>3 DEF MeshInv, FetchedCurrent
  <2>5. \A k \in Keys : mesh_cache'[k] \in {mesh_cache[k], IF k = key THEN task[t].meshes ELSE mesh_cache[k]}
    BY <2>1 DEF TypeOK
  <2>6. MeshesCurrent'
    BY <2>2, <2>4, <2>5 DEF MeshInv, MeshesCurrent
  <2>7. task'[t].at = "query" /\ \A u \in Tasks \ {t} : task'[u] = task[u]
    BY <2>1, <1>t DEF TypeOK, TaskStates
  <2>8. FetchedCurrent'
    BY <2>2, <2>7 DEF MeshInv, FetchedCurrent, At, Turn
  <2> QED
    BY <2>6, <2>8 DEF MeshInv
<1>6. CASE Answer(t)
  <2>1. task'[t].at # "fetched" /\ \A u \in Tasks \ {t} : task'[u] = task[u]
    BY <1>6 DEF Answer, Release, Idle, TypeOK
  <2> QED
    BY <1>6, <2>1, OtherMesh DEF Answer
<1> QED
  BY <1>1, <1>2, <1>3, <1>4, <1>5, <1>6 DEF Query

LEMMA FileMesh ==
  ASSUME TypeOK, MeshInv, NEW t \in Tasks, File(t)
  PROVE  MeshInv'
<1> USE DEF TreeUnchanged
<1>t. task[t] \in TaskStates
  BY DEF TypeOK
<1>1. CASE serialize_create(t)
  <2>1. task'[t].at # "fetched" /\ \A u \in Tasks \ {t} : task'[u] = task[u]
    BY <1>1 DEF serialize_create, Idle, TypeOK
  <2> QED
    BY <1>1, <2>1, OtherMesh DEF serialize_create
<1>2. CASE serialize_write(t) \/ load_check(t)
  <2>1. task'[t].at # "fetched" /\ \A u \in Tasks \ {t} : task'[u] = task[u]
    BY <1>2, <1>t DEF serialize_write, load_check, Move, TypeOK, TaskStates
  <2> QED
    BY <1>2, <2>1, OtherMesh DEF serialize_write, load_check
<1>3. CASE serialize_rename(t) \/ serialize_fails(t)
  <2>1. task'[t].at # "fetched" /\ \A u \in Tasks \ {t} : task'[u] = task[u]
    BY <1>3 DEF serialize_rename, serialize_fails, Release, Idle, TypeOK
  <2> QED
    BY <1>3, <2>1, OtherMesh DEF serialize_rename, serialize_fails
<1>4. CASE load_read(t)
  <2>1. task'[t].at # "fetched" /\ \A u \in Tasks \ {t} : task'[u] = task[u]
    BY <1>4, <1>t DEF load_read, TypeOK, TaskStates
  <2> QED
    BY <1>4, <2>1, OtherMesh DEF load_read
<1>5. CASE load_store(t)
  <2>1. \A u \in Tasks : task'[u].at # "fetched"
    BY <1>5 DEF load_store, Writable, At, Querying, Release, Idle, TypeOK
  <2> QED
    BY <1>5, <2>1, ResetMesh DEF load_store
<1> QED
  BY <1>1, <1>2, <1>3, <1>4, <1>5 DEF File

LEMMA RestartMesh ==
  ASSUME TypeOK, MeshInv, SnapshotRestore \/ Crash
  PROVE  MeshInv'
<1>1. \A u \in Tasks : task'[u].at # "fetched"
  BY DEF SnapshotRestore, Crash, MayWrite, Writable, At, Querying, Idle
<1>2. Reset /\ UNCHANGED dbgeom
  BY DEF SnapshotRestore, Crash
<1> QED
  BY <1>1, <1>2, ResetMesh

LEMMA NextMesh == TypeOK /\ MeshInv /\ [Next]_vars => MeshInv'
<1> SUFFICES ASSUME TypeOK, MeshInv, [Next]_vars PROVE MeshInv'
  OBVIOUS
<1>1. CASE UNCHANGED vars
  BY <1>1 DEF MeshInv, MeshesCurrent, FetchedCurrent, At, Turn, vars
<1> QED
  BY <1>1, WriterMesh, RegenerateMesh, QueryMesh, FileMesh, RestartMesh DEF Next

\* With no assumption on the callers: after an element was synced or removed,
\* no query meets a mesh read from the geometry it had before.
THEOREM CachedMeshesAreCurrent == Spec => []MeshesCurrent
<1>1. Init => TypeOK /\ MeshInv
  BY InitType, InitMesh
<1>2. (TypeOK /\ MeshInv) /\ [Next]_vars => (TypeOK /\ MeshInv)'
  BY NextType, NextMesh
<1>3. MeshInv => MeshesCurrent
  BY DEF MeshInv
<1> QED
  BY <1>1, <1>2, <1>3, PTL DEF Spec

-----------------------------------------------------------------------------
(* The files: with loads and saves each alone, a saver's temporary file is   *)
(* its own and holds the tree, and a loader's bytes are those of the file.   *)

Paths ==
  /\ \A i, j \in disk.file : i = j
  /\ \A i, j \in disk.tmp : i = j
  /\ disk.tmp \cap disk.file = {}

SaveInv ==
  \A t \in Tasks : At(t, Saving) =>
    /\ task[t].fd = disk.tmp
    /\ disk.tmp # {}
    /\ task[t].bytes = tree
    /\ At(t, {"written"}) => \A i \in disk.tmp : disk.content[i] = Whole(tree)
    /\ \A u \in Tasks : At(u, Saving) => u = t

LoadInv ==
  \A t \in Tasks : At(t, Loading) =>
    /\ tree = {}
    /\ At(t, {"read"}) => task[t].bytes = Read(disk.file)
    /\ \A u \in Tasks : At(u, Saving \cup Loading) => u = t

FileInv == Paths /\ SaveInv /\ LoadInv

NobodySaves == \A u \in Tasks : ~At(u, Saving)
NobodyLoads == \A u \in Tasks : ~At(u, Loading)

LEMMA InitFile == Init => FileInv
<1> SUFFICES ASSUME Init PROVE FileInv
  OBVIOUS
<1>1. NobodySaves /\ NobodyLoads
  BY DEF Init, NobodySaves, NobodyLoads, At, Idle, Saving, Loading
<1>2. Paths
  BY DEF Init, Paths
<1> QED
  BY <1>1, <1>2 DEF FileInv, SaveInv, LoadInv, NobodySaves, NobodyLoads

\* Where nobody saves or loads only the paths matter.
LEMMA QuietFile ==
  ASSUME FileInv, NobodySaves', NobodyLoads', UNCHANGED disk
  PROVE  FileInv'
<1>1. Paths'
  BY DEF FileInv, Paths
<1> QED
  BY <1>1 DEF FileInv, SaveInv, LoadInv, NobodySaves, NobodyLoads

\* A step of a task that is in no save and no load, before and after.
LEMMA OutsideFile ==
  ASSUME FileInv, NEW t \in Tasks, UNCHANGED <<tree, disk>>,
         ~At(t, Saving \cup Loading), ~At(t, Saving \cup Loading)',
         \A u \in Tasks \ {t} : task'[u] = task[u]
  PROVE  FileInv'
<1>1. \A u \in Tasks : At(u, Saving \cup Loading)' => u # t
  OBVIOUS
<1>2. \A u \in Tasks : u # t => task'[u] = task[u]
  OBVIOUS
<1>3. Paths'
  BY DEF FileInv, Paths
<1>4. SaveInv'
  BY <1>1, <1>2 DEF FileInv, SaveInv, At, Saving
<1>5. Read(disk.file)' = Read(disk.file)
  BY DEF Read
<1>6. LoadInv'
  BY <1>1, <1>2, <1>5 DEF FileInv, LoadInv, At, Saving, Loading
<1> QED
  BY <1>3, <1>4, <1>6 DEF FileInv

\* A step that leaves the tree, the tasks and the files alone.
LEMMA BesideFile ==
  ASSUME FileInv, UNCHANGED <<tree, task, disk>>
  PROVE  FileInv'
<1>1. Read(disk.file)' = Read(disk.file)
  BY DEF Read
<1>2. LoadInv'
  BY <1>1 DEF FileInv, LoadInv, At
<1> QED
  BY <1>2 DEF FileInv, Paths, SaveInv, At

LEMMA WriterFile ==
  ASSUME LoadsAlone, FileInv, Writer
  PROVE  FileInv'
<1>1. MayWrite /\ UNCHANGED <<task, disk>>
  BY DEF Writer, sync_refnos, remove_by_refnos, replace, deref_mut, WriteField
<1>2. NobodySaves' /\ NobodyLoads'
  BY <1>1 DEF MayWrite, Writable, NoLoadPending, NobodySaves, NobodyLoads, At, Saving, Loading
<1> QED
  BY <1>1, <1>2, QuietFile

LEMMA QueryFile ==
  ASSUME TypeOK, FileInv, NEW t \in Tasks, Query(t)
  PROVE  FileInv'
<1>t. task[t] \in TaskStates
  BY DEF TypeOK
<1>1. UNCHANGED <<tree, disk>> /\ task[t].at \in {"idle", "query", "fetched"}
  BY DEF Query, query_nearest_by_ray, RequestMesh, Cast, get_tri_mesh_read, get_tri_mesh_store,
     Answer, At, treeVars
<1>2. task'[t].at \in {"idle", "query", "fetched"} /\ \A u \in Tasks \ {t} : task'[u] = task[u]
  <2>1. ASSUME NEW candidates, query_nearest_by_ray(t, candidates) PROVE <1>2!:
    BY <2>1 DEF query_nearest_by_ray, Idle, TypeOK
  <2>2. ASSUME NEW key, RequestMesh(t, key) PROVE <1>2!:
    BY <2>2 DEF RequestMesh, Idle, TypeOK
  <2>3. CASE Cast(t)
    BY <2>3, <1>t, <1>1 DEF Cast, TypeOK, TaskStates
  <2>4. CASE get_tri_mesh_read(t)
    BY <2>4, <1>t DEF get_tri_mesh_read, TypeOK, TaskStates
  <2>5. CASE get_tri_mesh_store(t)
    BY <2>5, <1>t DEF get_tri_mesh_store, TypeOK, TaskStates
  <2>6. CASE Answer(t)
    BY <2>6 DEF Answer, Release, Idle, TypeOK
  <2> QED
    BY <2>1, <2>2, <2>3, <2>4, <2>5, <2>6 DEF Query
<1>3. ~At(t, Saving \cup Loading) /\ ~At(t, Saving \cup Loading)'
  BY <1>1, <1>2 DEF At, Saving, Loading
<1> QED
  BY <1>1, <1>2, <1>3, OutsideFile

LEMMA FileFile ==
  ASSUME LoadsAlone, SavesAlone, TypeOK, FileInv, NEW t \in Tasks, File(t)
  PROVE  FileInv'
<1> USE DEF treeVars, TreeUnchanged
<1>t. task[t] \in TaskStates
  BY DEF TypeOK
<1>1. CASE serialize_create(t)
  <2>1. NobodySaves /\ NobodyLoads
    BY <1>1 DEF serialize_create, NoLoadPending, NobodySaves, NobodyLoads
  <2>2. PICK i \in Inodes :
          /\ IF disk.tmp = {} THEN i \notin disk.file \cup Held ELSE i \in disk.tmp
          /\ disk' = [disk EXCEPT !.content[i] = Torn, !.tmp = {i}]
          /\ task' = [task EXCEPT ![t] = [Idle EXCEPT !.at = "created", !.bytes = tree, !.fd = {i}]]
    BY <1>1 DEF serialize_create
  <2>3. disk'.file = disk.file /\ disk'.tmp = {i}
    BY <2>2 DEF TypeOK, Disks
  <2>4. i \notin disk.file
    BY <2>2 DEF FileInv, Paths
  <2>5. Paths'
    BY <2>3, <2>4 DEF FileInv, Paths
  <2>6. /\ task'[t].at = "created" /\ task'[t].bytes = tree /\ task'[t].fd = {i}
        /\ \A u \in Tasks \ {t} : task'[u] = task[u]
    BY <2>2 DEF TypeOK, Idle
  <2>7. \A u \in Tasks : At(u, Saving \cup Loading)' => u = t
    BY <2>1, <2>6 DEF NobodySaves, NobodyLoads, At
  <2>8. UNCHANGED tree
    BY <1>1 DEF serialize_create
  <2>9. SaveInv'
    BY <2>3, <2>6, <2>7, <2>8 DEF SaveInv, At, Saving
  <2>10. LoadInv'
    BY <2>6, <2>7 DEF LoadInv, At, Loading
  <2> QED
    BY <2>5, <2>9, <2>10 DEF FileInv
<1>2. CASE serialize_write(t)
  <2>1. /\ task[t].fd = disk.tmp /\ disk.tmp # {} /\ task[t].bytes = tree
        /\ \A u \in Tasks : At(u, Saving \cup Loading) => u = t
    BY <1>2 DEF serialize_write, FileInv, SaveInv, LoadInv, At, Saving, Loading
  <2>2. /\ disk'.file = disk.file /\ disk'.tmp = disk.tmp
        /\ disk.tmp \subseteq Inodes
        /\ \A i \in Inodes : i \in disk.tmp => disk'.content[i] = Whole(tree)
    BY <1>2, <2>1 DEF serialize_write, TypeOK, Disks
  <2>3. /\ task'[t].at = "written" /\ task'[t].bytes = task[t].bytes /\ task'[t].fd = task[t].fd
        /\ \A u \in Tasks \ {t} : task'[u] = task[u]
    BY <1>2, <1>t DEF serialize_write, Move, TypeOK, TaskStates
  <2>4. UNCHANGED tree
    BY <1>2 DEF serialize_write
  <2>5. Paths'
    BY <2>2 DEF FileInv, Paths
  <2>6. \A u \in Tasks : At(u, Saving \cup Loading)' => u = t
    BY <2>1, <2>3 DEF At
  <2>7. SaveInv'
    BY <2>1, <2>2, <2>3, <2>4, <2>6 DEF SaveInv, At, Saving
  <2>8. LoadInv'
    BY <2>3, <2>6 DEF LoadInv, At, Loading
  <2> QED
    BY <2>5, <2>7, <2>8 DEF FileInv
<1>3. CASE serialize_rename(t) \/ serialize_fails(t)
  <2>1. \A u \in Tasks : At(u, Saving \cup Loading) => u = t
    BY <1>3 DEF serialize_rename, serialize_fails, FileInv, SaveInv, LoadInv, At, Saving, Loading
  <2>2. task'[t].at = "idle" /\ \A u \in Tasks \ {t} : task'[u] = task[u]
    BY <1>3 DEF serialize_rename, serialize_fails, Release, Idle, TypeOK
  <2>3. NobodySaves' /\ NobodyLoads'
    BY <2>1, <2>2 DEF NobodySaves, NobodyLoads, At, Saving, Loading
  <2>4. \/ disk'.file = disk.file /\ disk'.tmp = disk.tmp
        \/ disk'.file = disk.tmp /\ disk'.tmp = {}
    BY <1>3 DEF serialize_rename, serialize_fails, TypeOK, Disks
  <2>5. Paths'
    BY <2>4 DEF FileInv, Paths
  <2> QED
    BY <2>3, <2>5 DEF FileInv, SaveInv, LoadInv, NobodySaves, NobodyLoads
<1>4. CASE load_check(t)
  <2>1. NobodySaves /\ NobodyLoads
    BY <1>4 DEF load_check, NobodySaves, NobodyLoads, At
  <2>2. /\ task'[t].at = "checked"
        /\ \A u \in Tasks \ {t} : task'[u] = task[u]
    BY <1>4, <1>t DEF load_check, Move, TypeOK, TaskStates
  <2>3. UNCHANGED <<tree, disk>> /\ tree = {}
    BY <1>4 DEF load_check
  <2>4. \A u \in Tasks : At(u, Saving \cup Loading)' => u = t
    BY <2>1, <2>2 DEF NobodySaves, NobodyLoads, At
  <2>5. SaveInv'
    BY <2>2, <2>4 DEF SaveInv, At, Saving
  <2>6. LoadInv'
    BY <2>2, <2>3, <2>4 DEF LoadInv, At, Loading
  <2> QED
    BY <2>3, <2>5, <2>6 DEF FileInv, Paths
<1>5. CASE load_read(t)
  <2>1. tree = {} /\ \A u \in Tasks : At(u, Saving \cup Loading) => u = t
    BY <1>5 DEF load_read, FileInv, LoadInv, At, Loading
  <2>2. /\ task'[t].at = "read" /\ task'[t].bytes = Read(disk.file)
        /\ \A u \in Tasks \ {t} : task'[u] = task[u]
    BY <1>5, <1>t DEF load_read, TypeOK, TaskStates
  <2>3. UNCHANGED <<tree, disk>>
    BY <1>5 DEF load_read
  <2>4. \A u \in Tasks : At(u, Saving \cup Loading)' => u = t
    BY <2>1, <2>2 DEF At
  <2>5. SaveInv'
    BY <2>2, <2>4 DEF SaveInv, At, Saving
  <2>6. Read(disk.file)' = Read(disk.file)
    BY <2>3 DEF Read
  <2>7. LoadInv'
    BY <2>1, <2>2, <2>3, <2>4, <2>6 DEF LoadInv, At, Loading
  <2> QED
    BY <2>3, <2>5, <2>7 DEF FileInv, Paths
<1>6. CASE load_store(t)
  <2>1. \A u \in Tasks : At(u, Saving \cup Loading) => u = t
    BY <1>6 DEF load_store, FileInv, LoadInv, At, Loading
  <2>2. task'[t].at = "idle" /\ (\A u \in Tasks \ {t} : task'[u] = task[u]) /\ UNCHANGED disk
    BY <1>6 DEF load_store, Release, Idle, TypeOK
  <2>3. NobodySaves' /\ NobodyLoads'
    BY <2>1, <2>2 DEF NobodySaves, NobodyLoads, At, Saving, Loading
  <2> QED
    BY <2>2, <2>3, QuietFile
<1> QED
  BY <1>1, <1>2, <1>3, <1>4, <1>5, <1>6 DEF File

LEMMA NextFile ==
  ASSUME LoadsAlone, SavesAlone, TypeOK, FileInv, [Next]_vars
  PROVE  FileInv'
<1>1. CASE UNCHANGED vars
  BY <1>1, BesideFile DEF vars
<1>2. ASSUME NEW r \in Refnos, Regenerate(r) PROVE FileInv'
  BY <1>2, BesideFile DEF Regenerate, treeVars
<1>3. CASE SnapshotRestore
  <2>1. NobodySaves' /\ NobodyLoads' /\ UNCHANGED disk
    BY <1>3 DEF SnapshotRestore, MayWrite, Writable, NoLoadPending, NobodySaves, NobodyLoads,
       At, Saving, Loading
  <2> QED
    BY <2>1, QuietFile
<1>4. CASE Crash
  <2>1. NobodySaves' /\ NobodyLoads' /\ UNCHANGED disk
    BY <1>4 DEF Crash, NobodySaves, NobodyLoads, At, Saving, Loading, Idle
  <2> QED
    BY <2>1, QuietFile
<1> QED
  BY <1>1, <1>2, <1>3, <1>4, WriterFile, QueryFile, FileFile DEF Next

-----------------------------------------------------------------------------
(* AccelTree implements BoxStore *)

AbsVars == <<Under(tree), Durable, did>>

LEMMA DurableSame ==
  ASSUME UNCHANGED disk
  PROVE  Durable' = Durable
<1>1. Read(disk.file)' = Read(disk.file) /\ Readable' = Readable
  BY DEF Read, Readable
<1> QED
  BY <1>1 DEF Durable

\* Bytes of files other than the one at the path do not show.
LEMMA DurableElsewhere ==
  ASSUME disk'.file = disk.file,
         \A i \in disk.file : disk'.content[i] = disk.content[i]
  PROVE  Durable' = Durable /\ Readable' = Readable
<1>1. Readable' = Readable
  BY DEF Readable
<1>2. {disk'.content[i].leaves : i \in disk.file} = {disk.content[i].leaves : i \in disk.file}
  OBVIOUS
<1>3. Read(disk.file)' = IF Readable' THEN UNION {disk'.content[i].leaves : i \in disk.file}
                                      ELSE {}
  BY DEF Read, Readable
<1>4. Read(disk.file) = IF Readable THEN UNION {disk.content[i].leaves : i \in disk.file}
                                    ELSE {}
  BY DEF Read, Readable
<1>5. Read(disk.file)' = Read(disk.file)
  BY <1>1, <1>2, <1>3, <1>4
<1> QED
  BY <1>1, <1>5 DEF Durable

LEMMA InitStore == Init => Store!Init
<1> SUFFICES ASSUME Init PROVE Store!Init
  OBVIOUS
<1>1. Under(tree) = Store!NoBoxes
  BY UnderNothing DEF Init, NoBoxes, Store!NoBoxes
<1>2. Durable \in [readable : BOOLEAN, boxes : Store!BoxMaps]
  BY UnderType DEF Durable, Readable, Store!BoxMaps
<1>3. did = [op |-> "none", old |-> Store!NoBoxes]
  BY DEF Init, NoBoxes, Store!NoBoxes
<1> QED
  BY <1>1, <1>2, <1>3 DEF Store!Init

LEMMA SyncStore ==
  ASSUME TypeOK, IndexAgrees, NEW input \in SUBSET Leaves, sync_refnos(input)
  PROVE  Store!Refresh(Under(input))
<1> DEFINE named == {l[1] : l \in input}
           given == {r \in Refnos : Under(input)[r] # {}}
<1>1. named = given
  <2>1. ASSUME NEW r \in Refnos PROVE r \in named <=> Under(input)[r] # {}
    <3>1. CASE r \in named
      <4>1. PICK l \in input : l[1] = r
        BY <3>1
      <4>2. l = <<r, l[2]>> /\ l[2] \in Boxes
        BY <4>1 DEF Leaves
      <4>3. l[2] \in Under(input)[r]
        BY <4>2 DEF Under, BoxesOf
      <4> QED
        BY <3>1, <4>3
    <3>2. CASE r \notin named
      <4>1. \A b \in Boxes : <<r, b>> \notin input
        BY <3>2
      <4> QED
        BY <3>2, <4>1 DEF Under, BoxesOf
    <3> QED
      BY <3>1, <3>2
  <2>2. named \subseteq Refnos
    BY DEF Leaves
  <2> QED
    BY <2>1, <2>2
<1>2. named # {}
  BY DEF sync_refnos
<1>3. ensure_refno_index = Under(tree)
  BY HealedAgrees
<1>4. Under(tree') = [r \in Refnos |-> IF r \in named THEN Under(input)[r] ELSE Under(tree)[r]]
  <2>1. refno_index' = [r \in Refnos |-> IF r \in named THEN BoxesOf(input, r) ELSE Under(tree)[r]]
    BY <1>3 DEF sync_refnos
  <2>2. \A r \in Refnos : BoxesOf(input, r) = Under(input)[r]
    BY DEF Under
  <2> HIDE DEF named
  <2> QED
    BY <2>1, <2>2, SyncIndex
<1>5. did' = [op |-> "refresh", old |-> [r \in Refnos |-> IF r \in named THEN Under(tree)[r] ELSE {}]]
  BY <1>3 DEF sync_refnos
<1>6. Durable' = Durable
  BY DurableSame DEF sync_refnos
<1> HIDE DEF named
<1> QED
  BY <1>1, <1>2, <1>4, <1>5, <1>6 DEF Store!Refresh, Store!Did

LEMMA RemoveStore ==
  ASSUME TypeOK, IndexAgrees, NEW refnos \in SUBSET Refnos, remove_by_refnos(refnos)
  PROVE  Store!Forget(refnos)
<1>1. ensure_refno_index = Under(tree)
  BY HealedAgrees
<1>2. Under(tree') = [r \in Refnos |-> IF r \in refnos THEN {} ELSE Under(tree)[r]]
  BY <1>1, RemoveIndex DEF remove_by_refnos
<1>3. did' = [op |-> "forget", old |-> [r \in Refnos |-> IF r \in refnos THEN Under(tree)[r] ELSE {}]]
  BY <1>1 DEF remove_by_refnos
<1>4. Durable' = Durable
  BY DurableSame DEF remove_by_refnos
<1> QED
  BY <1>2, <1>3, <1>4 DEF Store!Forget, Store!Did

LEMMA OverwriteStore ==
  ASSUME NEW leaves \in SUBSET Leaves, replace(leaves) \/ deref_mut(leaves) \/ WriteField(leaves)
  PROVE  Store!Overwrite
<1>1. UNCHANGED disk /\ did' = [op |-> "overwrite", old |-> NoBoxes]
  BY DEF replace, deref_mut, WriteField
<1>2. Under(tree') \in Store!BoxMaps
  BY UnderType DEF Store!BoxMaps
<1> QED
  BY <1>1, <1>2, DurableSame DEF Store!Overwrite, Store!Did, NoBoxes, Store!NoBoxes

\* The tree and the file are as they were: a stuttering step of the store.
LEMMA StutterStore ==
  ASSUME UNCHANGED <<tree, did>>, Durable' = Durable
  PROVE  UNCHANGED AbsVars
BY DEF AbsVars

LEMMA QueryStore ==
  ASSUME NEW t \in Tasks, Query(t)
  PROVE  UNCHANGED AbsVars
<1>1. UNCHANGED <<tree, did, disk>>
  BY DEF Query, query_nearest_by_ray, RequestMesh, Cast, get_tri_mesh_read, get_tri_mesh_store,
     Answer, treeVars
<1> QED
  BY <1>1, DurableSame, StutterStore

LEMMA FileStore ==
  ASSUME TypeOK, FileInv, NEW t \in Tasks, File(t)
  PROVE  Store!Next \/ UNCHANGED AbsVars
<1> USE DEF treeVars, TreeUnchanged
<1>1. CASE serialize_create(t)
  <2>1. PICK i \in Inodes :
          /\ IF disk.tmp = {} THEN i \notin disk.file \cup Held ELSE i \in disk.tmp
          /\ disk' = [disk EXCEPT !.content[i] = Torn, !.tmp = {i}]
    BY <1>1 DEF serialize_create
  <2>2. i \notin disk.file
    BY <2>1 DEF FileInv, Paths
  <2>3. disk'.file = disk.file /\ \A j \in disk.file : disk'.content[j] = disk.content[j]
    BY <2>1, <2>2 DEF TypeOK, Disks
  <2> QED
    BY <1>1, <2>3, DurableElsewhere, StutterStore DEF serialize_create
<1>2. CASE serialize_write(t)
  <2>1. task[t].fd = disk.tmp
    BY <1>2 DEF serialize_write, FileInv, SaveInv, At, Saving
  <2>2. disk'.file = disk.file /\ \A j \in disk.file : disk'.content[j] = disk.content[j]
    BY <1>2, <2>1 DEF serialize_write, FileInv, Paths, TypeOK, Disks
  <2> QED
    BY <1>2, <2>2, DurableElsewhere, StutterStore DEF serialize_write
<1>3. CASE serialize_rename(t)
  <2>1. disk.tmp # {} /\ \A i \in disk.tmp : disk.content[i] = Whole(tree)
    BY <1>3 DEF serialize_rename, FileInv, SaveInv, At, Saving
  <2>2. /\ disk'.file = disk.tmp /\ disk'.content = disk.content
        /\ did' = [op |-> "save", old |-> NoBoxes] /\ tree' = tree
    BY <1>3, <2>1 DEF serialize_rename, TypeOK, Disks
  <2>3. PICK i : disk.tmp = {i}
    BY <2>1 DEF FileInv, Paths
  <2>4. Readable' = TRUE
    BY <2>1, <2>2, <2>3 DEF Readable, Whole
  <2>5. Read(disk.file)' = tree
    BY <2>1, <2>2, <2>3 DEF Read, Whole
  <2>6. Durable' = [readable |-> TRUE, boxes |-> Under(tree)]
    BY <2>4, <2>5 DEF Durable
  <2>7. Store!Save
    BY <2>2, <2>6 DEF Store!Save, Store!Did, NoBoxes, Store!NoBoxes
  <2> QED
    BY <2>7 DEF Store!Next
<1>4. CASE serialize_fails(t) \/ load_check(t) \/ load_read(t)
  BY <1>4, DurableSame, StutterStore DEF serialize_fails, load_check, load_read
<1>5. CASE load_store(t)
  <2>1. tree = {} /\ task[t].bytes = Read(disk.file)
    BY <1>5 DEF load_store, FileInv, LoadInv, At, Loading
  <2>2. /\ tree' = Read(disk.file) /\ UNCHANGED disk
        /\ did' = [op |-> "load", old |-> NoBoxes]
    BY <1>5, <2>1 DEF load_store
  <2>3. ~Readable => Read(disk.file) = {}
    BY DEF Readable, Read
  <2>4. Durable.readable = Readable /\ Durable.boxes = Under(Read(disk.file))
    BY DEF Durable
  <2>5. Under(tree') = IF Durable.readable THEN Durable.boxes ELSE NoBoxes
    BY <2>2, <2>3, <2>4, UnderNothing
  <2>6. Store!Load
    BY <2>1, <2>2, <2>5, UnderNothing, DurableSame DEF Store!Load, Store!Did, NoBoxes, Store!NoBoxes
  <2> QED
    BY <2>6 DEF Store!Next
<1> QED
  BY <1>1, <1>2, <1>3, <1>4, <1>5 DEF File

LEMMA RestoreStore == SnapshotRestore => Store!Restore
<1> SUFFICES ASSUME SnapshotRestore PROVE Store!Restore
  OBVIOUS
<1>1. Readable /\ Durable.readable = Readable /\ Durable.boxes = Under(Read(disk.file))
  BY DEF SnapshotRestore, Durable, Readable
<1> QED
  BY <1>1, DurableSame DEF SnapshotRestore, Store!Restore, Store!Did, NoBoxes, Store!NoBoxes

LEMMA CrashStore == Crash => Store!Crash
<1> SUFFICES ASSUME Crash PROVE Store!Crash
  OBVIOUS
<1> QED
  BY DurableSame, UnderNothing DEF Crash, Store!Crash, Store!Did, NoBoxes, Store!NoBoxes

LEMMA NextStore ==
  ASSUME TypeOK, IndexAgrees, FileInv, [Next]_vars
  PROVE  Store!Next \/ UNCHANGED AbsVars
<1>1. ASSUME NEW input \in SUBSET Leaves, sync_refnos(input) PROVE Store!Next
  <2>1. Under(input) \in Store!BoxMaps
    BY UnderType DEF Store!BoxMaps
  <2> QED
    BY <1>1, <2>1, SyncStore DEF Store!Next
<1>2. ASSUME NEW refnos \in SUBSET Refnos, remove_by_refnos(refnos) PROVE Store!Next
  BY <1>2, RemoveStore DEF Store!Next
<1>3. ASSUME NEW leaves \in SUBSET Leaves, replace(leaves) \/ deref_mut(leaves) \/ WriteField(leaves)
      PROVE Store!Next
  BY <1>3, OverwriteStore DEF Store!Next
<1>4. ASSUME NEW r \in Refnos, Regenerate(r) PROVE UNCHANGED AbsVars
  BY <1>4, DurableSame, StutterStore DEF Regenerate, treeVars
<1>5. CASE SnapshotRestore
  BY <1>5, RestoreStore DEF Store!Next
<1>6. CASE Crash
  BY <1>6, CrashStore DEF Store!Next
<1>7. CASE UNCHANGED vars
  BY <1>7, DurableSame, StutterStore DEF vars
<1> QED
  BY <1>1, <1>2, <1>3, <1>4, <1>5, <1>6, <1>7, QueryStore, FileStore DEF Next, Writer

\* The inductive invariant behind the two theorems below.
TreeInv == TypeOK /\ IndexAgrees /\ FileInv

LEMMA TreeInvariant ==
  ASSUME LoadsAlone, SavesAlone, LengthTells
  PROVE  Spec => []TreeInv
<1>1. Init => TreeInv
  BY InitType, InitIndex, InitFile DEF TreeInv
<1>2. TreeInv /\ [Next]_vars => TreeInv'
  BY NextType, NextIndex, NextFile DEF TreeInv
<1> QED
  BY <1>1, <1>2, PTL DEF Spec

\* Under the three assumptions on callers, the tree with its reverse index and
\* its files is the store: refreshing replaces and reports, saving is one step.
THEOREM ImplementsStore ==
  ASSUME LoadsAlone, SavesAlone, LengthTells
  PROVE  Spec => StoreSpec
<1>1. TreeInv /\ [Next]_vars => [Store!Next]_(Store!storeVars)
  BY NextStore DEF TreeInv, AbsVars, Store!storeVars
<1> QED
  BY <1>1, InitStore, TreeInvariant, PTL DEF Spec, StoreSpec, Store!Spec

LEMMA NextReadable ==
  ASSUME FileInv, TypeOK, Next, Readable
  PROVE  Readable'
<1> USE DEF TreeUnchanged
<1>1. CASE UNCHANGED disk
  BY <1>1 DEF Readable
<1>2. ASSUME NEW t \in Tasks, serialize_create(t) PROVE Readable'
  <2>1. PICK i \in Inodes :
          /\ IF disk.tmp = {} THEN i \notin disk.file \cup Held ELSE i \in disk.tmp
          /\ disk' = [disk EXCEPT !.content[i] = Torn, !.tmp = {i}]
    BY <1>2 DEF serialize_create
  <2>2. i \notin disk.file
    BY <2>1 DEF FileInv, Paths
  <2> QED
    BY <2>1, <2>2, DurableElsewhere DEF TypeOK, Disks
<1>3. ASSUME NEW t \in Tasks, serialize_write(t) PROVE Readable'
  <2>1. task[t].fd = disk.tmp
    BY <1>3 DEF serialize_write, FileInv, SaveInv, At, Saving
  <2>2. disk'.file = disk.file /\ \A j \in disk.file : disk'.content[j] = disk.content[j]
    BY <1>3, <2>1 DEF serialize_write, FileInv, Paths, TypeOK, Disks
  <2> QED
    BY <2>2, DurableElsewhere
<1>4. ASSUME NEW t \in Tasks, serialize_rename(t) PROVE Readable'
  BY <1>4 DEF serialize_rename, FileInv, SaveInv, At, Saving, Readable, Whole, TypeOK, Disks
<1> QED
  BY <1>1, <1>2, <1>3, <1>4 DEF Next, Writer, sync_refnos, remove_by_refnos, replace, deref_mut,
     WriteField, Regenerate, SnapshotRestore, Crash, Query, query_nearest_by_ray, RequestMesh,
     Cast, get_tri_mesh_read, get_tri_mesh_store, Answer, File, serialize_fails, load_check,
     load_read, load_store

\* Under the same assumptions no crash, at whatever step of a save, leaves an
\* unreadable accel_tree.bin where a readable one was.
THEOREM SnapshotIsNeverTorn ==
  ASSUME LoadsAlone, SavesAlone, LengthTells
  PROVE  Spec => SnapshotSurvives
<1>1. TreeInv /\ [Next]_vars => [Readable => Readable']_vars
  BY NextReadable DEF TreeInv
<1> QED
  BY <1>1, TreeInvariant, PTL DEF Spec, SnapshotSurvives, Readable

-----------------------------------------------------------------------------
(* The answer of a ray query: however many hits there are, one of them is   *)
(* the nearest, and the best so far is the nearest of those seen.           *)

\* Every set of distances has a least one: < is well founded on Nat.
LEMMA LeastExists ==
  ASSUME NEW S \in SUBSET Nat, S # {}
  PROVE  \E m \in S : \A n \in S : m <= n
<1>1. PICK m \in S : \A n \in S : ~(<<n, m>> \in OpToRel(<, Nat))
  BY NatLessThanWellFounded, WFMin
<1>2. ASSUME NEW n \in S PROVE m <= n
  <2>1. n < m => <<n, m>> \in OpToRel(<, Nat)
    BY DEF OpToRel
  <2>2. ~(n < m)
    BY <1>1, <2>1, Zenon
  <2>3. n \in Nat /\ m \in Nat
    OBVIOUS
  <2> QED
    BY <2>2, <2>3
<1> QED
  BY <1>2

Hits == Meshes \X Refnos
Nearest(S) == {h \in S : \A o \in S : Before(h, o)}

LEMMA HitType == \A h \in Hits : h[1] \in Nat /\ h[2] \in Nat /\ h = <<h[1], h[2]>>
<1> SUFFICES ASSUME NEW h \in Hits PROVE h[1] \in Nat /\ h[2] \in Nat /\ h = <<h[1], h[2]>>
  OBVIOUS
<1>1. PICK m \in Meshes, r \in Refnos : h = <<m, r>>
  BY DEF Hits
<1> QED
  BY <1>1, TreeAssumption

LEMMA NearestUnique ==
  ASSUME NEW S \in SUBSET Hits, NEW a \in Nearest(S), NEW b \in Nearest(S)
  PROVE  a = b
<1>1. Before(a, b) /\ Before(b, a) /\ a \in Hits /\ b \in Hits
  BY DEF Nearest
<1> QED
  BY <1>1, HitType DEF Before

Least(hits) == {m \in hits : \A n \in hits : m <= n}
\* What Cast makes of the best so far.
BestOf(best, hits, r) ==
  IF Least(hits) # {} /\ \A m \in Least(hits) : Beats(m, r, best) THEN Least(hits) \X {r} ELSE best

\* The nearest of the hits so far and those of one more element.
LEMMA NearestOfMore ==
  ASSUME NEW S \in SUBSET Hits, S # {} => Nearest(S) # {},
         NEW hits \in SUBSET Meshes, NEW r \in Refnos
  PROVE  /\ Nearest(S \cup (hits \X {r})) = BestOf(Nearest(S), hits, r)
         /\ S \cup (hits \X {r}) # {} => BestOf(Nearest(S), hits, r) # {}
<1> DEFINE both == S \cup (hits \X {r})
           best == BestOf(Nearest(S), hits, r)
<1>1. hits \subseteq Nat /\ r \in Nat
  BY TreeAssumption
<1>2. CASE hits = {}
  <2>1. Least(hits) = {} /\ both = S
    BY <1>2 DEF Least
  <2> QED
    BY <2>1 DEF BestOf
<1>3. CASE hits # {}
  <2>1. PICK m \in hits : \A n \in hits : m <= n
    BY <1>1, <1>3, LeastExists
  <2>2. Least(hits) = {m}
    <3>1. m \in Least(hits)
      BY <2>1 DEF Least
    <3>2. ASSUME NEW n \in Least(hits) PROVE n = m
      <4>1. n <= m /\ m <= n /\ n \in Nat /\ m \in Nat
        BY <1>1, <2>1 DEF Least
      <4> QED
        BY <4>1
    <3> QED
      BY <3>1, <3>2
  <2>3. <<m, r>> \in both /\ both \subseteq Hits
    BY DEF Hits
  <2>4. \A h \in hits \X {r} : Before(<<m, r>>, h)
    <3> SUFFICES ASSUME NEW n \in hits PROVE Before(<<m, r>>, <<n, r>>)
      OBVIOUS
    <3>1. m <= n /\ m \in Nat /\ n \in Nat
      BY <1>1, <2>1
    <3> QED
      BY <1>1, <3>1 DEF Before
  <2>5. CASE S = {}
    <3>1. Nearest(S) = {} /\ both = hits \X {r}
      BY <2>5 DEF Nearest
    <3>2. best = {<<m, r>>}
      BY <2>2, <3>1 DEF Beats, BestOf
    <3>3. <<m, r>> \in Nearest(both)
      BY <2>3, <2>4, <3>1 DEF Nearest
    <3> QED
      BY <2>3, <3>2, <3>3, NearestUnique
  <2>6. CASE S # {}
    <3>1. PICK b \in Nearest(S) : TRUE
      BY <2>6
    <3>2. Nearest(S) = {b} /\ b \in Hits /\ b \in S /\ \A o \in S : Before(b, o)
      BY <3>1, NearestUnique DEF Nearest
    <3>3. CASE Beats(m, r, {b})
      <4>1. best = {<<m, r>>}
        BY <2>2, <3>2, <3>3 DEF BestOf
      <4>2. ASSUME NEW o \in S PROVE Before(<<m, r>>, o)
        <5>1. Before(b, o) /\ o \in Hits
          BY <3>2
        <5> QED
          BY <1>1, <3>2, <3>3, <5>1, HitType DEF Before, Beats
      <4>3. <<m, r>> \in Nearest(both)
        BY <2>3, <2>4, <4>2 DEF Nearest
      <4> QED
        BY <2>3, <4>1, <4>3, NearestUnique
    <3>4. CASE ~Beats(m, r, {b})
      <4>1. best = {b}
        BY <2>2, <3>2, <3>4 DEF BestOf
      <4>2. Before(b, <<m, r>>)
        BY <1>1, <3>2, <3>4, HitType DEF Before, Beats
      <4>3. ASSUME NEW o \in hits \X {r} PROVE Before(b, o)
        <5>1. Before(<<m, r>>, o)
          BY <2>4
        <5>2. o[1] \in Nat /\ o[2] \in Nat
          BY <1>1
        <5> QED
          BY <1>1, <3>2, <4>2, <5>1, <5>2, HitType DEF Before
      <4>4. b \in Nearest(both)
        BY <3>2, <4>3 DEF Nearest
      <4> QED
        BY <2>3, <4>1, <4>4, NearestUnique
    <3> QED
      BY <3>3, <3>4
  <2> QED
    BY <2>5, <2>6
<1> QED
  BY <1>2, <1>3

BestInv ==
  \A t \in Tasks : /\ task[t].best = Nearest(task[t].seen)
                   /\ task[t].seen # {} => task[t].best # {}

LEMMA CastBest ==
  ASSUME TypeOK, BestInv, NEW t \in Tasks, Cast(t)
  PROVE  BestInv'
<1>t. task[t] \in TaskStates /\ task \in [Tasks -> TaskStates]
  BY DEF TypeOK
<1> DEFINE hits(k) == {m \in mesh_cache[k] : m <= Reach}
           best(k) == BestOf(task[t].best, hits(k), k[1])
<1>1. PICK key \in task[t].todo :
        task' = [task EXCEPT ![t] = [task[t] EXCEPT
                   !.todo = task[t].todo \ {key}, !.seen = task[t].seen \cup (hits(key) \X {key[1]}),
                   !.best = best(key)]]
  BY DEF Cast, BestOf, Least
<1>2. key[1] \in Refnos /\ hits(key) \in SUBSET Meshes
  BY <1>t DEF TaskStates, Keys, TypeOK
<1>3. task[t].seen \in SUBSET Hits
  BY <1>t DEF TaskStates, Hits
<1>4. task[t].best = Nearest(task[t].seen) /\ (task[t].seen # {} => Nearest(task[t].seen) # {})
  BY DEF BestInv
<1>5. Nearest(task[t].seen \cup (hits(key) \X {key[1]})) = best(key)
      /\ (task[t].seen \cup (hits(key) \X {key[1]}) # {} => best(key) # {})
  <2> DEFINE H == hits(key)
             S == task[t].seen
  <2>1. H \in SUBSET Meshes /\ key[1] \in Refnos /\ S \in SUBSET Hits /\ (S # {} => Nearest(S) # {})
    BY <1>2, <1>3, <1>4
  <2> HIDE DEF H, S
  <2>2. /\ Nearest(S \cup (H \X {key[1]})) = BestOf(Nearest(S), H, key[1])
        /\ S \cup (H \X {key[1]}) # {} => BestOf(Nearest(S), H, key[1]) # {}
    BY <2>1, NearestOfMore
  <2> QED
    BY <1>4, <2>2 DEF H, S
<1> HIDE DEF hits, best
<1>6. task'[t].seen = task[t].seen \cup (hits(key) \X {key[1]}) /\ task'[t].best = best(key)
  BY <1>t, <1>1 DEF TaskStates
<1>7. \A u \in Tasks \ {t} : task'[u] = task[u]
  BY <1>t, <1>1
<1> QED
  BY <1>5, <1>6, <1>7 DEF BestInv

\* The other steps keep a task's hits or let it start anew.
Keeps(t) ==
  \/ task'[t].seen = task[t].seen /\ task'[t].best = task[t].best
  \/ task'[t].seen = {} /\ task'[t].best = {}

LEMMA KeepsBest ==
  ASSUME BestInv, \A t \in Tasks : Keeps(t)
  PROVE  BestInv'
BY DEF BestInv, Keeps, Nearest

LEMMA QueryBest ==
  ASSUME TypeOK, BestInv, NEW t \in Tasks, Query(t)
  PROVE  BestInv'
<1>t. task[t] \in TaskStates /\ task \in [Tasks -> TaskStates]
  BY DEF TypeOK
<1>1. CASE Cast(t)
  BY <1>1, CastBest
<1>2. CASE ~Cast(t)
  <2>1. Keeps(t)
    <3>1. ASSUME NEW candidates, query_nearest_by_ray(t, candidates) PROVE Keeps(t)
      BY <1>t, <3>1 DEF query_nearest_by_ray, Keeps, Idle
    <3>2. ASSUME NEW key, RequestMesh(t, key) PROVE Keeps(t)
      BY <1>t, <3>2 DEF RequestMesh, Keeps, Idle
    <3>3. CASE get_tri_mesh_read(t)
      BY <1>t, <3>3 DEF get_tri_mesh_read, Keeps, TaskStates
    <3>4. CASE get_tri_mesh_store(t)
      BY <1>t, <3>4 DEF get_tri_mesh_store, Keeps, TaskStates
    <3>5. CASE Answer(t)
      BY <1>t, <3>5 DEF Answer, Release, Keeps, Idle
    <3> QED
      BY <1>2, <3>1, <3>2, <3>3, <3>4, <3>5 DEF Query
  <2>2. \A u \in Tasks \ {t} : task'[u] = task[u]
    BY <1>t, <1>2 DEF Query, query_nearest_by_ray, RequestMesh, get_tri_mesh_read,
         get_tri_mesh_store, Answer, Release
  <2> QED
    BY <2>1, <2>2, KeepsBest DEF Keeps
<1> QED
  BY <1>1, <1>2

LEMMA NextBest == TypeOK /\ BestInv /\ [Next]_vars => BestInv'
<1> SUFFICES ASSUME TypeOK, BestInv, [Next]_vars PROVE BestInv'
  OBVIOUS
<1>t. task \in [Tasks -> TaskStates]
  BY DEF TypeOK
<1>1. ASSUME UNCHANGED task PROVE BestInv'
  BY <1>1 DEF BestInv, Nearest
<1>2. ASSUME NEW t \in Tasks, File(t) PROVE BestInv'
  <2>t. task[t] \in TaskStates
    BY <1>t
  <2>1. CASE serialize_create(t)
    <3>1. PICK i \in Inodes :
            task' = [task EXCEPT ![t] = [Idle EXCEPT !.at = "created", !.bytes = tree, !.fd = {i}]]
      BY <2>1 DEF serialize_create
    <3> QED
      BY <1>t, <3>1, KeepsBest DEF Keeps, Idle
  <2>2. CASE serialize_write(t) \/ load_check(t)
    BY <1>t, <2>t, <2>2, KeepsBest DEF serialize_write, load_check, Move, Keeps, TaskStates
  <2>3. CASE load_read(t)
    BY <1>t, <2>t, <2>3, KeepsBest DEF load_read, Keeps, TaskStates
  <2>4. CASE serialize_rename(t) \/ serialize_fails(t) \/ load_store(t)
    BY <1>t, <2>4, KeepsBest DEF serialize_rename, serialize_fails, load_store, Release, Keeps, Idle
  <2> QED
    BY <1>2, <2>1, <2>2, <2>3, <2>4 DEF File
<1>3. CASE Crash
  BY <1>3, KeepsBest DEF Crash, Keeps, Idle
<1>4. CASE Writer
  BY <1>1, <1>4 DEF Writer, sync_refnos, remove_by_refnos, replace, deref_mut, WriteField
<1>5. CASE UNCHANGED vars
  BY <1>1, <1>5 DEF vars
<1> QED
  BY <1>1, <1>2, <1>3, <1>4, <1>5, QueryBest DEF Next, Regenerate, SnapshotRestore

\* Whatever the order in which candidates are read and whatever changes
\* between two of them, the best is the nearest of the hits so far, and the
\* smallest element of equally near ones, for any number of elements.
THEOREM TheNearestHitWins == Spec => []NearestWins
<1>1. Init => BestInv
  BY DEF Init, BestInv, Idle, Nearest
<1>2. BestInv => NearestWins
  BY DEF BestInv, NearestWins, Nearest
<1> QED
  BY <1>1, <1>2, InitType, NextType, NextBest, PTL DEF Spec
=============================================================================
