------------------------------ MODULE AccelTree ------------------------------
(***************************************************************************)
(* The spatial tree of the process (accel_tree/acceleration_tree.rs) and    *)
(* the global that holds it behind a read-write lock (room/room.rs).       *)
(*                                                                         *)
(* The R-tree is a set of leaves <<element, box>>.  Beside it live derived  *)
(* data: a reverse index from element to boxes with the tree size at which  *)
(* it was built, and the world meshes read for ray queries.  The tree is    *)
(* changed through its own operations, through DerefMut, and through the    *)
(* public field `tree`; it is saved to and loaded from accel_tree.bin.      *)
(* Writers hold the write lock and are single steps; ray queries and saves  *)
(* hold the read lock over several steps; a load holds no lock between its  *)
(* check and its store.                                                     *)
(*                                                                         *)
(* A box stands for the whole value of a leaf (aabb and noun); two equal    *)
(* boxes of one element are two members of Boxes.  A mesh is the distance   *)
(* at which the ray of the model meets it.  The field `ids` is written and  *)
(* serialized but read by nothing, and is left out.                         *)
(***************************************************************************)
EXTENDS Integers, FiniteSets

CONSTANTS
  Tasks,
  Refnos,        \* elements, RefU64: numbers, for the order of ray answers
  Boxes,
  Sesnos,        \* session numbers a mesh key may carry; 0 is "none"
  Meshes,        \* meshes, each the distance at which the ray meets it
  Reach,         \* the ray's maximal time of impact
  Inodes,        \* files that can exist at once
  Regenerations, \* bound: how often geometry is regenerated
  LoadsAlone,    \* no other operation between a load's check and its store
  SavesAlone,    \* saves do not overlap
  LengthTells    \* writes to the field `tree` leave a size other than the indexed one

ASSUME TreeAssumption ==
  /\ IsFiniteSet(Refnos) /\ Refnos \subseteq Nat
  /\ IsFiniteSet(Boxes)
  /\ Sesnos \subseteq Nat /\ 0 \in Sesnos
  /\ Meshes \subseteq Nat /\ Reach \in Nat
  /\ LoadsAlone \in BOOLEAN /\ SavesAlone \in BOOLEAN /\ LengthTells \in BOOLEAN
  /\ Regenerations \in Nat

VARIABLES
  tree,              \* the R-tree: its leaves <<refno, box>>
  refno_index,       \* refno -> boxes, the derived reverse index
  indexed_tree_len,  \* the tree size the index was built at
  mesh_cache,        \* mesh key -> the meshes read; {} is "no entry"
  task,              \* what each task is in the middle of
  disk,              \* [content, file, tmp]: inode -> bytes, and the two paths
  dbgeom,            \* element -> the meshes its geometry has now
  dirty,             \* elements regenerated since their meshes were evicted
  regenerated,       \* how many regenerations there were
  did                \* the last operation on the tree and what it took out

treeVars == <<tree, refno_index, indexed_tree_len>>
vars == <<tree, refno_index, indexed_tree_len, mesh_cache, task, disk,
          dbgeom, dirty, regenerated, did>>

Leaves == Refnos \X Boxes
Keys == Refnos \X Sesnos
usize_MAX == -1                           \* no tree has this many leaves
BoxesOf_leaves(leaves, r) ==  \* (mutant) the index keeps whole leaves
  {l \in leaves : l[1] = r}
BoxesOf(leaves, r) == {b \in Boxes : <<r, b>> \in leaves}
Under(leaves) == [r \in Refnos |-> BoxesOf(leaves, r)]
Flat(boxmap) == {l \in Leaves : l[2] \in boxmap[l[1]]}
NoBoxes == [r \in Refnos |-> {}]
NoMeshes == [k \in Keys |-> {}]
Torn == [readable |-> FALSE, leaves |-> {}]
Whole(leaves) == [readable |-> TRUE, leaves |-> leaves]

Idle == [at |-> "idle", todo |-> {}, meshes |-> {}, seen |-> {}, best |-> {},
         bytes |-> {}, fd |-> {}]
At(t, places) == task[t].at \in places
Querying == {"query", "fetched"}
Saving == {"created", "written"}
Loading == {"checked", "read"}
Move(t, place) == task' = [task EXCEPT ![t] = [task[t] EXCEPT !.at = place]]
Release(t) == task' = [task EXCEPT ![t] = Idle]

\* The write lock is free for the taking.
Writable == \A t \in Tasks : ~At(t, Querying \cup Saving)
\* Nobody is between a load's check and its store, if callers see to that.
NoLoadPending == LoadsAlone => \A t \in Tasks : ~At(t, Loading)

Init ==
  /\ tree = {}
  /\ refno_index = NoBoxes
  /\ indexed_tree_len = 0
  /\ mesh_cache = NoMeshes
  /\ task = [t \in Tasks |-> Idle]
  /\ \E file \in SUBSET Inodes, before \in SUBSET Leaves :   \* none, torn or saved
       \E bytes \in {Torn, Whole(before)} :
         /\ \A i, j \in file : i = j
         /\ disk = [content |-> [j \in Inodes |-> IF j \in file THEN bytes ELSE Torn],
                    file |-> file, tmp |-> {}]
  /\ dbgeom \in [Refnos -> SUBSET Meshes]
  /\ dirty = {}
  /\ regenerated = 0
  /\ did = [op |-> "none", old |-> NoBoxes]

-----------------------------------------------------------------------------
(* The index and the meshes *)

IndexIsFresh == indexed_tree_len = Cardinality(tree)

ensure_refno_index == IF IndexIsFresh THEN refno_index ELSE Under(tree)

rebuild_refno_index(leaves) ==
  /\ refno_index' = Under(leaves)
  /\ indexed_tree_len' = Cardinality(leaves)

entries_of(r) == IF IndexIsFresh THEN refno_index[r] ELSE BoxesOf(tree, r)

evict_meshes_exact(refnos) ==  \* (mutant) the keys with a session number stay
  /\ mesh_cache' = [k \in Keys |-> IF k[1] \in refnos /\ k[2] = 0 THEN {} ELSE mesh_cache[k]]
  /\ dirty' = dirty \ refnos

evict_meshes(refnos) ==
  /\ mesh_cache' = [k \in Keys |-> IF k[1] \in refnos THEN {} ELSE mesh_cache[k]]
  /\ dirty' = dirty \ refnos

Reset ==    \* a tree object of its own, with no mesh in its cache
  /\ mesh_cache' = NoMeshes
  /\ dirty' = {}

-----------------------------------------------------------------------------
(* Writers, each under the write lock *)

MayWrite == Writable /\ NoLoadPending

sync_refnos_unhealed(input) ==  \* (mutant) without ensure_refno_index
  LET named == {l[1] : l \in input} IN
  /\ MayWrite
  /\ input # {}
  /\ tree' = {l \in tree : ~(l[1] \in named /\ l[2] \in refno_index[l[1]])} \cup input
  /\ refno_index' = [r \in Refnos |-> IF r \in named THEN BoxesOf(input, r) ELSE refno_index[r]]
  /\ indexed_tree_len' = Cardinality(tree')
  /\ evict_meshes(named)
  /\ did' = [op |-> "refresh",
             old |-> [r \in Refnos |-> IF r \in named THEN refno_index[r] ELSE {}]]
  /\ UNCHANGED <<task, disk, dbgeom, regenerated>>

\* The old leaves are found through the index and removed by value.
sync_refnos(input) ==
  LET index == ensure_refno_index
      named == {l[1] : l \in input}
      stale == {l \in Leaves : l[1] \in named /\ l[2] \in index[l[1]]}
  IN
  /\ MayWrite
  /\ input # {}
  /\ tree' = (tree \ stale) \cup input
  /\ refno_index' = [r \in Refnos |-> IF r \in named THEN BoxesOf(input, r) ELSE index[r]]
  /\ indexed_tree_len' = Cardinality(tree')
  /\ evict_meshes(named)
  /\ did' = [op |-> "refresh", old |-> [r \in Refnos |-> IF r \in named THEN index[r] ELSE {}]]
  /\ UNCHANGED <<task, disk, dbgeom, regenerated>>

remove_by_refnos(refnos) ==
  LET index == ensure_refno_index
      gone == {l \in Leaves : l[1] \in refnos /\ l[2] \in index[l[1]]}
  IN
  /\ MayWrite
  /\ refnos # {}
  /\ tree' = tree \ gone
  /\ refno_index' = [r \in Refnos |-> IF r \in refnos THEN {} ELSE index[r]]
  /\ indexed_tree_len' = Cardinality(tree')
  /\ evict_meshes(refnos)
  /\ did' = [op |-> "forget", old |-> [r \in Refnos |-> IF r \in refnos THEN index[r] ELSE {}]]
  /\ UNCHANGED <<task, disk, dbgeom, regenerated>>

\* The mesh cache is not evicted.
replace(input) ==
  /\ MayWrite
  /\ tree' = input
  /\ rebuild_refno_index(input)
  /\ did' = [op |-> "overwrite", old |-> NoBoxes]
  /\ UNCHANGED <<mesh_cache, task, disk, dbgeom, dirty, regenerated>>

deref_mut_unmarked(leaves) ==  \* (mutant) the index is not marked as stale
  /\ MayWrite
  /\ tree' = leaves
  /\ did' = [op |-> "overwrite", old |-> NoBoxes]
  /\ UNCHANGED <<refno_index, indexed_tree_len, mesh_cache, task, disk, dbgeom, dirty, regenerated>>

\* The caller changes the R-tree it gets; the index is marked as stale.
deref_mut(leaves) ==
  /\ MayWrite
  /\ tree' = leaves
  /\ indexed_tree_len' = usize_MAX
  /\ did' = [op |-> "overwrite", old |-> NoBoxes]
  /\ UNCHANGED <<refno_index, mesh_cache, task, disk, dbgeom, dirty, regenerated>>

\* `tree` is public: a caller may change it with nothing noticing.
WriteField(leaves) ==
  /\ MayWrite
  /\ tree' = leaves
  /\ LengthTells => Cardinality(leaves) # indexed_tree_len
  /\ did' = [op |-> "overwrite", old |-> NoBoxes]
  /\ UNCHANGED <<refno_index, indexed_tree_len, mesh_cache, task, disk, dbgeom, dirty, regenerated>>

\* Geometry is generated anew in the database, beside this process.
Regenerate(r) ==
  /\ regenerated < Regenerations
  /\ \E g \in SUBSET Meshes : g # dbgeom[r] /\ dbgeom' = [dbgeom EXCEPT ![r] = g]
  /\ dirty' = dirty \cup {r}
  /\ regenerated' = regenerated + 1
  /\ UNCHANGED <<treeVars, mesh_cache, task, disk, did>>

Writer ==
  \/ \E input \in SUBSET Leaves : sync_refnos(input)
  \/ \E refnos \in SUBSET Refnos : remove_by_refnos(refnos)
  \/ \E input \in SUBSET Leaves : replace(input)
  \/ \E leaves \in SUBSET Leaves : deref_mut(leaves)
  \/ \E leaves \in SUBSET Leaves : WriteField(leaves)

-----------------------------------------------------------------------------
(* Ray queries, under the read lock from their first step to their last *)

Before(a, b) == a[1] < b[1] \/ (a[1] = b[1] /\ a[2] <= b[2])

\* Candidates are all the boxes the ray passes: no cut by distance.
query_nearest_by_ray(t, candidates) ==
  /\ At(t, {"idle"})
  /\ candidates # {}
  /\ task' = [task EXCEPT ![t] = [Idle EXCEPT !.at = "query", !.todo = candidates \X {0}]]
  /\ UNCHANGED <<treeVars, mesh_cache, disk, dbgeom, dirty, regenerated, did>>

\* Another caller of get_tri_mesh, whose key may carry a session number.
RequestMesh(t, key) ==
  /\ At(t, {"idle"})
  /\ task' = [task EXCEPT ![t] = [Idle EXCEPT !.at = "query", !.todo = {key}]]
  /\ UNCHANGED <<treeVars, mesh_cache, disk, dbgeom, dirty, regenerated, did>>

\* The candidates are sorted; this is the one whose turn it is.
Turn(t, key) == key \in task[t].todo /\ \A other \in task[t].todo : Before(key, other)

Beats_unordered(d, r, best) ==  \* (mutant) the later of two equal distances wins
  \A b \in best : d <= b[1]

Beats(d, r, best) == \A b \in best : d < b[1] \/ (d = b[1] /\ r < b[2])

\* The nearest hit among the meshes of one candidate, if it beats the best.
Cast(t) ==
  /\ At(t, {"query"})
  /\ \E key \in task[t].todo :
       LET r == key[1]
           hits == {m \in mesh_cache[key] : m <= Reach}
           nearest == {m \in hits : \A n \in hits : m <= n}
           best == task[t].best
       IN
       /\ Turn(t, key)
       /\ mesh_cache[key] # {}
       /\ task' = [task EXCEPT ![t] = [task[t] EXCEPT
            !.todo = task[t].todo \ {key},
            !.seen = task[t].seen \cup (hits \X {r}),
            !.best = IF nearest # {} /\ \A m \in nearest : Beats(m, r, best)
                     THEN nearest \X {r} ELSE best]]
  /\ UNCHANGED <<treeVars, mesh_cache, disk, dbgeom, dirty, regenerated, did>>

\* A cache miss reads the geometry; every part of it may fail to be read.
get_tri_mesh_read(t) ==
  /\ At(t, {"query"})
  /\ \E key \in task[t].todo :
       /\ Turn(t, key)
       /\ mesh_cache[key] = {}
       /\ \E read \in SUBSET dbgeom[key[1]] :
            task' = [task EXCEPT ![t] = [task[t] EXCEPT !.at = "fetched", !.meshes = read]]
  /\ UNCHANGED <<treeVars, mesh_cache, disk, dbgeom, dirty, regenerated, did>>

\* With nothing read the candidate is passed over and nothing is cached.
get_tri_mesh_store(t) ==
  /\ At(t, {"fetched"})
  /\ \E key \in task[t].todo :
       LET meshes == task[t].meshes IN
       /\ Turn(t, key)
       /\ mesh_cache' = IF meshes = {} THEN mesh_cache ELSE [mesh_cache EXCEPT ![key] = meshes]
       /\ task' = [task EXCEPT ![t] = [task[t] EXCEPT !.at = "query", !.meshes = {},
                     !.todo = IF meshes = {} THEN task[t].todo \ {key} ELSE task[t].todo]]
  /\ UNCHANGED <<treeVars, disk, dbgeom, dirty, regenerated, did>>

Answer(t) ==
  /\ At(t, {"query"})
  /\ task[t].todo = {}
  /\ Release(t)
  /\ UNCHANGED <<treeVars, mesh_cache, disk, dbgeom, dirty, regenerated, did>>

Query(t) ==
  \/ \E candidates \in SUBSET {l[1] : l \in tree} : query_nearest_by_ray(t, candidates)
  \/ \E key \in Keys : RequestMesh(t, key)
  \/ Cast(t) \/ get_tri_mesh_read(t) \/ get_tri_mesh_store(t) \/ Answer(t)

-----------------------------------------------------------------------------
(* accel_tree.bin *)

Read(paths) ==       \* what a reader of the path gets
  IF \E i \in paths : disk.content[i].readable
  THEN UNION {disk.content[i].leaves : i \in paths}
  ELSE {}

Held == UNION {task[t].fd : t \in Tasks}

TreeUnchanged == UNCHANGED <<treeVars, mesh_cache, dbgeom, dirty, regenerated>>

\* bincode::serialize, then File::create, which empties a file that is there.
serialize_create(t) ==
  /\ At(t, {"idle"})
  /\ NoLoadPending
  /\ SavesAlone => \A u \in Tasks : ~At(u, Saving)
  /\ \E i \in Inodes :
       /\ IF disk.tmp = {} THEN i \notin disk.file \cup Held ELSE i \in disk.tmp
       /\ disk' = [disk EXCEPT !.content[i] = Torn, !.tmp = {i}]
       /\ task' = [task EXCEPT ![t] = [Idle EXCEPT !.at = "created", !.bytes = tree, !.fd = {i}]]
  /\ TreeUnchanged /\ UNCHANGED did

serialize_write(t) ==
  /\ At(t, {"created"})
  /\ disk' = [disk EXCEPT !.content = [i \in Inodes |->
                IF i \in task[t].fd THEN Whole(task[t].bytes) ELSE disk.content[i]]]
  /\ Move(t, "written")
  /\ TreeUnchanged /\ UNCHANGED did

serialize_rename_unsynced(t) ==  \* (mutant) renamed before it is written
  /\ At(t, {"created", "written"})
  /\ disk' = IF disk.tmp = {} THEN disk ELSE [disk EXCEPT !.file = disk.tmp, !.tmp = {}]
  /\ did' = IF disk.tmp = {} THEN did ELSE [op |-> "save", old |-> NoBoxes]
  /\ Release(t)
  /\ TreeUnchanged

\* Without a temporary file the rename errs and the path keeps its file.
serialize_rename(t) ==
  /\ At(t, {"written"})
  /\ disk' = IF disk.tmp = {} THEN disk ELSE [disk EXCEPT !.file = disk.tmp, !.tmp = {}]
  /\ did' = IF disk.tmp = {} THEN did ELSE [op |-> "save", old |-> NoBoxes]
  /\ Release(t)
  /\ TreeUnchanged

\* create, write_all, sync_all or rename errs: `?` returns.
serialize_fails(t) ==
  /\ At(t, Saving)
  /\ Release(t)
  /\ TreeUnchanged /\ UNCHANGED <<disk, did>>

\* load_aabb_tree returns at once when the tree is not empty.
load_check(t) ==
  /\ At(t, {"idle"})
  /\ LoadsAlone => \A u \in Tasks : ~At(u, Saving \cup Loading)
  /\ tree = {}
  /\ Move(t, "checked")
  /\ TreeUnchanged /\ UNCHANGED <<disk, did>>

\* The right-hand side of the assignment comes before its write lock.
load_read(t) ==
  /\ At(t, {"checked"})
  /\ task' = [task EXCEPT ![t] = [task[t] EXCEPT !.at = "read", !.bytes = Read(disk.file)]]
  /\ TreeUnchanged /\ UNCHANGED <<disk, did>>

load_store(t) ==
  /\ At(t, {"read"})
  /\ Writable
  /\ tree' = task[t].bytes
  /\ rebuild_refno_index(task[t].bytes)
  /\ Reset
  /\ Release(t)
  /\ did' = [op |-> "load", old |-> NoBoxes]
  /\ UNCHANGED <<disk, dbgeom, regenerated>>

\* A plain bincode::deserialize: the skipped fields get their defaults.
SnapshotRestore ==
  /\ MayWrite
  /\ \E i \in disk.file : disk.content[i].readable
  /\ tree' = Read(disk.file)
  /\ refno_index' = NoBoxes
  /\ indexed_tree_len' = 0
  /\ Reset
  /\ did' = [op |-> "restore", old |-> NoBoxes]
  /\ UNCHANGED <<task, disk, dbgeom, regenerated>>

Crash ==
  /\ tree' = {}
  /\ refno_index' = NoBoxes
  /\ indexed_tree_len' = 0
  /\ Reset
  /\ task' = [t \in Tasks |-> Idle]
  /\ did' = [op |-> "crash", old |-> NoBoxes]
  /\ UNCHANGED <<disk, dbgeom, regenerated>>

File(t) ==
  \/ serialize_create(t) \/ serialize_write(t) \/ serialize_rename(t) \/ serialize_fails(t)
  \/ load_check(t) \/ load_read(t) \/ load_store(t)

Next ==
  \/ Writer
  \/ \E r \in Refnos : Regenerate(r)
  \/ \E t \in Tasks : Query(t) \/ File(t)
  \/ SnapshotRestore
  \/ Crash

Spec == Init /\ [][Next]_vars

-----------------------------------------------------------------------------
(* Properties *)

TaskStates == [at : {"idle"} \cup Querying \cup Saving \cup Loading,
               todo : SUBSET Keys, meshes : SUBSET Meshes,
               seen : SUBSET (Meshes \X Refnos), best : SUBSET (Meshes \X Refnos),
               bytes : SUBSET Leaves, fd : SUBSET Inodes]

Disks == [content : [Inodes -> [readable : BOOLEAN, leaves : SUBSET Leaves]],
          file : SUBSET Inodes, tmp : SUBSET Inodes]

Dids == [op : {"none", "refresh", "forget", "overwrite", "save", "load", "restore", "crash"},
         old : [Refnos -> SUBSET Boxes]]

\* Every variable keeps its shape.
TypeOK ==
  /\ tree \subseteq Leaves
  /\ refno_index \in [Refnos -> SUBSET Boxes]
  /\ indexed_tree_len \in Nat \cup {usize_MAX}
  /\ mesh_cache \in [Keys -> SUBSET Meshes]
  /\ task \in [Tasks -> TaskStates]
  /\ disk \in Disks
  /\ dbgeom \in [Refnos -> SUBSET Meshes]
  /\ dirty \subseteq Refnos
  /\ regenerated \in Nat
  /\ did \in Dids

\* The derived index may be stale, but never unknowingly: an index whose
\* recorded size is the tree's agrees with the tree (ensure_refno_index).
IndexAgrees == IndexIsFresh => refno_index = Under(tree)

\* entries_of returns exactly the leaves of the element, whatever changed the
\* tree before: an operation, DerefMut, the field, a load or a raw restore.
EntriesOfExact == \A r \in Refnos : entries_of(r) = BoxesOf(tree, r)

\* A mesh in the cache was read from the geometry as it is now, unless the
\* element was regenerated and neither synced nor removed since: after the
\* refresh no ray meets an old floor (evict_meshes).
MeshesCurrent == \A k \in Keys : k[1] \notin dirty => mesh_cache[k] \subseteq dbgeom[k[1]]

\* The best of a ray query is the nearest of all hits so far, and of equally
\* near ones the smallest element, in whatever order candidates were read.
NearestWins ==
  \A t \in Tasks :
    task[t].best = {h \in task[t].seen : \A o \in task[t].seen : Before(h, o)}

\* Once accel_tree.bin is readable it stays so, through every crash between
\* two steps of a save: a reader sees the old file or the new one.
SnapshotSurvives ==
  [][(\E i \in disk.file : disk.content[i].readable)
       => (\E i \in disk.file : disk.content[i].readable)']_vars

\* A load only ever fills an empty tree: no content of the process is lost to
\* a load that found the tree empty before (load_aabb_tree).
LoadFillsEmptyTree ==
  [][\A t \in Tasks : (At(t, {"read"}) /\ task'[t] = Idle /\ did'.op = "load") => tree = {}]_vars

\* The tree, its index and its two files implement the store of BoxStore.
Readable == \E i \in disk.file : disk.content[i].readable

Durable == [readable |-> Readable, boxes |-> Under(Read(disk.file))]

Store == INSTANCE BoxStore WITH boxes <- Under(tree), durable <- Durable, did <- did

StoreSpec == Store!Spec
=============================================================================
