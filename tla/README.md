# Verification project for aios-core

TLA+ models of `aios-core`: the parts whose correctness depends on the order in
which things happen, and the computations whose values other parts rely on,
checked with TLC on small instances, with theorems checked by TLAPS for every
value of the constants.  Paths below are relative to
the crate (`src/src/...` in the tree this project sits beside).

## 1. The system and its parts

aios-core is the library a plant-design data platform (E3D/PDMS) is built on.
Elements, identified by a reference number (*refno*), form a tree with
attributes. They live in a SurrealDB database; a generation run reads the same
elements straight from E3D files, and a commit window reads a staging database.
On top sit geometry (world transforms, meshes, a spatial tree), rooms, material
lists, and version history.

| Part | State it keeps | Operations | What is hard | What makes it correct |
|---|---|---|---|---|
| Read routing (`rs_surreal/staging.rs`, `direct.rs`) | two task-local contexts | enter, leave and inherit a scope; the provider first, then staging, then SurrealDB | three worlds, process-wide caches, task-locals lost at a spawn, collectors calling collectors | no value of one world reaches a reader of another, directly or through a cache |
| Collectors (`query.rs`, `graph.rs`, `geom.rs`, `spatial.rs`) | about 20 `#[cached]` maps | one function per question about elements | composite reads, error handling of each leaf, recursion in the world fold | all leaves of one answer come from one world |
| Cache invalidation (`query.rs` `clear_all_caches_batch`) | the same caches | delete the keys of changed elements, one cache after another | readers between database update and deletion, entries keyed by another element | an entry outdates its element only while a clear is pending |
| Spatial tree (`accel_tree`, `room/room.rs`) | R-tree, derived index, mesh cache, one file | sync, remove, replace, save, load, ray query | lazily healed derived data, a load between two locks, a crash in a save | lookup is exact, meshes are current, the file is never torn |
| Object cache (`cache/mgr.rs`) | memory map and a redb file | get, insert | two stores, one of which may err | what was inserted is found again |
| History (`schemas/functions/common.surql`, `version.rs`) | element rows and history rows | back up before an update, query by session | backup and update are separate statements | the value of an old session can be found |
| Model storage, project metadata | small caches and counters | queries | staleness, cached errors | - |
| Material statistics (`material/*`) | the job's queue of savers, its spawned tasks, rows in SurrealDB and MySQL | classify the sites, define functions, query per discipline, save in spawned tasks, join | twelve getters and savers with different errors, two stores, tasks forgotten or overlapping with the next job | a list is whole or refused, nothing is lost without a failure, a rerun doubles no row |
| Plant breakdown structure (`ssc_setting.rs`) | tables pdms_major, pbs, pbs_owner | fixed nodes, rooms, disciplines, zones and their parts, in stages | ids are hashes of names, rows and edges saved by two calls, in chunks, errors printed only | a tree: no loops, every row owned and listed by its owner |
| Expressions and catalogue points (`tiny_expr/*`, `math/*`, `rs_surreal/resolve.rs`, `expression/*`) | a context shared by the expressions of an element | substitute, parse, evaluate; resolve points, axes and geometry | text rewriting, precedence, defaults, points defined by points | a text evaluates to what it says, a point is where the catalogue puts it |
| Noun graph (`noun_graph.rs`) | a graph from `noun_graph.json` | paths between nouns, queries made of them | repeated nouns | such a query finds the relatives |
| References and attributes (`types/refno.rs`, `attmap.rs`, `named_attmap.rs`, `attval.rs`, `pe.rs`) | the record, the row and the record of user-defined attributes of an element | put together, write, load, as of now or of a session | many forms of one value, sessions of other elements meanwhile | values survive the way to the database and back, a reference means the element of its time |
| Primitive geometry (`prim_geo/*`, `geometry`) | collected batches of shapes, rows of unit meshes | hash, convert, collect, merge, store | shapes of different size share one mesh | each shape is drawn with its own size, facets, cuts and turn |
| Triangulation, polylines, CSG, transforms | none | float computation | numerics | out of TLC's reach |
| Query builder, page parser, schemas, exports, ORM, options | none | SQL text, bytes, data definitions, configuration | - | - |

Interaction: every collector asks `active_direct_reads()` and
`active_staging_reads()` (task-locals set by whoever called it) and only then
SurrealDB through `SUL_DB`; many are wrapped by `#[cached(result = true)]`,
whose maps are process-wide, so a value computed in one task is served to all.
Writers outside this crate change the database and then call
`clear_all_caches_batch`. The spatial tree is a `tokio::sync::RwLock` global:
ray queries hold its read lock while they await the database for meshes. The
material lists and the plant breakdown structure are jobs a program calls in any
order; both rewrite the table `pdms_major`, and tasks of one job may run on
beside the next. Attributes are what catalogue expressions are evaluated over;
the points and geometry these give are turned into shapes, and shapes of one
key share a stored mesh.

`PROJECT.json` lists every component with its source files, including those
left out and why, and every hazard with the line where it bites.

## 2. Modules

| Module | Models |
|---|---|
| `ReadRouting` | `staging.rs`, `direct.rs` and the routing of 43 collectors |
| `ReadRouting_proofs` | theorems about it |
| `BoxStore` | what the spatial tree promises: boxes per element and one durable snapshot |
| `AccelTree` | `acceleration_tree.rs` and the global of `room.rs`; implements `BoxStore` |
| `AccelTree_proofs` | theorems about it, the refinement among them |
| `CacheInvalidation` | fills of the process caches against updates and `clear_all_caches_batch` |
| `CacheInvalidation_proofs` | theorems about it |
| `MajorTable` | how sites and zones come to a discipline: the sheet and the table pdms_major |
| `MaterialTables` | the MySQL tables of the material lists: columns, names, fields |
| `Material` | `save_all_material_data`: getters, savers, spawned tasks |
| `PbsTree` | the stages of `set_pdms_major_code` ... `set_pbs_node` |
| `ProjectBatch` | both jobs, one after the other and beside leftover tasks |
| `PbsTree_proofs` | sequences, and the theorems about the tree, over `ProjectBatch` |
| `ProjectBatch_proofs` | theorems about the material lists and the types of both jobs |
| `Facets`, `PrimShapes`, `CatalogueShapes` | facet counts; the primitive shapes; the shapes a catalogue describes |
| `UnitMesh` | keys, unit shapes, batches of geometry and the rows of unit meshes |
| `UnitMesh_proofs` | theorems about it |
| `Refno` | a reference on its way through seven texts and numbers |
| `AttrValues`, `Attributes` | attribute values in file, program and database; an element's attributes on their way |
| `Values_proofs` | theorems about `Refno` and `Attributes` |
| `TinyExpr`, `Expressions` | the arithmetic parser; substitutions and the context of an element |
| `CataPoints` | points, directions and geometry of a catalogue component |
| `NounGraph` | noun paths and the queries made of them |
| `NounGraph_proofs` | theorems about it |
| `MCValues` | composes the last six topics for one run; they share no state, each behaviour is about one of them |
| other `MC...` | instances for TLC |

### 2.1 ReadRouting

A **task** has a stack of contexts (its task-locals, entered by
`with_staging_reads` / `with_direct_reads`, inherited only by
`spawn_with_*_reads`) and a stack of **frames**, the collector calls it is in.
A collector is a *plan*: a sequence of steps, each asking one world, calling
another collector, or swallowing an error. `DirectOr`, `StagingOr`, `Cached`
and `Plain` are the shapes the code has: an `if let Some(provider)` first, an
`if let Some(staging)` next, a `#[cached]` body. Values are abstracted to their
**provenance**: the set of databases and providers that contributed, and whether
an error was swallowed on the way. That is exactly what the properties tell
apart, and it is what makes the model small enough to call every collector from
every context.

The world fold (`WorldFold`) is a plan with four parts that an element may need
at any of its levels and in any combination: the path of a spine, a cut, ZDIS
and POSL with its reference lines (`fold_spine`, `fold_cut`, `fold_zdis`,
`fold_posl`). `query_pline` falls through to `implicit_wall_pline`, and a line of a
profile asks for the expression behind it. `MaxFrames` bounds how deep folds
call folds and lines ask for expressions.

Actions: `Request` (application code calls a collector), `Descend` (a collector
calls one), `Answer`, `Fail`, `FailSoftly` (the world asked answers, errs, or
answers with an erring statement inside), `Return` (with the cache insert of
`#[cached]`), `Unwind` (`?` or `if let Ok`), the four scope and spawn
operations, `LeaveScope`, `Finish`.

`Disciplined` is the assumption on application code under which worlds are
isolated: no commit window is opened inside a generation and a task is spawned
with the spawner of the context it is in. The code enforces only half of it
(`with_direct_reads` refuses to run inside staging reads), so the assumption
stays one.

### 2.2 BoxStore and AccelTree

`tree` is a set of leaves `<<refno, box>>`; `refno_index`, `indexed_tree_len`
and `mesh_cache` are the derived fields of the struct. Writers (`sync_refnos`,
`remove_by_refnos`, `replace`, a change through `DerefMut`, a write to the
public field `tree`) are one step each because they need `&mut` and so the write
lock. A ray query holds the read lock from its candidates to its answer and
interleaves, at each await, with other queries and with geometry being
regenerated in the database. A save is create / write / rename with a crash or
an error between any two; files are inodes, so that a renamed file can still be
written through an open handle. A load is check / read / store without a lock
between them, as in `load_aabb_tree`.

Three constants are assumptions on callers, all needed for the refinement (TLC
refutes `LoadFillsEmptyTree`, `SnapshotSurvives` and `EntriesOfExact` when the
respective one is FALSE): `LoadsAlone` (nothing else between a
load's check and its store), `SavesAlone` (saves do not overlap), `LengthTells`
(a write to the public field leaves a size other than the indexed one).

A mesh stands for the distance at which the ray of the model meets it; all
variants of an element's key share the element's geometry. `ids` is maintained
and serialized but read by nothing and is left out. Two equal boxes of one
element are two members of `Boxes`.

### 2.3 CacheInvalidation

ReadRouting says that only the persistent world gets into the caches; this
module says how long a value may stay there. `#[cached]` holds the lock of a
cache for a lookup and again for the store and not across the query, so a fill
is three steps: `Request` (or `ReadLeaf`, for a fold), `Query`, `Store`. The
world transform is a **fold** of `get_ancestor_attmaps` (not cached),
`query_ancestor_refnos` and, of a joint, `get_named_attmap` of the element it
refers to, each looked up in its own cache, and is kept in two caches
(`KeepMat4`, `KeepTransform`). The writer changes one element at a time
(`Modify`, `Move`), collects the changed elements and their owners (`Touched`)
and runs `clear_all_caches_batch`, one statement of which is one `remove_all`,
in the order of the source (`ClearOrder`).

What a value is read from is all that is kept of it: rows with versions
(`Row`), lists of members, ancestors. Every entry carries the **flaws** of its
fill: an update overtook it, it was served an entry that a clear had still to
drop, or an error was swallowed. The flaws are a history and guard nothing; they
say which wrong entries the code's design admits, so that the properties can say
that there are no others.

`Caches` are the caches of an instance, by what their values depend on:
`Covered` ones depend on the element, its members and its owner's noun; the
ancestor and subtree caches on the tree above and below; `Referred` ones on
other elements.

Assumed: one pipeline writes and clears, nouns never change, a deleted element
is unlinked. Left out: the connected element's own world transform (the
recursion), the joints among the ancestors, spline points, `get_world_mat4` as
an entry of its own, keys with a session number, and the limit of ten levels in
`fn::ancestor`.

### 2.4 MajorTable, MaterialTables, Material, PbsTree, ProjectBatch

The material job is `save_all_material_data`: `gen_pdms_major_table`, the
SurrealQL functions (`define_...`), `query_all_site_with_major`, then for every
site the savers of its discipline. A saver is a record: its getter (the queries,
in order, and what an error does to them: `Strict`, `Lenient`, `Guarded`), its
SurrealDB tasks, its MySQL task, whether it skips an empty list and what it does
without a pool. `Gather` is one query, made (`Query`), failed (`GiveUp`) or
overlooked: the searches made by `query_filter_deep_children` take a statement that
erred within an accepted response for an empty list (graph.rs:141-152), so the
getter goes on without rows of that function (`Overlook`, remembered in `unseen`).
`SearchPanics` is the other end: the ventilation list searches with an `unwrap`
(tf.rs:461, graph.rs:231-235), so a lost connection ends the whole call there,
with the sites and savers still queued, and drops the handles of the tasks it
has spawned. `Spawn` is the rest of a saver, `InsertRows`
and `InsertMysql` one step of a task, `Join` and `Return` the end. What a
function computes is abstracted to its name; what matters of a row is the
function it comes from, the fields it has and whether it carries the id of its
element. `Accepted` and `Cells` say what MySQL makes of a row: a field
without a column makes more values than columns, and a row MySQL does not take is
printed and lost.

The plant breakdown structure is one action per stage of `ssc_setting.rs`; each
collects entries, rows and edges that `insert_pe_into_table_with_chunks` saves
in chunks of `ChunkLen` and `insert_relate_to_table` in one call. An id is, in
the code, a hash of concatenated names; here it is the sequence of these names,
so two nodes collide exactly if they hash one text. A name is the set of the
parts `contains` asks for.

`ProjectBatch` composes them: `Again` starts either job once more and `Exit`
ends the program, which drops what still runs. **Faults**: any call to
SurrealDB, MySQL or the file system may fail, an insert into SurrealDB with any
part of it done; the bound is `MaxFaults`.

### 2.5 UnitMesh, CatalogueShapes, PrimShapes, Facets

Elements of a scene are collected in any order (`Collect`: their shape from the
attributes or from a catalogue description, its key, its unit form and its
scale), batches are merged (`Merge`) and the unit shape of every geometry is
written to the row of its key (`SaveRows`), in any order. Lengths are hundredths
of a millimetre, ratios ten-thousandths as the code rounds them; of space one
dimension is left, the line of the axis: it tells apart where a solid's ends
are, how wide they are and which way it points. `Described` is the solid a shape
stands for and `DrawnFrom` the one its row gives after scaling.

`ScenesAssumption` says what a scene may hold: lengths are whole numbers, and
where the code halves what stands between two ends, even ones; a dish has one
of the four profiles `Facets` tabulates; a direction is one of the line (or
zero, or missing); no element hashes to `"1"` or `"2"`, the keys
`fill_basic_shapes` reserves for the shared cylinder and box.

### 2.6 Refno, AttrValues, Attributes

`Refno`: a reference is held, written in one of its forms (`Write`), read from
it (`Read`) and turned to another session (`Turn`). A half is a number below
`Half` (2^32 in the code; a power of two, even at least), a reference the two of
them in one number. `issued` remembers the keys handed out.

`Attributes`: what a file holds of an element is put together (`Parse`,
`Refine`, `Join`, `Fill`), saved as the latest state (`Save`) or as that of a
session (`SaveAt`) and loaded (`Load`), in any order and again, while other
elements get new sessions (`Change`). The row of pe names the element without a
session (`to_table_key`, pe.rs:59-62) and the record with it (`to_pe_key`,
named_attmap.rs:804). Values are variant and data; each
conversion (`OfAttrVal`, `into_json`, `OfField`, ...) does what the code's
match does for that variant.

### 2.7 TinyExpr, Expressions, CataPoints

An expression is a tree; `Text` writes it as the catalogue does, as tokens. The
code's substitutions, parser (`Level`, `power`, `base`, folded at once) and
prefix fallback turn the tokens into a fraction; `Meaning` evaluates the tree
directly, with operators of its own (`Computed`; `%` and `^` among them). The
pattern of `OF` takes the words and blanks before it for part of the attribute's
name and replaces all of it (resolve.rs:266, 306); an attribute of the owner is
looked for past the topmost owner, where there is none (`OwnerOf`). `Evaluate`
evaluates the expressions of one element one after the other in one context, and
the mark `EXPR_HAS_DEFAULT` passes from one to the next. `CataPoints` reads a
component (`ReadComponent`) and resolves its points and geometry
(`ResolveComponent`); each of its texts is evaluated with the mark left aside.
Its reference reads the catalogue directly (`PlaceOf`, `WayOf`).

### 2.8 NounGraph

`find_noun_path` are the simple paths of the graph, grown noun by noun (`Walks`),
and a query keeps what lies at the steps of one of them (`Step`, `Selected`);
`Ask` asks for the relatives of an element of the nouns in a filter, down and up.
A plant is a tree of elements (`IsPlant`), numbered from the top down, whose
owners the graph allows.

## 3. Runs

### Passing

| Run | Question | Bounds |
|---|---|---|
| `routing_collectors` | any collector, the recursive world fold too, from any context: provenance and caches | 1 task, 2 scopes, 2 frames, 2 cached values; 4,921,499 states |
| `routing_tasks` | nested, left and inherited contexts in two tasks that share the caches | 2 tasks, 3 scopes, 2 staging databases |
| `accel_tree` | all operations, saves, loads, restores, crashes: exact lookup, refinement, torn files | 2 tasks, 2 elements, 1 box, 2 inodes |
| `accel_rays` | freshness of cached meshes and the answer of a ray query | 2 elements, 2 distances or no mesh, keys with and without session, 1 regeneration |
| `invalidation` | fills and folds against updates and clears: are entries without an excuse fresh | 3 elements in a chain with a joint, 1 reader, 3 leaf caches and the 2 world caches, 2 updates |
| `batch` | two jobs in any combination, one failing call anywhere: what reaches the stores, what the tree looks like, that every job ends | 13 projects of one or two sites, 2 jobs, 1 fault, chunks of 10; 108,749 states |
| `values` | do meshes, references, attributes, expressions, points and noun paths keep what they mean | about 9,000 starting points: scenes of one or two elements, `Half` = 4, 6 elements and 2 sessions, components of a few expressions and points; 102,040 states |

Why the bounds are enough: routing decisions depend on the context and on the
kind of step, not on how many elements there are; two tasks are what it takes to
share a cache or lose a task-local; the tree's hazards need an element that is
refreshed and one that is not, and a box that is there and one that is gone; two
inodes are the file and its temporary. Ray queries share nothing but the mesh
cache, and a fill takes effect only under the write-free read lock, so one task
asking again and again meets every order of fills, syncs and regenerations.
Readers share nothing but cache entries, and lookups and stores are atomic, so
to one reader the entries it left behind are those of another; three elements
are a changed one, its owner and one further away, and the second update is the
one that falls between a fill or a clear and the first. The projects of `batch`
put every getter, saver and table to use, with two sites of different
disciplines in one of them, and, for the tree, rooms with and without a level,
doubled, short and unknown names, parts of every kind in two zones and supports
whose fixed node is a room; two jobs are what it takes to insert again and to
overlap; one fault meets every call, and all the code does about a failure is
local to it. Chunks of 10 split stages into several, one of them between a
discipline's row and that of its zone with the same code. Of the values, each is
computed from one element alone or with the ones it meets in one place: two
shapes under one key, two references to other elements, two parameters in one
text, a point defined by another. The scenes pair all shapes of a kind that may
share a key; halves below 4 are of either sign, and the sessions 0, 1 and 3 are
none, equal and different; two sessions of a referenced element are the one in
force and a later one. The theorems have no bound.

### Violations: where the code does not do what a comment says

| Run | Property | Disagreement |
|---|---|---|
| `routing_context_cached` | `NoContextValueCached` | `query_deep_children_refnos_pbs` caches what it read from staging (the world fold does so too, see below) |
| `routing_world_fold` | `WiredReadsStayInTheirWorld` | leaves of `get_world_transform` without the branch of the context read SurrealDB |
| `accel_late_load` | `LoadFillsEmptyTree` | a load overwrites what was written since its check |
| `invalidation_once` | `OncePerBatchIsEnough` | the world caches are dropped before the leaves their folds read, so a fold inside the batch stores a transform made of an old row and it stays |
| `invalidation_deep` | `DeepChildrenAreCovered` | subtrees are cached under their roots, which the batch does not name |

Met on the way, and without a run of their own:

- `get_world_transform` in a context caches what it computed there in
  `GET_WORLD_MAT4` (spatial.rs:247, 707), where direct.rs:309 says that no result
  obtained in a context may be. `routing_context_cached` has the collector
  among its own, and `NoContextValueCached` is the property; its shortest trace is
  that of `query_deep_children_refnos_pbs`.
- A window can be opened inside a generation: `with_staging_reads` refuses
  nothing (staging.rs:71), where direct.rs:22-26 takes the two for exclusive and
  `with_direct_reads` refuses its half. `Disciplined` stands for the other.
- The world fold replaces errors of some of its reads by defaults
  (spatial.rs:313), where staging.rs:8 says that a wired read hands every error
  on as it is.
- A process list whose pool failed has its task spawned and its handle dropped
  (gy.rs:152), though the call says that it waits for the saves (mod.rs:176).
  `NothingIsLostSilently` names the exception.

### Liveness

`EveryCallEnds` (run `batch`) is the one liveness property: every job ends,
whatever fails in it. It assumes weak fairness of `MaterialJob`, `Tasks` and
`PbsJob`: tokio schedules a task that can go on, and awaited calls to the
databases are answered or err. The caller, `Again` and `Exit`, is under no
fairness. All other properties are safety properties and assume none.

### What the properties leave out

Where the code does not do what one would like and no comment or test says that
it does, the property names the case as an exception, next to it:

- *Batch*: the length of bends is in no column (gy.rs:159); pipe rows of water
  sites with nothing else (gps.rs:65) and of process sites (gy.rs:158) are not
  saved, or not to MySQL; process lists without a pool are forgotten
  (gy.rs:152), and so are all lists of a call that the search of ventilation
  rows ends in a panic (tf.rs:461, graph.rs:235); a strict list is handed on
  without the rows of a function whose search erred within an accepted response
  (graph.rs:141-152); ventilation rows lose their id (`RerunsKeepOneRow`). In
  the tree a support's fixed node takes the id of a room, and a discipline whose
  zone has its own code and whose row was lost with its chunk is replaced by the
  zone's, below itself (`OwnersNeverLoop`, ssc_setting.rs:642), edges of parts
  collide (`EveryRowIsListed`), rooms without a level have disciplines and no
  node (`OrphansHaveAReason`).
- *Meshes*: a cone on its point and one ending in it share a key (snout.rs:148),
  an elliptical dish is scaled as a hemisphere (dish.rs:222), a tiny knuckle
  radius is rounded away (dish.rs:114), a sloped cylinder of negative height is
  turned only if sheared (category.rs:416), a reversed eccentric snout keeps its
  offset (category.rs:290), a dish does not heed the flag of its axis
  (category.rs:226).
- *References*: the display of a reference with a session is read by nothing
  (refno.rs:576), halves of 2^31 and more break texts (refno.rs:508), the
  derived serialisation of a reference is not what its reader accepts
  (refno.rs:610).
- *Attributes*: references with a session become null when saved again
  (named_attmap.rs:789), doubles beyond a single, texts with a zero character
  and types the noun does not declare are lost (`Survives`); an element loaded
  as of a session and saved as the latest keeps the session in its record and
  not in its row, which leads to the latest record (`RowAndRecordAgree`); ends
  not yet read as points make another hash (named_attmap.rs:1340).
- *Expressions*: the mark stays set after the first data set property
  (resolve.rs:341); `PARA 1` without brackets also rewrites the start of `PARA
  10` (resolve.rs:447); two minus signs are dropped (resolve.rs:582); a bare
  default stands for itself inside a product; a word or number right before an
  attribute OF a neighbour is taken for part of its name and lost
  (resolve.rs:266, 306: `4 TIMES PWID OF PREV` is 40 and `TWICE PWID OF PREV` is
  0); a sign followed by another operator loops in the parser (expr_eval.rs:582)
  and a data set property that names itself, or points that go round, recurse
  (resolve.rs:344, expression/resolve.rs:469): such texts are not among the
  inputs.
- *Points*: a reference direction that is a point is looked up under the number
  -1 (resolve_helper.rs:399); an absent PAAX shifts PBAX (query_cata.rs:184); `P
  3` with its space removed is not understood for geometry
  (expression/resolve.rs:280).
- *Nouns*: elements within elements of their own noun may be missed
  (noun_graph.rs:154).

## 4. Proofs

`ReadRouting_proofs`: `TypeCorrect` and
`CachesArePersistent`, with no assumption on callers; `WorldsAreIsolated`, from
`Disciplined`. The inductive invariant has two parts. `Shape` says of each task
that its frames and scopes fit together: a frame was entered under the contexts
on the task's stack at that moment. `Provenance` says of each frame of a
faithful collector that what it gathered so far came from the world of its
context. The caches that are filled only outside contexts then hold values of
SUL_DB alone: the frame that fills one has no context, so its provenance is
`SUL_DB`'s, so what later readers get from the cache is too. Isolation alone
would not be inductive: a frame's value comes from the frames it calls and the
caches it reads, so all three must be strengthened together.

`AccelTree_proofs`: `TypeCorrect`; `LookupsAreExact` from `IndexAgrees` (an
index whose recorded size is the tree's agrees with the tree), which is
inductive with the type invariant and uses that a raw restore records size 0
and `DerefMut` a size no tree has; `CachedMeshesAreCurrent` from `MeshInv`,
which adds that a mesh fetched and not stored is current too and rests on
writers being excluded while a query is between fetch and store;
`ImplementsStore` and `SnapshotIsNeverTorn` from `FileInv`: a saver's temporary
file is its own and holds the tree, a loader's bytes are the file's and the tree
is still empty. The refinement mapping projects the leaves to boxes per element
and reads the durable snapshot through the path.

`TheNearestHitWins` (`NearestWins`) from `BestInv`: the best hit of a query
under way is the least of the hits seen. That a set of distances has a least
element follows from the well-foundedness of `<` on the naturals, a theorem of
the library, and needs no induction of its own.

`CacheInvalidation_proofs`: `TypeCorrect`; `BatchCoversItsCaches` and
`WorldTransformsAreExcused`, both from `FreshInv`. Freshness of entries is not
inductive: what is stored was answered before, so `ReadersRight` says of a call
between query and store that its value is right unless an update has flawed it,
of a fold that what it has gathered so far is, and that a fold's call is the one
for the leaf it needs. Of the ancestors' cache only one thing is invariant, that
it tells roots from others (`Right`); it is all the fold asks of it, and it
survives because an element whose owner changes is in the batch. An update
(`ChangeFresh`) leaves the value of every key outside its batch alone
(`UntouchedValue`) and flaws every fill under way; a clear (`WriterFresh`) has
still to drop what it has not dropped. No assumption is made on requests, tree
shape or number of readers. The assumptions on constants are that the reference
of an element is an element or none and that no element starts as its own
owner.

`ProjectBatch_proofs`: `OneRowPerElement` (`RerunsKeepOneRow`) from `RowsInv`:
all rows but those of ventilation are keyed by their element, in the store and
in the tasks that will write them. `StrictListsLackOnlyTheUnseen`
(`StrictListsAreWhole`) from `ListsInv`: what is gathered of a strict getter is
whole but for the functions whose search was overlooked, and `Progress` says of
the getter under way that it has the rows of the queries it is past; the list of
the savers enters by `StrictGetters`, which says of each saver outside
`Tolerant` that all its queries are strict.

`RowsReachTheirStores` (`NothingIsLostSilently`) from `DeliveryInv`, which
follows each row a getter returned into each store: it is there, or its insert
failed, or a task that is waited for still has its list before it
(`Waiting`). When the program has ended no such task is left, which is the
property. Two things make it inductive. A task of an earlier job is never waited
for: those of this job are joined before it returns. And rows come from queries
of their getter alone (`Sourced`): `WayToStores` goes through the savers and
tables of the code and shows that a function a getter asks goes to both stores,
with every field in a column that MySQL has or one of the exceptions among its
rows. A task whose handle a panic dropped is not waited for; its call is among
the `panicked` ones, which the property excepts.

`TypesAlwaysHold` (`TypeOK`): `WhereInv` for the counters, the stage and the
disciplines, which only sites and zones of the project get (`MajorsArePlaced`);
`GettingInv` for the getters: every place of the queue has a saver, and the
functions whose rows are collected are among those the scripts define. The rest
of it is in the invariants above and below. The assumptions of all of these are
those on the bounds and that a project's lists are finite.

`PbsTree_proofs`: `OwnersAlwaysEnd` (`OwnersNeverLoop`). The code computes ids
by hashing names; what keeps the owners from going round is that names of
different kinds differ (`NamesAssumption`), that the sheets list a node after
its owner (`SscAssumption`) and have two levels (`TwoLevels`), and that of two
rows of one id in one list the first one is kept. `TreeInv` says so of the
tables: an id in `pbs` and its owner are related as one of the kinds of node is
to the kind above it (`Owned`: `Placed`, or `Listed` for disciplines), and no
row is its own owner before the first failure. For the latter, a batch that is
to be inserted whole has before every discipline below itself a row of the same
id that is not (`Led`), for which reason a lost chunk is an exception of the
property: the proof attempt found it, and chunks of 10 let TLC see it. From
`TreeInv` the property follows by a ladder of sets (`LadderTo`): the fixed
nodes, each a step below one before it in the sheet, then factories, install
nodes, levels, rooms, disciplines, those of zones, fixed nodes of supports,
parts, children, members.

`OrphansAlwaysHaveAReason` (`OrphansHaveAReason`) and `EveryRowIsAlwaysListed`
(`EveryRowIsListed`) say what the tables hold after all stages of runs without
failures. The first comes from `PlaceInv`: a stage that is done has left its
rows, in the table or in the batch still to be saved (`StagesDone`, `Coming`);
every row but the root has an owner that is there or is away for a reason
(`Rooted`, `Away`); and a batch under way fits what is there (`BatchFits`). Each
stage needs its own argument why the owners of what it adds come before it
(`Deep` follows a part's list down to members). Since the owners end, those of a
row lead to the root or to one that is away (`LadderTo` again). For the second,
`Ordered` gives the owner and the order the code computes for a node and
`Crowded` the nodes that may share them. `ListInv` says that every edge, stored
or in the batch, is one of these (`EdgesAre`), that every row has its edge
stored or awaited (`RowsListed`), and that the unit lists the factories whatever
order their `HashMap` had in this run (`UnitsListed`). That no two uncrowded
nodes have one key (`OnePlace`, `FreePlace`, `OneChild`) needs what else the
sheets and projects are: the unit owns none of the fixed nodes
(`UnitAssumption`), sites with one code list their zones alike (`OneOrder`: in
the table of disciplines all sites with code W do, and the zone EQUI of the site
EQUI is alone in it), an element has one list of children and parts are found
under zones (`ElementsAssumption`).

The first part of the module is about sequences: that `FlattenSeq` of a
sequence of sequences is the one with their members (`JoinedExists`,
`Flattened`, `JoinedLists`, `EachList`), which its fold does not say by itself.

`Values_proofs`, attributes: `HistoryIsKept` (`HistoryMeansItsTime`) from `HistInv`,
with `AtSessionIsRight` for the choice of the session in force, and no
assumption; `RefineLetsExplicitWin` (`ExplicitWins`) from `WholeInv`, whose part
`HalvesRight` says what refining has moved between the two halves so far;
`RowAndRecordAreOneState` (`RowAndRecordAgree`) from `RowInv`: row and record
name one element, noun and owner, and one session unless an element of a session
was saved as the latest. The last two
assume `NamesAreApart` (nouns and user-defined names do not collide).
`SavedAttributesComeBack` (`AttributesComeBack`), `LoadedKeepsItsHash`
(`CataHashComesBack`) and `RecordsDoNotDecay` (`SavingAgainChangesNothing`) from
`AttInv`: the attributes at hand are well-formed (`Sound`), what is saved of them
is their record (`RecordOf`), and what comes back of a record is what fits the
noun's declared types (`Fits`); so each conversion is proved to be undone, or
to lose what `Survives` says, variant by variant, and the invariant is what lets a
loaded state be saved and loaded again. `FileUdasComeBack` (`UdasComeBack`) from
`UdaInv`, the same for user-defined attributes, whose types come from the file.
These assume `UdasAreTyped` and `FilesAreTyped`: a file's value has the type its
description declares.

`Values_proofs`, references: `ReferencesStayTheirs` (`HandedOnUnchanged`) from
`RefnoInv`: whatever is held or written leads to the reference it began as
(`LeadsTo`, `RefersTo`) or, once a text was spoilt, to no other than that one or
none; the arithmetic of packing two halves in one number and splitting it again
is proved for any even `Half`. `KeysTellRecords` (`KeysNameRecords`): keys
handed out for two sessions or elements differ, because the text of a key gives
back the record it was made of (`RecordText`).

`NounGraph_proofs`: `RelativesAreAlwaysFound` (`RelativesAreFound`), for any
finite noun graph and any plants it allows (`PlantsAssumption`). The paths, the
elements a query meets and the line of owners are recursive functions on
numbers, so what each step does is an induction over the steps, made with the
least element that fails (`Least`, `SetInduction`). Nothing else is found
because going to members, or to owners, does not leave what lies below, or above
(`SelectedWithin`). What has to be found is, because its line of owners, if it
repeats no noun, is one of the paths (`LineIsAPath`, from `WalksHave`: every
simple path is grown in no more steps than there are nouns), and along a path no
step turns its nouns away and the last one keeps what it meets (`SqlFollows`,
`LineIsMet`).

`UnitMesh_proofs`: `GeometryStays` (`GeometryIsKept`), `EndsStayInPlace`
(`CatalogueEndsStayInPlace`), `UnitRowsKeepTheirKey` (`UnitsKeepTheirKey`) and
`SolidsStayThemselves` (`SolidsAreReproduced`), for any scenes that satisfy
`ScenesAssumption`, any number of batches and any order of saving. All four rest
on `MeshInv`: batch and whole are maps of the instances of elements
(`IsBatch`), under each key as many as elements of it were collected
(`CountInv`), each collected element is in one of them (`HeldInv`), and a row is
the unit of an instance of the whole (`RowsInv`). Counting is what
needs the strengthening: it is the sum over batch and whole that is preserved
when one is merged into the other and cleared, list by list.

What holds of the state then follows from what holds of each conversion, kind
by kind. `DescribedIsInPlace` goes through the catalogue's types with ends and
their cases (reversed, negative, sheared, without axis).
`DrawablesAreShapes` says that what the attributes or a catalogue description
give is a shape with whole dimensions, and `check_valid` makes those it has to
divide by positive; `ShapesKeepTheirKey` that the unit
of such a shape has the shape's own key, which needs that a rounded ratio
rounds to itself and that facets counted at the true size are carried and
not counted again. `SameKeyReproduced` says that two shapes of one key have
units that, stretched by the transform of either, give its own ends and lengths up
to the rounding: two shapes of one key agree in every ratio the key keeps
(`NearRatios` bounds what rounding costs, in terms of `Size`), and keys of
different kinds differ in their first member (`Tags`), but for cylinders of both
types that are not sheared, whose units agree as well.
The four exceptions of `Spoilt` are needed: each is used in the step of its own
kind and nowhere else. Rows of tubes are left to their transform (`TUBI_GEO_HASH`).

Assumptions are evaluated by TLC in the run whose instance they are about: those
on attributes (`AttributesAssumption` of `MCValues`) and references
(`HalfAssumption`, `RefnosAssumption`) and scenes (`ScenesAssumption`) and
plants (`PlantsAssumption`) in `values`; those on sheets, lists and names,
bounds and chunks in `batch`.  The sheets of the repository (`ssc_level.xlsx`
and the table of disciplines) satisfy those on sheets.

Only model-checked: the liveness property `EveryCallEnds` (the prover has no
`ENABLED`); and the properties of
expressions and of catalogue points and geometry, which compare computations over
finite data. Those are recursive over texts and trees, and what such a
definition computes for every input needs induction over data, whose theorems
of the library take an operator as a parameter that no installed prover can
instantiate.

## 5. Not modelled

Vertices and triangles, polylines (`wire.rs`), CSG, transforms and holes, whose
content is floating-point geometry; SQL, spreadsheet and file formats; wording
of logs; code that is part of no build (the query builder, the sea-orm
conversions); in expressions, comparisons and `IFTRUE` (an external crate),
irrational functions, the suffix mm and the rounding to three digits; in
geometry, turns about the axis; the default names the database computes for
loaded elements. How a component's description is filled from the catalogue
outside this repository is taken as given. `PROJECT.json` lists the parts left
out with the reason for each.

## 6. Plan

1. *History*: backup and update as separate statements; query by session.
2. *MixedReads*: the database half and the direct half of one collector against
   one definition (`query_group_by_cata_hash`, the SPRE filters).
3. The recursion of the world fold through connected elements.
4. Proofs: history completeness under ordered statements; agreement of the two
   halves of a collector.
