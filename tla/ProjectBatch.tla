---------------------------- MODULE ProjectBatch ----------------------------
(***************************************************************************)
(* The two jobs a project is put through, the material lists and the plant *)
(* breakdown structure, by a program that calls them in any order and      *)
(* again. They share the table pdms_major; tasks a material job has spawned *)
(* and forgotten run on beside the next job, until the program ends.       *)
(***************************************************************************)
EXTENDS Material, PbsTree

CONSTANTS
  Projects,   \* elements: SITE -> its name, its ZONEs and the nouns found below it,
              \* rooms, parts: ZONE -> the parts under it
  MaxRuns     \* bound: jobs

ASSUME RunsAssumption == MaxRuns \in Nat \ {0}

\* What a project holds: its parts, and the names that ids are made of.
RoomsOf(p) == UNION {Range(p.rooms[f]) : f \in DOMAIN p.rooms}
PartsIn(p, zone) ==
  Range(p.parts[zone].bran) \union Range(p.parts[zone].equi)
    \union Range(p.parts[zone].stru) \union Range(p.parts[zone].rest)
PartsOf(p) == UNION {PartsIn(p, z) : z \in DOMAIN p.parts}
ChildrenOf(p) == UNION {Range(x.children) : x \in PartsOf(p)}
FixedNames ==
  {Root[1], AboveRoot[1], Unit[1]}
    \union {l.name : l \in Range(SscLevels)} \union {l.owner : l \in Range(SscLevels)}
NumbersOfRooms(p) ==
  {r.name : r \in RoomsOf(p)} \union {x.room : x \in PartsOf(p)}
    \union {x.fix[1] : x \in {y \in PartsOf(p) : y.fix # <<>>}}
NamesByKind(p) ==
  <<FixedNames, DOMAIN p.rooms, NumbersOfRooms(p), {x.id : x \in PartsOf(p)},
    {c.id : c \in ChildrenOf(p)}, UNION {Range(c.members) : c \in ChildrenOf(p)}>>

\* Lists are finite, and things of two kinds never bear one name: an element is
\* at one depth of its tree, and no factory is named like a room.
IsList(s) == s \in Seq(Range(s))
ASSUME ListsAssumption ==
  \A p \in Projects :
    /\ IsFiniteSet(DOMAIN p.elements)
    /\ IsFiniteSet(DOMAIN p.rooms) /\ IsFiniteSet(DOMAIN p.parts)
    /\ \A f \in DOMAIN p.rooms : IsList(p.rooms[f])
    /\ \A z \in DOMAIN p.parts :
         /\ IsList(p.parts[z].bran) /\ IsList(p.parts[z].equi)
         /\ IsList(p.parts[z].stru) /\ IsList(p.parts[z].rest)
    /\ \A x \in PartsOf(p) : IsList(x.children)
    /\ \A c \in ChildrenOf(p) : IsList(c.members)
ASSUME NamesAssumption ==
  \A p \in Projects :
    /\ \A i, j \in 1 .. 6 : i < j => NamesByKind(p)[i] \intersect NamesByKind(p)[j] = {}
    /\ \A f \in DOMAIN p.rooms : \A r \in RoomsOf(p) :
         <<f, r.level>> \notin {InstallLevel(f), InstallArea(f)}

\* Parts are found under zones, and an element has one list of children.
ASSUME ElementsAssumption ==
  \A p \in Projects :
    /\ DOMAIN p.elements \intersect DOMAIN p.parts = {}
    /\ \A x, y \in PartsOf(p) : x.id = y.id => x.children = y.children
    /\ \A c, d \in ChildrenOf(p) : c.id = d.id => c.members = d.members

materialVars == <<run, defined, queue, at, data, tasks, gathered, panicked, stores>>
vars == <<majors, project, pc, faults, materialVars, pbsVars>>

Begins == {"majors", "pbs_majors"}
Ends == {"returned", "failed", "pbs_done", "pbs_failed"}

Init ==
  /\ project \in Projects /\ pc \in Begins /\ faults = 0 /\ majors = <<>>
  /\ defined = {} /\ run = 1 /\ queue = <<>> /\ at = 0 /\ data = NoRows
  /\ tasks = {} /\ gathered = {} /\ surreal = {} /\ mysql = {} /\ failed = {} /\ panicked = {}
  /\ pbs = <<>> /\ edges = <<>> /\ rooms = <<>> /\ zones = <<>> /\ batch = NoBatch

MaterialJob == SaveAll /\ UNCHANGED pbsVars
Tasks == TaskStep /\ UNCHANGED pbsVars
PbsJob == PbsStep /\ UNCHANGED materialVars

\* The caller: another job, or the end, when the runtime drops what still runs.
Again ==
  /\ pc \in Ends /\ run < MaxRuns
  /\ pc' \in Begins /\ run' = run + 1
  /\ zones' = <<>> /\ rooms' = <<>>
  /\ UNCHANGED <<majors, project, faults, defined, queue, at, data, tasks, gathered, panicked, stores,
                 pbs, edges, batch>>
Exit ==
  /\ pc \in Ends /\ pc' = "exited" /\ tasks' = {}
  /\ UNCHANGED <<majors, project, faults, run, defined, queue, at, data, gathered, panicked, stores, pbsVars>>

Next == MaterialJob \/ Tasks \/ PbsJob \/ Again \/ Exit
Spec ==
  Init /\ [][Next]_vars /\ WF_vars(MaterialJob) /\ WF_vars(Tasks) /\ WF_vars(PbsJob)
----------------------------------------------------------------------------
(***************************************************************************)
(* Properties of both jobs.                                                *)
(***************************************************************************)
\* The types of all variables: tasks have something left to do, a getter has
\* its position within its queries, edges are kept by owner and order.
TypeOK ==
  /\ project \in Projects /\ run \in 1 .. MaxRuns
  /\ MaterialTypeOK
  /\ pc \in Begins \union Ends \union
       {"define", "define_tf", "sites", "save", "join", "exited",
        "pbs_fixed", "pbs_rooms", "pbs_room_nodes", "pbs_room_majors", "pbs_zone_list", "pbs_zones"}
  /\ DOMAIN rooms \subseteq DOMAIN project.rooms
  /\ \A z \in Range(zones) : z[1] \in DOMAIN project.parts /\ z[2] \in {"BRAN", "EQUI", "SUPP"}
  /\ batch.step \in {"idle", "insert", "relate"}

\* Every job the program starts comes to an end, whatever fails in it, if the
\* calls it awaits are answered: the loops over sites, getters and zones
\* advance after errors too, and joining waits only for tasks that end.
EveryCallEnds == pc \in Begins ~> pc \in Ends

(***************************************************************************)
(* Properties of the tree.                                                 *)
(***************************************************************************)
\* The rows from which following the owner leads into a set. TreeDepth bounds
\* the steps, a row further down would count as lost: the fixed nodes one below
\* another, then factory, fixed node, level, room, discipline, that of a zone,
\* fixed node of supports, part, its child and a member of that.
TreeDepth == Len(SscLevels) + 10
LeadingTo(base) ==
  LET up[n \in 0 .. TreeDepth] ==
        IF n = 0 THEN base
        ELSE LET S == up[n - 1] IN S \union {id \in DOMAIN pbs : pbs[id] \in S}
  IN up[TreeDepth]
Tops == {id \in DOMAIN pbs : pbs[id] \notin DOMAIN pbs}

Parts == PartsOf(project)
Rooms == RoomsOf(project)
RoomIds == {<<r.name>> : r \in Rooms}
FixedIds == {<<p.fix[1]>> : p \in {q \in Parts : q.fix # <<>>}}

\* The disciplines whose zone has their own code, EQUI in the sheet: its node
\* has their id, and hangs below itself if it is the one that is saved.
OwnCodes ==
  {MajorId(r.name, m.code) : r \in Rooms, m \in {n \in Range(SheetMajors) : n.above = n.code}}

\* Following the owners of rows of pbs leads to the root or to a row that is
\* not there, at any moment and whatever failed: ids are hashes of names, so a
\* loop is what one name too few in a hash makes, or a second row of one id
\* that wins. Two exceptions: a support's fixed node that has taken a room's
\* id, and a discipline with its own code whose row was lost with a chunk that
\* ended between it and its zone.
OwnersNeverLoop ==
  DOMAIN pbs \subseteq LeadingTo(Tops \union (RoomIds \intersect FixedIds)
                                    \union (IF faults = 0 THEN {} ELSE OwnCodes))

NoRoomNode == {<<r.name>> : r \in {s \in Rooms : ~Numeric(s)}}
UnknownRooms ==
  {<<x[1].room, majors[x[2]]>> :
     x \in {y \in Parts \X (DOMAIN majors \intersect DOMAIN project.parts) :
               y[1] \in PartsIn(project, y[2]) /\ y[1].room \notin {r.name : r \in Rooms}}}

\* After a run without failures, a row below no root is in a room without a
\* level, whose disciplines are stored and whose own node is not
\* (ssc_setting.rs:576, :660), or a part in a room the project does not list.
OrphansHaveAReason ==
  (pc = "pbs_done" /\ faults = 0) =>
    DOMAIN pbs \subseteq LeadingTo({Root} \union NoRoomNode \union UnknownRooms)

Edged(id) == \E at_ \in DOMAIN edges : at_[1] = pbs[id] /\ edges[at_] = id
\* Where two nodes may have one key: parts are counted from 0 in every zone and
\* for every kind, fixed nodes with them; all STRU of a fixed node have order 0
\* and all REST 1; a fixed node that is a room has disciplines of these orders.
SharesItsOrder(id) ==
  id \in FixedIds \union {<<p.id>> : p \in Parts} \/ pbs[id] \in FixedIds \intersect RoomIds

\* After a run without failures, every row is listed by its owner (edges are
\* keyed by owner and order, and a key that is taken loses one of the two),
\* except parts, fixed nodes and the disciplines of a room that is one.
EveryRowIsListed ==
  (pc = "pbs_done" /\ faults = 0) =>
    \A id \in DOMAIN pbs : id = Root \/ SharesItsOrder(id) \/ Edged(id)
=============================================================================
