------------------------------ MODULE PbsTree ------------------------------
(***************************************************************************)
(* The plant breakdown structure (ssc_setting.rs): a second tree over the  *)
(* elements, fixed nodes / factories / levels / rooms / disciplines / parts*)
(* in table pbs with the edges pbs_owner. Each stage collects rows and     *)
(* edges and saves them by two calls; errors of a save are printed only.   *)
(*                                                                         *)
(* The id of a node that is no element is the hash of a concatenated name; *)
(* it stands here as the sequence of the parts of that name, so that two   *)
(* nodes have one id exactly if they hash the same text. An element's id   *)
(* is its reference number.                                                *)
(***************************************************************************)
EXTENDS MajorTable

CONSTANTS
  SscLevels,  \* ssc_level.xlsx: [name, owner] of the fixed nodes
  ChunkLen    \* MAX_INSERT_LENGTH

ASSUME ChunkAssumption == ChunkLen \in Nat \ {0}

VARIABLES
  pbs,     \* table pbs: id -> owner
  edges,   \* table pbs_owner, by its ids [owner, order]: <<owner, order>> -> node
  rooms,   \* the rooms of each factory, as query_all_room_name found them
  zones,   \* <<zone, kind of part>> still to do by set_pbs_node
  batch    \* rows and edges being saved

pbsVars == <<pbs, edges, rooms, zones, batch>>

Absent == "none"
Root == <<"root">>
AboveRoot == <<"above">>
Unit == <<"unit">>
NoBatch == [rows |-> <<>>, edges |-> <<>>, step |-> "idle"]

\* The sheet lists a node after the one that owns it.
ASSUME SscAssumption ==
  /\ SscLevels \in Seq(Range(SscLevels))
  /\ \A i, j \in DOMAIN SscLevels : i <= j => SscLevels[i].owner # SscLevels[j].name
  /\ \A i \in DOMAIN SscLevels : <<SscLevels[i].name>> \notin {Root, AboveRoot}
\* It lists every node that owns one, and the unit, which owns none of the sheet.
SscNames == {l.name : l \in Range(SscLevels)}
ASSUME UnitAssumption ==
  /\ Unit[1] \in SscNames
  /\ \A l \in Range(SscLevels) : l.owner \in {NoCell} \union (SscNames \ {Unit[1]})

\* What a stage collects: a row of table pbs, its edge relate
\* node->[owner, order]->owner, or both.
Node(id, owner, order, what) == [id |-> id, owner |-> owner, order |-> order, what |-> what]
Both == {"row", "edge"}
Linked(id, owner, order) == <<Node(id, owner, order, Both)>>
Picked(entries, what) == Each(entries, LAMBDA i, e : IF what \in e.what THEN <<e>> ELSE <<>>)

(***************************************************************************)
(* The stages.                                                             *)
(***************************************************************************)
FixedNodes ==
  LET owner(l) == IF l.owner = NoCell THEN Root ELSE <<l.owner>>
      node(i, l) == Linked(<<l.name>>, owner(l), i)
  IN <<Node(Root, AboveRoot, 0, {"row"})>> \o Each(SscLevels, node)

\* A BTreeSet of RoomInfo, which is compared by name alone: of two rooms of one
\* name the first stays.
OnePerName(seq) ==
  Each(seq, LAMBDA i, r : IF \E k \in 1 .. i : seq[k].name = r.name THEN <<>> ELSE <<r>>)

InstallLevel(f) == <<f, "levels">>
InstallArea(f) == <<f, "areas">>
\* The second character of a room's name is its level, if it is a digit; a
\* level is listed by the first of its rooms.
Numeric(r) == r.level # "letter"
RoomNodes(f) ==
  LET level(r) == <<f, r.level>>
      listed(i, r) == \E k \in 1 .. i : rooms[f][k].level = r.level
      room(i, r) ==
        IF ~Numeric(r) THEN <<>>
        ELSE (IF listed(i, r) THEN <<>> ELSE Linked(level(r), InstallLevel(f), r.level))
               \o Linked(<<r.name>>, level(r), i)
  IN Each(rooms[f], room)
FactoryNodes(order, f) ==
  Linked(<<f>>, Unit, order) \o Linked(InstallLevel(f), <<f>>, 0)
    \o Linked(InstallArea(f), <<f>>, 1) \o RoomNodes(f)

\* The disciplines of the sheet and, below each, those of its zones. A zone's
\* node is named by the room and the code of the zone, whatever the site.
SheetMajors ==
  Each(SheetLevels, LAMBDA i, site :
         <<[code |-> site.code, above |-> NoCell, order |-> i]>>
           \o Each(site.zones, LAMBDA j, row :
                     <<[code |-> row.zoneCode, above |-> site.code, order |-> j]>>))
\* The sheet has two levels: what is above a zone is above no site.
ASSUME TwoLevels ==
  \A m, n \in Range(SheetMajors) :
    m.above = n.code /\ m.above # m.code => n.above \in {NoCell, n.code}
\* Groups of one code list their zones alike, and a zone that has the code of
\* its group is alone in it.
ASSUME OneOrder ==
  \A m, n \in Range(SheetMajors) :
    /\ m.above = n.above /\ m.order = n.order => m.code = n.code
    /\ m.above = n.code /\ n.above # NoCell => m.code = m.above

MajorId(room, code) == <<room, code>>
RoomMajorNodes(room) ==
  LET above(m) == IF m.above = NoCell THEN <<room>> ELSE MajorId(room, m.above)
  IN [i \in DOMAIN SheetMajors |->
        Node(MajorId(room, SheetMajors[i].code), above(SheetMajors[i]), SheetMajors[i].order, Both)]

(***************************************************************************)
(* The parts under a zone: BRAN, EQUI and the supports (STRU and REST).    *)
(***************************************************************************)
\* A part in no room is skipped.
InRoom(node) == node.room # Absent
Part(i, node, major) == Linked(<<node.id>>, MajorId(node.room, major), i)

set_pbs_bran_node(nodes, major) ==
  LET bran(i, node) ==
        IF ~InRoom(node) THEN <<>>
        ELSE Part(i, node, major)
               \o Each(node.children, LAMBDA j, c : Linked(<<c.id>>, <<node.id>>, j))
  IN Each(nodes, bran)

\* The members of a child, which are looked up in a map by their owner.
Members_unnumbered(c) == Each(c.members, LAMBDA k, m : Linked(<<m>>, <<c.id>>, 0))
Members(c) == Each(c.members, LAMBDA k, m : Linked(<<m>>, <<c.id>>, k))

\* A SUBE that is no key of the map is left by `continue` before its row is
\* pushed; its edge is in.
SubeIn_skipped(node, j, c) ==
  <<Node(<<c.id>>, <<node.id>>, j, IF c.noun = "SUBE" THEN {"edge"} ELSE Both)>>
    \o Members(c)
SubeIn(node, j, c) ==
  IF c.noun # "SUBE" THEN Linked(<<c.id>>, <<node.id>>, j)
  ELSE <<Node(<<c.id>>, <<node.id>>, j, IF c.members = <<>> THEN {"edge"} ELSE Both)>>
         \o Members(c)
set_pbs_equi_node(nodes, major) ==
  LET equi(i, node) ==
        IF ~InRoom(node) THEN <<>>
        ELSE Part(i, node, major) \o Each(node.children, LAMBDA j, c : SubeIn(node, j, c))
  IN Each(nodes, equi)

SupportChildren(node, nouns) ==
  Each(node.children,
       LAMBDA j, c : Linked(<<c.id>>, <<node.id>>, j)
                       \o (IF c.noun \in nouns THEN Members(c) ELSE <<>>))

\* find_supp_fix_room_code: the room number of a support's name; the serial
\* number it finds too is not used.
FixedId(node) == <<node.fix[1]>>
OnlyStru == {"HVACSU", "ELEMSU", "ELELSU"}
set_pbs_supp_and_stru_node(stru, rest, major) ==
  LET nodes == stru \o rest
      plain(i, node) ==
        IF ~InRoom(node) THEN <<>> ELSE Part(i, node, major) \o SupportChildren(node, {"FRMW"})
      named(node) == InRoom(node) /\ node.fix # <<>>
      firstOfFix(i, node) ==
        \A k \in 1 .. i : named(nodes[k]) => FixedId(nodes[k]) # FixedId(node)
      support(i, node) ==
        IF ~named(node) THEN <<>>
        ELSE (IF firstOfFix(i, node)
              THEN Linked(FixedId(node), MajorId(node.room, major), i) ELSE <<>>)
               \o Linked(<<node.id>>, FixedId(node), IF node.noun = "STRU" THEN 0 ELSE 1)
               \o SupportChildren(node, {"FRMW", "HANG"})
  IN IF major \in OnlyStru THEN Each(stru, plain) ELSE Each(nodes, support)

(***************************************************************************)
(* Saving.                                                                 *)
(***************************************************************************)
\* insert ignore: of two rows of one id the first stays.
IdsOf(rows) == {rows[i].id : i \in DOMAIN rows}
FirstRow(rows, id) ==
  CHOOSE i \in DOMAIN rows : rows[i].id = id /\ \A j \in 1 .. i - 1 : rows[j].id # id
LastRow(rows, id) ==
  CHOOSE i \in DOMAIN rows : rows[i].id = id /\ \A j \in i + 1 .. Len(rows) : rows[j].id # id
Inserted_replacing(table, rows) ==
  [id \in IdsOf(rows) |-> rows[LastRow(rows, id)].owner] @@ table
Inserted(table, rows) ==
  InsertIgnore(table, [id \in IdsOf(rows) |-> rows[FirstRow(rows, id)].owner])

\* The edges of one call: a key that is there, or comes twice, is refused, or
\* replaced, as the database has it.
KeyOf(e) == <<e.owner, e.order>>
KeysOf(es) == {KeyOf(e) : e \in Range(es)}
Related(table, es) ==
  LET of(key) == {i \in DOMAIN es : KeyOf(es[i]) = key}
      first == [key \in KeysOf(es) |-> es[CHOOSE i \in of(key) : \A j \in of(key) : i <= j].id]
      last == [key \in KeysOf(es) |-> es[CHOOSE i \in of(key) : \A j \in of(key) : j <= i].id]
  IN {InsertIgnore(table, first), InsertIgnore(last, table)}

Chunk(rows, k) == SubSeq(rows, (k - 1) * ChunkLen + 1,
                         IF k * ChunkLen < Len(rows) THEN k * ChunkLen ELSE Len(rows))
Chunks(rows) == (Len(rows) + ChunkLen - 1) \div ChunkLen

\* One statement per chunk: a statement that fails loses its chunk, a call that
\* fails ends the function. The edges are saved in any case.
insert_pe_into_table_with_chunks ==
  /\ batch.step = "insert"
  /\ LET rows == batch.rows
         but(ks) == FlattenSeq([k \in 1 .. Chunks(rows) |-> IF k \in ks THEN <<>> ELSE Chunk(rows, k)])
     IN \/ NoFault /\ pbs' = Inserted(pbs, rows)
        \/ \E k \in 1 .. Chunks(rows) :
             /\ Fault
             /\ \/ pbs' = Inserted(pbs, but({k}))
                \/ pbs' = Inserted(pbs, but(k .. Chunks(rows)))
  /\ batch' = [batch EXCEPT !.step = "relate"]
  /\ UNCHANGED <<majors, project, pc, edges, rooms, zones>>

Saved_again == [batch EXCEPT !.step = "insert"]
Saved == NoBatch

\* All statements in one call; one that fails leaves the others alone.
insert_relate_to_table ==
  /\ batch.step = "relate"
  /\ LET es == batch.edges
     IN \/ NoFault /\ edges' \in Related(edges, es)
        \/ Fault /\ UNCHANGED edges
        \/ \E i \in DOMAIN es : Fault /\ edges' \in Related(edges, RemoveAt(es, i))
  /\ batch' = Saved
  /\ UNCHANGED <<majors, project, pc, pbs, rooms, zones>>

Save(collected) ==
  \E all \in {collected} :
    batch' = [rows |-> Picked(all, "row"), edges |-> Picked(all, "edge"), step |-> "insert"]
Ready(stage) == pc = stage /\ batch = NoBatch
Fails == Fault /\ pc' = "pbs_failed" /\ UNCHANGED <<majors, project, pbs, edges, rooms, zones, batch>>

set_pdms_major_code ==
  /\ Ready("pbs_majors")
  /\ \/ /\ WriteMajors /\ pc' = "pbs_fixed"
        /\ UNCHANGED <<project, pbs, edges, rooms, zones, batch>>
     \/ Fails

set_pbs_fixed_node ==
  /\ Ready("pbs_fixed")
  /\ \/ /\ NoFault /\ pc' = "pbs_rooms" /\ Save(FixedNodes)
        /\ UNCHANGED <<majors, project, pbs, edges, rooms, zones>>
     \/ Fails

query_all_room_name ==
  /\ Ready("pbs_rooms")
  /\ \/ /\ NoFault /\ pc' = "pbs_room_nodes"
        /\ rooms' = [f \in DOMAIN project.rooms |-> OnePerName(project.rooms[f])]
        /\ UNCHANGED <<majors, project, pbs, edges, zones, batch>>
     \/ Fails

\* A name of one character: `r.name[1..2]` panics before anything is saved.
set_pbs_room_node ==
  /\ Ready("pbs_room_nodes") /\ NoFault
  /\ IF \E f \in DOMAIN rooms : \E r \in Range(rooms[f]) : r.level = "short"
     THEN pc' = "pbs_failed" /\ UNCHANGED batch
     ELSE /\ pc' = "pbs_room_majors"
          /\ \E factories \in SetToSeqs(DOMAIN rooms) : Save(Each(factories, FactoryNodes))
  /\ UNCHANGED <<majors, project, pbs, edges, rooms, zones>>

\* All rooms, those without a node too.
set_pbs_room_major_node ==
  /\ Ready("pbs_room_majors")
  /\ \/ /\ NoFault /\ pc' = "pbs_zone_list"
        /\ \E factories \in SetToSeqs(DOMAIN rooms) :
             Save(Each(factories, LAMBDA i, f :
                         Each(rooms[f], LAMBDA j, r : RoomMajorNodes(r.name))))
        /\ UNCHANGED <<majors, project, pbs, edges, rooms, zones>>
     \/ Fails

query_all_zone_with_major ==
  /\ Ready("pbs_zone_list")
  /\ \/ /\ NoFault /\ pc' = "pbs_zones"
        /\ \E order \in SetToSeqs(DOMAIN majors \intersect DOMAIN project.parts) :
             zones' = FlattenSeq([i \in DOMAIN order |->
                        <<<<order[i], "BRAN">>, <<order[i], "EQUI">>, <<order[i], "SUPP">>>>])
        /\ UNCHANGED <<majors, project, pbs, edges, rooms, batch>>
     \/ Fails

\* One kind of part of one zone; a query that fails is printed and the next
\* kind is done.
set_pbs_node ==
  /\ Ready("pbs_zones") /\ zones # <<>>
  /\ LET zone == zones[1][1]
         parts == project.parts[zone]
     IN \/ /\ NoFault
           /\ Save(CASE zones[1][2] = "BRAN" -> set_pbs_bran_node(parts.bran, majors[zone])
                     [] zones[1][2] = "EQUI" -> set_pbs_equi_node(parts.equi, majors[zone])
                     [] zones[1][2] = "SUPP" ->
                          set_pbs_supp_and_stru_node(parts.stru, parts.rest, majors[zone]))
        \/ Fault /\ UNCHANGED batch
  /\ zones' = Tail(zones)
  /\ UNCHANGED <<majors, project, pc, pbs, edges, rooms>>

Finished ==
  /\ Ready("pbs_zones") /\ zones = <<>> /\ pc' = "pbs_done"
  /\ UNCHANGED <<majors, project, faults, pbs, edges, rooms, zones, batch>>

PbsStep ==
  \/ set_pdms_major_code \/ set_pbs_fixed_node \/ query_all_room_name \/ set_pbs_room_node
  \/ set_pbs_room_major_node
  \/ query_all_zone_with_major \/ set_pbs_node \/ Finished
  \/ insert_pe_into_table_with_chunks \/ insert_relate_to_table
=============================================================================
