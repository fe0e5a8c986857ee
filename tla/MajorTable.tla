----------------------------- MODULE MajorTable -----------------------------
(***************************************************************************)
(* How a SITE and its ZONEs come to a discipline (major): the spreadsheet  *)
(* of ssc_setting.rs is read into groups of rows, and the rows of the table*)
(* pdms_major are made from the names of the elements.                     *)
(*                                                                         *)
(* `name.contains(part)` is all the code asks of a name, so a name is the  *)
(* set of the parts it contains: the name of a water site holds both "WWS" *)
(* and "PIPE".                                                             *)
(***************************************************************************)
EXTENDS Naturals, Sequences, FiniteSets, SequencesExt

CONSTANTS
  Sheet,       \* the discipline spreadsheet, a sequence of rows
  MaxFaults    \* bound: failing calls

ASSUME BoundsAssumption == MaxFaults \in Nat
ASSUME SheetAssumption == Sheet \in Seq(Range(Sheet))

VARIABLES
  majors,    \* table pdms_major: SITE or ZONE -> code
  project,   \* what the database holds: its sites, their zones, the elements below
  pc,        \* where the program is
  faults     \* calls that have failed

Fault == faults < MaxFaults /\ faults' = faults + 1
NoFault == UNCHANGED faults

\* PbsConfig: one row of the sheet. A cell may be empty.
NoCell == "empty"
Row(code, site, zoneCode, zone) ==
  [code |-> code, site |-> site, zoneCode |-> zoneCode, zone |-> zone]

\* For every member of a sequence and its index, one after the other. (`<<>> \o`
\* makes a tuple, which TLC evaluates once.)
Each(seq, Op(_, _)) == FlattenSeq(<<>> \o [i \in DOMAIN seq |-> Op(i - 1, seq[i])])

\* A row without the cells of the site is skipped, its zone with it.
SiteCells(sheet) ==
  Each(sheet, LAMBDA i, r : IF r.code # NoCell /\ r.site # NoCell THEN <<r>> ELSE <<>>)

\* The rows that belong to one group end where the name of the site changes;
\* the group is pushed by the first row of the next one.
GroupEnds(rows) == {i \in 1 .. Len(rows) - 1 : rows[i].site # rows[i + 1].site}

\* The k-th smallest of a set of numbers.
Nth(S, k) == CHOOSE i \in S : Cardinality({j \in S : j < i}) = k - 1

FirstOf(rows, end) ==
  LET before == {i \in GroupEnds(rows) : i < end}
  IN IF before = {} THEN 1 ELSE 1 + CHOOSE i \in before : \A j \in before : j <= i

\* or_insert: the first row of a group that names a zone decides its code.
ZoneMap(rows, end) ==
  LET group == FirstOf(rows, end) .. end
      named == {i \in group : rows[i].zone # NoCell /\ rows[i].zoneCode # NoCell}
  IN [z \in {rows[i].zone : i \in named} |->
        rows[CHOOSE i \in named :
               rows[i].zone = z /\ \A j \in named : rows[j].zone = z => i <= j].zoneCode]

\* PbsMajorCode, in the order of the sheet. The code of a group is that of its
\* last row.
Groups(sheet) ==
  LET rows == SiteCells(sheet)
      ends == GroupEnds(rows)
  IN [k \in 1 .. Cardinality(ends) |->
        [site |-> rows[Nth(ends, k)].site, code |-> rows[Nth(ends, k)].code,
         zones |-> ZoneMap(rows, Nth(ends, k))]]

\* SscMajorCodeConfig.level: the code of each group and its rows that have a
\* zone code, in the order of the sheet.
Levels(sheet) ==
  LET rows == SiteCells(sheet)
      named(i, r) == IF r.zoneCode # NoCell THEN <<r>> ELSE <<>>
      level(end) == [code |-> rows[end].code,
                     zones |-> Each(SubSeq(rows, FirstOf(rows, end), end), named)]
  IN [k \in 1 .. Cardinality(GroupEnds(rows)) |-> level(Nth(GroupEnds(rows), k))]

(***************************************************************************)
(* The rows of pdms_major. `elements` maps a SITE to its name and its ZONE  *)
(* children with theirs. The groups are walked from the last to the first  *)
(* and `insert ignore` keeps the first row of an id: later groups win.     *)
(***************************************************************************)
\* A site with no zone never enters site_children_map and gets no major.
Classified(elements) == {s \in DOMAIN elements : DOMAIN elements[s].zones # {}}

Matching(groups, name) == {k \in 1 .. Len(groups) : groups[k].site \in name}

\* The group whose row for an id is inserted first.
Wins(ks) == CHOOSE k \in ks : \A j \in ks : j <= k

SiteMajors(groups, elements) ==
  LET sites == {s \in Classified(elements) : Matching(groups, elements[s].name) # {}}
  IN [s \in sites |-> groups[Wins(Matching(groups, elements[s].name))].code]

\* zone_map is a HashMap: of the keys of one group that a name contains, any
\* may come first.
ZoneCodes(groups, elements, s, z) ==
  LET name == elements[s].zones[z]
      keys(k) == DOMAIN groups[k].zones \intersect name
      ks == {k \in Matching(groups, elements[s].name) : keys(k) # {}}
  IN IF ks = {} THEN {} ELSE {groups[Wins(ks)].zones[key] : key \in keys(Wins(ks))}

\* insert ignore: a row that is already there stays as it is.
InsertIgnore(table, rows) ==
  [x \in DOMAIN table \union DOMAIN rows |-> IF x \in DOMAIN table THEN table[x] ELSE rows[x]]

\* The rows the table may get, sites and zones. A site whose children could not
\* be read is left out.
AllMajors(groups, elements, unread) ==
  LET read == [s \in DOMAIN elements \ unread |-> elements[s]]
      sites == SiteMajors(groups, read)
      codes(z) == UNION {ZoneCodes(groups, read, s, z) :
                           s \in {t \in DOMAIN read : z \in DOMAIN read[t].zones}}
      zs == {z \in UNION {DOMAIN read[s].zones : s \in DOMAIN read} : codes(z) # {}}
  IN {InsertIgnore(sites, f) : f \in {g \in [zs -> UNION {codes(z) : z \in zs}] :
                              \A z \in zs : g[z] \in codes(z)}}

\* `<<>> \o` makes a tuple, which TLC evaluates once.
SheetGroups == <<>> \o Groups(Sheet)
SheetLevels == <<>> \o Levels(Sheet)

\* Sites whose children cannot be read are passed over; the result of the insert
\* statement is not looked at; any other error ends the function.
WriteMajors ==
  \/ \E unread \in SUBSET DOMAIN project.elements :
       /\ IF unread = {} THEN NoFault ELSE Fault
       /\ \E rows \in AllMajors(SheetGroups, project.elements, unread) :
            majors' = InsertIgnore(majors, rows)
  \/ Fault /\ UNCHANGED majors
=============================================================================
