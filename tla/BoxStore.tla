------------------------------ MODULE BoxStore ------------------------------
(***************************************************************************)
(* What the spatial tree of the process promises, without saying how: for  *)
(* every element the bounding boxes it currently has, and one durable      *)
(* snapshot of them.  Refreshing an element replaces all its boxes and     *)
(* reports the ones it replaced; the snapshot is replaced in one step; a   *)
(* load fills an empty store and nothing else.  AccelTree implements it    *)
(* with an R-tree, a reverse index and two files.                          *)
(***************************************************************************)
CONSTANTS Refnos, Boxes

VARIABLES
  boxes,      \* element -> the boxes it has
  durable,    \* the snapshot: [readable, boxes]
  did         \* the last operation and the boxes it took out: [op, old]

storeVars == <<boxes, durable, did>>

BoxMaps == [Refnos -> SUBSET Boxes]
NoBoxes == [r \in Refnos |-> {}]
Did(op, old) == did' = [op |-> op, old |-> old]

Init ==
  /\ boxes = NoBoxes
  /\ durable \in [readable : BOOLEAN, boxes : BoxMaps]
  /\ did = [op |-> "none", old |-> NoBoxes]

\* The elements named by the input have exactly the boxes given for them;
\* what they had before is reported, and no other element is touched.
Refresh(input) ==
  LET named == {r \in Refnos : input[r] # {}} IN
  /\ named # {}
  /\ boxes' = [r \in Refnos |-> IF r \in named THEN input[r] ELSE boxes[r]]
  /\ Did("refresh", [r \in Refnos |-> IF r \in named THEN boxes[r] ELSE {}])
  /\ UNCHANGED durable

\* The elements named have no box any more.
Forget(named) ==
  /\ boxes' = [r \in Refnos |-> IF r \in named THEN {} ELSE boxes[r]]
  /\ Did("forget", [r \in Refnos |-> IF r \in named THEN boxes[r] ELSE {}])
  /\ UNCHANGED durable

Overwrite ==
  /\ boxes' \in BoxMaps
  /\ Did("overwrite", NoBoxes)
  /\ UNCHANGED durable

Save ==
  /\ durable' = [readable |-> TRUE, boxes |-> boxes]
  /\ Did("save", NoBoxes)
  /\ UNCHANGED boxes

\* An unreadable snapshot loads as the empty store.
Load ==
  /\ boxes = NoBoxes
  /\ boxes' = IF durable.readable THEN durable.boxes ELSE NoBoxes
  /\ Did("load", NoBoxes)
  /\ UNCHANGED durable

\* The process starts from the snapshot without asking for emptiness.
Restore ==
  /\ durable.readable
  /\ boxes' = durable.boxes
  /\ Did("restore", NoBoxes)
  /\ UNCHANGED durable

Crash ==
  /\ boxes' = NoBoxes
  /\ Did("crash", NoBoxes)
  /\ UNCHANGED durable

Next ==
  \/ \E input \in BoxMaps : Refresh(input)
  \/ \E named \in SUBSET Refnos : Forget(named)
  \/ Overwrite \/ Save \/ Load \/ Restore \/ Crash

Spec == Init /\ [][Next]_storeVars
=============================================================================
