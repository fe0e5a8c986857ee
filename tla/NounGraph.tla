------------------------------ MODULE NounGraph ------------------------------
(***************************************************************************)
(* Which kinds of elements own which (noun_graph.rs, noun_graph.json), and  *)
(* the queries made of it: the descendants of an element that have one of   *)
(* the given nouns (rs_surreal/graph.rs) and, in the same way, its owners.  *)
(* The database is modelled by what such a query selects.                   *)
(***************************************************************************)
EXTENDS Integers, Sequences, SequencesExt, FiniteSets, FiniteSetsExt

CONSTANTS Owning,    \* pairs <<noun, noun of an owner>>
          Plants,    \* [noun, owner]: trees of elements, the top owned by 0
          Filters    \* the sets of nouns asked for

(* Elements are numbered from the top down; the graph allows what is owned. *)
IsPlant(p) ==
  /\ DOMAIN p.owner \subseteq Nat \ {0} /\ DOMAIN p.noun = DOMAIN p.owner
  /\ \A c \in DOMAIN p.owner :
       /\ p.owner[c] \in DOMAIN p.owner \union {0} /\ p.owner[c] < c
       /\ p.owner[c] # 0 => <<p.noun[c], p.noun[p.owner[c]]>> \in Owning
ASSUME PlantsAssumption == IsFiniteSet(Owning) /\ \A p \in Plants : IsPlant(p)

NOUN_GRAPH == {e[1] : e \in Owning} \union {e[2] : e \in Owning}
OwnersOf(noun) == {e[2] : e \in {f \in Owning : f[1] = noun}}

(* all_simple_paths: no noun twice, but a path may end where it began. *)
Prolonged(path) == {Append(path, n) : n \in OwnersOf(Last(path)) \ Range(path)}
Walks(start) ==
  LET walk[k \in 0 .. Cardinality(NOUN_GRAPH)] ==
        IF k = 0 THEN {<<start>>} ELSE UNION {Prolonged(path) : path \in walk[k - 1]}
  IN UNION {walk[k] : k \in 0 .. Cardinality(NOUN_GRAPH)}
Reaches(path, end) == end \in OwnersOf(Last(path)) /\ \A i \in 2 .. Len(path) : path[i] # end
find_noun_path(start, end) ==
  IF {start, end} \subseteq NOUN_GRAPH
  THEN {Append(path, end) : path \in {p \in Walks(start) : Reaches(p, end)}} ELSE {}
is_owner_type(child, own) == \E p \in find_noun_path(child, own) : Len(p) = 2

(* One step of a query: from the shortest path on, the elements met are kept *)
(* under a name, if the paths have their noun at this step.                 *)
Lengths(paths) == {Len(p) : p \in paths}
At(paths, i) == {p[i + 1] : p \in {q \in paths : Len(q) > i}}
Step_late(paths, i) == IF i >= Min(Lengths(paths)) THEN [named |-> TRUE, nouns |-> At(paths, i)] ELSE [named |-> FALSE, nouns |-> {}]
Step(paths, i) == IF i >= Min(Lengths(paths)) - 1 THEN [named |-> TRUE, nouns |-> At(paths, i)] ELSE [named |-> FALSE, nouns |-> {}]
Steps(paths) == IF paths = {} THEN <<>> ELSE [i \in 1 .. Max(Lengths(paths)) - 1 |-> Step(paths, i)]
Sql(paths, self) == IF paths = {} /\ ~self THEN <<>> ELSE <<[self |-> self, steps |-> Steps(paths)]>>
gen_noun_outcoming_relate_sql(start, filter) ==
  Sql(UNION {find_noun_path(start, n) : n \in filter}, start \in filter)
gen_noun_incoming_relate_sql(end, filter) ==
  Sql({Reverse(p) : p \in UNION {find_noun_path(n, end) : n \in filter}}, end \in filter)

(* What the database answers: along <-pe_owner<- or ->pe_owner->. *)
ChildrenOf(plant, e) == {c \in DOMAIN plant.owner : plant.owner[c] = e}
OwnerOf(plant, e) == IF plant.owner[e] = 0 THEN {} ELSE {plant.owner[e]}
Selected(plant, e, sql, near) ==
  LET met[i \in 0 .. Len(sql.steps)] ==
        IF i = 0 THEN {e}
        ELSE {c \in UNION {near[x] : x \in met[i - 1]} :
                sql.steps[i].named => plant.noun[c] \in sql.steps[i].nouns}
  IN (IF sql.self THEN {e} ELSE {})
       \union UNION {met[i] : i \in {j \in 1 .. Len(sql.steps) : sql.steps[j].named}}

query_filter_deep_children_by_path(plant, e, nouns) ==
  LET sql == gen_noun_incoming_relate_sql(plant.noun[e], nouns)
      near == [x \in DOMAIN plant.owner |-> ChildrenOf(plant, x)]
  IN IF sql = <<>> THEN {} ELSE {c \in Selected(plant, e, sql[1], near) : plant.noun[c] \in nouns}
owners_by_path(plant, e, nouns) ==
  LET sql == gen_noun_outcoming_relate_sql(plant.noun[e], nouns)
      near == [x \in DOMAIN plant.owner |-> OwnerOf(plant, x)]
  IN IF sql = <<>> THEN {} ELSE {c \in Selected(plant, e, sql[1], near) : plant.noun[c] \in nouns}

-----------------------------------------------------------------------------
VARIABLES plant, answer
nounVars == <<plant, answer>>
Unasked == [of |-> 0]
NounInit == (\E p \in Plants : plant = p) /\ answer = Unasked
Ask(e, nouns) ==
  /\ answer = Unasked
  /\ answer' = [of |-> e, nouns |-> nouns, down |-> query_filter_deep_children_by_path(plant, e, nouns),
                up |-> owners_by_path(plant, e, nouns),
                owned |-> {o \in OwnerOf(plant, e) : is_owner_type(plant.noun[e], plant.noun[o])}]
  /\ UNCHANGED plant
NounNext == \E e \in DOMAIN plant.owner, nouns \in Filters : Ask(e, nouns)
NounSpec == NounInit /\ [][NounNext]_nounVars

-----------------------------------------------------------------------------
(* From an element up: itself, its owner, its owner's owner, ...; above the *)
(* top is 0.                                                                *)
Up(c, p) ==
  LET up[k \in 0 .. c] == IF k = 0 THEN c ELSE IF up[k - 1] = 0 THEN 0 ELSE p.owner[up[k - 1]]
  IN up
Above(c, p) == {Up(c, p)[k] : k \in 0 .. c} \ {0}
Unrepeated(c, e, p) ==
  \E k \in 0 .. c :
    /\ Up(c, p)[k] = e
    /\ \A i, j \in 0 .. k : p.noun[Up(c, p)[i]] = p.noun[Up(c, p)[j]] => i = j

(* Asked for the elements of some nouns below (or above) an element, the      *)
(* database gives only such elements, and all of them whose line of owners    *)
(* up to it repeats no noun; what lies in a zone within a zone may be lost.   *)
RelativesAreFound ==
  answer # Unasked =>
    LET e == answer.of
        below == {c \in DOMAIN plant.owner : e \in Above(c, plant) /\ plant.noun[c] \in answer.nouns}
        above == {o \in Above(e, plant) : plant.noun[o] \in answer.nouns}
    IN /\ answer.down \subseteq below /\ {c \in below : Unrepeated(c, e, plant)} \subseteq answer.down
       /\ answer.up \subseteq above /\ {o \in above : Unrepeated(e, o, plant)} \subseteq answer.up
       /\ answer.owned = OwnerOf(plant, e)
=============================================================================
