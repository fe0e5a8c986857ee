------------------------------ MODULE MCValues ------------------------------
(* The values the program computes with, checked together: the life of some *)
(* unit meshes, of a reference, of the attributes of an element, of the     *)
(* expressions of a component, of its points and geometry, or a question to *)
(* the noun graph.  A behaviour is about one of these topics; they share no *)
(* state, and the others rest.                                              *)
EXTENDS Attributes, Refno, UnitMesh, NounGraph

CONSTANTS
  Designs, Components,                                \* Expressions
  Catalogue                                           \* CataPoints, with Designs

VARIABLES
  topic,
  component, pending, mark, last,
  scene, scom, info

exprVars == <<component, pending, mark, last>>
cataVars == <<scene, scom, info>>

C == INSTANCE CataPoints

(* What they are about. *)
DU == INSTANCE MCUnit
DA == INSTANCE MCAttributes
DC == INSTANCE MCCatalogue
DN == INSTANCE MCNounGraph

UnitScenes == DU!MCScenes
AttrElements == DA!MCElements
AttrInfos == DA!MCInfos
AttrUdas == DA!MCUdas
ExprDesigns == DC!MCDesigns
ExprComponents == DC!MCComponents
CataComponents == DC!MCCatalogue
GraphOwning == DN!MCOwning
GraphPlants == DN!MCPlants
GraphFilters == DN!MCFilters

MCRefnos == {5, 6, 11, 13}

ASSUME AttributesAssumption == NamesAreApart /\ UdasAreTyped /\ FilesAreTyped

UnitRests == todo = {} /\ collected = {} /\ batch = Nobody /\ total = Nobody /\ rows = {}
RefnoRests == first = 0 /\ held = RefnoSesno(0, 0) /\ text = <<>> /\ issued = {} /\ spoilt = FALSE
AttrRests ==
  /\ element = <<>> /\ whole = <<>> /\ att = <<>> /\ origin = "nowhere" /\ excluded = {} /\ saved = [at |-> 0]
  /\ record = <<>> /\ udaRecord = <<>> /\ row = <<>> /\ sessions = <<>>
ExprRests == component = <<>> /\ pending = <<>> /\ mark = FALSE /\ last = <<>>
CataRests == scene = <<>> /\ scom = <<>> /\ info = <<>>
NounRests == plant = <<>> /\ answer = Unasked

Init ==
  \/ topic = "mesh" /\ UnitInit /\ RefnoRests /\ AttrRests /\ ExprRests /\ CataRests /\ NounRests
  \/ topic = "refno" /\ RefnoInit /\ UnitRests /\ AttrRests /\ ExprRests /\ CataRests /\ NounRests
  \/ topic = "attributes" /\ AttrInit /\ UnitRests /\ RefnoRests /\ ExprRests /\ CataRests /\ NounRests
  \/ topic = "expressions" /\ C!ExprInit /\ UnitRests /\ RefnoRests /\ AttrRests /\ CataRests /\ NounRests
  \/ topic = "catalogue" /\ C!CataInit /\ UnitRests /\ RefnoRests /\ AttrRests /\ ExprRests /\ NounRests
  \/ topic = "nouns" /\ NounInit /\ UnitRests /\ RefnoRests /\ AttrRests /\ ExprRests /\ CataRests
Next ==
  \/ topic = "mesh" /\ UnitNext
     /\ UNCHANGED <<topic, refnoVars, attrVars, exprVars, cataVars, nounVars>>
  \/ topic = "refno" /\ RefnoNext
     /\ UNCHANGED <<topic, unitVars, attrVars, exprVars, cataVars, nounVars>>
  \/ topic = "attributes" /\ AttrNext
     /\ UNCHANGED <<topic, unitVars, refnoVars, exprVars, cataVars, nounVars>>
  \/ topic = "expressions" /\ C!ExprNext
     /\ UNCHANGED <<topic, unitVars, refnoVars, attrVars, cataVars, nounVars>>
  \/ topic = "catalogue" /\ C!CataNext
     /\ UNCHANGED <<topic, unitVars, refnoVars, attrVars, exprVars, nounVars>>
  \/ topic = "nouns" /\ NounNext
     /\ UNCHANGED <<topic, unitVars, refnoVars, attrVars, exprVars, cataVars>>
vars == <<topic, unitVars, refnoVars, attrVars, exprVars, cataVars, nounVars>>
Spec == Init /\ [][Next]_vars

-----------------------------------------------------------------------------
(* Each of these is stated and explained in its own module, as are those of *)
(* UnitMesh, Attributes, Refno and NounGraph, which hold of what rests.     *)

(* Expressions: a text evaluates to what the expression means.              *)
ExpressionsMeanWhatTheySay == topic = "expressions" => C!ExpressionsMeanWhatTheySay
(* CataPoints: a point is where its axis, point or angle puts it.           *)
PointsAreWhereTheyAreSaid == topic = "catalogue" => C!PointsAreWhereTheyAreSaid
(* CataPoints: a geometry has the sizes and axes of its attributes.         *)
GeometryIsDescribed == topic = "catalogue" => C!GeometryIsDescribed
=============================================================================
