-------------------------- MODULE MCProjectBatch --------------------------
(* Projects of one or two sites. The sheet has a group for every discipline,
   among them one whose zone has its own code (EQUI, as in the repository's
   sheet) and two of one code (W). *)
EXTENDS ProjectBatch

MCSheet ==
  <<Row("T", "PIPE", "PIPEP", "PIPE"), Row("T", "PIPE", "PIPESU", "SUPP"),
    Row("V", "HVAC", "HVACSU", "SUPP"), Row("E", "ELEC", "ELEMCT", "MCT"),
    Row("I", "INST", "INSTP", "PIPE"), Row("EQUI", "EQUI", "EQUI", "EQUI"),
    Row("N", "BOP", "BOPNP", "PIPE"), Row("W", "FWD", "WATRP", "PIPE"),
    Row("W", "WWS", "WATRP", "PIPE"), Row("END", "END", "END", "END")>>
MCSscLevels ==
  <<[name |-> "standard", owner |-> NoCell], [name |-> "unit", owner |-> "standard"]>>

ASite(name, zs, found) == [name |-> name, zones |-> zs, nouns |-> found]
Sites(elements) == [elements |-> elements, rooms |-> <<>>, parts |-> <<>>]
Lists(name, found) == Sites("s" :> ASite(name, "z" :> {"-"}, found))
MaterialProjects ==
  {Lists({"PIPE"}, {"BEND", "ELBO", "BRAN"}), Lists({"PIPE"}, {"BRAN"}),
   Lists({"PIPE", "WWS"}, {"ELBO", "BRAN"}), Lists({"PIPE", "WWS"}, {"BRAN"}),
   Lists({"INST"}, {"INST"}), Lists({"HVAC"}, {"STRT", "TEE"}),
   Lists({"HVAC", "BOP"}, {"DAMP"}), Lists({"ELEC", "E"}, {"BRAN", "ELCONN"}),
   Lists({"EQUI"}, {"EQUI"}),
   Sites("s" :> ASite({"PIPE", "WWS"}, "z" :> {"-"}, {"ELBO"})
           @@ "t" :> ASite({"HVAC"}, "y" :> {"-"}, {"STRT"}))}

Room(name, level) == [name |-> name, level |-> level]
Child(id, noun, members) == [id |-> id, noun |-> noun, members |-> members]
APart(id, noun, room, fix, children) ==
  [id |-> id, noun |-> noun, room |-> room, fix |-> fix, children |-> children]
Below(bran, equi, stru, rest) == [bran |-> bran, equi |-> equi, stru |-> stru, rest |-> rest]
None == Absent
Tree(name, zs, rs, ps) == [elements |-> "s" :> ASite(name, zs, {}), rooms |-> rs, parts |-> ps]

PbsProjects ==
  {Tree({"PIPE"}, ("z1" :> {"PIPE", "SUPP"}) @@ ("z2" :> {"PIPE"}),
        "F" :> <<Room("R710", "7"), Room("RX", "letter")>>,
        ("z1" :> Below(<<APart("b1", "BRAN", "R710", <<>>, <<Child("c1", "ELBO", <<>>), Child("c2", "TEE", <<>>)>>),
                         APart("b2", "BRAN", None, <<>>, <<Child("c3", "ELBO", <<>>)>>)>>,
                       <<APart("e1", "EQUI", "RX", <<>>, <<Child("u1", "SUBE", <<"n1", "n2">>), Child("u2", "SUBE", <<>>),
                                                      Child("u3", "NOZZ", <<>>)>>)>>,
                       <<APart("t1", "STRU", "R710", <<"R710", "226">>, <<Child("f1", "FRMW", <<"h1">>)>>),
                         APart("t2", "STRU", "R710", <<"R710", "227">>, <<>>), APart("t3", "STRU", "R710", <<>>, <<>>)>>,
                       <<APart("r1", "REST", "RX", <<"R710", "226">>, <<Child("g1", "HANG", <<"h2">>)>>)>>))
          @@ ("z2" :> Below(<<APart("b3", "BRAN", "R710", <<>>, <<>>)>>, <<>>, <<>>, <<>>))),
   Tree({"HVAC"}, "z" :> {"SUPP"}, ("F" :> <<Room("R710", "7"), Room("R710", "7")>>) @@ ("G" :> <<Room("S110", "1")>>),
        "z" :> Below(<<>>, <<>>,
                     <<APart("t1", "STRU", "S110", <<>>, <<Child("f1", "FRMW", <<"h1">>), Child("f2", "FRMW", <<>>)>>),
                       APart("t2", "STRU", "S999", <<>>, <<>>)>>, <<>>)),
   Tree({"EQUI"}, "z" :> {"EQUI"}, "F" :> <<Room("R", "short"), Room("R710", "7")>>, <<>>)}
MCProjects == MaterialProjects \union PbsProjects
=============================================================================
