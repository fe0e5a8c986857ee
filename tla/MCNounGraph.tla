----------------------------- MODULE MCNounGraph -----------------------------
EXTENDS Naturals
MCOwning == {<<"PIPE", "ZONE">>, <<"ZONE", "ZONE">>, <<"ZONE", "SITE">>, <<"EQUI", "ZONE">>, <<"SUBE", "EQUI">>,
             <<"BOX", "SUBE">>, <<"BOX", "EQUI">>, <<"TMPL", "PANE">>, <<"PANE", "TMPL">>, <<"PANE", "ZONE">>, <<"BOX", "TMPL">>}
Nouns == {"ZONE", "EQUI", "SUBE", "BOX", "TMPL", "PANE"}
Built(top, n2, n3, n4, n5, o3, o4, o5) ==
  [noun |-> <<top, n2, n3, n4, n5>>, owner |-> <<0, 1, o3, o4, o5>>]
Sound(p) == \A i \in 2 .. 5 : <<p.noun[i], p.noun[p.owner[i]]>> \in MCOwning
MCPlants == {p \in {Built("SITE", "ZONE", n3, n4, n5, o3, o4, o5) :
                     n3 \in {"ZONE", "EQUI", "PANE"}, n4, n5 \in Nouns, o3 \in {2}, o4 \in {3}, o5 \in 2 .. 4} : Sound(p)}
MCFilters == {{n} : n \in Nouns} \union {{"ZONE", "BOX"}, {"SITE", "PANE"}, {"EQUI", "BOX"}, {"TMPL", "PIPE"}, {"SUBE", "EQUI", "BOX"}, {"NOZZ"}}
=============================================================================
