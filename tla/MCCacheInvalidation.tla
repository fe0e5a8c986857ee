------------------------ MODULE MCCacheInvalidation ------------------------
\* A site with a branch in it and a joint in the branch that refers to a beam
\* beside it; a second branch can be moved.
EXTENDS CacheInvalidation

Tree3 == [e \in 1 .. 3 |-> IF e = 1 THEN 0 ELSE e - 1]
Nouns3 == <<"SITE", "BRAN", "SJOI">>
Joint3 == [e \in 1 .. 3 |-> IF e = 3 THEN 2 ELSE 0]

LeafRequests ==
  {<<"GET_CHILDREN_PES", 2>>, <<"GET_WORLD_TRANSFORM", 3>>}
WorldRequests == {<<"GET_NAMED_ATTMAP", 2>>, <<"GET_WORLD_TRANSFORM", 3>>}
DeepRequests == {<<"QUERY_DEEP_CHILDREN_REFNOS", 1>>}
=============================================================================
