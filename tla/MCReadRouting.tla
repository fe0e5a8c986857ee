--------------------------- MODULE MCReadRouting ---------------------------
(***************************************************************************)
(* Instances of ReadRouting for TLC.                                       *)
(***************************************************************************)
EXTENDS ReadRouting

\* Collectors that between them use every kind of plan; small enough for two
\* tasks to interleave.
SharedCollectors ==
  {"get_pe", "get_named_attmap", "get_children_refnos",
   "query_filter_deep_children", "query_filter_ancestors"}
\* What code outside calls: no part of a fold by itself.
AllCollectors == CollectorNames \ ({"implicit_wall_pline"} \union Folds)
WorldCollectors == {"get_world_transform"}
CachedCollectors == {"query_deep_children_refnos_pbs", "get_pe", "get_world_transform"}
=============================================================================
