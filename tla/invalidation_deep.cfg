SPECIFICATION Spec
CONSTANTS
  Readers = {"r1"}
  Refnos = {1, 2, 3}
  None = 0
  Noun <- Nouns3
  Ref <- Joint3
  Caches = {"QUERY_ANCESTOR_REFNOS", "GET_NAMED_ATTMAP", "QUERY_DEEP_CHILDREN_REFNOS"}
  Requests <- DeepRequests
  FirstOwner <- Tree3
  MaxUpdates = 1
INVARIANT DeepChildrenAreCovered
