SPECIFICATION TreeSpec
CONSTANTS
  TREE_DEPTH = 3
  ROOT_HISTORY_SIZE = 3
  c1 = c1
  c2 = c2
  Leaves <- MCLeaves
INVARIANTS
  TreeTypeOK
  RootIsReference
  RingHoldsRecentRoots
  KnownIffRecent
  RootsIdentifyLeaves
  CopyHasContractRoot
  ProofsIdentifyLeaves
  NoProofOfAbsentLeaf
PROPERTIES
  ImplementsRootWindow
\* A full tree accepts no further leaf.
CHECK_DEADLOCK FALSE
