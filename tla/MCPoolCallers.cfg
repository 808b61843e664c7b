SPECIFICATION CallersSpec
CONSTANTS
  TREE_DEPTH = 2
  ROOT_HISTORY_SIZE = 2
  Leaves <- MCLeaves
  Tokens = {tA, tB}
  Amounts = {1, 2}
  NoteSecrets = {s1, s2}
  Accounts = {owner, tee}
  Owner = owner
  Operator = tee
  Keys = {}
  Quotes = {}
  Verifiers = {dcap}
  NONE = none
  UINT128 = 8
  Supply = 3
SYMMETRY Interchangeable
INVARIANTS
  PoolTypeOK
  SolventButForUnbacked
  UnspentNotesPayable
PROPERTIES
  ImplementsOpenPool
\* The pool stops when the tree is full and every note is spent.
CHECK_DEADLOCK FALSE
