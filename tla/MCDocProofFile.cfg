SPECIFICATION ClientSpec
CONSTANTS
  TREE_DEPTH = 2
  ROOT_HISTORY_SIZE = 2
  Leaves <- MCNotes
  tA = tA
  Tokens = {tA}
  Token = tA
  Amounts = {1, 3}
  Accounts = {owner, tee}
  Owner = owner
  Operator = tee
  Keys = {}
  Quotes = {}
  Verifiers = {}
  NONE = none
  UINT128 = 8
  Supply = 7
  Sessions = {11, 12}
  f1 = f1
  f2 = f2
  Files = {f1, f2}
  InitialDeposits <- MCDeposits
  InitialHeights <- MCHeights
  InitialFiles <- MCFiles
  Balance = 2
  DeployBlocks = {1, none}
  CHUNK_SIZE = 2
  WINDOW = 2
  MaxHead = 5
  TORN = torn
INVARIANTS
  ProofsLastTheWindow
CHECK_DEADLOCK FALSE
