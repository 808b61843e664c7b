SPECIFICATION CallersSpec
CONSTANTS
  TREE_DEPTH = 2
  ROOT_HISTORY_SIZE = 2
  Leaves <- MCLeaves
  Tokens = {tA}
  Amounts = {1, 2}
  NoteSecrets = {s1, s2}
  Accounts = {owner, tee}
  Owner = owner
  Operator = tee
  Keys = {}
  Quotes = {}
  Verifiers = {dcap}
  NONE = none
  UINT128 = 4
  Supply = 3
PROPERTIES
  DepositsVerified
CHECK_DEADLOCK FALSE
