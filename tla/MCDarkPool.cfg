SPECIFICATION DarkPoolSafety
CONSTANTS
  TREE_DEPTH = 3
  ROOT_HISTORY_SIZE = 3
  Leaves <- MCNotes
  tA = tA
  tB = tB
  Tokens = {tA, tB}
  Amounts = {1, 2}
  Accounts = {owner, tee}
  Owner = owner
  Operator = tee
  Keys = {k1}
  Quotes = {}
  Verifiers = {}
  NONE = none
  UINT128 = 8
  Supply = 7
  Orders <- ThreeOrders
  MaxOrders = 4
  r1 = r1
  r2 = r2
  r3 = r3
  r4 = r4
  Requests = {r1, r2, r3}
  EnclaveKey = k1
  Faults = FALSE
  InitialDeposits <- ThreeDeposits
  RequireAttestation = TRUE
  MaxRestarts = 0
INVARIANTS
  TeeTypeOK
  SettlementsCovered
  Solvent
SYMMETRY MCSymmetry
\* The system stops when every request is answered and every note withdrawn.
CHECK_DEADLOCK FALSE
