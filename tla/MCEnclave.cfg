SPECIFICATION EnclaveSpec
CONSTANTS
  TREE_DEPTH = 2
  ROOT_HISTORY_SIZE = 2
  Leaves <- MCNotes
  tA = tA
  tB = tB
  Tokens = {tA, tB}
  Amounts = {1}
  Accounts = {owner, tee}
  Owner = owner
  Operator = tee
  Keys = {k1, k2}
  Quotes <- MCQuotes
  Verifiers = {dcap}
  NONE = none
  UINT128 = 8
  Supply = 7
  Builds = {b1, b2}
  FirstBuild = b1
  InitialDeposits <- MCDeposits
  MaxRestarts = 2
  MaxUpgrades = 1
  MaxDeletions = 1
  MaxOwnerCalls = 2
  MaxSettlements = 1
INVARIANTS
  SignerIsSealed
  OneKeyUntilDeleted
  SettledUnderTrust
  UnspentNotesWithdrawable
PROPERTIES
  PoolStepsOnly
SYMMETRY MCSymmetry
\* The system stops when the bounds are used up.
CHECK_DEADLOCK FALSE
