SPECIFICATION Spec
CONSTANTS
  Operators = {"op"}
  Lockboxes = {"x", "y"}
  Txs = {"pay", "take", "veil", "both"}
  Outputs = {"payee", "order", "change"}
  Bonds = {"b1", "b2"}
  Box <- MCBox
  Spends <- MCSpends
  OwnerSigned <- MCOwnerSigned
  Orders <- MCOrders
  BondScript <- MCBondScript
  FundedAt <- MCFundedAt
  Announced <- MCAnnounced
  PromiseMargin = 1
  ChallengeWindow = 1
  BondMinConfirmations = 2
  MinBond = 4
  MaxHeight = 5
  None = "none"
INVARIANTS Punishable TheftCovered HonestDone HonestNeverSlashed
CHECK_DEADLOCK FALSE
