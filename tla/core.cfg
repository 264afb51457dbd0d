SPECIFICATION Spec
CONSTANTS
  MaxMoney = 9600
  MaxFeeRate = 1
  MaxRequestItems = 6
  MaxPsetItems = 6
  Wallets <- MCWallets
  MakerCoins <- MCMakerCoins
  Market <- MCMarket
  Amounts <- MCAmounts
  Rates = {1}
  MaxBps = {200}
  ImpactRange = 1048576
  MaxTxs = 2
  MaxSigned = 1
  MaxOffers = 1
  Edits <- MCEdits
  AlterTwice = FALSE
  AlterUntil = 0
INVARIANTS
  TypeOK
  BuildsReview
  ReviewExact
  FeeFair
  ChangeStaysConfidential
  SelectionComplete
  SwapBounded
  SignedIsValid
  NoLoss
CHECK_DEADLOCK FALSE
