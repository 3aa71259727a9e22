SPECIFICATION Spec
CONSTANTS
  Name <- MCName
  Owner <- MCOwner
  TxId <- MCTxId
  Digest <- MCDigest
  ZeroDigest = "0"
  GenesisHeight = 2
  Tld <- MCTld
  TldOwner = "nock"
  TldTx = "0x1"
  LockRoot <- MCLockRoot
  TreasuryLockRoot = "treasury"
  MaxU64 = 12
  Nothing = Nothing
  MaxStaleness = 1
  Tx <- MCTx
  Chains <- MCChains
  Anchor <- MCAnchor
  Fee <- MCFee
  MaxFaults = 1
PROPERTIES
  PositionIsCurrent
  VerifiedPaymentIsMined
  FreshAnchorCoversWindow
