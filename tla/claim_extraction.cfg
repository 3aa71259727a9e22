SPECIFICATION Spec
CONSTANTS
  Name <- MCTierName
  Owner <- MCOwner
  TxId <- MCTxId
  Digest <- MCDigest
  ZeroDigest = "0"
  GenesisHeight = 2
  Tld <- MCTld
  TldOwner = "nock"
  TldTx = "0x1"
  LockRoot <- MCLockRoot
  TreasuryLockRoot = "treasury"
  Tx <- MCTx
  Blocks <- MCBlocks
  ZRank <- MCZRank
  MaxU64 = 400000000
  MaxAttempts = 2
  Nothing = Nothing
  MaxFaults = 1
INVARIANTS
  ClaimsAreCanonical
  KernelOnlyJudgesNameAndPrice
  OwnerSigned
PROPERTIES
  FetchEnds
CHECK_DEADLOCK FALSE
