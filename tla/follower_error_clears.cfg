SPECIFICATION Spec
CONSTANTS
  Name <- MCName
  Owner <- MCOwner
  TxId <- MCTxId
  Digest <- MCDigest
  ZeroDigest = "0"
  GenesisHeight = 2
  Tld <- MCTld
  TldOwner = "nock"
  TldTx = "0x1"
  LockRoot <- MCLockRoot
  TreasuryLockRoot = "treasury"
  Block <- MCBlock
  Chains <- MCChains
  FinalityDepth = 1
  MaxReorg = 1
  BatchBlocks = 2
  NoProof = NoProof
  None = None
  MaxFaults = 1
  MaxCrashes = 1
  MaxHeight = 3
INVARIANTS
  ErrorClearsOnSuccess
