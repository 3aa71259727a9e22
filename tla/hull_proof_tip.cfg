SPECIFICATION ApiSpec
CONSTANTS
  Name <- MCName
  Owner <- MCOwner
  TxId <- MCTxId
  Digest <- MCDigest
  ZeroDigest = "0"
  GenesisHeight = 2
  Tld <- MCTld
  TldOwner = "nock"
  TldTx = "0x1"
  LockRoot <- MCLockRoot
  TreasuryLockRoot = "treasury"
  Block <- MCBlock
  Chains <- MCChains
  FinalityDepth = 1
  MaxReorg = 1
  BatchBlocks = 2
  NoProof = NoProof
  None = None
  MaxFaults = 0
  MaxCrashes = 1
  MaxHeight = 4
  Absent = Absent
  Garbled = Garbled
  MaxRequests = 1
INVARIANTS
  ProofIsForTip
