SPECIFICATION Spec
CONSTANTS
  Name <- MCName
  Owner <- MCOwner
  TxId <- MCTxId
  Digest <- MCDigest
  ZeroDigest = "0"
  GenesisHeight = 2
  Tld <- MCTld
  TldOwner = "nock"
  TldTx = "0x1"
  LockRoot <- MCLockRoot
  TreasuryLockRoot = "treasury"
  Absent = Absent
  Garbled = Garbled
  Tree <- MCTree
  WrongHeaders <- MCWrong
  ClaimPool <- MCPool
  MaxHeaders = 4
INVARIANTS
  WalletWalkIsAncestry
  KernelWalkIsAncestry
  ScannerAddsTheDeclaredFee
  LinearLacksOnlyThePayment
CHECK_DEADLOCK FALSE
