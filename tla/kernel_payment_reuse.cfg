SPECIFICATION Spec
CONSTANTS
  Name <- MCName
  Owner <- MCOwner
  TxId <- MCTxId
  Digest <- MCDigest
  ZeroDigest = "0"
  GenesisHeight = 2
  Tld <- MCTld
  TldOwner = "nock"
  TldTx = "0x1"
  LockRoot <- MCLockRoot
  TreasuryLockRoot = "treasury"
  ScanInput <- MCScanInput
  NoProof = NoProof
  Absent = Absent
  Garbled = Garbled
  KeyLimb <- MCKeyLimb
  DigestAtom <- MCDigestAtom
  LimbBase = 3
  ClaimPool <- MCPool
  PageTxIds = {"t1", "t2"}
  MaxClaims = 2
INVARIANTS
  NoPaymentReuse
