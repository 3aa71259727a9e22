-------------------------- MODULE ClaimScannerFold --------------------------
(***************************************************************************)
(* The claim scanner the way the code runs it: one claim after the other,  *)
(* each valid one inserted into the accumulator so far.                    *)
(***************************************************************************)
EXTENDS NNSKernel, SequencesExt

CONSTANTS
  ClaimPool,   \* the claims a list is built from
  PageTxIds,   \* transaction ids of the block
  MaxClaims    \* bound on the length of a list

(* Claims of any type-correct list, and any page. *)
ASSUME FoldAssumption ==
  ClaimPool \subseteq Claim /\ PageTxIds \subseteq TxId /\ MaxClaims \in Nat

ScanClaim(acc, p, c) ==
  IF ValidClaim(p, c) THEN Insert(acc, c.name, RowOf(p, c)) ELSE acc

FoldClaims(acc, p) ==
  FoldLeft(LAMBDA a, c : ScanClaim(a, p, c), acc, p.claims)

ClaimLists == UNION {[1 .. n -> ClaimPool] : n \in 0 .. MaxClaims}

(* For whatever registry the kernel has reached and whatever list of       *)
(* claims comes next, folding the claims one by one (claim-scanner) leaves *)
(* exactly the rows of the closed form the model and the proofs use.       *)
FoldIsFirstWriterWins ==
  \A cs \in ClaimLists :
    LET page == [parent |-> lastProvedDigest, height |-> WantHeight,
                 digest |-> ZeroDigest, txIds |-> PageTxIds, claims |-> cs]
    IN  FoldClaims(accumulator, page) = ClaimScanner(accumulator, page)
=============================================================================
