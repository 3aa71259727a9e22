----------------------------- MODULE ClaimBundle -----------------------------
(***************************************************************************)
(* %validate-claim: the read-only check of one claim with its evidence     *)
(* (+chain-links-to and +validate-claim-bundle in                          *)
(* hoon/app/nns-predicates.hoon).  Unlike the scanner it is told why a     *)
(* claim fails, and it walks headers from the claim's block up to the tip. *)
(***************************************************************************)
EXTENDS NNSPredicates

(* Mutant: the first header need not sit on the claim's block. *)
ChainLinksToAnyStart(claimDigest, headers, tip) ==
  \/ headers = <<>> /\ claimDigest = tip
  \/ /\ headers # <<>>
     /\ \A i \in 2 .. Len(headers) :
          /\ headers[i].parent = headers[i - 1].digest
          /\ headers[i].height = headers[i - 1].height + 1
     /\ headers[Len(headers)].digest = tip

(* Oldest header first.  The height of the first one is not looked at. *)
ChainLinksTo(claimDigest, headers, tip) ==
  \/ headers = <<>> /\ claimDigest = tip
  \/ /\ headers # <<>>
     /\ headers[1].parent = claimDigest
     /\ \A i \in 2 .. Len(headers) :
          /\ headers[i].parent = headers[i - 1].digest
          /\ headers[i].height = headers[i - 1].height + 1
     /\ headers[Len(headers)].digest = tip

(* The evidence for claim c: the block it says it is in, the page the host *)
(* shows for that block, and headers up to the anchored tip.               *)
BundleOf(c, blockDigest, page, headers, tip) ==
  [claim |-> c, blockDigest |-> blockDigest, page |-> page,
   headers |-> headers, tip |-> tip]

(* Mutant: the signer is not compared with the owner. *)
ValidateClaimBundleAnySender(b) ==
  LET c == b.claim IN
  IF ~IsValidName(c.name) THEN "invalid-name"
  ELSE IF c.fee < FeeForName(c.name) THEN "fee-below-schedule"
  ELSE IF c.witness.txId # c.txHash THEN "witness-tx-id-mismatch"
  ELSE IF c.witness.amount < FeeForName(c.name) THEN "witness-underpaid"
  ELSE IF c.witness.lockRoot # TreasuryLockRoot THEN "witness-wrong-treasury"
  ELSE IF b.page.digest # b.blockDigest THEN "page-digest-mismatch"
  ELSE IF c.txHash \notin b.page.txIds THEN "tx-not-in-page"
  ELSE IF ~ChainLinksTo(b.blockDigest, b.headers, b.tip) THEN "chain-broken"
  ELSE "ok"

(* The tag of the first predicate that rejects. *)
ValidateClaimBundle(b) ==
  LET c == b.claim IN
  IF ~IsValidName(c.name) THEN "invalid-name"
  ELSE IF c.fee < FeeForName(c.name) THEN "fee-below-schedule"
  ELSE IF c.witness.txId # c.txHash THEN "witness-tx-id-mismatch"
  ELSE IF c.witness.spender # c.owner THEN "witness-sender-mismatch"
  ELSE IF c.witness.amount < FeeForName(c.name) THEN "witness-underpaid"
  ELSE IF c.witness.lockRoot # TreasuryLockRoot THEN "witness-wrong-treasury"
  ELSE IF b.page.digest # b.blockDigest THEN "page-digest-mismatch"
  ELSE IF c.txHash \notin b.page.txIds THEN "tx-not-in-page"
  ELSE IF ~ChainLinksTo(b.blockDigest, b.headers, b.tip) THEN "chain-broken"
  ELSE "ok"

(* Mutant: the linear variant forgets that the page must be the claim's. *)
ValidateClaimBundleLinearAnyPage(b) ==
  LET c == b.claim IN
  IF ~IsValidName(c.name) THEN "invalid-name"
  ELSE IF c.fee < FeeForName(c.name) THEN "fee-below-schedule"
  ELSE IF c.txHash \notin b.page.txIds THEN "tx-not-in-page"
  ELSE IF ~ChainLinksTo(b.blockDigest, b.headers, b.tip) THEN "chain-broken"
  ELSE "ok"

(* +validate-claim-bundle-linear, what %prove-claim-in-stark traces.  Its  *)
(* bundle has no witness, and it has none of the four witness checks.      *)
ValidateClaimBundleLinear(b) ==
  LET c == b.claim IN
  IF ~IsValidName(c.name) THEN "invalid-name"
  ELSE IF c.fee < FeeForName(c.name) THEN "fee-below-schedule"
  ELSE IF b.page.digest # b.blockDigest THEN "page-digest-mismatch"
  ELSE IF c.txHash \notin b.page.txIds THEN "tx-not-in-page"
  ELSE IF ~ChainLinksTo(b.blockDigest, b.headers, b.tip) THEN "chain-broken"
  ELSE "ok"
=============================================================================
