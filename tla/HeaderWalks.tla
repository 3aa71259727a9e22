----------------------------- MODULE HeaderWalks -----------------------------
(***************************************************************************)
(* The two header walks of the code, the wallet's from the scan cursor     *)
(* down to its checkpoint and the kernel's from a claim's block up to the  *)
(* tip, over every list of headers: those of a tree of blocks, and some    *)
(* whose height is wrong.  A list is grown one header at a time and        *)
(* compared with ancestry in the tree.                                     *)
(***************************************************************************)
EXTENDS LightVerify, ClaimBundle, SequencesExt

CONSTANTS
  Tree,         \* blocks: [parent, height, digest, txIds, claims]
  WrongHeaders, \* headers of blocks of the tree with another height
  ClaimPool,    \* claims a host may ask about
  MaxHeaders    \* bound on the length of the list

(* Any finite tree of blocks whose digests do not collide and whose        *)
(* heights count the blocks below.                                         *)
ASSUME TreeAssumption ==
  /\ IsFiniteSet(Tree)
  /\ \A b \in Tree : /\ b.height \in Nat
                     /\ b.digest \in Digest
                     /\ b.parent \in Digest
  /\ \A b, c \in Tree : b.digest = c.digest => b = c
  /\ \A b, c \in Tree : b.parent = c.digest => b.height = c.height + 1

(* Digest and parent belong to one block; the walks compare digests and    *)
(* recompute none.                                                         *)
ASSUME WrongHeaderAssumption ==
  \A h \in WrongHeaders :
    /\ h.height \in Nat
    /\ \E b \in Tree : h = [HeaderOf(b) EXCEPT !.height = h.height]

ASSUME PoolAssumption == ClaimPool \subseteq Claim

VARIABLES headers

(* What a host can put into a list of headers. *)
Headers == {HeaderOf(b) : b \in Tree} \cup WrongHeaders

Init == headers = <<>>

AddHeader ==
  /\ Len(headers) < MaxHeaders
  /\ \E h \in Headers : headers' = Append(headers, h)

Next == AddHeader

Spec == Init /\ [][Next]_headers

-----------------------------------------------------------------------------
(* A block and its ancestors in the tree, newest first. *)
Lineage[b \in Tree] ==
  IF \E p \in Tree : p.digest = b.parent
  THEN <<b>> \o Lineage[CHOOSE p \in Tree : p.digest = b.parent]
  ELSE <<b>>

(* The headers from b down to its k-th ancestor, both included. *)
Downward(b, k) == [i \in 1 .. k |-> HeaderOf(Lineage[b][i])]

(* The wallet accepts exactly the true path: a list of headers passes for  *)
(* a cursor and a checkpoint that are blocks of the tree if and only if    *)
(* the checkpoint is the cursor or an ancestor of it and the list is every *)
(* header between them with its true height                                *)
(* (verify_header_chain_to_checkpoint).                                    *)
WalletWalkIsAncestry ==
  \A b, c \in Tree :
    HeaderChainOk(b.height, b.digest,
                  [height |-> c.height, digest |-> c.digest], headers)
    <=> \E k \in DOMAIN Lineage[b] :
          /\ Lineage[b][k] = c
          /\ headers = IF k = 1 THEN <<>> ELSE Downward(b, k)

(* The kernel's walk accepts every true path, and whatever it accepts runs *)
(* through the blocks of the true path, so that no claim's block is taken  *)
(* to be below a tip it is not below (chain-links-to).                     *)
KernelWalkIsAncestry ==
  \A tip, c \in Tree :
    LET path(k) == Reverse(Downward(tip, k - 1))
        ks      == {k \in DOMAIN Lineage[tip] : Lineage[tip][k] = c}
        digests(s) == [i \in DOMAIN s |-> s[i].digest]
        accepted == ChainLinksTo(c.digest, headers, tip.digest)
    IN  /\ (\E k \in ks : headers = path(k)) => accepted
        /\ accepted => \E k \in ks : digests(headers) = digests(path(k))

(* The claim as it would be if it declared the fee of the schedule. *)
AtSchedule(c) == [c EXCEPT !.fee = FeeForName(c.name)]

(* How far %validate-claim and the scanner of %scan-block decide alike.    *)
(* For every claim, also one that declares a fee it does not pay, and      *)
(* whatever block the host says it is in: %validate-claim asks for the     *)
(* evidence (page and headers), for a declared fee of at least the         *)
(* schedule's, and for what the scanner asks of the same claim at the      *)
(* schedule's fee.  Where there is evidence, the scanner asks what         *)
(* %validate-claim asks and one thing more, that the payment covers the    *)
(* fee declared (validate-claim-bundle against valid-claim).               *)
ScannerAddsTheDeclaredFee ==
  \A c \in ClaimPool, page, tip \in Tree : \A block \in {page, tip} :
    LET accepted == ValidateClaimBundle(BundleOf(c, block.digest, page, headers,
                                                 tip.digest)) = "ok"
        evidence == /\ block.digest = page.digest
                    /\ ChainLinksTo(block.digest, headers, tip.digest)
    IN  /\ accepted <=> /\ evidence
                        /\ c.fee >= FeeForName(c.name)
                        /\ ValidClaim(page, AtSchedule(c))
        /\ evidence => ( ValidClaim(page, c)
                           <=> accepted /\ c.witness.amount >= c.fee )

(* The claim as it would be if its transaction had paid for it in full. *)
FullyPaid(c) ==
  [c EXCEPT !.witness = [txId |-> c.txHash, spender |-> c.owner,
                         amount |-> FeeForName(c.name),
                         lockRoot |-> TreasuryLockRoot]]

(* What a proof of the linear validator is worth, whatever page, block and *)
(* headers the host puts together: its verdict, to the tag, is the one of  *)
(* %validate-claim on the same bundle had the payment been right, so that  *)
(* the payment is all a wallet is left to check                            *)
(* (validate-claim-bundle-linear against validate-claim-bundle).           *)
LinearLacksOnlyThePayment ==
  \A c \in ClaimPool :
    LET paid == FullyPaid(c)
    IN  \A page, tip \in Tree : \A block \in {page, tip} :
          LET bundle(claim) ==
                BundleOf(claim, block.digest, page, headers, tip.digest)
          IN  ValidateClaimBundleLinear(bundle(c))
                = ValidateClaimBundle(bundle(paid))
=============================================================================
