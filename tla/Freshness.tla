------------------------------ MODULE Freshness ------------------------------
(***************************************************************************)
(* The wallet's policy on how old a claim proof may be (src/freshness.rs   *)
(* and the two methods of ClaimBundle in src/kernel.rs).  A proof bundle   *)
(* carries the anchor it was made at: height and digest of a block.        *)
(***************************************************************************)
EXTENDS Naturals

CONSTANTS
  MaxStaleness   \* blocks a proof may lie behind the wallet's tip

ASSUME StalenessAssumption == MaxStaleness \in Nat

(* Mutant: the window is one block too long. *)
FreshOffByOne(proofTipHeight, chainTipHeight) ==
  \/ proofTipHeight >= chainTipHeight
  \/ chainTipHeight - proofTipHeight <= MaxStaleness + 1

(* Freshness::check, with the subtraction after the comparison.  A proof   *)
(* ahead of the wallet's view is fresh.                                    *)
Fresh(proofTipHeight, chainTipHeight) ==
  \/ proofTipHeight >= chainTipHeight
  \/ chainTipHeight - proofTipHeight <= MaxStaleness

(* Freshness::check_anchor_binding; height and digest are not compared     *)
(* with each other.                                                        *)
AnchorBound(proofTipDigest, walletViewDigest) ==
  proofTipDigest = walletViewDigest
=============================================================================
