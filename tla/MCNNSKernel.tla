----------------------------- MODULE MCNNSKernel -----------------------------
(***************************************************************************)
(* A small instance of NNSKernel: genesis height 2, blocks at heights 2 to *)
(* 4 with a fork at every height, and payloads a host may invent: a block  *)
(* offered below the genesis height, a skipped height, a wrong parent, a   *)
(* block that claims the zero digest.                                      *)
(***************************************************************************)
EXTENDS KernelWire, ClaimScannerFold, SettlementGate, MCNames

MCDigest == {"0", "d1", "d2", "e2", "d3", "e3", "d4"}
MCTxId   == {"0x1", "t1", "t2", "t3"}

LOCAL Payload(parent, h, d, claims) ==
  [parent |-> parent, height |-> h, digest |-> d, txIds |-> {"t1", "t2"},
   claims |-> claims]

MCScanInput ==
  { Payload("0",  1, "d1", <<BobShort>>),              \* below genesis
    Payload("d1", 2, "d2", <<Underpaid, AliceShort, AliceLong>>),
    Payload("d1", 2, "e2", <<BobShort, AliceShort>>),
    Payload("d1", 2, "0",  <<NotSigner>>),             \* zero digest
    Payload("d2", 3, "d3", <<Overdeclared, BobShort, BobLong>>),
    Payload("e2", 3, "e3", <<>>),
    Payload("0",  3, "d3", <<LowFee, BobLong>>),
    Payload("d3", 4, "d4", <<BobShort, BadFormat>>),
    Payload("e3", 4, "d4", <<BobLong, AliceLong, TldClaim>>),
    Payload("d2", 4, "d4", <<BobLong>>) }              \* skips a height

MCKeyLimb ==
  [n \in MCName |-> CASE n = MCTld -> 1 [] n = Short -> 2
                      [] n = Long -> 3 [] OTHER -> 4]

MCDigestAtom ==
  [d \in MCDigest |-> CASE d = "0"  -> 0  [] d = "d1" -> 1 [] d = "d2" -> 6
                        [] d = "e2" -> 11 [] d = "d3" -> 7 [] d = "e3" -> 30
                        [] d = "d4" -> 100]

MCPool == GoodClaims \cup BadClaims

(* One payment registers at most one name: "kernel C4 rejects reused       *)
(* tx-hash values" (README.md:116).  The kernel keeps no set of used       *)
(* transaction ids, and %scan-block folds two claims of one transaction.   *)
NoPaymentReuse ==
  \A m, n \in DOMAIN accumulator \ {Tld} :
    accumulator[m].txHash = accumulator[n].txHash => m = n
=============================================================================
