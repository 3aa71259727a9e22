----------------------------- MODULE NNSKernel -----------------------------
(***************************************************************************)
(* The registrar kernel (hoon/app/app.hoon): its state and one action per  *)
(* poke that can change it.  A poke is atomic: the host holds the kernel   *)
(* mutex for its whole duration, and a poke that crashes leaves the state  *)
(* it found.                                                               *)
(*                                                                         *)
(* The payloads come from an untrusted host.  ScanInput is the set of      *)
(* %scan-block payloads it may send, in any order and any number of times. *)
(***************************************************************************)
EXTENDS NNSPredicates

CONSTANTS
  ScanInput,   \* %scan-block payloads
  NoProof      \* the empty unit of last-proved and recursive-proof

(* A %scan-block payload.  The code passes the page's transaction ids as a *)
(* list and only ever asks whether one is a member.                        *)
ScanPayload ==
  [parent : Digest, height : Nat, digest : Digest, txIds : SUBSET TxId,
   claims : Seq(Claim)]

ASSUME ScanInputAssumption == ScanInput \subseteq ScanPayload

VARIABLES
  accumulator,       \* the registry
  lastProvedHeight,  \* scan cursor: height ...
  lastProvedDigest,  \* ... and digest of the last scanned block
  lastProved,        \* what the last successful prove computed
  recursiveProof,    \* what the stored recursive proof computed
  effect,            \* the effect of the last poke
  scanned            \* history: the payloads of the accepted scans

cursor     == <<lastProvedHeight, lastProvedDigest>>
proofs     == <<lastProved, recursiveProof>>
kernelVars == <<accumulator, lastProvedHeight, lastProvedDigest, lastProved,
                recursiveProof, effect, scanned>>

(* What a proof is about: the arm that produced it, the heights and the    *)
(* digest its subject embeds, the names of the claims in it, and the scan  *)
(* height the prover was bound to (stark-bind).                            *)
Computation ==
  [arm : {"genesis", "transition", "other"}, prevHeight : Nat, height : Nat,
   digest : Digest, claimed : SUBSET Name, bound : Nat]

ScanErrors == {"parent-mismatch", "height-not-successor",
               "claim-scanner-trap", "accumulator-root-trap"}

Effects == {"none", "scan-block-done", "prove-failed", "poke-crashed",
            "genesis-recursive-proof", "recursive-transition-proof",
            "other-proof"} \cup ScanErrors

TypeOK ==
  /\ IsAccumulator(accumulator)
  /\ lastProvedHeight \in Nat
  /\ lastProvedDigest \in Digest
  /\ lastProved \in Computation \cup {NoProof}
  /\ recursiveProof \in Computation \cup {NoProof}
  /\ effect \in Effects
  /\ scanned \in Seq(ScanInput)

-----------------------------------------------------------------------------
(* The state of a fresh kernel. *)
Init ==
  /\ accumulator = EmptyAccumulator
  /\ lastProvedHeight = 0
  /\ lastProvedDigest = ZeroDigest
  /\ lastProved = NoProof
  /\ recursiveProof = NoProof
  /\ effect = "none"
  /\ scanned = <<>>

(* Nothing scanned yet: height and digest both zero. *)
Boot == lastProvedHeight = 0 /\ lastProvedDigest = ZeroDigest

(* Mutant: boot is judged by the digest alone. *)
LinkedZeroDigest(b) ==
  lastProvedDigest = ZeroDigest \/ b.parent = lastProvedDigest

Linked(b) == Boot \/ b.parent = lastProvedDigest

(* The accumulator a scan folds over: seeded on boot.  The seed is written *)
(* as soon as the parent check is passed, so it stays if the scan fails    *)
(* afterwards.                                                             *)
Seeded == IF Boot THEN EnsureGenesisTld(accumulator) ELSE accumulator

(* Mutant: the first scan is not lifted to the genesis height. *)
WantHeightNoFloor == lastProvedHeight + 1

WantHeight ==
  IF Boot /\ lastProvedHeight + 1 < GenesisHeight
  THEN GenesisHeight
  ELSE lastProvedHeight + 1

ScanParentMismatch(b) ==
  /\ ~Linked(b)
  /\ effect' = "parent-mismatch"
  /\ UNCHANGED <<accumulator, cursor, proofs, scanned>>

(* Mutant: the claims are folded in before the height is checked. *)
ScanHeightMismatchAfterFold(b) ==
  /\ Linked(b)
  /\ b.height # WantHeight
  /\ accumulator' = ClaimScanner(Seeded, b)
  /\ effect' = "height-not-successor"
  /\ UNCHANGED <<cursor, proofs, scanned>>

ScanHeightMismatch(b) ==
  /\ Linked(b)
  /\ b.height # WantHeight
  /\ accumulator' = Seeded
  /\ effect' = "height-not-successor"
  /\ UNCHANGED <<cursor, proofs, scanned>>

(* The claim fold or the root computation traps inside its mule. *)
ScanTrap(b) ==
  /\ Linked(b)
  /\ b.height = WantHeight
  /\ accumulator' = Seeded
  /\ effect' \in {"claim-scanner-trap", "accumulator-root-trap"}
  /\ UNCHANGED <<cursor, proofs, scanned>>

ScanAccept(b) ==
  /\ Linked(b)
  /\ b.height = WantHeight
  /\ accumulator' = ClaimScanner(Seeded, b)
  /\ lastProvedHeight' = b.height
  /\ lastProvedDigest' = b.digest
  /\ effect' = "scan-block-done"
  /\ scanned' = Append(scanned, b)
  /\ UNCHANGED proofs

ScanBlock(b) ==
  \/ ScanParentMismatch(b)
  \/ ScanHeightMismatch(b)
  \/ ScanTrap(b)
  \/ ScanAccept(b)

-----------------------------------------------------------------------------
(* The prover (Vesl) runs inside a mule: it succeeds or the poke ends in   *)
(* %prove-failed.  Which of the two is not decided by the kernel's state.  *)

GenesisComputation ==
  [arm |-> "genesis", prevHeight |-> 0, height |-> GenesisHeight,
   digest |-> ZeroDigest, claimed |-> {}, bound |-> lastProvedHeight]

(* Mutant: the genesis proof starts over from an empty registry. *)
ProveRecursiveGenesisFresh ==
  /\ accumulator' = EnsureGenesisTld(EmptyAccumulator)
  /\ \/ /\ lastProved' = GenesisComputation
        /\ recursiveProof' = GenesisComputation
        /\ effect' = "genesis-recursive-proof"
     \/ /\ effect' = "prove-failed"
        /\ UNCHANGED proofs
  /\ UNCHANGED <<cursor, scanned>>

(* The seed is written before the prover runs, and stays if it fails. *)
ProveRecursiveGenesis ==
  /\ accumulator' = EnsureGenesisTld(accumulator)
  /\ \/ /\ lastProved' = GenesisComputation
        /\ recursiveProof' = GenesisComputation
        /\ effect' = "genesis-recursive-proof"
     \/ /\ effect' = "prove-failed"
        /\ UNCHANGED proofs
  /\ UNCHANGED <<cursor, scanned>>

(* Mutant: the block before the cursor, without the boot case. *)
PrevHeightNoBoot == lastProvedHeight - 1

PrevHeight ==
  IF lastProvedHeight > 0 THEN lastProvedHeight ELSE GenesisHeight

ClaimedNames(b) == {b.claims[i].name : i \in DOMAIN b.claims}

TransitionComputation(b) ==
  [arm |-> "transition", prevHeight |-> PrevHeight, height |-> PrevHeight + 1,
   digest |-> b.digest, claimed |-> ClaimedNames(b),
   bound |-> lastProvedHeight]

(* `prev' says where the previous proof comes from: the kernel's own state *)
(* ("stored"), jams in the poke ("supplied"), or jams that do not cue      *)
(* ("garbled").                                                            *)
TransitionCrashes(prev, b) ==
  \/ prev = "stored" /\ recursiveProof = NoProof
  \/ prev = "garbled"
  \/ Len(b.claims) > 1

ProveRecursiveTransition(prev, b) ==
  \/ /\ TransitionCrashes(prev, b)
     /\ effect' = "poke-crashed"
     /\ UNCHANGED <<accumulator, cursor, proofs, scanned>>
  \/ /\ ~TransitionCrashes(prev, b)
     /\ lastProved' = TransitionComputation(b)
     /\ recursiveProof' = TransitionComputation(b)
     /\ effect' = "recursive-transition-proof"
     /\ UNCHANGED <<accumulator, cursor, scanned>>
  \/ /\ ~TransitionCrashes(prev, b)
     /\ effect' = "prove-failed"
     /\ UNCHANGED <<accumulator, cursor, proofs, scanned>>

OtherComputation ==
  [arm |-> "other", prevHeight |-> 0, height |-> 0, digest |-> ZeroDigest,
   claimed |-> {}, bound |-> lastProvedHeight]

(* %prove-arbitrary and %prove-claim-in-stark: cache the pair, nothing     *)
(* else.                                                                   *)
ProveOther ==
  /\ \/ /\ lastProved' = OtherComputation
        /\ effect' = "other-proof"
     \/ /\ effect' = "prove-failed"
        /\ UNCHANGED lastProved
  /\ UNCHANGED <<accumulator, cursor, recursiveProof, scanned>>

-----------------------------------------------------------------------------
Next ==
  \/ \E b \in ScanInput : ScanBlock(b)
  \/ ProveRecursiveGenesis
  \/ \E prev \in {"stored", "supplied", "garbled"}, b \in ScanInput :
       ProveRecursiveTransition(prev, b)
  \/ ProveOther

Spec == Init /\ [][Next]_kernelVars

-----------------------------------------------------------------------------
(* The accepted blocks are one parent-linked run of consecutive heights    *)
(* that starts at the genesis height, whatever the host sent in between;   *)
(* the cursor is its last block (%scan-block's parent and height checks).  *)
ScannedIsLinkedRun ==
  /\ \A i \in DOMAIN scanned :
       /\ scanned[i].height = GenesisHeight + i - 1
       /\ i > 1 => scanned[i].parent = scanned[i - 1].digest
  /\ IF scanned = <<>>
     THEN Boot
     ELSE /\ lastProvedHeight = scanned[Len(scanned)].height
          /\ lastProvedDigest = scanned[Len(scanned)].digest

(* <<i, j>> is the position of a claim that passes the rules. *)
ValidAt(i, j) == i \in DOMAIN scanned /\ j \in ValidPositions(scanned[i])

ClaimAt(i, j) == scanned[i].claims[j]

Before(i, j, k, l) == i < k \/ (i = k /\ j < l)

(* Every row is the row of the first valid claim on its name in the order  *)
(* of the chain: no later claim, no claim of another block and no claim    *)
(* that fails a rule ever names an owner (claim-scanner and insert).       *)
RowsAreFirstClaims ==
  \A n \in DOMAIN accumulator \ {Tld} :
    \E i \in DOMAIN scanned : \E j \in ValidPositions(scanned[i]) :
      /\ ClaimAt(i, j).name = n
      /\ accumulator[n] = RowOf(scanned[i], ClaimAt(i, j))
      /\ \A k \in DOMAIN scanned : \A l \in ValidPositions(scanned[k]) :
           ClaimAt(k, l).name = n => ~Before(k, l, i, j)

(* No valid claim is lost: once its block is scanned its name has a row. *)
ClaimsAreRegistered ==
  \A i \in DOMAIN scanned : \A j \in ValidPositions(scanned[i]) :
    ClaimAt(i, j).name \in DOMAIN accumulator

(* The reserved row is in place before any claim is folded and is never    *)
(* anything but the seeded row (ensure-genesis-tld).                       *)
TldReserved ==
  /\ scanned # <<>> => HasRow(accumulator, Tld)
  /\ HasRow(accumulator, Tld) => accumulator[Tld] = GenesisTldEntry

(* The registry is a function of the accepted blocks alone: rejected       *)
(* scans, retries and prover pokes leave no trace in it.                   *)
RegistryIsReplay ==
  RowsAreFirstClaims /\ ClaimsAreRegistered /\ TldReserved

(* A row, once written, is never rewritten or removed. *)
RowsArePermanent ==
  [][\A n \in DOMAIN accumulator :
       n \in DOMAIN accumulator' /\ accumulator'[n] = accumulator[n]]_kernelVars

(* The registry without the reserved row, and the cursor height, behave as *)
(* the append-only ledger of NameRegistry: registry and cursor only move   *)
(* together, by one height, and new rows are stamped with that height,     *)
(* although scans may be rejected half way and prover pokes interleave.    *)
Registry == INSTANCE NameRegistry WITH
  rows        <- [n \in DOMAIN accumulator \ {Tld} |-> accumulator[n]],
  height      <- lastProvedHeight,
  FirstHeight <- GenesisHeight

ImplementsNameRegistry == Registry!Spec
=============================================================================
