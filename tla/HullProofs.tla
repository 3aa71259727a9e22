----------------------------- MODULE HullProofs -----------------------------
(***************************************************************************)
(* Proofs about the hull: its follower (ChainFollower), and the API that   *)
(* is served beside it (HullApi), for every set of blocks and chains,      *)
(* every batch size and finality depth, any number of faults, crashes and  *)
(* requests.                                                               *)
(*                                                                         *)
(* The follower: types, one replayed branch, no fork poked and truthful    *)
(* telemetry whatever the depth of reorganisations; final blocks and       *)
(* lasting rows as long as reorganisations stay above the finality depth   *)
(* (MaxReorg <= FinalityDepth; the run follower_deep_reorg shows what is   *)
(* left without).  The kernel's part comes from NNSKernelProofs,           *)
(* instantiated.  The rest is one inductive invariant, FollowerInv, and on *)
(* top of it FinalOK and RowsOK.                                           *)
(*                                                                         *)
(* The API, under the same bound on reorganisations: what a client was     *)
(* told stays true, an exported answer passes the wallet's check, a status *)
(* answer is coherent.  Every step of the API is a step of the follower or *)
(* none of it, so the follower's invariants carry over; ApiInv adds what   *)
(* holds of the requests being served and of the answers given.            *)
(***************************************************************************)
EXTENDS HullApi, FiniteSetTheorems, SequenceTheorems, TLAPS

(* The theorems of the kernel, for the kernel the follower drives. *)
KP == INSTANCE NNSKernelProofs WITH ScanInput <- Block

(* The definitions of the two instances of NNSKernel are the same. *)
LEMMA BlocksArePayloads == Block \subseteq KP!ScanPayload
  BY FollowerAssumption
     DEF KP!ScanPayload, K!ScanPayload, KP!Claim, K!Claim,
         KP!Witness, K!Witness

(* K and KP are instances of the same module: what one says, so does the   *)
(* other.                                                                  *)
LEMMA SameTypes == (K!TypeOK <=> KP!TypeOK) /\ (K!TypeOK' <=> KP!TypeOK')
  BY DEF K!TypeOK, KP!TypeOK, K!IsAccumulator, KP!IsAccumulator,
         K!Entry, KP!Entry, K!Computation, KP!Computation,
         K!Effects, KP!Effects, K!ScanErrors, KP!ScanErrors

(* The linked run is the same in both. *)
LEMMA SameRun ==
  /\ K!ScannedIsLinkedRun <=> KP!ScannedIsLinkedRun
  /\ K!ScannedIsLinkedRun' <=> KP!ScannedIsLinkedRun'
  BY DEF K!ScannedIsLinkedRun, KP!ScannedIsLinkedRun, K!Boot, KP!Boot

(* So is the fresh kernel. *)
LEMMA SameInit == K!Init <=> KP!Init
  BY DEF K!Init, KP!Init, K!EmptyAccumulator, KP!EmptyAccumulator,
         K!Entry, KP!Entry

(* The claim rules are the same operators in every instance. *)
LEMMA SameRules ==
  ASSUME NEW p
  PROVE  /\ KP!ValidPositions(p) = ValidPositions(p)
         /\ K!ValidPositions(p) = ValidPositions(p)
         /\ Saved!ValidPositions(p) = ValidPositions(p)
         /\ \A c : /\ KP!RowOf(p, c) = RowOf(p, c)
                   /\ K!RowOf(p, c) = RowOf(p, c)
                   /\ Saved!RowOf(p, c) = RowOf(p, c)
<1>1. \A n : /\ KP!FeeForName(n) = FeeForName(n)
             /\ K!FeeForName(n) = FeeForName(n)
             /\ Saved!FeeForName(n) = FeeForName(n)
  BY DEF KP!FeeForName, K!FeeForName, Saved!FeeForName, FeeForName
<1>2. \A n : /\ KP!IsValidName(n) <=> IsValidName(n)
             /\ K!IsValidName(n) <=> IsValidName(n)
             /\ Saved!IsValidName(n) <=> IsValidName(n)
  BY DEF KP!IsValidName, K!IsValidName, Saved!IsValidName, IsValidName,
         KP!HasNockSuffix, K!HasNockSuffix, Saved!HasNockSuffix, HasNockSuffix
<1>3. \A c : /\ KP!ValidClaim(p, c) <=> ValidClaim(p, c)
             /\ K!ValidClaim(p, c) <=> ValidClaim(p, c)
             /\ Saved!ValidClaim(p, c) <=> ValidClaim(p, c)
  BY <1>1, <1>2
     DEF KP!ValidClaim, K!ValidClaim, Saved!ValidClaim, ValidClaim
<1>4. /\ KP!ValidPositions(p) = ValidPositions(p)
      /\ K!ValidPositions(p) = ValidPositions(p)
      /\ Saved!ValidPositions(p) = ValidPositions(p)
  BY <1>3 DEF KP!ValidPositions, K!ValidPositions, Saved!ValidPositions,
              ValidPositions
<1>5. \A c : /\ KP!RowOf(p, c) = RowOf(p, c)
             /\ K!RowOf(p, c) = RowOf(p, c)
             /\ Saved!RowOf(p, c) = RowOf(p, c)
  BY DEF KP!RowOf, K!RowOf, Saved!RowOf, RowOf
<1> QED
  BY <1>4, <1>5

(* So is the replay. *)
LEMMA SameReplay ==
  /\ K!RegistryIsReplay <=> KP!RegistryIsReplay
  /\ K!RegistryIsReplay' <=> KP!RegistryIsReplay'
<1>1. K!RowsAreFirstClaims <=> KP!RowsAreFirstClaims
  BY SameRules DEF K!RowsAreFirstClaims, KP!RowsAreFirstClaims,
     K!ClaimAt, KP!ClaimAt, K!Before, KP!Before
<1>2. K!RowsAreFirstClaims' <=> KP!RowsAreFirstClaims'
  BY SameRules DEF K!RowsAreFirstClaims, KP!RowsAreFirstClaims,
     K!ClaimAt, KP!ClaimAt, K!Before, KP!Before
<1>3. /\ K!ClaimsAreRegistered <=> KP!ClaimsAreRegistered
      /\ K!ClaimsAreRegistered' <=> KP!ClaimsAreRegistered'
  BY SameRules DEF K!ClaimsAreRegistered, KP!ClaimsAreRegistered,
     K!ClaimAt, KP!ClaimAt
<1>4. /\ K!TldReserved <=> KP!TldReserved
      /\ K!TldReserved' <=> KP!TldReserved'
  BY DEF K!TldReserved, KP!TldReserved, K!HasRow, KP!HasRow,
         K!GenesisTldEntry, KP!GenesisTldEntry
<1> QED
  BY <1>1, <1>2, <1>3, <1>4 DEF K!RegistryIsReplay, KP!RegistryIsReplay

(* So are the pokes. *)
LEMMA SameNext == [K!Next]_(K!kernelVars) <=> [KP!Next]_(KP!kernelVars)
  BY DEF K!Next, KP!Next, K!kernelVars, KP!kernelVars, K!cursor,
         KP!cursor, K!proofs, KP!proofs, K!ScanBlock, KP!ScanBlock,
         K!ScanParentMismatch, KP!ScanParentMismatch,
         K!ScanHeightMismatch, KP!ScanHeightMismatch, K!ScanTrap,
         KP!ScanTrap, K!ScanAccept, KP!ScanAccept, K!Linked,
         KP!Linked, K!Boot, KP!Boot, K!Seeded, KP!Seeded,
         K!WantHeight, KP!WantHeight, K!EnsureGenesisTld,
         KP!EnsureGenesisTld, K!Insert, KP!Insert, K!HasRow,
         KP!HasRow, K!GenesisTldEntry, KP!GenesisTldEntry,
         K!ClaimScanner, KP!ClaimScanner, K!ValidPositions,
         KP!ValidPositions, K!ValidClaim, KP!ValidClaim,
         K!IsValidName, KP!IsValidName, K!HasNockSuffix,
         KP!HasNockSuffix, K!FeeForName, KP!FeeForName,
         K!IsFirstClaim, KP!IsFirstClaim, K!RowOf, KP!RowOf,
         K!ProveRecursiveGenesis, KP!ProveRecursiveGenesis,
         K!GenesisComputation, KP!GenesisComputation,
         K!ProveRecursiveTransition, KP!ProveRecursiveTransition,
         K!TransitionCrashes, KP!TransitionCrashes,
         K!TransitionComputation, KP!TransitionComputation,
         K!PrevHeight, KP!PrevHeight, K!ClaimedNames, KP!ClaimedNames,
         K!ProveOther, KP!ProveOther, K!OtherComputation,
         KP!OtherComputation

-----------------------------------------------------------------------------
(* The pokes of the follower, whatever their arguments, are steps of the   *)
(* kernel and keep what the kernel's proofs establish.                     *)
KernelOK == K!TypeOK /\ K!ScannedIsLinkedRun /\ K!RegistryIsReplay

SavedOK == Saved!TypeOK /\ Saved!ScannedIsLinkedRun /\ Saved!RegistryIsReplay

(* A fresh kernel has the kernel's invariants. *)
LEMMA KernelInit == K!Init => KernelOK
  BY KP!InitialState, BlocksArePayloads, SameTypes, SameRun, SameReplay,
     SameInit, AccumulatorAssumption, NameAssumption, TldAssumption,
     TreasuryAssumption DEF KernelOK

(* A poke keeps them. *)
LEMMA KernelStepOK ==
  ASSUME KernelOK, [K!Next]_(K!kernelVars)
  PROVE  KernelOK'
  BY KP!KernelStep, BlocksArePayloads, SameTypes, SameRun, SameReplay,
     SameNext, AccumulatorAssumption, NameAssumption, TldAssumption,
     TreasuryAssumption DEF KernelOK

(* A checkpoint holds the kernel as it is, and a restart brings back the   *)
(* kernel of the checkpoint.                                               *)
LEMMA CheckpointKeeps ==
  ASSUME KernelOK, saved' = Snapshot, UNCHANGED K!kernelVars
  PROVE  KernelOK' /\ SavedOK'
<1>1. K!TypeOK' /\ Saved!TypeOK'
  BY DEF KernelOK, Snapshot, K!kernelVars, K!TypeOK, Saved!TypeOK,
         K!IsAccumulator, Saved!IsAccumulator, K!Entry, Saved!Entry,
         K!Computation, Saved!Computation, K!Effects, Saved!Effects,
         K!ScanErrors, Saved!ScanErrors
<1>2. K!ScannedIsLinkedRun' /\ Saved!ScannedIsLinkedRun'
  BY DEF KernelOK, Snapshot, K!kernelVars, K!ScannedIsLinkedRun,
         Saved!ScannedIsLinkedRun, K!Boot, Saved!Boot
<1>3. K!RegistryIsReplay' /\ Saved!RegistryIsReplay'
  <2>1. K!RowsAreFirstClaims' /\ Saved!RowsAreFirstClaims'
    BY SameRules
       DEF KernelOK, Snapshot, K!kernelVars, K!RegistryIsReplay,
           Saved!RegistryIsReplay, K!RowsAreFirstClaims,
           Saved!RowsAreFirstClaims, K!ClaimAt, Saved!ClaimAt, K!Before,
           Saved!Before
  <2>2. K!ClaimsAreRegistered' /\ Saved!ClaimsAreRegistered'
    BY SameRules
       DEF KernelOK, Snapshot, K!kernelVars, K!RegistryIsReplay,
           Saved!RegistryIsReplay, K!ClaimsAreRegistered,
           Saved!ClaimsAreRegistered, K!ClaimAt, Saved!ClaimAt
  <2>3. K!TldReserved' /\ Saved!TldReserved'
    BY DEF KernelOK, Snapshot, K!kernelVars, K!RegistryIsReplay,
           Saved!RegistryIsReplay, K!TldReserved, Saved!TldReserved,
           K!HasRow, Saved!HasRow, K!GenesisTldEntry, Saved!GenesisTldEntry
  <2> QED
    BY <2>1, <2>2, <2>3 DEF K!RegistryIsReplay, Saved!RegistryIsReplay
<1> QED
  BY <1>1, <1>2, <1>3 DEF KernelOK, SavedOK

(* A restart brings back a kernel that has them. *)
LEMMA RestartKeeps ==
  ASSUME SavedOK, Crash
  PROVE  KernelOK' /\ SavedOK'
<1>1. K!TypeOK' /\ Saved!TypeOK'
  BY DEF SavedOK, Crash, K!TypeOK, Saved!TypeOK,
         K!IsAccumulator, Saved!IsAccumulator, K!Entry, Saved!Entry,
         K!Computation, Saved!Computation, K!Effects, Saved!Effects,
         K!ScanErrors, Saved!ScanErrors
<1>2. K!ScannedIsLinkedRun' /\ Saved!ScannedIsLinkedRun'
  BY DEF SavedOK, Crash, K!ScannedIsLinkedRun,
         Saved!ScannedIsLinkedRun, K!Boot, Saved!Boot
<1>3. K!RegistryIsReplay' /\ Saved!RegistryIsReplay'
  <2>1. K!RowsAreFirstClaims' /\ Saved!RowsAreFirstClaims'
    BY SameRules
       DEF SavedOK, Crash, K!RegistryIsReplay,
           Saved!RegistryIsReplay, K!RowsAreFirstClaims,
           Saved!RowsAreFirstClaims, K!ClaimAt, Saved!ClaimAt, K!Before,
           Saved!Before
  <2>2. K!ClaimsAreRegistered' /\ Saved!ClaimsAreRegistered'
    BY SameRules
       DEF SavedOK, Crash, K!RegistryIsReplay,
           Saved!RegistryIsReplay, K!ClaimsAreRegistered,
           Saved!ClaimsAreRegistered, K!ClaimAt, Saved!ClaimAt
  <2>3. K!TldReserved' /\ Saved!TldReserved'
    BY DEF SavedOK, Crash, K!RegistryIsReplay,
           Saved!RegistryIsReplay, K!TldReserved, Saved!TldReserved,
           K!HasRow, Saved!HasRow, K!GenesisTldEntry, Saved!GenesisTldEntry
  <2> QED
    BY <2>1, <2>2, <2>3 DEF K!RegistryIsReplay, Saved!RegistryIsReplay
<1> QED
  BY <1>1, <1>2, <1>3 DEF KernelOK, SavedOK

(* A checkpoint that is not rewritten keeps them. *)
LEMMA SavedStays ==
  ASSUME SavedOK, saved' = saved
  PROVE  SavedOK'
<1>1. Saved!TypeOK'
  BY DEF SavedOK, Saved!TypeOK
<1>2. Saved!ScannedIsLinkedRun'
  BY DEF SavedOK, Saved!ScannedIsLinkedRun, Saved!Boot
<1>3. Saved!RegistryIsReplay'
  BY DEF SavedOK, Saved!RegistryIsReplay, Saved!RowsAreFirstClaims,
         Saved!ClaimsAreRegistered, Saved!TldReserved, Saved!ClaimAt
<1> QED
  BY <1>1, <1>2, <1>3 DEF SavedOK

-----------------------------------------------------------------------------
(* What holds between the steps of a tick about its local state: the plan  *)
(* was made from the cursor the kernel still has, the heights wanted start *)
(* at the next one it accepts, and a batch being applied is never longer   *)
(* than what is left of them.                                              *)
PlanOK ==
  /\ pc \in {"genesis", "plan", "fetch"} =>
       seen = <<lastProvedHeight, lastProvedDigest>>
  /\ pc \notin {"fetch", "poke", "transition", "advance"} => want = {}
  /\ \A h \in want : h >= GenesisHeight
  /\ pc = "fetch" =>
       \E top \in want : want = K!WantHeight .. top
  /\ pc \in {"poke", "transition"} <=> batch # <<>>
  /\ pc = "poke" =>
       K!WantHeight .. K!WantHeight + Len(batch) - 1 \subseteq want
  /\ pc = "transition" =>
       K!WantHeight .. K!WantHeight + Len(batch) - 2 \subseteq want

(* A batch being applied is linked, and to the kernel's cursor. *)
LinkOK ==
  /\ pc = "poke" => LinksToCursor(batch)
  /\ pc = "transition" =>
       LinksInside(batch) /\ Head(batch).digest = lastProvedDigest

(* The tip recorded when the plan was made bounds the plan. *)
ReportOK ==
  /\ telemetry.chainTip # None => telemetry.chainTip <= TipHeight
  /\ pc \in {"fetch", "poke", "transition", "advance"} =>
       /\ telemetry.chainTip # None
       /\ \A h \in want : h + FinalityDepth <= telemetry.chainTip
  /\ pc \in {"transition", "advance"} =>
       done \in want /\ done <= lastProvedHeight

FollowerInv ==
  FollowerTypeOK /\ KernelOK /\ SavedOK /\ PlanOK /\ LinkOK /\ ReportOK
    /\ TelemetryIsTruthful /\ ForksStopInTheHull

-----------------------------------------------------------------------------
(* Every step of the follower is a poke, a checkpoint, a restart or none   *)
(* of the kernel's business.                                               *)
LEMMA DrivesKernel ==
  ASSUME FollowerTypeOK, PlanOK, [Next]_vars
  PROVE  \/ [K!Next]_(K!kernelVars) /\ saved' = saved
         \/ UNCHANGED K!kernelVars /\ saved' = Snapshot
         \/ Crash
<1> USE DEF kernelVars, K!kernelVars, environment
<1>1. ASSUME pc \in {"poke", "transition"} PROVE Head(batch) \in Block
  BY <1>1, HeadTailProperties DEF FollowerTypeOK, PlanOK
<1>2. CASE UNCHANGED vars \/ NodeMoves
  BY <1>2 DEF vars, NodeMoves
<1>3. CASE Checkpoint \/ Crash
  BY <1>3 DEF Checkpoint
<1>4. CASE PeekScanState \/ FetchTip \/ ValidateBatch \/ SkipTransition
             \/ RecordAdvance \/ RecordTickError
  BY <1>4 DEF PeekScanState, FetchTip, ValidateBatch, SkipTransition,
              TransitionDone, RecordAdvance, RecordTickError
<1>5. CASE ProveGenesis
  BY <1>5 DEF ProveGenesis, K!Next
<1>6. ASSUME NEW h \in want, FetchBlock(h) \/ FetchOtherBlock(h)
      PROVE  UNCHANGED <<kernelVars, saved>>
  BY <1>6 DEF FetchBlock, FetchOtherBlock, ReceiveBlock
<1>7. CASE PokeAccepted
  BY <1>1, <1>7 DEF PokeAccepted, K!Next, K!ScanBlock
<1>8. CASE PokeRejected
  BY <1>1, <1>8 DEF PokeRejected, K!Next, K!ScanBlock
<1>9. CASE ProveTransition
  BY <1>1, <1>9 DEF ProveTransition, TransitionDone, K!Next
<1>10. CASE PeekFails \/ ProveGenesisPokeFails \/ FetchTipFails
              \/ FetchBlockFails \/ PokeFails
  BY <1>10 DEF PeekFails, ProveGenesisPokeFails, FetchTipFails,
               FetchBlockFails, PokeFails
<1> QED
  BY <1>2, <1>3, <1>4, <1>5, <1>6, <1>7, <1>8, <1>9, <1>10
     DEF Next, Tick, FailingCall

(* So the kernel and its checkpoint keep them through every step. *)
LEMMA KernelKept ==
  ASSUME FollowerTypeOK, PlanOK, KernelOK, SavedOK, [Next]_vars
  PROVE  KernelOK' /\ SavedOK'
  BY DrivesKernel, KernelStepOK, CheckpointKeeps, RestartKeeps, SavedStays

-----------------------------------------------------------------------------
(* The node's chain is a sequence of blocks at the heights of their place. *)
LEMMA ChainFacts ==
  ASSUME FollowerTypeOK
  PROVE  /\ chain \in Seq(Block)
         /\ Len(chain) \in Nat
         /\ DOMAIN chain = 1 .. Len(chain)
         /\ \A i \in DOMAIN chain : chain[i].height = GenesisHeight + i - 1
         /\ TipHeight \in Nat
         /\ FinalizedHeight \in Nat
<1>1. chain \in Seq(Block)
      /\ \A i \in DOMAIN chain : chain[i].height = GenesisHeight + i - 1
  BY FollowerAssumption DEF FollowerTypeOK
<1>2. Len(chain) \in Nat /\ DOMAIN chain = 1 .. Len(chain)
  BY <1>1, LenProperties
<1>3. TipHeight \in Nat
  BY <1>2, AccumulatorAssumption DEF TipHeight
<1>4. FinalizedHeight \in Nat
  BY <1>3, FollowerAssumption DEF FinalizedHeight
<1> QED
  BY <1>1, <1>2, <1>3, <1>4

(* The height the kernel takes next, in terms of what it has taken. *)
LEMMA NextHeightWanted ==
  ASSUME KernelOK
  PROVE  /\ K!WantHeight = GenesisHeight + Len(scanned)
         /\ K!WantHeight \in Nat
         /\ lastProvedHeight \in Nat
         /\ lastProvedHeight < K!WantHeight
         /\ K!Boot <=> scanned = <<>>
<1>1. /\ scanned \in Seq(Block) /\ Len(scanned) \in Nat
      /\ lastProvedHeight \in Nat
  BY LenProperties DEF KernelOK, K!TypeOK
<1>2. CASE scanned = <<>>
  <2>1. K!Boot /\ Len(scanned) = 0
    BY <1>2 DEF KernelOK, K!ScannedIsLinkedRun
  <2> QED
    BY <1>1, <1>2, <2>1, AccumulatorAssumption DEF K!WantHeight, K!Boot
<1>3. CASE scanned # <<>>
  <2>1. Len(scanned) # 0 /\ Len(scanned) \in DOMAIN scanned
    BY <1>1, <1>3, EmptySeq, LenProperties
  <2>2. lastProvedHeight = GenesisHeight + Len(scanned) - 1
    BY <1>3, <2>1 DEF KernelOK, K!ScannedIsLinkedRun
  <2>3. ~K!Boot
    BY <1>1, <2>1, <2>2, AccumulatorAssumption DEF K!Boot
  <2> QED
    BY <1>1, <1>3, <2>1, <2>2, <2>3, AccumulatorAssumption DEF K!WantHeight
<1> QED
  BY <1>2, <1>3

(* The heights planned from the kernel's own cursor are an interval that   *)
(* starts at the height the kernel takes next.                             *)
LEMMA PlanIsInterval ==
  ASSUME FollowerTypeOK, KernelOK, PlannedHeights # {},
         seen = <<lastProvedHeight, lastProvedDigest>>
  PROVE  /\ \E top \in PlannedHeights : PlannedHeights = K!WantHeight .. top
         /\ \A h \in PlannedHeights : h \in Nat /\ h >= GenesisHeight
                                      /\ h + FinalityDepth <= TipHeight
<1> DEFINE last == K!WantHeight + BatchBlocks - 1
           top == IF FinalizedHeight < last THEN FinalizedHeight ELSE last
<1>1. /\ K!WantHeight \in Nat /\ K!WantHeight >= GenesisHeight
      /\ BatchBlocks \in Nat /\ FinalityDepth \in Nat
      /\ FinalizedHeight \in Nat /\ TipHeight \in Nat
  BY ChainFacts, NextHeightWanted, AccumulatorAssumption, FollowerAssumption,
     LenProperties DEF KernelOK, K!TypeOK
<1>2. NextHeight = K!WantHeight
  BY DEF NextHeight, ScanCursorIsGenesisBoot, K!WantHeight, K!Boot
<1>3. PlannedHeights = {h \in K!WantHeight .. last : h <= FinalizedHeight}
  BY <1>2 DEF PlannedHeights
<1>4. PlannedHeights = K!WantHeight .. top
  BY <1>1, <1>3
<1>5. top \in PlannedHeights
  BY <1>1, <1>4
<1>6. \A h \in PlannedHeights : h \in Nat /\ h >= GenesisHeight
                                /\ h <= FinalizedHeight
  BY <1>1, <1>3, AccumulatorAssumption
<1>7. \A h \in PlannedHeights : h + FinalityDepth <= TipHeight
  BY <1>1, <1>6, AccumulatorAssumption DEF FinalizedHeight
<1> QED
  BY <1>4, <1>5, <1>6, <1>7

(* A validated batch has one block for every height wanted. *)
LEMMA BatchFacts ==
  ASSUME FollowerTypeOK, KernelOK, PlanOK, pc = "fetch", DOMAIN got = want,
         NEW p \in Bijection(1 .. Cardinality(want), want)
  PROVE  LET blocks == [i \in DOMAIN p |-> got[p[i]]]
         IN  /\ blocks \in Seq(Block)
             /\ blocks # <<>>
             /\ K!WantHeight .. K!WantHeight + Len(blocks) - 1 \subseteq want
             /\ \A i \in DOMAIN blocks :
                  \E h \in DOMAIN got : blocks[i] = got[h]
<1> DEFINE n == Cardinality(want)
           blocks == [i \in DOMAIN p |-> got[p[i]]]
<1>1. PICK top \in want : want = K!WantHeight .. top
  BY DEF PlanOK
<1>2. K!WantHeight \in Nat /\ top \in Nat /\ K!WantHeight <= top
  BY <1>1, NextHeightWanted DEF FollowerTypeOK
<1>3. n = top - K!WantHeight + 1
  BY <1>1, <1>2, FS_Interval
<1>4. p \in [1 .. n -> want]
  BY DEF Bijection, Injection
<1> HIDE DEF n
<1>5. \A i \in 1 .. n : p[i] \in want /\ got[p[i]] \in Block
  BY <1>4 DEF FollowerTypeOK
<1>6. blocks \in [1 .. n -> Block]
  BY <1>4, <1>5
<1>7. n \in Nat /\ n # 0
  BY <1>2, <1>3
<1>8. blocks \in Seq(Block) /\ Len(blocks) = n
  BY <1>6, <1>7, IsASeq, LenProperties
<1>9. blocks # <<>>
  BY <1>7, <1>8, EmptySeq
<1>10. K!WantHeight .. K!WantHeight + Len(blocks) - 1 \subseteq want
  BY <1>1, <1>2, <1>3, <1>8
<1>11. \A i \in DOMAIN blocks : \E h \in DOMAIN got : blocks[i] = got[h]
  BY <1>4
<1> QED
  BY <1>8, <1>9, <1>10, <1>11

-----------------------------------------------------------------------------
(* The fields of a block, and the head of a batch. *)
LEMMA BlockType ==
  ASSUME NEW b \in Block
  PROVE  b.height \in Nat /\ b.digest \in Digest /\ b.parent \in Digest
  BY FollowerAssumption DEF K!ScanPayload

(* The head and the tail of a batch being applied. *)
LEMMA BatchHead ==
  ASSUME FollowerTypeOK, PlanOK, pc \in {"poke", "transition"}
  PROVE  /\ Head(batch) \in Block /\ Head(batch) = batch[1]
         /\ Tail(batch) \in Seq(Block)
         /\ Len(batch) \in Nat \ {0}
         /\ DOMAIN batch = 1 .. Len(batch)
         /\ Len(Tail(batch)) = Len(batch) - 1
         /\ DOMAIN Tail(batch) = 1 .. Len(batch) - 1
         /\ \A i \in 1 .. Len(batch) - 1 : Tail(batch)[i] = batch[i + 1]
         /\ Tail(batch) = <<>> <=> Len(batch) = 1
<1>1. batch \in Seq(Block) /\ batch # <<>>
  BY DEF FollowerTypeOK, PlanOK
<1>2. /\ Head(batch) \in Block /\ Head(batch) = batch[1]
      /\ Tail(batch) \in Seq(Block)
      /\ Len(Tail(batch)) = Len(batch) - 1
  BY <1>1, HeadTailProperties
<1>3. Len(batch) \in Nat \ {0} /\ DOMAIN batch = 1 .. Len(batch)
  BY <1>1, LenProperties, EmptySeq
<1>4. \A i \in 1 .. Len(batch) - 1 : Tail(batch)[i] = batch[i + 1]
  BY <1>1, HeadTailProperties, <1>2, <1>3
<1>5. DOMAIN Tail(batch) = 1 .. Len(batch) - 1
  BY <1>2, <1>3, LenProperties
<1>6. Tail(batch) = <<>> <=> Len(batch) = 1
  BY <1>2, <1>3, EmptySeq
<1> QED
  BY <1>2, <1>3, <1>4, <1>5, <1>6

(* A tick that gives up leaves the cursor and the tips it reported. *)
Abort ==
  /\ pc' = "failed" /\ ForgetLocals
  /\ scanned' = scanned /\ effect' # "parent-mismatch"
  /\ lastProvedHeight' = lastProvedHeight
  /\ lastProvedDigest' = lastProvedDigest
  /\ outcome' \in {"rejected", "error"}
  /\ telemetry'.chainTip = telemetry.chainTip
  /\ telemetry'.advanceTip = telemetry.advanceTip
  /\ telemetry' \in
       [chainTip : Nat \cup {None}, advanceTip : Nat \cup {None},
        errorPhase : {None, "scan_peek", "plan", "scan_poke", "scan_block"}]
  /\ faults' \in 0 .. MaxFaults
  /\ UNCHANGED <<chain, saved, crashes, everRows>>

AbortingStep ==
  \/ PeekFails \/ ProveGenesisPokeFails \/ FetchTipFails \/ FetchBlockFails
  \/ PokeFails \/ PokeRejected \/ (ValidateBatch /\ pc' = "failed")

(* The steps of the follower, those that give up taken together. *)
LEMMA StepKinds ==
  ASSUME [Next]_vars
  PROVE  \/ UNCHANGED vars \/ NodeMoves \/ Checkpoint \/ Crash
         \/ AbortingStep
         \/ PeekScanState \/ ProveGenesis \/ FetchTip
         \/ \E h \in want : FetchBlock(h) \/ FetchOtherBlock(h)
         \/ (ValidateBatch /\ pc' # "failed")
         \/ PokeAccepted
         \/ ProveTransition \/ SkipTransition
         \/ RecordAdvance \/ RecordTickError
  BY DEF Next, Tick, FailingCall, AbortingStep

(* Each of them is an Abort. *)
LEMMA Aborts ==
  ASSUME FollowerTypeOK, PlanOK, LinkOK, ForksStopInTheHull, AbortingStep
  PROVE  Abort
<1> USE DEF environment
<1>1. ASSUME NEW result \in {"rejected", "error"},
             NEW phase \in {None, "scan_peek", "plan", "scan_poke"},
             TickFails(phase, result)
      PROVE  /\ pc' = "failed" /\ ForgetLocals
             /\ outcome' \in {"rejected", "error"}
             /\ telemetry'.chainTip = telemetry.chainTip
             /\ telemetry'.advanceTip = telemetry.advanceTip
             /\ telemetry' \in
                  [chainTip : Nat \cup {None}, advanceTip : Nat \cup {None},
                   errorPhase : {None, "scan_peek", "plan", "scan_poke",
                                 "scan_block"}]
  BY <1>1 DEF TickFails, FollowerTypeOK
<1>2. faults \in Nat /\ MaxFaults \in Nat /\ faults <= MaxFaults
  BY FollowerAssumption DEF FollowerTypeOK
<1>3. Fault \/ faults' = faults => faults' \in 0 .. MaxFaults
  BY <1>2 DEF Fault
<1>4. CASE PeekFails \/ ProveGenesisPokeFails \/ FetchTipFails
             \/ FetchBlockFails \/ PokeFails
  BY <1>1, <1>3, <1>4
     DEF PeekFails, ProveGenesisPokeFails, FetchTipFails, FetchBlockFails,
         PokeFails, Abort, kernelVars, ForksStopInTheHull
<1>5. CASE PokeRejected
  <2>1. TickFails("scan_poke", "rejected") /\ pc = "poke"
        /\ (Fault \/ faults' = faults)
    BY <1>5 DEF PokeRejected
  <2>2. UNCHANGED <<scanned, lastProvedHeight, lastProvedDigest, chain, saved,
                    crashes, everRows>>
    BY <1>5 DEF PokeRejected, K!ScanParentMismatch, K!ScanHeightMismatch,
       K!ScanTrap, K!cursor
  <2>3. ~K!ScanParentMismatch(Head(batch))
    <3>1. LinksToCursor(batch) /\ 1 \in DOMAIN batch /\ Head(batch) = batch[1]
      BY <2>1, BatchHead DEF LinkOK
    <3>2. K!Linked(Head(batch))
      BY <3>1 DEF LinksToCursor, ScanCursorIsGenesisBoot, K!Linked, K!Boot
    <3> QED
      BY <3>2 DEF K!ScanParentMismatch
  <2>4. effect' # "parent-mismatch"
    BY <1>5, <2>3 DEF PokeRejected, K!ScanHeightMismatch, K!ScanTrap
  <2> QED
    BY <1>1, <1>3, <2>1, <2>2, <2>4 DEF Abort
<1>6. CASE ValidateBatch /\ pc' = "failed"
  <2>1. TickFails(None, "error")
    BY <1>6 DEF ValidateBatch
  <2> QED
    BY <1>1, <1>3, <1>6, <2>1
       DEF ValidateBatch, Abort, kernelVars, ForksStopInTheHull
<1> QED
  BY <1>4, <1>5, <1>6 DEF AbortingStep

-----------------------------------------------------------------------------
(* Every step keeps the types. *)
LEMMA FollowerTypeStep ==
  ASSUME FollowerTypeOK, KernelOK, SavedOK, PlanOK, LinkOK,
         ForksStopInTheHull, [Next]_vars
  PROVE  FollowerTypeOK'
<1> DEFINE Kernel == K!TypeOK /\ Saved!TypeOK
           Counters == /\ faults \in 0 .. MaxFaults
                       /\ crashes \in 0 .. MaxCrashes
           Tele == telemetry \in
             [chainTip : Nat \cup {None}, advanceTip : Nat \cup {None},
              errorPhase : {None, "scan_peek", "plan", "scan_poke",
                            "scan_block"}]
           Locals == /\ pc \in PCs
                     /\ seen = None \/ seen \in Nat \X Digest
                     /\ want \subseteq Nat
                     /\ DOMAIN got \subseteq want
                     /\ \A h \in DOMAIN got : got[h] \in Block
                     /\ batch \in Seq(Block)
                     /\ done = None \/ done \in Nat
                     /\ outcome \in {"none", "noop", "advanced", "rejected",
                                     "error"}
           Rows == IsAccumulator(everRows)
<1> USE DEF environment
<1>1. Kernel'
  BY KernelKept DEF KernelOK, SavedOK
<1>2. ForgetLocals => /\ seen' = None /\ want' = {} /\ DOMAIN got' = {}
                      /\ batch' \in Seq(Block) /\ done' = None
  BY EmptySeq DEF ForgetLocals, NothingFetched
<1>3. Locals /\ Tele /\ Counters /\ Rows /\ chain \in Chains
  BY DEF FollowerTypeOK
<1>4. /\ lastProvedHeight \in Nat /\ lastProvedDigest \in Digest
      /\ TipHeight \in Nat
  BY ChainFacts DEF KernelOK, K!TypeOK
<1>5. MaxFaults \in Nat /\ MaxCrashes \in Nat
  BY FollowerAssumption
<1>6. Fault => faults' \in 0 .. MaxFaults
  BY <1>3, <1>5 DEF Fault
<1> SUFFICES chain' \in Chains /\ Locals' /\ Tele' /\ Counters' /\ Rows'
  BY <1>1 DEF FollowerTypeOK
<1> HIDE DEF Kernel
<1>7. CASE UNCHANGED vars
  BY <1>3, <1>7 DEF vars, localVars, boundVars
<1>8. CASE NodeMoves \/ Checkpoint
  BY <1>3, <1>8 DEF NodeMoves, Checkpoint, localVars, boundVars
<1>9. CASE Crash
  <2>1. Locals'
    BY <1>2, <1>9 DEF Crash, PCs
  <2>2. Tele'
    BY <1>9 DEF Crash, EmptyTelemetry
  <2>3. Counters'
    BY <1>3, <1>5, <1>9 DEF Crash
  <2> QED
    BY <1>3, <1>9, <2>1, <2>2, <2>3 DEF Crash
<1>10. CASE AbortingStep
  <2>1. Abort
    BY <1>10, Aborts
  <2> QED
    BY <1>2, <1>3, <2>1 DEF Abort, PCs
<1>11. CASE PeekScanState
  BY <1>3, <1>4, <1>11 DEF PeekScanState, PCs
<1>12. CASE ProveGenesis
  BY <1>3, <1>12 DEF ProveGenesis, localVars, PCs
<1>13. CASE FetchTip
  <2>1. Tele'
    BY <1>3, <1>4, <1>13 DEF FetchTip
  <2>2. PlannedHeights \subseteq Nat
    BY <1>3, <1>4, <1>13, PlanIsInterval DEF FetchTip, PlanOK
  <2>3. Locals'
    <3>1. CASE PlannedHeights = {}
      BY <1>2, <1>3, <1>13, <3>1 DEF FetchTip, PCs
    <3>2. CASE PlannedHeights # {}
      BY <1>3, <1>13, <2>2, <3>2 DEF FetchTip, PCs, PlanOK
    <3> QED
      BY <3>1, <3>2
  <2> QED
    BY <1>3, <1>13, <2>1, <2>3 DEF FetchTip
<1>14. ASSUME NEW h \in want, FetchBlock(h) \/ FetchOtherBlock(h)
       PROVE  chain' \in Chains /\ Locals' /\ Tele' /\ Counters' /\ Rows'
  <2>1. PICK b \in Block : ReceiveBlock(h, b)
    <3>1. CASE FetchBlock(h)
      <4>1. BlockAt(h) \in Block
        BY <1>3, <3>1, ChainFacts, ElementOfSeq, AccumulatorAssumption
           DEF FetchBlock, HasBlock, BlockAt, TipHeight
      <4> QED
        BY <3>1, <4>1 DEF FetchBlock
    <3>2. CASE FetchOtherBlock(h)
      BY <3>2, ChainFacts, ElementOfSeq DEF FetchOtherBlock
    <3> QED
      BY <1>14, <3>1, <3>2
  <2>2. Locals'
    BY <1>3, <2>1 DEF ReceiveBlock, PCs
  <2>3. Counters'
    BY <1>3, <1>6, <1>14, <2>1 DEF FetchBlock, FetchOtherBlock, ReceiveBlock
  <2> QED
    BY <1>3, <2>1, <2>2, <2>3 DEF ReceiveBlock
<1>15. CASE ValidateBatch /\ pc' # "failed"
  <2>1. PICK p \in Bijection(1 .. Cardinality(want), want) :
          /\ batch' = [i \in DOMAIN p |-> got[p[i]]]
          /\ done' = None /\ pc' = "poke"
          /\ UNCHANGED <<seen, want, got, outcome, telemetry>>
    BY <1>15 DEF ValidateBatch, TickFails
  <2>2. batch' \in Seq(Block)
    BY <1>15, <2>1, BatchFacts DEF ValidateBatch
  <2> QED
    BY <1>3, <1>15, <2>1, <2>2 DEF ValidateBatch, PCs
<1>16. CASE PokeAccepted
  <2>1. Head(batch) \in Block
    BY <1>16, BatchHead DEF PokeAccepted
  <2>2. IsAccumulator(accumulator')
    BY <1>1 DEF Kernel, K!TypeOK, K!IsAccumulator, IsAccumulator,
                K!Entry, Entry
  <2>3. Rows'
    BY <1>3, <1>16, <2>2 DEF PokeAccepted, IsAccumulator, HasRow
  <2> QED
    BY <1>3, <1>16, <2>1, <2>3, BlockType DEF PokeAccepted, boundVars, PCs
<1>17. CASE ProveTransition \/ SkipTransition
  <2>1. TransitionDone /\ pc = "transition" /\ (Fault \/ faults' = faults)
    BY <1>17 DEF ProveTransition, SkipTransition
  <2>2. Tail(batch) \in Seq(Block)
    BY <2>1, BatchHead
  <2> QED
    BY <1>3, <1>6, <2>1, <2>2 DEF TransitionDone, PCs
<1>18. CASE RecordAdvance
  BY <1>2, <1>3, <1>18 DEF RecordAdvance, PCs
<1>19. CASE RecordTickError
  BY <1>3, <1>19 DEF RecordTickError, localVars, PCs
<1> HIDE DEF Locals, Tele, Counters, Rows
<1> QED
  BY <1>7, <1>8, <1>9, <1>10, <1>11, <1>12, <1>13, <1>14, <1>15, <1>16,
     <1>17, <1>18, <1>19, StepKinds

-----------------------------------------------------------------------------
(* Where the kernel stands after a step of a tick. *)
CursorStays == UNCHANGED <<lastProvedHeight, lastProvedDigest>>

(* The height the kernel takes next is a function of its cursor ... *)
LEMMA WantHeightStays ==
  ASSUME CursorStays
  PROVE  K!WantHeight' = K!WantHeight
  BY DEF CursorStays, K!WantHeight, K!Boot

(* ... and one higher after an accepted block. *)
LEMMA WantHeightMoves ==
  ASSUME FollowerTypeOK, KernelOK, PlanOK, PokeAccepted
  PROVE  /\ Head(batch).height = K!WantHeight
         /\ lastProvedHeight' = K!WantHeight
         /\ lastProvedDigest' = Head(batch).digest
         /\ K!WantHeight' = K!WantHeight + 1
         /\ scanned' = Append(scanned, Head(batch))
         /\ effect' # "parent-mismatch"
<1>1. /\ Head(batch).height = K!WantHeight
      /\ lastProvedHeight' = Head(batch).height
      /\ lastProvedDigest' = Head(batch).digest
      /\ scanned' = Append(scanned, Head(batch))
      /\ effect' # "parent-mismatch"
  BY DEF PokeAccepted, K!ScanAccept
<1>2. K!WantHeight \in Nat /\ K!WantHeight # 0
  BY NextHeightWanted, AccumulatorAssumption
<1>3. K!WantHeight' = lastProvedHeight' + 1
  BY <1>1, <1>2 DEF K!WantHeight, K!Boot
<1> QED
  BY <1>1, <1>3

(* Proving leaves the cursor and the accepted blocks alone. *)
LEMMA TransitionKeepsCursor ==
  ASSUME ProveTransition \/ SkipTransition
  PROVE  /\ CursorStays /\ TransitionDone /\ pc = "transition"
         /\ scanned' = scanned
         /\ effect' = effect \/ effect' # "parent-mismatch"
  BY DEF ProveTransition, SkipTransition, K!ProveRecursiveTransition,
         K!cursor, kernelVars, CursorStays

(* So does the proof at boot. *)
LEMMA GenesisKeepsCursor ==
  ASSUME ProveGenesis
  PROVE  CursorStays /\ scanned' = scanned /\ effect' # "parent-mismatch"
  BY DEF ProveGenesis, K!ProveRecursiveGenesis, K!cursor, CursorStays

(* The plan, the batch and the cursor stay in step. *)
LEMMA PlanStep ==
  ASSUME FollowerTypeOK, KernelOK, PlanOK, LinkOK, ForksStopInTheHull,
         [Next]_vars
  PROVE  PlanOK'
<1> USE DEF environment
<1>1. CursorStays => K!WantHeight' = K!WantHeight
  BY WantHeightStays
<1>2. ForgetLocals /\ pc' \in {"idle", "failed"} => PlanOK'
  BY DEF ForgetLocals, PlanOK
<1>3. CASE UNCHANGED vars \/ NodeMoves \/ Checkpoint
  <2>1. UNCHANGED <<pc, localVars>> /\ CursorStays
    BY <1>3 DEF vars, NodeMoves, Checkpoint, kernelVars, CursorStays
  <2> QED
    BY <1>1, <2>1 DEF PlanOK, localVars, CursorStays
<1>4. CASE Crash \/ RecordAdvance
  BY <1>2, <1>4 DEF Crash, RecordAdvance
<1>5. CASE AbortingStep
  BY <1>2, <1>5, Aborts DEF Abort
<1>6. CASE PeekScanState
  BY <1>6 DEF PeekScanState, PlanOK, kernelVars
<1>7. CASE ProveGenesis
  BY <1>7, GenesisKeepsCursor DEF ProveGenesis, PlanOK, localVars, CursorStays
<1>8. CASE FetchTip
  <2>1. CASE PlannedHeights = {}
    BY <1>2, <1>8, <2>1 DEF FetchTip
  <2>2. CASE PlannedHeights # {}
    <3>1. /\ pc' = "fetch" /\ want' = PlannedHeights /\ CursorStays
          /\ UNCHANGED <<seen, batch>>
      BY <1>8, <2>2 DEF FetchTip, kernelVars, CursorStays
    <3>2. /\ \E top \in PlannedHeights : PlannedHeights = K!WantHeight .. top
          /\ \A h \in PlannedHeights : h >= GenesisHeight
      BY <1>8, <2>2, PlanIsInterval DEF FetchTip, PlanOK
    <3>3. seen = <<lastProvedHeight, lastProvedDigest>> /\ batch = <<>>
      BY <1>8 DEF FetchTip, PlanOK
    <3> QED
      BY <1>1, <3>1, <3>2, <3>3 DEF PlanOK, CursorStays
  <2> QED
    BY <2>1, <2>2
<1>9. ASSUME NEW h \in want, FetchBlock(h) \/ FetchOtherBlock(h)
      PROVE  PlanOK'
  <2>1. pc = "fetch" /\ CursorStays /\ UNCHANGED <<pc, seen, want, batch>>
    BY <1>9 DEF FetchBlock, FetchOtherBlock, ReceiveBlock, kernelVars,
                CursorStays
  <2> QED
    BY <1>1, <2>1 DEF PlanOK, CursorStays
<1>10. CASE ValidateBatch /\ pc' # "failed"
  <2>1. PICK p \in Bijection(1 .. Cardinality(want), want) :
          /\ batch' = [i \in DOMAIN p |-> got[p[i]]]
          /\ pc' = "poke" /\ want' = want
    BY <1>10 DEF ValidateBatch, TickFails
  <2>2. batch' # <<>>
        /\ K!WantHeight .. K!WantHeight + Len(batch') - 1 \subseteq want
    BY <1>10, <2>1, BatchFacts DEF ValidateBatch
  <2>3. CursorStays
    BY <1>10 DEF ValidateBatch, kernelVars, CursorStays
  <2> QED
    BY <1>1, <2>1, <2>2, <2>3 DEF PlanOK
<1>11. CASE PokeAccepted
  <2>1. pc = "poke" /\ pc' = "transition" /\ UNCHANGED <<seen, want, batch>>
    BY <1>11 DEF PokeAccepted
  <2>2. K!WantHeight \in Nat /\ K!WantHeight' = K!WantHeight + 1
    BY <1>11, NextHeightWanted, WantHeightMoves
  <2>3. Len(batch) \in Nat
    BY <2>1, BatchHead
  <2>4. K!WantHeight' .. K!WantHeight' + Len(batch) - 2
          \subseteq K!WantHeight .. K!WantHeight + Len(batch) - 1
    BY <2>2, <2>3
  <2> QED
    BY <2>1, <2>4 DEF PlanOK
<1>12. CASE ProveTransition \/ SkipTransition
  <2>1. /\ pc = "transition" /\ batch' = Tail(batch) /\ CursorStays
        /\ want' = want
        /\ pc' = IF Tail(batch) = <<>> THEN "advance" ELSE "poke"
    BY <1>12, TransitionKeepsCursor DEF TransitionDone
  <2>2. /\ Len(Tail(batch)) = Len(batch) - 1 /\ Len(batch) \in Nat
    BY <2>1, BatchHead
  <2>3. K!WantHeight' + Len(batch') - 1 = K!WantHeight + Len(batch) - 2
    <3>1. K!WantHeight' = K!WantHeight /\ K!WantHeight \in Nat
      BY <1>1, <2>1, NextHeightWanted
    <3>2. Len(batch') = Len(batch) - 1 /\ Len(batch) \in Nat
      BY <2>1, <2>2
    <3> QED
      BY <3>1, <3>2
  <2>4. K!WantHeight' .. K!WantHeight' + Len(batch') - 1 \subseteq want'
    BY <1>1, <2>1, <2>3 DEF PlanOK
  <2>5. pc' \in {"poke", "transition"} <=> batch' # <<>>
    BY <2>1
  <2>6. pc' \in {"advance", "poke"} /\ \A h \in want' : h >= GenesisHeight
    BY <2>1 DEF PlanOK
  <2> QED
    BY <2>4, <2>5, <2>6 DEF PlanOK
<1>13. CASE RecordTickError
  BY <1>1, <1>13
     DEF RecordTickError, PlanOK, localVars, kernelVars, CursorStays
<1> QED
  BY <1>3, <1>4, <1>5, <1>6, <1>7, <1>8, <1>9, <1>10, <1>11, <1>12, <1>13,
     StepKinds

-----------------------------------------------------------------------------
(* What is left of a batch stays linked to the cursor, so the kernel never *)
(* sees a fork.                                                            *)
LEMMA LinkStep ==
  ASSUME FollowerTypeOK, KernelOK, PlanOK, LinkOK, ForksStopInTheHull,
         [Next]_vars
  PROVE  LinkOK' /\ ForksStopInTheHull'
<1> USE DEF environment
<1>1. ASSUME pc' \notin {"poke", "transition"} PROVE LinkOK'
  BY <1>1 DEF LinkOK
<1>2. ASSUME UNCHANGED <<pc, batch>>, CursorStays PROVE LinkOK'
  BY <1>2 DEF LinkOK, CursorStays, LinksToCursor, LinksInside,
              ScanCursorIsGenesisBoot
<1>3. effect' = effect \/ effect' # "parent-mismatch" => ForksStopInTheHull'
  BY DEF ForksStopInTheHull
<1>4. CASE UNCHANGED vars \/ NodeMoves \/ Checkpoint
  BY <1>2, <1>3, <1>4 DEF vars, NodeMoves, Checkpoint, localVars, kernelVars,
                          CursorStays
<1>5. CASE Crash
  BY <1>1, <1>3, <1>5 DEF Crash
<1>6. CASE AbortingStep
  BY <1>1, <1>3, <1>6, Aborts DEF Abort
<1>7. CASE PeekScanState \/ FetchTip \/ RecordAdvance \/ RecordTickError
  BY <1>1, <1>3, <1>7 DEF PeekScanState, FetchTip, RecordAdvance,
                          RecordTickError, kernelVars
<1>8. CASE ProveGenesis
  BY <1>1, <1>3, <1>8, GenesisKeepsCursor DEF ProveGenesis
<1>9. ASSUME NEW h \in want, FetchBlock(h) \/ FetchOtherBlock(h)
      PROVE  LinkOK' /\ ForksStopInTheHull'
  BY <1>1, <1>3, <1>9 DEF FetchBlock, FetchOtherBlock, ReceiveBlock, kernelVars
<1>10. CASE ValidateBatch /\ pc' # "failed"
  <2>1. PICK p \in Bijection(1 .. Cardinality(want), want) :
          LET blocks == [i \in DOMAIN p |-> got[p[i]]]
          IN  LinksToCursor(blocks) /\ batch' = blocks /\ pc' = "poke"
    BY <1>10 DEF ValidateBatch, TickFails
  <2>2. LinksToCursor(batch')
    BY <2>1
  <2>3. (LinksToCursor(batch))'
    BY <1>10, <2>2 DEF ValidateBatch, kernelVars, LinksToCursor,
                       ScanCursorIsGenesisBoot
  <2> QED
    BY <1>3, <1>10, <2>1, <2>3 DEF ValidateBatch, kernelVars, LinkOK
<1>11. CASE PokeAccepted
  <2>1. pc' = "transition" /\ batch' = batch /\ LinksToCursor(batch)
    BY <1>11 DEF PokeAccepted, LinkOK
  <2>2. 1 \in DOMAIN batch /\ DOMAIN batch \subseteq Nat
    BY <1>11, BatchHead DEF PokeAccepted
  <2>3. LinksInside(batch')
    BY <2>1, <2>2 DEF LinksToCursor, LinksInside
  <2>4. Head(batch').digest = lastProvedDigest'
    BY <1>11, <2>1, WantHeightMoves
  <2>5. effect' # "parent-mismatch"
    BY <1>11, WantHeightMoves
  <2>6. ForksStopInTheHull'
    BY <2>5 DEF ForksStopInTheHull
  <2> QED
    BY <2>1, <2>3, <2>4, <2>6 DEF LinkOK, LinksInside
<1>12. CASE ProveTransition \/ SkipTransition
  <2>1. /\ pc = "transition" /\ batch' = Tail(batch) /\ CursorStays
        /\ pc' \in {"advance", "poke"}
        /\ effect' = effect \/ effect' # "parent-mismatch"
    BY <1>12, TransitionKeepsCursor DEF TransitionDone
  <2>2. /\ Len(batch) \in Nat /\ DOMAIN batch = 1 .. Len(batch)
        /\ DOMAIN batch' = 1 .. Len(batch) - 1
        /\ \A i \in DOMAIN batch' : batch'[i] = batch[i + 1]
        /\ Head(batch) = batch[1]
    BY <2>1, BatchHead
  <2>3. LinksInside(batch) /\ batch[1].digest = lastProvedDigest
    BY <2>1, <2>2 DEF LinkOK
  <2>4. \A i \in DOMAIN batch' :
          IF i = 1 THEN batch'[1].parent = lastProvedDigest
                   ELSE batch'[i].parent = batch'[i - 1].digest
    <3>1. TAKE i \in DOMAIN batch'
    <3>2. /\ i \in Nat /\ i + 1 \in DOMAIN batch /\ i + 1 > 1
          /\ batch'[i] = batch[i + 1]
      BY <2>2
    <3>3. batch'[i].parent = batch[i].digest
      BY <2>3, <3>2 DEF LinksInside
    <3>4. i # 1 => i - 1 \in DOMAIN batch' /\ batch'[i - 1] = batch[i]
      BY <2>2
    <3> QED
      BY <2>3, <3>3, <3>4
  <2>5. (LinksToCursor(batch))'
    BY <2>1, <2>4 DEF LinksToCursor, CursorStays
  <2> QED
    BY <1>3, <2>1, <2>5 DEF LinkOK
<1> QED
  BY <1>4, <1>5, <1>6, <1>7, <1>8, <1>9, <1>10, <1>11, <1>12, StepKinds

-----------------------------------------------------------------------------
(* What the telemetry says stays true. *)
LEMMA ReportStep ==
  ASSUME FollowerTypeOK, KernelOK, PlanOK, LinkOK, ReportOK,
         TelemetryIsTruthful, ForksStopInTheHull, [Next]_vars
  PROVE  ReportOK' /\ TelemetryIsTruthful'
<1> USE DEF environment
<1>1. /\ TipHeight \in Nat /\ FinalityDepth \in Nat
      /\ lastProvedHeight \in Nat /\ want \subseteq Nat
      /\ telemetry \in
           [chainTip : Nat \cup {None}, advanceTip : Nat \cup {None},
            errorPhase :
              {None, "scan_peek", "plan", "scan_poke", "scan_block"}]
  BY ChainFacts, FollowerAssumption DEF FollowerTypeOK, KernelOK, K!TypeOK
<1>2. chain' = chain => TipHeight' = TipHeight
  BY DEF TipHeight
(* If the tips reported are the same and neither the chain nor the cursor  *)
(* went back, the reports are still true.                                  *)
<1>3. ASSUME telemetry'.chainTip = telemetry.chainTip,
             telemetry'.advanceTip = telemetry.advanceTip,
             TipHeight' >= TipHeight, TipHeight' \in Nat,
             lastProvedHeight' >= lastProvedHeight, lastProvedHeight' \in Nat
      PROVE  /\ TelemetryIsTruthful'
             /\ telemetry'.chainTip # None =>
                  telemetry'.chainTip <= TipHeight'
  BY <1>1, <1>3, FollowerAssumption DEF TelemetryIsTruthful
<1>4. ASSUME telemetry'.chainTip = telemetry.chainTip,
             telemetry'.advanceTip = telemetry.advanceTip,
             TipHeight' = TipHeight, CursorStays,
             pc' \notin {"fetch", "poke", "transition", "advance"}
      PROVE  ReportOK' /\ TelemetryIsTruthful'
  BY <1>1, <1>3, <1>4 DEF ReportOK, CursorStays
<1>5. CASE UNCHANGED vars \/ Checkpoint
  <2>1. UNCHANGED <<pc, want, done, telemetry, chain>> /\ CursorStays
    BY <1>5 DEF vars, Checkpoint, localVars, kernelVars, CursorStays
  <2> QED
    BY <1>1, <1>2, <1>3, <2>1 DEF ReportOK, CursorStays
<1>6. CASE NodeMoves
  <2>1. UNCHANGED <<pc, want, done, telemetry>> /\ CursorStays
    BY <1>6 DEF NodeMoves, localVars, kernelVars, CursorStays
  <2>2. TipHeight' \in Nat /\ TipHeight' >= TipHeight
    <3>1. chain' \in Seq(Block) /\ Len(chain') >= Len(chain)
      BY <1>6, FollowerAssumption DEF NodeMoves
    <3> QED
      BY <3>1, ChainFacts, LenProperties, AccumulatorAssumption DEF TipHeight
  <2> QED
    BY <1>1, <1>3, <2>1, <2>2 DEF ReportOK, CursorStays
<1>7. CASE Crash
  BY <1>7 DEF Crash, EmptyTelemetry, ReportOK, TelemetryIsTruthful
<1>8. CASE AbortingStep
  BY <1>2, <1>4, <1>8, Aborts DEF Abort, CursorStays
<1>9. CASE PeekScanState \/ ProveGenesis
  BY <1>2, <1>4, <1>9, GenesisKeepsCursor
     DEF PeekScanState, ProveGenesis, kernelVars, CursorStays
<1>10. CASE FetchTip
  <2>1. /\ telemetry'.chainTip = TipHeight /\ TipHeight # None
        /\ telemetry'.advanceTip = telemetry.advanceTip
        /\ TipHeight' = TipHeight /\ lastProvedHeight' = lastProvedHeight
    BY <1>1, <1>2, <1>10, FollowerAssumption DEF FetchTip, kernelVars
  <2>2. TelemetryIsTruthful'
    BY <1>1, <2>1 DEF TelemetryIsTruthful
  <2>3. ReportOK'
    <3>1. CASE PlannedHeights = {}
      BY <1>1, <1>10, <2>1, <3>1 DEF FetchTip, ReportOK
    <3>2. CASE PlannedHeights # {}
      <4>1. pc' = "fetch" /\ want' = PlannedHeights
        BY <1>10, <3>2 DEF FetchTip
      <4>2. \A h \in PlannedHeights : h + FinalityDepth <= TipHeight
        BY <1>10, <3>2, PlanIsInterval DEF FetchTip, PlanOK
      <4> QED
        BY <1>1, <2>1, <4>1, <4>2 DEF ReportOK
    <3> QED
      BY <3>1, <3>2
  <2> QED
    BY <2>2, <2>3
<1>11. ASSUME NEW h \in want, FetchBlock(h) \/ FetchOtherBlock(h)
       PROVE  ReportOK' /\ TelemetryIsTruthful'
  <2>1. pc = "fetch" /\ CursorStays /\ UNCHANGED <<pc, want, telemetry, chain>>
    BY <1>11 DEF FetchBlock, FetchOtherBlock, ReceiveBlock, kernelVars,
                 CursorStays
  <2> QED
    BY <1>1, <1>2, <1>3, <2>1 DEF ReportOK, CursorStays
<1>12. CASE ValidateBatch /\ pc' # "failed"
  <2>1. /\ pc = "fetch" /\ pc' = "poke" /\ CursorStays
        /\ UNCHANGED <<want, telemetry, chain>>
    BY <1>12 DEF ValidateBatch, TickFails, kernelVars, CursorStays
  <2> QED
    BY <1>1, <1>2, <1>3, <2>1 DEF ReportOK, CursorStays
<1>13. CASE PokeAccepted
  <2>1. /\ pc = "poke" /\ pc' = "transition" /\ done' = Head(batch).height
        /\ UNCHANGED <<want, telemetry, chain>>
    BY <1>13 DEF PokeAccepted
  <2>2. /\ Head(batch).height = K!WantHeight
        /\ lastProvedHeight' = K!WantHeight
        /\ K!WantHeight \in Nat /\ lastProvedHeight < K!WantHeight
    BY <1>13, WantHeightMoves, NextHeightWanted
  <2>3. K!WantHeight \in want
    BY <2>1, <2>2, BatchHead DEF PlanOK
  <2> QED
    BY <1>1, <1>2, <1>3, <2>1, <2>2, <2>3 DEF ReportOK
<1>14. CASE ProveTransition \/ SkipTransition
  <2>1. /\ pc = "transition" /\ pc' \in {"advance", "poke"} /\ CursorStays
        /\ UNCHANGED <<want, done, telemetry, chain>>
    BY <1>14, TransitionKeepsCursor DEF TransitionDone
  <2> QED
    BY <1>1, <1>2, <1>3, <2>1 DEF ReportOK, CursorStays
<1>15. CASE RecordAdvance
  <2>1. /\ pc = "advance" /\ pc' = "idle" /\ CursorStays
        /\ telemetry'.chainTip = telemetry.chainTip
        /\ telemetry'.advanceTip = done
        /\ chain' = chain
    BY <1>1, <1>15 DEF RecordAdvance, kernelVars, CursorStays
  <2>2. /\ done \in want /\ done <= lastProvedHeight
        /\ telemetry.chainTip # None
        /\ done + FinalityDepth <= telemetry.chainTip
    BY <2>1 DEF ReportOK
  <2> QED
    BY <1>1, <1>2, <2>1, <2>2 DEF ReportOK, TelemetryIsTruthful, CursorStays
<1>16. CASE RecordTickError
  BY <1>1, <1>2, <1>4, <1>16 DEF RecordTickError, kernelVars, CursorStays
<1> QED
  BY <1>5, <1>6, <1>7, <1>8, <1>9, <1>10, <1>11, <1>12, <1>13, <1>14, <1>15,
     <1>16, StepKinds

-----------------------------------------------------------------------------
(* A follower that has just started, before its first tick, satisfies the
   invariant: the kernel and the checkpoint are both freshly booted. *)
LEMMA FollowerInit ==
  ASSUME Init
  PROVE  FollowerInv
<1>1. KernelOK
  BY KernelInit DEF Init
<1>2. /\ saved.accumulator = accumulator
      /\ saved.lastProvedHeight = lastProvedHeight
      /\ saved.lastProvedDigest = lastProvedDigest
      /\ saved.lastProved = lastProved
      /\ saved.recursiveProof = recursiveProof
      /\ saved.scanned = scanned
  BY DEF Init, Snapshot
<1>3. /\ scanned = <<>> /\ DOMAIN accumulator = {}
      /\ lastProvedHeight = 0 /\ lastProvedDigest = ZeroDigest
      /\ effect = "none"
  BY DEF Init, K!Init, K!EmptyAccumulator
<1>4. SavedOK
  <2>1. Saved!TypeOK
    BY <1>1, <1>2
       DEF KernelOK, K!TypeOK, Saved!TypeOK, K!IsAccumulator,
           Saved!IsAccumulator, K!Entry, Saved!Entry, K!Computation,
           Saved!Computation, Saved!Effects, Saved!ScanErrors
  <2>2. Saved!ScannedIsLinkedRun
    BY <1>2, <1>3 DEF Saved!ScannedIsLinkedRun, Saved!Boot
  <2>3. Saved!RegistryIsReplay
    BY <1>2, <1>3
       DEF Saved!RegistryIsReplay, Saved!RowsAreFirstClaims,
           Saved!ClaimsAreRegistered, Saved!TldReserved, Saved!HasRow
  <2> QED
    BY <2>1, <2>2, <2>3 DEF SavedOK
<1>5. FollowerTypeOK
  <2>1. IsAccumulator(everRows)
    BY DEF Init, EmptyAccumulator, IsAccumulator
  <2>2. batch \in Seq(Block)
    BY EmptySeq DEF Init
  <2> QED
    BY <1>1, <1>4, <2>1, <2>2, FollowerAssumption
       DEF Init, FollowerTypeOK, KernelOK, SavedOK, PCs, NothingFetched,
           EmptyTelemetry
<1>6. PlanOK /\ LinkOK /\ ReportOK /\ TelemetryIsTruthful
  BY DEF Init, PlanOK, LinkOK, ReportOK, TelemetryIsTruthful, EmptyTelemetry
<1>7. ForksStopInTheHull
  BY <1>3 DEF ForksStopInTheHull
<1> QED
  BY <1>1, <1>4, <1>5, <1>6, <1>7 DEF FollowerInv

(* Every step keeps it. *)
LEMMA FollowerStep ==
  ASSUME FollowerInv, [Next]_vars
  PROVE  FollowerInv'
  BY KernelKept, FollowerTypeStep, PlanStep, LinkStep, ReportStep
     DEF FollowerInv

(* The inductive invariant holds in every reachable state. *)
THEOREM FollowerInvariant == Spec => []FollowerInv
<1>1. Init => FollowerInv
  BY FollowerInit
<1>2. FollowerInv /\ [Next]_vars => FollowerInv'
  BY FollowerStep
<1> QED
  BY <1>1, <1>2, PTL DEF Spec

(* The follower's state and the checkpoint keep their types. *)
THEOREM FollowerTypeCorrect == Spec => []FollowerTypeOK
<1>1. FollowerInv => FollowerTypeOK
  BY DEF FollowerInv
<1> QED
  BY <1>1, FollowerInvariant, PTL

(* Through crashes and reorganisations of any depth the kernel's blocks    *)
(* are one branch and its registry is the replay of them.                  *)
THEOREM OneBranch == Spec => []OneBranchReplayed
<1>1. FollowerInv => OneBranchReplayed
  BY DEF FollowerInv, KernelOK, SavedOK, OneBranchReplayed
<1> QED
  BY <1>1, FollowerInvariant, PTL

(* No %scan-block of the follower is answered with parent-mismatch. *)
THEOREM NoForkReachesTheKernel == Spec => []ForksStopInTheHull
<1>1. FollowerInv => ForksStopInTheHull
  BY DEF FollowerInv
<1> QED
  BY <1>1, FollowerInvariant, PTL

(* The recorded advance is behind the cursor and below the recorded tip,   *)
(* which the node has reached.                                             *)
THEOREM TruthfulTelemetry == Spec => []TelemetryIsTruthful
<1>1. FollowerInv => TelemetryIsTruthful
  BY DEF FollowerInv
<1> QED
  BY <1>1, FollowerInvariant, PTL

-----------------------------------------------------------------------------
(* Reorganisations that stay above the finality depth.                     *)

(* A block that was asked for is the block its chain has at that height,   *)
(* and the kernel and its checkpoint hold final blocks.  An answer for a   *)
(* height nobody asked for may be anything: no poke takes it.              *)
FinalOK ==
  /\ ScannedIsFinal
  /\ \A h \in DOMAIN got :
       got[h].height \in want => got[h] = BlockAt(got[h].height)
  /\ \A i \in DOMAIN batch :
       batch[i].height \in want => batch[i] = BlockAt(batch[i].height)

(* Every height wanted is final. *)
LEMMA WantedIsFinal ==
  ASSUME FollowerInv, NEW h \in want
  PROVE  /\ h \in Nat /\ h >= GenesisHeight
         /\ h - GenesisHeight + 1 \in DOMAIN chain
         /\ h - GenesisHeight + 1 + FinalityDepth <= Len(chain)
         /\ BlockAt(h).height = h
<1>1. pc \in {"fetch", "poke", "transition", "advance"}
  BY DEF FollowerInv, PlanOK
<1>2. /\ telemetry.chainTip # None /\ telemetry.chainTip <= TipHeight
      /\ h + FinalityDepth <= telemetry.chainTip
  BY <1>1 DEF FollowerInv, ReportOK
<1>3. h \in Nat /\ h >= GenesisHeight /\ telemetry.chainTip \in Nat
  BY <1>2 DEF FollowerInv, FollowerTypeOK, PlanOK
<1>4. /\ Len(chain) \in Nat /\ DOMAIN chain = 1 .. Len(chain)
      /\ TipHeight = GenesisHeight + Len(chain) - 1
      /\ \A i \in DOMAIN chain : chain[i].height = GenesisHeight + i - 1
  BY ChainFacts DEF FollowerInv, TipHeight
<1>5. FinalityDepth \in Nat /\ GenesisHeight \in Nat
  BY FollowerAssumption, AccumulatorAssumption
<1>6. /\ h - GenesisHeight + 1 \in DOMAIN chain
      /\ h - GenesisHeight + 1 + FinalityDepth <= Len(chain)
  BY <1>2, <1>3, <1>4, <1>5
<1>7. BlockAt(h).height = h
  BY <1>3, <1>4, <1>5, <1>6 DEF BlockAt
<1> QED
  BY <1>3, <1>6, <1>7

(* Only the node moves its chain. *)
LEMMA ChainMoves ==
  ASSUME FollowerInv, [Next]_vars
  PROVE  chain' = chain \/ NodeMoves
<1> USE DEF environment
<1>1. CASE UNCHANGED vars \/ Checkpoint \/ Crash
  BY <1>1 DEF vars, Checkpoint, Crash
<1>2. CASE AbortingStep
  BY <1>2, Aborts DEF Abort, FollowerInv
<1>3. CASE PeekScanState \/ ProveGenesis \/ FetchTip \/ ValidateBatch
             \/ RecordAdvance \/ RecordTickError
  BY <1>3 DEF PeekScanState, ProveGenesis, FetchTip, ValidateBatch,
              RecordAdvance, RecordTickError
<1>4. ASSUME NEW h \in want, FetchBlock(h) \/ FetchOtherBlock(h)
      PROVE  chain' = chain
  BY <1>4 DEF FetchBlock, FetchOtherBlock, ReceiveBlock
<1>5. CASE PokeAccepted
  BY <1>5 DEF PokeAccepted
<1>6. CASE ProveTransition \/ SkipTransition
  BY <1>6, TransitionKeepsCursor DEF TransitionDone
<1> QED
  BY <1>1, <1>2, <1>3, <1>4, <1>5, <1>6, StepKinds

(* No step shortens the node's chain or changes a final block of it. *)
LEMMA FinalBlocksStay ==
  ASSUME MaxReorg <= FinalityDepth, FollowerInv, [Next]_vars
  PROVE  /\ Len(chain') \in Nat /\ Len(chain') >= Len(chain)
         /\ DOMAIN chain' = 1 .. Len(chain')
         /\ \A i \in DOMAIN chain :
              i + FinalityDepth <= Len(chain) => chain'[i] = chain[i]
<1>1. Len(chain) \in Nat /\ DOMAIN chain = 1 .. Len(chain)
  BY ChainFacts DEF FollowerInv
<1>2. CASE chain' = chain
  BY <1>1, <1>2
<1>3. CASE NodeMoves
  <2>1. /\ chain' \in Chains /\ Len(chain') >= Len(chain)
        /\ \A i \in DOMAIN chain :
             i <= Len(chain) - MaxReorg => chain'[i] = chain[i]
    BY <1>3 DEF NodeMoves
  <2>2. Len(chain') \in Nat /\ DOMAIN chain' = 1 .. Len(chain')
    BY <2>1, FollowerAssumption, LenProperties
  <2> QED
    BY <1>1, <2>1, <2>2, FollowerAssumption
<1> QED
  BY <1>1, <1>2, <1>3, ChainMoves

(* A final prefix stays one. *)
LEMMA FinalPrefixStays ==
  ASSUME MaxReorg <= FinalityDepth, FollowerInv, [Next]_vars,
         NEW s \in Seq(Block), IsFinalPrefix(s)
  PROVE  /\ s # <<>> => Len(s) + FinalityDepth <= Len(chain')
         /\ \A i \in DOMAIN s : s[i] = chain'[i]
<1>1. /\ Len(s) \in Nat /\ DOMAIN s = 1 .. Len(s)
      /\ Len(chain) \in Nat /\ DOMAIN chain = 1 .. Len(chain)
      /\ FinalityDepth \in Nat
  BY ChainFacts, LenProperties, FollowerAssumption DEF FollowerInv
<1>2. \A i \in DOMAIN s : s # <<>> /\ s[i] = chain[i] /\ i <= Len(s)
  BY <1>1, EmptySeq DEF IsFinalPrefix
<1>3. s # <<>> => Len(s) + FinalityDepth <= Len(chain)
  BY DEF IsFinalPrefix
<1>4. \A i \in DOMAIN s : i \in DOMAIN chain /\ i + FinalityDepth <= Len(chain)
  BY <1>1, <1>2, <1>3
<1>5. \A i \in DOMAIN s : s[i] = chain'[i]
  BY <1>2, <1>4, FinalBlocksStay
<1> QED
  BY <1>1, <1>3, <1>5, FinalBlocksStay

(* A block wanted is the same block after any step. *)
LEMMA WantedBlockStays ==
  ASSUME MaxReorg <= FinalityDepth, FollowerInv, [Next]_vars, NEW h \in want
  PROVE  chain'[h - GenesisHeight + 1] = BlockAt(h)
  BY WantedIsFinal, FinalBlocksStay DEF BlockAt

(* The blocks the kernel holds after a step. *)
LEMMA ScannedFinalStep ==
  ASSUME MaxReorg <= FinalityDepth, FollowerInv, FinalOK, [Next]_vars
  PROVE  ScannedIsFinal'
<1> USE DEF environment
<1>1. /\ scanned \in Seq(Block) /\ saved.scanned \in Seq(Block)
      /\ IsFinalPrefix(scanned) /\ IsFinalPrefix(saved.scanned)
  BY DEF FollowerInv, KernelOK, SavedOK, K!TypeOK, Saved!TypeOK, FinalOK,
         ScannedIsFinal
<1>2. /\ scanned # <<>> => Len(scanned) + FinalityDepth <= Len(chain')
      /\ \A i \in DOMAIN scanned : scanned[i] = chain'[i]
  BY <1>1, FinalPrefixStays
<1>3. /\ saved.scanned # <<>> =>
           Len(saved.scanned) + FinalityDepth <= Len(chain')
      /\ \A i \in DOMAIN saved.scanned : saved.scanned[i] = chain'[i]
  BY <1>1, FinalPrefixStays
<1>4. ASSUME scanned' = scanned, saved' = saved PROVE ScannedIsFinal'
  BY <1>2, <1>3, <1>4 DEF ScannedIsFinal, IsFinalPrefix
<1>5. CASE Checkpoint
  <2>1. scanned' = scanned /\ saved'.scanned = scanned
    BY <1>5 DEF Checkpoint, Snapshot, kernelVars
  <2> QED
    BY <1>2, <2>1 DEF ScannedIsFinal, IsFinalPrefix
<1>6. CASE Crash
  <2>1. scanned' = saved.scanned /\ saved' = saved
    BY <1>6 DEF Crash
  <2> QED
    BY <1>3, <2>1 DEF ScannedIsFinal, IsFinalPrefix
<1>7. CASE PokeAccepted
  <2> DEFINE b == Head(batch)
             new == Len(scanned) + 1
  <2>1. /\ scanned' = Append(scanned, b) /\ saved' = saved /\ chain' = chain
        /\ pc = "poke"
        /\ b \in Block /\ b = batch[1] /\ 1 \in DOMAIN batch
        /\ Len(batch) \in Nat \ {0}
    BY <1>7, BatchHead, WantHeightMoves DEF PokeAccepted, FollowerInv
  <2>2. /\ b.height = K!WantHeight
        /\ K!WantHeight = GenesisHeight + Len(scanned)
        /\ K!WantHeight \in Nat
    BY <1>7, WantHeightMoves, NextHeightWanted DEF FollowerInv
  <2>3. K!WantHeight \in want
    BY <2>1, <2>2 DEF FollowerInv, PlanOK
  <2>4. b = BlockAt(K!WantHeight)
    BY <2>1, <2>2, <2>3 DEF FinalOK
  <2>5. Len(scanned) \in Nat
    BY <1>1, LenProperties
  <2>6. new = K!WantHeight - GenesisHeight + 1
    BY <2>2, <2>5, AccumulatorAssumption
  <2>7. b = chain[new] /\ new + FinalityDepth <= Len(chain)
    BY <2>3, <2>4, <2>6, WantedIsFinal DEF BlockAt
  <2>8. /\ Len(scanned') = new
        /\ DOMAIN scanned' = DOMAIN scanned \cup {new}
        /\ scanned'[new] = b
        /\ \A i \in DOMAIN scanned : scanned'[i] = scanned[i]
    <3>1. /\ scanned' \in Seq(Block) /\ Len(scanned') = new
          /\ scanned'[new] = b
          /\ \A i \in 1 .. Len(scanned) : scanned'[i] = scanned[i]
      BY <1>1, <2>1, AppendProperties
    <3>2. DOMAIN scanned = 1 .. Len(scanned) /\ DOMAIN scanned' = 1 .. new
      BY <1>1, <3>1, LenProperties
    <3> QED
      BY <2>5, <3>1, <3>2
  <2>9. (IsFinalPrefix(scanned))'
    BY <1>2, <2>1, <2>7, <2>8 DEF IsFinalPrefix
  <2>10. (IsFinalPrefix(saved.scanned))'
    BY <1>3, <2>1 DEF IsFinalPrefix
  <2> QED
    BY <2>9, <2>10 DEF ScannedIsFinal
<1>8. CASE AbortingStep
  BY <1>4, <1>8, Aborts DEF Abort, FollowerInv
<1>9. CASE ProveGenesis
  BY <1>4, <1>9, GenesisKeepsCursor DEF ProveGenesis
<1>10. CASE ProveTransition \/ SkipTransition
  BY <1>4, <1>10, TransitionKeepsCursor DEF TransitionDone
<1>11. ASSUME NEW h \in want, FetchBlock(h) \/ FetchOtherBlock(h)
       PROVE  ScannedIsFinal'
  BY <1>4, <1>11 DEF FetchBlock, FetchOtherBlock, ReceiveBlock, kernelVars
<1>12. CASE UNCHANGED vars \/ NodeMoves
  BY <1>4, <1>12 DEF vars, NodeMoves, kernelVars
<1>13. CASE PeekScanState \/ FetchTip \/ ValidateBatch \/ RecordAdvance
              \/ RecordTickError
  BY <1>4, <1>13 DEF PeekScanState, FetchTip, ValidateBatch, RecordAdvance,
                     RecordTickError, kernelVars
<1> QED
  BY <1>5, <1>6, <1>7, <1>8, <1>9, <1>10, <1>11, <1>12, <1>13, StepKinds

(* Blocks of the chain carry the height of their place. *)
LEMMA ChainBlockIsWanted ==
  ASSUME FollowerInv, NEW i \in DOMAIN chain
  PROVE  chain[i] = BlockAt(chain[i].height)
<1>1. /\ i \in Nat /\ chain[i].height = GenesisHeight + i - 1
      /\ GenesisHeight \in Nat
  BY ChainFacts, AccumulatorAssumption DEF FollowerInv
<1>2. chain[i].height - GenesisHeight + 1 = i
  BY <1>1
<1> QED
  BY <1>2 DEF BlockAt

(* Every step keeps the fetched blocks and the scanned ones final. *)
LEMMA FinalStep ==
  ASSUME MaxReorg <= FinalityDepth, FollowerInv, FinalOK, [Next]_vars
  PROVE  FinalOK'
<1> USE DEF environment
<1> DEFINE Blocks(bs) ==
             \A i \in DOMAIN bs :
               bs[i].height \in want => bs[i] = BlockAt(bs[i].height)
<1>1. ScannedIsFinal'
  BY ScannedFinalStep
<1>2. Blocks(got) /\ Blocks(batch)
  BY DEF FinalOK
<1>3. chain' = chain => \A h : BlockAt(h)' = BlockAt(h)
  BY DEF BlockAt
<1>4. \A h \in want : BlockAt(h)' = BlockAt(h)
  BY WantedBlockStays DEF BlockAt
<1>5. ASSUME want' \subseteq want, got' = got, batch' = batch
      PROVE  Blocks(got)' /\ Blocks(batch)'
  BY <1>2, <1>4, <1>5
<1>6. ASSUME want' = {} PROVE Blocks(got)' /\ Blocks(batch)'
  BY <1>6
<1> SUFFICES Blocks(got)' /\ Blocks(batch)'
  BY <1>1 DEF FinalOK
<1>7. CASE UNCHANGED vars \/ NodeMoves \/ Checkpoint \/ PeekScanState
             \/ ProveGenesis \/ RecordTickError \/ PokeAccepted
  BY <1>5, <1>7 DEF vars, NodeMoves, Checkpoint, PeekScanState, ProveGenesis,
                    RecordTickError, PokeAccepted, localVars
<1>8. CASE Crash \/ RecordAdvance
  BY <1>6, <1>8 DEF Crash, RecordAdvance, ForgetLocals
<1>9. CASE AbortingStep
  BY <1>6, <1>9, Aborts DEF Abort, ForgetLocals, FollowerInv
<1>10. CASE FetchTip
  <2>1. CASE PlannedHeights = {}
    BY <1>6, <1>10, <2>1 DEF FetchTip, ForgetLocals
  <2>2. CASE PlannedHeights # {}
    <3>1. /\ pc = "plan" /\ got' = got /\ batch' = batch
      BY <1>10, <2>2 DEF FetchTip
    <3>2. DOMAIN got = {} /\ DOMAIN batch = {}
      <4>1. want = {} /\ batch = <<>>
        BY <3>1 DEF FollowerInv, PlanOK
      <4>2. DOMAIN batch = {}
        BY <4>1
      <4> QED
        BY <4>1, <4>2 DEF FollowerInv, FollowerTypeOK
    <3> QED
      BY <3>1, <3>2
  <2> QED
    BY <2>1, <2>2
<1>11. ASSUME NEW h \in want, FetchBlock(h) \/ FetchOtherBlock(h)
       PROVE  Blocks(got)' /\ Blocks(batch)'
  <2>1. PICK i \in DOMAIN chain : ReceiveBlock(h, chain[i])
    <3>1. CASE FetchBlock(h)
      BY <1>11, <3>1, WantedIsFinal DEF FetchBlock, BlockAt
    <3>2. CASE FetchOtherBlock(h)
      BY <3>2 DEF FetchOtherBlock
    <3> QED
      BY <1>11, <3>1, <3>2
  <2>2. chain[i] = BlockAt(chain[i].height)
    BY ChainBlockIsWanted
  <2>3. /\ got' = [x \in DOMAIN got \cup {h} |->
                     IF x = h THEN chain[i] ELSE got[x]]
        /\ want' = want /\ batch' = batch /\ chain' = chain
    BY <2>1 DEF ReceiveBlock
  <2> QED
    BY <1>2, <1>3, <2>2, <2>3
<1>12. CASE ValidateBatch /\ pc' # "failed"
  <2>1. PICK p \in Bijection(1 .. Cardinality(want), want) :
          /\ batch' = [i \in DOMAIN p |-> got[p[i]]]
          /\ UNCHANGED <<want, got>>
    BY <1>12 DEF ValidateBatch, TickFails
  <2>2. \A i \in DOMAIN batch' : \E h \in DOMAIN got : batch'[i] = got[h]
    BY <1>12, <2>1, BatchFacts DEF ValidateBatch, FollowerInv
  <2>3. chain' = chain
    BY <1>12 DEF ValidateBatch
  <2> QED
    BY <1>2, <1>3, <2>1, <2>2, <2>3
<1>13. CASE ProveTransition \/ SkipTransition
  <2>1. /\ pc = "transition" /\ batch' = Tail(batch)
        /\ UNCHANGED <<chain, want, got>>
    BY <1>13, TransitionKeepsCursor DEF TransitionDone
  <2>2. \A i \in DOMAIN batch' :
          i + 1 \in DOMAIN batch /\ batch'[i] = batch[i + 1]
    <3>1. /\ DOMAIN Tail(batch) = 1 .. Len(batch) - 1
          /\ DOMAIN batch = 1 .. Len(batch) /\ Len(batch) \in Nat
          /\ \A i \in 1 .. Len(batch) - 1 : Tail(batch)[i] = batch[i + 1]
      BY <2>1, BatchHead DEF FollowerInv
    <3> QED
      BY <2>1, <3>1
  <2> QED
    BY <1>2, <1>3, <2>1, <2>2
<1> HIDE DEF Blocks
<1> QED
  BY <1>7, <1>8, <1>9, <1>10, <1>11, <1>12, <1>13, StepKinds

(* Nothing is fetched or scanned at the start. *)
LEMMA FinalInit ==
  ASSUME Init
  PROVE  FinalOK
<1>1. scanned = <<>> /\ saved.scanned = <<>> /\ want = {}
  BY DEF Init, K!Init, Snapshot
<1>2. ScannedIsFinal
  BY <1>1 DEF ScannedIsFinal, IsFinalPrefix
<1> QED
  BY <1>1, <1>2 DEF FinalOK

(* As long as reorganisations stay above the finality depth, the blocks of *)
(* the kernel and of its checkpoint are the bottom of the node's chain.    *)
THEOREM ScannedStaysFinal ==
  ASSUME MaxReorg <= FinalityDepth
  PROVE  Spec => []ScannedIsFinal
<1>1. Init => FinalOK
  BY FinalInit
<1>2. FollowerInv /\ FinalOK /\ [Next]_vars => FinalOK'
  BY FinalStep
<1>3. FinalOK => ScannedIsFinal
  BY DEF FinalOK
<1> QED
  BY <1>1, <1>2, <1>3, FollowerInvariant, PTL DEF Spec

-----------------------------------------------------------------------------
(* Rows and the chain.                                                     *)

(* `row' is the row of the first valid claim on n in the first m blocks    *)
(* of c.                                                                   *)
FirstIn(c, m, n, row) ==
  \E i \in DOMAIN c : \E j \in ValidPositions(c[i]) :
    /\ i <= m
    /\ c[i].claims[j].name = n
    /\ row = RowOf(c[i], c[i].claims[j])
    /\ \A k \in DOMAIN c : \A l \in ValidPositions(c[k]) :
         c[k].claims[l].name = n => ~(k < i \/ (k = i /\ l < j))

(* Blocks in agreement up to k have the same first claims there. *)
LEMMA FirstInPrefix ==
  ASSUME NEW s \in Seq(Block), NEW c \in Seq(Block), NEW k \in Int,
         NEW m \in Int, k <= m,
         \A i \in DOMAIN s : i <= k => i \in DOMAIN c /\ c[i] = s[i],
         NEW n, NEW row, FirstIn(s, k, n, row)
  PROVE  FirstIn(c, m, n, row)
<1>1. PICK i \in DOMAIN s : \E j \in ValidPositions(s[i]) :
        /\ i <= k
        /\ s[i].claims[j].name = n
        /\ row = RowOf(s[i], s[i].claims[j])
        /\ \A x \in DOMAIN s : \A l \in ValidPositions(s[x]) :
             s[x].claims[l].name = n => ~(x < i \/ (x = i /\ l < j))
  BY DEF FirstIn
<1>2. PICK j \in ValidPositions(s[i]) :
        /\ i <= k
        /\ s[i].claims[j].name = n
        /\ row = RowOf(s[i], s[i].claims[j])
        /\ \A x \in DOMAIN s : \A l \in ValidPositions(s[x]) :
             s[x].claims[l].name = n => ~(x < i \/ (x = i /\ l < j))
  BY <1>1
<1>3. /\ Len(s) \in Nat /\ DOMAIN s = 1 .. Len(s)
      /\ Len(c) \in Nat /\ DOMAIN c = 1 .. Len(c)
  BY LenProperties
<1>4. i \in DOMAIN c /\ c[i] = s[i] /\ i <= m
  BY <1>2, <1>3
<1>5. ASSUME NEW x \in DOMAIN c, NEW l \in ValidPositions(c[x]),
             c[x].claims[l].name = n, x < i \/ (x = i /\ l < j)
      PROVE  FALSE
  <2>1. x \in DOMAIN s /\ x <= k
    BY <1>2, <1>3, <1>5
  <2>2. c[x] = s[x]
    BY <2>1
  <2> QED
    BY <1>2, <1>5, <2>1, <2>2
<1> QED
  BY <1>2, <1>4, <1>5 DEF FirstIn

(* There is only one first claim. *)
LEMMA FirstInUnique ==
  ASSUME NEW c \in Seq(Block), NEW m, NEW n, NEW r1, NEW r2,
         FirstIn(c, m, n, r1), FirstIn(c, m, n, r2)
  PROVE  r1 = r2
<1> DEFINE P(i, j, r) ==
             /\ c[i].claims[j].name = n
             /\ r = RowOf(c[i], c[i].claims[j])
             /\ \A k \in DOMAIN c : \A l \in ValidPositions(c[k]) :
                  c[k].claims[l].name = n => ~(k < i \/ (k = i /\ l < j))
<1>1. PICK i1 \in DOMAIN c : \E j \in ValidPositions(c[i1]) : P(i1, j, r1)
  BY DEF FirstIn
<1>2. PICK j1 \in ValidPositions(c[i1]) : P(i1, j1, r1)
  BY <1>1
<1>3. PICK i2 \in DOMAIN c : \E j \in ValidPositions(c[i2]) : P(i2, j, r2)
  BY DEF FirstIn
<1>4. PICK j2 \in ValidPositions(c[i2]) : P(i2, j2, r2)
  BY <1>3
<1>5. i1 \in Nat /\ i2 \in Nat
  BY LenProperties
<1>6. \A i \in DOMAIN c : \A j \in ValidPositions(c[i]) : j \in Nat
  <2>1. TAKE i \in DOMAIN c
  <2>2. c[i] \in Block
    BY ElementOfSeq, LenProperties
  <2>3. c[i].claims \in Seq(K!Claim)
    BY <2>2, FollowerAssumption DEF K!ScanPayload
  <2>4. DOMAIN c[i].claims \subseteq Nat
    BY <2>3, LenProperties
  <2> QED
    BY <2>4 DEF ValidPositions
<1>7. j1 \in Nat /\ j2 \in Nat
  BY <1>6
<1>8. ~(i1 < i2) /\ ~(i2 < i1)
  BY <1>2, <1>4
<1>9. i1 = i2
  BY <1>5, <1>8
<1>10. ~(j1 < j2) /\ ~(j2 < j1)
  BY <1>2, <1>4, <1>9
<1>11. j1 = j2
  BY <1>7, <1>10
<1> QED
  BY <1>2, <1>4, <1>9, <1>11

(* Every row ever shown is that of the first valid claim among the final   *)
(* blocks.                                                                 *)
RowsOK ==
  \A n \in DOMAIN everRows \ {Tld} :
    FirstIn(chain, Len(chain) - FinalityDepth, n, everRows[n])

(* The rows of the kernel are those of the chain its blocks are on. *)
LEMMA RegisteredOnChain ==
  ASSUME FollowerInv, ScannedIsFinal, NEW n \in DOMAIN accumulator \ {Tld}
  PROVE  FirstIn(chain, Len(chain) - FinalityDepth, n, accumulator[n])
<1>1. /\ scanned \in Seq(Block) /\ Len(scanned) \in Nat
      /\ DOMAIN scanned = 1 .. Len(scanned)
      /\ chain \in Seq(Block) /\ Len(chain) \in Nat
      /\ DOMAIN chain = 1 .. Len(chain)
      /\ FinalityDepth \in Nat
  BY ChainFacts, LenProperties, FollowerAssumption
     DEF FollowerInv, KernelOK, K!TypeOK
<1>2. FirstIn(scanned, Len(scanned), n, accumulator[n])
  BY <1>1, SameRules
     DEF FollowerInv, KernelOK, K!RegistryIsReplay, K!RowsAreFirstClaims,
         K!ClaimAt, K!Before, FirstIn
<1>3. scanned # <<>>
  BY <1>2 DEF FirstIn
<1>4. /\ Len(scanned) <= Len(chain) - FinalityDepth
      /\ \A i \in DOMAIN scanned : i \in DOMAIN chain /\ chain[i] = scanned[i]
  BY <1>1, <1>3 DEF ScannedIsFinal, IsFinalPrefix
<1>5. /\ Len(scanned) \in Int /\ Len(chain) - FinalityDepth \in Int
      /\ \A i \in DOMAIN scanned :
           i <= Len(scanned) => i \in DOMAIN chain /\ chain[i] = scanned[i]
  BY <1>1, <1>2, <1>4
<1> QED
  BY <1>1, <1>2, <1>4, <1>5, FirstInPrefix, Zenon

(* The same after a step. *)
LEMMA RegisteredOnChainNext ==
  ASSUME FollowerInv', ScannedIsFinal', NEW n \in DOMAIN accumulator' \ {Tld}
  PROVE  FirstIn(chain', Len(chain') - FinalityDepth, n, accumulator'[n])
<1>1. /\ scanned' \in Seq(Block) /\ chain' \in Seq(Block)
      /\ FinalityDepth \in Nat
  BY FollowerAssumption DEF FollowerInv, FollowerTypeOK, KernelOK, K!TypeOK
<1>2. /\ Len(scanned') \in Nat /\ DOMAIN scanned' = 1 .. Len(scanned')
      /\ Len(chain') \in Nat /\ DOMAIN chain' = 1 .. Len(chain')
  BY <1>1, LenProperties
<1>3. FirstIn(scanned', Len(scanned'), n, accumulator'[n])
  BY <1>2, SameRules
     DEF FollowerInv, KernelOK, K!RegistryIsReplay, K!RowsAreFirstClaims,
         K!ClaimAt, K!Before, FirstIn
<1>4. scanned' # <<>>
  BY <1>3 DEF FirstIn
<1>5. /\ Len(scanned') <= Len(chain') - FinalityDepth
      /\ \A i \in DOMAIN scanned' :
           i \in DOMAIN chain' /\ chain'[i] = scanned'[i]
  BY <1>1, <1>2, <1>4 DEF ScannedIsFinal, IsFinalPrefix
<1>6. /\ Len(scanned') \in Int /\ Len(chain') - FinalityDepth \in Int
      /\ \A i \in DOMAIN scanned' :
           i <= Len(scanned') => i \in DOMAIN chain' /\ chain'[i] = scanned'[i]
  BY <1>1, <1>2, <1>5
<1> QED
  BY <1>1, <1>3, <1>5, <1>6, FirstInPrefix, Zenon

(* Every step keeps the rows shown explained by the final blocks. *)
LEMMA RowsStep ==
  ASSUME MaxReorg <= FinalityDepth, FollowerInv, FollowerInv',
         ScannedIsFinal', RowsOK, [Next]_vars
  PROVE  RowsOK'
<1> USE DEF environment
<1>1. /\ chain \in Seq(Block) /\ chain' \in Seq(Block)
      /\ Len(chain) \in Nat /\ DOMAIN chain = 1 .. Len(chain)
      /\ FinalityDepth \in Nat
  BY ChainFacts, FollowerAssumption DEF FollowerInv, FollowerTypeOK
<1>2. /\ Len(chain') \in Nat /\ Len(chain') >= Len(chain)
      /\ DOMAIN chain' = 1 .. Len(chain')
      /\ \A i \in DOMAIN chain :
           i + FinalityDepth <= Len(chain) => chain'[i] = chain[i]
  BY FinalBlocksStay
<1>3. /\ Len(chain) - FinalityDepth \in Int
      /\ Len(chain') - FinalityDepth \in Int
      /\ Len(chain) - FinalityDepth <= Len(chain') - FinalityDepth
      /\ \A i \in DOMAIN chain : i <= Len(chain) - FinalityDepth =>
           i \in DOMAIN chain' /\ chain'[i] = chain[i]
  BY <1>1, <1>2
<1>4. \A n, row :
        FirstIn(chain, Len(chain) - FinalityDepth, n, row) =>
        FirstIn(chain', Len(chain') - FinalityDepth, n, row)
  BY <1>1, <1>3, FirstInPrefix, Zenon
<1>5. CASE everRows' = everRows
  BY <1>4, <1>5 DEF RowsOK
<1>6. CASE PokeAccepted
  <2>1. ASSUME NEW n \in DOMAIN everRows' \ {Tld}
        PROVE  FirstIn(chain', Len(chain') - FinalityDepth, n, everRows'[n])
    <3>1. CASE n \in DOMAIN everRows
      <4>1. everRows'[n] = everRows[n]
        BY <1>6, <3>1 DEF PokeAccepted, HasRow
      <4> QED
        BY <1>4, <2>1, <3>1, <4>1 DEF RowsOK
    <3>2. CASE n \notin DOMAIN everRows
      <4>1. n \in DOMAIN accumulator' \ {Tld} /\ everRows'[n] = accumulator'[n]
        BY <1>6, <2>1, <3>2 DEF PokeAccepted, HasRow
      <4> QED
        BY <4>1, RegisteredOnChainNext
    <3> QED
      BY <3>1, <3>2
  <2> QED
    BY <2>1 DEF RowsOK
<1>7. PokeAccepted \/ everRows' = everRows
  <2>1. CASE UNCHANGED vars \/ NodeMoves \/ Checkpoint \/ Crash
    BY <2>1 DEF vars, NodeMoves, Checkpoint, Crash
  <2>2. CASE AbortingStep
    BY <2>2, Aborts DEF Abort, FollowerInv
  <2>3. CASE PeekScanState \/ ProveGenesis \/ FetchTip \/ ValidateBatch
               \/ RecordAdvance \/ RecordTickError
    BY <2>3 DEF PeekScanState, ProveGenesis, FetchTip, ValidateBatch,
                RecordAdvance, RecordTickError
  <2>4. ASSUME NEW h \in want, FetchBlock(h) \/ FetchOtherBlock(h)
        PROVE  everRows' = everRows
    BY <2>4 DEF FetchBlock, FetchOtherBlock, ReceiveBlock
  <2>5. CASE ProveTransition \/ SkipTransition
    BY <2>5, TransitionKeepsCursor DEF TransitionDone
  <2> QED
    BY <2>1, <2>2, <2>3, <2>4, <2>5, StepKinds
<1> QED
  BY <1>5, <1>6, <1>7

(* As long as reorganisations stay above the finality depth, the row a     *)
(* name has once is the row it has whenever it has one, whatever           *)
(* checkpoints the process restarts from.                                  *)
THEOREM RowsSurvive ==
  ASSUME MaxReorg <= FinalityDepth
  PROVE  Spec => []RowsSurviveRestart
<1>1. Init => RowsOK
  BY DEF Init, EmptyAccumulator, RowsOK
<1>2. FollowerInv /\ FollowerInv' /\ ScannedIsFinal' /\ RowsOK /\ [Next]_vars
        => RowsOK'
  BY RowsStep
<1>3. FollowerInv /\ ScannedIsFinal /\ RowsOK => RowsSurviveRestart
  <2> SUFFICES ASSUME FollowerInv, ScannedIsFinal, RowsOK,
                      NEW n \in DOMAIN accumulator, HasRow(everRows, n),
                      n # Tld
               PROVE  accumulator[n] = everRows[n]
    BY DEF RowsSurviveRestart
  <2>1. FirstIn(chain, Len(chain) - FinalityDepth, n, accumulator[n])
    BY RegisteredOnChain
  <2>2. FirstIn(chain, Len(chain) - FinalityDepth, n, everRows[n])
    BY DEF RowsOK, HasRow
  <2>3. chain \in Seq(Block)
    BY ChainFacts DEF FollowerInv
  <2> QED
    BY <2>1, <2>2, <2>3, FirstInUnique
<1> QED
  BY <1>1, <1>2, <1>3, FollowerInvariant, ScannedStaysFinal, PTL DEF Spec

-----------------------------------------------------------------------------
(* The API beside the follower.                                            *)

(* The steps of the API are steps of the follower or leave it alone. *)
LEMMA ApiStepIsFollowerStep ==
  ASSUME [ApiNext]_<<vars, apiVars>>
  PROVE  [Next]_vars
<1>1. CASE UNCHANGED <<vars, apiVars>>
  BY <1>1
<1>2. CASE Serve
  BY <1>2 DEF Serve, RejectName, PeekEntry, PeekScan, PeekSnapshot, PeekProof,
              LookupFails, CopyTelemetry, AnswerStatus
<1>3. CASE Others
  BY <1>3 DEF Others, Next
<1> QED
  BY <1>1, <1>2, <1>3 DEF ApiNext

(* A tick that does not need the kernel's mutex leaves the kernel alone. *)
LEMMA TickBesideTheLock ==
  ASSUME Tick, ~FollowerUsesKernel
  PROVE  UNCHANGED kernelVars
<1>1. /\ ~PeekScanState /\ ~ProveGenesis /\ ~ValidateBatch
      /\ ~PokeAccepted /\ ~PokeRejected /\ ~ProveTransition /\ ~SkipTransition
  BY DEF FollowerUsesKernel, PeekScanState, ProveGenesis, ValidateBatch,
         PokeAccepted, PokeRejected, ProveTransition, SkipTransition
<1>2. CASE FetchTip \/ RecordAdvance \/ RecordTickError
  BY <1>2 DEF FetchTip, RecordAdvance, RecordTickError
<1>3. ASSUME NEW h \in want, FetchBlock(h)
      PROVE  UNCHANGED kernelVars
  BY <1>3 DEF FetchBlock, ReceiveBlock
<1> QED
  BY <1>1, <1>2, <1>3 DEF Tick

-----------------------------------------------------------------------------
(* The cursor and the chain.                                               *)

(* How many blocks of a chain lie at or below height h. *)
UpTo(h) == h - GenesisHeight + 1

(* Height h, if a block can have it, is final. *)
IsFinalHeight(h) ==
  h \in Nat /\ (h >= GenesisHeight => h + FinalityDepth <= TipHeight)

(* None of the first m blocks of c has a valid claim on n. *)
MissingIn(c, m, n) ==
  \A i \in DOMAIN c : \A j \in ValidPositions(c[i]) :
    i <= m => c[i].claims[j].name # n

(* The kernel's blocks are the chain's blocks up to the cursor. *)
LEMMA CursorOnChain ==
  ASSUME FollowerInv, ScannedIsFinal
  PROVE  /\ IsFinalHeight(lastProvedHeight)
         /\ \A i \in DOMAIN scanned : i <= UpTo(lastProvedHeight)
         /\ \A i \in DOMAIN scanned : i \in DOMAIN chain /\ chain[i] = scanned[i]
         /\ \A i \in DOMAIN chain :
              i <= UpTo(lastProvedHeight) => i \in DOMAIN scanned
         /\ scanned # <<>> =>
              /\ lastProvedHeight >= GenesisHeight
              /\ BlockAt(lastProvedHeight).digest = lastProvedDigest
<1>1. /\ scanned \in Seq(Block) /\ chain \in Seq(Block)
      /\ lastProvedHeight \in Nat
      /\ FinalityDepth \in Nat /\ GenesisHeight \in Nat \ {0}
  BY ChainFacts, FollowerAssumption, AccumulatorAssumption
     DEF FollowerInv, KernelOK, K!TypeOK
<1>2. /\ Len(scanned) \in Nat /\ DOMAIN scanned = 1 .. Len(scanned)
      /\ Len(chain) \in Nat /\ DOMAIN chain = 1 .. Len(chain)
  BY <1>1, LenProperties
<1>3. /\ scanned # <<>> => Len(scanned) + FinalityDepth <= Len(chain)
      /\ \A i \in DOMAIN scanned : scanned[i] = chain[i]
  BY DEF ScannedIsFinal, IsFinalPrefix
<1>4. CASE scanned = <<>>
  <2>1. lastProvedHeight = 0 /\ DOMAIN scanned = {}
    BY <1>4 DEF FollowerInv, KernelOK, K!ScannedIsLinkedRun, K!Boot
  <2> QED
    BY <1>1, <1>2, <1>4, <2>1 DEF IsFinalHeight, UpTo
<1>5. CASE scanned # <<>>
  <2>1. Len(scanned) >= 1
    BY <1>1, <1>2, <1>5, EmptySeq
  <2>2. /\ lastProvedHeight = GenesisHeight + Len(scanned) - 1
        /\ lastProvedDigest = scanned[Len(scanned)].digest
    BY <1>2, <1>5, <2>1 DEF FollowerInv, KernelOK, K!ScannedIsLinkedRun
  <2>3. UpTo(lastProvedHeight) = Len(scanned)
    BY <1>1, <1>2, <2>2 DEF UpTo
  <2>4. BlockAt(lastProvedHeight) = chain[Len(scanned)]
    BY <2>3 DEF BlockAt, UpTo
  <2>5. IsFinalHeight(lastProvedHeight)
    BY <1>1, <1>2, <1>3, <1>5, <2>2 DEF IsFinalHeight, TipHeight
  <2> QED
    BY <1>1, <1>2, <1>3, <1>5, <2>1, <2>2, <2>3, <2>4, <2>5
<1> QED
  BY <1>4, <1>5

(* A name without a row has no valid claim up to the cursor, ... *)
LEMMA NoRowNoClaim ==
  ASSUME FollowerInv, ScannedIsFinal, NEW n, ~HasRow(accumulator, n)
  PROVE  MissingIn(chain, UpTo(lastProvedHeight), n)
<1> SUFFICES ASSUME NEW i \in DOMAIN chain, NEW j \in ValidPositions(chain[i]),
                    i <= UpTo(lastProvedHeight), chain[i].claims[j].name = n
             PROVE  FALSE
  BY DEF MissingIn
<1>1. i \in DOMAIN scanned /\ chain[i] = scanned[i]
  BY CursorOnChain
<1>2. K!ClaimAt(i, j).name \in DOMAIN accumulator
  BY <1>1, SameRules
     DEF FollowerInv, KernelOK, K!RegistryIsReplay, K!ClaimsAreRegistered
<1> QED
  BY <1>1, <1>2 DEF K!ClaimAt, HasRow

(* ... and a row is that of the first valid claim up to there. *)
LEMMA RowIsFirstClaim ==
  ASSUME FollowerInv, ScannedIsFinal, NEW n \in DOMAIN accumulator \ {Tld}
  PROVE  FirstIn(chain, UpTo(lastProvedHeight), n, accumulator[n])
<1>1. /\ scanned \in Seq(Block) /\ chain \in Seq(Block)
      /\ UpTo(lastProvedHeight) \in Int
  BY ChainFacts, AccumulatorAssumption
     DEF FollowerInv, KernelOK, K!TypeOK, UpTo
<1>2. /\ \A i \in DOMAIN scanned : i <= UpTo(lastProvedHeight)
      /\ \A i \in DOMAIN scanned : i \in DOMAIN chain /\ chain[i] = scanned[i]
  BY CursorOnChain
<1>3. FirstIn(scanned, UpTo(lastProvedHeight), n, accumulator[n])
  BY <1>2, SameRules
     DEF FollowerInv, KernelOK, K!RegistryIsReplay, K!RowsAreFirstClaims,
         K!ClaimAt, K!Before, FirstIn
<1>4. /\ UpTo(lastProvedHeight) <= UpTo(lastProvedHeight)
      /\ \A i \in DOMAIN scanned :
           i <= UpTo(lastProvedHeight) => i \in DOMAIN chain /\ chain[i] = scanned[i]
  BY <1>1, <1>2
<1> QED
  BY <1>1, <1>3, <1>4, FirstInPrefix, Zenon

(* Up to a final height every step keeps the chain as it is. *)
LEMMA FinalHeightStays ==
  ASSUME MaxReorg <= FinalityDepth, FollowerInv, [Next]_vars,
         NEW h, IsFinalHeight(h)
  PROVE  /\ IsFinalHeight(h)'
         /\ \A i \in DOMAIN chain :
              i <= UpTo(h) => i \in DOMAIN chain' /\ chain'[i] = chain[i]
         /\ \A i \in DOMAIN chain' :
              i <= UpTo(h) => i \in DOMAIN chain /\ chain'[i] = chain[i]
<1>1. /\ Len(chain) \in Nat /\ DOMAIN chain = 1 .. Len(chain)
      /\ FinalityDepth \in Nat /\ GenesisHeight \in Nat \ {0}
      /\ h \in Nat
  BY ChainFacts, FollowerAssumption, AccumulatorAssumption
     DEF FollowerInv, IsFinalHeight
<1>2. /\ Len(chain') \in Nat /\ Len(chain') >= Len(chain)
      /\ DOMAIN chain' = 1 .. Len(chain')
      /\ \A i \in DOMAIN chain :
           i + FinalityDepth <= Len(chain) => chain'[i] = chain[i]
  BY FinalBlocksStay
<1>3. h >= GenesisHeight => UpTo(h) + FinalityDepth <= Len(chain)
  BY <1>1 DEF IsFinalHeight, TipHeight, UpTo
<1>4. IsFinalHeight(h)'
  BY <1>1, <1>2 DEF IsFinalHeight, TipHeight
<1>5. \A i \in Nat \ {0} :
        i <= UpTo(h) => i <= Len(chain) /\ i + FinalityDepth <= Len(chain)
  BY <1>1, <1>3 DEF UpTo
<1> QED
  BY <1>1, <1>2, <1>4, <1>5

(* So what was missing stays missing, ... *)
LEMMA MissingStays ==
  ASSUME MaxReorg <= FinalityDepth, FollowerInv, [Next]_vars,
         NEW h, IsFinalHeight(h), NEW n, MissingIn(chain, UpTo(h), n)
  PROVE  MissingIn(chain', UpTo(h), n)
  BY FinalHeightStays DEF MissingIn

(* ... and first claims stay first. *)
LEMMA FoundStays ==
  ASSUME MaxReorg <= FinalityDepth, FollowerInv, [Next]_vars,
         NEW h, IsFinalHeight(h), NEW n, NEW row,
         FirstIn(chain, UpTo(h), n, row)
  PROVE  FirstIn(chain', UpTo(h), n, row)
<1>1. /\ chain \in Seq(Block) /\ chain' \in Seq(Block)
  BY FollowerStep, ChainFacts, FollowerAssumption
     DEF FollowerInv, FollowerTypeOK
<1>2. UpTo(h) \in Int /\ UpTo(h) <= UpTo(h)
  BY AccumulatorAssumption DEF IsFinalHeight, UpTo
<1>3. \A i \in DOMAIN chain :
        i <= UpTo(h) => i \in DOMAIN chain' /\ chain'[i] = chain[i]
  BY FinalHeightStays
<1> QED
  BY <1>1, <1>2, <1>3, FirstInPrefix, Zenon

-----------------------------------------------------------------------------
(* The lookup being served, and the answers given.                         *)

(* What a lookup has peeked is what the kernel has, because no poke gets   *)
(* between its peeks.                                                      *)
LookupOK ==
  /\ DOMAIN lookup = {"at", "name", "export", "value", "height", "digest",
                      "root", "snapshot", "proof"}
  /\ lookup.at \in {"none", "scan", "snapshot", "proof"}
  /\ lookup.at # "none" =>
       /\ IsValidName(lookup.name)
       /\ HasRow(accumulator, lookup.name)
       /\ lookup.value = accumulator[lookup.name]
       /\ lookup.height = lastProvedHeight
  /\ lookup.at \in {"snapshot", "proof"} =>
       lookup.digest = lastProvedDigest /\ lookup.root = Root(accumulator)
  /\ lookup.at = "snapshot" => lookup.export
  /\ lookup.at = "proof" /\ lookup.export => lookup.snapshot = accumulator

(* What was answered about the chain. *)
AnswerOK ==
  /\ answer.code \in {200, 404} => IsFinalHeight(answer.asked.height)
  /\ answer.code = 404 =>
       MissingIn(chain, UpTo(answer.asked.height), answer.asked.name)
  /\ answer.code = 200 =>
       FirstIn(chain, UpTo(answer.asked.height), answer.asked.name,
               answer.asked.value)

(* A valid name is not the reserved one. *)
LEMMA ValidIsNotTld == ~IsValidName(Tld)
  BY TldAssumption DEF IsValidName, HasNockSuffix

(* What the hull decodes for a name is its row. *)
LEMMA PeekIsRow ==
  ASSUME FollowerInv, NEW n
  PROVE  /\ AccumulatorPeek(n) # Absent => HasRow(accumulator, n)
         /\ HasRow(accumulator, n) => /\ AccumulatorPeek(n) # Absent
                                      /\ AccumulatorPeek(n) = accumulator[n]
<1>1. HasRow(accumulator, n) => accumulator[n] \in Entry
  BY DEF FollowerInv, KernelOK, K!TypeOK, K!IsAccumulator, HasRow, K!Entry, Entry
<1> QED
  BY <1>1, ApiAssumption DEF AccumulatorPeek

(* Steps of the follower, the node and the API keep the lookup in step     *)
(* with the kernel.                                                        *)
LEMMA LookupStep ==
  ASSUME FollowerInv, LookupOK, ApiNext
  PROVE  LookupOK'
<1>1. ASSUME lookup' = NoLookup PROVE LookupOK'
  BY <1>1 DEF LookupOK, NoLookup
<1>2. ASSUME UNCHANGED <<lookup, kernelVars>> PROVE LookupOK'
  BY <1>2 DEF LookupOK, kernelVars
<1>3. CASE \E n \in Name : RejectName(n)
  BY <1>2, <1>3 DEF RejectName, vars
<1>4. ASSUME NEW n \in Name, NEW export \in BOOLEAN, PeekEntry(n, export)
      PROVE  LookupOK'
  <2>1. CASE AccumulatorPeek(n) = Absent
    BY <1>1, <1>4, <2>1 DEF PeekEntry, Reply
  <2>2. CASE AccumulatorPeek(n) # Absent
    <3>1. /\ lookup' = [NoLookup EXCEPT
                          !.at = "scan", !.name = n, !.export = export,
                          !.height = lastProvedHeight,
                          !.value = AccumulatorPeek(n)]
          /\ IsValidName(n) /\ UNCHANGED <<accumulator, lastProvedHeight>>
      BY <1>4, <2>2 DEF PeekEntry, vars, kernelVars, NoLookup
    <3>2. HasRow(accumulator, n) /\ AccumulatorPeek(n) = accumulator[n]
      BY <2>2, PeekIsRow
    <3> QED
      BY <3>1, <3>2 DEF LookupOK, NoLookup, HasRow
  <2> QED
    BY <2>1, <2>2
<1>5. CASE PeekScan
  BY <1>5 DEF PeekScan, LookupOK, ScanStatePeek, vars, kernelVars, HasRow
<1>6. CASE PeekSnapshot
  BY <1>6 DEF PeekSnapshot, LookupOK, vars, kernelVars, HasRow
<1>7. CASE PeekProof \/ LookupFails
  BY <1>1, <1>7 DEF PeekProof, LookupFails, Reply
<1>8. CASE CopyTelemetry \/ AnswerStatus
  BY <1>2, <1>8 DEF CopyTelemetry, AnswerStatus, vars
<1>9. CASE (NodeMoves \/ Checkpoint) /\ UNCHANGED apiVars
  BY <1>2, <1>9 DEF NodeMoves, Checkpoint, apiVars
<1>10. CASE Tick /\ (FollowerUsesKernel => ~KernelLocked) /\ UNCHANGED apiVars
  <2>1. CASE lookup.at = "none"
    BY <1>10, <2>1 DEF LookupOK, apiVars
  <2>2. CASE lookup.at # "none"
    BY <1>2, <1>10, <2>2, TickBesideTheLock DEF KernelLocked, apiVars
  <2> QED
    BY <2>1, <2>2
<1>11. CASE Crash /\ lookup' = NoLookup
  BY <1>1, <1>11
<1> QED
  BY <1>3, <1>4, <1>5, <1>6, <1>7, <1>8, <1>9, <1>10, <1>11
     DEF ApiNext, Serve, Others

(* An answer that is not renewed outlives every step. *)
LEMMA AnswerStays ==
  ASSUME MaxReorg <= FinalityDepth, FollowerInv, [Next]_vars, AnswerOK,
         answer' = answer
  PROVE  AnswerOK'
<1>1. CASE answer.code \notin {200, 404}
  BY <1>1 DEF AnswerOK
<1>2. CASE answer.code \in {200, 404}
  <2>1. IsFinalHeight(answer.asked.height)
    BY <1>2 DEF AnswerOK
  <2>2. PICK h : h = answer.asked.height
    OBVIOUS
  <2>3. IsFinalHeight(h)'
    BY <2>1, <2>2, FinalHeightStays
  <2>4. answer.code = 404 => MissingIn(chain', UpTo(h), answer.asked.name)
    BY <2>1, <2>2, MissingStays DEF AnswerOK
  <2>5. answer.code = 200 =>
          FirstIn(chain', UpTo(h), answer.asked.name, answer.asked.value)
    BY <2>1, <2>2, FoundStays DEF AnswerOK
  <2>6. h = answer'.asked.height
    BY <2>2
  <2> QED
    BY <2>3, <2>4, <2>5, <2>6 DEF AnswerOK, IsFinalHeight, MissingIn, FirstIn,
                                  UpTo
<1> QED
  BY <1>1, <1>2

(* Every step keeps the answers true. *)
LEMMA AnswerStep ==
  ASSUME MaxReorg <= FinalityDepth, FollowerInv, ScannedIsFinal, LookupOK,
         AnswerOK, ApiNext
  PROVE  AnswerOK'
<1>1. [Next]_vars
  BY ApiStepIsFollowerStep
<1>2. ASSUME answer' = answer PROVE AnswerOK'
  BY <1>1, <1>2, AnswerStays
<1>3. ASSUME NEW code, NEW asked, Reply(code, asked), UNCHANGED vars,
             code = 404 => /\ asked.height = lastProvedHeight
                           /\ ~HasRow(accumulator, asked.name),
             code = 200 => /\ asked.height = lastProvedHeight
                           /\ HasRow(accumulator, asked.name)
                           /\ asked.name # Tld
                           /\ asked.value = accumulator[asked.name]
      PROVE  AnswerOK'
  <2>1. answer' = [code |-> code, asked |-> asked] /\ chain' = chain
    BY <1>3 DEF Reply, vars
  <2>2. IsFinalHeight(lastProvedHeight)
    BY CursorOnChain
  <2>3. code = 404 => MissingIn(chain, UpTo(asked.height), asked.name)
    BY <1>3, NoRowNoClaim
  <2>4. code = 200 =>
          FirstIn(chain, UpTo(asked.height), asked.name, asked.value)
    BY <1>3, RowIsFirstClaim DEF HasRow
  <2>5. code \in {200, 404} => IsFinalHeight(asked.height)
    BY <1>3, <2>2
  <2> QED
    BY <2>1, <2>3, <2>4, <2>5 DEF AnswerOK, IsFinalHeight, TipHeight, MissingIn,
                                  FirstIn, UpTo
<1>4. ASSUME NEW n \in Name, RejectName(n)
      PROVE  AnswerOK'
  <2>1. answer'.code = 400
    BY <1>4 DEF RejectName
  <2> QED
    BY <2>1 DEF AnswerOK
<1>5. ASSUME NEW n \in Name, NEW export \in BOOLEAN, PeekEntry(n, export)
      PROVE  AnswerOK'
  <2>1. CASE AccumulatorPeek(n) = Absent
    <3> DEFINE asked == [NoLookup EXCEPT !.at = "scan", !.name = n,
                                         !.export = export,
                                         !.height = lastProvedHeight]
    <3>1. asked.name = n /\ asked.height = lastProvedHeight
      BY DEF NoLookup
    <3>2. Reply(404, asked)
      BY <1>5, <2>1 DEF PeekEntry
    <3>3. ~HasRow(accumulator, n) /\ UNCHANGED vars
      BY <1>5, <2>1, PeekIsRow DEF PeekEntry
    <3> HIDE DEF asked
    <3> QED
      BY <1>3, <3>1, <3>2, <3>3
  <2>2. CASE AccumulatorPeek(n) # Absent
    BY <1>2, <1>5, <2>2 DEF PeekEntry
  <2> QED
    BY <2>1, <2>2
<1>6. CASE PeekProof
  <2>1. PICK asked : /\ Reply(200, asked)
                     /\ asked.name = lookup.name
                     /\ asked.height = lookup.height
                     /\ asked.value = lookup.value
    BY <1>6 DEF PeekProof, LookupOK
  <2>2. /\ UNCHANGED vars /\ lookup.name # Tld
        /\ HasRow(accumulator, lookup.name)
        /\ lookup.value = accumulator[lookup.name]
        /\ lookup.height = lastProvedHeight
    BY <1>6, ValidIsNotTld DEF PeekProof, LookupOK
  <2> QED
    BY <1>3, <2>1, <2>2
<1>7. CASE LookupFails
  BY <1>3, <1>7 DEF LookupFails
<1>8. CASE PeekScan \/ PeekSnapshot \/ CopyTelemetry \/ AnswerStatus
  BY <1>2, <1>8 DEF PeekScan, PeekSnapshot, CopyTelemetry, AnswerStatus
<1>9. CASE Others
  BY <1>2, <1>9 DEF Others, apiVars
<1> QED
  BY <1>4, <1>5, <1>6, <1>7, <1>8, <1>9 DEF ApiNext, Serve

(* An answer that is right in the invariant's terms is right. *)
LEMMA RightAnswer ==
  ASSUME FollowerInv, AnswerOK
  PROVE  AnswerIsChainTruth
<1> DEFINE h == answer.asked.height
           n == answer.asked.name
           claims == ClaimsOnChain(n, h)
<1>1. \A i \in DOMAIN chain :
        i \in Nat /\ chain[i].height = GenesisHeight + i - 1
  BY ChainFacts DEF FollowerInv
<1>2. GenesisHeight \in Nat
  BY AccumulatorAssumption
<1>3. answer.code \in {200, 404} => h \in Nat
  BY DEF AnswerOK, IsFinalHeight
<1>4. ASSUME answer.code \in {200, 404}
      PROVE  \A p : p \in claims <=>
               \E i \in DOMAIN chain : \E j \in ValidPositions(chain[i]) :
                 p = <<i, j>> /\ i <= UpTo(h) /\ chain[i].claims[j].name = n
  <2>1. \A i \in DOMAIN chain : chain[i].height <= h <=> i <= UpTo(h)
    BY <1>1, <1>2, <1>3, <1>4 DEF UpTo
  <2> QED
    BY <2>1 DEF ClaimsOnChain
<1>5. answer.code = 404 => claims = {}
  BY <1>4 DEF AnswerOK, MissingIn
<1>6. ASSUME answer.code = 200
      PROVE  \E p \in claims :
               /\ answer.asked.value = RowOf(chain[p[1]], chain[p[1]].claims[p[2]])
               /\ \A q \in claims : ~K!Before(q[1], q[2], p[1], p[2])
  <2>1. PICK i \in DOMAIN chain : \E j \in ValidPositions(chain[i]) :
          /\ i <= UpTo(h)
          /\ chain[i].claims[j].name = n
          /\ answer.asked.value = RowOf(chain[i], chain[i].claims[j])
          /\ \A k \in DOMAIN chain : \A l \in ValidPositions(chain[k]) :
               chain[k].claims[l].name = n => ~(k < i \/ (k = i /\ l < j))
    BY <1>6 DEF AnswerOK, FirstIn
  <2>2. PICK j \in ValidPositions(chain[i]) :
          /\ i <= UpTo(h)
          /\ chain[i].claims[j].name = n
          /\ answer.asked.value = RowOf(chain[i], chain[i].claims[j])
          /\ \A k \in DOMAIN chain : \A l \in ValidPositions(chain[k]) :
               chain[k].claims[l].name = n => ~(k < i \/ (k = i /\ l < j))
    BY <2>1
  <2>3. <<i, j>> \in claims
    BY <1>4, <1>6, <2>2
  <2>4. \A q \in claims : ~K!Before(q[1], q[2], i, j)
    BY <1>4, <1>6, <2>2 DEF K!Before
  <2> HIDE DEF claims
  <2>5. /\ answer.asked.value =
             RowOf(chain[<<i, j>>[1]], chain[<<i, j>>[1]].claims[<<i, j>>[2]])
        /\ \A q \in claims : ~K!Before(q[1], q[2], <<i, j>>[1], <<i, j>>[2])
    BY <2>2, <2>4
  <2> QED
    BY <2>3, <2>5
<1> QED
  BY <1>5, <1>6 DEF AnswerIsChainTruth

-----------------------------------------------------------------------------
(* What an exported answer lets a wallet verify.                           *)

(* An accumulator, for whoever tells it from what is absent.               *)
IsRegistry(acc) == \E names \in SUBSET Name : acc \in [names -> Entry]

IsProof(proof) ==
  \/ proof = Absent
  \/ \E c \in K!Computation : proof = [proves |-> c, traced |-> c]

(* The first m blocks of c are linked. *)
LinkedUpTo(c, m) ==
  \A i \in DOMAIN c : i > 1 /\ i <= m => c[i].parent = c[i - 1].digest

(* The exported fields belong together, and the cursor to the chain.       *)
ExportOK ==
  answer.code = 200 =>
    /\ IsProof(answer.asked.proof)
    /\ answer.asked.height >= GenesisHeight
    /\ BlockAt(answer.asked.height).digest = answer.asked.digest
    /\ LinkedUpTo(chain, UpTo(answer.asked.height))
    /\ answer.asked.value \in Entry
    /\ answer.asked.export =>
         /\ IsRegistry(answer.asked.snapshot)
         /\ HasRow(answer.asked.snapshot, answer.asked.name)
         /\ answer.asked.value = answer.asked.snapshot[answer.asked.name]
         /\ answer.asked.root = Root(answer.asked.snapshot)

(* The kernel's state yields such an export for every row but the reserved *)
(* one.                                                                    *)
LEMMA KernelExports ==
  ASSUME FollowerInv, ScannedIsFinal, NEW n \in DOMAIN accumulator \ {Tld}
  PROVE  /\ IsProof(RecursiveProofPeek)
         /\ IsRegistry(accumulator)
         /\ accumulator[n] \in Entry
         /\ lastProvedHeight >= GenesisHeight
         /\ BlockAt(lastProvedHeight).digest = lastProvedDigest
         /\ LinkedUpTo(chain, UpTo(lastProvedHeight))
<1>1. IsProof(RecursiveProofPeek)
  BY DEF FollowerInv, KernelOK, K!TypeOK, RecursiveProofPeek, IsProof
<1>2. IsRegistry(accumulator) /\ accumulator[n] \in Entry
  <2>1. /\ accumulator = [x \in DOMAIN accumulator |-> accumulator[x]]
        /\ DOMAIN accumulator \subseteq Name
        /\ \A x \in DOMAIN accumulator : accumulator[x] \in Entry
    BY DEF FollowerInv, KernelOK, K!TypeOK, K!IsAccumulator, K!Entry, Entry
  <2>2. accumulator \in [DOMAIN accumulator -> Entry]
    BY <2>1
  <2> QED
    BY <2>1, <2>2 DEF IsRegistry
<1>3. scanned # <<>>
  BY DEF FollowerInv, KernelOK, K!RegistryIsReplay, K!RowsAreFirstClaims
<1>4. \A i \in DOMAIN scanned : i > 1 => scanned[i].parent = scanned[i - 1].digest
  BY DEF FollowerInv, KernelOK, K!ScannedIsLinkedRun
<1>5. LinkedUpTo(chain, UpTo(lastProvedHeight))
  <2> SUFFICES ASSUME NEW i \in DOMAIN chain, i > 1, i <= UpTo(lastProvedHeight)
               PROVE  chain[i].parent = chain[i - 1].digest
    BY DEF LinkedUpTo
  <2>1. UpTo(lastProvedHeight) \in Int /\ DOMAIN chain = 1 .. Len(chain)
        /\ Len(chain) \in Nat
    BY ChainFacts, AccumulatorAssumption DEF FollowerInv, KernelOK, K!TypeOK, UpTo
  <2>2. i - 1 \in DOMAIN chain /\ i - 1 <= UpTo(lastProvedHeight)
    BY <2>1
  <2>3. /\ i \in DOMAIN scanned /\ i - 1 \in DOMAIN scanned
        /\ chain[i] = scanned[i] /\ chain[i - 1] = scanned[i - 1]
    BY <2>2, CursorOnChain
  <2> QED
    BY <1>4, <2>3
<1> QED
  BY <1>1, <1>2, <1>3, <1>5, CursorOnChain

(* An exported answer that is not renewed stays verifiable. *)
LEMMA ExportStays ==
  ASSUME MaxReorg <= FinalityDepth, FollowerInv, [Next]_vars, AnswerOK,
         ExportOK, answer' = answer
  PROVE  ExportOK'
<1>1. CASE answer.code # 200
  BY <1>1 DEF ExportOK
<1>2. CASE answer.code = 200
  <2>1. PICK h : h = answer.asked.height
    OBVIOUS
  <2>2. IsFinalHeight(h) /\ h >= GenesisHeight /\ GenesisHeight \in Nat \ {0}
    BY <1>2, <2>1, AccumulatorAssumption DEF AnswerOK, ExportOK
  <2>3. /\ \A i \in DOMAIN chain :
             i <= UpTo(h) => i \in DOMAIN chain' /\ chain'[i] = chain[i]
        /\ \A i \in DOMAIN chain' :
             i <= UpTo(h) => i \in DOMAIN chain /\ chain'[i] = chain[i]
    BY <2>2, FinalHeightStays
  <2>4. /\ UpTo(h) \in Nat \ {0} /\ Len(chain) \in Nat
        /\ DOMAIN chain = 1 .. Len(chain) /\ UpTo(h) <= Len(chain)
    BY <2>2, ChainFacts, FollowerAssumption
       DEF FollowerInv, IsFinalHeight, UpTo, TipHeight
  <2>5. chain'[UpTo(h)] = chain[UpTo(h)]
    BY <2>3, <2>4
  <2>6. LinkedUpTo(chain', UpTo(h))
    <3> SUFFICES ASSUME NEW i \in DOMAIN chain', i > 1, i <= UpTo(h)
                 PROVE  chain'[i].parent = chain'[i - 1].digest
      BY DEF LinkedUpTo
    <3>1. i \in DOMAIN chain /\ chain'[i] = chain[i]
      BY <2>3
    <3>2. i - 1 \in DOMAIN chain /\ i - 1 <= UpTo(h)
      BY <2>4, <3>1
    <3>3. chain'[i - 1] = chain[i - 1]
      BY <2>3, <3>2
    <3>4. chain[i].parent = chain[i - 1].digest
      BY <1>2, <2>1, <3>1 DEF ExportOK, LinkedUpTo
    <3> QED
      BY <3>1, <3>3, <3>4
  <2>7. chain[UpTo(h)].digest = answer.asked.digest
    BY <1>2, <2>1 DEF ExportOK, BlockAt, UpTo
  <2>8. h = answer'.asked.height
    BY <2>1
  <2> QED
    BY <1>2, <2>5, <2>6, <2>7, <2>8
       DEF ExportOK, BlockAt, UpTo, LinkedUpTo, IsProof, IsRegistry
<1> QED
  BY <1>1, <1>2

(* Every step keeps the exports verifiable. *)
LEMMA ExportStep ==
  ASSUME MaxReorg <= FinalityDepth, FollowerInv, ScannedIsFinal, LookupOK,
         AnswerOK, ExportOK, ApiNext
  PROVE  ExportOK'
<1>1. [Next]_vars
  BY ApiStepIsFollowerStep
<1>2. ASSUME answer' = answer PROVE ExportOK'
  BY <1>1, <1>2, ExportStays
<1>3. ASSUME answer'.code # 200 PROVE ExportOK'
  BY <1>3 DEF ExportOK
<1>4. ASSUME NEW n \in Name, RejectName(n)
      PROVE  ExportOK'
  BY <1>3, <1>4 DEF RejectName
<1>5. ASSUME NEW n \in Name, NEW export \in BOOLEAN, PeekEntry(n, export)
      PROVE  ExportOK'
  BY <1>2, <1>3, <1>5 DEF PeekEntry, Reply
<1>6. CASE PeekProof
  <2> DEFINE asked == [lookup EXCEPT !.proof = RecursiveProofPeek]
  <2>1. /\ asked.name = lookup.name /\ asked.height = lookup.height
        /\ asked.value = lookup.value /\ asked.digest = lookup.digest
        /\ asked.root = lookup.root /\ asked.snapshot = lookup.snapshot
        /\ asked.export = lookup.export /\ asked.proof = RecursiveProofPeek
    BY DEF LookupOK
  <2>2. answer' = [code |-> 200, asked |-> asked] /\ chain' = chain
    BY <1>6 DEF PeekProof, Reply, vars
  <2> HIDE DEF asked
  <2>3. /\ lookup.name # Tld
        /\ HasRow(accumulator, lookup.name)
        /\ lookup.value = accumulator[lookup.name]
        /\ lookup.height = lastProvedHeight
        /\ lookup.digest = lastProvedDigest
        /\ lookup.root = Root(accumulator)
        /\ lookup.export => lookup.snapshot = accumulator
    BY <1>6, ValidIsNotTld DEF PeekProof, LookupOK
  <2>4. /\ IsProof(RecursiveProofPeek) /\ IsRegistry(accumulator)
        /\ accumulator[lookup.name] \in Entry
        /\ lastProvedHeight >= GenesisHeight
        /\ BlockAt(lastProvedHeight).digest = lastProvedDigest
        /\ LinkedUpTo(chain, UpTo(lastProvedHeight))
    BY <2>3, KernelExports DEF HasRow
  <2>5. /\ IsProof(asked.proof) /\ asked.height >= GenesisHeight
        /\ chain'[UpTo(asked.height)].digest = asked.digest
        /\ LinkedUpTo(chain', UpTo(asked.height))
        /\ asked.value \in Entry
        /\ asked.export =>
             /\ IsRegistry(asked.snapshot)
             /\ HasRow(asked.snapshot, asked.name)
             /\ asked.value = asked.snapshot[asked.name]
             /\ asked.root = Root(asked.snapshot)
    BY <2>1, <2>2, <2>3, <2>4 DEF BlockAt, UpTo
  <2>6. answer'.asked = asked
    BY <2>2
  <2> QED
    BY <2>5, <2>6
       DEF ExportOK, BlockAt, UpTo, LinkedUpTo, IsProof, IsRegistry, HasRow, Root
<1>7. CASE LookupFails
  BY <1>3, <1>7 DEF LookupFails, Reply
<1>8. CASE PeekScan \/ PeekSnapshot \/ CopyTelemetry \/ AnswerStatus
  BY <1>2, <1>8 DEF PeekScan, PeekSnapshot, CopyTelemetry, AnswerStatus
<1>9. CASE Others
  BY <1>2, <1>9 DEF Others, apiVars
<1> QED
  BY <1>4, <1>5, <1>6, <1>7, <1>8, <1>9 DEF ApiNext, Serve

(* The wallet's first two pokes accept what the invariant describes, if    *)
(* its kernel boots.                                                       *)
LEMMA PokesAccept ==
  ASSUME NEW b, NEW cli,
         IsProof(b.proof), b.value \in Entry, IsRegistry(b.snapshot),
         HasRow(b.snapshot, b.name), b.value = b.snapshot[b.name],
         b.value.name = b.name, b.root = Root(b.snapshot)
  PROVE  /\ StarkSectionFails(cli, b) <=> b.proof # Absent /\ ~cli.kernelBoots
         /\ b.value # Absent /\ b.snapshot # Absent
         /\ VerifyAccumulatorOffline(cli, b)
              = IF cli.kernelBoots THEN "ok" ELSE "error"
<1>1. b.value # Absent /\ b.snapshot # Absent /\ b.snapshot # Garbled
  BY ApiAssumption DEF IsRegistry
<1>2. [b.value EXCEPT !.name = b.name] = b.value
  BY DEF Entry
<1>3. VerifyAccumulatorSnapshot(b.root, b.snapshot, b.name, b.value) = "ok"
  BY <1>1, <1>2 DEF VerifyAccumulatorSnapshot
<1>4. b.proof # Absent =>
        VerifyStarkExplicit(b.proof) = "ok" /\ b.proof.traced # Absent
  <2>1. ASSUME NEW c \in K!Computation, b.proof = [proves |-> c, traced |-> c]
        PROVE  VerifyStarkExplicit(b.proof) = "ok" /\ b.proof.traced # Absent
    <3>1. c # Garbled /\ c # Absent
      BY ApiAssumption
    <3> QED
      BY <2>1, <3>1 DEF VerifyStarkExplicit
  <2> QED
    BY <2>1 DEF IsProof
<1> QED
  BY <1>1, <1>3, <1>4
     DEF VerifyAccumulatorOffline, StarkSectionFails, VerifyStarkOffline

(* The headers from the cursor down to a block of the chain pass the walk. *)
LEMMA HeadersAreGood ==
  ASSUME FollowerInv, AnswerOK, ExportOK, answer.code = 200,
         NEW c \in Checkpoints
  PROVE  HeaderChainOk(answer.asked.height, answer.asked.digest, c,
                       HeadersDownTo(c))
<1>0. PICK h : h = answer.asked.height
  OBVIOUS
<1>1. /\ h \in Nat /\ GenesisHeight \in Nat \ {0} /\ h >= GenesisHeight
      /\ Len(chain) \in Nat /\ DOMAIN chain = 1 .. Len(chain)
      /\ \A i \in DOMAIN chain : chain[i].height = GenesisHeight + i - 1
      /\ UpTo(h) <= Len(chain)
  BY <1>0, ChainFacts, FollowerAssumption, AccumulatorAssumption
     DEF AnswerOK, ExportOK, IsFinalHeight, FollowerInv, TipHeight, UpTo
<1>2. ASSUME NEW x \in Nat, x >= GenesisHeight, x <= h
      PROVE  /\ UpTo(x) \in DOMAIN chain
             /\ BlockAt(x) = chain[UpTo(x)]
             /\ BlockAt(x).height = x
             /\ x > GenesisHeight => BlockAt(x).parent = BlockAt(x - 1).digest
  <2>1. /\ UpTo(x) \in DOMAIN chain /\ GenesisHeight + UpTo(x) - 1 = x
        /\ UpTo(x) <= UpTo(h) /\ UpTo(x - 1) = UpTo(x) - 1
        /\ x > GenesisHeight => UpTo(x) > 1
    BY <1>1, <1>2 DEF UpTo
  <2>2. /\ BlockAt(x) = chain[UpTo(x)] /\ BlockAt(x - 1) = chain[UpTo(x - 1)]
    BY DEF BlockAt, UpTo
  <2>3. chain[UpTo(x)].height = GenesisHeight + UpTo(x) - 1
    BY <1>1, <2>1, Zenon
  <2>4. LinkedUpTo(chain, UpTo(h))
    BY <1>0 DEF ExportOK
  <2>5. UpTo(x) > 1 => chain[UpTo(x)].parent = chain[UpTo(x) - 1].digest
    BY <2>1, <2>4 DEF LinkedUpTo
  <2> QED
    BY <2>1, <2>2, <2>3, <2>5
<1>3. PICK i \in DOMAIN chain :
        /\ c = [height |-> chain[i].height, digest |-> chain[i].digest]
        /\ chain[i].height <= h
  BY <1>0 DEF Checkpoints
<1>4. PICK g \in Nat : g = c.height /\ g >= GenesisHeight /\ g <= h /\ i = UpTo(g)
  <2>1. c.height = GenesisHeight + i - 1 /\ i \in Nat /\ i >= 1 /\ c.height <= h
    BY <1>1, <1>3
  <2> QED
    BY <1>1, <2>1 DEF UpTo
<1>5. BlockAt(g).digest = c.digest
  BY <1>2, <1>3, <1>4
<1>6. BlockAt(h).digest = answer.asked.digest
  BY <1>0 DEF ExportOK
<1>7. CASE g = h
  <2>1. HeadersDownTo(c) = <<>>
    BY <1>0, <1>4, <1>7 DEF HeadersDownTo
  <2> QED
    BY <1>0, <1>4, <1>5, <1>6, <1>7, <2>1 DEF HeaderChainOk
<1>8. CASE g # h
  <2> DEFINE hs == [k \in 1 .. h - g + 1 |-> HeaderOf(BlockAt(h - k + 1))]
  <2>1. HeadersDownTo(c) = hs
    BY <1>0, <1>4, <1>8 DEF HeadersDownTo
  <2>2. h - g + 1 \in Nat /\ h - g + 1 >= 2 /\ h > g
    BY <1>1, <1>4, <1>8
  <2>3. Len(hs) = h - g + 1 /\ hs # <<>>
    BY <2>2
  <2>4. ASSUME NEW k \in 1 .. h - g + 1, NEW x, x = h - k + 1
        PROVE  /\ x \in Nat /\ x >= g /\ x <= h /\ x >= GenesisHeight
               /\ hs[k].height = x
               /\ hs[k].digest = BlockAt(x).digest
               /\ hs[k].parent = BlockAt(x).parent
    <3>1. x \in Nat /\ x >= g /\ x <= h /\ x >= GenesisHeight
      BY <1>1, <1>4, <2>2, <2>4
    <3>2. hs[k] = HeaderOf(BlockAt(x))
      BY <2>4
    <3>3. BlockAt(x).height = x
      BY <1>2, <3>1
    <3> HIDE DEF hs
    <3> QED
      BY <3>1, <3>2, <3>3 DEF HeaderOf
  <2> HIDE DEF hs
  <2>5. hs[1].digest = answer.asked.digest /\ hs[1].height = h
    <3>1. 1 \in 1 .. h - g + 1 /\ h = h - 1 + 1
      BY <1>1, <1>4, <2>2
    <3>2. hs[1].digest = BlockAt(h).digest /\ hs[1].height = h
      BY <2>4, <3>1
    <3> QED
      BY <1>6, <3>2
  <2>6. ASSUME NEW k \in 1 .. Len(hs) - 1
        PROVE  hs[k].parent = hs[k + 1].digest /\ hs[k + 1].height + 1 = hs[k].height
    <3>1. PICK x : x = h - k + 1
      OBVIOUS
    <3>2. /\ k \in 1 .. h - g + 1 /\ k + 1 \in 1 .. h - g + 1
          /\ x \in Nat /\ x - 1 = h - (k + 1) + 1
      BY <1>1, <1>4, <2>2, <2>3, <3>1
    <3>3. /\ hs[k].parent = BlockAt(x).parent /\ hs[k].height = x
          /\ x >= GenesisHeight /\ x <= h
      BY <2>4, <3>1, <3>2
    <3>4. /\ hs[k + 1].digest = BlockAt(x - 1).digest
          /\ hs[k + 1].height = x - 1
          /\ x - 1 >= GenesisHeight
      BY <2>4, <3>2
    <3>5. x > GenesisHeight
      BY <1>1, <3>2, <3>4
    <3>6. BlockAt(x).parent = BlockAt(x - 1).digest
      BY <1>2, <3>2, <3>3, <3>5
    <3>7. x - 1 + 1 = x
      BY <3>2
    <3> QED
      BY <3>3, <3>4, <3>6, <3>7
  <2>7. hs[Len(hs)].height = g /\ hs[Len(hs)].digest = c.digest
    <3>1. Len(hs) \in 1 .. h - g + 1 /\ g = h - Len(hs) + 1
      BY <1>1, <1>4, <2>2, <2>3
    <3>2. hs[Len(hs)].height = g /\ hs[Len(hs)].digest = BlockAt(g).digest
      BY <2>4, <3>1
    <3> QED
      BY <1>5, <3>2
  <2> QED
    BY <1>0, <1>4, <2>1, <2>2, <2>3, <2>5, <2>6, <2>7 DEF HeaderChainOk
<1> QED
  BY <1>7, <1>8

(* An answer the invariant describes passes the wallet's check.            *)
LEMMA RightExport ==
  ASSUME FollowerInv, AnswerOK, ExportOK
  PROVE  ExportVerifies
<1> SUFFICES ASSUME answer.code = 200, answer.asked.export
             PROVE  /\ Checkpoints # {}
                    /\ \A c \in Checkpoints, relaxed, boots \in BOOLEAN :
                         LightVerifyExit([checkpoint |-> c,
                                          allowEmptyRecursive |-> relaxed,
                                          allowMissingSnapshot |-> FALSE,
                                          kernelBoots |-> boots], Bundle(c))
                           = IF answer.asked.proof = Absent /\ ~relaxed THEN 8
                             ELSE IF boots THEN 0 ELSE 7
  BY DEF ExportVerifies
<1>1. Checkpoints # {}
  <2>1. 1 \in DOMAIN chain /\ chain[1].height <= answer.asked.height
    <3>1. /\ Len(chain) \in Nat /\ DOMAIN chain = 1 .. Len(chain)
          /\ \A i \in DOMAIN chain : chain[i].height = GenesisHeight + i - 1
          /\ FinalityDepth \in Nat /\ GenesisHeight \in Nat \ {0}
      BY ChainFacts, FollowerAssumption, AccumulatorAssumption DEF FollowerInv
    <3>2. /\ answer.asked.height \in Nat /\ answer.asked.height >= GenesisHeight
          /\ answer.asked.height + FinalityDepth <= TipHeight
      BY DEF AnswerOK, ExportOK, IsFinalHeight
    <3>3. 1 \in DOMAIN chain
      BY <3>1, <3>2 DEF TipHeight
    <3> QED
      BY <3>1, <3>2, <3>3
  <2>2. 1 \in {i \in DOMAIN chain : chain[i].height <= answer.asked.height}
    BY <2>1
  <2>3. [height |-> chain[1].height, digest |-> chain[1].digest] \in Checkpoints
    BY <2>2 DEF Checkpoints
  <2> QED
    BY <2>3
<1>2. ASSUME NEW c \in Checkpoints, NEW relaxed \in BOOLEAN, NEW boots \in BOOLEAN
      PROVE  LightVerifyExit([checkpoint |-> c, allowEmptyRecursive |-> relaxed,
                              allowMissingSnapshot |-> FALSE,
                              kernelBoots |-> boots], Bundle(c))
               = IF answer.asked.proof = Absent /\ ~relaxed THEN 8
                 ELSE IF boots THEN 0 ELSE 7
  <2> DEFINE cli == [checkpoint |-> c, allowEmptyRecursive |-> relaxed,
                     allowMissingSnapshot |-> FALSE, kernelBoots |-> boots]
             b == Bundle(c)
  <2>1. c # Absent
    <3>1. c \in [height : Nat, digest : Digest]
      <4>1. PICK i \in DOMAIN chain :
              c = [height |-> chain[i].height, digest |-> chain[i].digest]
        BY DEF Checkpoints
      <4>2. chain[i] \in Block
        BY ChainFacts, ElementOfSeq DEF FollowerInv
      <4>3. chain[i].height \in Nat /\ chain[i].digest \in Digest
        BY <4>2, FollowerAssumption DEF K!ScanPayload
      <4> QED
        BY <4>1, <4>3
    <3> QED
      BY <3>1, ApiAssumption
  <2>2. /\ b.name = answer.asked.name /\ b.value = answer.asked.value
        /\ b.height = answer.asked.height /\ b.digest = answer.asked.digest
        /\ b.root = answer.asked.root /\ b.snapshot = answer.asked.snapshot
        /\ b.proof = answer.asked.proof /\ b.zInProof = FALSE
        /\ b.headers = HeadersDownTo(c)
    BY DEF Bundle
  <2>3. /\ cli.checkpoint = c /\ cli.allowEmptyRecursive = relaxed
        /\ cli.allowMissingSnapshot = FALSE /\ cli.kernelBoots = boots
    OBVIOUS
  <2> HIDE DEF cli, b
  <2>4. b.value.name = b.name
    <3>1. \E i, j : /\ chain[i].claims[j].name = answer.asked.name
                    /\ answer.asked.value = RowOf(chain[i], chain[i].claims[j])
      BY DEF AnswerOK, FirstIn
    <3>2. answer.asked.value.name = answer.asked.name
      BY <3>1 DEF RowOf
    <3> QED
      BY <2>2, <3>2
  <2>5. /\ StarkSectionFails(cli, b) <=> b.proof # Absent /\ ~boots
        /\ b.value # Absent /\ b.snapshot # Absent
        /\ VerifyAccumulatorOffline(cli, b) = IF boots THEN "ok" ELSE "error"
    BY <2>2, <2>3, <2>4, PokesAccept DEF ExportOK
  <2>6. HeaderChainOk(b.height, b.digest, cli.checkpoint, b.headers)
    BY <2>2, <2>3, HeadersAreGood
  <2>7. LightVerifyExit(cli, b)
          = IF b.proof = Absent /\ ~relaxed THEN 8 ELSE IF boots THEN 0 ELSE 7
    BY <2>1, <2>2, <2>3, <2>5, <2>6 DEF LightVerifyExit, Shown, Snapshotted
  <2> QED
    BY <2>2, <2>7 DEF cli, b
<1> QED
  BY <1>1, <1>2

-----------------------------------------------------------------------------
(* Status.                                                                 *)

(* The node's tip does not go back. *)
LEMMA TipGrows ==
  ASSUME FollowerInv, [Next]_vars
  PROVE  TipHeight \in Nat /\ TipHeight' \in Nat /\ TipHeight' >= TipHeight
<1>1. /\ Len(chain) \in Nat /\ TipHeight \in Nat
  BY ChainFacts DEF FollowerInv
<1>2. chain' \in Seq(Block)
  BY FollowerStep, FollowerAssumption DEF FollowerInv, FollowerTypeOK
<1>3. Len(chain') \in Nat
  BY <1>2, LenProperties
<1>4. Len(chain') >= Len(chain)
  BY <1>1, ChainMoves DEF NodeMoves
<1> QED
  BY <1>1, <1>3, <1>4, AccumulatorAssumption DEF TipHeight

(* A poke does not move the cursor back. *)
LEMMA PokesAdvance ==
  ASSUME lastProvedHeight \in Nat, [K!Next]_(K!kernelVars)
  PROVE  lastProvedHeight' \in Nat /\ lastProvedHeight' >= lastProvedHeight
<1>1. CASE UNCHANGED K!kernelVars
  BY <1>1 DEF K!kernelVars
<1>2. ASSUME NEW b \in Block, K!ScanBlock(b)
      PROVE  lastProvedHeight' \in Nat /\ lastProvedHeight' >= lastProvedHeight
  <2>1. CASE K!ScanAccept(b)
    BY <2>1, AccumulatorAssumption DEF K!ScanAccept, K!WantHeight
  <2>2. CASE K!ScanParentMismatch(b) \/ K!ScanHeightMismatch(b) \/ K!ScanTrap(b)
    BY <2>2 DEF K!ScanParentMismatch, K!ScanHeightMismatch, K!ScanTrap, K!cursor
  <2> QED
    BY <1>2, <2>1, <2>2 DEF K!ScanBlock
<1>3. CASE K!ProveRecursiveGenesis
  BY <1>3 DEF K!ProveRecursiveGenesis, K!cursor
<1>4. ASSUME NEW prev, NEW b, K!ProveRecursiveTransition(prev, b)
      PROVE  lastProvedHeight' \in Nat /\ lastProvedHeight' >= lastProvedHeight
  BY <1>4 DEF K!ProveRecursiveTransition, K!cursor
<1>5. CASE K!ProveOther
  BY <1>5 DEF K!ProveOther, K!cursor
<1> QED
  BY <1>1, <1>2, <1>3, <1>4, <1>5 DEF K!Next

(* Nor does any step but a restart. *)
LEMMA CursorAdvances ==
  ASSUME FollowerInv, [Next]_vars, crashes' = crashes
  PROVE  lastProvedHeight' \in Nat /\ lastProvedHeight' >= lastProvedHeight
<1>1. lastProvedHeight \in Nat
  BY DEF FollowerInv, KernelOK, K!TypeOK
<1>2. ~Crash
  <2>1. crashes \in Nat
    BY FollowerAssumption DEF FollowerInv, FollowerTypeOK
  <2> QED
    BY <2>1 DEF Crash
<1>3. [K!Next]_(K!kernelVars) \/ UNCHANGED K!kernelVars
  BY <1>2, DrivesKernel DEF FollowerInv
<1> QED
  BY <1>1, <1>3, PokesAdvance

(* Only a restart counts as one. *)
LEMMA NoCrashCounted ==
  ASSUME NodeMoves \/ Checkpoint \/ Tick
  PROVE  crashes' = crashes
<1> USE DEF environment, boundVars
<1>1. CASE NodeMoves \/ Checkpoint
  BY <1>1 DEF NodeMoves, Checkpoint
<1>2. CASE Tick
  BY <1>2 DEF Tick, PeekScanState, ProveGenesis, FetchTip, FetchBlock,
              ReceiveBlock, ValidateBatch, PokeAccepted, PokeRejected,
              ProveTransition, SkipTransition, TransitionDone, RecordAdvance,
              RecordTickError
<1> QED
  BY <1>1, <1>2

(* The copied telemetry is behind node and kernel as they are now, ... *)
CopyOK ==
  statusCopy # Absent =>
    /\ statusCopy.chainTip # None =>
         statusCopy.chainTip \in Nat /\ statusCopy.chainTip <= TipHeight
    /\ statusCopy.advanceTip # None =>
         /\ statusCopy.advanceTip \in Nat
         /\ statusCopy.advanceTip <= lastProvedHeight

(* ... and an answer, from a tip the node had by then. *)
StatusOK ==
  statusAnswer # Absent /\ statusAnswer.scan # Absent =>
    /\ statusAnswer.scan \in Nat
    /\ statusAnswer.advance # None => statusAnswer.advance <= statusAnswer.scan
    /\ \/ statusAnswer.lag = Absent /\ statusAnswer.caughtUp = Absent
       \/ \E tip \in Nat :
            /\ tip <= TipHeight
            /\ statusAnswer.lag = Lag(tip, statusAnswer.scan)
            /\ statusAnswer.caughtUp = CaughtUp(statusAnswer.lag)

(* Every step keeps the copy behind. *)
LEMMA CopyStep ==
  ASSUME FollowerInv, CopyOK, ApiNext
  PROVE  CopyOK'
<1>1. [Next]_vars
  BY ApiStepIsFollowerStep
<1>2. TipHeight \in Nat /\ TipHeight' \in Nat /\ TipHeight' >= TipHeight
  BY <1>1, TipGrows
<1>3. ASSUME statusCopy' = Absent PROVE CopyOK'
  BY <1>3 DEF CopyOK
<1>4. ASSUME statusCopy' = statusCopy, crashes' = crashes PROVE CopyOK'
  <2>1. /\ lastProvedHeight \in Nat /\ lastProvedHeight' \in Nat
        /\ lastProvedHeight' >= lastProvedHeight
    BY <1>1, <1>4, CursorAdvances DEF FollowerInv, KernelOK, K!TypeOK
  <2>2. \A x \in Nat : /\ x <= TipHeight => x <= TipHeight'
                       /\ x <= lastProvedHeight => x <= lastProvedHeight'
    BY <1>2, <2>1
  <2> QED
    BY <1>4, <2>2 DEF CopyOK
<1>5. CASE CopyTelemetry
  <2>1. statusCopy' = telemetry /\ UNCHANGED <<chain, lastProvedHeight>>
    BY <1>5 DEF CopyTelemetry, vars, kernelVars
  <2>2. /\ telemetry.chainTip # None =>
             telemetry.chainTip \in Nat /\ telemetry.chainTip <= TipHeight
        /\ telemetry.advanceTip # None =>
             /\ telemetry.advanceTip \in Nat
             /\ telemetry.advanceTip <= lastProvedHeight
    BY DEF FollowerInv, FollowerTypeOK, TelemetryIsTruthful
  <2>3. TipHeight' = TipHeight
    BY <2>1 DEF TipHeight
  <2> QED
    BY <2>1, <2>2, <2>3 DEF CopyOK
<1>6. CASE AnswerStatus
  BY <1>3, <1>6 DEF AnswerStatus
<1>7. ASSUME Serve, ~CopyTelemetry, ~AnswerStatus
      PROVE  statusCopy' = statusCopy /\ crashes' = crashes
  BY <1>7 DEF Serve, RejectName, PeekEntry, PeekScan, PeekSnapshot, PeekProof,
              LookupFails, apiRest, vars, boundVars
<1>8. CASE Crash /\ statusCopy' = Absent
  BY <1>3, <1>8
<1>9. CASE Others /\ ~(Crash /\ statusCopy' = Absent)
  <2>1. statusCopy' = statusCopy /\ (NodeMoves \/ Checkpoint \/ Tick)
    BY <1>9 DEF Others, apiVars
  <2> QED
    BY <2>1, <1>4, NoCrashCounted
<1> QED
  BY <1>3, <1>4, <1>5, <1>6, <1>7, <1>8, <1>9 DEF ApiNext

(* Every step keeps the status answers justified. *)
LEMMA StatusStep ==
  ASSUME FollowerInv, CopyOK, StatusOK, ApiNext
  PROVE  StatusOK'
<1>1. [Next]_vars
  BY ApiStepIsFollowerStep
<1>2. TipHeight \in Nat /\ TipHeight' \in Nat /\ TipHeight' >= TipHeight
  BY <1>1, TipGrows
<1>3. ASSUME statusAnswer' = statusAnswer PROVE StatusOK'
  <2>1. \A tip \in Nat : tip <= TipHeight => tip <= TipHeight'
    BY <1>2
  <2> QED
    BY <1>3, <2>1 DEF StatusOK, Lag, CaughtUp
<1>4. CASE AnswerStatus
  <2>1. PICK scan \in {lastProvedHeight, Absent} :
          LET lag == IF statusCopy.chainTip = None \/ scan = Absent
                     THEN Absent ELSE Lag(statusCopy.chainTip, scan)
          IN  statusAnswer' =
                [tip      |-> statusCopy.chainTip,
                 advance  |-> statusCopy.advanceTip,
                 scan     |-> scan,
                 lag      |-> lag,
                 caughtUp |-> IF lag = Absent THEN Absent ELSE CaughtUp(lag)]
    BY <1>4 DEF AnswerStatus, ScanStatePeek
  <2> DEFINE lag == IF statusCopy.chainTip = None \/ scan = Absent
                    THEN Absent ELSE Lag(statusCopy.chainTip, scan)
  <2>2. /\ statusAnswer'.scan = scan /\ statusAnswer'.lag = lag
        /\ statusAnswer'.advance = statusCopy.advanceTip
        /\ lag = Absent => statusAnswer'.caughtUp = Absent
        /\ lag # Absent => statusAnswer'.caughtUp = CaughtUp(lag)
    BY <2>1
  <2>3. CASE scan = Absent
    BY <2>2, <2>3 DEF StatusOK
  <2>4. CASE scan # Absent
    <3>1. scan = lastProvedHeight /\ scan \in Nat
      BY <2>1, <2>4 DEF FollowerInv, KernelOK, K!TypeOK
    <3>2. statusAnswer'.advance # None => statusAnswer'.advance <= statusAnswer'.scan
      BY <1>4, <2>2, <3>1 DEF AnswerStatus, CopyOK
    <3>3. CASE statusCopy.chainTip = None
      BY <2>1, <2>2, <3>1, <3>2, <3>3 DEF StatusOK
    <3>4. CASE statusCopy.chainTip # None
      <4>1. PICK tip \in Nat : tip = statusCopy.chainTip /\ tip <= TipHeight
        BY <1>4, <3>4 DEF AnswerStatus, CopyOK
      <4>2. lag = Lag(tip, scan) /\ Lag(tip, scan) \in Nat
        BY <2>1, <2>4, <3>1, <3>4, <4>1 DEF Lag
      <4>3. lag # Absent
        BY <4>2, ApiAssumption
      <4>4. tip <= TipHeight'
        BY <1>2, <4>1
      <4>5. /\ tip <= TipHeight'
            /\ statusAnswer'.lag = Lag(tip, statusAnswer'.scan)
            /\ statusAnswer'.caughtUp = CaughtUp(statusAnswer'.lag)
        BY <2>2, <4>2, <4>3, <4>4
      <4> QED
        BY <2>2, <3>1, <3>2, <4>5 DEF StatusOK, Lag, CaughtUp
    <3> QED
      BY <3>3, <3>4
  <2> QED
    BY <2>3, <2>4
<1>5. ASSUME Serve, ~AnswerStatus
      PROVE  statusAnswer' = statusAnswer
  BY <1>5 DEF Serve, RejectName, PeekEntry, PeekScan, PeekSnapshot, PeekProof,
              LookupFails, CopyTelemetry, apiRest
<1>6. CASE Others
  BY <1>3, <1>6 DEF Others, apiVars
<1> QED
  BY <1>3, <1>4, <1>5, <1>6 DEF ApiNext

(* A status answer the invariant describes is coherent. *)
LEMMA RightStatus ==
  ASSUME FollowerInv, StatusOK
  PROVE  StatusIsCoherent
<1> SUFFICES ASSUME statusAnswer # Absent, statusAnswer.scan # Absent
             PROVE  /\ statusAnswer.advance # None =>
                         statusAnswer.advance <= statusAnswer.scan
                    /\ statusAnswer.lag # Absent =>
                         statusAnswer.lag <= Lag(TipHeight, statusAnswer.scan)
                    /\ statusAnswer.caughtUp = FALSE =>
                         statusAnswer.scan < FinalizedHeight
  BY DEF StatusIsCoherent
<1>1. /\ TipHeight \in Nat /\ FinalityDepth \in Nat
  BY ChainFacts, FollowerAssumption DEF FollowerInv
<1>2. PICK scan \in Nat : scan = statusAnswer.scan
  BY DEF StatusOK
<1>3. statusAnswer.advance # None => statusAnswer.advance <= statusAnswer.scan
  BY DEF StatusOK
<1>4. CASE statusAnswer.lag = Absent /\ statusAnswer.caughtUp = Absent
  BY <1>3, <1>4, ApiAssumption
<1>5. ASSUME NEW tip \in Nat, tip <= TipHeight,
             statusAnswer.lag = Lag(tip, scan),
             statusAnswer.caughtUp = CaughtUp(Lag(tip, scan))
      PROVE  /\ statusAnswer.lag <= Lag(TipHeight, scan)
             /\ statusAnswer.caughtUp = FALSE => scan < FinalizedHeight
  <2>1. Lag(tip, scan) \in Nat /\ Lag(tip, scan) <= Lag(TipHeight, scan)
    BY <1>1, <1>5 DEF Lag
  <2>2. ~CaughtUp(Lag(tip, scan)) => scan < FinalizedHeight
    BY <1>1, <1>5, <2>1 DEF Lag, CaughtUp, FinalizedHeight
  <2>3. statusAnswer.caughtUp = FALSE => ~CaughtUp(Lag(tip, scan))
    BY <1>5, Zenon
  <2> QED
    BY <1>5, <2>1, <2>2, <2>3
<1> QED
  BY <1>2, <1>3, <1>4, <1>5 DEF StatusOK

-----------------------------------------------------------------------------
(* The inductive invariant of the lookups. *)
ApiInv ==
  FollowerInv /\ FinalOK /\ LookupOK /\ AnswerOK /\ ExportOK

(* Nothing is asked at the start. *)
LEMMA ApiInitOK ==
  ASSUME ApiInit
  PROVE  ApiInv /\ CopyOK /\ StatusOK
<1>1. FollowerInv /\ FinalOK
  BY FollowerInit, FinalInit DEF ApiInit
<1>2. LookupOK /\ AnswerOK /\ ExportOK /\ CopyOK /\ StatusOK
  BY DEF ApiInit, LookupOK, AnswerOK, ExportOK, CopyOK, StatusOK, NoLookup,
         NoAnswer
<1> QED
  BY <1>1, <1>2 DEF ApiInv

(* Every step keeps the answers right. *)
LEMMA ApiStepOK ==
  ASSUME MaxReorg <= FinalityDepth, ApiInv, [ApiNext]_<<vars, apiVars>>
  PROVE  ApiInv'
<1>1. FollowerInv' /\ FinalOK' /\ ScannedIsFinal
  BY ApiStepIsFollowerStep, FollowerStep, FinalStep DEF ApiInv, FinalOK
<1>2. CASE UNCHANGED <<vars, apiVars>>
  <2>1. [Next]_vars /\ answer' = answer /\ lookup' = lookup
        /\ UNCHANGED kernelVars
    BY <1>2 DEF vars, apiVars
  <2>2. AnswerOK' /\ ExportOK'
    BY <2>1, AnswerStays, ExportStays DEF ApiInv
  <2>3. LookupOK'
    BY <2>1 DEF ApiInv, LookupOK, kernelVars
  <2> QED
    BY <1>1, <2>2, <2>3 DEF ApiInv
<1>3. CASE ApiNext
  BY <1>1, <1>3, LookupStep, AnswerStep, ExportStep DEF ApiInv
<1> QED
  BY <1>2, <1>3

(* As long as reorganisations stay above the finality depth, what a client *)
(* was told stays true of the node's chain.                                *)
THEOREM AnswersStayTrue ==
  ASSUME MaxReorg <= FinalityDepth
  PROVE  ApiSpec => []AnswerIsChainTruth
<1>1. ApiInit => ApiInv
  BY ApiInitOK
<1>2. ApiInv /\ [ApiNext]_<<vars, apiVars>> => ApiInv'
  BY ApiStepOK
<1>3. ApiInv => AnswerIsChainTruth
  BY RightAnswer DEF ApiInv
<1> QED
  BY <1>1, <1>2, <1>3, PTL DEF ApiSpec

(* Under the same condition an exported answer passes the wallet's check   *)
(* against every checkpoint of the node's chain below its cursor.          *)
THEOREM ExportsVerify ==
  ASSUME MaxReorg <= FinalityDepth
  PROVE  ApiSpec => []ExportVerifies
<1>1. ApiInit => ApiInv
  BY ApiInitOK
<1>2. ApiInv /\ [ApiNext]_<<vars, apiVars>> => ApiInv'
  BY ApiStepOK
<1>3. ApiInv => ExportVerifies
  BY RightExport DEF ApiInv
<1> QED
  BY <1>1, <1>2, <1>3, PTL DEF ApiSpec

(* Whatever the depth of reorganisations, a status answer is coherent      *)
(* although it mixes two moments of a follower that may have crashed.      *)
THEOREM StatusCoherent == ApiSpec => []StatusIsCoherent
<1> DEFINE Inv == FollowerInv /\ CopyOK /\ StatusOK
<1>1. ApiInit => Inv
  BY ApiInitOK DEF ApiInv
<1>2. Inv /\ [ApiNext]_<<vars, apiVars>> => Inv'
  <2> SUFFICES ASSUME Inv, [ApiNext]_<<vars, apiVars>> PROVE Inv'
    OBVIOUS
  <2>1. FollowerInv'
    BY ApiStepIsFollowerStep, FollowerStep
  <2>2. CASE ApiNext
    BY <2>1, <2>2, CopyStep, StatusStep
  <2>3. CASE UNCHANGED <<vars, apiVars>>
    BY <2>1, <2>3 DEF CopyOK, StatusOK, Lag, CaughtUp, TipHeight, vars,
                      kernelVars, apiVars
  <2> QED
    BY <2>2, <2>3
<1>3. Inv => StatusIsCoherent
  BY RightStatus
<1> QED
  BY <1>1, <1>2, <1>3, PTL DEF ApiSpec
=============================================================================
