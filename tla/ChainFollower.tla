---------------------------- MODULE ChainFollower ----------------------------
(***************************************************************************)
(* The follower task (src/chain_follower.rs) between a Nockchain node and  *)
(* the kernel: it plans a batch behind the finality depth, fetches the     *)
(* blocks one RPC at a time while the node's chain grows and reorganises,  *)
(* validates the links and pokes %scan-block in order.  A crash at any     *)
(* point loses the task and its telemetry and rolls the kernel back to the *)
(* last checkpoint nockapp wrote.                                          *)
(*                                                                         *)
(* The node, nockapp's checkpoints and the faults of the RPC and the       *)
(* prover are environment.  The task is in chain mode: in local mode       *)
(* scan_once returns before it touches anything.                           *)
(***************************************************************************)
EXTENDS NNSPredicates, FiniteSets, Functions

CONSTANTS
  Block,          \* blocks as the follower decodes them: %scan-block payloads
  Chains,         \* the chains a node may serve, from GenesisHeight up
  FinalityDepth,  \* DEFAULT_FINALITY_DEPTH
  MaxReorg,       \* blocks a reorganisation may replace (environment)
  BatchBlocks,    \* NNS_FOLLOWER_BATCH_BLOCKS
  NoProof, None,
  MaxFaults,      \* bound: failing calls in a behaviour
  MaxCrashes      \* bound: crashes in a behaviour

VARIABLES
  chain,      \* the node's best chain; chain[1] is at GenesisHeight
  accumulator, lastProvedHeight, lastProvedDigest, lastProved,
  recursiveProof, effect, scanned,     \* the kernel, see NNSKernel
  saved,      \* the kernel state in nockapp's last checkpoint
  pc,         \* where scan_once is
  seen,       \* the cursor it peeked at the start of the tick
  want,       \* heights of the batch
  got,        \* blocks fetched so far, by the height asked for
  batch,      \* validated blocks not yet poked
  done,       \* height in the last %scan-block-done of the batch
  outcome,    \* what the last tick returned
  telemetry,  \* FollowerObservability
  faults, crashes,
  everRows    \* history: the first row any state had for a name

K == INSTANCE NNSKernel WITH ScanInput <- Block

(* The kernel a restart would find: the one nockapp last checkpointed. *)
Saved == INSTANCE NNSKernel WITH
  ScanInput        <- Block,
  accumulator      <- saved.accumulator,
  lastProvedHeight <- saved.lastProvedHeight,
  lastProvedDigest <- saved.lastProvedDigest,
  lastProved       <- saved.lastProved,
  recursiveProof   <- saved.recursiveProof,
  effect           <- "none",
  scanned          <- saved.scanned

(* Blocks are %scan-block payloads, and a node answers a request for a     *)
(* height with the block its chain has there.                              *)
ASSUME FollowerAssumption ==
  /\ Block \subseteq K!ScanPayload
  /\ \A c \in Chains :
       c \in Seq(Block) /\ \A i \in DOMAIN c : c[i].height = GenesisHeight + i - 1
  /\ {FinalityDepth, MaxReorg, BatchBlocks, MaxFaults, MaxCrashes} \subseteq Nat
  /\ None \notin Nat

kernelVars  == <<accumulator, lastProvedHeight, lastProvedDigest, lastProved,
                 recursiveProof, effect, scanned>>
localVars   == <<seen, want, got, batch, done>>
boundVars   == <<faults, crashes>>
vars == <<chain, kernelVars, saved, pc, localVars, outcome, telemetry,
          boundVars, everRows>>

-----------------------------------------------------------------------------
TipHeight == GenesisHeight + Len(chain) - 1

HasBlock(h) == h >= GenesisHeight /\ h <= TipHeight

BlockAt(h) == chain[h - GenesisHeight + 1]

(* Mutant: one block less of finality. *)
FinalizedHeightOffByOne ==
  IF TipHeight <= FinalityDepth THEN 0 ELSE TipHeight - FinalityDepth + 1

(* What the finality depth lets the follower scan. *)
FinalizedHeight == IF TipHeight <= FinalityDepth THEN 0
                                                 ELSE TipHeight - FinalityDepth

(* The kernel state as nockapp checkpoints it.  The history variable rolls *)
(* back with the state it describes; effects are not kept.                 *)
Snapshot ==
  [accumulator      |-> accumulator,
   lastProvedHeight |-> lastProvedHeight,
   lastProvedDigest |-> lastProvedDigest,
   lastProved       |-> lastProved,
   recursiveProof   |-> recursiveProof,
   scanned          |-> scanned]

EmptyTelemetry == [chainTip |-> None, advanceTip |-> None, errorPhase |-> None]

NothingFetched == [h \in {} |-> None]

(* Mutant: fetched blocks are kept for the next tick. *)
ForgetLocalsButBlocks ==
  /\ seen' = None /\ want' = {} /\ got' = got
  /\ batch' = <<>> /\ done' = None

(* Between ticks the variables of scan_once do not exist. *)
ForgetLocals ==
  /\ seen' = None /\ want' = {} /\ got' = NothingFetched
  /\ batch' = <<>> /\ done' = None

Init ==
  /\ K!Init
  /\ chain \in {c \in Chains : Len(c) <= 1}
  /\ saved = Snapshot
  /\ pc = "idle"
  /\ seen = None /\ want = {} /\ got = NothingFetched
  /\ batch = <<>> /\ done = None
  /\ outcome = "none"
  /\ telemetry = EmptyTelemetry
  /\ faults = 0 /\ crashes = 0
  /\ everRows = EmptyAccumulator

-----------------------------------------------------------------------------
(* Environment. *)

(* The node takes a chain that is at least as long and differs from its    *)
(* own in at most the last MaxReorg blocks.                                *)
NodeMoves ==
  /\ \E c \in Chains :
       /\ c # chain
       /\ Len(c) >= Len(chain)
       /\ \A i \in DOMAIN chain : i <= Len(chain) - MaxReorg => c[i] = chain[i]
       /\ chain' = c
  /\ UNCHANGED <<kernelVars, saved, pc, localVars, outcome, telemetry,
                 boundVars, everRows>>

(* nockapp writes checkpoints on its own schedule. *)
Checkpoint ==
  /\ saved # Snapshot
  /\ saved' = Snapshot
  /\ UNCHANGED <<chain, kernelVars, pc, localVars, outcome, telemetry,
                 boundVars, everRows>>

(* Mutant: the checkpoint brings back the cursor but not the registry. *)
CrashKeepsRows ==
  /\ crashes < MaxCrashes
  /\ crashes' = crashes + 1
  /\ accumulator'      = accumulator
  /\ lastProvedHeight' = saved.lastProvedHeight
  /\ lastProvedDigest' = saved.lastProvedDigest
  /\ lastProved'       = saved.lastProved
  /\ recursiveProof'   = saved.recursiveProof
  /\ scanned'          = saved.scanned
  /\ effect' = "none"
  /\ pc' = "idle"
  /\ ForgetLocals
  /\ outcome' = "none"
  /\ telemetry' = EmptyTelemetry
  /\ UNCHANGED <<chain, saved, faults, everRows>>

(* Mutant: telemetry outlives the process. *)
CrashKeepsTelemetry ==
  /\ crashes < MaxCrashes
  /\ crashes' = crashes + 1
  /\ accumulator'      = saved.accumulator
  /\ lastProvedHeight' = saved.lastProvedHeight
  /\ lastProvedDigest' = saved.lastProvedDigest
  /\ lastProved'       = saved.lastProved
  /\ recursiveProof'   = saved.recursiveProof
  /\ scanned'          = saved.scanned
  /\ effect' = "none"
  /\ pc' = "idle"
  /\ ForgetLocals
  /\ outcome' = "none"
  /\ telemetry' = telemetry
  /\ UNCHANGED <<chain, saved, faults, everRows>>

(* The process dies and is restarted. *)
Crash ==
  /\ crashes < MaxCrashes
  /\ crashes' = crashes + 1
  /\ accumulator'      = saved.accumulator
  /\ lastProvedHeight' = saved.lastProvedHeight
  /\ lastProvedDigest' = saved.lastProvedDigest
  /\ lastProved'       = saved.lastProved
  /\ recursiveProof'   = saved.recursiveProof
  /\ scanned'          = saved.scanned
  /\ effect' = "none"
  /\ pc' = "idle"
  /\ ForgetLocals
  /\ outcome' = "none"
  /\ telemetry' = EmptyTelemetry
  /\ UNCHANGED <<chain, saved, faults, everRows>>

(* A call that fails although its arguments are fine. *)
Fault == faults < MaxFaults /\ faults' = faults + 1

-----------------------------------------------------------------------------
(* One tick: scan_once. *)

environment == <<chain, saved, crashes, everRows>>

(* The tick returns Err; `phase' is what scan_once itself records, if      *)
(* anything.  The spawn loop takes over in RecordTickError.                *)
TickFails(phase, result) ==
  /\ pc' = "failed"
  /\ outcome' = result
  /\ telemetry' = IF phase = None THEN telemetry
                  ELSE [telemetry EXCEPT !.errorPhase = phase]
  /\ ForgetLocals

(* scan_cursor_is_genesis_boot: the hull's own test for the boot cursor. *)
ScanCursorIsGenesisBoot(height, digest) == height = 0 /\ digest = ZeroDigest

(* The first peek of /scan-state. *)
PeekScanState ==
  /\ pc = "idle"
  /\ seen' = <<lastProvedHeight, lastProvedDigest>>
  /\ pc' = IF ScanCursorIsGenesisBoot(lastProvedHeight, lastProvedDigest)
            THEN "genesis" ELSE "plan"
  /\ UNCHANGED <<environment, kernelVars, want, got, batch, done, outcome,
                 telemetry, faults>>

(* Either peek of a tick may fail: before planning, and again when the     *)
(* prefetched batch is about to be validated.  An answer that does not     *)
(* decode is not recorded under a phase of its own.                        *)
PeekFails ==
  /\ pc = "idle" \/ (pc = "fetch" /\ DOMAIN got = want)
  /\ Fault
  /\ TickFails("scan_peek", "error") \/ TickFails(None, "error")
  /\ UNCHANGED <<environment, kernelVars>>

(* At the boot cursor every tick pokes %prove-recursive-genesis, whether a *)
(* proof is stored or not, and goes on when the prover fails.              *)
ProveGenesis ==
  /\ pc = "genesis"
  /\ K!ProveRecursiveGenesis
  /\ pc' = "plan"
  /\ UNCHANGED <<environment, localVars, outcome, telemetry, faults>>

ProveGenesisPokeFails ==
  /\ pc = "genesis"
  /\ Fault
  /\ TickFails(None, "error")
  /\ UNCHANGED <<environment, kernelVars>>

(* The plan is made from the cursor peeked at the start of the tick. *)
NextHeight ==
  IF ScanCursorIsGenesisBoot(seen[1], seen[2]) /\ seen[1] + 1 < GenesisHeight
  THEN GenesisHeight
  ELSE seen[1] + 1

PlannedHeights ==
  {h \in NextHeight .. NextHeight + BatchBlocks - 1 : h <= FinalizedHeight}

(* The tip is fetched and recorded; nothing to do ends the tick with       *)
(* Ok(None), which leaves the telemetry's error as it is.                  *)
FetchTip ==
  /\ pc = "plan"
  /\ telemetry' = [telemetry EXCEPT !.chainTip = TipHeight]
  /\ \/ /\ PlannedHeights = {}
        /\ pc' = "idle"
        /\ outcome' = "noop"
        /\ ForgetLocals
     \/ /\ PlannedHeights # {}
        /\ pc' = "fetch"
        /\ want' = PlannedHeights
        /\ UNCHANGED <<seen, got, batch, done, outcome>>
  /\ UNCHANGED <<environment, kernelVars, faults>>

FetchTipFails ==
  /\ pc = "plan"
  /\ Fault
  /\ TickFails("plan", "error")
  /\ UNCHANGED <<environment, kernelVars>>

(* The blocks of a batch are fetched by concurrent tasks, in any order and *)
(* each from the chain the node has at that moment.                        *)
ReceiveBlock(h, b) ==
  /\ pc = "fetch"
  /\ h \in want \ DOMAIN got
  /\ got' = [x \in DOMAIN got \cup {h} |-> IF x = h THEN b ELSE got[x]]
  /\ UNCHANGED <<environment, kernelVars, pc, seen, want, batch, done,
                 outcome, telemetry>>

FetchBlock(h) ==
  /\ HasBlock(h)
  /\ ReceiveBlock(h, BlockAt(h))
  /\ UNCHANGED faults

(* The answer is for another height than the request: only a warning. *)
FetchOtherBlock(h) ==
  /\ \E i \in DOMAIN chain : chain[i].height # h /\ ReceiveBlock(h, chain[i])
  /\ Fault

FetchBlockFails ==
  /\ pc = "fetch" /\ DOMAIN got # want
  /\ Fault
  /\ TickFails(None, "error")
  /\ UNCHANGED <<environment, kernelVars>>

(* The prefetch result: the answers sorted by the height they carry, ties  *)
(* in the order of the requests.                                           *)
SortedBy(p) ==
  \A x, y \in DOMAIN p :
    x < y => \/ got[p[x]].height < got[p[y]].height
             \/ got[p[x]].height = got[p[y]].height /\ p[x] < p[y]

(* Mutant: the first block is not compared with the cursor. *)
LinksInside(blocks) ==
  \A i \in DOMAIN blocks : i > 1 => blocks[i].parent = blocks[i - 1].digest

(* validate_scan_block_chain: every block links to the one before it, the  *)
(* first one to the kernel's cursor unless that is still at boot.  Heights *)
(* are not looked at.                                                      *)
LinksToCursor(blocks) ==
  \A i \in DOMAIN blocks :
    IF i = 1 THEN \/ ScanCursorIsGenesisBoot(lastProvedHeight, lastProvedDigest)
                  \/ blocks[1].parent = lastProvedDigest
             ELSE blocks[i].parent = blocks[i - 1].digest

(* All fetches are in: sort, peek the cursor again, validate. *)
ValidateBatch ==
  /\ pc = "fetch" /\ DOMAIN got = want
  /\ \E p \in Bijection(1 .. Cardinality(want), want) :
       /\ SortedBy(p)
       /\ LET blocks == [i \in DOMAIN p |-> got[p[i]]]
          IN  \/ /\ LinksToCursor(blocks)
                 /\ batch' = blocks
                 /\ done' = None
                 /\ pc' = "poke"
                 /\ UNCHANGED <<seen, want, got, outcome, telemetry>>
              \/ /\ ~LinksToCursor(blocks)
                 /\ TickFails(None, "error")
  /\ UNCHANGED <<environment, kernelVars, faults>>

(* One %scan-block poke.  A kernel rejection is recorded as "scan_poke". *)
PokeAccepted ==
  /\ pc = "poke"
  /\ K!ScanAccept(Head(batch))
  /\ done' = Head(batch).height
  /\ pc' = "transition"
  /\ everRows' = [n \in DOMAIN everRows \cup DOMAIN accumulator' |->
                    IF HasRow(everRows, n) THEN everRows[n]
                                           ELSE accumulator'[n]]
  /\ UNCHANGED <<chain, saved, boundVars, seen, want, got, batch, outcome,
                 telemetry>>

PokeRejected ==
  /\ pc = "poke"
  /\ \/ /\ \/ K!ScanParentMismatch(Head(batch))
           \/ K!ScanHeightMismatch(Head(batch))
        /\ UNCHANGED faults
     \/ K!ScanTrap(Head(batch)) /\ Fault
  /\ TickFails("scan_poke", "rejected")
  /\ UNCHANGED environment

(* The poke itself fails (the phase is recorded if the hull lock happens   *)
(* to be free), or the claims of the block cannot be extracted.            *)
PokeFails ==
  /\ pc = "poke"
  /\ Fault
  /\ TickFails("scan_poke", "error") \/ TickFails(None, "error")
  /\ UNCHANGED <<environment, kernelVars>>

(* After an accepted block: chain a transition proof onto the stored one,  *)
(* if there is one.  Whatever comes of it, the loop goes on.               *)
TransitionDone ==
  /\ batch' = Tail(batch)
  /\ pc' = IF Tail(batch) = <<>> THEN "advance" ELSE "poke"
  /\ UNCHANGED <<environment, seen, want, got, done, outcome, telemetry>>

ProveTransition ==
  /\ pc = "transition"
  /\ recursiveProof # NoProof
  /\ K!ProveRecursiveTransition("supplied", Head(batch))
  /\ TransitionDone
  /\ UNCHANGED faults

SkipTransition ==
  /\ pc = "transition"
  /\ \/ recursiveProof = NoProof /\ UNCHANGED faults
     \/ recursiveProof # NoProof /\ Fault   \* the peek or the poke fails
  /\ TransitionDone
  /\ UNCHANGED kernelVars

(* The whole batch is in: record_advance, which also clears the error. *)
RecordAdvance ==
  /\ pc = "advance"
  /\ telemetry' = [telemetry EXCEPT !.advanceTip = done, !.errorPhase = None]
  /\ outcome' = "advanced"
  /\ pc' = "idle"
  /\ ForgetLocals
  /\ UNCHANGED <<environment, kernelVars, faults>>

(* Mutant: the loop does not go on after an error. *)
RecordTickErrorStops ==
  /\ pc = "failed"
  /\ telemetry' = [telemetry EXCEPT !.errorPhase = "scan_block"]
  /\ UNCHANGED <<environment, kernelVars, pc, localVars, outcome, faults>>

(* spawn: any Err of the tick is recorded under the phase "scan_block". *)
RecordTickError ==
  /\ pc = "failed"
  /\ telemetry' = [telemetry EXCEPT !.errorPhase = "scan_block"]
  /\ pc' = "idle"
  /\ UNCHANGED <<environment, kernelVars, localVars, outcome, faults>>

Tick ==
  \/ PeekScanState
  \/ ProveGenesis
  \/ FetchTip
  \/ \E h \in want : FetchBlock(h)
  \/ ValidateBatch
  \/ PokeAccepted
  \/ PokeRejected
  \/ ProveTransition
  \/ SkipTransition
  \/ RecordAdvance
  \/ RecordTickError

FailingCall ==
  \/ PeekFails
  \/ ProveGenesisPokeFails
  \/ FetchTipFails
  \/ \E h \in want : FetchOtherBlock(h)
  \/ FetchBlockFails
  \/ PokeFails

Next == NodeMoves \/ Checkpoint \/ Crash \/ Tick \/ FailingCall

(* The task loops forever: it sleeps or yields between ticks, every RPC    *)
(* and poke returns.                                                       *)
Fairness == WF_vars(Tick)

Spec == Init /\ [][Next]_vars /\ Fairness

-----------------------------------------------------------------------------
PCs == {"idle", "genesis", "plan", "fetch", "poke", "transition", "advance",
        "failed"}

FollowerTypeOK ==
  /\ K!TypeOK /\ Saved!TypeOK
  /\ chain \in Chains
  /\ pc \in PCs
  /\ seen = None \/ seen \in Nat \X Digest
  /\ want \subseteq Nat
  /\ DOMAIN got \subseteq want /\ \A h \in DOMAIN got : got[h] \in Block
  /\ batch \in Seq(Block)
  /\ done = None \/ done \in Nat
  /\ outcome \in {"none", "noop", "advanced", "rejected", "error"}
  /\ telemetry \in
       [chainTip : Nat \cup {None}, advanceTip : Nat \cup {None},
        errorPhase : {None, "scan_peek", "plan", "scan_poke", "scan_block"}]
  /\ faults \in 0 .. MaxFaults /\ crashes \in 0 .. MaxCrashes
  /\ IsAccumulator(everRows)

(* Blocks `s' are the bottom of the node's chain, FinalityDepth below tip. *)
IsFinalPrefix(s) ==
  /\ s # <<>> => Len(s) + FinalityDepth <= Len(chain)
  /\ \A i \in DOMAIN s : s[i] = chain[i]

(* Every block the kernel has folded in, now or in the checkpoint it would *)
(* restart from, is on the node's present chain below the finality depth:  *)
(* fetches that straddle reorganisations, half applied batches, stale      *)
(* plans and restarts never bring in another branch (scan_once's           *)
(* finalized height, validate_scan_block_chain and the kernel's checks).   *)
ScannedIsFinal == IsFinalPrefix(scanned) /\ IsFinalPrefix(saved.scanned)

(* A row the registry has shown once is the row it shows for that name     *)
(* ever after, restarts from older checkpoints and replays included.       *)
RowsSurviveRestart ==
  \A n \in DOMAIN accumulator :
    HasRow(everRows, n) /\ n # Tld => accumulator[n] = everRows[n]

(* What /status shows is something that happened: the recorded advance is  *)
(* not ahead of the kernel's cursor and lies FinalityDepth below the       *)
(* recorded chain tip, which the node has reached.                         *)
TelemetryIsTruthful ==
  /\ telemetry.chainTip # None => telemetry.chainTip <= TipHeight
  /\ telemetry.advanceTip # None =>
       /\ telemetry.advanceTip <= lastProvedHeight
       /\ telemetry.chainTip # None
       /\ telemetry.advanceTip + FinalityDepth <= telemetry.chainTip

(* A fork never reaches the kernel: the hull's validation catches it, and  *)
(* no %scan-block of the follower is answered with parent-mismatch.        *)
ForksStopInTheHull == effect # "parent-mismatch"

(* The kernel's run of blocks is one branch, and the registry its replay,  *)
(* now and in the checkpoint a restart would bring back, through crashes   *)
(* and reorganisations of any depth.                                       *)
OneBranchReplayed ==
  /\ K!ScannedIsLinkedRun     /\ K!RegistryIsReplay
  /\ Saved!ScannedIsLinkedRun /\ Saved!RegistryIsReplay

(* Finitely many failures and crashes later the follower reaches the       *)
(* finalized height and stays there while the node's tip does.             *)
CatchesUp ==
  <>[](FinalizedHeight >= GenesisHeight => lastProvedHeight = FinalizedHeight)

-----------------------------------------------------------------------------
(* The documentation: last_error_phase "scan_poke" means "kernel rejected  *)
(* `%scan-block`" (docs/ARCHITECTURE.md:763, the alert of                  *)
(* docs/running_a_node.md:272).  The spawn loop overwrites the phase with  *)
(* "scan_block" before the next tick.                                      *)
RejectionShowsAsScanPoke ==
  pc = "idle" /\ outcome = "rejected" => telemetry.errorPhase = "scan_poke"

(* The doc comment of last_error: "Cleared on the next successful tick"    *)
(* (src/state.rs:52).  A tick that finds nothing to do returns Ok and      *)
(* leaves it.                                                              *)
ErrorClearsOnSuccess ==
  pc = "idle" /\ outcome \in {"noop", "advanced"} => telemetry.errorPhase = None
=============================================================================
