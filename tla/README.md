# NNS in TLA+

Specifications, model-checking configurations and machine-checked proofs for
the Nockchain Name Service: the registrar kernel (Hoon, `hoon/app/`), the hull
that drives it from the chain (Rust, `src/`), its read API and the offline
wallet check. Paths are relative to the repository; every definition that
stands for code is listed with its lines in `PROJECT.json` under `map`.

Contents: 1 inventory, 2 modules, 3 correspondence, 4 runs, 5 bounds,
6 fairness, 7 proofs, 8 what disagrees with the documentation, 9 what is not
modelled, 10 plan.

## 1. Inventory

```
 Nockchain node --RPC--> chain follower --poke--> kernel --checkpoint--> disk
                              |  telemetry          ^ peek
                              v                     |
                            hull state <------- HTTP API ---> clients
                                                              |
                                       offline wallet check <-+
```

| Component | State it keeps | Operations | Hard behaviour | What makes it correct |
| --- | --- | --- | --- | --- |
| Kernel state machine (`hoon/app/app.hoon`) | registry, scan cursor, last proved computation, stored recursive proof | pokes `%scan-block`, `%prove-recursive-genesis`, `%prove-recursive-transition`, `%prove-arbitrary`, `%prove-claim-in-stark`; read-only pokes and peeks | any payload in any order; a scan rejected after it has written; prover pokes that also write the registry | accepted blocks are one linked run, the registry is their replay and nothing else, rows are permanent |
| Registry accumulator (`nns-accumulator.hoon`) | z-map from hashed name to row | has, get, insert, root | first writer wins rests on one membership test | rows are never rewritten; the root commits to the rows |
| Claim predicates and scanner (`nns-predicates.hoon`) | none | name format, fee schedule, `valid-claim`, `claim-scanner`, `validate-claim-bundle`, `chain-links-to` | two validators listed separately; order inside a block; ends of a header list | the fold is "first valid claim wins"; both validators agree; a header walk is ancestry |
| Recursive step and tracer (`recursive-build.hoon`, `tracer.hoon`) | none | subject and formula of a genesis or transition proof, host specification | axes into flat subjects; formula and specification written twice | the formula runs and says what the specification says |
| Chain follower (`src/chain_follower.rs`, `chain.rs`) | one task, locals of a tick | peek, tip, concurrent fetches, validation, pokes, transition proof | fetches that straddle reorganisations, answers for other heights, failures between any two calls, restarts from old checkpoints | only final blocks are folded in; rows survive restarts; it catches up |
| Claim extraction (`chain_follower.rs`, `chain.rs`, `payment.rs`, `claim_note.rs`) | answers of one block's fetch | concurrent queries with retries, canonical order, note decoding, owner inference, treasury sum | index lag, wrong and repeated answers, order of tasks | claims are a function of the block's transactions; owners signed |
| Hull state (`src/state.rs`) | kernel handle and telemetry under two mutexes | record tip, advance, error; clear error | telemetry is lost by a crash, the cursor is not; two writers of one error | telemetry tells what happened |
| HTTP API (`src/api.rs`) | none of its own | `/accumulator/:name`, `/status` | several peeks per answer beside a running follower | an answer is true of the chain, an export verifies, a status is coherent |
| Wallet check (`wallet_y4.rs`, `bin/light_verify.rs`) | none | proof, snapshot, row and header checks in order | off by one at both ends of the header list | accepts true ancestry and nothing else |
| Node queries and payment (`chain.rs`, `payment.rs`) | none | acceptance, height, position, page, details, block proof, receipts, submissions, payment check | two or three RPCs with a reorganisation in between; saturating sums | an answer is true when it is given |
| Freshness policy (`freshness.rs`) | none | compares heights and digests | a tip read earlier than the block it is compared with; a window of one too many | a fresh and bound proof covers the chain up to the window |
| Kernel codec (`kernel.rs`, `noun_access.rs`, `types.rs`, `formula_nock.rs`) | none | builders of pokes and paths, decoders of effects and peeks, offline verification | the same tuples listed twice, in Rust and in Hoon; lists built back to front; effects of several arms | what is sent arrives, what is emitted is read, what is exported is accepted when handed back |
| Claim packing (`packed_blob.rs`) | none | byte format | not modelled | |
| Settlement gate and Vesl graft (`app.hoon`, `names-test.hoon`) | roots and settled notes, in vendored code outside the repository | the gate's verdict on a batch | two sets carried through a loop; padded levels of a Merkle tree | it accepts every batch of registered rows without repetition and no other |
| Transaction witness (`tx-witness.hoon`) | none | digest atoms to limbs, Tip5 hashes | only the limbs are modelled | |
| Start and configuration (`main.rs`, `lib.rs`) | none | boot, restart | a restart is an action of the follower model | |

How they interact: the follower is the only writer. It peeks the cursor, asks
the node for the tip and the blocks of a batch, and pokes one `%scan-block`
per block in ascending order, each followed by an attempt at a transition
proof. API and follower share the kernel behind one mutex, so a poke is atomic
to the API and a lookup, which holds the guard across its peeks, is atomic to
the follower. Telemetry lives behind a second mutex. nockapp writes kernel
checkpoints in its own time; a restart resumes from the last one.

The hazards this leads to are listed, each at its line and with the
properties that cover it, in `PROJECT.json` under `hazards`.

## 2. Modules

| Module | Models | Built on |
| --- | --- | --- |
| `NameRegistry` | abstract: an append-only ledger, extended one height at a time | |
| `NNSAccumulator` | rows, membership, insert, the seeded row | |
| `NNSPredicates` | names, fees, claims, the rules, the scanner as a closed form | `NNSAccumulator` |
| `ClaimScannerFold` | the scanner as the code writes it, a left fold of inserts | `NNSKernel` |
| `FoldFacts` | theorems: what a left fold computes, for any operator; induction and recursion over the naturals | `TLAPS` |
| `NNSKernel` | the kernel: state and one action per poke that changes it | `NNSPredicates`; implements `NameRegistry` |
| `NNSKernelProofs` | theorems about `NNSKernel` | `NNSKernel`, `TLAPS` |
| `Nock` | nouns and the four opcodes the formulas use (external) | |
| `Tracer` | the trace formulas and their subjects | `Nock` |
| `RecursiveStep` | what the kernel proves, built from its state, beside the host's specification of it | `NNSKernel`, `Tracer` |
| `KernelCodec` | the hull's end of the wire: nouns, pokes, paths, decoders | `NNSPredicates`, `Nock`, `SequencesExt` |
| `KernelWire` | the kernel's end: molds, read-only pokes, effects, peeks, over the states of `NNSKernel`; both ends against each other | `RecursiveStep`, `KernelCodec`, `ClaimBundle`, `LightVerify` |
| `KernelWireProofs` | theorems about both ends of the wire | `KernelWire`, `KernelPartsProofs` |
| `ChainFollower` | follower tick, node with reorganisations, checkpoints, crashes | `K` and `Saved`, instances of `NNSKernel`: the running kernel and the checkpointed one |
| `LightVerify` | the wallet's check, and the pokes it makes offline | `NNSAccumulator` |
| `HullApi` | lookups and status beside the running follower, up to the wallet | `ChainFollower`, `LightVerify` |
| `HullProofs` | theorems about `ChainFollower` and `HullApi` | `HullApi`, `KP == INSTANCE NNSKernelProofs`, `TLAPS` |
| `ClaimBundle` | `%validate-claim`, its variant for the STARK, the kernel's header walk | `NNSPredicates` |
| `HeaderWalks` | both header walks over every list of headers | `LightVerify`, `ClaimBundle` |
| `HeaderWalksProofs` | theorems about `HeaderWalks` | `HeaderWalks`, `NatInd` of `FoldFacts` |
| `Payment` | the hull's fee schedule, what a transaction pays into the treasury | `NNSPredicates` |
| `ClaimExtraction` | the fetch of a block's transactions, and its claims | `ClaimBundle`, `Payment` |
| `ClaimExtractionProofs` | theorems about `ClaimExtraction` | `ClaimExtraction`, one instance of `FoldFacts` per loop |
| `SettlementGate` | the gate over batches of rows with Merkle proofs, at the registries the kernel reaches | `NNSKernel` |
| `KernelPartsProofs` | theorems about the scanner's fold, the gate and the recursive step | `ClaimScannerFold`, `SettlementGate`, `RecursiveStep`, `NNSKernelProofs`, instances of `FoldFacts` |
| `Freshness` | how old a proof may be, and to which block it is bound | |
| `ChainQueries` | one question to a moving node in one or more RPCs | `Payment`, `Freshness` |
| `ChainQueriesProofs` | theorems about `ChainQueries` | `ChainQueries`, instances of `FoldFacts` |
| `MC*` | small instances; `MCNames` is the universe of names, owners and claims they share | |

A recursion of the code is a recursive function or a fold; no module declares
a `RECURSIVE` operator.

## 3. Correspondence

**Kernel.** `accumulator`, `lastProvedHeight`, `lastProvedDigest`,
`lastProved`, `recursiveProof` are the fields of `v0-state`. A poke is one
action; nouns that decode to nothing usable are left out, a crashing poke
leaves the state alone and sets `effect`. `effect` is the poke's result and
`scanned` a history variable: the payloads of accepted scans. `%scan-block`
has four outcomes (`ScanParentMismatch`, `ScanHeightMismatch`, `ScanTrap`,
`ScanAccept`); the last three write the seeded row first, as the code does.
`ScanInput` is the set of payloads an untrusted host may send.
A proof is represented by the computation it is about; whether the prover
succeeds is a free choice.

**Registry.** A function from names to rows instead of a z-map from Tip5 keys:
hashes are taken to be free of collisions. The root is the set of rows.

**Names and claims.** A name is its length in bytes and two flags, the suffix
and the alphabet; `IsValidName` and `FeeForName` read those. Transaction ids,
digests and owners are opaque. The scanner appears twice, as the fold in the
code (`FoldClaims`) and as the closed form used in `NNSKernel` and the proofs
(`ClaimScanner`); `FoldIsFirstWriterWins` compares them.

**Recursive step.** `Limbs` cuts a digest atom as `from-hull-atom` does, with
a smaller radix. A formula is a noun and `Product` runs it; `Crash` is what
`mule` catches. Rows reach the subject by the limb of the row at the head of
`tap`, which is hash order: any row may be at the head. A proof made by the
prover is a cell, so the follower's transitions have proof length 0;
`PrevProofs` adds the atoms a poke may supply.

**Codec.** A noun is an atom or a pair; an atom keeps what the hull puts in
it (a number, a cord, a name, a hash, a jam), with the zero atom shared by
zero, the empty list, the zero digest and the empty jam, as in the code. A
builder lists the fields in the order of `T(&mut slab, &[..])`; `Causes` is
`+$cause` by tag and number of fields, `SoftCause` what `soft` makes of a
noun, and the arms read their fields by position. `Emitted` is the list of
effects the last poke of `NNSKernel` may have produced: where the state of
the kernel leaves the arm or its dry run open, every choice is tried.
`RowsRevalidate` sends the claims of all blocks scanned so far back through
`%validate-claim`, `%verify-chain-link` and `%verify-tx-in-page`. The pokes
`%claim`, `%set-primary` and `%prove-claim` and six peek paths, which the
hull can still build, fit no mold of this kernel: `PokesArrive` has them
rejected as invalid.

**Queries.** `call` is the call in progress with what it knows so far,
`reply` what the last one returned. Each RPC is an action; the node moves and
its mempool changes between any two. One call is in progress at a time: the
calls share nothing. The wallet of the freshness policy is outside the
repository; it asks in the order the doc comments prescribe.

**Follower.** `pc` is the point in the tick between two awaits. `seen`,
`want`, `got`, `batch`, `done` are the locals of a tick, reset by
`ForgetLocals`. Each await is an action of its own, with a failing
counterpart; `NodeMoves`, `Checkpoint` and `Crash` may come between any two.
`saved` is the checkpoint on disk (`Saved` reads it as a kernel state), `everRows` a history of rows shown. A
wrong answer is a block of another height (`FetchOtherBlock`): the code only
warns. Local mode and waiting times are left out.

**API.** One lookup and one status request are served in their steps, the
peeks of a lookup under `KernelLocked`. The decoders of the peek results are
`AccumulatorPeek`, `ScanStatePeek`, `RecursiveProofPeek`. `answer` outlives
crashes because a client keeps it.

**Wallet.** `LightVerifyExit` is the exit code of the first failing check.
`kernelBoots` stands for everything that can go wrong between reading the
kernel file and the answer of its poke.

**Gate.** Hashes are terms, so two are equal when they are computed from
equal data in the same way. Trees and proofs follow the fixtures of
`names-test.hoon`, `VerifyChunk` the convention of sides that `src/types.rs`
describes. The commitment is to the registry as the kernel has it. A batch may
hold any row of it and any triple a block's claims offer, with any proof of the
tree, also one that is cut short or has a side flipped.

**Extraction.** A transaction is a record of inputs and outputs; a note is the
path form, the triple form or neither. Each task of the fetch is an index of
the block's list; `TxReady`, `TxPending`, `TxWrong`, `TxError` are one round
trip.

## 4. Runs

| Run | Shows |
| --- | --- |
| `kernel` | for any payloads and prover pokes in any order: `ScannedIsLinkedRun`, `RegistryIsReplay`, `RowsArePermanent`, and that the kernel implements `NameRegistry`; at every reachable registry, `FoldIsFirstWriterWins`; at every reachable state, `GenesisTraceIsSpec` and `TransitionTraceFollowsSpec` |
| | and at every reachable state, that the two ends of the wire understand each other: `PokesArrive`, `RowsRevalidate`, `EffectsAreHeard`, `LookupVerifies`, `PeeksAreTrue`, `ExportedProofIsUsable` |
| | and that the settlement gate settles the rows of the registry and nothing else, `AcceptedRowsAreRegistered` and `EveryRowCanBeSettled`, over batches with true and damaged proofs |
| `kernel_payment_reuse`, `kernel_dry_run` | two disagreements, section 8 |
| `follower` | with reorganisations up to the finality depth, two failures and a crash: `ScannedIsFinal`, `RowsSurviveRestart`, `TelemetryIsTruthful`; and `CatchesUp`: the kernel finally reaches the finalized height |
| `follower_deep_reorg` | with deeper ones: `ForksStopInTheHull`, `OneBranchReplayed`. The follower may stall; the registry stays the replay of one branch, in the checkpoint as well |
| `follower_rejection_phase`, `follower_error_clears` | two disagreements, section 8 |
| `hull_api` | `AnswerIsChainTruth`, `ExportVerifies`, `StatusIsCoherent` beside a running follower with one crash |
| `hull_proof_tip` | one disagreement, section 8 |
| `header_walks` | `WalletWalkIsAncestry`, `KernelWalkIsAncestry`, `ScannerAddsTheDeclaredFee`, `LinearLacksOnlyThePayment` over every list of up to four headers |
| `claim_extraction` | `ClaimsAreCanonical`, `KernelOnlyJudgesNameAndPrice`, `OwnerSigned`, and `FetchEnds` |
| `chain_queries` | `PositionIsCurrent`, `VerifiedPaymentIsMined`, `FreshAnchorCoversWindow` while the node reorganises between the RPCs of a call |

Two calls of `chain.rs` give no such promise and no property claims one:
`fetch_page_for_tx` may return a block that a reorganisation has left without
the transaction, since it does not look for it; and the index of a confirmed
position is that of the RPC list, not of the canonical order in which the
scanner folds claims. Neither is called by the hull.

What the trace properties do and do not say: the genesis formula accepts
exactly what `genesis-recursive-formula` accepts once the reserved row is in
place. The transition formula accepts every block without claims, accepts
every claim on a free name whose step `transition-spec` accepts, and rejects
a claim on the name at the head of the rows. It does not reject a claim on a
registered name that is not at the head: the code compares one row, and so
does the model.

Each property of a passing run has a mutant in `PROJECT.json`, a plausible
bug in one mapped definition that the run detects; the mutated forms stand in
the modules, before the definitions they replace, marked `Mutant:`.

## 5. Bounds

- Genesis height 2 instead of 63,000: the height matters as a floor above the
  zero cursor, and 2 is the least value that differs from the successor of 0.
- Kernel payloads: ten, over heights 1 to 4, with a fork at every height, a
  skipped height, one below the genesis height, a wrong parent and a block
  that claims the zero digest; their claims break each rule once. Runs of up
  to three accepted blocks occur, enough for a first, a middle and a last one.
- Folds: every list of up to `MaxClaims = 2` claims out of thirteen, at every
  registry the kernel reaches. One step of the fold depends on the registry
  and one claim; a pair is the shortest list in which order shows.
- Traces: every height around the genesis height, every digest, previous
  proofs that are a cell, a zero atom and a non-zero atom. `LimbBase = 3`
  makes the digests of the instance fill up to all five limbs.
- Follower: chains of up to two, three or four blocks over a tree with two
  branches and two side blocks, finality depth 1, batches of two.
  `MaxFaults` and `MaxCrashes` bound failures, since an unlimited number would
  only repeat them; two faults allow a failure while recovering from another.
  `MaxReorg = 1` equals the finality depth; 4 exceeds any chain.
- API: one request (`MaxRequests = 1`) in a behaviour of any length; answers do
  not depend on earlier requests. Failing calls are in the follower's own runs.
- Header lists: up to four, over a tree of depth four, so that a list can be
  one too long and one too short for every true path but the longest.
- Queries: chains of up to four blocks over two branches, one of which forks
  again, that mine the same transactions at other heights and other indices
  or not at all, so that every pair of answers can be inconsistent; one
  transaction pays more than `MaxU64`; staleness window 1; one failing call.
- Gate: the kernel's instance; registries of up to three rows, so trees of
  one to three leaves and one padded level; two rows may share a transaction,
  and the reserved row has no valid name. Batches of two, the shortest in
  which something is repeated, and for `EveryRowCanBeSettled` every selection
  of rows in every order.
- Codec: the kernel's instance; every payload of it is sent, with every
  claim, and every name of the universe is looked up.
- Extraction: blocks of up to three transactions, in every order and (for two)
  with repetitions; two attempts instead of 24, one wrong or failing answer;
  `MaxU64` is scaled down so that a sum of two outputs saturates.

`CHECK_DEADLOCK FALSE` is set where the modelled activity ends: a fetch that
is done, a header list that is full.

## 6. Fairness

- `ChainFollower`: weak fairness of `Tick`, the follower's own steps. The task
  is an endless loop whose awaits all return (`spawn`), and `Tick` excludes
  failing calls, the node, checkpoints and crashes: none of these is ever
  forced. `CatchesUp` is `<>[]`, so it speaks of the time after the bounded
  failures, crashes and movements of the node are over.
- `ClaimExtraction`: weak fairness of the tasks together and of the join.
  Nothing is assumed about the node's index, `FetchEnds` holds if it never
  catches up.

No other run assumes fairness.

## 7. Proofs

`NNSKernelProofs` proves, for all sets of names, owners, transaction ids,
digests and payloads and every positive genesis height:

| Theorem | Statement |
| --- | --- |
| `TypeCorrect` | `Spec => []TypeOK` |
| `LinkedRun` | `Spec => []ScannedIsLinkedRun` |
| `RegistryReplay` | `Spec => []RegistryIsReplay` |
| `PermanentRows` | `Spec => RowsArePermanent` |
| `KernelImplementsNameRegistry` | `Spec => ImplementsNameRegistry` |

Assumptions are the named `ASSUME`s of the modules: payloads are well typed,
the reserved name, owner and transaction id belong to their sets, the genesis
height is a positive natural. No bound of section 5 enters.

The argument: `ScannedIsLinkedRun` relates the cursor to the history and is
inductive together with `TypeOK`. Its second half is what makes `Boot` and
"nothing accepted yet" the same thing (`BootMeansNothingScanned`): heights of
accepted blocks are at least the genesis height, hence positive, so that a
block with the zero digest cannot reopen the boot branch. `RegistryIsReplay`
needs it: the seed may be written by a scan that is then rejected or by the
genesis prover, so "the reserved row exists" is not implied by "something was
scanned" unless boot is over exactly then. The inductive invariant is
`TypeOK /\ ScannedIsLinkedRun /\ RegistryIsReplay`.

The next-state relation is split once (`StepCases`): a step either accepts a
block or is quiet, which means cursor and history stay and the registry gains
at most the seeded row. Every later proof has those two cases. `AcceptedRows`
and `ClaimScannerProperties` say what an accepted block does to the rows,
`AcceptExtendsRun` what it does to the history; `FirstClaimExists` finds the
first valid claim by well-foundedness of the naturals (`LeastElement`).
For the refinement, a quiet step stutters, because the mapping hides the
reserved row, and an accepted block is `Extend`.

`HullProofs` proves, for all sets of blocks and chains, any batch
size, finality depth, number of faults and number of crashes:

| Theorem | Statement | Reorganisations |
| --- | --- | --- |
| `FollowerTypeCorrect` | `Spec => []FollowerTypeOK` | of any depth |
| `OneBranch` | `Spec => []OneBranchReplayed` | of any depth |
| `NoForkReachesTheKernel` | `Spec => []ForksStopInTheHull` | of any depth |
| `TruthfulTelemetry` | `Spec => []TelemetryIsTruthful` | of any depth |
| `ScannedStaysFinal` | `Spec => []ScannedIsFinal` | `MaxReorg <= FinalityDepth` |
| `RowsSurvive` | `Spec => []RowsSurviveRestart` | `MaxReorg <= FinalityDepth` |

Besides the kernel's assumptions there is one about the node: a chain is a
sequence of well-typed blocks whose heights count up from the genesis height
(`FollowerAssumption`). The hypothesis on `MaxReorg` is the reason for the
finality depth; `follower_deep_reorg` shows what remains without it.

The argument, in three layers. `FollowerInv` is inductive: the types, the
kernel's invariants for the running kernel and for the checkpoint, and what
the locals of a tick mean between two awaits. `PlanOK` says that the wanted
heights are a run that starts where the cursor asks for, `LinkOK` that what is
left of a validated batch is linked and starts at the cursor, `ReportOK` that
the plan stays below the tip it was made for. `LinkOK` is needed for
`ForksStopInTheHull` (the cursor that was peeked is not the cursor that is
poked against unless nothing else moves it), `ReportOK` for the telemetry. The
kernel's share comes from the theorems of `NNSKernelProofs`, instantiated: a
step of the follower is a step of the kernel or leaves it alone.
`FinalOK` adds that a block fetched or validated for a wanted height is the
block the chain has there, wanted heights being final (`WantedIsFinal`);
`FinalBlocksStay` is where the depth of reorganisations enters. `RowsOK` needs
that the two kernel states are prefixes of one chain: the first claim on a
name (`FirstIn`) in the shorter is the first in the longer.

And of the API, in the same module, for any number of requests:

| Theorem | Statement | Reorganisations |
| --- | --- | --- |
| `AnswersStayTrue` | `ApiSpec => []AnswerIsChainTruth` | `MaxReorg <= FinalityDepth` |
| `ExportsVerify` | `ApiSpec => []ExportVerifies` | `MaxReorg <= FinalityDepth` |
| `StatusCoherent` | `ApiSpec => []StatusIsCoherent` | of any depth |

`ApiAssumption` says that what a peek reports as absent or garbled is not
data. A step of the API is a step of the follower or leaves it alone
(`ApiStepIsFollowerStep`), so `FollowerInv` and `FinalOK` carry over. `ApiInv`
adds three parts. `LookupOK`: what a lookup has peeked is still what the
kernel holds, because a tick that runs beside the lock leaves the kernel alone
(`TickBesideTheLock`) and a crash ends the lookup. `AnswerOK`: the height an
answer names is final, and up to a final height no step changes the chain
(`FinalHeightStays`), so a name that was missing stays missing and a first
claim stays first. `ExportOK`: an export carries the rows of its root and the
cursor of that moment. For the status, `CopyOK` says that the copy of the
telemetry was true of a cursor which can only have grown since, or was lost by
a crash that ends the request. `ApiSpec` has the follower without failing
calls: they leave the kernel alone and end a tick early, and of what the API
reads they change the displayed error only.

### Loops, walks, extraction and queries

The code below iterates over lists a host or a node supplies, and the theorems
are about lists of any length. `FoldFacts` is what makes them provable. It has
the step of a fold as a parameter, `CONSTANT Op(_, _, _)`, and shows that
`FoldLeft` is the last value of a run which starts with the base and takes in
one element after the other (`FoldRun`; the run exists by induction on the
ranges `FoldLeft` recurses over). A proof about a loop instantiates the module
with the loop's step and argues along the run with `NatInd`, induction over a
set of naturals.

`KernelPartsProofs`, for every registry, list of claims, list of rows and batch
(its theorems about the recursive step are below):

| Theorem | Statement |
| --- | --- |
| `FoldIsClaimScanner` | the fold of the scanner is the closed form of the model |
| `FoldsAgree` | `Spec => []FoldIsFirstWriterWins` |
| `RegistryIsFinite` | `Spec => []FiniteRegistry` |
| `GateIsSound` | what the gate accepts is committed, valid and without repetition |
| `AcceptedRowsRegistered` | `Spec => []AcceptedRowsAreRegistered` |
| `RowsCanBeSettled` | `Spec => []EveryRowCanBeSettled` |

`FoldIsClaimScanner` closes a gap the other proofs leave: the kernel's model
uses the closed form, the code folds. Along the run, the registry after `n`
claims is the closed form over the first `n`; a claim whose name is already
registered is not valid any more and a later one cannot be the first.
For the gate, `LevelsShrink` and `TreeProperties` say that the levels of a tree
shrink to a single node, `PairsAboveLeaves` that above the leaves there are
pairs only, `HalvesAreBelow` that their halves are nodes one level further
down. So if carrying a row up through a proof ends at the root, every value on
the way is a node of its level; the row, which is no pair, is at the bottom,
and the proof has the height of the tree (`VerifiedRowIsInTree`). In the other
direction the ancestor of the `i`-th leaf in level `k` is where `Places` puts
it, with `Sibling` beside it (`RowOfTreeVerifies`, padding included).
`GateAccepts` is the loop with its two sets. A list of leaves exists only for a
finite registry, hence the invariant `FiniteRegistry`, inductive together with
`TypeOK`.

`HeaderWalksProofs`, for every finite tree of blocks and every list of its
headers, with true or made-up heights but no forged parent link
(`WrongHeaderAssumption`):

| Theorem | Statement |
| --- | --- |
| `TypeCorrect` | `Spec => []HeadersOK`, the list consists of headers of the tree and wrong ones |
| `WalletWalkSound` | `Spec => []WalletWalkIsAncestry` |
| `KernelWalkSound` | `Spec => []KernelWalkIsAncestry` |
| `ScannerIsValidateAndDeclaredFee` | `Spec => []ScannerAddsTheDeclaredFee` |
| `LinearIsValidateButPayment` | `Spec => []LinearLacksOnlyThePayment` |

`LineageExists` justifies the recursive definition of a lineage by induction on
the height of a block. A header determines its block except for a height a
host made up; the wallet compares heights, the kernel does not, which is why
the second theorem speaks of digests. Both walks are followed link by link:
the `k`-th header of an accepted list is the `k`-th block of the lineage.

`%validate-claim` and the scanner do not have the same rules: the first
compares the payment with the fee schedule, the second with the fee the claim
declares. `ScannerAddsTheDeclaredFee` is the exact relation, without a premise
on the claim. Without the evidence (the block of the claim is not that of the
page, or the headers do not link it to the tip) `%validate-claim` accepts
nothing; with it, it accepts what the scanner would accept had the claim
declared the fee of the schedule, provided it declared no less
(`VerdictIsScanners`).

`ClaimExtractionProofs`, for blocks of any length, any number of attempts and
of wrong answers:

| Theorem | Statement |
| --- | --- |
| `Invariant` | `Spec => []IInv` |
| `ClaimsCanonical` | `Spec => []ClaimsAreCanonical` |
| `OwnersSigned` | `Spec => []OwnerSigned` |
| `HullAndKernelAgree` | `Spec => []KernelOnlyJudgesNameAndPrice` |

`IInv` says what the answers are (details of transactions, not necessarily of
the ones asked for) and, once the fetch is done, that the claims list the claim
positions of the block in order. It is needed because none of the properties
can be read off the last step alone: `Finish` relies on answers given before.
`Align` throws out everything whose set of ids differs from the block's, so
that a stray answer fails the block and never alters it. `CanonicalOrderIs`
shows that the order of ids exists and is unique, by ranks; `OneClaim`,
`TransactionListed` and `BlockListed` follow the two nested loops of the
extraction.

`OwnerSigned` is about signed and unsigned transactions alike: the owner is
among the signers or, where the node reports none, among the names of the
spent notes; and unless the note names the owner, nobody else was among them.
`HullAndKernelAgree` measures the price by `Paid`, the real sum of the treasury
outputs. The hull adds them up with saturation, which `TreasurySumIsCapped`
shows to be the real sum, capped. A fee fits into a u64, so it is covered by
the capped sum exactly if it is covered by the real one (`FeeIsCovered`).

`ChainQueriesProofs`, for all chains, transactions, amounts and windows:

| Theorem | Statement |
| --- | --- |
| `Invariant` | `Spec => []IInv` |
| `PositionsAreCurrent` | `Spec => PositionIsCurrent` |
| `FreshAnchorsCoverWindow` | `Spec => FreshAnchorCoversWindow` |
| `VerifiedPaymentsAreMined` | `Spec => VerifiedPaymentIsMined` |

`IInv` ties the point a call has reached to what it knows (`StepFits`): that a
block is asked for by a height, and that a freshness check goes on to its
second question only if the first was answered in its favour. The three
properties are about the last step of a call, of which `IInv` keeps what the
earlier RPCs established. For the second, an anchor whose digest is on the
present chain comes from a server whose chain is a prefix of it, digests being
unique (`SameTipSameChain`), and on a longer prefix the registry only grows
(`RegistryGrows`). For the third, a saturating sum in the order of the outputs
is at most their real sum in any order (`TreasurySumIsPaid`, `SumSplits`), and
a fee the schedule asks for is at most what was summed.

The assumptions, each by its name in the module that declares the constants:

- `FoldAssumption`, `PoolAssumption`, `BlocksAssumption`, `ArgumentAssumption`:
  inputs are well typed.
- `MaxU64Assumption`, `StalenessAssumption`: two bounds are naturals.
- `TreeAssumption`: finitely many blocks, digests do not collide, a block is
  one higher than its parent. `WrongHeaderAssumption`: a header a host made up
  may have any height, but its digest and its parent belong to one block. That
  is a premise of both walks, which compare digests and recompute none (the
  comment on `chain-links-to` names it as what a later level is to remove).
- `FeesAssumption`: a u64 holds every fee of the schedule.
- `ZRankAssumption`, `TxAssumption` of `ClaimExtraction`: the order of the
  z-set is a total order of ids; an id determines its transaction, and the
  names of notes are among the names. `TxAssumption` of `ChainQueries`: amounts
  are naturals or missing.
- `ChainsAssumption`: a chain counts up from the genesis height, each block
  names the digest of the one before, and digests do not collide.

### The recursive step

| Theorem | Statement |
| --- | --- |
| `GenesisTraceFollows` | `Spec => []GenesisTraceIsSpec` |
| `TransitionTraceFollows` | `Spec => []TransitionTraceFollowsSpec` |

Both, in `KernelPartsProofs`, follow from `TypeOK` alone: they hold of every
registry, not only of the reachable ones. They are about programs, the
formulas, and about data laid out by axis; the proofs keep the two apart.

The parts of a noun, a tuple and the products of a formula are recursive
functions. That the first two exist is `RecursiveFcn` of `FoldFacts` (the part
at an axis depends on the one at half the axis; a tuple is counted from its
end). The product at an axis depends on products at greater axes, so there is
none to start from, unless the formula ends: `Finite` says that from some axis
on a noun has no parts, `AtomIsFinite` and `CellIsFinite` that what is built
from atoms and cells is finite, and `ProductsExist` counts down from the last
axis.

`Says(s, g, v)`: on subject `s`, formula `g` has product `v` at whatever axis
of whatever finite formula it stands. Stated like this it composes, and there
is one lemma for each way a formula is put together (`SaysPick`, `SaysLit`,
`SaysEq`, `SaysIf`, and from them `SaysNonzero`, `SaysEqual`, `SaysFww`,
`SaysAnd`). `GenesisSays` and `FullSays` are what the two compiled formulas say
of any subject, given the atoms at the slots they read. On the other side,
`EmptySubjectSlot` and `FullSubjectSlots` show that the builder puts at those
slots what their names promise, whatever the limbs are. It remains to compare
with the host's specification: the claimed name's key is no other name's, so it
differs from the one at the head of the rows if the name is free.

`RecursiveStepAssumption`: the first limbs of name keys are positive and
distinct for distinct names, the zero digest and no other is sent as 0. Both
are the ideal hashing of section 9.

### The wire

`KernelWireProofs`, for every kernel `NNSKernel` reaches, blocks and bundles
with lists of any length, and every name:

| Theorem | Statement | Besides `TypeOK` it needs |
| --- | --- | --- |
| `PokesAlwaysArrive` | `Spec => []PokesArrive` | nothing, not even `TypeOK` |
| `EffectsAlwaysHeard` | `Spec => []EffectsAreHeard` | |
| `RowsAlwaysRevalidate` | `Spec => []RowsRevalidate` | `ScannedIsLinkedRun` |
| `LookupsVerify` | `Spec => []LookupVerifies` | `RegistryIsReplay` |
| `SummariesAreTrue` | `Spec => []PeeksAreTrue` | `FiniteRegistry`, `RegistryIsReplay` |
| `CacheFollowsProofs` | `Spec => []ProofsAreCached` | |
| `ExportsAreUsable` | `Spec => []ExportedProofIsUsable` | `ProofsAreCached` |

Reading a noun is a recursion on its tails (`Tails`), building one a recursion
from its end (`Tuple`). `TailsExist` justifies the first by `RecursiveFcn`.
`IsSpine(noun, s, n, from)` says that the noun consists of the `n` elements of
`s`, `from` being what is left at each. `SpineTails` follows a spine by induction, and
`SpineFields` and `ListReads` are its two readings: a tuple gives back as many
fields as it was given, a list of any length its elements in order.
`AtomsBack` and `BytesBack` give back what was put into an atom; of the zero
atom, which is shared, they say which of its meanings the reader takes.

On this rest three layers. `PokeArrives`: a poke whose tag and number of
fields are those of one cause fits that cause and no other, and arrives with
its fields (`CauseTags`, `NoCause` for the pokes of earlier kernels).
`ScanArrives`, `TransitionArrives`, `BundlePokeIs`, `LinkArrives` and
`PageArrives` say which values these fields carry, `ClaimsRead`, `HeadersRead`
and `IdsRead` what the arm makes of the lists in them. `OneHeard` and
`TwoHeard` say what each decoder makes of an arm that emits one effect or two;
they name the decoders one by one, since a lemma cannot take an operator.

What makes the six properties more than round trips comes from the kernel's
own invariants. The headers since a scanned block are those of a linked run,
so `chain-links-to` walks them to the cursor (`HeadersLink`), and the verdict
on a claim is then the scanner's, but for one rule: the validator compares the
payment with the fee schedule, the scanner with the fee declared, which may be
more (`VerdictIs`). A row bears the name it is stored under because the registry is the replay of the
accepted blocks (`RowsAreNamed`); without this neither a lookup would verify
nor the debug list hold each row once (`SetListed`, which needs the registry
to be finite). The cached verification of an exported proof would trap if a
proof were stored without a cached pair: `ProofsAreCached`
(`recursiveProof # NoProof => lastProved # NoProof`) is inductive and excludes
it. The subject and formula that are traced do not depend on the height a
proof was bound to, so the cached pair accepts a proof exactly if both
computations agree but for that height (`VerifiesIs`).

`WireAssumption`: the empty unit is no computation, what is garbled is no
registry, and a poke lists finitely many transaction ids. The first two tell
apart the values that stand for the absence of data; the third is what a list
is.

### Model-checked only

Liveness: `CatchesUp` and `FetchEnds`, whose proofs need fairness and
`ENABLED`. Every other property of a passing run is the statement of a theorem.

## 8. Where code and documentation disagree

Each of the first five is the violation found by a run of its own; the lines are quoted in
`PROJECT.json` under `findings`.

- `kernel_payment_reuse`: two claims of one transaction, on different names,
  both become rows. The README says the kernel rejects reused `tx-hash`
  values.
- `kernel_dry_run`: the verdict of a dry run compares the product with
  `[1 1]`, the formula of the failing branch, whose product is `1`. Every
  trace that runs is reported as accepted, also one that rejects.
- `follower_rejection_phase`: the phase `scan_poke` of a kernel rejection is
  overwritten by the spawn loop.
- `follower_error_clears`: a successful tick without work leaves the last
  error on display.
- `hull_proof_tip`: the recursive proof in an answer can be about an older
  block than the cursor in the same answer.

Three more were met while modelling and have no run of their own:

- The validator traced inside the STARK, whose comment promises "Identical
  semantics to `validate-claim-bundle`" (`nns-predicates.hoon:521`), has none
  of its witness checks and accepts claims that were not paid for. That it
  lacks only the payment is `LinearLacksOnlyThePayment`.
- The comment at `nns-predicates.hoon:460` puts checks into `%validate-claim`
  so that it and `valid-claim` "stay aligned". Apart from the evidence, which only
  the first asks for, they differ in one point: a claim that declares more than
  it pays passes the first, if it pays what the schedule asks, and fails the
  second. `ScannerAddsTheDeclaredFee` is the exact relation.
- The gate in the compile-time tests (`names-test.hoon:70`) is an older copy
  of the kernel's, without the two conditions against repetition, so those
  tests say nothing about them; `AcceptedRowsAreRegistered` does.

## 9. Not modelled, and assumptions

- Tip5, jam and the STARK prover are ideal: hashes do not collide (nor do the
  first limbs of name keys), a proof verifies for its own computation only.
- The headers a host shows carry digests that match their parents: both walks
  compare digests and recompute none.
- Hull and kernel use the same genesis height; both hard-code it.
- The stall after a reorganisation deeper than the finality depth is
  acknowledged by the repository's own documentation as remaining work, so
  nothing is stated against it; safety through such a reorganisation is.
- Byte formats: hex, base58, jam, wallet packing, trimming of strings; atoms
  keep no byte length. The inference of an owner trims the signers and drops
  blank ones, the witness check does not (`chain_follower.rs:645`, `:692`); in
  the model both read one set, `Signers`. Names that are not ASCII, on which the two fee
  schedules differ, are in the extraction run.
- Decoders of what this kernel never emits: snapshot, owner, proof, anchor,
  pending batch, last settled, claim proof, primary set, claim count, anchor
  advanced, Vesl settlement.
- Legacy branches for tests: transaction ids that are not 40 bytes keep the
  order of the RPC list.
- `%prove-identity`, a round trip on constants, and the parity peeks, which
  evaluate operators modelled in `RecursiveStep` on fixed inputs; the digest
  limb comparisons of the tracer, which no formula in use contains; the
  registry computed and dropped by `transition-spec`.
- The Vesl graft, whose code is not in the repository, with its roots and
  settled notes; the gate it calls is modelled.
- Start-up: configuration, command line, signals.

## 10. Plan

Done: kernel with registry and predicates and its proofs; follower and its
proofs; API and wallet and their proofs; header walks and their proofs; extraction and
payment and their proofs; node queries and freshness and their proofs; the
scanner's fold and the settlement gate and their proofs; recursive step and
its proofs; codec and wire and their proofs.

Left, modelling, in order of use:

1. The in-STARK claim path: the subject and the formula of
   `build-validator-trace-inputs`, once the prover supports its opcodes.
2. z-set order and the packed blob format as algorithms against a definition.
3. The decoders that no effect of this kernel reaches, should the arms return.

The height a transition proof embeds (`app.hoon:900`, where the cursor has
moved already) is modelled as the code has it; no document says what it should
be, so there is nothing to check it against.

Left, proofs: none of a safety property. A new operation enters the induction
through `StepCases` of `NNSKernelProofs` or the list of actions of
`HullProofs`, a new poke or effect through `PokeArrives` and `OneHeard`.
