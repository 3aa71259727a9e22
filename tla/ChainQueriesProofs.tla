------------------------- MODULE ChainQueriesProofs -------------------------
(***************************************************************************)
(* Proofs about the calls that ask the node more than one question, for    *)
(* every set of chains and however the node moves between the questions.   *)
(***************************************************************************)
EXTENDS ChainQueries, FiniteSetTheorems, SequenceTheorems, TLAPS

(* The two loops: over the blocks of a chain for a registry, over the      *)
(* outputs of a transaction for a payment.                                 *)
Scan == INSTANCE FoldFacts WITH Op <- LAMBDA p, acc, b : ClaimScanner(acc, b)
Pays == INSTANCE FoldFacts WITH Op <- LAMBDA p, sum, out : AddOutput(sum, out)

LEMMA RegistryIsFold ==
  ASSUME NEW c
  PROVE  RegistryOf(c)
           = Scan!Fold(0, EnsureGenesisTld(EmptyAccumulator), c)
BY DEF RegistryOf, FoldLeft, MapThenFoldSet, Max,
       Scan!Fold, Scan!FoldLeft, Scan!MapThenFoldSet, Scan!Max

LEMMA TreasurySumIsFold ==
  ASSUME NEW tx
  PROVE  TreasurySum(tx) = Pays!Fold(0, 0, tx.outputs)
BY DEF TreasurySum, FoldLeft, MapThenFoldSet, Max,
       Pays!Fold, Pays!FoldLeft, Pays!MapThenFoldSet, Pays!Max

-----------------------------------------------------------------------------
(* The inductive invariant: the call under way is at a step of its own     *)
(* kind, and a wallet that is past its first question got a fresh answer.  *)
StepFits(c) ==
  \/ /\ c.step = "accepted"
     /\ c.asked.op \in {"accepted", "receipt", "submit", "verify"}
  \/ c.step = "tx_block" /\ c.asked.op \in {"height", "position", "page"}
  \/ c.step = "details" /\ c.asked.op \in {"details", "verify"}
  \/ c.step = "block" /\ c.asked.op = "block_proof"
  \/ /\ c.step = "block"
     /\ c.asked.op \in {"position", "page"}
     /\ c.seen \in Nat
  \/ c.step = "tip" /\ c.asked.op = "freshness"
  \/ /\ c.step = "block"
     /\ c.asked.op = "freshness"
     /\ c.seen \in Nat
     /\ Fresh(c.asked.anchor.height, c.seen)

CallOK ==
  call # Idle =>
    /\ call = [asked |-> call.asked, step |-> call.step, seen |-> call.seen]
    /\ call.asked \in Calls
    /\ StepFits(call)

IInv == chain \in Chains /\ CallOK

LEMMA TipHeightIsNat ==
  ASSUME chain \in Chains
  PROVE  TipHeight \in Nat /\ Len(chain) \in Nat /\ DOMAIN chain = 1 .. Len(chain)
<1>1. chain \in Seq(Range(chain))
  BY ChainsAssumption
<1> QED
  BY <1>1, AccumulatorAssumption DEF TipHeight

LEMMA HeightOfIsNat ==
  ASSUME chain \in Chains, NEW tx, Mined(tx)
  PROVE  HeightOf(tx) \in Nat
<1>1. PICK i \in DOMAIN chain : tx \in TxsOf(chain[i])
  BY DEF Mined
<1>2. i \in 1 .. Len(chain) /\ Len(chain) \in Nat /\ GenesisHeight \in Nat \ {0}
  BY <1>1, TipHeightIsNat, AccumulatorAssumption
<1> DEFINE h == GenesisHeight + i - 1
<1>3. h \in GenesisHeight .. TipHeight /\ h - GenesisHeight + 1 = i
  BY <1>2 DEF TipHeight
<1>4. tx \in TxsOf(BlockAt(h))
  BY <1>1, <1>3 DEF BlockAt
<1>5. HeightOf(tx) \in GenesisHeight .. TipHeight
  BY <1>3, <1>4 DEF HeightOf
<1> QED
  BY <1>2, <1>5, TipHeightIsNat

LEMMA FirstStepFits ==
  ASSUME NEW c \in Calls
  PROVE  StepFits([asked |-> c, step |-> FirstStep(c), seen |-> Nothing])
<1>1. c.op \in {"accepted", "receipt", "submit", "verify", "height",
                "position", "page", "details", "block_proof", "freshness"}
  BY DEF Calls
<1> QED
  BY <1>1 DEF StepFits, FirstStep

LEMMA StepMeansCall ==
  ASSUME NEW s, s # "none", call.step = s
  PROVE  call # Idle
<1>1. Idle.step = "none"
  BY DEF Idle
<1> QED
  BY <1>1

(* A call that goes on. *)
LEMMA ContinueFits ==
  ASSUME IInv, call # Idle, NEW step, NEW seen, Continue(step, seen),
         StepFits([asked |-> call.asked, step |-> step, seen |-> seen])
  PROVE  CallOK'
<1>1. call = [asked |-> call.asked, step |-> call.step, seen |-> call.seen]
      /\ call.asked \in Calls
  BY DEF IInv, CallOK
<1>2. call' = [asked |-> call.asked, step |-> step, seen |-> seen]
  BY <1>1 DEF Continue
<1> QED
  BY <1>1, <1>2 DEF CallOK

LEMMA NextPreserves == IInv /\ [Next]_vars => IInv'
<1> SUFFICES ASSUME IInv, [Next]_vars PROVE IInv'
  OBVIOUS
<1>1. CASE NodeMoves
  BY <1>1 DEF NodeMoves, IInv, CallOK
<1>2. CASE MempoolChanges
  BY <1>2 DEF MempoolChanges, IInv, CallOK
<1>3. ASSUME NEW c \in Calls, Ask(c) PROVE IInv'
  <2>1. chain' \in Chains
    BY <1>3 DEF Ask, IInv, environment
  <2>2. CASE call' = [asked |-> c, step |-> FirstStep(c), seen |-> Nothing]
    BY <2>1, <2>2, FirstStepFits DEF IInv, CallOK
  <2>3. CASE UNCHANGED call
    BY <2>1, <2>3 DEF IInv, CallOK
  <2> QED
    BY <1>3, <2>2, <2>3 DEF Ask
<1>4. CASE CheckAccepted
  <2>1. chain' \in Chains
    BY <1>4 DEF CheckAccepted, IInv, environment
  <2>2. CASE call' = Idle
    BY <2>1, <2>2 DEF IInv, CallOK
  <2>3. CASE call.asked.op = "verify" /\ Continue("details", Nothing)
    <3>1. call # Idle
      BY <1>4, StepMeansCall DEF CheckAccepted
    <3>2. StepFits([asked |-> call.asked, step |-> "details", seen |-> Nothing])
      BY <2>3 DEF StepFits
    <3> QED
      BY <2>1, <2>3, <3>1, <3>2, ContinueFits DEF IInv
  <2> QED
    BY <1>4, <2>2, <2>3 DEF CheckAccepted, Queued, Return
<1>5. CASE GetTransactionBlock
  <2>1. chain' \in Chains
    BY <1>5 DEF GetTransactionBlock, IInv, environment
  <2>2. CASE call' = Idle
    BY <2>1, <2>2 DEF IInv, CallOK
  <2>3. CASE /\ Mined(call.asked.tx)
             /\ call.asked.op # "height"
             /\ Continue("block", HeightOf(call.asked.tx))
    <3>1. call # Idle
      BY <1>5, StepMeansCall DEF GetTransactionBlock
    <3>2. call.asked.op \in {"position", "page"}
      BY <1>5, <2>3, <3>1 DEF GetTransactionBlock, IInv, CallOK, StepFits
    <3>3. HeightOf(call.asked.tx) \in Nat
      BY <2>3, HeightOfIsNat DEF IInv
    <3>4. StepFits([asked |-> call.asked, step |-> "block",
                    seen |-> HeightOf(call.asked.tx)])
      BY <3>2, <3>3 DEF StepFits
    <3> QED
      BY <2>1, <2>3, <3>1, <3>4, ContinueFits DEF IInv
  <2> QED
    BY <1>5, <2>2, <2>3 DEF GetTransactionBlock, Return
<1>6. CASE GetBlockDetails
  BY <1>6 DEF GetBlockDetails, Return, IInv, CallOK, environment
<1>7. CASE GetTransactionDetails
  BY <1>7 DEF GetTransactionDetails, Return, IInv, CallOK, environment
<1>8. CASE GetTip
  <2>1. chain' \in Chains
    BY <1>8 DEF GetTip, IInv, environment
  <2>2. CASE call' = Idle
    BY <2>1, <2>2 DEF IInv, CallOK
  <2>3. CASE /\ Fresh(call.asked.anchor.height, TipHeight)
             /\ Continue("block", TipHeight)
    <3>1. call # Idle
      BY <1>8, StepMeansCall DEF GetTip
    <3>2. call.asked.op = "freshness"
      BY <1>8, <3>1 DEF GetTip, IInv, CallOK, StepFits
    <3>3. TipHeight \in Nat
      BY TipHeightIsNat DEF IInv
    <3>4. StepFits([asked |-> call.asked, step |-> "block", seen |-> TipHeight])
      BY <2>3, <3>2, <3>3 DEF StepFits
    <3> QED
      BY <2>1, <2>3, <3>1, <3>4, ContinueFits DEF IInv
  <2> QED
    BY <1>8, <2>2, <2>3 DEF GetTip, Return
<1>9. CASE CallFails
  BY <1>9 DEF CallFails, Return, IInv, CallOK, environment
<1>10. CASE UNCHANGED vars
  BY <1>10 DEF vars, IInv, CallOK
<1> QED
  BY <1>1, <1>2, <1>3, <1>4, <1>5, <1>6, <1>7, <1>8, <1>9, <1>10 DEF Next

(* Between two RPCs of a call the call knows what its step needs: the      *)
(* step belongs to the call, and what was asked for is of its kind.        *)
THEOREM Invariant == Spec => []IInv
<1>1. Init => IInv
  BY DEF Init, IInv, CallOK
<1>2. IInv /\ [Next]_vars => IInv'
  BY NextPreserves
<1> QED
  BY <1>1, <1>2, PTL DEF Spec

-----------------------------------------------------------------------------
(* What is known of a step that returns Ok to a call that asked the node.  *)
LEMMA SuccessfulStep ==
  ASSUME IInv, [Next]_vars, NEW op, Succeeds(op)
  PROVE  /\ call.asked \in Calls /\ call.asked.op = op /\ StepFits(call)
         /\ reply'.ok
         /\ \/ CheckAccepted
            \/ GetTransactionBlock
            \/ GetBlockDetails
            \/ GetTransactionDetails
<1>1. call # Idle /\ call' = Idle /\ reply'.ok /\ call.asked.op = op
  BY DEF Succeeds
<1>2. ~NodeMoves /\ ~MempoolChanges /\ ~UNCHANGED vars
  BY <1>1 DEF NodeMoves, MempoolChanges, vars
<1>3. ASSUME NEW c \in Calls PROVE ~Ask(c)
  BY <1>1 DEF Ask
<1>4. ~CallFails
  BY <1>1 DEF CallFails, Return, Err
<1>5. ASSUME GetTip PROVE FALSE
  <2>1. CASE Return(Err("too stale"))
    BY <1>1, <2>1 DEF Return, Err
  <2>2. CASE Continue("block", TipHeight)
    <3>1. call = [asked |-> call.asked, step |-> call.step, seen |-> call.seen]
      BY <1>1 DEF IInv, CallOK
    <3>2. call' = [asked |-> call.asked, step |-> "block", seen |-> TipHeight]
      BY <2>2, <3>1 DEF Continue
    <3>3. call'.step = "block" /\ Idle.step = "none"
      BY <3>2 DEF Idle
    <3> QED
      BY <1>1, <3>3
  <2> QED
    BY <1>5, <2>1, <2>2 DEF GetTip
<1>6. call.asked \in Calls /\ StepFits(call)
  BY <1>1 DEF IInv, CallOK
<1> QED
  BY <1>1, <1>2, <1>3, <1>4, <1>5, <1>6 DEF Next

(* A successful answer to a position call that is not `pending' is the     *)
(* position found in the block just read.                                  *)
LEMMA PositionStep ==
  ASSUME IInv, [Next]_vars, Succeeds("position"), reply'.value # Nothing
  PROVE  /\ HasBlock(reply'.value.height)
         /\ BlockAt(reply'.value.height).txs[reply'.value.index + 1]
              = call.asked.tx
<1>1. call.asked.op = "position" /\ StepFits(call) /\ reply'.ok
  BY SuccessfulStep
<1>2. ~CheckAccepted /\ ~GetTransactionDetails
  BY <1>1 DEF CheckAccepted, GetTransactionDetails, StepFits
<1>3. ~GetTransactionBlock
  <2> SUFFICES ASSUME GetTransactionBlock PROVE FALSE
    OBVIOUS
  <2>1. call.step = "tx_block"
    BY DEF GetTransactionBlock
  <2>2. call' = Idle /\ call # Idle
    BY DEF Succeeds
  <2>3. ASSUME NEW h, Continue("block", h) PROVE FALSE
    <3>1. call = [asked |-> call.asked, step |-> call.step, seen |-> call.seen]
      BY <2>2 DEF IInv, CallOK
    <3>2. call' = [asked |-> call.asked, step |-> "block", seen |-> h]
      BY <2>3, <3>1 DEF Continue
    <3>3. call'.step = "block" /\ Idle.step = "none"
      BY <3>2 DEF Idle
    <3> QED
      BY <2>2, <3>3
  <2>4. \/ Return(Ok(Nothing))
        \/ Return(Err("unknown"))
    BY <1>1, <2>3 DEF GetTransactionBlock
  <2> QED
    BY <1>1, <2>4 DEF Return, Ok, Err
<1>4. GetBlockDetails
  BY <1>2, <1>3, SuccessfulStep
<1>5. call.seen \in Nat /\ HeightAsked = call.seen
  BY <1>1, <1>4 DEF GetBlockDetails, StepFits, HeightAsked
<1> DEFINE h  == call.seen
           b  == BlockAt(h)
           tx == call.asked.tx
<1>6. HasBlock(h) /\ reply' = PositionIn(b, tx)
  BY <1>1, <1>4, <1>5 DEF GetBlockDetails, Return, Err
<1>7. /\ tx \in TxsOf(b)
      /\ reply'.value = [height |-> h, index |-> IndexOf(b, tx)]
  BY <1>1, <1>6 DEF PositionIn, Ok, Err
<1> DEFINE i == CHOOSE i \in DOMAIN b.txs : b.txs[i] = tx
<1>8. i \in DOMAIN b.txs /\ b.txs[i] = tx
  BY <1>7 DEF TxsOf
<1>9. h - GenesisHeight + 1 \in DOMAIN chain
  BY <1>5, <1>6, TipHeightIsNat, AccumulatorAssumption
     DEF HasBlock, TipHeight, IInv
<1>10. b.txs \in Seq(Tx)
  BY <1>9, ChainsAssumption DEF BlockAt, IInv
<1>11. i \in Nat
  BY <1>8, <1>10, LenProperties
<1>12. IndexOf(b, tx) = i - 1
  BY DEF IndexOf
<1> HIDE DEF i
<1>13. IndexOf(b, tx) + 1 = i
  BY <1>11, <1>12
<1>14. reply'.value.height = h /\ reply'.value.index + 1 = i
  BY <1>7, <1>13
<1> HIDE DEF h
<1> QED
  BY <1>6, <1>8, <1>14

(* confirmed_tx_position: whatever the node does between the two RPCs, the *)
(* transaction is at the position that is returned.                        *)
THEOREM PositionsAreCurrent == Spec => PositionIsCurrent
<1>1. IInv /\ [Next]_vars =>
        [Succeeds("position") /\ reply'.value # Nothing =>
           /\ HasBlock(reply'.value.height)
           /\ BlockAt(reply'.value.height).txs[reply'.value.index + 1]
                = call.asked.tx]_vars
  BY PositionStep
<1> QED
  BY <1>1, Invariant, PTL DEF Spec, PositionIsCurrent

-----------------------------------------------------------------------------
LEMMA ChainIsSeq ==
  ASSUME NEW c \in Chains
  PROVE  Len(c) \in Nat /\ DOMAIN c = 1 .. Len(c) /\ c \in Seq(Range(c))
<1>1. c \in Seq(Range(c))
  BY ChainsAssumption
<1> QED
  BY <1>1

(* Two chains with the same last block are the same below it: a block      *)
(* names its parent by a digest, and digests do not collide.               *)
LEMMA SameTipSameChain ==
  ASSUME NEW c \in Chains, NEW d \in Chains, NEW k \in DOMAIN c,
         d # <<>>, d[Len(d)].digest = c[k].digest
  PROVE  Len(d) = k /\ \A i \in 1 .. k : d[i] = c[i]
<1>1. /\ Len(c) \in Nat /\ DOMAIN c = 1 .. Len(c)
      /\ Len(d) \in Nat \ {0} /\ DOMAIN d = 1 .. Len(d)
  BY ChainIsSeq, EmptySeq
<1>2. k \in 1 .. Len(c) /\ k \in Nat /\ Len(d) \in DOMAIN d
  BY <1>1
<1>3. d[Len(d)] = c[k]
  BY <1>2, ChainsAssumption
<1>4. Len(d) = k
  <2>1. c[k].height = GenesisHeight + k - 1
    BY ChainsAssumption
  <2>2. d[Len(d)].height = GenesisHeight + Len(d) - 1
    BY <1>2, ChainsAssumption
  <2> QED
    BY <1>1, <1>2, <1>3, <2>1, <2>2, AccumulatorAssumption
<1> DEFINE S == {i \in Nat : i < k => d[k - i] = c[k - i]}
<1>5. 0 \in S
  BY <1>2, <1>3, <1>4
<1>6. ASSUME NEW i \in Nat, i \in S PROVE i + 1 \in S
  <2> SUFFICES ASSUME i + 1 < k PROVE d[k - (i + 1)] = c[k - (i + 1)]
    OBVIOUS
  <2> DEFINE j == k - i
  <2>1. j \in 2 .. k /\ j - 1 = k - (i + 1) /\ j - 1 \in 1 .. k
    BY <1>2
  <2>2. d[j] = c[j]
    BY <1>2, <1>6
  <2> HIDE DEF j
  <2>3. j \in DOMAIN c /\ j \in DOMAIN d /\ j - 1 \in DOMAIN c
        /\ j - 1 \in DOMAIN d /\ j > 1
    BY <1>1, <1>2, <1>4, <2>1
  <2>4. c[j].parent = c[j - 1].digest /\ d[j].parent = d[j - 1].digest
    BY <2>3, ChainsAssumption
  <2>5. d[j - 1] = c[j - 1]
    BY <2>2, <2>3, <2>4, ChainsAssumption
  <2> QED
    BY <2>1, <2>5
<1>7. \A i \in Nat : i \in S
  <2> HIDE DEF S
  <2> QED
    BY <1>5, <1>6, Scan!NatInd
<1>8. ASSUME NEW i \in 1 .. k PROVE d[i] = c[i]
  <2>1. k - i \in S
    BY <1>2, <1>7
  <2>2. k - i < k /\ k - (k - i) = i
    BY <1>2
  <2> QED
    BY <2>1, <2>2
<1> QED
  BY <1>4, <1>8

(* A scan never removes or changes a row.                                  *)
LEMMA ScanKeepsRows ==
  ASSUME NEW acc, NEW b, NEW n, HasRow(acc, n)
  PROVE  HasRow(ClaimScanner(acc, b), n) /\ ClaimScanner(acc, b)[n] = acc[n]
<1>1. n \in DOMAIN acc
  BY DEF HasRow
<1> QED
  BY <1>1 DEF ClaimScanner, HasRow

(* The scans of a server over the first m blocks of c.                     *)
Scans(c, m) == Scan!Run(0, EnsureGenesisTld(EmptyAccumulator), c, m)

LEMMA RegistryRun ==
  ASSUME NEW c, NEW m \in Nat, DOMAIN c = 1 .. m
  PROVE  /\ Scans(c, m)[0] = EnsureGenesisTld(EmptyAccumulator)
         /\ \A i \in 1 .. m :
              Scans(c, m)[i] = ClaimScanner(Scans(c, m)[i - 1], c[i])
         /\ RegistryOf(c) = Scans(c, m)[m]
<1> DEFINE base == EnsureGenesisTld(EmptyAccumulator)
<1> HIDE DEF base
<1>1. /\ Scan!Run(0, base, c, m)[0] = base
      /\ \A i \in 1 .. m :
           Scan!Run(0, base, c, m)[i]
             = ClaimScanner(Scan!Run(0, base, c, m)[i - 1], c[i])
      /\ Scan!Fold(0, base, c) = Scan!Run(0, base, c, m)[m]
  BY Scan!FoldRun
<1> QED
  BY <1>1, RegistryIsFold DEF Scans, base

(* The registry of a longer list of blocks has every row of a shorter one. *)
LEMMA RegistryGrows ==
  ASSUME NEW c, NEW d, NEW m \in Nat, NEW k \in Nat, m <= k,
         DOMAIN c = 1 .. m, DOMAIN d = 1 .. k,
         \A i \in 1 .. m : c[i] = d[i]
  PROVE  \A n \in DOMAIN RegistryOf(c) :
           HasRow(RegistryOf(d), n) /\ RegistryOf(d)[n] = RegistryOf(c)[n]
<1> DEFINE f == Scans(c, m)
           g == Scans(d, k)
<1>1. f[0] = g[0] /\ RegistryOf(c) = f[m] /\ RegistryOf(d) = g[k]
  BY RegistryRun
<1>2. \A i \in 1 .. m : f[i] = ClaimScanner(f[i - 1], c[i])
  BY RegistryRun
<1>3. \A i \in 1 .. k : g[i] = ClaimScanner(g[i - 1], d[i])
  BY RegistryRun
<1> HIDE DEF f, g
<1> DEFINE S == {i \in Nat : i <= m => f[i] = g[i]}
<1>4. m \in S
  <2>1. 0 \in S
    BY <1>1
  <2>2. ASSUME NEW i \in Nat, i \in S PROVE i + 1 \in S
    <3> SUFFICES ASSUME i + 1 <= m PROVE f[i + 1] = g[i + 1]
      OBVIOUS
    <3>1. i + 1 \in 1 .. m /\ i + 1 \in 1 .. k /\ (i + 1) - 1 = i /\ i <= m
      OBVIOUS
    <3> QED
      BY <1>2, <1>3, <2>2, <3>1
  <2> HIDE DEF S
  <2> QED
    BY <2>1, <2>2, Scan!NatInd
<1> DEFINE T == {i \in Nat : m <= i /\ i <= k =>
                   \A n \in DOMAIN f[m] : HasRow(g[i], n) /\ g[i][n] = f[m][n]}
<1>5. k \in T
  <2>1. 0 \in T
    BY <1>4 DEF HasRow
  <2>2. ASSUME NEW i \in Nat, i \in T PROVE i + 1 \in T
    <3> SUFFICES ASSUME m <= i + 1, i + 1 <= k, NEW n \in DOMAIN f[m]
                 PROVE  HasRow(g[i + 1], n) /\ g[i + 1][n] = f[m][n]
      OBVIOUS
    <3>1. CASE m = i + 1
      BY <1>4, <3>1 DEF HasRow
    <3>2. CASE m <= i
      <4>1. HasRow(g[i], n) /\ g[i][n] = f[m][n]
        BY <2>2, <3>2
      <4>2. i + 1 \in 1 .. k /\ (i + 1) - 1 = i
        OBVIOUS
      <4>3. g[i + 1] = ClaimScanner(g[i], d[i + 1])
        BY <1>3, <4>2
      <4> QED
        BY <4>1, <4>3, ScanKeepsRows
    <3> QED
      BY <3>1, <3>2
  <2> HIDE DEF T
  <2> QED
    BY <2>1, <2>2, Scan!NatInd
<1> QED
  BY <1>1, <1>5

(* The wallet got a fresh anchor that its own chain binds.                 *)
LEMMA FreshnessStep ==
  ASSUME IInv, [Next]_vars, Succeeds("freshness"),
         NEW server \in Chains \ {<<>>}, NEW t \in GenesisHeight .. TipHeight,
         server[Len(server)].digest = reply'.value.digest,
         t + MaxStaleness <= call.seen
  PROVE  LET old == RegistryOf(SubSeq(chain, 1, t - GenesisHeight + 1))
             its == RegistryOf(server)
         IN  \A n \in DOMAIN old : HasRow(its, n) /\ its[n] = old[n]
<1>1. call.asked \in Calls /\ call.asked.op = "freshness" /\ StepFits(call)
      /\ reply'.ok
  BY SuccessfulStep
<1>2. ~CheckAccepted /\ ~GetTransactionDetails /\ ~GetTransactionBlock
  BY <1>1 DEF CheckAccepted, GetTransactionDetails, GetTransactionBlock, StepFits
<1>3. GetBlockDetails
  BY <1>2, SuccessfulStep
<1> DEFINE a == call.asked.anchor
           k == a.height - GenesisHeight + 1
           m == t - GenesisHeight + 1
<1>4. a \in Anchor
  BY <1>1 DEF Calls
<1>5. a.height \in Nat /\ call.seen \in Nat /\ Fresh(a.height, call.seen)
  BY <1>1, <1>3, <1>4, ArgumentAssumption DEF GetBlockDetails, StepFits
<1>6. HeightAsked = a.height
  BY <1>1 DEF HeightAsked
<1>7. /\ HasBlock(a.height)
      /\ AnchorBound(a.digest, BlockAt(a.height).digest)
      /\ reply'.value = a
  BY <1>1, <1>3, <1>6 DEF GetBlockDetails, Return, Ok, Err
<1>8. /\ chain \in Chains /\ TipHeight \in Nat /\ Len(chain) \in Nat
      /\ DOMAIN chain = 1 .. Len(chain) /\ GenesisHeight \in Nat \ {0}
      /\ MaxStaleness \in Nat
  BY TipHeightIsNat, AccumulatorAssumption, StalenessAssumption DEF IInv
<1>9. k \in DOMAIN chain /\ k \in Nat
  <2> HIDE DEF a
  <2>1. a.height >= GenesisHeight /\ a.height <= GenesisHeight + Len(chain) - 1
    BY <1>7 DEF HasBlock, TipHeight
  <2>2. k \in 1 .. Len(chain)
    BY <1>5, <1>8, <2>1
  <2> QED
    BY <1>8, <2>2
<1>10. server[Len(server)].digest = chain[k].digest
  BY <1>7 DEF AnchorBound, BlockAt
<1>11. Len(server) = k /\ \A i \in 1 .. k : server[i] = chain[i]
  <2> HIDE DEF k
  <2> QED
    BY <1>8, <1>9, <1>10, SameTipSameChain
<1>12. m \in Nat /\ m <= k
  BY <1>5, <1>8 DEF Fresh
<1> DEFINE c == SubSeq(chain, 1, m)
<1>13. DOMAIN c = 1 .. m /\ \A i \in 1 .. m : c[i] = chain[i]
  <2> HIDE DEF k, m
  <2>1. \A i \in 1 .. m : chain[i] \in Range(chain)
    BY <1>8, <1>9, <1>12 DEF Range
  <2>2. /\ c \in Seq(Range(chain))
        /\ Len(c) = IF 1 <= m THEN m - 1 + 1 ELSE 0
        /\ \A i \in 1 .. m - 1 + 1 : c[i] = chain[1 + i - 1]
    BY <1>12, <2>1, SubSeqProperties
  <2> HIDE DEF c
  <2>3. DOMAIN c = 1 .. Len(c)
    BY <2>2, LenProperties
  <2> QED
    BY <1>12, <2>2, <2>3
<1>14. DOMAIN server = 1 .. k
  BY <1>11, ChainIsSeq
<1>15. \A i \in 1 .. m : c[i] = server[i]
  BY <1>8, <1>9, <1>11, <1>12, <1>13
<1> HIDE DEF c, k
<1> HIDE DEF m
<1>16. \A n \in DOMAIN RegistryOf(c) :
         HasRow(RegistryOf(server), n)
           /\ RegistryOf(server)[n] = RegistryOf(c)[n]
  BY <1>9, <1>12, <1>13, <1>14, <1>15, RegistryGrows
<1> QED
  BY <1>16 DEF c, m

(* Freshness::check and check_anchor_binding: for every window, every set  *)
(* of branches and every list of claims in their blocks, a proof that      *)
(* passes both hides no claim that is older than the window.               *)
THEOREM FreshAnchorsCoverWindow == Spec => FreshAnchorCoversWindow
<1>1. IInv /\ [Next]_vars =>
        [Succeeds("freshness") =>
           \A server \in Chains \ {<<>>}, t \in GenesisHeight .. TipHeight :
             LET old == RegistryOf(SubSeq(chain, 1, t - GenesisHeight + 1))
                 its == RegistryOf(server)
             IN  /\ server[Len(server)].digest = reply'.value.digest
                 /\ t + MaxStaleness <= call.seen
                 => \A n \in DOMAIN old :
                      HasRow(its, n) /\ its[n] = old[n]]_vars
  BY FreshnessStep
<1> QED
  BY <1>1, Invariant, PTL DEF Spec, FreshAnchorCoversWindow

-----------------------------------------------------------------------------
(* What MapThenSumSet adds up, over the outputs outs at the positions in s. *)
Pick(s) == CHOOSE x \in s : TRUE

SumBody(outs, g, s) ==
  IF s = {} THEN 0 ELSE outs[Pick(s)].amount + g[s \ {Pick(s)}]

IsSum(outs, g, S) == g = [s \in SUBSET S |-> SumBody(outs, g, s)]

Sum(outs, S) == CHOOSE g : IsSum(outs, g, S)

LEMMA SetLosesOne ==
  ASSUME NEW s, IsFiniteSet(s), NEW x \in s
  PROVE  /\ IsFiniteSet(s \ {x})
         /\ Cardinality(s) \in Nat
         /\ Cardinality(s \ {x}) = Cardinality(s) - 1
BY FS_RemoveElement, FS_CardinalityType

LEMMA SumExists ==
  ASSUME NEW outs, NEW S, IsFiniteSet(S)
  PROVE  IsSum(outs, Sum(outs, S), S)
<1> DEFINE Small(k) == {s \in SUBSET S : Cardinality(s) <= k}
           N == {k \in Nat : \E g : g = [s \in Small(k) |-> SumBody(outs, g, s)]}
<1>1. ASSUME NEW s \in SUBSET S PROVE IsFiniteSet(s) /\ Cardinality(s) \in Nat
  BY FS_Subset, FS_CardinalityType
<1>2. 0 \in N
  <2> DEFINE g == [s \in Small(0) |-> 0]
  <2>1. \A s \in Small(0) : s = {}
    BY <1>1, FS_EmptySet
  <2>2. g = [s \in Small(0) |-> SumBody(outs, g, s)]
    BY <2>1 DEF SumBody
  <2> QED
    BY <2>2
<1>3. ASSUME NEW k \in Nat, k \in N PROVE k + 1 \in N
  <2>1. PICK g : g = [s \in Small(k) |-> SumBody(outs, g, s)]
    BY <1>3
  <2> DEFINE h == [s \in Small(k + 1) |-> SumBody(outs, g, s)]
  <2>2. ASSUME NEW s \in Small(k + 1), s # {} PROVE s \ {Pick(s)} \in Small(k)
    <3>1. Pick(s) \in s
      BY <2>2 DEF Pick
    <3>2. IsFiniteSet(s)
      BY <1>1
    <3>3. Cardinality(s \ {Pick(s)}) = Cardinality(s) - 1 /\ Cardinality(s) \in Nat
      BY <3>1, <3>2, SetLosesOne
    <3>4. Cardinality(s) <= k + 1
      OBVIOUS
    <3> QED
      BY <3>3, <3>4
  <2>3. \A s \in Small(k) : s \in Small(k + 1)
    BY <1>1
  <2> HIDE DEF Small
  <2>4. ASSUME NEW s \in Small(k) PROVE h[s] = g[s]
    BY <2>1, <2>3
  <2>5. ASSUME NEW s \in Small(k + 1)
        PROVE  SumBody(outs, g, s) = SumBody(outs, h, s)
    BY <2>2, <2>4 DEF SumBody
  <2>6. h = [s \in Small(k + 1) |-> SumBody(outs, h, s)]
    BY <2>5
  <2> HIDE DEF h
  <2> QED
    BY <2>6
<1>4. Cardinality(S) \in N
  <2>1. Cardinality(S) \in Nat
    BY FS_CardinalityType
  <2> HIDE DEF N
  <2> QED
    BY <1>2, <1>3, <2>1, Pays!NatInd
<1>5. Small(Cardinality(S)) = SUBSET S
  BY FS_Subset
<1>6. \E g : IsSum(outs, g, S)
  <2> HIDE DEF Small
  <2> QED
    BY <1>4, <1>5 DEF IsSum
<1> QED
  BY <1>6 DEF Sum

(* The order of the summands does not matter: any of them can be split     *)
(* off.                                                                    *)
SplitsOff(outs, g, S) ==
  /\ g[{}] = 0
  /\ \A s \in SUBSET S :
       /\ g[s] \in Nat
       /\ \A y \in s : g[s] = outs[y].amount + g[s \ {y}]

LEMMA SumSplits ==
  ASSUME NEW outs, NEW S, IsFiniteSet(S), \A i \in S : outs[i].amount \in Nat
  PROVE  SplitsOff(outs, Sum(outs, S), S)
<1> DEFINE g == Sum(outs, S)
<1>1. \A s \in SUBSET S : g[s] = SumBody(outs, g, s)
  <2>1. IsSum(outs, g, S)
    BY SumExists
  <2> HIDE DEF g
  <2> QED
    BY <2>1 DEF IsSum
<1> HIDE DEF g
<1>2. g[{}] = 0
  BY <1>1 DEF SumBody
<1>3. \A s \in SUBSET S : s # {} =>
        /\ Pick(s) \in s
        /\ g[s] = outs[Pick(s)].amount + g[s \ {Pick(s)}]
  BY <1>1 DEF SumBody, Pick
<1> DEFINE Splits(s) == /\ g[s] \in Nat
                        /\ \A y \in s : g[s] = outs[y].amount + g[s \ {y}]
           N == {k \in Nat : \A s \in SUBSET S : Cardinality(s) <= k => Splits(s)}
<1>4. ASSUME NEW s \in SUBSET S PROVE IsFiniteSet(s) /\ Cardinality(s) \in Nat
  BY FS_Subset, FS_CardinalityType
<1>5. 0 \in N
  BY <1>2, <1>4, FS_EmptySet
<1>6. ASSUME NEW k \in Nat, k \in N PROVE k + 1 \in N
  <2> SUFFICES ASSUME NEW s \in SUBSET S, Cardinality(s) <= k + 1
               PROVE  Splits(s)
    OBVIOUS
  <2>1. CASE s = {}
    BY <1>2, <2>1
  <2>2. CASE s # {}
    <3> DEFINE x == Pick(s)
    <3>1. x \in s /\ g[s] = outs[x].amount + g[s \ {x}]
      BY <1>3, <2>2
    <3> HIDE DEF x
    <3>2. ASSUME NEW y \in s PROVE Splits(s \ {y})
      <4>1. IsFiniteSet(s) /\ Cardinality(s) \in Nat
        BY <1>4
      <4>2. Cardinality(s \ {y}) = Cardinality(s) - 1
        BY <4>1, SetLosesOne
      <4>3. s \ {y} \in SUBSET S /\ Cardinality(s \ {y}) <= k
        BY <4>1, <4>2
      <4> QED
        BY <1>6, <4>3
    <3>3. \A y \in s : outs[y].amount \in Nat
      OBVIOUS
    <3>4. g[s] \in Nat
      BY <3>1, <3>2, <3>3
    <3>5. ASSUME NEW y \in s, y # x PROVE g[s] = outs[y].amount + g[s \ {y}]
      <4> DEFINE r == (s \ {x}) \ {y}
      <4>1. r = (s \ {y}) \ {x}
        OBVIOUS
      <4>2. g[s \ {x}] = outs[y].amount + g[r]
        BY <3>1, <3>2, <3>5
      <4>3. g[s \ {y}] = outs[x].amount + g[r]
        BY <3>1, <3>2, <3>5, <4>1
      <4>4. Splits(s \ {x}) /\ Splits(s \ {y})
        BY <3>1, <3>2
      <4>5. g[s \ {x}] \in Nat /\ g[s \ {y}] \in Nat
        BY <4>4
      <4>6. r = s \ {x, y} /\ r \in SUBSET S /\ Cardinality(r) <= k
        <5>1. IsFiniteSet(s) /\ Cardinality(s) \in Nat
          BY <1>4
        <5>2. IsFiniteSet(s \ {x}) /\ Cardinality(s \ {x}) = Cardinality(s) - 1
          BY <3>1, <5>1, SetLosesOne
        <5>3. Cardinality(r) = Cardinality(s \ {x}) - 1
          BY <3>5, <5>2, SetLosesOne
        <5> QED
          BY <5>1, <5>2, <5>3
      <4>7. g[r] \in Nat
        BY <1>6, <4>6
      <4> HIDE DEF r
      <4> QED
        BY <3>1, <3>3, <3>5, <4>2, <4>3, <4>7
    <3> QED
      BY <3>1, <3>4, <3>5
  <2> QED
    BY <2>1, <2>2
<1>7. ASSUME NEW s \in SUBSET S PROVE Splits(s)
  <2>1. \A k \in Nat : k \in N
    <3> HIDE DEF N
    <3> QED
      BY <1>5, <1>6, Pays!NatInd
  <2> HIDE DEF Splits
  <2> QED
    BY <1>4, <2>1
<1>8. SplitsOff(outs, g, S)
  BY <1>2, <1>7 DEF SplitsOff
<1> QED
  BY <1>8 DEF g

(* The loop over the outputs never counts more than they pay: it adds what *)
(* an output pays to the treasury, or less where a u64 is full.            *)
LEMMA TreasurySumIsPaid ==
  ASSUME NEW tx \in Tx,
         NEW paid, paid = {i \in DOMAIN tx.outputs :
                             /\ OutputPaysTreasury(tx.outputs[i])
                             /\ tx.outputs[i].amount # Nothing}
  PROVE  /\ TreasurySum(tx) \in Nat
         /\ MapThenSumSet(LAMBDA i : tx.outputs[i].amount, paid) \in Nat
         /\ TreasurySum(tx)
              <= MapThenSumSet(LAMBDA i : tx.outputs[i].amount, paid)
<1>1. PICK outs : outs = tx.outputs
  OBVIOUS
<1>2. PICK n : n = Len(outs)
  OBVIOUS
<1>3. /\ n \in Nat /\ DOMAIN outs = 1 .. n
      /\ \A i \in 1 .. n : outs[i].amount \in Nat \cup {Nothing}
  <2>1. outs \in Seq(Range(outs))
    BY <1>1, TxAssumption
  <2>2. n \in Nat /\ DOMAIN outs = 1 .. n
    BY <1>2, <2>1, LenProperties
  <2> QED
    BY <1>1, <2>2, TxAssumption DEF Range
<1>4. /\ paid \subseteq 1 .. n
      /\ \A i \in 1 .. n : i \in paid <=> /\ OutputPaysTreasury(outs[i])
                                          /\ outs[i].amount # Nothing
      /\ \A i \in paid : outs[i].amount \in Nat
  BY <1>1, <1>3
<1>5. IsFiniteSet(paid)
  BY <1>3, <1>4, FS_Interval, FS_Subset
<1> DEFINE g == Sum(outs, paid)
<1>6. MapThenSumSet(LAMBDA i : tx.outputs[i].amount, paid) = g[paid]
  BY <1>1 DEF MapThenSumSet, MapThenFoldSet, Sum, IsSum, SumBody, Pick
<1>7. SplitsOff(outs, g, paid)
  <2>1. \A i \in paid : outs[i].amount \in Nat
    BY <1>4
  <2> QED
    BY <1>5, <2>1, SumSplits
<1> HIDE DEF g
<1> DEFINE f == Pays!Run(0, 0, outs, n)
<1>8. /\ f[0] = 0
      /\ \A i \in 1 .. n : f[i] = AddOutput(f[i - 1], outs[i])
      /\ TreasurySum(tx) = f[n]
  <2>1. /\ f[0] = 0
        /\ \A i \in 1 .. n : f[i] = AddOutput(f[i - 1], outs[i])
        /\ Pays!Fold(0, 0, outs) = f[n]
    BY <1>3, Pays!FoldRun
  <2> HIDE DEF f
  <2> QED
    BY <1>1, <2>1, TreasurySumIsFold
<1> HIDE DEF f
<1> DEFINE P(i) == {j \in paid : j <= i}
           N == {i \in Nat : i <= n => f[i] \in Nat /\ f[i] <= g[P(i)]}
<1>9. 0 \in N
  <2>1. P(0) = {}
    BY <1>3, <1>4
  <2> QED
    BY <1>7, <1>8, <2>1 DEF SplitsOff
<1>10. ASSUME NEW i \in Nat, i \in N PROVE i + 1 \in N
  <2> SUFFICES ASSUME i + 1 <= n
               PROVE  f[i + 1] \in Nat /\ f[i + 1] <= g[P(i + 1)]
    OBVIOUS
  <2>1. i + 1 \in 1 .. n /\ (i + 1) - 1 = i /\ i <= n
    BY <1>3
  <2>2. f[i] \in Nat /\ f[i] <= g[P(i)] /\ g[P(i)] \in Nat
    BY <1>3, <1>7, <1>10 DEF SplitsOff
  <2>3. f[i + 1] = AddOutput(f[i], outs[i + 1])
    BY <1>8, <2>1
  <2>4. CASE i + 1 \in paid
    <3>1. P(i + 1) \in SUBSET paid /\ i + 1 \in P(i + 1)
      BY <2>4
    <3>2. P(i + 1) \ {i + 1} = P(i)
      BY <1>3, <1>4
    <3>3. g[P(i + 1)] = outs[i + 1].amount + g[P(i)]
      BY <1>7, <3>1, <3>2 DEF SplitsOff
    <3>4. f[i + 1] = SaturatingAdd(f[i], outs[i + 1].amount)
      BY <1>4, <2>1, <2>3, <2>4 DEF AddOutput
    <3>5. outs[i + 1].amount \in Nat
      BY <1>4, <2>4
    <3> HIDE DEF P
    <3> QED
      BY <2>2, <3>3, <3>4, <3>5, MaxU64Assumption DEF SaturatingAdd
  <2>5. CASE i + 1 \notin paid
    <3>1. P(i + 1) = P(i)
      BY <1>3, <1>4, <2>5
    <3>2. f[i + 1] = f[i]
      BY <1>4, <2>1, <2>3, <2>5 DEF AddOutput
    <3> HIDE DEF P
    <3> QED
      BY <2>2, <3>1, <3>2
  <2> QED
    BY <2>4, <2>5
<1>11. n \in N
  <2> HIDE DEF N
  <2> QED
    BY <1>3, <1>9, <1>10, Pays!NatInd
<1>12. P(n) = paid
  BY <1>3, <1>4
<1>13. f[n] \in Nat /\ f[n] <= g[paid] /\ g[paid] \in Nat
  <2>1. f[n] \in Nat /\ f[n] <= g[P(n)]
    BY <1>3, <1>11
  <2> HIDE DEF P
  <2> QED
    BY <1>7, <1>12, <2>1 DEF SplitsOff
<1> QED
  BY <1>6, <1>8, <1>13, Zenon

-----------------------------------------------------------------------------
(* The tail of payment::verify, reached with a mined transaction.          *)
LEMMA PaymentStep ==
  ASSUME IInv, [Next]_vars, Succeeds("verify")
  PROVE  LET tx   == reply'.value
             paid == {i \in DOMAIN tx.outputs :
                        /\ OutputPaysTreasury(tx.outputs[i])
                        /\ tx.outputs[i].amount # Nothing}
         IN  /\ tx = call.asked.tx
             /\ Mined(tx)
             /\ \E i \in DOMAIN tx.inputs :
                  tx.inputs[i].noteName = call.asked.address
             /\ MapThenSumSet(LAMBDA i : tx.outputs[i].amount, paid)
                  >= call.asked.fee
<1>1. call.asked \in Calls /\ call.asked.op = "verify" /\ StepFits(call)
      /\ reply'.ok
  BY SuccessfulStep
<1>2. ~GetBlockDetails /\ ~GetTransactionBlock
  BY <1>1 DEF GetBlockDetails, GetTransactionBlock, StepFits
<1>3. ~CheckAccepted
  <2> SUFFICES ASSUME CheckAccepted PROVE FALSE
    OBVIOUS
  <2>1. call' = Idle /\ call # Idle
    BY DEF Succeeds
  <2>2. CASE Continue("details", Nothing)
    <3>1. call = [asked |-> call.asked, step |-> call.step, seen |-> call.seen]
      BY <2>1 DEF IInv, CallOK
    <3>2. call' = [asked |-> call.asked, step |-> "details", seen |-> Nothing]
      BY <2>2, <3>1 DEF Continue
    <3>3. call'.step = "details" /\ Idle.step = "none"
      BY <3>2 DEF Idle
    <3> QED
      BY <2>1, <3>3
  <2>3. CASE Return(Err("not accepted"))
    BY <1>1, <2>3 DEF Return, Err
  <2> QED
    BY <1>1, <2>2, <2>3 DEF CheckAccepted, Queued
<1>4. GetTransactionDetails
  BY <1>2, <1>3, SuccessfulStep
<1> DEFINE c == call.asked
<1>5. Mined(c.tx) /\ reply' = PaymentVerdict(c)
  BY <1>1, <1>4 DEF GetTransactionDetails, Return, Err
<1>6. /\ c.address \in NoteNames(c.tx)
      /\ ~(TreasurySum(c.tx) < c.fee)
      /\ reply'.value = c.tx
  BY <1>1, <1>5 DEF PaymentVerdict, Ok, Err
<1>7. c.fee \in Nat /\ c.tx \in Tx \cup {Nothing}
  BY <1>1, ArgumentAssumption DEF Calls
<1>8. c.tx \in Tx
  <2>1. PICK j \in DOMAIN chain : c.tx \in TxsOf(chain[j])
    BY <1>5 DEF Mined
  <2>2. chain[j].txs \in Seq(Tx)
    BY ChainsAssumption DEF IInv
  <2> QED
    BY <2>1, <2>2, LenProperties DEF TxsOf
<1> DEFINE paid == {i \in DOMAIN c.tx.outputs :
                      /\ OutputPaysTreasury(c.tx.outputs[i])
                      /\ c.tx.outputs[i].amount # Nothing}
           sum == MapThenSumSet(LAMBDA i : c.tx.outputs[i].amount, paid)
<1>9. sum >= c.fee
  <2>1. /\ TreasurySum(c.tx) \in Nat
        /\ sum \in Nat
        /\ TreasurySum(c.tx) <= sum
    BY <1>8, TreasurySumIsPaid
  <2> HIDE DEF sum, c
  <2> QED
    BY <1>6, <1>7, <2>1
<1>10. \E i \in DOMAIN c.tx.inputs : c.tx.inputs[i].noteName = c.address
  BY <1>6 DEF NoteNames
<1> QED
  BY <1>5, <1>6, <1>9, <1>10

(* payment::verify: whatever the node does between the two RPCs, and       *)
(* whatever the amounts, only a mined transaction passes that spends a     *)
(* note of the address and really pays the fee.                            *)
THEOREM VerifiedPaymentsAreMined == Spec => VerifiedPaymentIsMined
<1>1. IInv /\ [Next]_vars =>
        [Succeeds("verify") =>
           LET tx   == reply'.value
               paid == {i \in DOMAIN tx.outputs :
                          /\ OutputPaysTreasury(tx.outputs[i])
                          /\ tx.outputs[i].amount # Nothing}
           IN  /\ tx = call.asked.tx
               /\ Mined(tx)
               /\ \E i \in DOMAIN tx.inputs :
                    tx.inputs[i].noteName = call.asked.address
               /\ MapThenSumSet(LAMBDA i : tx.outputs[i].amount, paid)
                    >= call.asked.fee]_vars
  BY PaymentStep
<1> QED
  BY <1>1, Invariant, PTL DEF Spec, VerifiedPaymentIsMined
=============================================================================
