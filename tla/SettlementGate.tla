--------------------------- MODULE SettlementGate ---------------------------
(***************************************************************************)
(* The gate the kernel hands to the Vesl graft for %vesl-verify and        *)
(* %vesl-settle (+nns-gate in hoon/app/app.hoon): given a batch of rows    *)
(* with Merkle proofs and the root registered for a commitment, it says    *)
(* whether the batch may be settled.  Here it meets commitments to the     *)
(* registries NNSKernel reaches.  The graft itself and its Merkle library  *)
(* are outside the repository; trees and proofs are built as the fixtures  *)
(* of hoon/app/names-test.hoon build them.                                 *)
(*                                                                         *)
(* A hash is the term it was computed from.                                *)
(***************************************************************************)
EXTENDS NNSKernel, SequencesExt

-----------------------------------------------------------------------------
HashLeaf(row) == [row |-> row]

HashPair(l, r) == [left |-> l, right |-> r]

(* One level up; an odd last node is paired with itself. *)
NextLevel(level) ==
  [i \in 1 .. (Len(level) + 1) \div 2 |->
     HashPair(level[2 * i - 1],
              IF 2 * i <= Len(level) THEN level[2 * i] ELSE level[2 * i - 1])]

(* The levels of the tree over `rows', leaves first; the last ones are     *)
(* above the root.                                                         *)
Levels(rows) ==
  LET level[k \in 0 .. Len(rows)] ==
        IF k = 0 THEN [i \in DOMAIN rows |-> HashLeaf(rows[i])]
                 ELSE NextLevel(level[k - 1])
  IN  level

Height(rows) == CHOOSE k \in 0 .. Len(rows) : Len(Levels(rows)[k]) = 1

ComputeRoot(rows) == Levels(rows)[Height(rows)][1]

(* Where the ancestors of the i-th leaf are in their levels.               *)
Places(rows, i) ==
  LET place[k \in 0 .. Len(rows)] ==
        IF k = 0 THEN i ELSE (place[k - 1] + 1) \div 2
  IN  place

(* What stands next to the p-th node of a level: the node itself if it is  *)
(* an odd last one.  `left' is %.y, the sibling goes in front.             *)
Sibling(level, p) ==
  LET q == IF p % 2 = 0 THEN p - 1 ELSE p + 1
  IN  [hash |-> level[IF q <= Len(level) THEN q ELSE p], left |-> p % 2 = 0]

(* The siblings on the way up from the i-th leaf. *)
ProofFor(rows, i) ==
  [k \in 1 .. Height(rows) |->
     Sibling(Levels(rows)[k - 1], Places(rows, i)[k - 1])]

CarryUp(h, n) == IF n.left THEN HashPair(n.hash, h) ELSE HashPair(h, n.hash)

(* The leaf's hash, carried up through the proof, is the root. *)
VerifyChunk(row, proof, root) == FoldLeft(CarryUp, HashLeaf(row), proof) = root

-----------------------------------------------------------------------------
NothingSeen == [ok |-> TRUE, names |-> {}, txs |-> {}]

(* Mutant: only the name is remembered from leaf to leaf. *)
GateStepForgetsTx(root, s, leaf) ==
  [ok    |-> /\ s.ok
             /\ IsValidName(leaf.row.name)
             /\ leaf.row.name \notin s.names
             /\ leaf.row.txHash \notin s.txs
             /\ VerifyChunk(leaf.row, leaf.proof, root),
   names |-> s.names \cup {leaf.row.name},
   txs   |-> s.txs]

(* Mutant: a leaf is remembered before it is looked up. *)
GateStepSeesItself(root, s, leaf) ==
  LET names == s.names \cup {leaf.row.name}
      txs   == s.txs \cup {leaf.row.txHash}
  IN  [ok    |-> /\ s.ok
                 /\ IsValidName(leaf.row.name)
                 /\ leaf.row.name \notin names
                 /\ leaf.row.txHash \notin txs
                 /\ VerifyChunk(leaf.row, leaf.proof, root),
       names |-> names,
       txs   |-> txs]

(* One turn of the gate's loop: G1, G3, G4, G2. *)
GateStep(root, s, leaf) ==
  [ok    |-> /\ s.ok
             /\ IsValidName(leaf.row.name)
             /\ leaf.row.name \notin s.names
             /\ leaf.row.txHash \notin s.txs
             /\ VerifyChunk(leaf.row, leaf.proof, root),
   names |-> s.names \cup {leaf.row.name},
   txs   |-> s.txs \cup {leaf.row.txHash}]

(* An empty batch is accepted. *)
NnsGate(leaves, root) ==
  LET step(s, leaf) == GateStep(root, s, leaf)
  IN  FoldLeft(step, NothingSeen, leaves).ok

-----------------------------------------------------------------------------
Triple(r) == [name |-> r.name, owner |-> r.owner, txHash |-> r.txHash]

(* The commitment to the registry: the triples of its rows, in some order. *)
CommittedRows == SetToSeq({Triple(e) : e \in Range(accumulator)})

(* Triples a caller may want settled: those of the claims of any block.    *)
OfferedTriples ==
  UNION {{Triple(b.claims[i]) : i \in DOMAIN b.claims} : b \in ScanInput}

(* Proofs a caller may have at hand for the tree over `rows': its own, and *)
(* those with the last node missing or one side the wrong way round.       *)
ProofsAtHand(rows) ==
  LET true       == {ProofFor(rows, i) : i \in DOMAIN rows}
      flip(p, k) == [p EXCEPT ![k].left = ~@]
  IN  true \cup {Front(p) : p \in true \ {<<>>}}
           \cup UNION {{flip(p, k) : k \in DOMAIN p} : p \in true}

Leaf(row, proof) == [row |-> row, proof |-> proof]

PairwiseDifferent(batch) ==
  \A i, j \in DOMAIN batch :
    i # j => /\ batch[i].row.name # batch[j].row.name
             /\ batch[i].row.txHash # batch[j].row.txHash

(* An accepted batch speaks of registered rows only, of no name and of no  *)
(* payment twice, whatever triples and proofs came with it, alone or after *)
(* a leaf that is in order: "these triples were all registry rows at the   *)
(* commitment" (nns-gate, at every registry the kernel reaches).           *)
AcceptedRowsAreRegistered ==
  LET rows       == CommittedRows
      root       == ComputeRoot(rows)
      honest     == {Leaf(rows[i], ProofFor(rows, i)) : i \in DOMAIN rows}
      candidates == {Leaf(r, p) : r \in OfferedTriples \cup Range(rows),
                                  p \in ProofsAtHand(rows)}
      batches    == {<<l>> : l \in candidates} \cup
                    {<<h, l>> : h \in honest, l \in candidates}
  IN  rows # <<>> =>
        \A batch \in batches :
          NnsGate(batch, root) =>
            /\ \A i \in DOMAIN batch :
                 /\ batch[i].row \in Range(rows)
                 /\ IsValidName(batch[i].row.name)
            /\ PairwiseDifferent(batch)

(* Any selection of registered rows with valid names that are not paid by  *)
(* one transaction can be settled together, in any order, each with the    *)
(* proof of its place in the tree, and no other selection can (nns-gate    *)
(* over the padding of odd levels).                                        *)
EveryRowCanBeSettled ==
  LET rows == CommittedRows
      root == ComputeRoot(rows)
  IN  rows # <<>> =>
        \A chosen \in SUBSET (DOMAIN rows) :
          \A order \in SetToSeqs(chosen) :
            LET batch == [i \in DOMAIN order |->
                            Leaf(rows[order[i]], ProofFor(rows, order[i]))]
            IN  NnsGate(batch, root) <=>
                  /\ \A l \in Range(batch) : IsValidName(l.row.name)
                  /\ PairwiseDifferent(batch)
=============================================================================
