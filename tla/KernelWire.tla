----------------------------- MODULE KernelWire -----------------------------
(***************************************************************************)
(* The kernel's end of the wire (hoon/app/app.hoon): the molds its pokes   *)
(* have to fit, the read-only pokes, the effects its arms emit and the     *)
(* peeks, over whatever state NNSKernel has reached; and what the hull     *)
(* makes of them with KernelCodec.                                         *)
(***************************************************************************)
EXTENDS RecursiveStep, KernelCodec, ClaimBundle, LightVerify

(* The empty units of the kernel are told from what they may hold, and a   *)
(* poke lists finitely many transaction ids.                               *)
ASSUME WireAssumption ==
  /\ NoProof \notin Computation
  /\ \A names \in SUBSET Name : Garbled \notin [names -> Entry]
  /\ \A b \in ScanInput : IsFiniteSet(b.txIds)

-----------------------------------------------------------------------------
(* +$cause: the fields after each tag.  A noun with any other tag, or with *)
(* fewer fields, is no cause.  The causes of the Vesl graft are left out,  *)
(* and so is %prove-identity.                                              *)
Causes ==
  [tag : {"prove-recursive-genesis", "verify-stark"}, fields : {1}] \cup
  [tag : {"prove-arbitrary"}, fields : {2}] \cup
  [tag : {"verify-stark-explicit", "verify-chain-link", "verify-tx-in-page"},
   fields : {3}] \cup
  [tag : {"scan-block"}, fields : {5}] \cup
  [tag : {"prove-recursive-transition", "verify-accumulator-snapshot"},
   fields : {7}] \cup
  [tag : {"prove-claim-in-stark"}, fields : {10}] \cup
  [tag : {"validate-claim"}, fields : {14}]

(* The fields of a poke that fits the mold of `tag'; none if it does not. *)
SoftCause(tag, noun) ==
  LET fits == {c \in Causes : c.tag = tag /\ noun[1] = Cord(c.tag)}
      k    == (CHOOSE c \in fits : TRUE).fields
  IN  IF fits = {} \/ Len(Fields(k, noun[2])) < k THEN None
      ELSE Some(Fields(k, noun[2]))

InvalidCause(noun) == \A c \in Causes : SoftCause(c.tag, noun) = None

TxIdsOf(noun) == {AsBytes(id) : id \in Range(ListElements(noun))}

WitnessOf(f) ==
  [txId |-> AsBytes(f[1]), spender |-> AsCord(f[2]), amount |-> AsNumber(f[3]),
   lockRoot |-> AsCord(f[4])]

ClaimOfNoun(noun) ==
  LET f == Fields(5, noun)
  IN  [name |-> AsName(f[1]), owner |-> AsCord(f[2]), fee |-> AsNumber(f[3]),
       txHash |-> AsBytes(f[4]), witness |-> WitnessOf(Fields(4, f[5]))]

ClaimsOf(noun) ==
  LET l == ListElements(noun) IN [i \in DOMAIN l |-> ClaimOfNoun(l[i])]

(* +$anchor-header *)
HeadersOf(noun) ==
  LET l == ListElements(noun)
      h(i) == Fields(3, l[i])
  IN  [i \in DOMAIN l |-> [digest |-> AsBytes(h(i)[1]),
                           height |-> AsNumber(h(i)[2]),
                           parent |-> AsBytes(h(i)[3])]]

(* The payload of a %scan-block. *)
ScanPayloadOf(f) ==
  [parent |-> AsBytes(f[1]), height |-> AsNumber(f[2]),
   digest |-> AsBytes(f[3]), txIds |-> TxIdsOf(f[4]), claims |-> ClaimsOf(f[5])]

(* The block and, jam by jam, the previous proof of a                      *)
(* %prove-recursive-transition: an empty jam means the stored one.         *)
TransitionBlockOf(f) ==
  [digest |-> AsBytes(f[4]), txIds |-> TxIdsOf(f[5]), claims |-> ClaimsOf(f[6])]

PartOf(jam, stored) == IF jam = Null THEN stored ELSE Cue(jam)

(* The bundle of a %validate-claim; its tip height is not looked at. *)
BundleOfFields(f) ==
  BundleOf([name |-> AsName(f[1]), owner |-> AsCord(f[2]),
            fee |-> AsNumber(f[3]), txHash |-> AsBytes(f[4]),
            witness |-> WitnessOf(SubSeq(f, 11, 14))],
           AsBytes(f[5]),
           [digest |-> AsBytes(f[7]), txIds |-> TxIdsOf(f[8])],
           HeadersOf(f[6]), AsBytes(f[9]))

-----------------------------------------------------------------------------
(* The read-only pokes and what they emit; hoon's yes is 0. *)
YesNo(tag, ok) == Cell(Cord(tag), IF ok THEN Num(0) ELSE Num(1))

Effect(tag, payload) == Cell(Cord(tag), payload)

ValidateClaimEffects(f) ==
  LET verdict == ValidateClaimBundle(BundleOfFields(f))
  IN  <<IF verdict = "ok" THEN Effect("validate-claim-ok", Null)
        ELSE Effect("validate-claim-error", Cord(verdict))>>

ChainLinkEffects(f) ==
  <<YesNo("chain-link-result",
          ChainLinksTo(AsBytes(f[1]), HeadersOf(f[2]), AsBytes(f[3])))>>

TxInPageEffects(f) ==
  <<YesNo("tx-in-page-result", AsBytes(f[3]) \in TxIdsOf(f[2]))>>

RowOfNouns(f) ==
  [name |-> AsName(f[1]), owner |-> AsCord(f[2]), txHash |-> AsBytes(f[3]),
   claimHeight |-> AsNumber(f[4]), blockDigest |-> AsBytes(f[5])]

SnapshotEffects(f) ==
  <<YesNo("accumulator-snapshot-verify-result",
          VerifyAccumulatorSnapshot(f[1][1].root, Cue(f[2]), AsName(f[3]),
                                    RowOfNouns(SubSeq(f, 3, 7))) = "ok")>>

(* What a proof is, and the pair it traced.  The pair does not depend on   *)
(* the scan height the prover was bound to.  A proof is a structure.       *)
ProofNoun(c) == Cell(Atom([proves |-> c]), Null)
Traced(c, part) == Cell(Atom([part |-> part, of |-> [c EXCEPT !.bound = 0]]), Null)

(* The jets verify that the proof is one of this subject and formula. *)
Verifies(proof, subject, formula) ==
  /\ subject = Traced(proof[1][1].proves, "subject")
  /\ formula = Traced(proof[1][1].proves, "formula")

VerifyStarkEffects(f) ==
  IF lastProved = NoProof
  THEN <<Effect("verify-stark-error", Cord("no-cached-sf"))>>
  ELSE <<YesNo("verify-stark-result",
               Verifies(Cue(f[1]), Traced(lastProved, "subject"),
                        Traced(lastProved, "formula")))>>

VerifyStarkExplicitEffects(f) ==
  <<YesNo("verify-stark-result", Verifies(Cue(f[1]), Cue(f[2]), Cue(f[3])))>>

-----------------------------------------------------------------------------
(* The effects the last poke may have emitted.  %prove-failed follows the  *)
(* dry run's verdict in the recursive arms and stands alone in the others. *)
RootAtom(acc) == Atom([root |-> Root(acc)])

DryRunEffects(tag) == {YesNo(tag, ok) : ok \in BOOLEAN}

Emitted ==
  LET failed  == Effect("prove-failed", Jam("trace"))
      genesis == DryRunEffects("genesis-recursive-dry-run-ok")
      transition == DryRunEffects("recursive-transition-dry-run-ok")
  IN  CASE effect \in {"none", "poke-crashed"} -> {<<>>}
        [] effect = "scan-block-done" ->
             {<<Effect(effect, Tuple(<<Num(lastProvedHeight),
                                       Hash(lastProvedDigest),
                                       RootAtom(accumulator)>>))>>}
        [] effect \in ScanErrors -> {<<Effect("scan-block-error", Cord(effect))>>}
        [] effect = "prove-failed" ->
             {<<failed>>} \cup {<<dry, failed>> : dry \in genesis \cup transition}
        [] effect = "genesis-recursive-proof" ->
             {<<dry, Effect(effect, ProofNoun(recursiveProof))>> : dry \in genesis}
        [] effect = "recursive-transition-proof" ->
             {<<dry, Effect(effect, ProofNoun(recursiveProof))>> :
                dry \in transition}
        [] effect = "other-proof" ->
             {<<Effect("arbitrary-proof", Cell(Num(7), ProofNoun(lastProved)))>>}
             \cup {<<Effect("claim-in-stark-proof",
                            Cell(product, ProofNoun(lastProved)))>> :
                     product \in {Cell(Num(0), Null),
                                  Cell(Num(1), Cord("chain-broken"))}}

-----------------------------------------------------------------------------
(* Peeks. *)
Value(noun)   == Tuple(<<Null, Null, noun>>)
Unit(noun)    == Cell(Null, noun)
RowNoun(row)  ==
  Tuple(<<Named(row.name), Cord(row.owner), Hash(row.txHash),
          Num(row.claimHeight), Hash(row.blockDigest)>>)

KernelDebug ==
  Tuple(<<Num(0), Num(lastProvedHeight), Hash(lastProvedDigest),
          RootAtom(accumulator), Num(Cardinality(DOMAIN accumulator)),
          ListOf(SetToSeq({RowNoun(accumulator[n]) : n \in DOMAIN accumulator})),
          Null, Null,
          IF lastProved = NoProof THEN Null
          ELSE Unit(Cell(Jam(Traced(lastProved, "subject")),
                         Jam(Traced(lastProved, "formula"))))>>)

(* An axis stands for every axis. *)
ProofAxis == Num(6)

RecursiveProofPeek ==
  IF recursiveProof = NoProof THEN Value(Null)
  ELSE Value(Tuple(<<Jam(ProofNoun(recursiveProof)),
                     Jam(Traced(recursiveProof, "subject")),
                     Jam(Traced(recursiveProof, "formula"))>>))

Peek(path) ==
  LET tag  == AsCord(path[1])
      name == AsName(path[2][1])
  IN  CASE tag = "accumulator" ->
             Value(IF HasRow(accumulator, name)
                   THEN Unit(RowNoun(accumulator[name])) ELSE Null)
        [] tag = "accumulator-proof" ->
             Value(IF HasRow(accumulator, name) THEN Unit(ProofAxis) ELSE Null)
        [] tag = "accumulator-root" -> Value(RootAtom(accumulator))
        [] tag = "accumulator-jam"  -> Value(Jam(accumulator))
        [] tag = "scan-state" ->
             Value(Tuple(<<Num(lastProvedHeight), Hash(lastProvedDigest),
                           RootAtom(accumulator),
                           Num(Cardinality(DOMAIN accumulator))>>))
        [] tag = "recursive-proof" -> RecursiveProofPeek
        [] tag = "fee-for-name"    -> Value(Num(FeeForName(name)))
        [] tag = "kernel-debug"    -> Value(KernelDebug)
        [] OTHER -> Null

-----------------------------------------------------------------------------
(* Whatever block the hull sends, the kernel reads the block it meant, its *)
(* claims in the same order, in the scan and in the proof of it; and the   *)
(* pokes and paths of earlier kernels, which the hull still builds, fit    *)
(* nothing and find nothing (build_scan_block_poke,                        *)
(* build_prove_recursive_transition_poke against +$cause).                 *)
PokesArrive ==
  \A b \in ScanInput :
    /\ SoftCause("scan-block", BuildScanBlockPoke(b)) # None
    /\ ScanPayloadOf(SoftCause("scan-block", BuildScanBlockPoke(b))[1]) = b
    /\ LET poke == BuildProveRecursiveTransitionPoke(EmptyJams, b)
           read == TransitionBlockOf(
                     SoftCause("prove-recursive-transition", poke)[1])
       IN  read = [digest |-> b.digest, txIds |-> b.txIds, claims |-> b.claims]
    /\ \A i \in DOMAIN b.claims :
         LET c == b.claims[i]
             u == [claim |-> c, blockDigest |-> b.digest, headers |-> <<>>,
                   page |-> b, tip |-> b.digest, tipHeight |-> b.height]
         IN  /\ InvalidCause(BuildClaimPoke(c))
             /\ InvalidCause(BuildSetPrimaryPoke(c.owner, c.name))
             /\ InvalidCause(BuildProveClaimPoke(u))
             /\ \A path \in RetiredPeeks(c.name) : ~PeekUnwrapInner(Peek(path)).known

(* Every claim that ever named an owner still passes %validate-claim with  *)
(* the headers of the blocks scanned since, up to the cursor, and its      *)
(* block still links to the cursor and contains its transaction; the hull  *)
(* hears so.  A claim the scanner dropped does not pass, provided it pays  *)
(* the fee it declares (build_validate_claim_poke,                         *)
(* build_verify_chain_link_poke, build_verify_tx_in_page_poke and their    *)
(* results, against the scanner).                                          *)
RowsRevalidate ==
  \A i \in DOMAIN scanned : \A j \in DOMAIN scanned[i].claims :
    LET b       == scanned[i]
        c       == b.claims[j]
        since   == SubSeq(scanned, i + 1, Len(scanned))
        headers == [k \in DOMAIN since |-> HeaderOf(since[k])]
        bundle  == [claim |-> c, blockDigest |-> b.digest, headers |-> headers,
                    page |-> b, tip |-> lastProvedDigest,
                    tipHeight |-> lastProvedHeight]
        Asked(Arm(_), tag, poke) == Arm(SoftCause(tag, poke)[1])
        verdict == First(ValidateClaimResult,
                         Asked(ValidateClaimEffects, "validate-claim",
                               BuildValidateClaimPoke(bundle)))
    IN  /\ First(ChainLinkResult,
                 Asked(ChainLinkEffects, "verify-chain-link",
                       BuildVerifyChainLinkPoke(b.digest, headers,
                                                lastProvedDigest))) = Some(TRUE)
        /\ First(TxInPageResult,
                 Asked(TxInPageEffects, "verify-tx-in-page",
                       BuildVerifyTxInPagePoke(b, c.txHash)))
             = Some(c.txHash \in b.txIds)
        /\ j \in ValidPositions(b) => verdict = Some("ok")
        /\ verdict = Some("ok") /\ c.witness.amount >= c.fee =>
             j \in ValidPositions(b)

(* The hull never takes a failure for a success or one arm's proof for     *)
(* another's, whatever the dry run said before it, and an accepted scan    *)
(* reports the cursor and root the kernel is left with (the first_*        *)
(* decoders against the effects of the arms).                              *)
EffectsAreHeard ==
  \A fx \in Emitted :
    /\ First(ScanBlockDone, fx) =
         IF effect = "scan-block-done"
         THEN Some([height |-> lastProvedHeight, digest |-> lastProvedDigest,
                    root |-> RootAtom(accumulator)])
         ELSE None
    /\ First(ScanBlockError, fx) = IF effect \in ScanErrors THEN Some(effect)
                                   ELSE None
    /\ First(ProveFailed, fx) # None <=> effect = "prove-failed"
    /\ First(GenesisRecursiveProof, fx) =
         IF effect = "genesis-recursive-proof"
         THEN Some(Jam(ProofNoun(recursiveProof))) ELSE None
    /\ First(RecursiveTransitionProof, fx) =
         IF effect = "recursive-transition-proof"
         THEN Some(Jam(ProofNoun(recursiveProof))) ELSE None
    /\ First(GenesisRecursiveDryRunOk, fx) # None =>
         First(RecursiveTransitionDryRunOk, fx) = None
    /\ LET proof == First(ClaimInStarkProof, fx)
           other == First(ArbitraryProof, fx)
       IN  effect = "other-proof" =>
             \/ proof = None /\ other[1].proof = Jam(ProofNoun(lastProved))
             \/ /\ other = None
                /\ proof[1].validation \in {"ok", "chain-broken"}
                /\ proof[1].proof = Jam(ProofNoun(lastProved))

(* What a lookup exports passes the wallet's own kernel: the decoded row   *)
(* of a registered name is accepted with the decoded root and snapshot,    *)
(* and no row is accepted for a name that has none.  Row and axis are      *)
(* present together (decode_accumulator_entry, decode_accumulator_proof_   *)
(* axis, build_verify_accumulator_snapshot_poke against the peek arms).    *)
LookupVerifies ==
  \A name \in Name :
    LET row  == DecodeAccumulatorEntry(Peek(NamePeek("accumulator", name)))
        axis == DecodeAccumulatorProofAxis(
                  Peek(NamePeek("accumulator-proof", name)))
        root == DecodeAccumulatorRoot(Peek(SingleTagPeek("accumulator-root")))
        jam  == DecodeAccumulatorJam(Peek(SingleTagPeek("accumulator-jam")))
        Accepted(r) ==
          First(SnapshotResult,
                SnapshotEffects(SoftCause("verify-accumulator-snapshot",
                  BuildVerifyAccumulatorSnapshotPoke(root, jam, r))[1]))
    IN  /\ row # None <=> HasRow(accumulator, name)
        /\ axis # None <=> row # None
        /\ row # None => Accepted(row[1]) = Some(TRUE)
        /\ row = None =>
             \A n \in DOMAIN accumulator :
               Accepted([accumulator[n] EXCEPT !.name = name]) = Some(FALSE)

(* The two summaries and the fee schedule agree with the kernel's state:   *)
(* /scan-state and /kernel-debug show one cursor, root and size, the debug *)
(* list is the registry, and the cached pair is that of the last proof     *)
(* (decode_scan_state, decode_kernel_debug, decode_fee_for_name).          *)
PeeksAreTrue ==
  LET scan  == DecodeScanState(Peek(SingleTagPeek("scan-state")))
      debug == DecodeKernelDebug(Peek(SingleTagPeek("kernel-debug")))
  IN  /\ scan = [height |-> lastProvedHeight, digest |-> lastProvedDigest,
                 root |-> RootAtom(accumulator),
                 size |-> Cardinality(DOMAIN accumulator)]
      /\ <<debug.version, debug.height, debug.digest, debug.root, debug.size>>
           = <<0, scan.height, scan.digest, scan.root, scan.size>>
      /\ Len(debug.names) = debug.size
      /\ Range(debug.names) = Range(accumulator)
      /\ debug.lastProved =
           IF lastProved = NoProof THEN None
           ELSE Some([subject |-> Jam(Traced(lastProved, "subject")),
                      formula |-> Jam(Traced(lastProved, "formula"))])
      /\ \A n \in Name : DecodeFeeForName(Peek(NamePeek("fee-for-name", n)))
                           = FeeForName(n)

(* The exported proof triple can be used in both ways it is meant for: the *)
(* explicit verify poke accepts it, and handed back as the previous proof  *)
(* of a transition it makes the kernel read what it would read from its    *)
(* own state with empty jams.  The cached pair verifies it exactly while   *)
(* no other computation has been proved since (decode_recursive_proof,     *)
(* build_verify_stark_explicit_poke, build_prove_recursive_transition_poke *)
(* against the prev-*-jam fields).                                         *)
ExportedProofIsUsable ==
  LET triple == DecodeRecursiveProof(Peek(SingleTagPeek("recursive-proof")))
      Answer(Arm(_), tag, poke) ==
        First(VerifyStarkResult, Arm(SoftCause(tag, poke)[1]))
      Chained(prev, b) ==
        LET f == SoftCause("prove-recursive-transition",
                           BuildProveRecursiveTransitionPoke(prev, b))[1]
        IN  <<PartOf(f[1], ProofNoun(recursiveProof)),
              PartOf(f[2], Traced(recursiveProof, "subject")),
              PartOf(f[3], Traced(recursiveProof, "formula"))>>
  IN  /\ triple = None <=> recursiveProof = NoProof
      /\ triple # None =>
           /\ Answer(VerifyStarkExplicitEffects, "verify-stark-explicit",
                     BuildVerifyStarkExplicitPoke(triple[1])) = Some(TRUE)
           /\ Answer(VerifyStarkEffects, "verify-stark",
                     BuildVerifyStarkPoke(triple[1].proof))
                = Some([lastProved EXCEPT !.bound = 0]
                       = [recursiveProof EXCEPT !.bound = 0])
           /\ \A b \in ScanInput : Chained(triple[1], b) = Chained(EmptyJams, b)
=============================================================================
