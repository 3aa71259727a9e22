----------------------------- MODULE KernelCodec -----------------------------
(***************************************************************************)
(* How the hull talks to its kernel (src/kernel.rs, src/noun_access.rs):   *)
(* pokes and peek paths as nouns, and what it reads out of the effects and *)
(* peek results that come back.  The kernel's molds list the same fields a *)
(* second time, in another language (KernelWire).                          *)
(*                                                                         *)
(* An atom holds a number, a cord, a name, the bytes of a hash or a jam.   *)
(* Its bits are abstracted, but for zero: the zero digest, the empty list  *)
(* and the empty jam are all the atom 0.                                   *)
(***************************************************************************)
EXTENDS NNSPredicates, Nock, SequencesExt

-----------------------------------------------------------------------------
(* Nouns. *)
Num(n)   == Atom([num |-> n])
Cord(s)  == Atom([cord |-> s])
Named(n) == Atom([name |-> n])
Null     == Num(0)
Hash(d)  == IF d = ZeroDigest THEN Null ELSE Atom([hash |-> d])
Jam(n)   == Atom([jam |-> n])

(* A list is a tuple that ends in the null. *)
ListOf(nouns) == Tuple(Append(nouns, Null))

(* What is left of a noun behind its first i heads. *)
Tails(noun) ==
  LET tail[i \in Nat] ==
        IF i = 0 THEN noun
        ELSE LET before == tail[i - 1]
             IN  IF IsCell(before) THEN before[2] ELSE Crash
  IN  tail

(* The fields of a right-nested tuple of k; too short a tuple has fewer. *)
Fields(k, noun) ==
  LET heads == {i \in 1 .. k - 1 : IsCell(Tails(noun)[i - 1])}
      last  == Cardinality(heads) + 1
  IN  [i \in 1 .. last |->
         IF i < last THEN Tails(noun)[i - 1][1] ELSE Tails(noun)[i - 1]]

ListElements(noun) ==
  LET length[i \in Nat] ==
        IF IsCell(Tails(noun)[i]) THEN 1 + length[i + 1] ELSE 0
  IN  [i \in 1 .. length[0] |-> Tails(noun)[i - 1][1]]

AsNumber(noun) == noun[1].num
AsCord(noun)   == noun[1].cord
AsName(noun)   == noun[1].name
AsBytes(noun)  == IF noun = Null THEN ZeroDigest ELSE noun[1].hash
Cue(noun)      == noun[1].jam

(* Option and Result of the decoders: nothing, or one value. *)
None    == <<>>
Some(x) == <<x>>

-----------------------------------------------------------------------------
(* Poke builders. *)
TxIdList(ids) == ListOf([i \in 1 .. Len(SetToSeq(ids)) |->
                           Hash(SetToSeq(ids)[i])])

WitnessAtoms(w) ==
  <<Hash(w.txId), Cord(w.spender), Num(w.amount), Cord(w.lockRoot)>>

ClaimNoun(c) ==
  Tuple(<<Named(c.name), Cord(c.owner), Num(c.fee), Hash(c.txHash),
          Tuple(WitnessAtoms(c.witness))>>)

(* Mutant: the list is pushed front to back. *)
ClaimListPushed(claims) ==
  ListOf([i \in DOMAIN claims |-> ClaimNoun(Reverse(claims)[i])])

ClaimList(claims) == ListOf([i \in DOMAIN claims |-> ClaimNoun(claims[i])])

(* Mutant: parent before height. *)
HeaderListSwapped(headers) ==
  ListOf([i \in DOMAIN headers |->
            Tuple(<<Hash(headers[i].parent), Num(headers[i].height),
                    Hash(headers[i].digest)>>)])

HeaderList(headers) ==
  ListOf([i \in DOMAIN headers |->
            Tuple(<<Hash(headers[i].digest), Num(headers[i].height),
                    Hash(headers[i].parent)>>)])

BuildScanBlockPoke(b) ==
  Tuple(<<Cord("scan-block"), Hash(b.parent), Num(b.height), Hash(b.digest),
          TxIdList(b.txIds), ClaimList(b.claims)>>)

BuildProveRecursiveGenesisPoke == Cell(Cord("prove-recursive-genesis"), Null)

(* `prev' are the jams of the previous proof and of what it traced, three  *)
(* empty ones to continue from the stored proof.                           *)
BuildProveRecursiveTransitionPoke(prev, b) ==
  Tuple(<<Cord("prove-recursive-transition"), prev.proof, prev.subject,
          prev.formula, Hash(b.digest), TxIdList(b.txIds),
          ClaimList(b.claims), Null>>)

EmptyJams == [proof |-> Null, subject |-> Null, formula |-> Null]

(* ClaimBundle as a flat list of atoms.  The field anchored_tip_height is  *)
(* carried but not judged.                                                 *)
BundleAtoms(u) ==
  <<Named(u.claim.name), Cord(u.claim.owner), Num(u.claim.fee),
    Hash(u.claim.txHash), Hash(u.blockDigest), HeaderList(u.headers),
    Hash(u.page.digest), TxIdList(u.page.txIds), Hash(u.tip),
    Num(u.tipHeight)>>

BuildValidateClaimPoke(u) ==
  Tuple(<<Cord("validate-claim")>> \o BundleAtoms(u)
        \o WitnessAtoms(u.claim.witness))

BuildProveClaimPoke(u) ==
  Tuple(<<Cord("prove-claim")>> \o BundleAtoms(u)
        \o WitnessAtoms(u.claim.witness))

BuildProveClaimInStarkPoke(u) ==
  Tuple(<<Cord("prove-claim-in-stark")>> \o BundleAtoms(u))

BuildVerifyChainLinkPoke(claimDigest, headers, tip) ==
  Tuple(<<Cord("verify-chain-link"), Hash(claimDigest), HeaderList(headers),
          Hash(tip)>>)

BuildVerifyTxInPagePoke(page, txId) ==
  Tuple(<<Cord("verify-tx-in-page"), Hash(page.digest), TxIdList(page.txIds),
          Hash(txId)>>)

BuildProveArbitraryPoke(subjectJam, formulaJam) ==
  Tuple(<<Cord("prove-arbitrary"), subjectJam, formulaJam>>)

BuildVerifyStarkPoke(proofJam) == Tuple(<<Cord("verify-stark"), proofJam>>)

BuildVerifyStarkExplicitPoke(jams) ==
  Tuple(<<Cord("verify-stark-explicit"), jams.proof, jams.subject,
          jams.formula>>)

BuildVerifyAccumulatorSnapshotPoke(root, accJam, row) ==
  Tuple(<<Cord("verify-accumulator-snapshot"), root, accJam, Named(row.name),
          Cord(row.owner), Hash(row.txHash), Num(row.claimHeight),
          Hash(row.blockDigest)>>)

(* Pokes of earlier kernels that the hull can still build. *)
BuildClaimPoke(c) ==
  Tuple(<<Cord("claim"), Named(c.name), Cord(c.owner), Num(c.fee),
          Cord(c.txHash)>>)

BuildSetPrimaryPoke(owner, name) ==
  Tuple(<<Cord("set-primary"), Cord(owner), Named(name)>>)

-----------------------------------------------------------------------------
(* Peek paths. *)
SingleTagPeek(tag)  == Cell(Cord(tag), Null)
NamePeek(tag, name) == Tuple(<<Cord(tag), Named(name), Null>>)

(* Paths of earlier kernels that the hull can still build. *)
RetiredPeeks(name) ==
  {SingleTagPeek(tag) : tag \in {"snapshot", "pending-batch", "last-settled",
                                 "anchor"}}
  \cup {NamePeek(tag, name) : tag \in {"owner", "proof"}}

-----------------------------------------------------------------------------
(* Peek results: ~ for a path the kernel does not know, [~ ~] for no       *)
(* value, [~ ~ value].                                                     *)
PeekUnwrapInner(result) ==
  IF IsAtom(result) THEN [known |-> FALSE, value |-> None]
  ELSE IF IsAtom(result[2]) THEN [known |-> TRUE, value |-> None]
  ELSE [known |-> TRUE, value |-> Some(result[2][2])]

(* A value is required: anything else is an error. *)
PeekUnwrapSome(result) == PeekUnwrapInner(result).value

RowOfFields(f) ==
  [name |-> AsName(f[1]), owner |-> AsCord(f[2]), txHash |-> AsBytes(f[3]),
   claimHeight |-> AsNumber(f[4]), blockDigest |-> AsBytes(f[5])]

(* Mutant: digest and transaction id in the wrong order. *)
DecodeAccumulatorEntrySwapped(result) ==
  LET inner == PeekUnwrapSome(result)[1]
      f     == Fields(5, inner[2])
  IN  IF IsAtom(inner) THEN None
      ELSE Some(RowOfFields(<<f[1], f[2], f[5], f[4], f[3]>>))

(* A unit in a unit: no row for a name that has none. *)
DecodeAccumulatorEntry(result) ==
  LET inner == PeekUnwrapSome(result)[1]
  IN  IF IsAtom(inner) THEN None ELSE Some(RowOfFields(Fields(5, inner[2])))

DecodeAccumulatorProofAxis(result) ==
  LET inner == PeekUnwrapSome(result)[1]
  IN  IF IsAtom(inner) THEN None ELSE Some(AsNumber(inner[2]))

(* Root and snapshot stay atoms: the hull passes them on. *)
DecodeAccumulatorRoot(result) == PeekUnwrapSome(result)[1]
DecodeAccumulatorJam(result)  == DecodeAccumulatorRoot(result)
DecodeFeeForName(result)      == AsNumber(PeekUnwrapSome(result)[1])

(* Mutant: formula and subject in the wrong order. *)
DecodeRecursiveProofSwapped(result) ==
  LET inner == PeekUnwrapInner(result).value
      f     == Fields(3, inner[1])
  IN  IF inner = None \/ IsAtom(inner[1]) THEN None
      ELSE Some([proof |-> f[1], subject |-> f[3], formula |-> f[2]])

DecodeRecursiveProof(result) ==
  LET inner == PeekUnwrapInner(result).value
      f     == Fields(3, inner[1])
  IN  IF inner = None \/ IsAtom(inner[1]) THEN None
      ELSE Some([proof |-> f[1], subject |-> f[2], formula |-> f[3]])

DecodeScanState(result) ==
  LET f == Fields(4, PeekUnwrapSome(result)[1])
  IN  [height |-> AsNumber(f[1]), digest |-> AsBytes(f[2]), root |-> f[3],
       size |-> AsNumber(f[4])]

(* Mutant: the pair is read without its unit. *)
DecodeOptionalJamPairBare(noun) ==
  IF IsAtom(noun) THEN None
  ELSE Some([subject |-> noun[1], formula |-> noun[2]])

DecodeOptionalJamPair(noun) ==
  IF IsAtom(noun) THEN None
  ELSE Some([subject |-> noun[2][1], formula |-> noun[2][2]])

DecodeKernelDebug(result) ==
  LET f == Fields(9, PeekUnwrapSome(result)[1])
      names == ListElements(f[6])
  IN  [version |-> AsNumber(f[1]), height |-> AsNumber(f[2]),
       digest |-> AsBytes(f[3]), root |-> f[4], size |-> AsNumber(f[5]),
       names |-> [i \in DOMAIN names |-> RowOfFields(Fields(5, names[i]))],
       registered |-> ListElements(f[7]), settled |-> ListElements(f[8]),
       lastProved |-> DecodeOptionalJamPair(f[9])]

-----------------------------------------------------------------------------
(* Effects: a tag and a payload. *)
EffectPayload(tag, e) ==
  IF IsCell(e) /\ e[1] = Cord(tag) THEN Some(e[2]) ELSE None

(* The first effect of a poke a decoder makes something of. *)
First(Decode(_), effects) ==
  LET i == SelectInSeq(effects, LAMBDA e : Decode(e) # None)
  IN  IF i = 0 THEN None ELSE Decode(effects[i])

(* ok=? effects: zero is yes. *)
Loobean(tag, e) ==
  LET p == EffectPayload(tag, e) IN IF p = None THEN None ELSE Some(p[1] = Null)

ScanBlockDone(e) ==
  LET p == EffectPayload("scan-block-done", e)
      f == Fields(3, p[1])
  IN  IF p = None THEN None
      ELSE Some([height |-> AsNumber(f[1]), digest |-> AsBytes(f[2]),
                 root |-> f[3]])

ScanBlockError(e) ==
  LET p == EffectPayload("scan-block-error", e)
  IN  IF p = None THEN None ELSE Some(AsCord(p[1]))

(* Mutant: the tag is not looked at. *)
ProveFailedAnyTag(e) == IF IsCell(e) THEN Some(e[2]) ELSE None

ProveFailed(e) == EffectPayload("prove-failed", e)

JamOfPayload(tag, e) ==
  LET p == EffectPayload(tag, e) IN IF p = None THEN None ELSE Some(Jam(p[1]))

GenesisRecursiveProof(e)    == JamOfPayload("genesis-recursive-proof", e)
RecursiveTransitionProof(e) == JamOfPayload("recursive-transition-proof", e)

GenesisRecursiveDryRunOk(e)    == Loobean("genesis-recursive-dry-run-ok", e)
RecursiveTransitionDryRunOk(e) == Loobean("recursive-transition-dry-run-ok", e)

ArbitraryProof(e) ==
  LET p == EffectPayload("arbitrary-proof", e)
  IN  IF p = None THEN None
      ELSE Some([product |-> Jam(p[1][1]), proof |-> Jam(p[1][2])])

(* The product is an `each': [0 ~] accepts, [1 tag] names the rule that    *)
(* rejects.                                                                *)
ClaimInStarkProof(e) ==
  LET p == EffectPayload("claim-in-stark-proof", e)
  IN  IF p = None THEN None
      ELSE Some([validation |-> IF p[1][1][1] = Null THEN "ok"
                                ELSE AsCord(p[1][1][2]),
                 proof |-> Jam(p[1][2])])

ValidateClaimResult(e) ==
  LET bad == EffectPayload("validate-claim-error", e)
  IN  IF EffectPayload("validate-claim-ok", e) # None THEN Some("ok")
      ELSE IF bad # None THEN Some(AsCord(bad[1])) ELSE None

ChainLinkResult(e)   == Loobean("chain-link-result", e)
TxInPageResult(e)    == Loobean("tx-in-page-result", e)
VerifyStarkResult(e) == Loobean("verify-stark-result", e)
SnapshotResult(e)    == Loobean("accumulator-snapshot-verify-result", e)
=============================================================================
