---------------------------- MODULE RecursiveStep ----------------------------
(***************************************************************************)
(* The subject and formula of a genesis or transition proof, built from    *)
(* the kernel's state, and the host's specification of what they should    *)
(* say (hoon/app/recursive-build.hoon), which hoon/app/tracer-parity.hoon  *)
(* compares on a few inputs.                                               *)
(***************************************************************************)
EXTENDS NNSKernel, Tracer

CONSTANTS
  KeyLimb,     \* external: first limb of the Tip5 key of a name
  DigestAtom,  \* a block digest as the atom the hull sends
  LimbBase     \* radix of the five limbs in that atom

ASSUME RecursiveStepAssumption ==
  /\ KeyLimb \in [Name -> Nat \ {0}]
  /\ \A m, n \in Name : KeyLimb[m] = KeyLimb[n] => m = n
  /\ DigestAtom \in [Digest -> Nat]
  /\ \A d \in Digest : DigestAtom[d] = 0 <=> d = ZeroDigest
  /\ LimbBase \in Nat \ {0, 1}

(* A digest atom cut into five limbs. *)
Limbs(atom) == [i \in 1 .. 5 |-> (atom \div LimbBase ^ (i - 1)) % LimbBase]

-----------------------------------------------------------------------------
(* Genesis. *)
GenesisRecursiveFormula(acc, height, digest) ==
  /\ HasRow(acc, Tld)
  /\ height = GenesisHeight
  /\ digest = ZeroDigest

(* The registry enters as the atom 1, not row by row. *)
BuildGenesisRecursiveInputs(height, digest) ==
  [subject |-> Cell(Atom(1), Cell(Atom(height), Atom(DigestAtom[digest]))),
   formula |-> GenesisTraceFormula(GenesisHeight)]

-----------------------------------------------------------------------------
(* Transition. *)

(* The length of the previous proof in bytes, if it is an atom; only       *)
(* whether it is zero matters, and one byte stands for many.               *)
ProofLen(prevProof) ==
  IF IsAtom(prevProof) /\ prevProof # Atom(0) THEN 1 ELSE 0

PrevProofOkSpec(prevProof, prevHeight) ==
  ProofLen(prevProof) > 0 /\ prevHeight > 0

(* The key at the head of the rows in tap order, which is the order of     *)
(* Tip5 hashes: any row may come first.                                    *)
AccListHeadKey(acc) ==
  IF acc = EmptyAccumulator THEN {0} ELSE {KeyLimb[n] : n \in DOMAIN acc}

(* For a block with at most one claim; more crash the poke. *)
TransitionSpec(prevProof, b, wantHeight, wantDigest) ==
  /\ PrevProofOkSpec(prevProof, PrevHeight)
  /\ wantHeight = PrevHeight + 1
  /\ wantDigest = b.digest

(* The hull sends no block proof yet. *)
BuildRecursiveTransitionInputs(prevProof, accTag, b) ==
  LET page == Limbs(DigestAtom[b.digest])
      want == PrevHeight + 1
  IN  IF b.claims = <<>>
      THEN [subject |-> EmptyTransitionSubject(PrevHeight, page, want, page),
            formula |-> TransitionTraceFormulaEmpty(want)]
      ELSE [subject |-> FullTransitionSubject(
                          ProofLen(prevProof), PrevHeight, page, accTag,
                          KeyLimb[b.claims[1].name], Atom(0), want, page),
            formula |-> TransitionTraceFormulaFull(PrevHeight)]

DryRun(inputs) == Product(inputs.subject, inputs.formula)

(* dry-ok of both prove arms: the formula ran and its product passes. *)
DryOk(inputs) == DryRun(inputs) # Crash /\ TraceSucceeded(DryRun(inputs))

-----------------------------------------------------------------------------
(* Previous proofs: what the prover returns is a structure, hence a cell;  *)
(* a poke may supply any noun.                                             *)
PrevProofs == {Cell(Atom(1), Atom(1)), Atom(0), Atom(1)}

Transitions == {b \in ScanInput : Len(b.claims) <= 1}

(* For whatever registry the kernel has reached, height and digest, the    *)
(* genesis formula runs and accepts exactly what the host's specification  *)
(* accepts (genesis-trace-formula against genesis-recursive-formula).      *)
GenesisTraceIsSpec ==
  \A h \in GenesisHeight - 1 .. GenesisHeight + 1, d \in Digest :
    LET acc     == EnsureGenesisTld(accumulator)
        product == DryRun(BuildGenesisRecursiveInputs(h, d))
    IN  product = IF GenesisRecursiveFormula(acc, h, d) THEN Yes ELSE No

(* At whatever state the kernel has reached, the transition formula runs   *)
(* on the subject built for it; it accepts a block without claims, and     *)
(* every claim on a free name whose step the host's specification          *)
(* accepts; and it accepts no claim without a previous proof, or on the    *)
(* name at the head of the rows (transition-trace-formula-full and the     *)
(* slots of its subject against transition-spec).                          *)
TransitionTraceFollowsSpec ==
  \A b \in Transitions, p \in PrevProofs, tag \in AccListHeadKey(accumulator) :
    LET product == DryRun(BuildRecursiveTransitionInputs(p, tag, b))
        spec    == TransitionSpec(p, b, PrevHeight + 1, b.digest)
    IN  /\ product \in {Yes, No}
        /\ b.claims = <<>> => product = Yes
        /\ b.claims # <<>> =>
             /\ spec /\ ~HasRow(accumulator, b.claims[1].name) => product = Yes
             /\ product = Yes => spec /\ tag # KeyLimb[b.claims[1].name]

(* "Hand trace formulas signal failure with [1 1]; any other product means *)
(* the constraint tree accepted the subject" (hoon/app/tracer.hoon:129).   *)
(* [1 1] is the formula of the failing branch; its product is the atom 1.  *)
DryRunOkMeansAccepted ==
  recursiveProof # NoProof =>
    \A b \in Transitions, p \in PrevProofs,
       tag \in AccListHeadKey(accumulator) :
      LET inputs == BuildRecursiveTransitionInputs(p, tag, b)
      IN  DryOk(inputs) => DryRun(inputs) = Yes
=============================================================================
