--------------------------- MODULE NNSKernelProofs ---------------------------
(***************************************************************************)
(* Proofs about NNSKernel: types, the linked run of accepted blocks, the   *)
(* registry as a replay of that run, and the two action properties, for    *)
(* every set of names, owners, claims and payloads.                        *)
(***************************************************************************)
EXTENDS NNSKernel, SequenceTheorems, WellFoundedInduction, TLAPS

(* Every nonempty set of naturals has a least element: the least-number    *)
(* principle, from the well-foundedness of <.                              *)
LEMMA LeastElement ==
  ASSUME NEW T, T \subseteq Nat, T # {}
  PROVE  \E x \in T : \A y \in T : x <= y
<1> DEFINE Lt == {ss \in Nat \X Nat : ss[1] < ss[2]}
<1>1. IsWellFoundedOn(Lt, Nat)
  BY NatLessThanWellFounded DEF OpToRel
<1>2. \A x, y \in Nat : <<y, x>> \in Lt <=> y < x
  OBVIOUS
<1> HIDE DEF Lt
<1>3. PICK x \in T : \A y \in T : ~ (<<y, x>> \in Lt)
  BY <1>1, WFMin
<1>4. \A y \in T : x <= y
  <2>1. TAKE y \in T
  <2>2. x \in Nat /\ y \in Nat
    OBVIOUS
  <2>3. ~ (y < x)
    BY <1>2, <1>3, <2>2
  <2> QED
    BY <2>2, <2>3
<1> QED
  BY <1>4
-----------------------------------------------------------------------------
(* Insert keeps an accumulator an accumulator and every row it has.        *)
LEMMA InsertProperties ==
  ASSUME NEW acc, IsAccumulator(acc), NEW n \in Name, NEW e \in Entry
  PROVE  /\ IsAccumulator(Insert(acc, n, e))
         /\ DOMAIN Insert(acc, n, e) = DOMAIN acc \cup {n}
         /\ \A m \in DOMAIN acc : Insert(acc, n, e)[m] = acc[m]
<1>1. CASE HasRow(acc, n)
  BY <1>1 DEF Insert, HasRow
<1>2. CASE ~HasRow(acc, n)
  <2>1. [e EXCEPT !.name = n] \in Entry
    BY DEF Entry
  <2>2. Insert(acc, n, e) =
          [m \in DOMAIN acc \cup {n} |->
             IF m = n THEN [e EXCEPT !.name = n] ELSE acc[m]]
    BY <1>2 DEF Insert
  <2> QED
    BY <1>2, <2>1, <2>2 DEF HasRow, IsAccumulator
<1> QED
  BY <1>1, <1>2

(* Seeding the reserved row adds that row and nothing else. *)
LEMMA EnsureGenesisTldProperties ==
  ASSUME NEW acc, IsAccumulator(acc)
  PROVE  /\ IsAccumulator(EnsureGenesisTld(acc))
         /\ DOMAIN EnsureGenesisTld(acc) = DOMAIN acc \cup {Tld}
         /\ \A m \in DOMAIN acc : EnsureGenesisTld(acc)[m] = acc[m]
         /\ ~HasRow(acc, Tld) => EnsureGenesisTld(acc)[Tld] = GenesisTldEntry
<1>1. GenesisTldEntry \in Entry /\ Tld \in Name
  BY AccumulatorAssumption DEF GenesisTldEntry, Entry
<1>2. [GenesisTldEntry EXCEPT !.name = Tld] = GenesisTldEntry
  BY DEF GenesisTldEntry
<1>3. ~HasRow(acc, Tld) => EnsureGenesisTld(acc)[Tld] = GenesisTldEntry
  BY <1>2 DEF EnsureGenesisTld, Insert
<1> QED
  BY <1>1, <1>3, InsertProperties DEF EnsureGenesisTld

(* The positions of valid claims are naturals, and the claims there carry  *)
(* the types of a row.                                                     *)
LEMMA ValidPositionType ==
  ASSUME NEW p \in ScanPayload, NEW i \in ValidPositions(p)
  PROVE  /\ i \in Nat
         /\ p.claims[i] \in Claim
         /\ p.claims[i].name \in Name
         /\ RowOf(p, p.claims[i]) \in Entry
<1>1. p.claims \in Seq(Claim) /\ p.height \in Nat /\ p.digest \in Digest
  BY DEF ScanPayload
<1>2. i \in DOMAIN p.claims
  BY DEF ValidPositions
<1>3. i \in Nat /\ p.claims[i] \in Claim
  BY <1>1, <1>2, LenProperties, ElementOfSeq
<1>4. /\ p.claims[i].name \in Name
      /\ p.claims[i].owner \in Owner
      /\ p.claims[i].txHash \in TxId
  BY <1>3 DEF Claim
<1>5. RowOf(p, p.claims[i]) \in Entry
  BY <1>1, <1>4 DEF RowOf, Entry
<1> QED
  BY <1>3, <1>4, <1>5

(* A name with a valid claim in a block has a first one. *)
LEMMA FirstClaimExists ==
  ASSUME NEW p \in ScanPayload, NEW n,
         \E i \in ValidPositions(p) : p.claims[i].name = n
  PROVE  \E i \in ValidPositions(p) : IsFirstClaim(p, n, i)
<1> DEFINE T == {i \in ValidPositions(p) : p.claims[i].name = n}
<1>1. T \subseteq Nat /\ T # {}
  BY ValidPositionType
<1>2. PICK i \in T : \A j \in T : i <= j
  <2> HIDE DEF T
  <2> QED BY <1>1, LeastElement
<1> QED
  BY <1>2 DEF IsFirstClaim

(* What scanning a block does to the accumulator: the rows stay, exactly   *)
(* the names with a valid claim join, each with the row of its first one.  *)
LEMMA ClaimScannerProperties ==
  ASSUME NEW acc, IsAccumulator(acc), NEW p \in ScanPayload
  PROVE  /\ IsAccumulator(ClaimScanner(acc, p))
         /\ DOMAIN ClaimScanner(acc, p) =
              DOMAIN acc \cup {p.claims[i].name : i \in ValidPositions(p)}
         /\ \A n \in DOMAIN acc : ClaimScanner(acc, p)[n] = acc[n]
         /\ \A n \in DOMAIN ClaimScanner(acc, p) \ DOMAIN acc :
              \E i \in ValidPositions(p) :
                /\ IsFirstClaim(p, n, i)
                /\ ClaimScanner(acc, p)[n] = RowOf(p, p.claims[i])
<1> DEFINE claimed == {p.claims[i].name : i \in ValidPositions(p)}
           first(n) == CHOOSE i \in ValidPositions(p) : IsFirstClaim(p, n, i)
           CS == ClaimScanner(acc, p)
<1>1. CS = [n \in DOMAIN acc \cup claimed |->
              IF HasRow(acc, n) THEN acc[n] ELSE RowOf(p, p.claims[first(n)])]
  BY DEF ClaimScanner
<1>2. \A n \in claimed : first(n) \in ValidPositions(p)
                         /\ IsFirstClaim(p, n, first(n))
  BY FirstClaimExists
<1> HIDE DEF first
<1>3. DOMAIN CS = DOMAIN acc \cup claimed
  BY <1>1
<1>4. \A n \in DOMAIN acc : CS[n] = acc[n]
  BY <1>1 DEF HasRow
<1>5. \A n \in DOMAIN CS \ DOMAIN acc :
        n \in claimed /\ CS[n] = RowOf(p, p.claims[first(n)])
  BY <1>1 DEF HasRow
<1>6. \A n \in DOMAIN CS \ DOMAIN acc :
        \E i \in ValidPositions(p) :
          IsFirstClaim(p, n, i) /\ CS[n] = RowOf(p, p.claims[i])
  BY <1>2, <1>5
<1>7. IsAccumulator(CS)
  <2>1. CS = [n \in DOMAIN CS |-> CS[n]]
    BY <1>1
  <2>2. DOMAIN CS \subseteq Name
    BY <1>3, ValidPositionType DEF IsAccumulator
  <2>3. \A n \in DOMAIN CS : CS[n] \in Entry
    <3>1. TAKE n \in DOMAIN CS
    <3>2. CASE n \in DOMAIN acc
      BY <1>4, <3>2 DEF IsAccumulator
    <3>3. CASE n \notin DOMAIN acc
      BY <1>6, <3>3, ValidPositionType
    <3> QED
      BY <3>2, <3>3
  <2> QED
    BY <2>1, <2>2, <2>3 DEF IsAccumulator
<1> QED
  BY <1>3, <1>4, <1>6, <1>7

-----------------------------------------------------------------------------
(* Every poke keeps the types.                                             *)
LEMMA TypeStep ==
  ASSUME TypeOK, [Next]_kernelVars
  PROVE  TypeOK'
<1> USE DEF TypeOK
<1>1. IsAccumulator(Seeded)
  BY EnsureGenesisTldProperties DEF Seeded
<1>2. ASSUME NEW b \in ScanInput, ScanParentMismatch(b) PROVE TypeOK'
  BY <1>2 DEF ScanParentMismatch, cursor, proofs, Effects, ScanErrors
<1>3. ASSUME NEW b \in ScanInput, ScanHeightMismatch(b) PROVE TypeOK'
  BY <1>1, <1>3 DEF ScanHeightMismatch, cursor, proofs, Effects, ScanErrors
<1>4. ASSUME NEW b \in ScanInput, ScanTrap(b) PROVE TypeOK'
  BY <1>1, <1>4 DEF ScanTrap, cursor, proofs, Effects, ScanErrors
<1>5. ASSUME NEW b \in ScanInput, ScanAccept(b) PROVE TypeOK'
  <2>1. b \in ScanPayload
    BY ScanInputAssumption
  <2>2. b.height \in Nat /\ b.digest \in Digest
    BY <2>1 DEF ScanPayload
  <2>3. IsAccumulator(ClaimScanner(Seeded, b))
    BY <1>1, <2>1, ClaimScannerProperties
  <2>4. Append(scanned, b) \in Seq(ScanInput)
    BY AppendProperties
  <2> QED
    BY <1>5, <2>2, <2>3, <2>4 DEF ScanAccept, proofs, Effects
<1>6. CASE ProveRecursiveGenesis
  <2>1. IsAccumulator(EnsureGenesisTld(accumulator))
    BY EnsureGenesisTldProperties
  <2>2. GenesisComputation \in Computation
    BY AccumulatorAssumption DEF GenesisComputation, Computation
  <2> QED
    BY <1>6, <2>1, <2>2 DEF ProveRecursiveGenesis, cursor, proofs, Effects
<1>7. ASSUME NEW prev \in {"stored", "supplied", "garbled"},
             NEW b \in ScanInput, ProveRecursiveTransition(prev, b)
      PROVE  TypeOK'
  <2>1. b.digest \in Digest /\ b.claims \in Seq(Claim)
    BY ScanInputAssumption DEF ScanPayload
  <2>2. ClaimedNames(b) \in SUBSET Name
    <3>1. \A i \in DOMAIN b.claims : b.claims[i] \in Claim
      BY <2>1, LenProperties, ElementOfSeq
    <3>2. \A i \in DOMAIN b.claims : b.claims[i].name \in Name
      BY <3>1 DEF Claim
    <3> QED
      BY <3>2 DEF ClaimedNames
  <2>3. PrevHeight \in Nat
    BY AccumulatorAssumption DEF PrevHeight
  <2>4. TransitionComputation(b) \in Computation
    BY <2>1, <2>2, <2>3 DEF TransitionComputation, Computation
  <2> QED
    BY <1>7, <2>4 DEF ProveRecursiveTransition, cursor, proofs, Effects
<1>8. CASE ProveOther
  <2>1. OtherComputation \in Computation
    BY AccumulatorAssumption DEF OtherComputation, Computation
  <2> QED
    BY <1>8, <2>1 DEF ProveOther, cursor, proofs, Effects
<1>9. CASE UNCHANGED kernelVars
  BY <1>9 DEF kernelVars
<1> QED
  BY <1>2, <1>3, <1>4, <1>5, <1>6, <1>7, <1>8, <1>9 DEF Next, ScanBlock

(* What a fresh kernel satisfies. *)
LEMMA InitialState ==
  ASSUME Init
  PROVE  TypeOK /\ ScannedIsLinkedRun /\ RegistryIsReplay
<1>1. TypeOK
  <2>1. IsAccumulator(accumulator)
    BY DEF Init, EmptyAccumulator, IsAccumulator
  <2>2. scanned \in Seq(ScanInput)
    BY EmptySeq DEF Init
  <2> QED
    BY <2>1, <2>2, AccumulatorAssumption DEF Init, TypeOK, Effects
<1>2. ScannedIsLinkedRun
  BY DEF Init, ScannedIsLinkedRun, Boot
<1>3. RegistryIsReplay
  BY DEF Init, EmptyAccumulator, RegistryIsReplay, RowsAreFirstClaims,
         ClaimsAreRegistered, TldReserved, HasRow
<1> QED
  BY <1>1, <1>2, <1>3

(* The kernel's state keeps its types.                                     *)
THEOREM TypeCorrect == Spec => []TypeOK
<1>1. Init => TypeOK
  BY InitialState
<1>2. TypeOK /\ [Next]_kernelVars => TypeOK'
  BY TypeStep
<1> QED
  BY <1>1, <1>2, PTL DEF Spec

-----------------------------------------------------------------------------
(* A step that writes no row but the reserved one and accepts no block.    *)
QuietStep ==
  /\ UNCHANGED <<cursor, scanned>>
  /\ DOMAIN accumulator \subseteq DOMAIN accumulator'
  /\ DOMAIN accumulator' \subseteq DOMAIN accumulator \cup {Tld}
  /\ \A n \in DOMAIN accumulator : accumulator'[n] = accumulator[n]
  /\ ~HasRow(accumulator, Tld) /\ HasRow(accumulator', Tld)
       => accumulator'[Tld] = GenesisTldEntry

(* The accumulator a scan folds over has the rows of the registry, and the *)
(* reserved row if nothing has been scanned.                               *)
LEMMA SeededProperties ==
  ASSUME TypeOK
  PROVE  /\ IsAccumulator(Seeded)
         /\ DOMAIN accumulator \subseteq DOMAIN Seeded
         /\ DOMAIN Seeded \subseteq DOMAIN accumulator \cup {Tld}
         /\ Boot => HasRow(Seeded, Tld)
         /\ \A n \in DOMAIN accumulator : Seeded[n] = accumulator[n]
         /\ ~HasRow(accumulator, Tld) /\ HasRow(Seeded, Tld)
              => Seeded[Tld] = GenesisTldEntry
<1>1. IsAccumulator(accumulator)
  BY DEF TypeOK
<1>2. CASE Boot
  BY <1>1, <1>2, EnsureGenesisTldProperties DEF Seeded, HasRow
<1>3. CASE ~Boot
  BY <1>1, <1>3 DEF Seeded
<1> QED
  BY <1>2, <1>3

(* Every step accepts one block or is quiet. *)
LEMMA StepCases ==
  ASSUME TypeOK, [Next]_kernelVars
  PROVE  QuietStep \/ \E b \in ScanInput : ScanAccept(b)
<1> SUFFICES ASSUME ~ \E b \in ScanInput : ScanAccept(b)
             PROVE  QuietStep
  OBVIOUS
<1>1. IsAccumulator(accumulator)
  BY DEF TypeOK
<1>2. ASSUME accumulator' = accumulator, UNCHANGED <<cursor, scanned>>
      PROVE  QuietStep
  BY <1>2 DEF QuietStep
<1>3. ASSUME accumulator' = Seeded, UNCHANGED <<cursor, scanned>>
      PROVE  QuietStep
  BY <1>3, SeededProperties DEF QuietStep
<1>4. ASSUME NEW b \in ScanInput, ScanParentMismatch(b) PROVE QuietStep
  BY <1>2, <1>4 DEF ScanParentMismatch
<1>5. ASSUME NEW b \in ScanInput, ScanHeightMismatch(b) PROVE QuietStep
  BY <1>3, <1>5 DEF ScanHeightMismatch
<1>6. ASSUME NEW b \in ScanInput, ScanTrap(b) PROVE QuietStep
  BY <1>3, <1>6 DEF ScanTrap
<1>7. CASE ProveRecursiveGenesis
  <2>1. accumulator' = EnsureGenesisTld(accumulator)
        /\ UNCHANGED <<cursor, scanned>>
    BY <1>7 DEF ProveRecursiveGenesis
  <2> QED
    BY <1>1, <2>1, EnsureGenesisTldProperties DEF QuietStep
<1>8. ASSUME NEW prev \in {"stored", "supplied", "garbled"},
             NEW b \in ScanInput, ProveRecursiveTransition(prev, b)
      PROVE  QuietStep
  BY <1>2, <1>8 DEF ProveRecursiveTransition
<1>9. CASE ProveOther
  BY <1>2, <1>9 DEF ProveOther
<1>10. CASE UNCHANGED kernelVars
  BY <1>2, <1>10 DEF kernelVars, cursor
<1> QED
  BY <1>4, <1>5, <1>6, <1>7, <1>8, <1>9, <1>10 DEF Next, ScanBlock

(* What accepting a block does to the rows. *)
LEMMA AcceptedRows ==
  ASSUME TypeOK, NEW b \in ScanInput, ScanAccept(b)
  PROVE  /\ DOMAIN accumulator \subseteq DOMAIN accumulator'
         /\ \A n \in DOMAIN accumulator : accumulator'[n] = accumulator[n]
         /\ \A i \in ValidPositions(b) : b.claims[i].name \in DOMAIN accumulator'
         /\ \A n \in DOMAIN accumulator' \ (DOMAIN accumulator \cup {Tld}) :
              \E i \in ValidPositions(b) :
                /\ IsFirstClaim(b, n, i)
                /\ accumulator'[n] = RowOf(b, b.claims[i])
         /\ Boot => HasRow(accumulator', Tld)
         /\ ~HasRow(accumulator, Tld) /\ Boot
              => accumulator'[Tld] = GenesisTldEntry
<1>1. b \in ScanPayload /\ accumulator' = ClaimScanner(Seeded, b)
  BY ScanInputAssumption DEF ScanAccept
<1>2. /\ DOMAIN ClaimScanner(Seeded, b) =
           DOMAIN Seeded \cup {b.claims[i].name : i \in ValidPositions(b)}
      /\ \A n \in DOMAIN Seeded : ClaimScanner(Seeded, b)[n] = Seeded[n]
      /\ \A n \in DOMAIN ClaimScanner(Seeded, b) \ DOMAIN Seeded :
           \E i \in ValidPositions(b) :
             /\ IsFirstClaim(b, n, i)
             /\ ClaimScanner(Seeded, b)[n] = RowOf(b, b.claims[i])
  BY <1>1, SeededProperties, ClaimScannerProperties
<1>3. \A n \in DOMAIN Seeded : n \in DOMAIN accumulator'
                               /\ accumulator'[n] = Seeded[n]
  BY <1>1, <1>2
<1>4. \A n \in DOMAIN accumulator : n \in DOMAIN accumulator'
                                    /\ accumulator'[n] = accumulator[n]
  BY <1>3, SeededProperties
<1>5. Boot => HasRow(accumulator', Tld)
  BY <1>3, SeededProperties DEF HasRow
<1>6. ~HasRow(accumulator, Tld) /\ Boot => accumulator'[Tld] = GenesisTldEntry
  BY <1>3, SeededProperties DEF HasRow
<1> QED
  BY <1>1, <1>2, <1>4, <1>5, <1>6, SeededProperties

-----------------------------------------------------------------------------
(* The kernel is at its boot cursor exactly when it has accepted nothing.  *)
LEMMA BootMeansNothingScanned ==
  ASSUME TypeOK, ScannedIsLinkedRun
  PROVE  Boot <=> scanned = <<>>
<1>1. ASSUME scanned # <<>> PROVE ~Boot
  <2>1. Len(scanned) \in Nat \ {0} /\ Len(scanned) \in DOMAIN scanned
    BY <1>1, EmptySeq, LenProperties DEF TypeOK
  <2>2. lastProvedHeight = GenesisHeight + Len(scanned) - 1
    BY <1>1, <2>1 DEF ScannedIsLinkedRun
  <2> QED
    BY <2>1, <2>2, AccumulatorAssumption DEF Boot
<1> QED
  BY <1>1 DEF ScannedIsLinkedRun

(* Accepting a block appends it to the run, links it and moves the cursor. *)
LEMMA AcceptExtendsRun ==
  ASSUME TypeOK, ScannedIsLinkedRun, NEW b \in ScanInput, ScanAccept(b)
  PROVE  /\ scanned' = Append(scanned, b)
         /\ Len(scanned') = Len(scanned) + 1
         /\ DOMAIN scanned' = DOMAIN scanned \cup {Len(scanned) + 1}
         /\ \A i \in DOMAIN scanned : scanned'[i] = scanned[i]
         /\ scanned'[Len(scanned) + 1] = b
         /\ b.height = GenesisHeight + Len(scanned)
         /\ scanned # <<>> => b.parent = scanned[Len(scanned)].digest
<1>1. scanned \in Seq(ScanInput) /\ Len(scanned) \in Nat
      /\ DOMAIN scanned = 1 .. Len(scanned)
  BY LenProperties DEF TypeOK
<1>2. scanned' = Append(scanned, b)
  BY DEF ScanAccept
<1>3. /\ scanned' \in Seq(ScanInput)
      /\ Len(scanned') = Len(scanned) + 1
      /\ \A i \in 1 .. Len(scanned) : scanned'[i] = scanned[i]
      /\ scanned'[Len(scanned) + 1] = b
  BY <1>1, <1>2, AppendProperties
<1>4. DOMAIN scanned' = DOMAIN scanned \cup {Len(scanned) + 1}
  <2>1. DOMAIN scanned' = 1 .. Len(scanned')
    BY <1>3, LenProperties
  <2> QED
    BY <1>1, <1>3, <2>1
<1>5. b.height = GenesisHeight + Len(scanned)
      /\ (scanned # <<>> => b.parent = scanned[Len(scanned)].digest)
  <2>1. b.height = WantHeight /\ Linked(b)
    BY DEF ScanAccept
  <2>2. CASE scanned = <<>>
    <3>1. Boot /\ Len(scanned) = 0
      BY <2>2 DEF ScannedIsLinkedRun
    <3>2. WantHeight = GenesisHeight
      BY <3>1, AccumulatorAssumption DEF WantHeight, Boot
    <3> QED
      BY <2>1, <2>2, <3>1, <3>2, AccumulatorAssumption
  <2>3. CASE scanned # <<>>
    <3>1. ~Boot
      BY <2>3, BootMeansNothingScanned
    <3>2. Len(scanned) # 0
      BY <1>1, <2>3, EmptySeq
    <3>3. /\ lastProvedHeight = GenesisHeight + Len(scanned) - 1
          /\ lastProvedDigest = scanned[Len(scanned)].digest
      BY <1>1, <2>3, <3>2 DEF ScannedIsLinkedRun
    <3>4. WantHeight = lastProvedHeight + 1 /\ b.parent = lastProvedDigest
      BY <2>1, <3>1 DEF WantHeight, Linked
    <3> QED
      BY <1>1, <2>1, <3>3, <3>4, AccumulatorAssumption
  <2> QED
    BY <2>2, <2>3
<1> QED
  BY <1>1, <1>2, <1>3, <1>4, <1>5

(* The linked run is kept by every step. *)
LEMMA LinkedRunStep ==
  ASSUME TypeOK, ScannedIsLinkedRun, [Next]_kernelVars
  PROVE  ScannedIsLinkedRun'
<1>1. CASE QuietStep
  BY <1>1 DEF QuietStep, cursor, ScannedIsLinkedRun, Boot
<1>2. ASSUME NEW b \in ScanInput, ScanAccept(b) PROVE ScannedIsLinkedRun'
  <2>1. scanned \in Seq(ScanInput) /\ Len(scanned) \in Nat
        /\ DOMAIN scanned = 1 .. Len(scanned)
    BY LenProperties DEF TypeOK
  <2>2. /\ Len(scanned') = Len(scanned) + 1
        /\ DOMAIN scanned' = DOMAIN scanned \cup {Len(scanned) + 1}
        /\ \A i \in DOMAIN scanned : scanned'[i] = scanned[i]
        /\ scanned'[Len(scanned) + 1] = b
        /\ b.height = GenesisHeight + Len(scanned)
        /\ scanned # <<>> => b.parent = scanned[Len(scanned)].digest
    BY <1>2, AcceptExtendsRun
  <2>3. ASSUME NEW i \in DOMAIN scanned'
        PROVE  /\ scanned'[i].height = GenesisHeight + i - 1
               /\ i > 1 => scanned'[i].parent = scanned'[i - 1].digest
    <3>1. CASE i \in DOMAIN scanned
      <4>1. i > 1 => i - 1 \in DOMAIN scanned
        BY <2>1, <3>1
      <4> QED
        BY <2>2, <3>1, <4>1 DEF ScannedIsLinkedRun
    <3>2. CASE i = Len(scanned) + 1
      <4>1. i > 1 => scanned # <<>> /\ Len(scanned) \in DOMAIN scanned
        BY <2>1, <3>2, EmptySeq
      <4> QED
        BY <2>1, <2>2, <3>2, <4>1, AccumulatorAssumption
    <3> QED
      BY <2>2, <3>1, <3>2
  <2>4. scanned' # <<>>
    BY <1>2, <2>1, AppendProperties DEF ScanAccept
  <2>5. lastProvedHeight' = b.height /\ lastProvedDigest' = b.digest
    BY <1>2 DEF ScanAccept
  <2> QED
    BY <2>2, <2>3, <2>4, <2>5 DEF ScannedIsLinkedRun
<1> QED
  BY <1>1, <1>2, StepCases

(* The accepted blocks are a linked run that ends at the cursor. *)
THEOREM LinkedRun == Spec => []ScannedIsLinkedRun
<1>1. Init => ScannedIsLinkedRun
  BY InitialState
<1>2. TypeOK /\ ScannedIsLinkedRun /\ [Next]_kernelVars => ScannedIsLinkedRun'
  BY LinkedRunStep
<1> QED
  BY <1>1, <1>2, TypeCorrect, PTL DEF Spec

-----------------------------------------------------------------------------
(* A row of the registry has a first claim; steps keep it the first one:   *)
(* a new block's claims come later, and a name it adds had no valid claim  *)
(* before, because every earlier valid claim has already given its name a  *)
(* row.                                                                    *)
LEMMA RowsAreFirstClaimsStep ==
  ASSUME TypeOK, ScannedIsLinkedRun, RowsAreFirstClaims, ClaimsAreRegistered,
         NEW b \in ScanInput, ScanAccept(b)
  PROVE  RowsAreFirstClaims'
<1> DEFINE new == Len(scanned) + 1
<1>1. /\ scanned \in Seq(ScanInput)
      /\ DOMAIN scanned = 1 .. Len(scanned)
      /\ Len(scanned) \in Nat
  BY LenProperties DEF TypeOK
<1>2. /\ DOMAIN scanned' = DOMAIN scanned \cup {new}
      /\ \A i \in DOMAIN scanned : scanned'[i] = scanned[i]
      /\ scanned'[new] = b
  BY AcceptExtendsRun
<1>3. b \in ScanPayload
  BY ScanInputAssumption
<1> SUFFICES
      ASSUME NEW n \in DOMAIN accumulator' \ {Tld}
      PROVE  \E i \in DOMAIN scanned' : \E j \in ValidPositions(scanned'[i]) :
               /\ scanned'[i].claims[j].name = n
               /\ accumulator'[n] = RowOf(scanned'[i], scanned'[i].claims[j])
               /\ \A k \in DOMAIN scanned' :
                    \A l \in ValidPositions(scanned'[k]) :
                      scanned'[k].claims[l].name = n => ~Before(k, l, i, j)
  BY DEF RowsAreFirstClaims, ClaimAt
<1>4. CASE n \in DOMAIN accumulator
  <2>1. PICK i \in DOMAIN scanned : \E j \in ValidPositions(scanned[i]) :
          /\ scanned[i].claims[j].name = n
          /\ accumulator[n] = RowOf(scanned[i], scanned[i].claims[j])
          /\ \A k \in DOMAIN scanned : \A l \in ValidPositions(scanned[k]) :
               scanned[k].claims[l].name = n => ~Before(k, l, i, j)
    BY <1>4 DEF RowsAreFirstClaims, ClaimAt
  <2>2. PICK j \in ValidPositions(scanned[i]) :
          /\ scanned[i].claims[j].name = n
          /\ accumulator[n] = RowOf(scanned[i], scanned[i].claims[j])
          /\ \A k \in DOMAIN scanned : \A l \in ValidPositions(scanned[k]) :
               scanned[k].claims[l].name = n => ~Before(k, l, i, j)
    BY <2>1
  <2>3. i \in DOMAIN scanned' /\ scanned'[i] = scanned[i]
    BY <1>2
  <2>4. accumulator'[n] = accumulator[n]
    BY <1>4, AcceptedRows
  <2>5. ASSUME NEW k \in DOMAIN scanned', NEW l \in ValidPositions(scanned'[k]),
               scanned'[k].claims[l].name = n
        PROVE  ~Before(k, l, i, j)
    <3>1. CASE k \in DOMAIN scanned
      BY <1>2, <2>2, <2>5, <3>1
    <3>2. CASE k = new
      BY <1>1, <3>2 DEF Before
    <3> QED
      BY <1>2, <3>1, <3>2
  <2> QED
    BY <2>2, <2>3, <2>4, <2>5
<1>5. CASE n \notin DOMAIN accumulator
  <2>1. PICK j \in ValidPositions(b) :
          IsFirstClaim(b, n, j) /\ accumulator'[n] = RowOf(b, b.claims[j])
    BY <1>5, AcceptedRows
  <2>2. b.claims[j].name = n
        /\ \A l \in ValidPositions(b) : b.claims[l].name = n => j <= l
    BY <2>1 DEF IsFirstClaim
  <2>3. ASSUME NEW k \in DOMAIN scanned', NEW l \in ValidPositions(scanned'[k]),
               scanned'[k].claims[l].name = n
        PROVE  ~Before(k, l, new, j)
    <3>1. CASE k \in DOMAIN scanned
      BY <1>2, <1>5, <2>3, <3>1 DEF ClaimsAreRegistered, ClaimAt
    <3>2. CASE k = new
      <4>1. j \in Nat /\ l \in Nat /\ j <= l
        BY <1>2, <1>3, <2>1, <2>2, <2>3, <3>2, ValidPositionType
      <4> QED
        BY <1>1, <3>2, <4>1 DEF Before
    <3> QED
      BY <1>2, <3>1, <3>2
  <2> QED
    BY <1>2, <2>1, <2>2, <2>3
<1> QED
  BY <1>4, <1>5

(* The registry stays the replay of the accepted blocks. *)
LEMMA RegistryIsReplayStep ==
  ASSUME TypeOK, ScannedIsLinkedRun, RegistryIsReplay, [Next]_kernelVars
  PROVE  RegistryIsReplay'
<1> USE DEF RegistryIsReplay
<1>1. CASE QuietStep
  <2>1. RowsAreFirstClaims'
    <3>1. /\ scanned' = scanned
          /\ DOMAIN accumulator' \subseteq DOMAIN accumulator \cup {Tld}
          /\ \A n \in DOMAIN accumulator : accumulator'[n] = accumulator[n]
      BY <1>1 DEF QuietStep
    <3>2. ASSUME NEW n \in DOMAIN accumulator' \ {Tld}
          PROVE  n \in DOMAIN accumulator \ {Tld}
                 /\ accumulator'[n] = accumulator[n]
      BY <3>1
    <3> QED
      BY <3>1, <3>2 DEF RowsAreFirstClaims, ClaimAt
  <2>2. ClaimsAreRegistered'
    BY <1>1 DEF QuietStep, ClaimsAreRegistered, ClaimAt
  <2>3. TldReserved'
    BY <1>1 DEF QuietStep, TldReserved, HasRow
  <2> QED
    BY <2>1, <2>2, <2>3
<1>2. ASSUME NEW b \in ScanInput, ScanAccept(b) PROVE RegistryIsReplay'
  <2>1. RowsAreFirstClaims'
    BY <1>2, RowsAreFirstClaimsStep
  <2>2. ClaimsAreRegistered'
    <3>1. /\ DOMAIN scanned' = DOMAIN scanned \cup {Len(scanned) + 1}
          /\ \A i \in DOMAIN scanned : scanned'[i] = scanned[i]
          /\ scanned'[Len(scanned) + 1] = b
      BY <1>2, AcceptExtendsRun
    <3>2. /\ DOMAIN accumulator \subseteq DOMAIN accumulator'
          /\ \A i \in ValidPositions(b) :
               b.claims[i].name \in DOMAIN accumulator'
      BY <1>2, AcceptedRows
    <3>3. ASSUME NEW i \in DOMAIN scanned',
                 NEW j \in ValidPositions(scanned'[i])
          PROVE  scanned'[i].claims[j].name \in DOMAIN accumulator'
      <4>1. CASE i \in DOMAIN scanned
        BY <3>1, <3>2, <3>3, <4>1 DEF ClaimsAreRegistered, ClaimAt
      <4>2. CASE i = Len(scanned) + 1
        BY <3>1, <3>2, <3>3, <4>2
      <4> QED
        BY <3>1, <4>1, <4>2
    <3> QED
      BY <3>3 DEF ClaimsAreRegistered, ClaimAt
  <2>3. TldReserved'
    <3>1. HasRow(accumulator, Tld) \/ Boot
      BY BootMeansNothingScanned DEF TldReserved
    <3>2. CASE HasRow(accumulator, Tld)
      BY <1>2, <3>2, AcceptedRows DEF TldReserved, HasRow
    <3>3. CASE ~HasRow(accumulator, Tld)
      BY <1>2, <3>1, <3>3, AcceptedRows DEF TldReserved
    <3> QED
      BY <3>2, <3>3
  <2> QED
    BY <2>1, <2>2, <2>3
<1> QED
  BY <1>1, <1>2, StepCases

(* The three together are inductive, whoever sends the pokes. *)
LEMMA KernelStep ==
  ASSUME TypeOK, ScannedIsLinkedRun, RegistryIsReplay, [Next]_kernelVars
  PROVE  TypeOK' /\ ScannedIsLinkedRun' /\ RegistryIsReplay'
  BY TypeStep, LinkedRunStep, RegistryIsReplayStep

(* The registry is a function of the accepted blocks: first valid claim    *)
(* per name, none lost, the reserved row untouched.                        *)
THEOREM RegistryReplay == Spec => []RegistryIsReplay
<1>1. Init => RegistryIsReplay
  BY InitialState
<1>2. TypeOK /\ ScannedIsLinkedRun /\ RegistryIsReplay /\ [Next]_kernelVars
        => RegistryIsReplay'
  BY RegistryIsReplayStep
<1> QED
  BY <1>1, <1>2, TypeCorrect, LinkedRun, PTL DEF Spec

-----------------------------------------------------------------------------
(* No step rewrites or removes a row. *)
THEOREM PermanentRows == Spec => RowsArePermanent
<1>1. TypeOK /\ [Next]_kernelVars =>
        [\A n \in DOMAIN accumulator :
           n \in DOMAIN accumulator'
           /\ accumulator'[n] = accumulator[n]]_kernelVars
  <2> SUFFICES ASSUME TypeOK, [Next]_kernelVars
               PROVE  \A n \in DOMAIN accumulator :
                        n \in DOMAIN accumulator'
                        /\ accumulator'[n] = accumulator[n]
    OBVIOUS
  <2>1. CASE QuietStep
    BY <2>1 DEF QuietStep
  <2>2. ASSUME NEW b \in ScanInput, ScanAccept(b)
        PROVE  \A n \in DOMAIN accumulator :
                 n \in DOMAIN accumulator'
                 /\ accumulator'[n] = accumulator[n]
    BY <2>2, AcceptedRows
  <2> QED
    BY <2>1, <2>2, StepCases
<1> QED
  BY <1>1, TypeCorrect, PTL DEF Spec, RowsArePermanent

(* The kernel implements the abstract ledger: accepting a block is one     *)
(* Extend step, every other step stutters.                                 *)
THEOREM KernelImplementsNameRegistry == Spec => ImplementsNameRegistry
<1> DEFINE R == [n \in DOMAIN accumulator \ {Tld} |-> accumulator[n]]
<1>1. Init => Registry!Init
  BY DEF Init, EmptyAccumulator, Registry!Init
<1>2. TypeOK /\ ScannedIsLinkedRun /\ [Next]_kernelVars
        => [Registry!Extend]_<<R, lastProvedHeight>>
  <2> SUFFICES ASSUME TypeOK, ScannedIsLinkedRun, [Next]_kernelVars
               PROVE  [Registry!Extend]_<<R, lastProvedHeight>>
    OBVIOUS
  <2>1. CASE QuietStep
    <3>1. lastProvedHeight' = lastProvedHeight
      BY <2>1 DEF QuietStep, cursor
    <3>2. DOMAIN accumulator' \ {Tld} = DOMAIN accumulator \ {Tld}
      BY <2>1 DEF QuietStep
    <3>3. \A n \in DOMAIN accumulator : accumulator'[n] = accumulator[n]
      BY <2>1 DEF QuietStep
    <3>4. R' = R
      BY <3>2, <3>3
    <3> QED
      BY <3>1, <3>4
  <2>2. ASSUME NEW b \in ScanInput, ScanAccept(b)
        PROVE  Registry!Extend
    <3>1. /\ DOMAIN accumulator \subseteq DOMAIN accumulator'
          /\ \A n \in DOMAIN accumulator : accumulator'[n] = accumulator[n]
          /\ \A n \in DOMAIN accumulator' \ (DOMAIN accumulator \cup {Tld}) :
               \E i \in ValidPositions(b) :
                 /\ IsFirstClaim(b, n, i)
                 /\ accumulator'[n] = RowOf(b, b.claims[i])
      BY <2>2, AcceptedRows
    <3>2. lastProvedHeight' = b.height /\ b.height = WantHeight
      BY <2>2 DEF ScanAccept
    <3>3. WantHeight = Registry!NextHeight
      <4>1. CASE Boot
        BY <4>1, AccumulatorAssumption
           DEF WantHeight, Registry!NextHeight, Boot
      <4>2. CASE ~Boot
        <5>1. lastProvedHeight # 0
          <6>1. scanned # <<>>
            BY <4>2, BootMeansNothingScanned
          <6>2. Len(scanned) \in Nat \ {0} /\ Len(scanned) \in DOMAIN scanned
            BY <6>1, EmptySeq, LenProperties DEF TypeOK
          <6> QED
            BY <6>1, <6>2, AccumulatorAssumption DEF ScannedIsLinkedRun
        <5> QED
          BY <4>2, <5>1 DEF WantHeight, Registry!NextHeight
      <4> QED
        BY <4>1, <4>2
    <3>4. \A n \in DOMAIN R' \ DOMAIN R :
            R'[n].name = n /\ R'[n].claimHeight = lastProvedHeight'
      <4>1. TAKE n \in DOMAIN R' \ DOMAIN R
      <4>2. n \in DOMAIN accumulator' \ (DOMAIN accumulator \cup {Tld})
            /\ R'[n] = accumulator'[n]
        OBVIOUS
      <4>3. PICK i \in ValidPositions(b) :
              IsFirstClaim(b, n, i) /\ accumulator'[n] = RowOf(b, b.claims[i])
        BY <3>1, <4>2
      <4> QED
        BY <3>2, <4>2, <4>3 DEF IsFirstClaim, RowOf
    <3>5. DOMAIN R \subseteq DOMAIN R' /\ \A n \in DOMAIN R : R'[n] = R[n]
      BY <3>1
    <3> QED
      BY <3>2, <3>3, <3>4, <3>5 DEF Registry!Extend
  <2> QED
    BY <2>1, <2>2, StepCases
<1> QED
  BY <1>1, <1>2, TypeCorrect, LinkedRun, PTL
     DEF Spec, ImplementsNameRegistry, Registry!Spec

=============================================================================
