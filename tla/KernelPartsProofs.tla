------------------------- MODULE KernelPartsProofs -------------------------
(***************************************************************************)
(* Proofs about the parts of the kernel beside its state machine: its two  *)
(* loops, for lists of any length, and the formulas of the recursive       *)
(* proofs, for every registry, height and digest.                          *)
(*                                                                         *)
(* The claim scanner as the code writes it, a left fold of inserts,        *)
(* computes the closed form ClaimScanner that NNSKernel and the proofs     *)
(* about it use.  The settlement gate, a left fold over the leaves of a    *)
(* batch, accepts only rows of the registry that was committed to, none    *)
(* twice, and all of those.  The machine runs the genesis and transition   *)
(* formulas to the verdicts of the host's specification.                   *)
(***************************************************************************)
EXTENDS ClaimScannerFold, SettlementGate, RecursiveStep, NNSKernelProofs,
        FiniteSetTheorems, FunctionTheorems

(* One turn of the loop, with the page as its parameter. *)
Scan == INSTANCE FoldFacts WITH Op <- LAMBDA p, acc, c : ScanClaim(acc, p, c)

LEMMA FoldClaimsIsFold ==
  ASSUME NEW acc, NEW p
  PROVE  FoldClaims(acc, p) = Scan!Fold(p, acc, p.claims)
BY DEF FoldClaims, FoldLeft, MapThenFoldSet, Max,
       Scan!Fold, Scan!FoldLeft, Scan!MapThenFoldSet, Scan!Max

-----------------------------------------------------------------------------
(* The registry after the first i claims of the page. *)
ClaimedUpTo(p, i) ==
  {p.claims[j].name : j \in {j \in ValidPositions(p) : j <= i}}

FirstClaim(p, n) == CHOOSE i \in ValidPositions(p) : IsFirstClaim(p, n, i)

RowFor(acc, p, n) ==
  IF HasRow(acc, n) THEN acc[n] ELSE RowOf(p, p.claims[FirstClaim(p, n)])

AfterClaims(acc, p, i) ==
  [n \in DOMAIN acc \cup ClaimedUpTo(p, i) |-> RowFor(acc, p, n)]

(* The first valid claim on a name is the one the scanner takes.           *)
LEMMA FirstClaimIs ==
  ASSUME NEW p \in ScanPayload, NEW n, NEW i, IsFirstClaim(p, n, i)
  PROVE  FirstClaim(p, n) = i
<1>1. \A j, k \in ValidPositions(p) :
        IsFirstClaim(p, n, j) /\ IsFirstClaim(p, n, k) => j = k
  BY ValidPositionType DEF IsFirstClaim
<1>2. i \in ValidPositions(p)
  BY DEF IsFirstClaim
<1> QED
  BY <1>1, <1>2 DEF FirstClaim

(* One turn of the loop takes the registry one claim further.              *)
LEMMA OneClaimFurther ==
  ASSUME NEW acc, NEW p \in ScanPayload,
         NEW i \in Nat, i + 1 \in DOMAIN p.claims
  PROVE  ScanClaim(AfterClaims(acc, p, i), p, p.claims[i + 1])
           = AfterClaims(acc, p, i + 1)
<1> DEFINE c == p.claims[i + 1]
           a == AfterClaims(acc, p, i)
<1>1. \A j \in ValidPositions(p) : j \in Nat
  BY ValidPositionType
<1>2. CASE ~ValidClaim(p, c)
  <2>1. i + 1 \notin ValidPositions(p)
    BY <1>2 DEF ValidPositions
  <2>2. {j \in ValidPositions(p) : j <= i} = {j \in ValidPositions(p) : j <= i + 1}
    BY <1>1, <2>1
  <2> QED
    BY <1>2, <2>2 DEF ScanClaim, AfterClaims, ClaimedUpTo
<1>3. CASE ValidClaim(p, c)
  <2>1. i + 1 \in ValidPositions(p)
    BY <1>3 DEF ValidPositions
  <2>2. {j \in ValidPositions(p) : j <= i + 1}
          = {j \in ValidPositions(p) : j <= i} \cup {i + 1}
    BY <1>1, <2>1
  <2>3. ClaimedUpTo(p, i + 1) = ClaimedUpTo(p, i) \cup {c.name}
    BY <2>2 DEF ClaimedUpTo
  <2>4. ScanClaim(a, p, c) = Insert(a, c.name, RowOf(p, c))
    BY <1>3 DEF ScanClaim
  <2>5. DOMAIN a = DOMAIN acc \cup ClaimedUpTo(p, i)
    BY DEF AfterClaims
  <2>6. CASE HasRow(a, c.name)
    BY <2>3, <2>4, <2>5, <2>6 DEF Insert, HasRow, AfterClaims
  <2>7. CASE ~HasRow(a, c.name)
    <3>1. c.name \notin DOMAIN acc /\ c.name \notin ClaimedUpTo(p, i)
      BY <2>5, <2>7 DEF HasRow
    <3>2. \A j \in ValidPositions(p) : p.claims[j].name = c.name => i + 1 <= j
      BY <1>1, <3>1 DEF ClaimedUpTo
    <3>3. FirstClaim(p, c.name) = i + 1
      BY <2>1, <3>2, FirstClaimIs DEF IsFirstClaim
    <3>4. [RowOf(p, c) EXCEPT !.name = c.name] = RowOf(p, c)
      BY DEF RowOf
    <3>5. RowFor(acc, p, c.name) = RowOf(p, c)
      BY <3>1, <3>3 DEF RowFor, HasRow
    <3>6. \A n \in DOMAIN a : a[n] = RowFor(acc, p, n)
      BY DEF AfterClaims
    <3>7. Insert(a, c.name, RowOf(p, c))
            = [n \in DOMAIN a \cup {c.name} |->
                 IF n = c.name THEN RowOf(p, c) ELSE a[n]]
      BY <2>7, <3>4 DEF Insert
    <3>8. \A n \in DOMAIN a \cup {c.name} :
            (IF n = c.name THEN RowOf(p, c) ELSE a[n]) = RowFor(acc, p, n)
      BY <3>5, <3>6
    <3>9. DOMAIN a \cup {c.name} = DOMAIN acc \cup ClaimedUpTo(p, i + 1)
      BY <2>3, <2>5
    <3>10. Insert(a, c.name, RowOf(p, c))
             = [n \in DOMAIN acc \cup ClaimedUpTo(p, i + 1) |->
                  RowFor(acc, p, n)]
      BY <3>7, <3>8, <3>9
    <3> QED
      BY <2>4, <3>10 DEF AfterClaims
  <2> QED
    BY <2>6, <2>7
<1> QED
  BY <1>2, <1>3

(* The loop over all n claims of the page.                                 *)
LEMMA ClaimsRun ==
  ASSUME NEW acc, IsAccumulator(acc), NEW p \in ScanPayload,
         NEW cs, cs = p.claims, NEW n \in Nat, DOMAIN cs = 1 .. n
  PROVE  Scan!Fold(p, acc, cs) = AfterClaims(acc, p, n)
<1>1. n \in Nat /\ DOMAIN p.claims = 1 .. n
  OBVIOUS
<1> DEFINE f == Scan!Run(p, acc, cs, n)
<1>2. /\ f[0] = acc
      /\ \A i \in 1 .. n : f[i] = ScanClaim(f[i - 1], p, cs[i])
      /\ Scan!Fold(p, acc, cs) = f[n]
  BY Scan!FoldRun
<1> HIDE DEF f
<1> DEFINE S == {i \in Nat : i <= n => f[i] = AfterClaims(acc, p, i)}
<1>3. 0 \in S
  <2>1. ClaimedUpTo(p, 0) = {}
    BY <1>1 DEF ClaimedUpTo, ValidPositions
  <2>2. AfterClaims(acc, p, 0) = acc
    BY <2>1 DEF AfterClaims, RowFor, HasRow, IsAccumulator
  <2> QED
    BY <1>2, <2>2
<1>4. ASSUME NEW i \in Nat, i \in S PROVE i + 1 \in S
  <2> SUFFICES ASSUME i + 1 <= n
               PROVE  f[i + 1] = AfterClaims(acc, p, i + 1)
    OBVIOUS
  <2>1. i + 1 \in 1 .. n /\ (i + 1) - 1 = i /\ i <= n
    BY <1>1
  <2>2. f[i + 1] = ScanClaim(f[i], p, p.claims[i + 1])
    BY <1>2, <2>1
  <2> QED
    BY <1>1, <1>4, <2>1, <2>2, OneClaimFurther
<1>5. n \in S
  <2> HIDE DEF S
  <2> QED
    BY <1>1, <1>3, <1>4, Scan!NatInd
<1> QED
  BY <1>2, <1>5

(* The fold of the code computes the closed form of the model, whatever    *)
(* the registry and whatever the claims of the page (claim-scanner).       *)
THEOREM FoldIsClaimScanner ==
  ASSUME NEW acc, IsAccumulator(acc), NEW p \in ScanPayload
  PROVE  FoldClaims(acc, p) = ClaimScanner(acc, p)
<1> DEFINE n == Len(p.claims)
<1>1. n \in Nat /\ DOMAIN p.claims = 1 .. n
  BY LenProperties DEF ScanPayload
<1> HIDE DEF n
<1>2. FoldClaims(acc, p) = AfterClaims(acc, p, n)
  BY <1>1, ClaimsRun, FoldClaimsIsFold
<1>3. {j \in ValidPositions(p) : j <= n} = ValidPositions(p)
  BY <1>1 DEF ValidPositions
<1>4. AfterClaims(acc, p, n) = ClaimScanner(acc, p)
  BY <1>3 DEF AfterClaims, ClaimedUpTo, RowFor, FirstClaim, ClaimScanner
<1> QED
  BY <1>2, <1>4

(* At every registry the kernel reaches, for every list of claims: the     *)
(* property the run `kernel' checks on lists of two.                       *)
THEOREM FoldsAgree == Spec => []FoldIsFirstWriterWins
<1>1. TypeOK => FoldIsFirstWriterWins
  <2> SUFFICES ASSUME TypeOK, NEW cs \in ClaimLists
               PROVE  LET page == [parent |-> lastProvedDigest,
                                   height |-> WantHeight,
                                   digest |-> ZeroDigest,
                                   txIds |-> PageTxIds, claims |-> cs]
                      IN  FoldClaims(accumulator, page)
                            = ClaimScanner(accumulator, page)
    BY DEF FoldIsFirstWriterWins
  <2> DEFINE page == [parent |-> lastProvedDigest, height |-> WantHeight,
                      digest |-> ZeroDigest, txIds |-> PageTxIds, claims |-> cs]
  <2>1. cs \in Seq(Claim)
    <3>1. PICK k \in 0 .. MaxClaims : cs \in [1 .. k -> ClaimPool]
      BY DEF ClaimLists
    <3>2. k \in Nat /\ \A i \in 1 .. k : cs[i] \in Claim
      BY <3>1, FoldAssumption
    <3> QED
      BY <3>1, <3>2, IsASeq
  <2>2. WantHeight \in Nat /\ lastProvedDigest \in Digest
    BY AccumulatorAssumption DEF WantHeight, TypeOK
  <2>3. page \in ScanPayload
    BY <2>1, <2>2, FoldAssumption, AccumulatorAssumption DEF ScanPayload
  <2>4. IsAccumulator(accumulator)
    BY DEF TypeOK
  <2> HIDE DEF page
  <2>5. FoldClaims(accumulator, page) = ClaimScanner(accumulator, page)
    BY <2>3, <2>4, FoldIsClaimScanner
  <2> QED
    BY <2>5 DEF page
<1> QED
  BY <1>1, TypeCorrect, PTL

-----------------------------------------------------------------------------
(* The settlement gate: Merkle trees and proofs over them.                 *)
Carry == INSTANCE FoldFacts WITH Op <- LAMBDA p, h, n : CarryUp(h, n)

LEMMA VerifyChunkIsFold ==
  ASSUME NEW row, NEW proof, NEW root
  PROVE  VerifyChunk(row, proof, root)
           <=> Carry!Fold(0, HashLeaf(row), proof) = root
<1>1. FoldLeft(CarryUp, HashLeaf(row), proof)
        = Carry!Fold(0, HashLeaf(row), proof)
  BY DEF FoldLeft, MapThenFoldSet, Max,
         Carry!Fold, Carry!FoldLeft, Carry!MapThenFoldSet, Carry!Max
<1> QED
  BY <1>1 DEF VerifyChunk

(* A leaf's hash is never that of a pair, and equal hashes are of the same *)
(* row, or of the same pair.                                               *)
LEMMA LeafIsNoPair ==
  ASSUME NEW row, NEW l, NEW r
  PROVE  HashLeaf(row) # HashPair(l, r)
<1>1. DOMAIN HashLeaf(row) = {"row"} /\ DOMAIN HashPair(l, r) = {"left", "right"}
  BY DEF HashLeaf, HashPair
<1> QED
  BY <1>1

LEMMA HashesAreTerms ==
  ASSUME NEW a, NEW b, NEW c, NEW d
  PROVE  /\ HashLeaf(a) = HashLeaf(b) => a = b
         /\ HashPair(a, b) = HashPair(c, d) => a = c /\ b = d
<1>1. HashLeaf(a).row = a /\ HashLeaf(b).row = b
  BY DEF HashLeaf
<1>2. /\ HashPair(a, b).left = a /\ HashPair(a, b).right = b
      /\ HashPair(c, d).left = c /\ HashPair(c, d).right = d
  BY DEF HashPair
<1> QED
  BY <1>1, <1>2

-----------------------------------------------------------------------------
(* The levels are well defined ...                                         *)
LevelBody(rows, g, k) ==
  IF k = 0 THEN [i \in DOMAIN rows |-> HashLeaf(rows[i])] ELSE NextLevel(g[k - 1])

LEMMA LevelsExist ==
  ASSUME NEW rows, NEW n \in Nat, Len(rows) = n
  PROVE  \A k \in 0 .. n : Levels(rows)[k] = LevelBody(rows, Levels(rows), k)
<1> DEFINE S == {m \in Nat : \E g : g = [k \in 0 .. m |-> LevelBody(rows, g, k)]}
<1>1. 0 \in S
  <2> DEFINE g == [k \in 0 .. 0 |-> LevelBody(rows, rows, k)]
  <2>1. \A k \in 0 .. 0 : k = 0
    OBVIOUS
  <2>2. g = [k \in 0 .. 0 |-> LevelBody(rows, g, k)]
    BY <2>1 DEF LevelBody
  <2> QED
    BY <2>2
<1>2. ASSUME NEW m \in Nat, m \in S PROVE m + 1 \in S
  <2>1. PICK g : g = [k \in 0 .. m |-> LevelBody(rows, g, k)]
    BY <1>2
  <2> DEFINE h == [k \in 0 .. m + 1 |-> LevelBody(rows, g, k)]
  <2>2. \A k \in 0 .. m : h[k] = g[k]
    BY <2>1
  <2>3. ASSUME NEW k \in 0 .. m + 1
        PROVE  LevelBody(rows, g, k) = LevelBody(rows, h, k)
    <3>1. k # 0 => k - 1 \in 0 .. m
      OBVIOUS
    <3> HIDE DEF h
    <3> QED
      BY <2>2, <3>1 DEF LevelBody
  <2>4. h = [k \in 0 .. m + 1 |-> LevelBody(rows, h, k)]
    BY <2>3
  <2> HIDE DEF h
  <2> QED
    BY <2>4
<1>3. n \in S
  <2> HIDE DEF S
  <2> QED
    BY <1>1, <1>2, Carry!NatInd
<1> DEFINE Is(g) == g = [k \in 0 .. n |-> LevelBody(rows, g, k)]
<1>4. \E g : Is(g)
  BY <1>3
<1>5. Levels(rows) = CHOOSE g : Is(g)
  BY DEF Levels, LevelBody
<1>6. Is(Levels(rows))
  <2> HIDE DEF Is
  <2> QED
    BY <1>4, <1>5
<1> QED
  BY <1>6

(* ... and so are the places of a leaf's ancestors.                        *)
PlaceBody(i, g, k) == IF k = 0 THEN i ELSE (g[k - 1] + 1) \div 2

LEMMA PlacesExist ==
  ASSUME NEW rows, NEW n \in Nat, Len(rows) = n, NEW i
  PROVE  \A k \in 0 .. n : Places(rows, i)[k] = PlaceBody(i, Places(rows, i), k)
<1> DEFINE S == {m \in Nat : \E g : g = [k \in 0 .. m |-> PlaceBody(i, g, k)]}
<1>1. 0 \in S
  <2> DEFINE g == [k \in 0 .. 0 |-> PlaceBody(i, rows, k)]
  <2>1. \A k \in 0 .. 0 : k = 0
    OBVIOUS
  <2>2. g = [k \in 0 .. 0 |-> PlaceBody(i, g, k)]
    BY <2>1 DEF PlaceBody
  <2> QED
    BY <2>2
<1>2. ASSUME NEW m \in Nat, m \in S PROVE m + 1 \in S
  <2>1. PICK g : g = [k \in 0 .. m |-> PlaceBody(i, g, k)]
    BY <1>2
  <2> DEFINE h == [k \in 0 .. m + 1 |-> PlaceBody(i, g, k)]
  <2>2. \A k \in 0 .. m : h[k] = g[k]
    BY <2>1
  <2>3. ASSUME NEW k \in 0 .. m + 1
        PROVE  PlaceBody(i, g, k) = PlaceBody(i, h, k)
    <3>1. k # 0 => k - 1 \in 0 .. m
      OBVIOUS
    <3> HIDE DEF h
    <3> QED
      BY <2>2, <3>1 DEF PlaceBody
  <2>4. h = [k \in 0 .. m + 1 |-> PlaceBody(i, h, k)]
    BY <2>3
  <2> HIDE DEF h
  <2> QED
    BY <2>4
<1>3. n \in S
  <2> HIDE DEF S
  <2> QED
    BY <1>1, <1>2, Carry!NatInd
<1> DEFINE Is(g) == g = [k \in 0 .. n |-> PlaceBody(i, g, k)]
<1>4. \E g : Is(g)
  BY <1>3
<1>5. Places(rows, i) = CHOOSE g : Is(g)
  BY DEF Places, PlaceBody
<1>6. Is(Places(rows, i))
  <2> HIDE DEF Is
  <2> QED
    BY <1>4, <1>5
<1> QED
  BY <1>6

-----------------------------------------------------------------------------
(* A list of s hashes.                                                     *)
IsLevel(l, s) == s \in Nat \ {0} /\ Len(l) = s /\ DOMAIN l = 1 .. s

LEMMA NextLevelProperties ==
  ASSUME NEW l, NEW s, IsLevel(l, s)
  PROVE  /\ IsLevel(NextLevel(l), (s + 1) \div 2)
         /\ \A i \in 1 .. (s + 1) \div 2 :
              /\ 2 * i - 1 \in 1 .. s
              /\ IF 2 * i <= s
                 THEN /\ 2 * i \in 1 .. s
                      /\ NextLevel(l)[i] = HashPair(l[2 * i - 1], l[2 * i])
                 ELSE NextLevel(l)[i] = HashPair(l[2 * i - 1], l[2 * i - 1])
<1> DEFINE t == (s + 1) \div 2
<1>1. s \in Nat \ {0} /\ t \in Nat \ {0} /\ 2 * t <= s + 1
  BY DEF IsLevel
<1> HIDE DEF t
<1>2. NextLevel(l) = [i \in 1 .. t |->
        HashPair(l[2 * i - 1], IF 2 * i <= s THEN l[2 * i] ELSE l[2 * i - 1])]
  BY DEF NextLevel, IsLevel, t
<1>3. NextLevel(l) \in Seq(Range(NextLevel(l)))
  <2> DEFINE f == NextLevel(l)
  <2>1. DOMAIN f = 1 .. t /\ f = [i \in 1 .. t |-> f[i]]
    BY <1>2
  <2> HIDE DEF f
  <2>2. \A i \in 1 .. t : f[i] \in Range(f)
    BY <2>1 DEF Range
  <2>3. f \in [1 .. t -> Range(f)]
    BY <2>1, <2>2
  <2>4. f \in Seq(Range(f))
    BY <1>1, <2>3
  <2> QED
    BY <2>4 DEF f
<1>4. Len(NextLevel(l)) = t /\ DOMAIN NextLevel(l) = 1 .. t
  BY <1>1, <1>2, <1>3, LenProperties
<1>5. ASSUME NEW i \in 1 .. t
      PROVE  /\ 2 * i - 1 \in 1 .. s
             /\ IF 2 * i <= s
                THEN /\ 2 * i \in 1 .. s
                     /\ NextLevel(l)[i] = HashPair(l[2 * i - 1], l[2 * i])
                ELSE NextLevel(l)[i] = HashPair(l[2 * i - 1], l[2 * i - 1])
  BY <1>1, <1>2
<1> QED
  BY <1>1, <1>4, <1>5 DEF IsLevel, t

(* Every level is half of the one below, so that one of them is a root.    *)
LEMMA LevelsShrink ==
  ASSUME NEW rows, NEW n \in Nat \ {0}, Len(rows) = n, DOMAIN rows = 1 .. n
  PROVE  \A k \in 0 .. n : \E s : /\ IsLevel(Levels(rows)[k], s)
                                  /\ s = 1 \/ s <= n - k
<1> DEFINE L == Levels(rows)
           S == {k \in Nat : k <= n => \E s : IsLevel(L[k], s) /\ (s = 1 \/ s <= n - k)}
<1>1. \A k \in 0 .. n : L[k] = LevelBody(rows, L, k)
  BY LevelsExist
<1> HIDE DEF L
<1>2. 0 \in S
  <2>1. L[0] = [i \in 1 .. n |-> HashLeaf(rows[i])]
    BY <1>1 DEF LevelBody
  <2>2. L[0] \in Seq(Range(L[0]))
    BY <2>1 DEF Range
  <2>3. Len(L[0]) = n /\ DOMAIN L[0] = 1 .. n
    BY <2>1, <2>2, LenProperties
  <2> QED
    BY <2>3 DEF IsLevel
<1>3. ASSUME NEW k \in Nat, k \in S PROVE k + 1 \in S
  <2> SUFFICES ASSUME k + 1 <= n
               PROVE  \E s : IsLevel(L[k + 1], s) /\ (s = 1 \/ s <= n - (k + 1))
    OBVIOUS
  <2>1. PICK s : IsLevel(L[k], s) /\ (s = 1 \/ s <= n - k)
    BY <1>3
  <2>2. L[k + 1] = NextLevel(L[k])
    <3>1. k + 1 \in 0 .. n /\ k + 1 # 0 /\ (k + 1) - 1 = k
      OBVIOUS
    <3> QED
      BY <1>1, <3>1 DEF LevelBody
  <2>3. IsLevel(L[k + 1], (s + 1) \div 2)
    BY <2>1, <2>2, NextLevelProperties
  <2>4. s \in Nat \ {0}
    BY <2>1 DEF IsLevel
  <2>5. (s + 1) \div 2 = 1 \/ (s + 1) \div 2 <= n - (k + 1)
    BY <2>1, <2>4
  <2> QED
    BY <2>3, <2>5
<1>4. \A k \in Nat : k \in S
  <2> HIDE DEF S
  <2> QED
    BY <1>2, <1>3, Carry!NatInd
<1>5. ASSUME NEW k \in 0 .. n
      PROVE  \E s : IsLevel(L[k], s) /\ (s = 1 \/ s <= n - k)
  <2>1. k \in S
    BY <1>4
  <2> QED
    BY <2>1
<1> QED
  BY <1>5 DEF L

(* What the proofs below use of a tree.                                    *)
LEMMA TreeProperties ==
  ASSUME NEW rows, NEW n \in Nat \ {0}, Len(rows) = n, DOMAIN rows = 1 .. n
  PROVE  /\ Height(rows) \in 0 .. n
         /\ IsLevel(Levels(rows)[Height(rows)], 1)
         /\ Levels(rows)[0] = [i \in 1 .. n |-> HashLeaf(rows[i])]
         /\ \A k \in 0 .. n : \E s : IsLevel(Levels(rows)[k], s)
         /\ \A k \in 0 .. n - 1 : Levels(rows)[k + 1] = NextLevel(Levels(rows)[k])
<1> DEFINE L == Levels(rows)
<1>1. \A k \in 0 .. n : L[k] = LevelBody(rows, L, k)
  BY LevelsExist
<1>2. \A k \in 0 .. n : \E s : IsLevel(L[k], s) /\ (s = 1 \/ s <= n - k)
  BY LevelsShrink
<1>3. Height(rows) = CHOOSE k \in 0 .. n : Len(L[k]) = 1
  BY DEF Height
<1> HIDE DEF L
<1>4. Len(L[n]) = 1
  <2>1. PICK s : IsLevel(L[n], s) /\ (s = 1 \/ s <= n - n)
    BY <1>2
  <2> QED
    BY <2>1 DEF IsLevel
<1>5. Height(rows) \in 0 .. n /\ Len(L[Height(rows)]) = 1
  BY <1>3, <1>4
<1>6. IsLevel(L[Height(rows)], 1)
  <2>1. PICK s : IsLevel(L[Height(rows)], s)
    BY <1>2, <1>5
  <2>2. s = 1
    BY <1>5, <2>1 DEF IsLevel
  <2> QED
    BY <2>1, <2>2
<1>7. L[0] = [i \in 1 .. n |-> HashLeaf(rows[i])]
  BY <1>1 DEF LevelBody
<1>8. ASSUME NEW k \in 0 .. n - 1 PROVE L[k + 1] = NextLevel(L[k])
  <2>1. k + 1 \in 0 .. n /\ k + 1 # 0 /\ (k + 1) - 1 = k
    OBVIOUS
  <2> QED
    BY <1>1, <2>1 DEF LevelBody
<1> QED
  BY <1>2, <1>5, <1>6, <1>7, <1>8 DEF L

(* A list of n rows, at least one.                                         *)
IsRowList(rows, n) == n \in Nat \ {0} /\ Len(rows) = n /\ DOMAIN rows = 1 .. n

(* Both halves of a node are nodes of the level below.                     *)
LEMMA HalvesAreBelow ==
  ASSUME NEW l, NEW s, IsLevel(l, s), NEW a, NEW b,
         HashPair(a, b) \in Range(NextLevel(l))
  PROVE  a \in Range(l) /\ b \in Range(l)
<1> DEFINE t == (s + 1) \div 2
<1>1. DOMAIN NextLevel(l) = 1 .. t
  BY NextLevelProperties DEF IsLevel
<1>2. PICK i \in 1 .. t : NextLevel(l)[i] = HashPair(a, b)
  <2> HIDE DEF t
  <2> QED
    BY <1>1 DEF Range
<1>3. /\ 2 * i - 1 \in 1 .. s
      /\ \/ /\ 2 * i \in 1 .. s
            /\ HashPair(a, b) = HashPair(l[2 * i - 1], l[2 * i])
         \/ HashPair(a, b) = HashPair(l[2 * i - 1], l[2 * i - 1])
  BY <1>2, NextLevelProperties
<1>4. \/ /\ 2 * i \in 1 .. s
         /\ a = l[2 * i - 1] /\ b = l[2 * i]
      \/ a = l[2 * i - 1] /\ b = l[2 * i - 1]
  BY <1>3, HashesAreTerms
<1> QED
  BY <1>3, <1>4 DEF Range, IsLevel

(* Levels above the leaves hold pairs, and the leaves hold leaves.         *)
LEMMA PairsAboveLeaves ==
  ASSUME NEW l, NEW s, IsLevel(l, s), NEW row
  PROVE  HashLeaf(row) \notin Range(NextLevel(l))
<1> SUFFICES ASSUME HashLeaf(row) \in Range(NextLevel(l)) PROVE FALSE
  OBVIOUS
<1>1. DOMAIN NextLevel(l) = 1 .. (s + 1) \div 2
  BY NextLevelProperties DEF IsLevel
<1>2. PICK i \in 1 .. (s + 1) \div 2 : NextLevel(l)[i] = HashLeaf(row)
  BY <1>1 DEF Range
<1>3. \E a, b : HashLeaf(row) = HashPair(a, b)
  BY <1>2, NextLevelProperties
<1> QED
  BY <1>3, LeafIsNoPair

(* Only rows of the tree verify: a proof of any length, with any hashes on *)
(* any sides, that carries a row's hash to the root has the height of the  *)
(* tree and starts at a leaf.                                              *)
LEMMA VerifiedRowIsInTree ==
  ASSUME NEW rows, NEW n, IsRowList(rows, n),
         NEW row, NEW proof, NEW m \in Nat, DOMAIN proof = 1 .. m,
         VerifyChunk(row, proof, ComputeRoot(rows))
  PROVE  row \in Range(rows)
<1> DEFINE L == Levels(rows)
           H == Height(rows)
           f == Carry!Run(0, HashLeaf(row), proof, m)
<1>1. /\ H \in 0 .. n
      /\ IsLevel(L[H], 1)
      /\ L[0] = [i \in 1 .. n |-> HashLeaf(rows[i])]
      /\ \A k \in 0 .. n : \E s : IsLevel(L[k], s)
      /\ \A k \in 0 .. n - 1 : L[k + 1] = NextLevel(L[k])
  BY TreeProperties DEF IsRowList
<1>2. /\ f[0] = HashLeaf(row)
      /\ \A j \in 1 .. m : f[j] = CarryUp(f[j - 1], proof[j])
      /\ Carry!Fold(0, HashLeaf(row), proof) = f[m]
  BY Carry!FoldRun
<1>3. f[m] = L[H][1]
  <2> HIDE DEF f
  <2> QED
    BY <1>2, VerifyChunkIsFold DEF ComputeRoot
<1> HIDE DEF L, H, f
<1>4. n \in Nat /\ H \in Nat /\ H <= n
  BY <1>1 DEF IsRowList
<1>5. ASSUME NEW j \in 1 .. m
      PROVE  \E a : \/ f[j] = HashPair(a, f[j - 1])
                    \/ f[j] = HashPair(f[j - 1], a)
  BY <1>2 DEF CarryUp
<1> DEFINE S == {j \in Nat : j <= m /\ j <= H => f[m - j] \in Range(L[H - j])}
<1>6. \A j \in Nat : j \in S
  <2>1. 0 \in S
    BY <1>1, <1>3, <1>4 DEF IsLevel, Range
  <2>2. ASSUME NEW j \in Nat, j \in S PROVE j + 1 \in S
    <3> SUFFICES ASSUME j + 1 <= m, j + 1 <= H
                 PROVE  f[m - (j + 1)] \in Range(L[H - (j + 1)])
      OBVIOUS
    <3> DEFINE u == m - j
               k == H - (j + 1)
    <3>1. /\ u \in 1 .. m /\ u - 1 = m - (j + 1)
          /\ k \in 0 .. n - 1 /\ k \in 0 .. n /\ k + 1 = H - j
      BY <1>4
    <3>2. f[u] \in Range(L[H - j])
      BY <1>4, <2>2
    <3> HIDE DEF u, k
    <3>3. PICK s : IsLevel(L[k], s)
      BY <1>1, <3>1
    <3>4. f[u] \in Range(NextLevel(L[k]))
      BY <1>1, <3>1, <3>2
    <3>5. f[u - 1] \in Range(L[k])
      BY <1>5, <3>1, <3>3, <3>4, HalvesAreBelow
    <3> QED
      BY <3>1, <3>5 DEF k
  <2> HIDE DEF S
  <2> QED
    BY <2>1, <2>2, Carry!NatInd
<1>7. \A x \in Range(L[0]) : \E i \in 1 .. n : x = HashLeaf(rows[i])
  BY <1>1 DEF Range
<1>8. CASE m < H
  <2> DEFINE k == H - m - 1
  <2>1. /\ k \in 0 .. n - 1 /\ k \in 0 .. n /\ k + 1 = H - m
        /\ m - m = 0 /\ m <= H
    BY <1>4, <1>8
  <2>2. m \in S
    BY <1>6
  <2>3. f[0] \in Range(L[k + 1])
    BY <2>1, <2>2
  <2> HIDE DEF k
  <2>4. PICK s : IsLevel(L[k], s)
    BY <1>1, <2>1
  <2>5. HashLeaf(row) \in Range(NextLevel(L[k]))
    BY <1>1, <1>2, <2>1, <2>3
  <2> QED
    BY <2>4, <2>5, PairsAboveLeaves
<1>9. CASE m > H
  <2> DEFINE j == m - H
  <2>1. j \in 1 .. m /\ H - H = 0 /\ H <= m
    BY <1>4, <1>9
  <2>2. H \in S
    BY <1>4, <1>6
  <2>3. f[j] \in Range(L[0])
    BY <1>4, <2>1, <2>2
  <2> HIDE DEF j
  <2>4. PICK i \in 1 .. n : f[j] = HashLeaf(rows[i])
    BY <1>7, <2>3
  <2>5. PICK a : f[j] = HashPair(a, f[j - 1]) \/ f[j] = HashPair(f[j - 1], a)
    BY <1>5, <2>1
  <2> QED
    BY <2>4, <2>5, LeafIsNoPair
<1>10. CASE m = H
  <2>1. m \in S /\ m - m = 0 /\ H - m = 0
    BY <1>4, <1>6, <1>10
  <2>2. f[0] \in Range(L[0])
    BY <1>4, <1>10, <2>1
  <2>3. PICK i \in 1 .. n : HashLeaf(row) = HashLeaf(rows[i])
    BY <1>2, <1>7, <2>2
  <2>4. row = rows[i] /\ i \in DOMAIN rows
    BY <2>3, HashesAreTerms DEF IsRowList
  <2> QED
    BY <2>4 DEF Range
<1> QED
  BY <1>4, <1>8, <1>9, <1>10

(* Every row verifies with the proof of its place.                         *)
LEMMA RowOfTreeVerifies ==
  ASSUME NEW rows, NEW n, IsRowList(rows, n), NEW i \in 1 .. n
  PROVE  /\ \E m \in Nat : DOMAIN ProofFor(rows, i) = 1 .. m
         /\ VerifyChunk(rows[i], ProofFor(rows, i), ComputeRoot(rows))
<1> DEFINE L == Levels(rows)
           H == Height(rows)
           P == Places(rows, i)
           proof == ProofFor(rows, i)
<1>1. /\ H \in 0 .. n
      /\ IsLevel(L[H], 1)
      /\ L[0] = [j \in 1 .. n |-> HashLeaf(rows[j])]
      /\ \A k \in 0 .. n : \E s : IsLevel(L[k], s)
      /\ \A k \in 0 .. n - 1 : L[k + 1] = NextLevel(L[k])
  BY TreeProperties DEF IsRowList
<1>2. \A k \in 0 .. n : P[k] = PlaceBody(i, P, k)
  BY PlacesExist DEF IsRowList
<1>3. proof = [k \in 1 .. H |-> Sibling(L[k - 1], P[k - 1])]
  BY DEF ProofFor
<1> HIDE DEF L, H, P, proof
<1>4. n \in Nat \ {0} /\ H \in Nat /\ H <= n
  BY <1>1 DEF IsRowList
<1>5. DOMAIN proof = 1 .. H
  BY <1>3
<1> DEFINE f == Carry!Run(0, HashLeaf(rows[i]), proof, H)
<1>6. /\ f[0] = HashLeaf(rows[i])
      /\ \A j \in 1 .. H : f[j] = CarryUp(f[j - 1], proof[j])
      /\ Carry!Fold(0, HashLeaf(rows[i]), proof) = f[H]
  BY <1>4, <1>5, Carry!FoldRun
<1> HIDE DEF f
<1> DEFINE S == {k \in Nat : k <= H => /\ P[k] \in DOMAIN L[k]
                                       /\ f[k] = L[k][P[k]]}
<1>7. 0 \in S
  <2>1. P[0] = i
    BY <1>2, <1>4 DEF PlaceBody
  <2> QED
    BY <1>1, <1>6, <2>1
<1>8. ASSUME NEW k \in Nat, k \in S PROVE k + 1 \in S
  <2> SUFFICES ASSUME k + 1 <= H
               PROVE  /\ P[k + 1] \in DOMAIN L[k + 1]
                      /\ f[k + 1] = L[k + 1][P[k + 1]]
    OBVIOUS
  <2>1. /\ k + 1 \in 1 .. H /\ k + 1 \in 0 .. n /\ (k + 1) - 1 = k /\ k + 1 # 0
        /\ k \in 0 .. n - 1 /\ k \in 0 .. n /\ k <= H
    BY <1>4
  <2>2. PICK s : IsLevel(L[k], s)
    BY <1>1, <2>1
  <2> DEFINE p == P[k]
             q == (p + 1) \div 2
             t == (s + 1) \div 2
  <2>3. p \in 1 .. s /\ s \in Nat \ {0} /\ Len(L[k]) = s /\ f[k] = L[k][p]
    BY <1>8, <2>1, <2>2 DEF IsLevel
  <2>4. P[k + 1] = q /\ L[k + 1] = NextLevel(L[k])
    BY <1>1, <1>2, <2>1 DEF PlaceBody
  <2>5. f[k + 1] = CarryUp(L[k][p], Sibling(L[k], p))
    BY <1>3, <1>6, <2>1, <2>3
  <2>6. DOMAIN L[k + 1] = 1 .. t
    BY <2>2, <2>4, NextLevelProperties DEF IsLevel
  <2> HIDE DEF p
  <2>7. q \in 1 .. t
    BY <2>3
  <2>8. /\ 2 * q - 1 \in 1 .. s
        /\ IF 2 * q <= s
           THEN NextLevel(L[k])[q] = HashPair(L[k][2 * q - 1], L[k][2 * q])
           ELSE NextLevel(L[k])[q] = HashPair(L[k][2 * q - 1], L[k][2 * q - 1])
    <3> HIDE DEF q
    <3> QED
      BY <2>2, <2>7, NextLevelProperties
  <2>9. CASE p % 2 = 0
    <3>1. p = 2 * q /\ p - 1 = 2 * q - 1 /\ p - 1 <= s
      BY <2>3, <2>9
    <3> HIDE DEF q
    <3>2. Sibling(L[k], p) = [hash |-> L[k][2 * q - 1], left |-> TRUE]
      BY <2>3, <2>9, <3>1 DEF Sibling
    <3>3. CarryUp(L[k][p], Sibling(L[k], p)) = HashPair(L[k][2 * q - 1], L[k][p])
      BY <3>2 DEF CarryUp
    <3>4. L[k + 1][q] = HashPair(L[k][2 * q - 1], L[k][2 * q])
      BY <2>3, <2>4, <2>8, <3>1
    <3>5. f[k + 1] = L[k + 1][q]
      BY <2>5, <3>1, <3>3, <3>4
    <3> QED
      BY <2>4, <2>6, <2>7, <3>5
  <2>10. CASE p % 2 # 0
    <3>1. p = 2 * q - 1 /\ p + 1 = 2 * q
      BY <2>3, <2>10
    <3> HIDE DEF q
    <3>2. Sibling(L[k], p)
            = [hash |-> L[k][IF 2 * q <= s THEN 2 * q ELSE p], left |-> FALSE]
      BY <2>3, <2>10, <3>1 DEF Sibling
    <3>3. CarryUp(L[k][p], Sibling(L[k], p))
            = HashPair(L[k][p], L[k][IF 2 * q <= s THEN 2 * q ELSE p])
      BY <3>2 DEF CarryUp
    <3>4. f[k + 1] = L[k + 1][q]
      BY <2>4, <2>5, <2>8, <3>1, <3>3
    <3> QED
      BY <2>4, <2>6, <2>7, <3>4
  <2> QED
    BY <2>9, <2>10
<1>9. H \in S
  <2> HIDE DEF S
  <2> QED
    BY <1>4, <1>7, <1>8, Carry!NatInd
<1>10. f[H] = L[H][1]
  <2>1. P[H] \in 1 .. 1 /\ f[H] = L[H][P[H]]
    BY <1>1, <1>4, <1>9 DEF IsLevel
  <2> QED
    BY <2>1
<1>11. VerifyChunk(rows[i], proof, L[H][1])
  BY <1>6, <1>10, VerifyChunkIsFold
<1> QED
  BY <1>4, <1>5, <1>11 DEF ComputeRoot, L, H, proof

-----------------------------------------------------------------------------
(* The gate's loop over a batch.                                           *)
Gate == INSTANCE FoldFacts WITH
          Op <- LAMBDA root, s, leaf : GateStep(root, s, leaf)

LEMMA NnsGateIsFold ==
  ASSUME NEW batch, NEW root
  PROVE  NnsGate(batch, root) = Gate!Fold(root, NothingSeen, batch).ok
BY DEF NnsGate, FoldLeft, MapThenFoldSet, Max,
       Gate!Fold, Gate!FoldLeft, Gate!MapThenFoldSet, Gate!Max

LeafOK(leaf, root) ==
  IsValidName(leaf.row.name) /\ VerifyChunk(leaf.row, leaf.proof, root)

Apart(batch, i, j) ==
  /\ batch[i].row.name # batch[j].row.name
  /\ batch[i].row.txHash # batch[j].row.txHash

(* What the gate has found after k leaves.                                 *)
SeenUpTo(batch, root, s, k) ==
  /\ s.ok \in BOOLEAN
  /\ s.ok <=> /\ \A i \in 1 .. k : LeafOK(batch[i], root)
              /\ \A i \in 1 .. k : \A j \in 1 .. i - 1 : Apart(batch, i, j)
  /\ s.names = {batch[i].row.name : i \in 1 .. k}
  /\ s.txs = {batch[i].row.txHash : i \in 1 .. k}

LEMMA GateStepSees ==
  ASSUME NEW batch, NEW root, NEW s, NEW k \in Nat, SeenUpTo(batch, root, s, k)
  PROVE  SeenUpTo(batch, root, GateStep(root, s, batch[k + 1]), k + 1)
<1> DEFINE leaf == batch[k + 1]
           t    == GateStep(root, s, leaf)
<1>1. /\ s.names = {batch[i].row.name : i \in 1 .. k}
      /\ s.txs = {batch[i].row.txHash : i \in 1 .. k}
      /\ s.ok <=> /\ \A i \in 1 .. k : LeafOK(batch[i], root)
                  /\ \A i \in 1 .. k : \A j \in 1 .. i - 1 : Apart(batch, i, j)
  BY DEF SeenUpTo
<1>2. 1 .. k + 1 = (1 .. k) \cup {k + 1} /\ (k + 1) - 1 = k
  OBVIOUS
<1>3. /\ t.names = s.names \cup {leaf.row.name}
      /\ t.txs = s.txs \cup {leaf.row.txHash}
      /\ t.ok \in BOOLEAN
      /\ t.ok <=> /\ s.ok /\ LeafOK(leaf, root)
                  /\ leaf.row.name \notin s.names /\ leaf.row.txHash \notin s.txs
  BY DEF GateStep, LeafOK
<1>4. leaf.row.name \notin s.names /\ leaf.row.txHash \notin s.txs
        <=> \A j \in 1 .. k : Apart(batch, k + 1, j)
  BY <1>1 DEF Apart
<1> HIDE DEF leaf, t
<1>5. t.names = {batch[i].row.name : i \in 1 .. k + 1}
  BY <1>1, <1>2, <1>3 DEF leaf
<1>6. t.txs = {batch[i].row.txHash : i \in 1 .. k + 1}
  BY <1>1, <1>2, <1>3 DEF leaf
<1>7. (\A i \in 1 .. k + 1 : LeafOK(batch[i], root))
        <=> (\A i \in 1 .. k : LeafOK(batch[i], root)) /\ LeafOK(leaf, root)
  BY <1>2 DEF leaf
<1>8. (\A i \in 1 .. k + 1 : \A j \in 1 .. i - 1 : Apart(batch, i, j))
        <=> /\ \A i \in 1 .. k : \A j \in 1 .. i - 1 : Apart(batch, i, j)
            /\ \A j \in 1 .. k : Apart(batch, k + 1, j)
  BY <1>2
<1>9. t.ok <=> /\ \A i \in 1 .. k + 1 : LeafOK(batch[i], root)
               /\ \A i \in 1 .. k + 1 : \A j \in 1 .. i - 1 : Apart(batch, i, j)
  BY <1>1, <1>3, <1>4, <1>7, <1>8
<1> QED
  BY <1>3, <1>5, <1>6, <1>9 DEF SeenUpTo, t, leaf

(* A batch is accepted exactly when each of its leaves has a valid name    *)
(* and verifies, and no two of them share a name or a payment.             *)
LEMMA GateAccepts ==
  ASSUME NEW batch, NEW root, NEW m \in Nat, DOMAIN batch = 1 .. m
  PROVE  NnsGate(batch, root)
           <=> /\ \A i \in 1 .. m : LeafOK(batch[i], root)
               /\ PairwiseDifferent(batch)
<1> DEFINE f == Gate!Run(root, NothingSeen, batch, m)
<1>1. /\ f[0] = NothingSeen
      /\ \A i \in 1 .. m : f[i] = GateStep(root, f[i - 1], batch[i])
      /\ Gate!Fold(root, NothingSeen, batch) = f[m]
  BY Gate!FoldRun
<1> HIDE DEF f
<1> DEFINE S == {k \in Nat : k <= m => SeenUpTo(batch, root, f[k], k)}
<1>2. 0 \in S
  <2>1. NothingSeen.ok = TRUE /\ NothingSeen.names = {} /\ NothingSeen.txs = {}
    BY DEF NothingSeen
  <2>2. 1 .. 0 = {}
    OBVIOUS
  <2> QED
    BY <1>1, <2>1, <2>2 DEF SeenUpTo
<1>3. ASSUME NEW k \in Nat, k \in S PROVE k + 1 \in S
  <2> SUFFICES ASSUME k + 1 <= m PROVE SeenUpTo(batch, root, f[k + 1], k + 1)
    OBVIOUS
  <2>1. k + 1 \in 1 .. m /\ (k + 1) - 1 = k /\ k <= m
    OBVIOUS
  <2>2. f[k + 1] = GateStep(root, f[k], batch[k + 1])
    BY <1>1, <2>1
  <2> QED
    BY <1>3, <2>1, <2>2, GateStepSees
<1>4. m \in S
  <2> HIDE DEF S
  <2> QED
    BY <1>2, <1>3, Gate!NatInd
<1>5. f[m].ok <=> /\ \A i \in 1 .. m : LeafOK(batch[i], root)
                  /\ \A i \in 1 .. m : \A j \in 1 .. i - 1 : Apart(batch, i, j)
  BY <1>4 DEF SeenUpTo
<1>6. (\A i \in 1 .. m : \A j \in 1 .. i - 1 : Apart(batch, i, j))
        <=> PairwiseDifferent(batch)
  <2>1. ASSUME \A i \in 1 .. m : \A j \in 1 .. i - 1 : Apart(batch, i, j),
               NEW i \in 1 .. m, NEW j \in 1 .. m, i # j
        PROVE  Apart(batch, i, j)
    <3>1. CASE j < i
      BY <2>1, <3>1
    <3>2. CASE i < j
      <4>1. Apart(batch, j, i)
        BY <2>1, <3>2
      <4> QED
        BY <4>1 DEF Apart
    <3> QED
      BY <2>1, <3>1, <3>2
  <2>2. ASSUME PairwiseDifferent(batch),
               NEW i \in 1 .. m, NEW j \in 1 .. i - 1
        PROVE  Apart(batch, i, j)
    <3>1. i \in DOMAIN batch /\ j \in DOMAIN batch /\ i # j
      OBVIOUS
    <3> QED
      BY <2>2, <3>1 DEF PairwiseDifferent, Apart
  <2> QED
    BY <2>1, <2>2 DEF PairwiseDifferent, Apart
<1>7. NnsGate(batch, root) = f[m].ok
  BY <1>1, NnsGateIsFold
<1> QED
  BY <1>5, <1>6, <1>7

-----------------------------------------------------------------------------
(* The registry is finite: a block adds the names of finitely many claims. *)
FiniteRegistry == IsFiniteSet(DOMAIN accumulator)

LEMMA FiniteRegistryStep ==
  ASSUME TypeOK, FiniteRegistry, [Next]_kernelVars
  PROVE  FiniteRegistry'
<1>1. CASE QuietStep
  <2>1. IsFiniteSet(DOMAIN accumulator \cup {Tld})
    BY FS_AddElement DEF FiniteRegistry
  <2>2. DOMAIN accumulator' \in SUBSET (DOMAIN accumulator \cup {Tld})
    BY <1>1 DEF QuietStep
  <2>3. IsFiniteSet(DOMAIN accumulator')
    BY <2>1, <2>2, FS_Subset
  <2> QED
    BY <2>3 DEF FiniteRegistry
<1>2. ASSUME NEW b \in ScanInput, ScanAccept(b) PROVE FiniteRegistry'
  <2> DEFINE V == ValidPositions(b)
             N == {b.claims[i].name : i \in V}
             f == [i \in V |-> b.claims[i].name]
  <2>1. b \in ScanPayload /\ accumulator' = ClaimScanner(Seeded, b)
    BY <1>2, ScanInputAssumption DEF ScanAccept
  <2>2. IsFiniteSet(V)
    <3>1. Len(b.claims) \in Nat /\ DOMAIN b.claims = 1 .. Len(b.claims)
      BY <2>1, LenProperties DEF ScanPayload
    <3>2. IsFiniteSet(1 .. Len(b.claims))
      BY <3>1, FS_Interval
    <3>3. V \in SUBSET (1 .. Len(b.claims))
      BY <3>1 DEF ValidPositions
    <3> QED
      BY <3>2, <3>3, FS_Subset
  <2>3. IsFiniteSet(N)
    <3> HIDE DEF V
    <3>1. f \in Surjection(V, N)
      BY DEF Surjection
    <3> QED
      BY <2>2, <3>1, FS_Surjection
  <2>4. IsFiniteSet(DOMAIN Seeded)
    <3>1. IsFiniteSet(DOMAIN accumulator \cup {Tld})
      BY FS_AddElement DEF FiniteRegistry
    <3> QED
      BY <3>1, SeededProperties, FS_Subset
  <2>5. DOMAIN accumulator' = DOMAIN Seeded \cup N
    BY <2>1, SeededProperties, ClaimScannerProperties
  <2>6. IsFiniteSet(DOMAIN accumulator')
    BY <2>3, <2>4, <2>5, FS_Union
  <2> QED
    BY <2>6 DEF FiniteRegistry
<1> QED
  BY <1>1, <1>2, StepCases

(* A kernel reaches finite registries only, whatever sets of payloads and  *)
(* names there are: an accepted block adds the names of its claims.        *)
THEOREM RegistryIsFinite == Spec => []FiniteRegistry
<1>1. Init => FiniteRegistry
  BY FS_EmptySet DEF Init, EmptyAccumulator, FiniteRegistry
<1>2. TypeOK /\ FiniteRegistry /\ [Next]_kernelVars => FiniteRegistry'
  BY FiniteRegistryStep
<1> QED
  BY <1>1, <1>2, TypeCorrect, PTL DEF Spec

(* The committed rows are those triples, as a list.                        *)
LEMMA CommittedRowsProperties ==
  ASSUME FiniteRegistry
  PROVE  \E n \in Nat : /\ Len(CommittedRows) = n /\ DOMAIN CommittedRows = 1 .. n
                        /\ CommittedRows \in Seq(Range(CommittedRows))
<1> DEFINE D == DOMAIN accumulator
           T == {Triple(e) : e \in Range(accumulator)}
           f == [x \in D |-> Triple(accumulator[x])]
           n == Cardinality(T)
<1>1. IsFiniteSet(T)
  <2>1. f \in Surjection(D, T)
    BY DEF Surjection, Range
  <2> QED
    BY <2>1, FS_Surjection DEF FiniteRegistry
<1>2. n \in Nat
  BY <1>1, FS_CardinalityType
<1>3. \E g \in [1 .. n -> T] : IsInjective(g)
  <2>1. ExistsBijection(1 .. n, T)
    BY <1>1, FS_CardinalityType
  <2> HIDE DEF n, T
  <2>2. PICK g : g \in Bijection(1 .. n, T)
    BY <2>1 DEF ExistsBijection
  <2> QED
    BY <2>2 DEF Bijection, Injection, IsInjective
<1>4. CommittedRows \in [1 .. n -> T]
  <2> HIDE DEF T
  <2>1. SetToSeq(T) \in [1 .. n -> T]
    BY <1>3 DEF SetToSeq
  <2> QED
    BY <2>1 DEF CommittedRows, T
<1> HIDE DEF n, T
<1>5. CommittedRows \in Seq(T)
  BY <1>2, <1>4
<1>6. DOMAIN CommittedRows = 1 .. n
  BY <1>4
<1>7. CommittedRows \in [1 .. n -> Range(CommittedRows)]
  BY <1>4 DEF Range
<1>8. CommittedRows \in Seq(Range(CommittedRows))
  BY <1>2, <1>7
<1> QED
  BY <1>2, <1>5, <1>6, <1>8

-----------------------------------------------------------------------------
IsList(p) == \E m \in Nat : DOMAIN p = 1 .. m

(* What the gate accepts against the root of any list of rows: any batch,  *)
(* with proofs of any length and content (nns-gate).                       *)
THEOREM GateIsSound ==
  ASSUME NEW rows, NEW n, IsRowList(rows, n),
         NEW batch, NEW m \in Nat, DOMAIN batch = 1 .. m,
         \A i \in 1 .. m : IsList(batch[i].proof),
         NnsGate(batch, ComputeRoot(rows))
  PROVE  /\ \A i \in DOMAIN batch : /\ batch[i].row \in Range(rows)
                                    /\ IsValidName(batch[i].row.name)
         /\ PairwiseDifferent(batch)
<1>1. /\ \A i \in 1 .. m : LeafOK(batch[i], ComputeRoot(rows))
      /\ PairwiseDifferent(batch)
  BY GateAccepts
<1>2. ASSUME NEW i \in 1 .. m
      PROVE  batch[i].row \in Range(rows) /\ IsValidName(batch[i].row.name)
  <2>1. PICK k \in Nat : DOMAIN batch[i].proof = 1 .. k
    BY DEF IsList
  <2>2. /\ IsValidName(batch[i].row.name)
        /\ VerifyChunk(batch[i].row, batch[i].proof, ComputeRoot(rows))
    BY <1>1 DEF LeafOK
  <2> QED
    BY <2>1, <2>2, VerifiedRowIsInTree
<1> QED
  BY <1>1, <1>2

LEMMA ProofsAtHandAreLists ==
  ASSUME NEW rows, NEW n, IsRowList(rows, n), NEW p \in ProofsAtHand(rows)
  PROVE  IsList(p)
<1>1. ASSUME NEW i \in DOMAIN rows PROVE IsList(ProofFor(rows, i))
  BY RowOfTreeVerifies DEF IsRowList, IsList
<1>2. ASSUME NEW q, IsList(q), q \in Seq(Range(q)), q # <<>>
      PROVE  IsList(Front(q))
  <2>1. Len(q) \in Nat \ {0} /\ DOMAIN q = 1 .. Len(q)
    BY <1>2, EmptySeq, LenProperties
  <2>2. \A i \in 1 .. Len(q) - 1 : q[i] \in Range(q)
    BY <2>1 DEF Range
  <2>3. Front(q) \in Seq(Range(q))
    BY <2>1, <2>2, SubSeqProperties DEF Front
  <2> QED
    BY <2>3, LenProperties DEF IsList
<1>3. ASSUME NEW q, IsList(q), q = [i \in DOMAIN q |-> q[i]]
      PROVE  q \in Seq(Range(q))
  <2>1. PICK m \in Nat : DOMAIN q = 1 .. m
    BY <1>3 DEF IsList
  <2>2. \A i \in 1 .. m : q[i] \in Range(q)
    BY <2>1 DEF Range
  <2> QED
    BY <1>3, <2>1, <2>2
<1>4. ASSUME NEW i \in DOMAIN rows
      PROVE  ProofFor(rows, i) = [k \in DOMAIN ProofFor(rows, i) |->
                                    ProofFor(rows, i)[k]]
  BY DEF ProofFor
<1> DEFINE true == {ProofFor(rows, i) : i \in DOMAIN rows}
<1>5. ASSUME NEW q \in true PROVE IsList(q) /\ q \in Seq(Range(q))
  <2>1. PICK i \in DOMAIN rows : q = ProofFor(rows, i)
    OBVIOUS
  <2> QED
    BY <1>1, <1>3, <1>4, <2>1
<1>6. \/ p \in true
      \/ \E q \in true \ {<<>>} : p = Front(q)
      \/ \E q \in true : \E k \in DOMAIN q : p = [q EXCEPT ![k].left = ~@]
  BY DEF ProofsAtHand
<1>7. CASE \E q \in true : \E k \in DOMAIN q : p = [q EXCEPT ![k].left = ~@]
  <2>1. PICK q \in true : DOMAIN p = DOMAIN q
    BY <1>7
  <2> QED
    BY <1>5, <2>1 DEF IsList
<1> HIDE DEF true
<1> QED
  BY <1>2, <1>5, <1>6, <1>7

LEMMA RowsOfRegistry ==
  ASSUME FiniteRegistry, CommittedRows # <<>>
  PROVE  \E n : IsRowList(CommittedRows, n)
<1>1. PICK n \in Nat : /\ Len(CommittedRows) = n /\ DOMAIN CommittedRows = 1 .. n
                       /\ CommittedRows \in Seq(Range(CommittedRows))
  BY CommittedRowsProperties
<1>2. n # 0
  BY <1>1, EmptySeq
<1> QED
  BY <1>1, <1>2 DEF IsRowList

(* At every registry the kernel reaches: the property the run `kernel'     *)
(* checks, for the batches it tries.                                       *)
THEOREM AcceptedRowsRegistered == Spec => []AcceptedRowsAreRegistered
<1>1. FiniteRegistry => AcceptedRowsAreRegistered
  <2> DEFINE rows       == CommittedRows
             root       == ComputeRoot(rows)
             honest     == {Leaf(rows[i], ProofFor(rows, i)) : i \in DOMAIN rows}
             candidates == {Leaf(r, p) : r \in OfferedTriples \cup Range(rows),
                                         p \in ProofsAtHand(rows)}
  <2> SUFFICES ASSUME FiniteRegistry, rows # <<>>,
                      NEW batch \in {<<l>> : l \in candidates} \cup
                                    {<<h, l>> : h \in honest, l \in candidates},
                      NnsGate(batch, root)
               PROVE  /\ \A i \in DOMAIN batch :
                           /\ batch[i].row \in Range(rows)
                           /\ IsValidName(batch[i].row.name)
                      /\ PairwiseDifferent(batch)
    BY DEF AcceptedRowsAreRegistered
  <2>1. PICK n : IsRowList(rows, n)
    BY RowsOfRegistry
  <2>2. ASSUME NEW l \in candidates PROVE IsList(l.proof)
    <3>1. PICK r, p : p \in ProofsAtHand(rows) /\ l = Leaf(r, p)
      OBVIOUS
    <3> QED
      BY <2>1, <3>1, ProofsAtHandAreLists DEF Leaf
  <2>3. ASSUME NEW h \in honest PROVE IsList(h.proof)
    <3>1. PICK i \in DOMAIN rows : h = Leaf(rows[i], ProofFor(rows, i))
      OBVIOUS
    <3> HIDE DEF rows
    <3>2. IsList(ProofFor(rows, i))
      BY <2>1, RowOfTreeVerifies DEF IsRowList, IsList
    <3> QED
      BY <3>1, <3>2 DEF Leaf
  <2> HIDE DEF rows, honest, candidates
  <2>4. \E m \in Nat : /\ DOMAIN batch = 1 .. m
                       /\ \A i \in 1 .. m : IsList(batch[i].proof)
    <3>1. CASE \E l \in candidates : batch = <<l>>
      BY <2>2, <3>1
    <3>2. CASE \E h \in honest, l \in candidates : batch = <<h, l>>
      <4>1. PICK h \in honest, l \in candidates : batch = <<h, l>>
        BY <3>2
      <4>2. /\ DOMAIN batch = 1 .. 2 /\ \A i \in 1 .. 2 : i = 1 \/ i = 2
            /\ batch[1] = h /\ batch[2] = l
        BY <4>1
      <4> QED
        BY <2>2, <2>3, <4>2
    <3> QED
      BY <3>1, <3>2
  <2> QED
    BY <2>1, <2>4, GateIsSound
<1> QED
  BY <1>1, RegistryIsFinite, PTL

(* No row of the registry is locked out of settlement, whatever its size   *)
(* and wherever the tree pads an odd level.                                *)
THEOREM RowsCanBeSettled == Spec => []EveryRowCanBeSettled
<1>1. FiniteRegistry => EveryRowCanBeSettled
  <2> DEFINE rows == CommittedRows
             root == ComputeRoot(rows)
  <2> SUFFICES ASSUME FiniteRegistry, rows # <<>>,
                      NEW chosen \in SUBSET (DOMAIN rows),
                      NEW order \in SetToSeqs(chosen)
               PROVE  LET batch == [i \in DOMAIN order |->
                            Leaf(rows[order[i]], ProofFor(rows, order[i]))]
                      IN  NnsGate(batch, root) <=>
                            /\ \A l \in Range(batch) : IsValidName(l.row.name)
                            /\ PairwiseDifferent(batch)
    BY DEF EveryRowCanBeSettled
  <2> DEFINE batch == [i \in DOMAIN order |->
                         Leaf(rows[order[i]], ProofFor(rows, order[i]))]
  <2>1. PICK n : IsRowList(rows, n)
    BY RowsOfRegistry
  <2>2. PICK m \in Nat : /\ DOMAIN order = 1 .. m
                         /\ \A i \in 1 .. m : order[i] \in DOMAIN rows
    <3>1. DOMAIN rows = 1 .. n /\ n \in Nat
      BY <2>1 DEF IsRowList
    <3>2. Cardinality(chosen) \in Nat
      <4>1. IsFiniteSet(DOMAIN rows)
        BY <3>1, FS_Interval
      <4> QED
        BY <4>1, FS_Subset, FS_CardinalityType
    <3>3. order \in [1 .. Cardinality(chosen) -> chosen]
      BY DEF SetToSeqs
    <3> QED
      BY <3>2, <3>3
  <2>3. DOMAIN batch = 1 .. m
    BY <2>2
  <2>4. ASSUME NEW i \in 1 .. m
        PROVE  LeafOK(batch[i], root) <=> IsValidName(batch[i].row.name)
    <3> DEFINE k == order[i]
    <3>1. k \in 1 .. n
      BY <2>1, <2>2 DEF IsRowList
    <3>2. batch[i].row = rows[k] /\ batch[i].proof = ProofFor(rows, k)
      BY <2>2 DEF Leaf
    <3> HIDE DEF k, rows, batch
    <3>3. VerifyChunk(rows[k], ProofFor(rows, k), ComputeRoot(rows))
      BY <2>1, <3>1, RowOfTreeVerifies
    <3> QED
      BY <3>2, <3>3 DEF LeafOK
  <2> HIDE DEF batch
  <2>5. (\A l \in Range(batch) : IsValidName(l.row.name))
          <=> \A i \in 1 .. m : IsValidName(batch[i].row.name)
    BY <2>3 DEF Range
  <2>6. NnsGate(batch, root)
          <=> /\ \A i \in 1 .. m : LeafOK(batch[i], root)
              /\ PairwiseDifferent(batch)
    BY <2>3, GateAccepts
  <2>7. NnsGate(batch, root)
          <=> /\ \A l \in Range(batch) : IsValidName(l.row.name)
              /\ PairwiseDifferent(batch)
    BY <2>4, <2>5, <2>6
  <2> QED
    BY <2>7 DEF batch
<1> QED
  BY <1>1, RegistryIsFinite, PTL

-----------------------------------------------------------------------------
(* Nouns.                                                                  *)
PartAt(noun, part, a) ==
  IF a < 2 THEN IF a = 1 THEN noun ELSE Crash
  ELSE LET above == part[a \div 2]
       IN  IF IsCell(above) THEN above[(a % 2) + 1] ELSE Crash

Axes == INSTANCE FoldFacts WITH Op <- LAMBDA p, f, a : PartAt(p, f, a)

(* The recursion of Parts has a solution, so its CHOOSE is one.            *)
LEMMA PartsExist ==
  ASSUME NEW noun
  PROVE  Parts(noun) = [a \in Nat |-> PartAt(noun, Parts(noun), a)]
<1>1. ASSUME NEW a \in Nat, NEW f, NEW g, \A i \in 0 .. a - 1 : f[i] = g[i]
      PROVE  PartAt(noun, f, a) = PartAt(noun, g, a)
  <2>1. a >= 2 => f[a \div 2] = g[a \div 2]
    BY <1>1
  <2> QED
    BY <2>1 DEF PartAt
<1>2. Axes!LooksBack(noun)
  BY <1>1 DEF Axes!LooksBack
<1>3. \E f : f = [a \in Nat |-> PartAt(noun, f, a)]
  BY <1>2, Axes!RecursiveFcn
<1> QED
  BY <1>3 DEF Parts, PartAt

HeadOf(noun) == IF IsCell(noun) THEN noun[1] ELSE Crash
TailOf(noun) == IF IsCell(noun) THEN noun[2] ELSE Crash

(* Below an axis a are the two halves of the part there, at 2a and 2a + 1. *)
LEMMA SlotIs ==
  ASSUME NEW noun
  PROVE  /\ Slot(1, noun) = noun
         /\ Slot(0, noun) = Crash
         /\ \A a \in Nat \ {0}, b \in Nat :
              /\ b = 2 * a     => Slot(b, noun) = HeadOf(Slot(a, noun))
              /\ b = 2 * a + 1 => Slot(b, noun) = TailOf(Slot(a, noun))
<1>1. \A a \in Nat : Slot(a, noun) = PartAt(noun, Parts(noun), a)
  BY PartsExist DEF Slot
<1>2. Slot(1, noun) = noun /\ Slot(0, noun) = Crash
  BY <1>1 DEF PartAt
<1>3. ASSUME NEW a \in Nat \ {0}, NEW bit \in {0, 1}
      PROVE  Slot(2 * a + bit, noun) =
               IF IsCell(Slot(a, noun)) THEN Slot(a, noun)[bit + 1] ELSE Crash
  <2>1. /\ 2 * a + bit \in Nat /\ ~ (2 * a + bit < 2)
        /\ (2 * a + bit) \div 2 = a /\ (2 * a + bit) % 2 = bit
    OBVIOUS
  <2> QED
    BY <1>1, <2>1 DEF PartAt, Slot
<1>4. ASSUME NEW a \in Nat \ {0}
      PROVE  /\ Slot(2 * a, noun) = HeadOf(Slot(a, noun))
             /\ Slot(2 * a + 1, noun) = TailOf(Slot(a, noun))
  <2>1. 2 * a + 0 = 2 * a /\ 0 + 1 = 1 /\ 1 + 1 = 2
    OBVIOUS
  <2> QED
    BY <1>3, <2>1 DEF HeadOf, TailOf
<1> QED
  BY <1>2, <1>4

(* A cell has a head and a tail ...                                        *)
LEMMA CellIs ==
  ASSUME NEW h, NEW t
  PROVE  /\ IsCell(Cell(h, t)) /\ Cell(h, t)[1] = h /\ Cell(h, t)[2] = t
         /\ HeadOf(Cell(h, t)) = h /\ TailOf(Cell(h, t)) = t
BY DEF IsCell, Cell, HeadOf, TailOf

(* ... an atom has neither,                                                *)
LEMMA AtomIs ==
  ASSUME NEW n
  PROVE  /\ ~IsCell(Atom(n)) /\ IsAtom(Atom(n)) /\ Atom(n)[1] = n
         /\ Atom(n) # Crash
         /\ HeadOf(Atom(n)) = Crash /\ TailOf(Atom(n)) = Crash
BY DEF IsCell, IsAtom, Atom, Crash, HeadOf, TailOf

(* nor has a crash.                                                        *)
LEMMA CrashIs == HeadOf(Crash) = Crash /\ TailOf(Crash) = Crash
BY DEF HeadOf, TailOf, IsCell, Crash

(* Nouns whose axes are bounded: all that can be written down.             *)
EndsBefore(noun, n) == \A a \in Nat : a >= n => Slot(a, noun) = Crash

Finite(noun) == \E n \in Nat : EndsBefore(noun, n)

(* An atom has no parts but itself.                                        *)
LEMMA AtomIsFinite ==
  ASSUME NEW x
  PROVE  Finite(Atom(x))
<1> DEFINE S == {k \in Nat : \A a \in 2 .. k + 2 : Slot(a, Atom(x)) = Crash}
<1>1. ASSUME NEW a \in Nat, a >= 2,
             a \div 2 < 2 \/ Slot(a \div 2, Atom(x)) = Crash
      PROVE  Slot(a, Atom(x)) = Crash
  <2>1. \/ a = 2 * (a \div 2)
        \/ a = 2 * (a \div 2) + 1
    BY <1>1
  <2>2. a \div 2 \in Nat \ {0}
    BY <1>1
  <2>3. a \div 2 < 2 => a \div 2 = 1
    BY <2>2
  <2>4. /\ HeadOf(Slot(a \div 2, Atom(x))) = Crash
        /\ TailOf(Slot(a \div 2, Atom(x))) = Crash
    BY <1>1, <2>3, SlotIs, AtomIs, CrashIs
  <2> QED
    BY <2>1, <2>2, <2>4, SlotIs
<1>2. 0 \in S
  BY <1>1
<1>3. ASSUME NEW k \in Nat, k \in S PROVE k + 1 \in S
  <2>1. Slot(k + 3, Atom(x)) = Crash
    <3>1. (k + 3) \div 2 < 2 \/ (k + 3) \div 2 \in 2 .. k + 2
      OBVIOUS
    <3> QED
      BY <1>1, <1>3, <3>1
  <2> QED
    BY <1>3, <2>1
<1>4. \A k \in Nat : k \in S
  <2> HIDE DEF S
  <2> QED
    BY <1>2, <1>3, Axes!NatInd
<1>5. ASSUME NEW a \in Nat, a >= 2 PROVE Slot(a, Atom(x)) = Crash
  <2>1. a - 2 \in S
    BY <1>4, <1>5
  <2> QED
    BY <1>5, <2>1
<1> QED
  BY <1>5 DEF Finite, EndsBefore

(* What is below a cell is below one of its halves, two axes at the least  *)
(* a third as far down.                                                    *)
LEMMA BelowCell ==
  ASSUME NEW h, NEW t
  PROVE  \A a \in Nat : a >= 2 =>
           \E b \in Nat \ {0} : \E half \in {h, t} :
             a <= 3 * b /\ Slot(a, Cell(h, t)) = Slot(b, half)
<1> DEFINE c == Cell(h, t)
           Below(a) == \E b \in Nat \ {0} : \E half \in {h, t} :
                         a <= 3 * b /\ Slot(a, c) = Slot(b, half)
           S == {k \in Nat : \A a \in 2 .. k + 2 : Below(a)}
<1>1. Below(2) /\ Below(3)
  <2>1. Slot(2, c) = HeadOf(Slot(1, c)) /\ Slot(3, c) = TailOf(Slot(1, c))
    BY SlotIs
  <2>2. Slot(2, c) = Slot(1, h) /\ Slot(3, c) = Slot(1, t)
    BY <2>1, SlotIs, CellIs
  <2> QED
    BY <2>2
<1>2. ASSUME NEW m \in Nat \ {0}, Below(m), NEW bit \in {0, 1}
      PROVE  Below(2 * m + bit)
  <2>1. PICK b \in Nat \ {0}, half \in {h, t} :
          m <= 3 * b /\ Slot(m, c) = Slot(b, half)
    BY <1>2
  <2> HIDE DEF c
  <2>2. Slot(2 * m + bit, c) = Slot(2 * b + bit, half)
    <3>1. PICK d \in Nat : d = 2 * m + bit
      OBVIOUS
    <3>2. PICK e \in Nat : e = 2 * b + bit
      OBVIOUS
    <3>3. CASE bit = 0
      <4>1. d = 2 * m /\ e = 2 * b
        BY <3>1, <3>2, <3>3
      <4>2. Slot(d, c) = HeadOf(Slot(m, c)) /\ Slot(e, half) = HeadOf(Slot(b, half))
        BY <4>1, SlotIs
      <4> QED
        BY <2>1, <3>1, <3>2, <4>2
    <3>4. CASE bit = 1
      <4>1. d = 2 * m + 1 /\ e = 2 * b + 1
        BY <3>1, <3>2, <3>4
      <4>2. Slot(d, c) = TailOf(Slot(m, c)) /\ Slot(e, half) = TailOf(Slot(b, half))
        BY <4>1, SlotIs
      <4> QED
        BY <2>1, <3>1, <3>2, <4>2
    <3> QED
      BY <3>3, <3>4
  <2>3. 2 * b + bit \in Nat \ {0} /\ 2 * m + bit <= 3 * (2 * b + bit)
    BY <2>1
  <2> QED
    BY <2>2, <2>3
<1> HIDE DEF Below
<1>3. 0 \in S
  BY <1>1
<1>4. ASSUME NEW k \in Nat, k \in S PROVE k + 1 \in S
  <2>1. Below(k + 3)
    <3>1. CASE k = 0
      BY <1>1, <3>1
    <3>2. CASE k # 0
      <4>1. PICK m \in Nat \ {0}, bit \in {0, 1} : k + 3 = 2 * m + bit
        <5>1. k + 3 = 2 * ((k + 3) \div 2) + ((k + 3) % 2)
          OBVIOUS
        <5>2. (k + 3) \div 2 \in Nat \ {0} /\ (k + 3) % 2 \in {0, 1}
          OBVIOUS
        <5> QED
          BY <5>1, <5>2
      <4>2. m \in 2 .. k + 2
        BY <3>2, <4>1
      <4>3. Below(m)
        BY <1>4, <4>2
      <4> QED
        BY <1>2, <4>1, <4>3
    <3> QED
      BY <3>1, <3>2
  <2> QED
    BY <1>4, <2>1
<1>5. \A k \in Nat : k \in S
  <2> HIDE DEF S
  <2> QED
    BY <1>3, <1>4, Axes!NatInd
<1>6. ASSUME NEW a \in Nat, a >= 2 PROVE Below(a)
  <2>1. a - 2 \in S
    BY <1>5, <1>6
  <2> QED
    BY <1>6, <2>1
<1> QED
  BY <1>6 DEF Below

(* Hence a cell of finite nouns is finite.                                 *)
LEMMA CellIsFinite ==
  ASSUME NEW h, NEW t, Finite(h), Finite(t)
  PROVE  Finite(Cell(h, t))
<1>1. PICK m \in Nat : EndsBefore(h, m)
  BY DEF Finite
<1>2. PICK n \in Nat : EndsBefore(t, n)
  BY DEF Finite
<1> DEFINE top == 3 * (m + n) + 2
<1>3. ASSUME NEW a \in Nat, a >= top PROVE Slot(a, Cell(h, t)) = Crash
  <2>1. PICK b \in Nat \ {0}, half \in {h, t} :
          a <= 3 * b /\ Slot(a, Cell(h, t)) = Slot(b, half)
    BY <1>3, BelowCell
  <2>2. b >= m /\ b >= n
    BY <1>3, <2>1
  <2> QED
    BY <1>1, <1>2, <2>1, <2>2 DEF EndsBefore
<1>4. top \in Nat
  OBVIOUS
<1> HIDE DEF top
<1>5. EndsBefore(Cell(h, t), top)
  BY <1>3 DEF EndsBefore
<1> QED
  BY <1>4, <1>5 DEF Finite
-----------------------------------------------------------------------------
(* Right-nested tuples. *)
TupleFrom(nouns, n, j, f) ==
  IF j = 0 THEN nouns[n - j] ELSE Cell(nouns[n - j], f[j - 1])

Ends == INSTANCE FoldFacts WITH
          Op <- LAMBDA p, f, j : TupleFrom(p.nouns, p.n, j, f)

IsTuple(nouns, n, from) ==
  /\ Tuple(nouns) = from[1]
  /\ from[n] = nouns[n]
  /\ \A i \in 1 .. n - 1 : from[i] = Cell(nouns[i], from[i + 1])

(* The noun of a tuple, by the tuples of its last elements.                *)
LEMMA TupleIs ==
  ASSUME NEW nouns, NEW n \in Nat \ {0}, DOMAIN nouns = 1 .. n, Len(nouns) = n
  PROVE  \E from : IsTuple(nouns, n, from)
<1> DEFINE p == [nouns |-> nouns, n |-> n]
           Body(f, i) == IF i = Len(nouns) THEN nouns[i]
                                           ELSE Cell(nouns[i], f[i + 1])
<1>1. Ends!LooksBack(p)
  <2> SUFFICES ASSUME NEW j \in Nat, NEW f, NEW g,
                      \A i \in 0 .. j - 1 : f[i] = g[i]
               PROVE  TupleFrom(nouns, n, j, f) = TupleFrom(nouns, n, j, g)
    BY DEF Ends!LooksBack
  <2>1. j # 0 => f[j - 1] = g[j - 1]
    OBVIOUS
  <2> QED
    BY <2>1 DEF TupleFrom
<1>2. PICK q : q = [j \in Nat |-> TupleFrom(nouns, n, j, q)]
  <2>1. \E q : q = [j \in Nat |-> TupleFrom(p.nouns, p.n, j, q)]
    BY <1>1, Ends!RecursiveFcn
  <2> QED
    BY <2>1
<1> DEFINE f == [i \in DOMAIN nouns |-> q[n - i]]
<1>3. ASSUME NEW i \in DOMAIN nouns PROVE q[n - i] = Body(f, i)
  <2>1. n - i \in Nat /\ n - (n - i) = i
    OBVIOUS
  <2>2. q[n - i] = TupleFrom(nouns, n, n - i, q)
    BY <1>2, <2>1
  <2>3. CASE i = n
    BY <2>1, <2>2, <2>3 DEF TupleFrom
  <2>4. CASE i # n
    <3>1. i + 1 \in DOMAIN nouns /\ (n - i) - 1 = n - (i + 1) /\ n - i # 0
      BY <2>4
    <3>2. f[i + 1] = q[n - (i + 1)]
      BY <3>1
    <3> QED
      BY <2>1, <2>2, <2>4, <3>1, <3>2 DEF TupleFrom
  <2> QED
    BY <2>3, <2>4
<1>4. f = [i \in DOMAIN nouns |-> Body(f, i)]
  BY <1>3
<1>5. \E g : g = [i \in DOMAIN nouns |-> Body(g, i)]
  BY <1>4
<1> DEFINE from == CHOOSE g : g = [i \in DOMAIN nouns |-> Body(g, i)]
<1>6. from = [i \in DOMAIN nouns |-> Body(from, i)]
  BY <1>5
<1>7. Tuple(nouns) = from[1]
  BY DEF Tuple, NestRight
<1> HIDE DEF from
<1>8. \A i \in 1 .. n : from[i] = Body(from, i)
  BY <1>6
<1>9. IsTuple(nouns, n, from)
  BY <1>7, <1>8 DEF IsTuple
<1> QED
  BY <1>9

(* The tuples the formulas are written with.                               *)
LEMMA Tuple3 ==
  ASSUME NEW a, NEW b, NEW c
  PROVE  Tuple(<<a, b, c>>) = Cell(a, Cell(b, c))
<1> DEFINE s == <<a, b, c>>
<1>1. /\ DOMAIN s = 1 .. 3 /\ Len(s) = 3 /\ 3 \in Nat \ {0}
      /\ s[1] = a /\ s[2] = b /\ s[3] = c
  OBVIOUS
<1> HIDE DEF s
<1>2. PICK from : IsTuple(s, 3, from)
  BY <1>1, TupleIs, Zenon
<1>3. /\ Tuple(s) = from[1] /\ from[3] = s[3]
      /\ \A i \in 1 .. 2 : from[i] = Cell(s[i], from[i + 1])
  BY <1>2 DEF IsTuple
<1> QED
  BY <1>1, <1>3 DEF s

LEMMA Tuple4 ==
  ASSUME NEW a, NEW b, NEW c, NEW d
  PROVE  Tuple(<<a, b, c, d>>) = Cell(a, Cell(b, Cell(c, d)))
<1> DEFINE s == <<a, b, c, d>>
<1>1. /\ DOMAIN s = 1 .. 4 /\ Len(s) = 4 /\ 4 \in Nat \ {0}
      /\ s[1] = a /\ s[2] = b /\ s[3] = c /\ s[4] = d
  OBVIOUS
<1> HIDE DEF s
<1>2. PICK from : IsTuple(s, 4, from)
  BY <1>1, TupleIs, Zenon
<1>3. /\ Tuple(s) = from[1] /\ from[4] = s[4]
      /\ \A i \in 1 .. 3 : from[i] = Cell(s[i], from[i + 1])
  BY <1>2 DEF IsTuple
<1> QED
  BY <1>1, <1>3 DEF s

-----------------------------------------------------------------------------
(* Products. *)
ProductAt(subject, formula, product, a) ==
  LET here == Slot(a, formula)
      op   == here[1]
      arg  == here[2]
  IN  IF ~IsCell(here) THEN Crash ELSE
      CASE op = Atom(0) /\ IsAtom(arg) -> Slot(arg[1], subject)
        [] op = Atom(1) -> arg
        [] op = Atom(5) /\ IsCell(arg) ->
             Equality(product[4 * a + 2], product[4 * a + 3])
        [] op = Atom(6) /\ IsCell(arg) /\ IsCell(arg[2]) ->
             Branch(product[4 * a + 2],
                    product[8 * a + 6], product[8 * a + 7])
        [] OTHER -> Crash

(* From the last axis of the formula down. *)
ProductFromEnd(p, f, j) ==
  IF j > p.top THEN Crash
  ELSE ProductAt(p.subject, p.formula,
                 [a \in Nat |-> IF a <= p.top THEN f[p.top - a] ELSE Crash],
                 p.top - j)

Down == INSTANCE FoldFacts WITH Op <- LAMBDA p, f, j : ProductFromEnd(p, f, j)

(* The product of a part depends on products at greater axes only ...      *)
LEMMA ProductAtAlike ==
  ASSUME NEW s, NEW formula, NEW a \in Nat, NEW f, NEW g,
         \A b \in Nat : b > a => f[b] = g[b]
  PROVE  ProductAt(s, formula, f, a) = ProductAt(s, formula, g, a)
<1>1. /\ f[4 * a + 2] = g[4 * a + 2] /\ f[4 * a + 3] = g[4 * a + 3]
      /\ f[8 * a + 6] = g[8 * a + 6] /\ f[8 * a + 7] = g[8 * a + 7]
  OBVIOUS
<1> QED
  BY <1>1 DEF ProductAt

(* ... of which a finite formula has finitely many.                        *)
LEMMA ProductsExist ==
  ASSUME NEW s, NEW formula, Finite(formula)
  PROVE  Products(s, formula)
           = [a \in Nat |-> ProductAt(s, formula, Products(s, formula), a)]
<1>1. PICK top \in Nat : EndsBefore(formula, top)
  BY DEF Finite
<1> DEFINE p == [subject |-> s, formula |-> formula, top |-> top]
           Up(f) == [a \in Nat |-> IF a <= top THEN f[top - a] ELSE Crash]
           Body(f, j) == IF j > top THEN Crash
                         ELSE ProductAt(s, formula, Up(f), top - j)
<1>2. Down!LooksBack(p)
  <2> SUFFICES ASSUME NEW j \in Nat, NEW f, NEW g,
                      \A i \in 0 .. j - 1 : f[i] = g[i]
               PROVE  Body(f, j) = Body(g, j)
    BY DEF Down!LooksBack, ProductFromEnd
  <2>1. CASE j > top
    BY <2>1
  <2>2. CASE ~ (j > top)
    <3>1. top - j \in Nat
      BY <2>2
    <3>2. ASSUME NEW b \in Nat, b > top - j PROVE Up(f)[b] = Up(g)[b]
      BY <3>2
    <3> HIDE DEF Up
    <3>3. ProductAt(s, formula, Up(f), top - j) = ProductAt(s, formula, Up(g), top - j)
      BY <3>1, <3>2, ProductAtAlike
    <3> QED
      BY <2>2, <3>3
  <2> QED
    BY <2>1, <2>2
<1>3. PICK q : q = [j \in Nat |-> Body(q, j)]
  <2>1. \E q : q = [j \in Nat |-> ProductFromEnd(p, q, j)]
    BY <1>2, Down!RecursiveFcn
  <2> QED
    BY <2>1 DEF ProductFromEnd
<1>4. ASSUME NEW a \in Nat PROVE Up(q)[a] = ProductAt(s, formula, Up(q), a)
  <2>1. CASE a <= top
    <3>1. top - a \in Nat /\ ~ (top - a > top) /\ top - (top - a) = a
      BY <2>1
    <3>2. Up(q)[a] = q[top - a]
      BY <2>1
    <3> HIDE DEF Up
    <3>3. q[top - a] = ProductAt(s, formula, Up(q), top - (top - a))
      BY <1>3, <3>1
    <3> QED
      BY <3>1, <3>2, <3>3
  <2>2. CASE a > top
    <3>1. Slot(a, formula) = Crash
      BY <1>1, <2>2 DEF EndsBefore
    <3>2. ProductAt(s, formula, Up(q), a) = Crash
      BY <3>1 DEF ProductAt, IsCell, Crash
    <3> QED
      BY <2>2, <3>2
  <2> QED
    BY <2>1, <2>2
<1>5. \E f : f = [a \in Nat |-> ProductAt(s, formula, f, a)]
  <2>1. Up(q) = [a \in Nat |-> Up(q)[a]]
    OBVIOUS
  <2> HIDE DEF Up
  <2> QED
    BY <1>4, <2>1
<1> QED
  BY <1>5 DEF Products, ProductAt
-----------------------------------------------------------------------------
(* On s, formula g has product v, wherever in a formula it stands.         *)
Says(s, g, v) ==
  \A formula : Finite(formula) =>
    \A a \in Nat \ {0} : Slot(a, formula) = g => Products(s, formula)[a] = v

(* What a whole formula says is its product.                               *)
LEMMA SaysProduct ==
  ASSUME NEW s, NEW g, NEW v, Finite(g), Says(s, g, v)
  PROVE  Product(s, g) = v
<1>1. Slot(1, g) = g
  BY SlotIs
<1> QED
  BY <1>1 DEF Says, Product

(* A cell says what the machine makes of its opcode.                       *)
LEMMA SaysCell ==
  ASSUME NEW s, NEW op, NEW arg, NEW v,
         ASSUME NEW formula, Finite(formula), NEW a \in Nat \ {0},
                Slot(a, formula) = Cell(op, arg)
         PROVE  ProductAt(s, formula, Products(s, formula), a) = v
  PROVE  Says(s, Cell(op, arg), v)
BY ProductsExist DEF Says

(* The slot at an axis.                                                    *)
LEMMA SaysPick ==
  ASSUME NEW s, NEW x
  PROVE  Says(s, TracePick(x), Slot(x, s))
<1> SUFFICES ASSUME NEW formula, Finite(formula), NEW a \in Nat \ {0},
                    Slot(a, formula) = TracePick(x)
             PROVE  ProductAt(s, formula, Products(s, formula), a) = Slot(x, s)
  BY SaysCell DEF TracePick
<1> QED
  BY CellIs, AtomIs DEF ProductAt, TracePick

(* A constant.                                                             *)
LEMMA SaysLit ==
  ASSUME NEW s, NEW x
  PROVE  Says(s, TraceLit(x), Atom(x))
<1> SUFFICES ASSUME NEW formula, Finite(formula), NEW a \in Nat \ {0},
                    Slot(a, formula) = TraceLit(x)
             PROVE  ProductAt(s, formula, Products(s, formula), a) = Atom(x)
  BY SaysCell DEF TraceLit
<1>1. Atom(1) # Atom(0)
  BY DEF Atom
<1> QED
  BY <1>1, CellIs, AtomIs DEF ProductAt, TraceLit

(* The halves of a part that is a cell.                                    *)
LEMMA Halves ==
  ASSUME NEW noun, NEW h, NEW t, NEW a \in Nat \ {0},
         Slot(a, noun) = Cell(h, t), NEW b \in Nat
  PROVE  /\ b = 2 * a     => Slot(b, noun) = h
         /\ b = 2 * a + 1 => Slot(b, noun) = t
<1>1. HeadOf(Cell(h, t)) = h /\ TailOf(Cell(h, t)) = t
  BY CellIs
<1> QED
  BY <1>1, SlotIs

(* An equality, from what its sides say.                                   *)
LEMMA SaysEq ==
  ASSUME NEW s, NEW p, NEW q, NEW u, NEW w, Says(s, p, u), Says(s, q, w)
  PROVE  Says(s, TraceEq(p, q), Equality(u, w))
<1>1. TraceEq(p, q) = Cell(Atom(5), Cell(p, q))
  BY Tuple3 DEF TraceEq
<1> SUFFICES ASSUME NEW formula, Finite(formula), NEW a \in Nat \ {0},
                    Slot(a, formula) = Cell(Atom(5), Cell(p, q))
             PROVE  ProductAt(s, formula, Products(s, formula), a)
                      = Equality(u, w)
  BY <1>1, SaysCell
<1>2. Slot(4 * a + 2, formula) = p /\ Slot(4 * a + 3, formula) = q
  <2>1. PICK b \in Nat \ {0} : b = 2 * a + 1
    OBVIOUS
  <2>2. Slot(b, formula) = Cell(p, q)
    BY <2>1, Halves
  <2>3. 4 * a + 2 = 2 * b /\ 4 * a + 3 = 2 * b + 1
    BY <2>1
  <2> QED
    BY <2>2, <2>3, Halves
<1>3. /\ Products(s, formula)[4 * a + 2] = u
      /\ Products(s, formula)[4 * a + 3] = w
  BY <1>2 DEF Says
<1>4. Atom(5) # Atom(0) /\ Atom(5) # Atom(1) /\ Atom(5) # Atom(6)
  BY DEF Atom
<1>5. ASSUME NEW x, NEW y
      PROVE  IsCell(Cell(x, y)) /\ Cell(x, y)[1] = x /\ Cell(x, y)[2] = y
  BY CellIs
<1> QED
  BY <1>3, <1>4, <1>5 DEF ProductAt

(* A branch, from what the test and both arms say.                         *)
LEMMA SaysIf ==
  ASSUME NEW s, NEW p, NEW q, NEW r, NEW u, NEW v, NEW w,
         Says(s, p, u), Says(s, q, v), Says(s, r, w)
  PROVE  Says(s, TraceIf(p, q, r), Branch(u, v, w))
<1>1. TraceIf(p, q, r) = Cell(Atom(6), Cell(p, Cell(q, r)))
  BY Tuple4 DEF TraceIf
<1> SUFFICES ASSUME NEW formula, Finite(formula), NEW a \in Nat \ {0},
                    Slot(a, formula) = Cell(Atom(6), Cell(p, Cell(q, r)))
             PROVE  ProductAt(s, formula, Products(s, formula), a)
                      = Branch(u, v, w)
  BY <1>1, SaysCell
<1>2. /\ Slot(4 * a + 2, formula) = p
      /\ Slot(8 * a + 6, formula) = q
      /\ Slot(8 * a + 7, formula) = r
  <2>1. PICK b \in Nat \ {0} : b = 2 * a + 1
    OBVIOUS
  <2>2. Slot(b, formula) = Cell(p, Cell(q, r))
    BY <2>1, Halves
  <2>3. PICK d \in Nat \ {0} : d = 2 * b + 1
    OBVIOUS
  <2>4. Slot(d, formula) = Cell(q, r)
    BY <2>2, <2>3, Halves
  <2>5. 4 * a + 2 = 2 * b /\ 8 * a + 6 = 2 * d /\ 8 * a + 7 = 2 * d + 1
    BY <2>1, <2>3
  <2> QED
    BY <2>2, <2>4, <2>5, Halves
<1>3. /\ Products(s, formula)[4 * a + 2] = u
      /\ Products(s, formula)[8 * a + 6] = v
      /\ Products(s, formula)[8 * a + 7] = w
  BY <1>2 DEF Says
<1>4. Atom(6) # Atom(0) /\ Atom(6) # Atom(1) /\ Atom(6) # Atom(5)
  BY DEF Atom
<1>5. ASSUME NEW x, NEW y
      PROVE  IsCell(Cell(x, y)) /\ Cell(x, y)[1] = x /\ Cell(x, y)[2] = y
  BY CellIs
<1> QED
  BY <1>3, <1>4, <1>5 DEF ProductAt

(* The verdict of a test that holds if and only if P does.                 *)
Verdict(P) == IF P THEN Yes ELSE No

(* Equality yields verdicts and a branch reads them.                       *)
LEMMA Verdicts ==
  /\ Yes # No /\ Yes # Crash /\ No # Crash /\ Yes = Atom(0) /\ No = Atom(1)
  /\ \A v, w : Branch(Yes, v, w) = v /\ Branch(No, v, w) = w
  /\ \A m, n : Equality(Atom(m), Atom(n)) = Verdict(m = n)
BY DEF Yes, No, Crash, Atom, Branch, Equality, Verdict

(* The constraints of the two formulas, on atoms at the slots they read.   *)
LEMMA SaysNonzero ==
  ASSUME NEW s, NEW axis, NEW n, Slot(axis, s) = Atom(n)
  PROVE  Says(s, TraceNonzero(axis), Verdict(n # 0))
<1>1. Says(s, TraceEq(TracePick(axis), TraceLit(0)), Verdict(n = 0))
  BY SaysEq, SaysPick, SaysLit, Verdicts
<1>2. Says(s, TraceNonzero(axis), Branch(Verdict(n = 0), Atom(1), Atom(0)))
  BY <1>1, SaysIf, SaysLit DEF TraceNonzero
<1> QED
  BY <1>2, Verdicts DEF Verdict

LEMMA SaysEqual ==
  ASSUME NEW s, NEW axis, NEW m, NEW n, Slot(axis, s) = Atom(m)
  PROVE  Says(s, TraceEq(TracePick(axis), TraceLit(n)), Verdict(m = n))
BY SaysEq, SaysPick, SaysLit, Verdicts

LEMMA SaysFww ==
  ASSUME NEW s, NEW cand, NEW acc, NEW m, NEW n,
         Slot(cand, s) = Atom(m), Slot(acc, s) = Atom(n)
  PROVE  Says(s, TraceFww(cand, acc), Verdict(m = 0 \/ m # n))
<1> DEFINE free == TraceEq(TracePick(cand), TraceLit(0))
           same == TraceEq(TracePick(acc), TracePick(cand))
<1>1. Says(s, free, Verdict(m = 0))
  BY SaysEqual
<1>2. Says(s, same, Verdict(n = m))
  BY SaysEq, SaysPick, Verdicts
<1> HIDE DEF free, same
<1>3. Says(s, TraceIf(same, TraceLit(1), TraceLit(0)), Verdict(n # m))
  <2>1. Says(s, TraceIf(same, TraceLit(1), TraceLit(0)),
             Branch(Verdict(n = m), Atom(1), Atom(0)))
    BY <1>2, SaysIf, SaysLit
  <2> QED
    BY <2>1, Verdicts DEF Verdict
<1>4. Says(s, TraceIf(free, TraceLit(0), TraceIf(same, TraceLit(1), TraceLit(0))),
           Branch(Verdict(m = 0), Atom(0), Verdict(n # m)))
  BY <1>1, <1>3, SaysIf, SaysLit
<1>5. TraceFww(cand, acc) =
        TraceIf(free, TraceLit(0), TraceIf(same, TraceLit(1), TraceLit(0)))
  BY DEF TraceFww, free, same
<1> QED
  BY <1>4, <1>5, Verdicts DEF Verdict

(* A conjunction of verdicts.                                              *)
LEMMA SaysAnd ==
  ASSUME NEW s, NEW p, NEW q, NEW P, NEW Q,
         Says(s, p, Verdict(P)), Says(s, q, Verdict(Q))
  PROVE  Says(s, TraceAnd(p, q), Verdict(P /\ Q))
<1>1. Says(s, TraceIf(q, TraceLit(0), TraceLit(1)),
           Branch(Verdict(Q), Atom(0), Atom(1)))
  BY SaysIf, SaysLit
<1>2. Says(s, TraceAnd(p, q),
           Branch(Verdict(P), Branch(Verdict(Q), Atom(0), Atom(1)), Atom(1)))
  BY <1>1, SaysIf, SaysLit DEF TraceAnd
<1> QED
  BY <1>2, Verdicts DEF Verdict

-----------------------------------------------------------------------------
(* The formulas. *)
LEMMA TracesAreFinite ==
  /\ \A x : Finite(TracePick(x)) /\ Finite(TraceLit(x))
  /\ \A p, q : Finite(p) /\ Finite(q) => Finite(TraceEq(p, q))
  /\ \A p, q, r : Finite(p) /\ Finite(q) /\ Finite(r) => Finite(TraceIf(p, q, r))
<1>1. \A x : Finite(TracePick(x)) /\ Finite(TraceLit(x))
  BY AtomIsFinite, CellIsFinite DEF TracePick, TraceLit
<1>2. ASSUME NEW p, NEW q, Finite(p), Finite(q) PROVE Finite(TraceEq(p, q))
  <2>1. TraceEq(p, q) = Cell(Atom(5), Cell(p, q))
    BY Tuple3 DEF TraceEq
  <2> QED
    BY <1>2, <2>1, AtomIsFinite, CellIsFinite
<1>3. ASSUME NEW p, NEW q, NEW r, Finite(p), Finite(q), Finite(r)
      PROVE  Finite(TraceIf(p, q, r))
  <2>1. TraceIf(p, q, r) = Cell(Atom(6), Cell(p, Cell(q, r)))
    BY Tuple4 DEF TraceIf
  <2>2. Finite(Cell(p, Cell(q, r)))
    BY <1>3, CellIsFinite
  <2> QED
    BY <2>1, <2>2, AtomIsFinite, CellIsFinite
<1> QED
  BY <1>1, <1>2, <1>3

(* and so are the constraints.                                             *)
LEMMA TestsAreFinite ==
  /\ \A x : Finite(TraceNonzero(x))
  /\ \A x, y : Finite(TraceFww(x, y))
  /\ \A x, y : Finite(TraceEq(TracePick(x), TraceLit(y)))
  /\ \A p, q : Finite(p) /\ Finite(q) => Finite(TraceAnd(p, q))
BY TracesAreFinite DEF TraceNonzero, TraceFww, TraceAnd

(* Three constraints compile to two conjunctions.                          *)
LEMMA CompileThree ==
  ASSUME NEW a, NEW b, NEW c
  PROVE  CompileTrace(<<a, b, c>>) = TraceAnd(a, TraceAnd(b, c))
<1> DEFINE s == <<a, b, c>>
           Body(f, i) == IF i = Len(s) THEN s[i] ELSE TraceAnd(s[i], f[i + 1])
           from == [i \in 1 .. 3 |-> IF i = 3 THEN c
                                     ELSE IF i = 2 THEN TraceAnd(b, c)
                                     ELSE TraceAnd(a, TraceAnd(b, c))]
           built == CHOOSE f : f = [i \in DOMAIN s |-> Body(f, i)]
<1>1. /\ DOMAIN s = 1 .. 3 /\ Len(s) = 3 /\ s # <<>>
      /\ s[1] = a /\ s[2] = b /\ s[3] = c
  OBVIOUS
<1>2. CompileTrace(s) = built[1]
  BY <1>1 DEF CompileTrace, NestRight
<1> HIDE DEF s
<1>3. \A i \in 1 .. 3 : from[i] = Body(from, i)
  BY <1>1
<1>4. from = [i \in DOMAIN s |-> Body(from, i)]
  BY <1>1, <1>3
<1>5. \E f : f = [i \in DOMAIN s |-> Body(f, i)]
  <2> HIDE DEF from, Body
  <2> QED
    BY <1>4
<1>6. built = [i \in DOMAIN s |-> Body(built, i)]
  BY <1>5
<1> HIDE DEF built
<1>7. built[3] = c /\ built[2] = TraceAnd(b, built[3])
      /\ built[1] = TraceAnd(a, built[2])
  BY <1>1, <1>6
<1> QED
  BY <1>2, <1>7 DEF s

(* The subjects. *)
LEMMA GenesisSlots ==
  ASSUME NEW x, NEW y, NEW z
  PROVE  LET s == Cell(x, Cell(y, z))
         IN  Slot(2, s) = x /\ Slot(6, s) = y /\ Slot(7, s) = z
<1> DEFINE s == Cell(x, Cell(y, z))
<1>1. Slot(1, s) = Cell(x, Cell(y, z))
  BY SlotIs
<1> HIDE DEF s
<1>2. Slot(2, s) = x /\ Slot(3, s) = Cell(y, z)
  BY <1>1, Halves
<1>3. Slot(6, s) = y /\ Slot(7, s) = z
  BY <1>2, Halves
<1> QED
  BY <1>2, <1>3 DEF s

(* One step down a tuple: an element or the rest.                          *)
LEMMA TupleSlot ==
  ASSUME NEW nouns, NEW n \in Nat \ {0}, NEW from, IsTuple(nouns, n, from),
         NEW a \in Nat \ {0}, NEW k \in 1 .. n - 1,
         Slot(a, Tuple(nouns)) = from[k], NEW b \in Nat
  PROVE  /\ b = 2 * a     => Slot(b, Tuple(nouns)) = nouns[k]
         /\ b = 2 * a + 1 => Slot(b, Tuple(nouns)) = from[k + 1]
<1>1. from[k] = Cell(nouns[k], from[k + 1])
  BY DEF IsTuple
<1> QED
  BY <1>1, Halves

(* An element, under a name that keeps the provers from rewriting the      *)
(* elements of a concatenation.                                            *)
At(s, i) == s[i]

(* The first elements of a tuple of more than nine. *)
LEMMA TupleSlots ==
  ASSUME NEW nouns, NEW n \in Nat, n >= 10, DOMAIN nouns = 1 .. n, Len(nouns) = n
  PROVE  LET s == Tuple(nouns)
         IN  /\ Slot(2, s) = At(nouns, 1)
             /\ Slot(6, s) = At(nouns, 2)
             /\ Slot(254, s) = At(nouns, 7)
             /\ Slot(510, s) = At(nouns, 8)
             /\ Slot(1022, s) = At(nouns, 9)
<1> DEFINE s == Tuple(nouns)
<1>1. PICK from : IsTuple(nouns, n, from)
  BY TupleIs
<1>2. Slot(1, s) = from[1]
  BY <1>1, SlotIs DEF IsTuple
<1>3. Slot(2, s) = nouns[1] /\ Slot(3, s) = from[2]
  BY <1>1, <1>2, TupleSlot
<1>4. Slot(6, s) = nouns[2] /\ Slot(7, s) = from[3]
  BY <1>1, <1>3, TupleSlot
<1>5. Slot(15, s) = from[4]
  BY <1>1, <1>4, TupleSlot
<1>6. Slot(31, s) = from[5]
  BY <1>1, <1>5, TupleSlot
<1>7. Slot(63, s) = from[6]
  BY <1>1, <1>6, TupleSlot
<1>8. Slot(127, s) = from[7]
  BY <1>1, <1>7, TupleSlot
<1>9. Slot(254, s) = nouns[7] /\ Slot(255, s) = from[8]
  BY <1>1, <1>8, TupleSlot
<1>10. Slot(510, s) = nouns[8] /\ Slot(511, s) = from[9]
  BY <1>1, <1>9, TupleSlot
<1>11. Slot(1022, s) = nouns[9]
  BY <1>1, <1>10, TupleSlot
<1> QED
  BY <1>3, <1>4, <1>9, <1>10, <1>11 DEF At

(* Sequences of a known length over any set. *)
IsSeqOf(s, n, S) == s \in Seq(S) /\ Len(s) = n /\ DOMAIN s = 1 .. n

(* A function on 1 .. n is a sequence of length n.                         *)
LEMMA OfFunction ==
  ASSUME NEW S, NEW n \in Nat, NEW s \in [1 .. n -> S]
  PROVE  IsSeqOf(s, n, S)
<1>1. s \in Seq(S) /\ DOMAIN s = 1 .. n
  OBVIOUS
<1>2. Len(s) = n
  BY <1>1, LenProperties
<1> QED
  BY <1>1, <1>2 DEF IsSeqOf

(* Concatenation adds lengths ...                                          *)
LEMMA Joined ==
  ASSUME NEW S, NEW s, NEW t, NEW m \in Nat, NEW n \in Nat, NEW k, k = m + n,
         IsSeqOf(s, m, S), IsSeqOf(t, n, S)
  PROVE  IsSeqOf(s \o t, k, S)
<1>1. s \o t \in Seq(S) /\ Len(s \o t) = m + n
  BY ConcatProperties DEF IsSeqOf
<1>2. DOMAIN (s \o t) = 1 .. m + n
  BY <1>1, LenProperties
<1> QED
  BY <1>1, <1>2 DEF IsSeqOf

(* ... and keeps the elements in order.                                    *)
LEMMA JoinedAt ==
  ASSUME NEW S, NEW s, NEW t, NEW m \in Nat, NEW n \in Nat,
         IsSeqOf(s, m, S), IsSeqOf(t, n, S), NEW i \in Nat, 1 <= i, NEW j
  PROVE  /\ i <= m => At(s \o t, i) = At(s, i)
         /\ i <= n /\ j = m + i => At(s \o t, j) = At(t, i)
BY ConcatProperties DEF At, IsSeqOf

(* The pieces the subjects are put together from: one element, two,        *)
LEMMA Short ==
  ASSUME NEW S, NEW x \in S, NEW y \in S
  PROVE  /\ IsSeqOf(<<x>>, 1, S) /\ At(<<x>>, 1) = x
         /\ IsSeqOf(<<x, y>>, 2, S)
         /\ At(<<x, y>>, 1) = x /\ At(<<x, y>>, 2) = y
BY DEF IsSeqOf, At

(* the atoms of a sequence of numbers,                                     *)
LEMMA AtomsOf ==
  ASSUME NEW S, NEW s, NEW n \in Nat, IsSeqOf(s, n, S)
  PROVE  /\ IsSeqOf(Atoms(s), n, {Atom(x) : x \in S})
         /\ \A i \in Nat : 1 <= i /\ i <= n => At(Atoms(s), i) = Atom(At(s, i))
<1>1. \A i \in 1 .. n : s[i] \in S
  BY DEF IsSeqOf
<1>2. Atoms(s) = [i \in 1 .. n |-> Atom(s[i])]
  BY DEF Atoms, IsSeqOf
<1>3. Atoms(s) \in [1 .. n -> {Atom(x) : x \in S}]
  BY <1>1, <1>2
<1> HIDE DEF Atoms
<1>4. IsSeqOf(Atoms(s), n, {Atom(x) : x \in S})
  BY <1>3, OfFunction
<1> QED
  BY <1>2, <1>4 DEF At

(* (a sequence over a set is one over any larger set)                      *)
LEMMA Widened ==
  ASSUME NEW S, NEW T, S \subseteq T, NEW s, NEW n \in Nat, IsSeqOf(s, n, S)
  PROVE  IsSeqOf(s, n, T)
<1>1. s \in [1 .. n -> T]
  BY DEF IsSeqOf
<1> QED
  BY <1>1 DEF IsSeqOf

(* and the five limbs of a digest.                                         *)
LEMMA LimbsAre ==
  ASSUME NEW atom
  PROVE  \E S : IsSeqOf(Limbs(atom), 5, S)
<1> DEFINE l == Limbs(atom)
           S == {l[i] : i \in 1 .. 5}
<1>1. l = [i \in 1 .. 5 |-> l[i]]
  BY DEF Limbs
<1> HIDE DEF l
<1>2. l \in [1 .. 5 -> S]
  BY <1>1
<1> HIDE DEF S
<1>3. IsSeqOf(l, 5, S)
  BY <1>2, OfFunction
<1> QED
  BY <1>3 DEF l

(* The slot the empty transition formula reads is the wanted height ...    *)
LEMMA EmptySubjectSlot ==
  ASSUME NEW prevH, NEW page, NEW wantH, NEW want, NEW L,
         IsSeqOf(page, 5, L), IsSeqOf(want, 5, L)
  PROVE  Slot(EmptyAxes.wantH, EmptyTransitionSubject(prevH, page, wantH, want))
           = Atom(wantH)
<1> DEFINE S == L \cup {prevH, wantH}
           T == {Atom(x) : x \in S}
           hd == <<prevH>>
           mid == <<wantH>>
           one == hd \o page
           two == one \o mid
           numbers == two \o want
           nouns == Atoms(numbers)
<1>1. IsSeqOf(page, 5, S) /\ IsSeqOf(want, 5, S)
  BY Widened
<1>2. IsSeqOf(hd, 1, S) /\ IsSeqOf(mid, 1, S) /\ At(mid, 1) = wantH
  BY Short
<1> HIDE DEF S, hd, mid
<1>3. IsSeqOf(one, 6, S)
  BY <1>1, <1>2, Joined
<1> HIDE DEF one
<1>4. IsSeqOf(two, 7, S) /\ At(two, 7) = wantH
  BY <1>2, <1>3, Joined, JoinedAt
<1> HIDE DEF two
<1>5. IsSeqOf(numbers, 12, S) /\ At(numbers, 7) = wantH
  BY <1>1, <1>4, Joined, JoinedAt
<1> HIDE DEF numbers
<1>6. IsSeqOf(nouns, 12, T) /\ At(nouns, 7) = Atom(wantH)
  <2>1. /\ IsSeqOf(nouns, 12, T)
        /\ \A i \in Nat : 1 <= i /\ i <= 12 => At(nouns, i) = Atom(At(numbers, i))
    BY <1>5, AtomsOf
  <2> HIDE DEF nouns, T
  <2> QED
    BY <1>5, <2>1
<1> HIDE DEF nouns, T
<1>7. Slot(254, Tuple(nouns)) = Atom(wantH)
  <2>1. DOMAIN nouns = 1 .. 12 /\ Len(nouns) = 12 /\ 12 \in Nat /\ 12 >= 10
    BY <1>6 DEF IsSeqOf
  <2> QED
    BY <1>6, <2>1, TupleSlots, ZenonT(60)
<1>8. EmptyAxes.wantH = 254
  <2>1. 2 ^ 8 = 256
    BY SMT
  <2> QED
    BY <2>1 DEF EmptyAxes, SlotAxis
<1> QED
  BY <1>7, <1>8 DEF EmptyTransitionSubject, nouns, numbers, two, one, hd, mid

(* ... and those the full one reads are what their names say, whatever the *)
(* limbs, the block proof and the wanted height are.                       *)
LEMMA FullSubjectSlots ==
  ASSUME NEW proofLen, NEW prevH, NEW page, NEW accTag, NEW candTag, NEW block,
         NEW wantH, NEW want, NEW L, IsSeqOf(page, 5, L), IsSeqOf(want, 5, L)
  PROVE  LET s == FullTransitionSubject(proofLen, prevH, page, accTag, candTag,
                                        block, wantH, want)
         IN  /\ Slot(FullAxes.proofLen, s) = Atom(proofLen)
             /\ Slot(FullAxes.prevH, s) = Atom(prevH)
             /\ Slot(FullAxes.accTag, s) = Atom(accTag)
             /\ Slot(FullAxes.candTag, s) = Atom(candTag)
<1> DEFINE S == L \cup {proofLen, prevH, accTag, candTag, wantH}
           T == {Atom(x) : x \in S}
           N == T \cup {block}
           hd == <<proofLen, prevH>>
           tags == <<accTag, candTag>>
           mid == <<block>>
           wanted == <<wantH>>
           first == hd \o page
           front == first \o tags
           back  == wanted \o want
           firsts == Atoms(front)
           lasts == Atoms(back)
           most  == firsts \o mid
           nouns == most \o lasts
<1>1. IsSeqOf(page, 5, S) /\ IsSeqOf(want, 5, S)
  BY Widened
<1>2. /\ IsSeqOf(hd, 2, S) /\ At(hd, 1) = proofLen /\ At(hd, 2) = prevH
      /\ IsSeqOf(tags, 2, S) /\ At(tags, 1) = accTag /\ At(tags, 2) = candTag
      /\ IsSeqOf(wanted, 1, S)
  <2>0. {proofLen, prevH, accTag, candTag, wantH} \subseteq S
    OBVIOUS
  <2> HIDE DEF S
  <2>1. IsSeqOf(hd, 2, S) /\ At(hd, 1) = proofLen /\ At(hd, 2) = prevH
    BY <2>0, Short
  <2>2. IsSeqOf(tags, 2, S) /\ At(tags, 1) = accTag /\ At(tags, 2) = candTag
    BY <2>0, Short
  <2>3. IsSeqOf(wanted, 1, S)
    BY <2>0, Short
  <2> QED
    BY <2>1, <2>2, <2>3
<1>3. IsSeqOf(mid, 1, N)
  BY Short
<1> HIDE DEF S, hd, tags, mid, wanted
<1>4. IsSeqOf(first, 7, S) /\ At(first, 1) = proofLen /\ At(first, 2) = prevH
  BY <1>1, <1>2, Joined, JoinedAt
<1> HIDE DEF first
<1>5. /\ IsSeqOf(front, 9, S)
      /\ At(front, 1) = proofLen /\ At(front, 2) = prevH
      /\ At(front, 8) = accTag /\ At(front, 9) = candTag
  BY <1>2, <1>4, Joined, JoinedAt
<1>6. IsSeqOf(back, 6, S)
  BY <1>1, <1>2, Joined
<1> HIDE DEF front, back
<1>7. /\ IsSeqOf(firsts, 9, T) /\ IsSeqOf(lasts, 6, T)
      /\ At(firsts, 1) = Atom(proofLen) /\ At(firsts, 2) = Atom(prevH)
      /\ At(firsts, 8) = Atom(accTag) /\ At(firsts, 9) = Atom(candTag)
  <2>1. IsSeqOf(lasts, 6, T)
    BY <1>6, AtomsOf
  <2>2. /\ IsSeqOf(firsts, 9, T)
        /\ \A i \in Nat : 1 <= i /\ i <= 9 => At(firsts, i) = Atom(At(front, i))
    BY <1>5, AtomsOf
  <2> HIDE DEF firsts, lasts, T
  <2> QED
    BY <1>5, <2>1, <2>2
<1>8. T \subseteq N
  OBVIOUS
<1> HIDE DEF firsts, lasts, N, T
<1>9. IsSeqOf(firsts, 9, N) /\ IsSeqOf(lasts, 6, N)
  BY <1>7, <1>8, Widened
<1>10. /\ IsSeqOf(most, 10, N)
       /\ At(most, 1) = Atom(proofLen) /\ At(most, 2) = Atom(prevH)
       /\ At(most, 8) = Atom(accTag) /\ At(most, 9) = Atom(candTag)
  BY <1>3, <1>7, <1>9, Joined, JoinedAt
<1> HIDE DEF most
<1>11. /\ IsSeqOf(nouns, 16, N)
       /\ At(nouns, 1) = Atom(proofLen) /\ At(nouns, 2) = Atom(prevH)
       /\ At(nouns, 8) = Atom(accTag) /\ At(nouns, 9) = Atom(candTag)
  BY <1>9, <1>10, Joined, JoinedAt
<1> HIDE DEF nouns
<1>12. LET s == Tuple(nouns)
       IN  /\ Slot(2, s) = Atom(proofLen) /\ Slot(6, s) = Atom(prevH)
           /\ Slot(510, s) = Atom(accTag) /\ Slot(1022, s) = Atom(candTag)
  <2>1. DOMAIN nouns = 1 .. 16 /\ Len(nouns) = 16 /\ 16 \in Nat /\ 16 >= 10
    BY <1>11 DEF IsSeqOf
  <2>2. Slot(2, Tuple(nouns)) = At(nouns, 1)
    BY <2>1, TupleSlots, ZenonT(60)
  <2>3. Slot(6, Tuple(nouns)) = At(nouns, 2)
    BY <2>1, TupleSlots, ZenonT(60)
  <2>4. Slot(510, Tuple(nouns)) = At(nouns, 8)
    BY <2>1, TupleSlots, ZenonT(60)
  <2>5. Slot(1022, Tuple(nouns)) = At(nouns, 9)
    BY <2>1, TupleSlots, ZenonT(60)
  <2> QED
    BY <1>11, <2>2, <2>3, <2>4, <2>5
<1>13. /\ FullAxes.proofLen = 2 /\ FullAxes.prevH = 6
       /\ FullAxes.accTag = 510 /\ FullAxes.candTag = 1022
  <2>1. 2 ^ 2 = 4 /\ 2 ^ 3 = 8 /\ 2 ^ 9 = 512 /\ 2 ^ 10 = 1024
    BY SMT
  <2> QED
    BY <2>1 DEF FullAxes, SlotAxis
<1> QED
  BY <1>12, <1>13 DEF FullTransitionSubject, nouns, most, firsts, lasts,
                      back, front, first, hd, tags, mid, wanted

-----------------------------------------------------------------------------
(* What the two formulas say. *)
LEMMA GenesisSays ==
  ASSUME NEW s, NEW x, NEW y, NEW z, NEW g,
         Slot(2, s) = Atom(x), Slot(6, s) = Atom(y), Slot(7, s) = Atom(z)
  PROVE  Product(s, GenesisTraceFormula(g))
           = Verdict(x # 0 /\ y = g /\ z = 0)
<1> DEFINE p == TraceNonzero(2)
           q == TraceEq(TracePick(6), TraceLit(g))
           r == TraceEq(TracePick(7), TraceLit(0))
<1>1. GenesisTraceFormula(g) = TraceAnd(p, TraceAnd(q, r))
  BY CompileThree DEF GenesisTraceFormula, GenesisAxes
<1>2. Says(s, p, Verdict(x # 0)) /\ Finite(p)
  BY SaysNonzero, TestsAreFinite
<1>3. Says(s, q, Verdict(y = g)) /\ Finite(q)
  BY SaysEqual, TestsAreFinite
<1>4. Says(s, r, Verdict(z = 0)) /\ Finite(r)
  BY SaysEqual, TestsAreFinite
<1> HIDE DEF p, q, r
<1>5. /\ Says(s, TraceAnd(q, r), Verdict(y = g /\ z = 0))
      /\ Finite(TraceAnd(q, r))
  BY <1>3, <1>4, SaysAnd, TestsAreFinite
<1>6. /\ Says(s, TraceAnd(p, TraceAnd(q, r)), Verdict(x # 0 /\ y = g /\ z = 0))
      /\ Finite(TraceAnd(p, TraceAnd(q, r)))
  BY <1>2, <1>5, SaysAnd, TestsAreFinite
<1> QED
  BY <1>1, <1>6, SaysProduct

LEMMA FullSays ==
  ASSUME NEW s, NEW len, NEW h, NEW accTag, NEW candTag, NEW prevH,
         Slot(FullAxes.proofLen, s) = Atom(len), Slot(FullAxes.prevH, s) = Atom(h),
         Slot(FullAxes.accTag, s) = Atom(accTag),
         Slot(FullAxes.candTag, s) = Atom(candTag)
  PROVE  Product(s, TransitionTraceFormulaFull(prevH))
           = IF len # 0 /\ h = prevH /\ (candTag = 0 \/ candTag # accTag)
             THEN Yes ELSE No
<1> DEFINE p == TraceNonzero(FullAxes.proofLen)
           q == TraceEq(TracePick(FullAxes.prevH), TraceLit(prevH))
           r == TraceFww(FullAxes.candTag, FullAxes.accTag)
<1>1. TransitionTraceFormulaFull(prevH) = TraceAnd(p, TraceAnd(q, r))
  BY CompileThree DEF TransitionTraceFormulaFull
<1>2. Says(s, p, Verdict(len # 0)) /\ Finite(p)
  BY SaysNonzero, TestsAreFinite
<1>3. Says(s, q, Verdict(h = prevH)) /\ Finite(q)
  BY SaysEqual, TestsAreFinite
<1> HIDE DEF p, q, r
<1>4. Says(s, r, Verdict(candTag = 0 \/ candTag # accTag)) /\ Finite(r)
  BY SaysFww, TestsAreFinite DEF r
<1>5. /\ Says(s, TraceAnd(q, r),
              Verdict(h = prevH /\ (candTag = 0 \/ candTag # accTag)))
      /\ Finite(TraceAnd(q, r))
  BY <1>3, <1>4, SaysAnd, TestsAreFinite
<1>6. /\ Says(s, TraceAnd(p, TraceAnd(q, r)),
              Verdict(len # 0 /\ (h = prevH /\ (candTag = 0 \/ candTag # accTag))))
      /\ Finite(TraceAnd(p, TraceAnd(q, r)))
  BY <1>2, <1>5, SaysAnd, TestsAreFinite
<1> QED
  BY <1>1, <1>6, SaysProduct DEF Verdict

-----------------------------------------------------------------------------
(* For every registry, not only the reachable ones.                        *)
LEMMA GenesisTraceHolds ==
  ASSUME TypeOK
  PROVE  GenesisTraceIsSpec
<1> SUFFICES ASSUME NEW h \in GenesisHeight - 1 .. GenesisHeight + 1,
                    NEW d \in Digest
             PROVE  DryRun(BuildGenesisRecursiveInputs(h, d))
                      = IF GenesisRecursiveFormula(
                             EnsureGenesisTld(accumulator), h, d)
                        THEN Yes ELSE No
  BY DEF GenesisTraceIsSpec
<1> DEFINE s == Cell(Atom(1), Cell(Atom(h), Atom(DigestAtom[d])))
<1>1. DryRun(BuildGenesisRecursiveInputs(h, d))
        = Product(s, GenesisTraceFormula(GenesisHeight))
  BY DEF DryRun, BuildGenesisRecursiveInputs
<1>2. /\ Slot(2, s) = Atom(1) /\ Slot(6, s) = Atom(h)
      /\ Slot(7, s) = Atom(DigestAtom[d])
  BY GenesisSlots
<1> HIDE DEF s
<1>3. Product(s, GenesisTraceFormula(GenesisHeight))
        = Verdict(1 # 0 /\ h = GenesisHeight /\ DigestAtom[d] = 0)
  BY <1>2, GenesisSays
<1>4. HasRow(EnsureGenesisTld(accumulator), Tld)
  BY EnsureGenesisTldProperties DEF TypeOK, HasRow
<1>5. DigestAtom[d] = 0 <=> d = ZeroDigest
  BY RecursiveStepAssumption
<1> QED
  BY <1>1, <1>3, <1>4, <1>5 DEF Verdict, GenesisRecursiveFormula

(* The tag of the candidate is that of no other name, and is not zero.     *)
LEMMA TransitionTraceHolds ==
  ASSUME TypeOK
  PROVE  TransitionTraceFollowsSpec
<1> SUFFICES ASSUME NEW b \in Transitions, NEW p \in PrevProofs,
                    NEW tag \in AccListHeadKey(accumulator)
             PROVE  LET product == DryRun(BuildRecursiveTransitionInputs(p, tag, b))
                        spec    == TransitionSpec(p, b, PrevHeight + 1, b.digest)
                    IN  /\ product \in {Yes, No}
                        /\ b.claims = <<>> => product = Yes
                        /\ b.claims # <<>> =>
                             /\ spec /\ ~HasRow(accumulator, b.claims[1].name)
                                  => product = Yes
                             /\ product = Yes =>
                                  spec /\ tag # KeyLimb[b.claims[1].name]
  BY DEF TransitionTraceFollowsSpec
<1> DEFINE page == Limbs(DigestAtom[b.digest])
           want == PrevHeight + 1
           product == DryRun(BuildRecursiveTransitionInputs(p, tag, b))
           spec == TransitionSpec(p, b, PrevHeight + 1, b.digest)
<1>1. PICK L : IsSeqOf(page, 5, L)
  BY LimbsAre
<1>2. PrevHeight \in Nat /\ PrevHeight > 0
  BY AccumulatorAssumption DEF TypeOK, PrevHeight
<1> HIDE DEF page
<1>3. CASE b.claims = <<>>
  <2> DEFINE s == EmptyTransitionSubject(PrevHeight, page, want, page)
             g == TransitionTraceFormulaEmpty(want)
  <2>1. product = Product(s, g)
    BY <1>3 DEF DryRun, BuildRecursiveTransitionInputs, page
  <2>2. Slot(EmptyAxes.wantH, s) = Atom(want)
    BY <1>1, EmptySubjectSlot
  <2> HIDE DEF s, want
  <2>3. Says(s, g, Verdict(want = want)) /\ Finite(g)
    BY <2>2, SaysEqual, TestsAreFinite DEF TransitionTraceFormulaEmpty
  <2>4. Product(s, g) = Yes
    BY <2>3, SaysProduct DEF Verdict
  <2> QED
    BY <1>3, <2>1, <2>4
<1>4. CASE b.claims # <<>>
  <2> DEFINE name == b.claims[1].name
             key == KeyLimb[name]
             len == ProofLen(p)
             s == FullTransitionSubject(len, PrevHeight, page, tag, key,
                                        Atom(0), want, page)
             g == TransitionTraceFormulaFull(PrevHeight)
             free == key = 0 \/ key # tag
  <2>1. product = Product(s, g)
    BY <1>4 DEF DryRun, BuildRecursiveTransitionInputs, page
  <2>2. /\ Slot(FullAxes.proofLen, s) = Atom(len)
        /\ Slot(FullAxes.prevH, s) = Atom(PrevHeight)
        /\ Slot(FullAxes.accTag, s) = Atom(tag)
        /\ Slot(FullAxes.candTag, s) = Atom(key)
    BY <1>1, FullSubjectSlots
  <2> HIDE DEF s, key, len
  <2>3. Product(s, g) = IF len # 0 /\ free THEN Yes ELSE No
    BY <2>2, FullSays
  <2>4. spec <=> len # 0
    BY <1>2 DEF TransitionSpec, PrevProofOkSpec, ProofLen, len
  <2>5. name \in Name
    <3>1. b.claims \in Seq(Claim) /\ b.claims # <<>>
      BY <1>4, ScanInputAssumption DEF Transitions, ScanPayload
    <3>2. b.claims[1] \in Claim
      BY <3>1
    <3> QED
      BY <3>2 DEF Claim
  <2>6. key # 0
    BY <2>5, RecursiveStepAssumption DEF key
  <2>7. ~HasRow(accumulator, name) => key # tag
    <3>1. CASE accumulator = EmptyAccumulator
      BY <2>6, <3>1 DEF AccListHeadKey
    <3>2. CASE accumulator # EmptyAccumulator
      <4>1. PICK n \in DOMAIN accumulator : tag = KeyLimb[n]
        BY <3>2 DEF AccListHeadKey
      <4>2. n \in Name
        BY <4>1 DEF TypeOK, IsAccumulator
      <4> QED
        BY <2>5, <4>1, <4>2, RecursiveStepAssumption DEF key, HasRow
    <3> QED
      BY <3>1, <3>2
  <2>8. product = IF spec /\ free THEN Yes ELSE No
    BY <2>1, <2>3, <2>4
  <2> HIDE DEF product, spec
  <2>9. /\ product \in {Yes, No}
        /\ spec /\ ~HasRow(accumulator, name) => product = Yes
        /\ product = Yes => spec /\ tag # key
    BY <2>6, <2>7, <2>8, Verdicts
  <2> QED
    BY <1>4, <2>9 DEF product, spec, key
<1> QED
  BY <1>3, <1>4

(* For every registry the kernel reaches, every digest and the heights     *)
(* about the genesis height, the genesis formula runs to a verdict, and    *)
(* the verdict is that of the host's specification (genesis-trace-formula  *)
(* against genesis-recursive-formula).                                     *)
THEOREM GenesisTraceFollows == Spec => []GenesisTraceIsSpec
<1>1. TypeOK => GenesisTraceIsSpec
  BY GenesisTraceHolds
<1> QED
  BY <1>1, TypeCorrect, PTL

(* In every state, for every block with at most one claim and any previous *)
(* proof, the transition formula runs to a verdict on the subject built    *)
(* for it; it accepts a block without claims and a claim on a free name    *)
(* that the host's specification accepts, and no claim without a previous  *)
(* proof or on the name at the head of the rows (transition-trace-formula- *)
(* full against transition-spec).                                          *)
THEOREM TransitionTraceFollows == Spec => []TransitionTraceFollowsSpec
<1>1. TypeOK => TransitionTraceFollowsSpec
  BY TransitionTraceHolds
<1> QED
  BY <1>1, TypeCorrect, PTL
=============================================================================
