------------------------ MODULE ClaimExtractionProofs ------------------------
(***************************************************************************)
(* Proofs about the claims a block yields, for every set of transactions,  *)
(* every list of them and every run of the fetch.                          *)
(***************************************************************************)
EXTENDS ClaimExtraction, FiniteSetTheorems, SequenceTheorems, TLAPS

(* The three loops: over the outputs of a transaction for its claims, over *)
(* the transactions of a block, over the outputs for the payment; and the  *)
(* payment without its bound.                                              *)
Outs == INSTANCE FoldFacts WITH
          Op <- LAMBDA tx, cs, out : PushClaim(tx, cs, out)
Txs  == INSTANCE FoldFacts WITH
          Op <- LAMBDA p, cs, tx : ExtendClaims(cs, tx)
Pays == INSTANCE FoldFacts WITH
          Op <- LAMBDA p, sum, out : AddOutput(sum, out)
Adds == INSTANCE FoldFacts WITH
          Op <- LAMBDA p, sum, out : AddPaid(sum, out)

LEMMA ExtractFromTransactionIsFold ==
  ASSUME NEW tx
  PROVE  ExtractFromTransaction(tx) = Outs!Fold(tx, <<>>, tx.outputs)
BY DEF ExtractFromTransaction, FoldLeft, MapThenFoldSet, Max,
       Outs!Fold, Outs!FoldLeft, Outs!MapThenFoldSet, Outs!Max

LEMMA ExtractClaimsIsFold ==
  ASSUME NEW txs
  PROVE  ExtractClaims(txs) = Txs!Fold(0, <<>>, txs)
BY DEF ExtractClaims, FoldLeft, MapThenFoldSet, Max,
       Txs!Fold, Txs!FoldLeft, Txs!MapThenFoldSet, Txs!Max

LEMMA TreasurySumIsFold ==
  ASSUME NEW tx
  PROVE  TreasurySum(tx) = Pays!Fold(0, 0, tx.outputs)
BY DEF TreasurySum, FoldLeft, MapThenFoldSet, Max,
       Pays!Fold, Pays!FoldLeft, Pays!MapThenFoldSet, Pays!Max

LEMMA PaidIsFold ==
  ASSUME NEW tx
  PROVE  Paid(tx) = Adds!Fold(0, 0, tx.outputs)
BY DEF Paid, FoldLeft, MapThenFoldSet, Max,
       Adds!Fold, Adds!FoldLeft, Adds!MapThenFoldSet, Adds!Max

-----------------------------------------------------------------------------
(* The list cs holds the claims at the positions ps, each once, in order.  *)
IsListing(order, n, cs, ps) ==
  /\ order \in [1 .. n -> ps]
  /\ \A p \in ps : \E i \in 1 .. n : order[i] = p
  /\ \A i, j \in 1 .. n : i < j => EarlierClaim(order[i], order[j])
  /\ cs = [i \in 1 .. n |-> ClaimAt(order[i])]

ListsClaims(cs, ps) == \E n \in Nat : \E order : IsListing(order, n, cs, ps)

LEMMA NoClaims == ListsClaims(<<>>, {})
<1> DEFINE order == [i \in 1 .. 0 |-> 0]
<1>1. IsListing(order, 0, <<>>, {})
  <2>1. order \in [1 .. 0 -> {}] /\ <<>> = [i \in 1 .. 0 |-> ClaimAt(order[i])]
    OBVIOUS
  <2> QED
    BY <2>1 DEF IsListing
<1> QED
  BY <1>1 DEF ListsClaims

(* Two lists, all of the first before all of the second, joined.           *)
LEMMA MoreClaims ==
  ASSUME NEW cs, NEW ps, ListsClaims(cs, ps),
         NEW ds, NEW qs, ListsClaims(ds, qs),
         \A p \in ps, q \in qs : EarlierClaim(p, q)
  PROVE  ListsClaims(cs \o ds, ps \cup qs)
<1> PICK m \in Nat : \E a : IsListing(a, m, cs, ps)
  BY DEF ListsClaims
<1>1. PICK a : IsListing(a, m, cs, ps)
  OBVIOUS
<1> PICK n \in Nat : \E b : IsListing(b, n, ds, qs)
  BY DEF ListsClaims
<1>2. PICK b : IsListing(b, n, ds, qs)
  OBVIOUS
<1> DEFINE order == [i \in 1 .. m + n |-> IF i <= m THEN a[i] ELSE b[i - m]]
<1>3. \A i \in 1 .. m + n : i <= m => i \in 1 .. m
  OBVIOUS
<1>4. \A i \in 1 .. m + n : ~(i <= m) => i - m \in 1 .. n
  OBVIOUS
<1>5. /\ \A i \in 1 .. m : a[i] \in ps
      /\ \A i \in 1 .. n : b[i] \in qs
  BY <1>1, <1>2 DEF IsListing
<1>6. order \in [1 .. m + n -> ps \cup qs]
  BY <1>3, <1>4, <1>5
<1>7. ASSUME NEW p \in ps \cup qs
      PROVE  \E i \in 1 .. m + n : order[i] = p
  <2>1. CASE p \in ps
    <3>1. PICK i \in 1 .. m : a[i] = p
      BY <1>1, <2>1 DEF IsListing
    <3>2. i \in 1 .. m + n /\ i <= m
      OBVIOUS
    <3> QED
      BY <3>1, <3>2
  <2>2. CASE p \in qs
    <3>1. PICK i \in 1 .. n : b[i] = p
      BY <1>2, <2>2 DEF IsListing
    <3>2. i + m \in 1 .. m + n /\ ~(i + m <= m) /\ (i + m) - m = i
      OBVIOUS
    <3>3. order[i + m] = p
      BY <3>1, <3>2
    <3> QED
      BY <3>2, <3>3
  <2> QED
    BY <2>1, <2>2
<1>8. ASSUME NEW i \in 1 .. m + n, NEW j \in 1 .. m + n, i < j
      PROVE  EarlierClaim(order[i], order[j])
  <2>1. CASE j <= m
    <3>1. i \in 1 .. m /\ j \in 1 .. m
      BY <1>8, <2>1
    <3>2. EarlierClaim(a[i], a[j])
      BY <1>1, <1>8, <3>1 DEF IsListing
    <3> QED
      BY <2>1, <3>1, <3>2
  <2>2. CASE ~(i <= m)
    <3>1. i - m \in 1 .. n /\ j - m \in 1 .. n /\ i - m < j - m /\ ~(j <= m)
      BY <1>8, <2>2
    <3>2. EarlierClaim(b[i - m], b[j - m])
      BY <1>2, <3>1 DEF IsListing
    <3> QED
      BY <2>2, <3>1, <3>2
  <2>3. CASE i <= m /\ ~(j <= m)
    <3>1. i \in 1 .. m /\ j - m \in 1 .. n
      BY <2>3
    <3>2. EarlierClaim(a[i], b[j - m])
      BY <1>5, <3>1
    <3> QED
      BY <2>3, <3>2
  <2> QED
    BY <2>1, <2>2, <2>3
<1>9. cs \o ds = [i \in 1 .. m + n |-> ClaimAt(order[i])]
  <2>1. /\ cs = [i \in 1 .. m |-> ClaimAt(a[i])]
        /\ ds = [i \in 1 .. n |-> ClaimAt(b[i])]
    BY <1>1, <1>2 DEF IsListing
  <2>2. Len(cs) = m /\ Len(ds) = n
    BY <2>1
  <2>3. cs \o ds = [i \in 1 .. m + n |-> IF i <= m THEN cs[i] ELSE ds[i - m]]
    BY <2>1, <2>2
  <2>4. ASSUME NEW i \in 1 .. m + n
        PROVE  (IF i <= m THEN cs[i] ELSE ds[i - m]) = ClaimAt(order[i])
    BY <1>3, <1>4, <2>1
  <2> HIDE DEF order
  <2> QED
    BY <2>3, <2>4
<1>10. IsListing(order, m + n, cs \o ds, ps \cup qs)
  <2> HIDE DEF order
  <2> QED
    BY <1>6, <1>7, <1>8, <1>9 DEF IsListing
<1> QED
  BY <1>10 DEF ListsClaims

LEMMA OneClaim ==
  ASSUME NEW tx, NEW o
  PROVE  ListsClaims(<<ClaimOf(tx, tx.outputs[o])>>, {<<tx, o>>})
<1> DEFINE order == [i \in 1 .. 1 |-> <<tx, o>>]
           c == ClaimOf(tx, tx.outputs[o])
<1>1. ClaimAt(<<tx, o>>) = c
  BY DEF ClaimAt
<1> HIDE DEF c
<1>2. <<c>> = [i \in 1 .. 1 |-> ClaimAt(order[i])]
  BY <1>1
<1>3. IsListing(order, 1, <<c>>, {<<tx, o>>})
  BY <1>2 DEF IsListing
<1> QED
  BY <1>3 DEF ListsClaims, c

LEMMA ListingIsSeq ==
  ASSUME NEW cs, NEW ps, ListsClaims(cs, ps)
  PROVE  cs \in Seq({ClaimAt(p) : p \in ps})
<1> PICK n \in Nat : \E order : IsListing(order, n, cs, ps)
  BY DEF ListsClaims
<1>1. PICK order : IsListing(order, n, cs, ps)
  OBVIOUS
<1>2. cs = [i \in 1 .. n |-> ClaimAt(order[i])]
      /\ \A i \in 1 .. n : order[i] \in ps
  BY <1>1 DEF IsListing
<1> QED
  BY <1>2, IsASeq

(* The claims of one transaction. *)
ClaimsAmong(tx, k) ==
  {<<tx, o>> : o \in {o \in 1 .. k : YieldsClaim(tx, tx.outputs[o])}}

LEMMA PushedClaim ==
  ASSUME NEW tx, NEW k \in Nat, NEW cs, ListsClaims(cs, ClaimsAmong(tx, k))
  PROVE  ListsClaims(PushClaim(tx, cs, tx.outputs[k + 1]),
                     ClaimsAmong(tx, k + 1))
<1>1. CASE ~YieldsClaim(tx, tx.outputs[k + 1])
  <2>1. {o \in 1 .. k + 1 : YieldsClaim(tx, tx.outputs[o])}
          = {o \in 1 .. k : YieldsClaim(tx, tx.outputs[o])}
    BY <1>1
  <2> QED
    BY <1>1, <2>1 DEF PushClaim, ClaimsAmong
<1>2. CASE YieldsClaim(tx, tx.outputs[k + 1])
  <2> DEFINE c == ClaimOf(tx, tx.outputs[k + 1])
  <2>1. {o \in 1 .. k + 1 : YieldsClaim(tx, tx.outputs[o])}
          = {o \in 1 .. k : YieldsClaim(tx, tx.outputs[o])} \cup {k + 1}
    BY <1>2
  <2>2. ClaimsAmong(tx, k + 1) = ClaimsAmong(tx, k) \cup {<<tx, k + 1>>}
    BY <2>1 DEF ClaimsAmong
  <2>3. \A p \in ClaimsAmong(tx, k), q \in {<<tx, k + 1>>} : EarlierClaim(p, q)
    BY DEF ClaimsAmong, EarlierClaim
  <2>4. ListsClaims(<<c>>, {<<tx, k + 1>>})
    BY OneClaim
  <2> HIDE DEF c
  <2>5. ListsClaims(cs \o <<c>>, ClaimsAmong(tx, k + 1))
    BY <2>2, <2>3, <2>4, MoreClaims
  <2>6. Append(cs, c) = cs \o <<c>>
    BY ListingIsSeq
  <2>7. PushClaim(tx, cs, tx.outputs[k + 1]) = Append(cs, c)
    BY <1>2 DEF PushClaim, c
  <2> QED
    BY <2>5, <2>6, <2>7
<1> QED
  BY <1>1, <1>2

LEMMA ClaimPositionsOne ==
  ASSUME NEW tx, NEW n, DOMAIN tx.outputs = 1 .. n
  PROVE  ClaimPositions({tx}) = ClaimsAmong(tx, n)
<1>1. ASSUME NEW p \in ClaimPositions({tx}) PROVE p \in ClaimsAmong(tx, n)
  <2>1. p \in {tx} \X (1 .. n) /\ YieldsClaim(p[1], p[1].outputs[p[2]])
    BY DEF ClaimPositions
  <2>2. PICK o \in 1 .. n : p = <<tx, o>>
    BY <2>1
  <2> QED
    BY <2>1, <2>2 DEF ClaimsAmong
<1>2. ASSUME NEW p \in ClaimsAmong(tx, n) PROVE p \in ClaimPositions({tx})
  <2>1. PICK o \in 1 .. n : p = <<tx, o>> /\ YieldsClaim(tx, tx.outputs[o])
    BY DEF ClaimsAmong
  <2>2. p[1] = tx /\ p[2] = o
    BY <2>1
  <2>3. p \in {tx} \X DOMAIN tx.outputs
    BY <2>1
  <2>4. p \in UNION {{t} \X DOMAIN t.outputs : t \in {tx}}
    BY <2>3
  <2> QED
    BY <2>1, <2>2, <2>4 DEF ClaimPositions
<1> QED
  BY <1>1, <1>2

LEMMA TransactionListed ==
  ASSUME NEW tx \in Tx
  PROVE  ListsClaims(ExtractFromTransaction(tx), ClaimPositions({tx}))
<1>1. PICK outs : outs = tx.outputs
  OBVIOUS
<1>2. PICK n \in Nat : DOMAIN outs = 1 .. n
  BY <1>1, TxAssumption
<1> DEFINE f == Outs!Run(tx, <<>>, outs, n)
<1>3. /\ f[0] = <<>>
      /\ \A i \in 1 .. n : f[i] = PushClaim(tx, f[i - 1], outs[i])
      /\ Outs!Fold(tx, <<>>, outs) = f[n]
  BY <1>2, Outs!FoldRun
<1> HIDE DEF f
<1> DEFINE S == {k \in Nat : k <= n => ListsClaims(f[k], ClaimsAmong(tx, k))}
<1>4. 0 \in S
  <2>1. ClaimsAmong(tx, 0) = {}
    BY DEF ClaimsAmong
  <2> QED
    BY <1>3, <2>1, NoClaims
<1>5. ASSUME NEW k \in Nat, k \in S PROVE k + 1 \in S
  <2> SUFFICES ASSUME k + 1 <= n
               PROVE  ListsClaims(f[k + 1], ClaimsAmong(tx, k + 1))
    OBVIOUS
  <2>1. k + 1 \in 1 .. n /\ (k + 1) - 1 = k /\ k <= n
    OBVIOUS
  <2>2. f[k + 1] = PushClaim(tx, f[k], tx.outputs[k + 1])
    BY <1>1, <1>3, <2>1
  <2>3. ListsClaims(f[k], ClaimsAmong(tx, k))
    BY <1>5, <2>1
  <2> QED
    BY <2>2, <2>3, PushedClaim
<1>6. n \in S
  <2> HIDE DEF S
  <2> QED
    BY <1>4, <1>5, Outs!NatInd
<1>7. ListsClaims(f[n], ClaimsAmong(tx, n))
  BY <1>6
<1>8. ClaimPositions({tx}) = ClaimsAmong(tx, n)
  BY <1>1, <1>2, ClaimPositionsOne
<1>9. ExtractFromTransaction(tx) = f[n]
  BY <1>1, <1>3, ExtractFromTransactionIsFold
<1> QED
  BY <1>7, <1>8, <1>9

(* The claims of a block. *)
TxSet(txs) == {txs[i] : i \in DOMAIN txs}

LEMMA ClaimPositionsUnion ==
  ASSUME NEW A, NEW B
  PROVE  ClaimPositions(A \cup B) = ClaimPositions(A) \cup ClaimPositions(B)
BY DEF ClaimPositions

LEMMA ClaimPositionIn ==
  ASSUME NEW A, NEW p \in ClaimPositions(A)
  PROVE  /\ p[1] \in A
         /\ p[2] \in DOMAIN p[1].outputs
         /\ p = <<p[1], p[2]>>
         /\ YieldsClaim(p[1], p[1].outputs[p[2]])
BY DEF ClaimPositions

LEMMA BlockListed ==
  ASSUME NEW txs \in Seq(Tx),
         \A i, j \in DOMAIN txs : i < j => ZRank[txs[i].id] < ZRank[txs[j].id]
  PROVE  ListsClaims(ExtractClaims(txs), ClaimPositions(TxSet(txs)))
<1>1. PICK n \in Nat : DOMAIN txs = 1 .. n
  OBVIOUS
<1>2. \A i \in 1 .. n : txs[i] \in Tx
  BY <1>1
<1> DEFINE f == Txs!Run(0, <<>>, txs, n)
           UpTo(k) == {txs[i] : i \in 1 .. k}
<1>3. /\ f[0] = <<>>
      /\ \A i \in 1 .. n : f[i] = ExtendClaims(f[i - 1], txs[i])
      /\ Txs!Fold(0, <<>>, txs) = f[n]
  BY <1>1, Txs!FoldRun
<1> HIDE DEF f
<1> DEFINE S == {k \in Nat : k <= n => ListsClaims(f[k], ClaimPositions(UpTo(k)))}
<1>4. 0 \in S
  <2>1. UpTo(0) = {}
    OBVIOUS
  <2>2. ClaimPositions({}) = {}
    BY DEF ClaimPositions
  <2> QED
    BY <1>3, <2>1, <2>2, NoClaims
<1>5. ASSUME NEW k \in Nat, k \in S PROVE k + 1 \in S
  <2> SUFFICES ASSUME k + 1 <= n
               PROVE  ListsClaims(f[k + 1], ClaimPositions(UpTo(k + 1)))
    OBVIOUS
  <2>1. k + 1 \in 1 .. n /\ (k + 1) - 1 = k /\ k <= n
    OBVIOUS
  <2>2. f[k + 1] = f[k] \o ExtractFromTransaction(txs[k + 1])
    BY <1>3, <2>1 DEF ExtendClaims
  <2>3. ListsClaims(f[k], ClaimPositions(UpTo(k)))
    BY <1>5, <2>1
  <2>4. ListsClaims(ExtractFromTransaction(txs[k + 1]),
                    ClaimPositions({txs[k + 1]}))
    BY <1>2, <2>1, TransactionListed
  <2>5. ASSUME NEW p \in ClaimPositions(UpTo(k)),
               NEW q \in ClaimPositions({txs[k + 1]})
        PROVE  EarlierClaim(p, q)
    <3>1. p[1] \in UpTo(k) /\ q[1] = txs[k + 1]
      <4> HIDE DEF UpTo
      <4> QED
        BY ClaimPositionIn
    <3>2. PICK i \in 1 .. k : p[1] = txs[i]
      BY <3>1
    <3>3. i \in DOMAIN txs /\ k + 1 \in DOMAIN txs /\ i < k + 1
      BY <1>1, <2>1
    <3>4. ZRank[txs[i].id] < ZRank[txs[k + 1].id]
      BY <3>3
    <3> QED
      BY <3>1, <3>2, <3>4 DEF EarlierClaim
  <2>6. UpTo(k + 1) = UpTo(k) \cup {txs[k + 1]}
    <3>1. 1 .. k + 1 = (1 .. k) \cup {k + 1}
      OBVIOUS
    <3> QED
      BY <3>1
  <2>7. ClaimPositions(UpTo(k + 1))
          = ClaimPositions(UpTo(k)) \cup ClaimPositions({txs[k + 1]})
    BY <2>6, ClaimPositionsUnion
  <2> HIDE DEF UpTo, S
  <2>8. ListsClaims(f[k] \o ExtractFromTransaction(txs[k + 1]),
                    ClaimPositions(UpTo(k)) \cup ClaimPositions({txs[k + 1]}))
    BY <2>3, <2>4, <2>5, MoreClaims
  <2> QED
    BY <2>2, <2>7, <2>8
<1>6. n \in S
  <2> HIDE DEF S
  <2> QED
    BY <1>4, <1>5, Outs!NatInd
<1>7. ListsClaims(f[n], ClaimPositions(UpTo(n)))
  BY <1>6
<1>8. UpTo(n) = TxSet(txs)
  BY <1>1 DEF TxSet
<1> HIDE DEF UpTo
<1> QED
  BY <1>3, <1>7, <1>8, ExtractClaimsIsFold

-----------------------------------------------------------------------------
(* The canonical order: the ids of a list of transactions can be put in    *)
(* the order of their ranks, by induction on the highest rank.             *)
IsOrder(ids, n, S) ==
  /\ ids \in [1 .. n -> S]
  /\ \A s \in S : \E i \in 1 .. n : ids[i] = s
  /\ \A i, j \in 1 .. n : i < j => ZRank[ids[i]] < ZRank[ids[j]]

HasOrder(S) == \E n \in Nat : \E ids : IsOrder(ids, n, S)

RankedBelow(S, k) == \A s \in S : ZRank[s] < k

LEMMA OrderByRank ==
  ASSUME NEW k \in Nat, NEW S \in SUBSET TxId, RankedBelow(S, k)
  PROVE  HasOrder(S)
<1> DEFINE T == {m \in Nat : \A R \in SUBSET TxId :
                   RankedBelow(R, m) => HasOrder(R)}
<1>1. \A s \in TxId : ZRank[s] \in Nat
  BY ZRankAssumption
<1>2. 0 \in T
  <2> SUFFICES ASSUME NEW R \in SUBSET TxId, RankedBelow(R, 0)
               PROVE  HasOrder(R)
    OBVIOUS
  <2>1. R = {}
    BY <1>1 DEF RankedBelow
  <2> DEFINE ids == [i \in 1 .. 0 |-> 0]
  <2>2. IsOrder(ids, 0, R)
    BY <2>1 DEF IsOrder
  <2> QED
    BY <2>2 DEF HasOrder
<1>3. ASSUME NEW m \in Nat, m \in T PROVE m + 1 \in T
  <2> SUFFICES ASSUME NEW R \in SUBSET TxId, RankedBelow(R, m + 1)
               PROVE  HasOrder(R)
    OBVIOUS
  <2> DEFINE Q == {s \in R : ZRank[s] < m}
  <2>1. HasOrder(Q)
    BY <1>3 DEF RankedBelow
  <2>2. CASE Q = R
    BY <2>1, <2>2
  <2>3. CASE Q # R
    <3>1. PICK t \in R : ~(ZRank[t] < m)
      BY <2>3
    <3>2. ZRank[t] = m
      BY <1>1, <3>1 DEF RankedBelow
    <3>3. ASSUME NEW s \in R, s \notin Q PROVE s = t
      <4>1. ZRank[s] = m
        BY <1>1, <3>3 DEF RankedBelow
      <4> QED
        BY <3>2, <4>1, ZRankAssumption
    <3>4. R = Q \cup {t} /\ t \notin Q
      BY <3>1, <3>3
    <3> PICK n \in Nat : \E ids : IsOrder(ids, n, Q)
      BY <2>1 DEF HasOrder
    <3>5. PICK ids : IsOrder(ids, n, Q)
      OBVIOUS
    <3> DEFINE more == [i \in 1 .. n + 1 |-> IF i = n + 1 THEN t ELSE ids[i]]
    <3>6. \A i \in 1 .. n + 1 : i # n + 1 => i \in 1 .. n
      OBVIOUS
    <3>7. \A i \in 1 .. n : ids[i] \in Q /\ ZRank[ids[i]] < m
      BY <3>5 DEF IsOrder
    <3>8. more \in [1 .. n + 1 -> R]
      BY <3>4, <3>6, <3>7
    <3>9. ASSUME NEW s \in R PROVE \E i \in 1 .. n + 1 : more[i] = s
      <4>1. CASE s = t
        BY <4>1
      <4>2. CASE s \in Q
        <5>1. PICK i \in 1 .. n : ids[i] = s
          BY <3>5, <4>2 DEF IsOrder
        <5>2. i \in 1 .. n + 1 /\ i # n + 1
          OBVIOUS
        <5> QED
          BY <5>1, <5>2
      <4> QED
        BY <3>4, <4>1, <4>2
    <3>10. ASSUME NEW i \in 1 .. n + 1, NEW j \in 1 .. n + 1, i < j
           PROVE  ZRank[more[i]] < ZRank[more[j]]
      <4>1. i # n + 1 /\ i \in 1 .. n
        BY <3>10
      <4>2. CASE j = n + 1
        BY <3>2, <3>7, <4>1, <4>2
      <4>3. CASE j # n + 1
        <5>1. j \in 1 .. n
          BY <4>3
        <5>2. ZRank[ids[i]] < ZRank[ids[j]]
          BY <3>5, <3>10, <4>1, <5>1 DEF IsOrder
        <5> QED
          BY <4>1, <4>3, <5>2
      <4> QED
        BY <4>2, <4>3
    <3>11. IsOrder(more, n + 1, R)
      <4> HIDE DEF more
      <4> QED
        BY <3>8, <3>9, <3>10 DEF IsOrder
    <3> QED
      BY <3>11 DEF HasOrder
  <2> QED
    BY <2>2, <2>3
<1>4. k \in T
  <2> HIDE DEF T
  <2> QED
    BY <1>2, <1>3, Outs!NatInd
<1> QED
  BY <1>4

IdsUpTo(txs, k) == {txs[i].id : i \in 1 .. k}

RanksBounded(txs, k) == \E top \in Nat : RankedBelow(IdsUpTo(txs, k), top)

LEMMA RankBound ==
  ASSUME NEW txs \in Seq(Tx)
  PROVE  \E top \in Nat : RankedBelow(TxIdsOf(txs), top)
<1>1. PICK n \in Nat : DOMAIN txs = 1 .. n
  OBVIOUS
<1>2. \A i \in 1 .. n : txs[i].id \in TxId /\ ZRank[txs[i].id] \in Nat
  BY <1>1, TxAssumption, ZRankAssumption
<1> DEFINE S == {k \in Nat : k <= n => RanksBounded(txs, k)}
<1>3. 0 \in S
  BY DEF RanksBounded, RankedBelow, IdsUpTo
<1>4. ASSUME NEW k \in Nat, k \in S PROVE k + 1 \in S
  <2> SUFFICES ASSUME k + 1 <= n PROVE RanksBounded(txs, k + 1)
    OBVIOUS
  <2>1. RanksBounded(txs, k)
    BY <1>4
  <2>2. PICK top \in Nat : RankedBelow(IdsUpTo(txs, k), top)
    BY <2>1 DEF RanksBounded
  <2>3. k + 1 \in 1 .. n
    OBVIOUS
  <2>4. PICK r \in Nat : r = ZRank[txs[k + 1].id]
    BY <1>2, <2>3
  <2>5. PICK new \in Nat : new = top + r + 1
    OBVIOUS
  <2>6. ASSUME NEW s \in IdsUpTo(txs, k + 1) PROVE ZRank[s] < new
    <3>1. PICK i \in 1 .. k + 1 : s = txs[i].id
      BY DEF IdsUpTo
    <3>2. ZRank[s] \in Nat
      BY <1>2, <3>1
    <3>3. CASE i = k + 1
      BY <2>4, <2>5, <3>1, <3>3
    <3>4. CASE i # k + 1
      <4>1. i \in 1 .. k
        BY <3>4
      <4>2. ZRank[s] < top
        BY <2>2, <3>1, <4>1 DEF RankedBelow, IdsUpTo
      <4> QED
        BY <2>5, <3>2, <4>2
    <3> QED
      BY <3>3, <3>4
  <2>7. RankedBelow(IdsUpTo(txs, k + 1), new)
    BY <2>6 DEF RankedBelow
  <2> QED
    BY <2>7 DEF RanksBounded
<1>5. RanksBounded(txs, n)
  <2>1. n \in S
    <3> HIDE DEF S
    <3> QED
      BY <1>3, <1>4, Outs!NatInd
  <2> QED
    BY <2>1
<1>6. IdsUpTo(txs, n) = TxIdsOf(txs)
  BY <1>1 DEF TxIdsOf, IdsUpTo
<1> QED
  BY <1>5, <1>6 DEF RanksBounded

LEMMA OrderIsBijection ==
  ASSUME NEW S \in SUBSET TxId, NEW n \in Nat, NEW ids, IsOrder(ids, n, S)
  PROVE  /\ ids \in Bijection(1 .. n, S)
         /\ IsFiniteSet(S)
         /\ Cardinality(S) = n
<1>1. ids \in [1 .. n -> S] /\ \A s \in S : \E i \in 1 .. n : ids[i] = s
  BY DEF IsOrder
<1>2. \A i, j \in 1 .. n : i # j => ids[i] # ids[j]
  <2> SUFFICES ASSUME NEW i \in 1 .. n, NEW j \in 1 .. n, i < j
               PROVE  ids[i] # ids[j]
    OBVIOUS
  <2>1. ZRank[ids[i]] < ZRank[ids[j]]
    BY DEF IsOrder
  <2>2. ZRank[ids[i]] \in Nat
    BY <1>1, ZRankAssumption
  <2> QED
    BY <2>1, <2>2
<1>3. ids \in Bijection(1 .. n, S)
  BY <1>1, <1>2 DEF Bijection, Injection, Surjection, IsInjective
<1>4. ExistsBijection(1 .. n, S)
  BY <1>3 DEF ExistsBijection
<1> QED
  BY <1>3, <1>4, FS_CountingElements, FS_NatBijection

LEMMA CanonicalOrderIs ==
  ASSUME NEW txs \in Seq(Tx)
  PROVE  \E n \in Nat : IsOrder(CanonicalOrder(txs), n, TxIdsOf(txs))
<1> DEFINE S == TxIdsOf(txs)
<1>1. S \in SUBSET TxId
  BY TxAssumption DEF TxIdsOf
<1>2. HasOrder(S)
  BY <1>1, RankBound, OrderByRank
<1> HIDE DEF S
<1> PICK n \in Nat : \E ids : IsOrder(ids, n, S)
  BY <1>2 DEF HasOrder
<1>3. PICK ids : IsOrder(ids, n, S)
  OBVIOUS
<1>4. IsFiniteSet(S) /\ Cardinality(S) = n
  BY <1>1, <1>3, OrderIsBijection
<1>5. ids \in [1 .. n -> S] /\ IsCanonicalOrder(ids)
  BY <1>3 DEF IsOrder, IsCanonicalOrder
<1> DEFINE co == CanonicalOrder(txs)
<1>6. co \in [1 .. n -> S] /\ IsCanonicalOrder(co)
  BY <1>4, <1>5 DEF CanonicalOrder, S
<1> HIDE DEF co
<1>7. \A i, j \in 1 .. n : i < j => ZRank[co[i]] < ZRank[co[j]]
  BY <1>6 DEF IsCanonicalOrder
<1>8. \A i, j \in 1 .. n : i # j => co[i] # co[j]
  <2> SUFFICES ASSUME NEW i \in 1 .. n, NEW j \in 1 .. n, i < j
               PROVE  co[i] # co[j]
    OBVIOUS
  <2>1. ZRank[co[i]] \in Nat
    BY <1>1, <1>6, ZRankAssumption
  <2> QED
    BY <1>7, <2>1
<1>9. co \in Injection(1 .. n, S)
  BY <1>6, <1>8 DEF Injection, IsInjective
<1>10. IsFiniteSet(1 .. n) /\ Cardinality(1 .. n) = n
  BY FS_Interval
<1>11. co \in Surjection(1 .. n, S)
  BY <1>4, <1>9, <1>10, FS_Injection
<1>12. \A s \in S : \E i \in 1 .. n : co[i] = s
  BY <1>11 DEF Surjection
<1>13. IsOrder(co, n, S)
  BY <1>6, <1>7, <1>12 DEF IsOrder
<1> QED
  BY <1>13 DEF co, S

(* The details of a block in canonical order are the transactions the      *)
(* block lists, whichever tasks they came from.                            *)
LEMMA AlignedIs ==
  ASSUME NEW txs \in Seq(Tx), NEW ds, \A i \in DOMAIN ds : ds[i] \in Tx,
         NEW aligned, aligned = Align(CanonicalOrder(txs), ds),
         aligned # Nothing
  PROVE  /\ aligned \in Seq(Tx)
         /\ TxSet(aligned) = TxSet(txs)
         /\ \A i, j \in DOMAIN aligned :
              i < j => ZRank[aligned[i].id] < ZRank[aligned[j].id]
<1> DEFINE ids == CanonicalOrder(txs)
<1> PICK n \in Nat : IsOrder(ids, n, TxIdsOf(txs))
  BY CanonicalOrderIs
<1>1. /\ ids \in [1 .. n -> TxIdsOf(txs)]
      /\ \A s \in TxIdsOf(txs) : \E i \in 1 .. n : ids[i] = s
      /\ \A i, j \in 1 .. n : i < j => ZRank[ids[i]] < ZRank[ids[j]]
  BY DEF IsOrder
<1> HIDE DEF ids
<1>2. TxIdsOf(ds) = {ids[i] : i \in DOMAIN ids}
  BY DEF Align, ids
<1>3. aligned = [i \in DOMAIN ids |-> CHOOSE tx \in {ds[j] : j \in DOMAIN ds} :
                                         tx.id = ids[i]]
  BY <1>2 DEF Align, ids
<1>4. DOMAIN ids = 1 .. n /\ DOMAIN aligned = 1 .. n
  BY <1>1, <1>3
<1>5. ASSUME NEW i \in 1 .. n
      PROVE  aligned[i] \in Tx /\ aligned[i].id = ids[i]
  <2>1. ids[i] \in TxIdsOf(ds)
    BY <1>2, <1>4
  <2>2. \E tx \in {ds[j] : j \in DOMAIN ds} : tx.id = ids[i]
    BY <2>1 DEF TxIdsOf
  <2>3. aligned[i] = CHOOSE tx \in {ds[j] : j \in DOMAIN ds} : tx.id = ids[i]
    BY <1>3, <1>4
  <2>4. aligned[i] \in {ds[j] : j \in DOMAIN ds} /\ aligned[i].id = ids[i]
    BY <2>2, <2>3
  <2> QED
    BY <2>4
<1>6. aligned \in Seq(Tx)
  <2>1. aligned = [i \in 1 .. n |-> aligned[i]]
    BY <1>3, <1>4
  <2> QED
    BY <1>5, <2>1, IsASeq
<1>7. ASSUME NEW i \in 1 .. n PROVE aligned[i] \in TxSet(txs)
  <2>1. ids[i] \in TxIdsOf(txs)
    BY <1>1
  <2>2. PICK j \in DOMAIN txs : txs[j].id = ids[i]
    BY <2>1 DEF TxIdsOf
  <2>3. txs[j] \in Tx
    OBVIOUS
  <2>4. txs[j] = aligned[i]
    BY <1>5, <2>2, <2>3, TxAssumption
  <2> QED
    BY <2>4 DEF TxSet
<1>8. ASSUME NEW j \in DOMAIN txs PROVE txs[j] \in TxSet(aligned)
  <2>1. txs[j].id \in TxIdsOf(txs) /\ txs[j] \in Tx
    BY DEF TxIdsOf
  <2>2. PICK i \in 1 .. n : ids[i] = txs[j].id
    BY <1>1, <2>1
  <2>3. aligned[i] \in Tx /\ aligned[i].id = txs[j].id
    BY <1>5, <2>2
  <2>4. txs[j] = aligned[i]
    BY <2>1, <2>3, TxAssumption
  <2> QED
    BY <1>4, <2>4 DEF TxSet
<1>9. TxSet(aligned) = TxSet(txs)
  BY <1>4, <1>7, <1>8 DEF TxSet
<1>10. \A i, j \in DOMAIN aligned :
         i < j => ZRank[aligned[i].id] < ZRank[aligned[j].id]
  BY <1>1, <1>4, <1>5
<1> QED
  BY <1>6, <1>9, <1>10

-----------------------------------------------------------------------------
(* The inductive invariant of the fetch: every answer is a transaction,    *)
(* though perhaps of another task, and once the fetch is done the claims   *)
(* are those of the listed transactions, in order; before, there are none. *)
ListedOK == listed \in Seq(Tx)

DetailsOK == \A i \in DOMAIN details : details[i] \in Tx

ClaimsOK ==
  /\ result = "done" => ListsClaims(claims, ClaimPositions(TxSet(listed)))
  /\ result # "done" => claims = <<>>

IInv == ListedOK /\ DetailsOK /\ ClaimsOK

LEMMA InitEstablishes == Init => IInv
BY BlocksAssumption DEF Init, IInv, ListedOK, DetailsOK, ClaimsOK

LEMMA AnswerPreserves ==
  ASSUME IInv, NEW i, NEW tx \in Tx, AtWork(i), Answer(i, tx)
  PROVE  IInv'
<1>1. ListedOK'
  BY DEF IInv, ListedOK, Answer
<1>2. DetailsOK'
  BY DEF IInv, DetailsOK, Answer
<1>3. ClaimsOK'
  BY DEF IInv, ClaimsOK, Answer, AtWork
<1> QED
  BY <1>1, <1>2, <1>3 DEF IInv

LEMMA FinishPreserves ==
  ASSUME IInv, Finish
  PROVE  IInv'
<1>1. ListedOK' /\ DetailsOK'
  BY DEF IInv, ListedOK, DetailsOK, Finish
<1>2. claims = <<>>
  BY DEF IInv, ClaimsOK, Finish
<1> DEFINE aligned == Align(CanonicalOrder(listed), details)
<1>3. CASE HasDuplicate(listed) \/ aligned = Nothing
  <2>1. result' = "failed" /\ claims' = claims
    BY <1>3 DEF Finish
  <2> QED
    BY <1>1, <1>2, <2>1 DEF IInv, ClaimsOK
<1>4. CASE ~(HasDuplicate(listed) \/ aligned = Nothing)
  <2>1. result' = "done" /\ claims' = ExtractClaims(aligned) /\ listed' = listed
    BY <1>4 DEF Finish
  <2>2. PICK a : a = aligned
    OBVIOUS
  <2>3. /\ a \in Seq(Tx)
        /\ TxSet(a) = TxSet(listed)
        /\ \A i, j \in DOMAIN a : i < j => ZRank[a[i].id] < ZRank[a[j].id]
    BY <1>4, <2>2, AlignedIs DEF IInv, ListedOK, DetailsOK
  <2>4. ListsClaims(ExtractClaims(a), ClaimPositions(TxSet(a)))
    BY <2>3, BlockListed
  <2>5. ListsClaims(claims', ClaimPositions(TxSet(listed)))
    BY <2>1, <2>2, <2>3, <2>4
  <2>6. ClaimsOK'
    BY <2>1, <2>5 DEF ClaimsOK
  <2> QED
    BY <1>1, <2>6 DEF IInv
<1> QED
  BY <1>3, <1>4

LEMMA NextPreserves == IInv /\ [Next]_vars => IInv'
<1> SUFFICES ASSUME IInv, [Next]_vars PROVE IInv'
  OBVIOUS
<1>1. CASE NodeIndexes
  BY <1>1 DEF NodeIndexes, IInv, ListedOK, DetailsOK, ClaimsOK
<1>2. ASSUME NEW i \in DOMAIN listed, TxReady(i) PROVE IInv'
  <2>1. listed[i] \in Tx
    BY DEF IInv, ListedOK
  <2> QED
    BY <1>2, <2>1, AnswerPreserves DEF TxReady
<1>3. ASSUME NEW i \in DOMAIN listed, TxWrong(i) PROVE IInv'
  BY <1>3, AnswerPreserves DEF TxWrong
<1>4. ASSUME NEW i \in DOMAIN listed, TxPending(i) PROVE IInv'
  BY <1>4 DEF TxPending, AtWork, IInv, ListedOK, DetailsOK, ClaimsOK
<1>5. ASSUME NEW i \in DOMAIN listed, TxError(i) PROVE IInv'
  BY <1>5 DEF TxError, AtWork, IInv, ListedOK, DetailsOK, ClaimsOK
<1>6. CASE Finish
  BY <1>6, FinishPreserves
<1>7. CASE UNCHANGED vars
  BY <1>7 DEF vars, IInv, ListedOK, DetailsOK, ClaimsOK
<1> QED
  BY <1>1, <1>2, <1>3, <1>4, <1>5, <1>6, <1>7 DEF Next

(* Whatever answers came to whichever task, they are details of            *)
(* transactions, and once the fetch is done the claims are the list of     *)
(* all claims of the block (fetch_block_transaction_details).              *)
THEOREM Invariant == Spec => []IInv
<1>1. Init => IInv
  BY InitEstablishes
<1>2. IInv /\ [Next]_vars => IInv'
  BY NextPreserves
<1> QED
  BY <1>1, <1>2, PTL DEF Spec

-----------------------------------------------------------------------------
(* The claims and their order are a function of the block's set of         *)
(* transactions, whatever the order of the RPC, of the tasks, of retries   *)
(* and of stray answers (align_scan_block_fetch_tx_order).                 *)
THEOREM ClaimsCanonical == Spec => []ClaimsAreCanonical
<1>1. IInv => ClaimsAreCanonical
  <2> SUFFICES ASSUME IInv, result = "done"
               PROVE  LET ps == ClaimPositions(TxSet(listed))
                      IN  \E order \in [1 .. Cardinality(ps) -> ps] :
                            /\ \A i, j \in DOMAIN order :
                                 i < j => EarlierClaim(order[i], order[j])
                            /\ claims = [i \in DOMAIN order |-> ClaimAt(order[i])]
    BY DEF ClaimsAreCanonical, TxSet
  <2> DEFINE ps == ClaimPositions(TxSet(listed))
  <2>1. ListsClaims(claims, ps)
    BY DEF IInv, ClaimsOK
  <2>2. ASSUME NEW p \in ps PROVE ~EarlierClaim(p, p)
    <3>1. p[1] \in Tx /\ p[2] \in DOMAIN p[1].outputs
      BY ClaimPositionIn DEF TxSet, IInv, ListedOK
    <3>2. p[2] \in Nat /\ ZRank[p[1].id] \in Nat
      BY <3>1, TxAssumption, ZRankAssumption
    <3> QED
      BY <3>2 DEF EarlierClaim
  <2> HIDE DEF ps
  <2> PICK n \in Nat : \E order : IsListing(order, n, claims, ps)
    BY <2>1 DEF ListsClaims
  <2>3. PICK order : IsListing(order, n, claims, ps)
    OBVIOUS
  <2>4. /\ order \in [1 .. n -> ps]
        /\ \A p \in ps : \E i \in 1 .. n : order[i] = p
        /\ \A i, j \in 1 .. n : i < j => EarlierClaim(order[i], order[j])
        /\ claims = [i \in 1 .. n |-> ClaimAt(order[i])]
    BY <2>3 DEF IsListing
  <2>5. \A i, j \in 1 .. n : i # j => order[i] # order[j]
    <3> SUFFICES ASSUME NEW i \in 1 .. n, NEW j \in 1 .. n, i < j
                 PROVE  order[i] # order[j]
      OBVIOUS
    <3> QED
      BY <2>2, <2>4
  <2>6. order \in Bijection(1 .. n, ps)
    BY <2>4, <2>5 DEF Bijection, Injection, Surjection, IsInjective
  <2>7. Cardinality(ps) = n
    BY <2>6, FS_CountingElements DEF ExistsBijection
  <2>8. DOMAIN order = 1 .. n
    BY <2>4
  <2>9. \E o \in [1 .. Cardinality(ps) -> ps] :
          /\ \A i, j \in DOMAIN o : i < j => EarlierClaim(o[i], o[j])
          /\ claims = [i \in DOMAIN o |-> ClaimAt(o[i])]
    BY <2>4, <2>7, <2>8
  <2> QED
    BY <2>9 DEF ps
<1> QED
  BY <1>1, Invariant, PTL

(* Every claim comes from an eligible output of a listed transaction.      *)
LEMMA ClaimComesFrom ==
  ASSUME IInv, NEW i \in DOMAIN claims
  PROVE  \E t \in DOMAIN listed : \E out \in Range(listed[t].outputs) :
           /\ YieldsClaim(listed[t], out)
           /\ claims[i] = ClaimOf(listed[t], out)
<1> DEFINE ps == ClaimPositions(TxSet(listed))
<1>1. result = "done"
  <2>1. CASE result # "done"
    BY <2>1 DEF IInv, ClaimsOK
  <2> QED
    BY <2>1
<1>2. ListsClaims(claims, ps)
  BY <1>1 DEF IInv, ClaimsOK
<1>3. claims \in Seq({ClaimAt(p) : p \in ps})
  BY <1>2, ListingIsSeq
<1>4. claims[i] \in {ClaimAt(p) : p \in ps}
  <2> HIDE DEF ps
  <2> QED
    BY <1>3
<1>5. PICK p \in ps : claims[i] = ClaimAt(p)
  BY <1>4
<1>6. /\ p[1] \in TxSet(listed)
      /\ p[2] \in DOMAIN p[1].outputs
      /\ YieldsClaim(p[1], p[1].outputs[p[2]])
  BY ClaimPositionIn
<1>7. PICK t \in DOMAIN listed : p[1] = listed[t]
  BY <1>6 DEF TxSet
<1>8. p[1].outputs[p[2]] \in Range(p[1].outputs)
  BY <1>6 DEF Range
<1> QED
  BY <1>5, <1>6, <1>7, <1>8 DEF ClaimAt

(* Nobody is registered by a stranger, whatever the notes of a transaction *)
(* say and whichever answers the node gives to which task                  *)
(* (infer_claim_owner_for_claim, claim_witness_from_transaction).          *)
THEOREM OwnersSigned == Spec => []OwnerSigned
<1>1. IInv => OwnerSigned
  <2> SUFFICES ASSUME IInv, NEW i \in DOMAIN claims
               PROVE  \E t \in DOMAIN listed :
                        \E out \in Range(listed[t].outputs) :
                          LET tx       == listed[t]
                              note     == ClaimNote(out)
                              entitled == IF Signers(tx) # {} THEN Signers(tx)
                                          ELSE NoteNames(tx)
                          IN  /\ tx.id = claims[i].txHash
                              /\ note # Nothing /\ note.name = claims[i].name
                              /\ claims[i].owner \in entitled
                              /\ \/ note.owner = claims[i].owner
                                 \/ entitled = {claims[i].owner}
    BY DEF OwnerSigned
  <2>1. PICK t \in DOMAIN listed : \E out \in Range(listed[t].outputs) :
          YieldsClaim(listed[t], out) /\ claims[i] = ClaimOf(listed[t], out)
    BY ClaimComesFrom
  <2> PICK out \in Range(listed[t].outputs) :
          YieldsClaim(listed[t], out) /\ claims[i] = ClaimOf(listed[t], out)
    BY <2>1
  <2> DEFINE tx       == listed[t]
             note     == ClaimNote(out)
             owner    == InferOwner(tx, note)
             entitled == IF Signers(tx) # {} THEN Signers(tx) ELSE NoteNames(tx)
  <2>2. /\ note # Nothing
        /\ note.txHash \in {Nothing, tx.id}
        /\ owner # Nothing
        /\ OwnerOk(tx, owner)
    BY DEF YieldsClaim
  <2>3. /\ claims[i].txHash = EffectiveTxId(tx, note)
        /\ claims[i].owner = owner
        /\ claims[i].name = note.name
    BY DEF ClaimOf
  <2>4. claims[i].txHash = tx.id
    <3> HIDE DEF tx, note
    <3> QED
      BY <2>2, <2>3 DEF EffectiveTxId
  <2>5. owner \in entitled
    <3> HIDE DEF tx, owner
    <3> QED
      BY <2>2 DEF OwnerOk
  <2>6. note.owner = owner \/ entitled = {owner}
    <3>1. CASE note.owner # Nothing
      BY <3>1 DEF InferOwner
    <3>2. CASE note.owner = Nothing
      <4>1. owner = IF \E o \in entitled : entitled = {o}
                    THEN CHOOSE o \in entitled : TRUE ELSE Nothing
        BY <3>2 DEF InferOwner
      <4> HIDE DEF owner, entitled
      <4>2. PICK o \in entitled : entitled = {o}
        BY <2>2, <4>1
      <4> QED
        BY <2>5, <4>2
    <3> QED
      BY <3>1, <3>2
  <2> HIDE DEF owner, entitled
  <2>7. /\ tx.id = claims[i].txHash
        /\ note # Nothing /\ note.name = claims[i].name
        /\ claims[i].owner \in entitled
        /\ note.owner = claims[i].owner \/ entitled = {claims[i].owner}
    BY <2>2, <2>3, <2>4, <2>5, <2>6
  <2> QED
    BY <2>7 DEF entitled
<1> QED
  BY <1>1, Invariant, PTL

-----------------------------------------------------------------------------
(* The price.                                                              *)
Capped(n) == IF n > MaxU64 THEN MaxU64 ELSE n

(* The treasury's sum is what is really paid, up to the maximum of a u64,  *)
(* in whatever order the outputs come.                                     *)
LEMMA TreasurySumIsCapped ==
  ASSUME NEW tx \in Tx
  PROVE  Paid(tx) \in Nat /\ TreasurySum(tx) = Capped(Paid(tx))
<1>1. PICK outs : outs = tx.outputs
  OBVIOUS
<1>2. PICK n \in Nat : DOMAIN outs = 1 .. n
  BY <1>1, TxAssumption
<1>3. \A i \in 1 .. n : outs[i].amount \in Nat \cup {Nothing}
  BY <1>1, <1>2, TxAssumption DEF Range
<1> DEFINE f == Pays!Run(0, 0, outs, n)
           g == Adds!Run(0, 0, outs, n)
<1>4. /\ f[0] = 0
      /\ \A i \in 1 .. n : f[i] = AddOutput(f[i - 1], outs[i])
      /\ Pays!Fold(0, 0, outs) = f[n]
  BY <1>2, Pays!FoldRun
<1>5. /\ g[0] = 0
      /\ \A i \in 1 .. n : g[i] = AddPaid(g[i - 1], outs[i])
      /\ Adds!Fold(0, 0, outs) = g[n]
  BY <1>2, Adds!FoldRun
<1> HIDE DEF f, g
<1> DEFINE S == {k \in Nat : k <= n => g[k] \in Nat /\ f[k] = Capped(g[k])}
<1>6. 0 \in S
  BY <1>4, <1>5, MaxU64Assumption DEF Capped
<1>7. ASSUME NEW k \in Nat, k \in S PROVE k + 1 \in S
  <2> SUFFICES ASSUME k + 1 <= n
               PROVE  g[k + 1] \in Nat /\ f[k + 1] = Capped(g[k + 1])
    OBVIOUS
  <2>1. /\ k + 1 \in 1 .. n /\ (k + 1) - 1 = k
        /\ g[k] \in Nat /\ f[k] = Capped(g[k])
    BY <1>7
  <2>2. /\ f[k + 1] = AddOutput(f[k], outs[k + 1])
        /\ g[k + 1] = AddPaid(g[k], outs[k + 1])
    BY <1>4, <1>5, <2>1
  <2>3. CASE OutputPaysTreasury(outs[k + 1]) /\ outs[k + 1].amount # Nothing
    <3>1. outs[k + 1].amount \in Nat
      BY <1>3, <2>1, <2>3
    <3>2. /\ f[k + 1] = SaturatingAdd(f[k], outs[k + 1].amount)
          /\ g[k + 1] = g[k] + outs[k + 1].amount
      BY <2>2, <2>3 DEF AddOutput, AddPaid
    <3> QED
      BY <2>1, <3>1, <3>2, MaxU64Assumption DEF SaturatingAdd, Capped
  <2>4. CASE ~(OutputPaysTreasury(outs[k + 1]) /\ outs[k + 1].amount # Nothing)
    BY <2>1, <2>2, <2>4 DEF AddOutput, AddPaid
  <2> QED
    BY <2>3, <2>4
<1>8. n \in S
  <2> HIDE DEF S
  <2> QED
    BY <1>6, <1>7, Pays!NatInd
<1>9. TreasurySum(tx) = f[n] /\ Paid(tx) = g[n]
  BY <1>1, <1>4, <1>5, TreasurySumIsFold, PaidIsFold
<1> QED
  BY <1>8, <1>9

LEMMA FeeIsNat == \A n \in Name : FeeForName(n) \in Nat
<1> SUFFICES ASSUME NEW n \in Name PROVE FeeForName(n) \in Nat
  OBVIOUS
<1> DEFINE stem == IF n.suffixed THEN n.bytes - 5 ELSE n.bytes
<1>1. stem \in Nat
  BY NameAssumption
<1>2. FeeForName(n) = CASE stem = 0             -> 0
                        [] stem >= 10           -> 6553600
                        [] stem \in 5 .. 9      -> 32768000
                        [] stem \in 1 .. 4      -> 327680000
  BY DEF FeeForName
<1> HIDE DEF stem
<1>3. stem = 0 \/ stem >= 10 \/ stem \in 5 .. 9 \/ stem \in 1 .. 4
  BY <1>1
<1> QED
  BY <1>1, <1>2, <1>3

(* A capped sum covers a fee exactly if the sum does. *)
LEMMA FeeIsCovered ==
  ASSUME NEW tx \in Tx, NEW n \in Name
  PROVE  /\ TreasurySum(tx) \in Nat
         /\ TreasurySum(tx) >= FeeForName(n) <=> Paid(tx) >= FeeForName(n)
BY TreasurySumIsCapped, FeeIsNat, FeesAssumption, MaxU64Assumption DEF Capped

(* The two fee schedules, one by characters and one by bytes, agree on     *)
(* every name that is well-formed.                                         *)
LEMMA SchedulesAgree ==
  ASSUME NEW n \in Name, IsValidName(n)
  PROVE  HullFeeForName(n) = FeeForName(n)
<1>1. n.chars = n.bytes
  BY CharsAssumption DEF IsValidName
<1> QED
  BY <1>1 DEF HullFeeForName, FeeForName

LEMMA KernelVerdict ==
  ASSUME NEW tx \in Tx, NEW out \in Range(tx.outputs), YieldsClaim(tx, out),
         NEW page, NEW c, c = ClaimOf(tx, out), tx.id \in page.txIds
  PROVE  LET ok == IsValidName(c.name) /\ Paid(tx) >= FeeForName(c.name)
         IN  /\ ValidClaim(page, c) <=> ok
             /\ ValidateClaimBundle(BundleOf(c, page.digest, page, <<>>,
                                             page.digest)) = "ok" <=> ok
<1> DEFINE name  == ClaimNote(out).name
           owner == InferOwner(tx, ClaimNote(out))
<1>1. name \in Name
  BY TxAssumption DEF YieldsClaim
<1>2. EffectiveTxId(tx, ClaimNote(out)) = tx.id
  BY DEF YieldsClaim, EffectiveTxId
<1>3. /\ c.name = name
      /\ c.owner = owner
      /\ c.fee = HullFeeForName(name)
      /\ c.txHash = tx.id
      /\ c.witness = [txId |-> tx.id, spender |-> owner,
                      amount |-> TreasurySum(tx), lockRoot |-> TreasuryLockRoot]
  BY <1>2 DEF ClaimOf
<1>4. PICK w : w = c.witness
  OBVIOUS
<1>5. /\ w.txId = tx.id
      /\ w.spender = owner
      /\ w.amount = TreasurySum(tx)
      /\ w.lockRoot = TreasuryLockRoot
  BY <1>3, <1>4
<1>6. /\ TreasurySum(tx) \in Nat /\ FeeForName(name) \in Nat
      /\ TreasurySum(tx) >= FeeForName(name) <=> Paid(tx) >= FeeForName(name)
  BY <1>1, FeeIsCovered, FeeIsNat
<1>7. IsValidName(name) => c.fee = FeeForName(name)
  BY <1>1, <1>3, SchedulesAgree
<1> HIDE DEF name, owner
<1>8. ValidClaim(page, c) <=>
        IsValidName(name) /\ c.fee >= FeeForName(name) /\ w.amount >= c.fee
  BY <1>3, <1>4, <1>5 DEF ValidClaim
<1>9. ValidClaim(page, c) <=> IsValidName(name) /\ w.amount >= FeeForName(name)
  BY <1>5, <1>6, <1>7, <1>8
<1> DEFINE b == BundleOf(c, page.digest, page, <<>>, page.digest)
<1>10. /\ b.claim = c
       /\ b.page = page
       /\ b.blockDigest = page.digest
       /\ b.headers = <<>>
       /\ b.tip = page.digest
  BY DEF BundleOf
<1> HIDE DEF b
<1>11. ChainLinksTo(b.blockDigest, b.headers, b.tip)
  BY <1>10 DEF ChainLinksTo
<1>12. ValidateClaimBundle(b) = "ok" <=>
         /\ IsValidName(name)
         /\ ~(c.fee < FeeForName(name))
         /\ ~(w.amount < FeeForName(name))
  BY <1>3, <1>4, <1>5, <1>10, <1>11 DEF ValidateClaimBundle
<1>13. ValidateClaimBundle(b) = "ok" <=>
         IsValidName(name) /\ w.amount >= FeeForName(name)
  BY <1>5, <1>6, <1>7, <1>12
<1> QED
  BY <1>3, <1>5, <1>6, <1>9, <1>13 DEF b

(* What the hull extracts fails in the kernel only for its name or its     *)
(* price (extract_claims against valid-claim and validate-claim-bundle).   *)
THEOREM HullAndKernelAgree == Spec => []KernelOnlyJudgesNameAndPrice
<1>1. IInv => KernelOnlyJudgesNameAndPrice
  <2> SUFFICES ASSUME IInv, NEW i \in DOMAIN claims, NEW page,
                      page = [digest |-> ZeroDigest, height |-> GenesisHeight,
                              txIds |-> TxIdsOf(listed), claims |-> claims]
               PROVE  \E t \in DOMAIN listed :
                        LET c  == claims[i]
                            ok == /\ IsValidName(c.name)
                                  /\ Paid(listed[t]) >= FeeForName(c.name)
                        IN  /\ listed[t].id = c.txHash
                            /\ ValidClaim(page, c) <=> ok
                            /\ ValidateClaimBundle(
                                 BundleOf(c, page.digest, page, <<>>,
                                          page.digest)) = "ok" <=> ok
    BY DEF KernelOnlyJudgesNameAndPrice
  <2>1. PICK t \in DOMAIN listed : \E out \in Range(listed[t].outputs) :
          YieldsClaim(listed[t], out) /\ claims[i] = ClaimOf(listed[t], out)
    BY ClaimComesFrom
  <2> PICK out \in Range(listed[t].outputs) :
          YieldsClaim(listed[t], out) /\ claims[i] = ClaimOf(listed[t], out)
    BY <2>1
  <2>2. listed[t] \in Tx /\ listed[t].id \in TxIdsOf(listed)
    BY DEF IInv, ListedOK, TxIdsOf
  <2>3. listed[t].id \in page.txIds
    BY <2>2
  <2>4. listed[t].id = claims[i].txHash
    BY DEF ClaimOf, YieldsClaim, EffectiveTxId
  <2>5. LET c  == claims[i]
            ok == IsValidName(c.name) /\ Paid(listed[t]) >= FeeForName(c.name)
        IN  /\ ValidClaim(page, c) <=> ok
            /\ ValidateClaimBundle(BundleOf(c, page.digest, page, <<>>,
                                            page.digest)) = "ok" <=> ok
    BY <2>2, <2>3, KernelVerdict
  <2> QED
    BY <2>4, <2>5
<1> QED
  BY <1>1, Invariant, PTL
=============================================================================
