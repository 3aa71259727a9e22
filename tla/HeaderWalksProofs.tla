-------------------------- MODULE HeaderWalksProofs --------------------------
(***************************************************************************)
(* Proofs about the two header walks, for every tree of blocks and every   *)
(* list of headers, of any length.                                         *)
(***************************************************************************)
EXTENDS HeaderWalks, FiniteSetTheorems, SequenceTheorems, TLAPS

(* Only its induction over the naturals is used. *)
Ind == INSTANCE FoldFacts WITH Op <- LAMBDA p, acc, x : acc

-----------------------------------------------------------------------------
(* The definition of Lineage recurses from a block to its parent.  That    *)
(* there is such a function follows by induction on the height, since a    *)
(* finite tree has a highest block.                                        *)
HeightsBounded(seq, k) ==
  \E top \in Nat : \A i \in 1 .. k : seq[i].height <= top

LEMMA HeightBound == \E top \in Nat : \A b \in Tree : b.height <= top
<1>1. PICK seq \in Seq(Tree) : \A b \in Tree : \E i \in 1 .. Len(seq) : seq[i] = b
  BY TreeAssumption DEF IsFiniteSet
<1> DEFINE n == Len(seq)
           S == {k \in Nat : k <= n => HeightsBounded(seq, k)}
<1>2. n \in Nat /\ \A i \in 1 .. n : seq[i].height \in Nat
  BY <1>1, TreeAssumption
<1> HIDE DEF n
<1>3. 0 \in S
  BY DEF HeightsBounded
<1>4. ASSUME NEW k \in Nat, k \in S, k + 1 <= n
      PROVE  HeightsBounded(seq, k + 1)
  <2>1. HeightsBounded(seq, k)
    BY <1>2, <1>4
  <2>2. PICK top \in Nat : \A i \in 1 .. k : seq[i].height <= top
    BY <2>1 DEF HeightsBounded
  <2>3. k + 1 \in 1 .. n /\ 1 .. k \subseteq 1 .. n
    BY <1>2, <1>4
  <2>4. PICK new \in Nat : new = top + seq[k + 1].height
    BY <1>2, <2>3
  <2>5. ASSUME NEW i \in 1 .. k + 1 PROVE seq[i].height <= new
    <3>1. CASE i = k + 1
      BY <1>2, <2>3, <2>4, <3>1
    <3>2. CASE i # k + 1
      BY <1>2, <2>2, <2>3, <2>4, <3>2
    <3> QED
      BY <3>1, <3>2
  <2> QED
    BY <2>5 DEF HeightsBounded
<1>5. HeightsBounded(seq, n)
  <2>1. \A k \in Nat : k \in S => k + 1 \in S
    BY <1>4
  <2> HIDE DEF S
  <2>2. n \in S
    BY <1>2, <1>3, <2>1, Ind!NatInd
  <2> QED
    BY <1>2, <2>2 DEF S
<1>6. PICK top \in Nat : \A i \in 1 .. n : seq[i].height <= top
  BY <1>5 DEF HeightsBounded
<1>7. \A b \in Tree : b.height <= top
  BY <1>1, <1>6 DEF n
<1> QED
  BY <1>7

HasParent(b) == \E p \in Tree : p.digest = b.parent

Parent(b) == CHOOSE p \in Tree : p.digest = b.parent

Below(f, b) == IF HasParent(b) THEN <<b>> \o f[Parent(b)] ELSE <<b>>

LEMMA ParentIs ==
  ASSUME NEW b \in Tree, HasParent(b)
  PROVE  /\ Parent(b) \in Tree
         /\ Parent(b).digest = b.parent
         /\ b.height = Parent(b).height + 1
<1>1. Parent(b) \in Tree /\ Parent(b).digest = b.parent
  BY DEF HasParent, Parent
<1> QED
  BY <1>1, TreeAssumption

LEMMA LineageExists == \E f : f = [b \in Tree |-> Below(f, b)]
<1> DEFINE UpTo(k) == {b \in Tree : b.height <= k}
           S == {k \in Nat : \E f : f = [b \in UpTo(k) |-> Below(f, b)]}
<1>1. 0 \in S
  <2> DEFINE f == [b \in UpTo(0) |-> <<b>>]
  <2>1. ASSUME NEW b \in UpTo(0) PROVE ~HasParent(b)
    BY ParentIs, TreeAssumption
  <2>2. f = [b \in UpTo(0) |-> Below(f, b)]
    BY <2>1 DEF Below
  <2> QED
    BY <2>2
<1>2. ASSUME NEW k \in Nat, k \in S PROVE k + 1 \in S
  <2>1. PICK f : f = [b \in UpTo(k) |-> Below(f, b)]
    BY <1>2
  <2> DEFINE g == [b \in UpTo(k + 1) |-> Below(f, b)]
  <2>2. ASSUME NEW b \in UpTo(k) PROVE g[b] = f[b]
    <3>1. b \in UpTo(k + 1)
      BY TreeAssumption
    <3>2. g[b] = Below(f, b)
      BY <3>1
    <3>3. f[b] = Below(f, b)
      <4> HIDE DEF UpTo
      <4> QED
        BY <2>1, <2>2
    <3> QED
      BY <3>2, <3>3
  <2>3. ASSUME NEW b \in UpTo(k + 1), HasParent(b) PROVE Parent(b) \in UpTo(k)
    BY <2>3, ParentIs, TreeAssumption
  <2>4. ASSUME NEW b \in UpTo(k + 1) PROVE Below(f, b) = Below(g, b)
    <3> HIDE DEF UpTo, g
    <3> QED
      BY <2>2, <2>3 DEF Below
  <2>5. g = [b \in UpTo(k + 1) |-> Below(g, b)]
    <3> HIDE DEF UpTo
    <3> QED
      BY <2>4
  <2> HIDE DEF g, UpTo
  <2> QED
    BY <2>5
<1>3. PICK top \in Nat : \A b \in Tree : b.height <= top
  BY HeightBound
<1>4. top \in S
  <2> HIDE DEF S
  <2> QED
    BY <1>1, <1>2, Ind!NatInd
<1>5. UpTo(top) = Tree
  BY <1>3
<1>6. \E f : f = [b \in UpTo(top) |-> Below(f, b)]
  BY <1>4
<1> HIDE DEF UpTo
<1> QED
  BY <1>5, <1>6

LEMMA LineageOf ==
  /\ DOMAIN Lineage = Tree
  /\ \A b \in Tree : Lineage[b] = Below(Lineage, b)
<1>1. Lineage = CHOOSE f : f = [b \in Tree |-> Below(f, b)]
  BY DEF Lineage, Below, HasParent, Parent
<1>2. Lineage = [b \in Tree |-> Below(Lineage, b)]
  BY <1>1, LineageExists
<1> QED
  BY <1>2

-----------------------------------------------------------------------------
(* A lineage starts at its block, goes from parent to parent, one height   *)
(* down each time, and ends where the tree has no parent left.             *)
IsLineage(l, b) ==
  /\ l \in Seq(Tree)
  /\ Len(l) >= 1
  /\ l[1] = b
  /\ \A i \in 1 .. Len(l) : l[i].height + i = b.height + 1
  /\ \A i \in 1 .. Len(l) - 1 : l[i].parent = l[i + 1].digest
  /\ ~HasParent(l[Len(l)])

LEMMA OneBlockLineage ==
  ASSUME NEW b \in Tree, ~HasParent(b)
  PROVE  IsLineage(<<b>>, b)
BY TreeAssumption DEF IsLineage

LEMMA LongerLineage ==
  ASSUME NEW b \in Tree, NEW p \in Tree, NEW l,
         p.digest = b.parent, IsLineage(l, p)
  PROVE  IsLineage(<<b>> \o l, b)
<1> DEFINE m == <<b>> \o l
           n == Len(l)
<1>1. l \in Seq(Tree) /\ n \in Nat /\ n >= 1
  BY DEF IsLineage
<1>2. m \in Seq(Tree) /\ Len(m) = n + 1 /\ m[1] = b
  BY <1>1
<1>3. \A i \in 2 .. n + 1 : m[i] = l[i - 1]
  BY <1>1
<1>4. b.height \in Nat /\ p.height \in Nat /\ b.height = p.height + 1
  BY TreeAssumption
<1> HIDE DEF m, n
<1>5. ASSUME NEW i \in 1 .. n + 1 PROVE m[i].height + i = b.height + 1
  <2>1. CASE i = 1
    BY <1>2, <1>4, <2>1
  <2>2. CASE i # 1
    <3>1. i - 1 \in 1 .. n /\ i \in 2 .. n + 1
      BY <1>1, <2>2
    <3>2. l[i - 1].height + (i - 1) = p.height + 1
      BY <3>1 DEF IsLineage, n
    <3>3. l[i - 1].height \in Nat
      BY <1>1, <3>1, TreeAssumption DEF n
    <3>4. m[i].height = l[i - 1].height
      BY <1>3, <3>1
    <3> QED
      BY <1>4, <3>2, <3>3, <3>4
  <2> QED
    BY <2>1, <2>2
<1>6. ASSUME NEW i \in 1 .. n PROVE m[i].parent = m[i + 1].digest
  <2>1. m[i + 1] = l[i]
    BY <1>1, <1>3
  <2>2. CASE i = 1
    BY <1>2, <2>1, <2>2 DEF IsLineage
  <2>3. CASE i # 1
    <3>1. i - 1 \in 1 .. n - 1 /\ i \in 2 .. n + 1 /\ (i - 1) + 1 = i
      BY <1>1, <2>3
    <3>2. l[i - 1].parent = l[i].digest
      BY <3>1 DEF IsLineage, n
    <3> QED
      BY <1>3, <2>1, <3>1, <3>2
  <2> QED
    BY <2>2, <2>3
<1>7. m[n + 1] = l[n] /\ ~HasParent(l[n])
  BY <1>1, <1>3 DEF IsLineage, n
<1>8. IsLineage(m, b)
  BY <1>1, <1>2, <1>5, <1>6, <1>7 DEF IsLineage
<1> QED
  BY <1>8 DEF m

LEMMA LineageIs == \A b \in Tree : IsLineage(Lineage[b], b)
<1> DEFINE S == {k \in Nat : \A b \in Tree :
                   b.height <= k => IsLineage(Lineage[b], b)}
<1>1. ASSUME NEW b \in Tree,
             HasParent(b) => IsLineage(Lineage[Parent(b)], Parent(b))
      PROVE  IsLineage(Lineage[b], b)
  <2>1. CASE HasParent(b)
    BY <1>1, <2>1, LineageOf, ParentIs, LongerLineage DEF Below
  <2>2. CASE ~HasParent(b)
    BY <2>2, LineageOf, OneBlockLineage DEF Below
  <2> QED
    BY <2>1, <2>2
<1>2. 0 \in S
  <2>1. ASSUME NEW b \in Tree, b.height <= 0 PROVE ~HasParent(b)
    BY <2>1, ParentIs, TreeAssumption
  <2> QED
    BY <1>1, <2>1
<1>3. ASSUME NEW k \in Nat, k \in S PROVE k + 1 \in S
  <2>1. ASSUME NEW b \in Tree, b.height <= k + 1, HasParent(b)
        PROVE  IsLineage(Lineage[Parent(b)], Parent(b))
    <3>1. Parent(b) \in Tree /\ Parent(b).height <= k
      BY <2>1, ParentIs, TreeAssumption
    <3> QED
      BY <1>3, <3>1
  <2> QED
    BY <1>1, <2>1
<1>4. \A k \in Nat : k \in S
  <2> HIDE DEF S
  <2> QED
    BY <1>2, <1>3, Ind!NatInd
<1>5. ASSUME NEW b \in Tree PROVE IsLineage(Lineage[b], b)
  BY <1>4, TreeAssumption
<1> QED
  BY <1>5

-----------------------------------------------------------------------------
(* A header with a block's digest is that block's but for its height.      *)
LEMMA HeaderWithDigest ==
  ASSUME NEW h \in Headers
  PROVE  /\ h.height \in Nat
         /\ \E b \in Tree : h.digest = b.digest
         /\ \A b \in Tree : h.digest = b.digest =>
              /\ h.parent = b.parent
              /\ h.height = b.height => h = HeaderOf(b)
<1>1. PICK x \in Tree : h = [HeaderOf(x) EXCEPT !.height = h.height]
  <2>1. CASE h \in WrongHeaders
    BY <2>1, WrongHeaderAssumption
  <2>2. CASE \E b \in Tree : h = HeaderOf(b)
    BY <2>2 DEF HeaderOf
  <2> QED
    BY <2>1, <2>2 DEF Headers
<1>2. h.height \in Nat
  BY TreeAssumption, WrongHeaderAssumption DEF Headers, HeaderOf
<1>3. h.digest = x.digest /\ h.parent = x.parent
  BY <1>1 DEF HeaderOf
<1>4. ASSUME NEW b \in Tree, h.digest = b.digest PROVE b = x
  BY <1>3, <1>4, TreeAssumption
<1>5. h.height = x.height => h = HeaderOf(x)
  BY <1>1 DEF HeaderOf
<1> QED
  BY <1>2, <1>3, <1>4, <1>5

LEMMA LineageAt ==
  ASSUME NEW b \in Tree
  PROVE  /\ Lineage[b] \in Seq(Tree)
         /\ Len(Lineage[b]) \in Nat
         /\ Len(Lineage[b]) >= 1
         /\ DOMAIN Lineage[b] = 1 .. Len(Lineage[b])
         /\ Lineage[b][1] = b
         /\ \A i \in DOMAIN Lineage[b] :
              /\ Lineage[b][i] \in Tree
              /\ Lineage[b][i].height + i = b.height + 1
         /\ \A i \in DOMAIN Lineage[b] : \A p \in Tree :
              Lineage[b][i].parent = p.digest =>
                i + 1 \in DOMAIN Lineage[b] /\ Lineage[b][i + 1] = p
         /\ \A i \in DOMAIN Lineage[b] :
              i + 1 \in DOMAIN Lineage[b] =>
                Lineage[b][i].parent = Lineage[b][i + 1].digest
<1> DEFINE l == Lineage[b]
           n == Len(l)
<1>1. IsLineage(l, b)
  BY LineageIs
<1> HIDE DEF l
<1>2. l \in Seq(Tree) /\ n \in Nat /\ n >= 1 /\ DOMAIN l = 1 .. n
      /\ l[1] = b /\ \A i \in 1 .. n : l[i] \in Tree
  BY <1>1 DEF IsLineage
<1>3. \A i \in 1 .. n : l[i].height + i = b.height + 1
  BY <1>1 DEF IsLineage
<1>4. \A i \in 1 .. n : i + 1 \in 1 .. n => l[i].parent = l[i + 1].digest
  BY <1>1, <1>2 DEF IsLineage
<1>5. ASSUME NEW i \in 1 .. n, NEW p \in Tree, l[i].parent = p.digest
      PROVE  i + 1 \in 1 .. n /\ l[i + 1] = p
  <2>1. HasParent(l[i])
    BY <1>5 DEF HasParent
  <2>2. i # n
    BY <1>1, <2>1 DEF IsLineage
  <2>3. i + 1 \in 1 .. n
    <3>1. n \in Nat
      BY <1>2
    <3> QED
      BY <2>2, <3>1
  <2> QED
    BY <1>2, <1>4, <1>5, <2>3, TreeAssumption
<1> QED
  BY <1>2, <1>3, <1>4, <1>5 DEF l

(* A list the wallet accepts follows the lineage, header by header.        *)
LEMMA WalletFollowsLineage ==
  ASSUME NEW hs \in Seq(Headers), NEW b \in Tree,
         hs # <<>>, hs[1].digest = b.digest, hs[1].height = b.height,
         \A i \in 1 .. Len(hs) - 1 :
           /\ hs[i].parent = hs[i + 1].digest
           /\ hs[i + 1].height + 1 = hs[i].height
  PROVE  \A i \in 1 .. Len(hs) :
           i \in DOMAIN Lineage[b] /\ hs[i] = HeaderOf(Lineage[b][i])
<1> DEFINE n == Len(hs)
           l == Lineage[b]
           S == {k \in Nat : k + 1 <= n =>
                   k + 1 \in DOMAIN l /\ hs[k + 1] = HeaderOf(l[k + 1])}
<1>1. n \in Nat /\ n >= 1 /\ \A i \in 1 .. n : hs[i] \in Headers
  OBVIOUS
<1> HIDE DEF n, l
<1>2. 0 \in S
  <2>1. hs[1] = HeaderOf(b)
    BY <1>1, HeaderWithDigest
  <2> QED
    BY <2>1, LineageAt DEF l
<1>3. ASSUME NEW k \in Nat, k \in S PROVE k + 1 \in S
  <2> DEFINE i == k + 1
  <2> SUFFICES ASSUME i + 1 <= n
               PROVE  i + 1 \in DOMAIN l /\ hs[i + 1] = HeaderOf(l[i + 1])
    OBVIOUS
  <2>1. i \in 1 .. n - 1 /\ i \in 1 .. n /\ i + 1 \in 1 .. n
    BY <1>1
  <2>2. i \in DOMAIN l /\ hs[i] = HeaderOf(l[i])
    BY <1>1, <1>3, <2>1
  <2> HIDE DEF i
  <2>3. /\ hs[i].parent = hs[i + 1].digest
        /\ hs[i + 1].height + 1 = hs[i].height
    BY <2>1 DEF n
  <2>4. l[i].parent = hs[i + 1].digest /\ hs[i + 1].height + 1 = l[i].height
    BY <2>2, <2>3 DEF HeaderOf
  <2>5. PICK p \in Tree : hs[i + 1].digest = p.digest
    BY <1>1, <2>1, HeaderWithDigest
  <2>6. i + 1 \in DOMAIN l /\ l[i + 1] = p
    BY <2>2, <2>4, <2>5, LineageAt DEF l
  <2>7. l[i].height = p.height + 1 /\ p.height \in Nat
    <3>1. l[i] \in Tree /\ l[i].parent = p.digest
      BY <2>2, <2>4, <2>5, LineageAt DEF l
    <3> QED
      BY <3>1, TreeAssumption
  <2>8. hs[i + 1].height \in Nat
    BY <1>1, <2>1, HeaderWithDigest
  <2>9. hs[i + 1].height = p.height
    BY <2>4, <2>7, <2>8
  <2>10. hs[i + 1] = HeaderOf(p)
    BY <1>1, <2>1, <2>5, <2>9, HeaderWithDigest
  <2> QED
    BY <2>6, <2>10
<1>4. \A k \in Nat : k \in S
  <2> HIDE DEF S
  <2> QED
    BY <1>2, <1>3, Ind!NatInd
<1>5. ASSUME NEW i \in 1 .. n
      PROVE  i \in DOMAIN l /\ hs[i] = HeaderOf(l[i])
  <2>1. i - 1 \in Nat /\ (i - 1) + 1 = i /\ i <= n
    BY <1>1
  <2> QED
    BY <1>4, <2>1
<1> QED
  BY <1>5 DEF n, l

TruePath(b, k) == IF k = 1 THEN <<>> ELSE Downward(b, k)

LEMMA DownwardIs ==
  ASSUME NEW b \in Tree, NEW k \in DOMAIN Lineage[b]
  PROVE  /\ Downward(b, k) \in Seq(Headers)
         /\ Len(Downward(b, k)) = k
         /\ \A i \in 1 .. k : Downward(b, k)[i] = HeaderOf(Lineage[b][i])
<1>1. k \in Nat /\ \A i \in 1 .. k : Lineage[b][i] \in Tree
  BY LineageAt
<1>2. \A i \in 1 .. k : HeaderOf(Lineage[b][i]) \in Headers
  BY <1>1 DEF Headers
<1> QED
  BY <1>1, <1>2, IsASeq DEF Downward

LEMMA WalletAcceptsTruePath ==
  ASSUME NEW b \in Tree, NEW k \in DOMAIN Lineage[b]
  PROVE  HeaderChainOk(b.height, b.digest,
                       [height |-> Lineage[b][k].height,
                        digest |-> Lineage[b][k].digest], TruePath(b, k))
<1> DEFINE l == Lineage[b]
           c == l[k]
           hs == Downward(b, k)
<1>1. l[1] = b /\ k \in Nat /\ k >= 1
  BY LineageAt
<1>2. CASE k = 1
  BY <1>1, <1>2 DEF HeaderChainOk, TruePath
<1>3. CASE k # 1
  <2>1. Len(hs) = k /\ \A i \in 1 .. k : hs[i] = HeaderOf(l[i])
    BY DownwardIs
  <2>2. \A i \in 1 .. k : i \in DOMAIN l /\ l[i] \in Tree
    BY <1>1, LineageAt
  <2>3. 1 \in 1 .. k /\ k \in 1 .. k
    BY <1>1
  <2> HIDE DEF hs
  <2>4. hs # <<>> /\ TruePath(b, k) = hs
    BY <1>1, <1>3, <2>1 DEF TruePath, hs
  <2>5. hs[1].digest = b.digest /\ hs[1].height = b.height
    BY <1>1, <2>1, <2>3 DEF HeaderOf
  <2>6. hs[k].digest = c.digest /\ hs[k].height = c.height
    BY <2>1, <2>3 DEF HeaderOf
  <2>7. ASSUME NEW i \in 1 .. k - 1
        PROVE  /\ hs[i].parent = hs[i + 1].digest
               /\ hs[i + 1].height + 1 = hs[i].height
    <3>1. i \in 1 .. k /\ i + 1 \in 1 .. k
      BY <1>1
    <3>2. l[i].parent = l[i + 1].digest
      BY <2>2, <3>1, LineageAt
    <3>3. l[i].height = l[i + 1].height + 1
      BY <2>2, <3>1, <3>2, TreeAssumption
    <3> QED
      BY <2>1, <3>1, <3>2, <3>3 DEF HeaderOf
  <2>8. b.height > c.height
    <3>1. c.height \in Nat /\ b.height \in Nat
      BY <2>2, <2>3, TreeAssumption
    <3>2. c.height + k = b.height + 1
      BY LineageAt
    <3> HIDE DEF c
    <3> QED
      BY <1>1, <1>3, <3>1, <3>2
  <2> HIDE DEF c
  <2>9. HeaderChainOk(b.height, b.digest,
                      [height |-> c.height, digest |-> c.digest], hs)
    BY <2>1, <2>4, <2>5, <2>6, <2>7, <2>8 DEF HeaderChainOk
  <2> QED
    BY <2>4, <2>9 DEF c
<1> QED
  BY <1>2, <1>3

LEMMA WalletWalk ==
  ASSUME NEW hs \in Seq(Headers), NEW b \in Tree, NEW c \in Tree
  PROVE  HeaderChainOk(b.height, b.digest,
                       [height |-> c.height, digest |-> c.digest], hs)
         <=> \E k \in DOMAIN Lineage[b] :
               Lineage[b][k] = c /\ hs = TruePath(b, k)
<1> DEFINE l == Lineage[b]
           accepted == HeaderChainOk(b.height, b.digest,
                         [height |-> c.height, digest |-> c.digest], hs)
<1>1. ASSUME accepted
      PROVE  \E k \in DOMAIN l : l[k] = c /\ hs = TruePath(b, k)
  <2>1. CASE hs = <<>>
    <3>1. b.digest = c.digest
      BY <1>1, <2>1 DEF HeaderChainOk
    <3>2. b = c
      BY <3>1, TreeAssumption
    <3> QED
      BY <2>1, <3>2, LineageAt DEF TruePath
  <2>2. CASE hs # <<>>
    <3> DEFINE n == Len(hs)
    <3>1. /\ b.height > c.height
          /\ hs[1].digest = b.digest
          /\ hs[1].height = b.height
          /\ \A i \in 1 .. Len(hs) - 1 :
               /\ hs[i].parent = hs[i + 1].digest
               /\ hs[i + 1].height + 1 = hs[i].height
          /\ hs[n].height = c.height
          /\ hs[n].digest = c.digest
      BY <1>1, <2>2 DEF HeaderChainOk
    <3>2. \A i \in 1 .. n : i \in DOMAIN l /\ hs[i] = HeaderOf(l[i])
      BY <2>2, <3>1, WalletFollowsLineage
    <3>3. n \in Nat /\ n >= 1 /\ hs = [i \in 1 .. n |-> hs[i]]
      BY <2>2
    <3> HIDE DEF n
    <3>4. n \in 1 .. n
      BY <3>3
    <3>5. n \in DOMAIN l /\ l[n].digest = c.digest
      <4>1. n \in DOMAIN l /\ hs[n] = HeaderOf(l[n])
        BY <3>2, <3>4
      <4> HIDE DEF l
      <4> QED
        BY <3>1, <4>1 DEF HeaderOf
    <3>6. l[n] = c
      BY <3>5, LineageAt, TreeAssumption
    <3>7. n # 1
      BY <3>1, <3>6, LineageAt, TreeAssumption
    <3>8. hs = Downward(b, n)
      BY <3>2, <3>3 DEF Downward
    <3> QED
      BY <3>5, <3>6, <3>7, <3>8 DEF TruePath
  <2> QED
    BY <2>1, <2>2
<1>2. ASSUME NEW k \in DOMAIN l, l[k] = c, hs = TruePath(b, k)
      PROVE  accepted
  BY <1>2, WalletAcceptsTruePath
<1> QED
  BY <1>1, <1>2

-----------------------------------------------------------------------------
(* The list of the true path the kernel's walk is shown: the headers above *)
(* the claim's block, oldest first.                                        *)
UpwardPath(tip, k) == Reverse(Downward(tip, k - 1))

LEMMA UpwardPathIs ==
  ASSUME NEW tip \in Tree, NEW k \in DOMAIN Lineage[tip]
  PROVE  /\ DOMAIN UpwardPath(tip, k) = 1 .. k - 1
         /\ Len(UpwardPath(tip, k)) = k - 1
         /\ \A i \in 1 .. k - 1 :
              UpwardPath(tip, k)[i] = HeaderOf(Lineage[tip][k - i])
<1>1. k \in Nat /\ k >= 1
  BY LineageAt
<1>2. PICK m \in Nat : m = k - 1
  BY <1>1
<1>3. Downward(tip, m) = [i \in 1 .. m |-> HeaderOf(Lineage[tip][i])]
  BY DEF Downward
<1>4. Len(Downward(tip, m)) = m
  BY <1>2, <1>3
<1>5. UpwardPath(tip, k) = [i \in 1 .. m |-> Downward(tip, m)[(m - i) + 1]]
  BY <1>2, <1>4 DEF UpwardPath, Reverse
<1>6. ASSUME NEW i \in 1 .. m
      PROVE  Downward(tip, m)[(m - i) + 1] = HeaderOf(Lineage[tip][k - i])
  <2>1. (m - i) + 1 \in 1 .. m /\ (m - i) + 1 = k - i
    BY <1>1, <1>2
  <2> QED
    BY <1>3, <2>1
<1>7. UpwardPath(tip, k) = [i \in 1 .. m |-> HeaderOf(Lineage[tip][k - i])]
  BY <1>5, <1>6
<1>8. Len(UpwardPath(tip, k)) = m
  BY <1>2, <1>7
<1> QED
  BY <1>2, <1>7, <1>8

(* A list the kernel's walk accepts follows the lineage down from the tip. *)
LEMMA KernelFollowsLineage ==
  ASSUME NEW hs \in Seq(Headers), NEW tip \in Tree, NEW n \in Nat,
         n = Len(hs), n >= 1, hs[n].digest = tip.digest,
         \A i \in 2 .. n : hs[i].parent = hs[i - 1].digest
  PROVE  \A i \in 1 .. n :
           i \in DOMAIN Lineage[tip]
           /\ hs[(n - i) + 1].digest = Lineage[tip][i].digest
<1> DEFINE l == Lineage[tip]
           S == {k \in Nat : k + 1 <= n =>
                   k + 1 \in DOMAIN l /\ hs[n - k].digest = l[k + 1].digest}
<1>1. \A i \in 1 .. n : hs[i] \in Headers
  OBVIOUS
<1> HIDE DEF l
<1>2. 0 \in S
  BY LineageAt DEF l
<1>3. ASSUME NEW k \in Nat, k \in S PROVE k + 1 \in S
  <2> SUFFICES ASSUME (k + 1) + 1 <= n
               PROVE  /\ (k + 1) + 1 \in DOMAIN l
                      /\ hs[n - (k + 1)].digest = l[(k + 1) + 1].digest
    OBVIOUS
  <2>1. k + 1 \in DOMAIN l /\ hs[n - k].digest = l[k + 1].digest
    BY <1>3
  <2>2. n - k \in 2 .. n /\ n - k \in 1 .. n /\ n - (k + 1) \in 1 .. n
        /\ (n - k) - 1 = n - (k + 1)
    OBVIOUS
  <2>3. hs[n - k].parent = hs[n - (k + 1)].digest
    BY <2>2
  <2>4. l[k + 1] \in Tree
    BY <2>1, LineageAt DEF l
  <2>5. l[k + 1].parent = hs[n - (k + 1)].digest
    BY <1>1, <2>1, <2>2, <2>3, <2>4, HeaderWithDigest
  <2>6. PICK p \in Tree : hs[n - (k + 1)].digest = p.digest
    BY <1>1, <2>2, HeaderWithDigest
  <2> QED
    BY <2>1, <2>5, <2>6, LineageAt DEF l
<1>4. \A k \in Nat : k \in S
  <2> HIDE DEF S
  <2> QED
    BY <1>2, <1>3, Ind!NatInd
<1>5. ASSUME NEW i \in 1 .. n
      PROVE  i \in DOMAIN l /\ hs[(n - i) + 1].digest = l[i].digest
  <2>1. i - 1 \in Nat /\ (i - 1) + 1 = i /\ i <= n /\ n - (i - 1) = (n - i) + 1
    OBVIOUS
  <2>2. i - 1 \in S
    BY <1>4, <2>1
  <2> QED
    BY <2>1, <2>2
<1> QED
  BY <1>5 DEF l

LEMMA KernelAcceptsTruePath ==
  ASSUME NEW tip \in Tree, NEW k \in DOMAIN Lineage[tip]
  PROVE  ChainLinksTo(Lineage[tip][k].digest, UpwardPath(tip, k), tip.digest)
<1> DEFINE l == Lineage[tip]
           hs == UpwardPath(tip, k)
<1>1. l[1] = tip /\ k \in Nat /\ k >= 1
  BY LineageAt
<1>2. /\ DOMAIN hs = 1 .. k - 1
      /\ Len(hs) = k - 1
      /\ \A i \in 1 .. k - 1 : hs[i] = HeaderOf(l[k - i])
  BY UpwardPathIs
<1>3. \A i \in 1 .. k : i \in DOMAIN l /\ l[i] \in Tree
  BY <1>1, LineageAt
<1> HIDE DEF hs
<1>4. CASE k = 1
  <2>1. hs = <<>>
    <3>1. hs = Reverse(Downward(tip, 0)) /\ Downward(tip, 0) = <<>>
      BY <1>4 DEF hs, UpwardPath, Downward
    <3> QED
      BY <3>1 DEF Reverse
  <2> QED
    BY <1>1, <1>4, <2>1 DEF ChainLinksTo, hs
<1>5. CASE k # 1
  <2>1. hs # <<>>
    BY <1>1, <1>2, <1>5
  <2>2. hs[1].parent = l[k].digest
    <3>1. 1 \in 1 .. k - 1 /\ k - 1 \in 1 .. k /\ (k - 1) + 1 \in 1 .. k
      BY <1>1, <1>5
    <3>2. l[k - 1].parent = l[k].digest
      BY <1>1, <1>3, <3>1, LineageAt
    <3> QED
      BY <1>2, <3>1, <3>2 DEF HeaderOf
  <2>3. ASSUME NEW i \in 2 .. k - 1
        PROVE  /\ hs[i].parent = hs[i - 1].digest
               /\ hs[i].height = hs[i - 1].height + 1
    <3>1. /\ i \in 1 .. k - 1 /\ i - 1 \in 1 .. k - 1
          /\ k - i \in 1 .. k /\ (k - i) + 1 \in 1 .. k
          /\ k - (i - 1) = (k - i) + 1
      BY <1>1
    <3>2. l[k - i].parent = l[(k - i) + 1].digest
      BY <1>3, <3>1, LineageAt
    <3>3. l[k - i].height = l[(k - i) + 1].height + 1
      BY <1>3, <3>1, <3>2, TreeAssumption
    <3>4. hs[i] = HeaderOf(l[k - i]) /\ hs[i - 1] = HeaderOf(l[(k - i) + 1])
      BY <1>2, <3>1
    <3> QED
      BY <3>2, <3>3, <3>4 DEF HeaderOf
  <2>4. hs[Len(hs)].digest = tip.digest
    <3>1. k - 1 \in 1 .. k - 1 /\ k - (k - 1) = 1
      BY <1>1, <1>5
    <3> QED
      BY <1>1, <1>2, <3>1 DEF HeaderOf
  <2>5. ChainLinksTo(l[k].digest, hs, tip.digest)
    BY <1>2, <2>1, <2>2, <2>3, <2>4 DEF ChainLinksTo
  <2> QED
    BY <2>5 DEF hs
<1> QED
  BY <1>4, <1>5

Digests(s) == [i \in DOMAIN s |-> s[i].digest]

LEMMA KernelAcceptsOnlyTruePath ==
  ASSUME NEW hs \in Seq(Headers), NEW tip \in Tree, NEW c \in Tree,
         ChainLinksTo(c.digest, hs, tip.digest)
  PROVE  \E k \in DOMAIN Lineage[tip] :
           /\ Lineage[tip][k] = c
           /\ Digests(hs) = Digests(UpwardPath(tip, k))
<1> DEFINE l == Lineage[tip]
<1>1. CASE hs = <<>>
  <2>1. c = tip
    BY <1>1, TreeAssumption DEF ChainLinksTo
  <2>2. 1 \in DOMAIN l /\ l[1] = c
    BY <2>1, LineageAt
  <2>3. DOMAIN UpwardPath(tip, 1) = {} /\ DOMAIN hs = {}
    BY <1>1, <2>2, UpwardPathIs
  <2>4. Digests(hs) = Digests(UpwardPath(tip, 1))
    BY <2>3 DEF Digests
  <2> QED
    BY <2>2, <2>4
<1>2. CASE hs # <<>>
  <2>1. PICK n \in Nat : n = Len(hs) /\ n >= 1 /\ DOMAIN hs = 1 .. n
    BY <1>2
  <2>2. /\ hs[1].parent = c.digest
        /\ \A i \in 2 .. n : hs[i].parent = hs[i - 1].digest
        /\ hs[n].digest = tip.digest
    BY <1>2, <2>1 DEF ChainLinksTo
  <2>3. \A i \in 1 .. n : i \in DOMAIN l /\ hs[(n - i) + 1].digest = l[i].digest
    BY <2>1, <2>2, KernelFollowsLineage
  <2>4. n \in DOMAIN l /\ hs[1].digest = l[n].digest
    <3>1. n \in 1 .. n /\ (n - n) + 1 = 1
      BY <2>1
    <3> QED
      BY <2>3, <3>1
  <2>5. l[n] \in Tree /\ hs[1] \in Headers
    BY <2>1, <2>4, LineageAt
  <2>6. l[n].parent = c.digest
    BY <2>2, <2>4, <2>5, HeaderWithDigest
  <2>7. n + 1 \in DOMAIN l /\ l[n + 1] = c
    BY <2>4, <2>6, LineageAt
  <2> DEFINE path == UpwardPath(tip, n + 1)
  <2>8. /\ DOMAIN path = 1 .. n
        /\ \A i \in 1 .. n : path[i] = HeaderOf(l[(n + 1) - i])
    BY <2>1, <2>7, UpwardPathIs
  <2>9. ASSUME NEW i \in 1 .. n PROVE hs[i].digest = path[i].digest
    <3>1. (n + 1) - i \in 1 .. n /\ (n - ((n + 1) - i)) + 1 = i
      BY <2>1
    <3>2. hs[i].digest = l[(n + 1) - i].digest
      BY <2>3, <3>1
    <3>3. path[i] = HeaderOf(l[(n + 1) - i])
      BY <2>8
    <3> HIDE DEF path, l
    <3> QED
      BY <3>2, <3>3 DEF HeaderOf
  <2> HIDE DEF path
  <2>10. Digests(hs) = Digests(path)
    BY <2>1, <2>8, <2>9 DEF Digests
  <2> QED
    BY <2>7, <2>10 DEF path
<1> QED
  BY <1>1, <1>2

-----------------------------------------------------------------------------
(* The one variable is a list of headers a host can show.                  *)
HeadersOK == headers \in Seq(Headers)

(* It stays one: hosts put headers together, they cannot show anything     *)
(* else (validate-claim-bundle, verify_header_chain_to_checkpoint).        *)
THEOREM TypeCorrect == Spec => []HeadersOK
<1>1. Init => HeadersOK
  BY DEF Init, HeadersOK
<1>2. HeadersOK /\ [Next]_headers => HeadersOK'
  BY DEF HeadersOK, Next, AddHeader
<1> QED
  BY <1>1, <1>2, PTL DEF Spec

(* The wallet accepts exactly the headers of the true path from the cursor *)
(* to the checkpoint (verify_header_chain_to_checkpoint), whatever the     *)
(* tree and the list.                                                      *)
THEOREM WalletWalkSound == Spec => []WalletWalkIsAncestry
<1>1. HeadersOK => WalletWalkIsAncestry
  BY WalletWalk DEF HeadersOK, WalletWalkIsAncestry, TruePath
<1> QED
  BY <1>1, TypeCorrect, PTL

(* The kernel's walk accepts the headers of the true path and nothing that *)
(* runs through other blocks (chain-links-to).                             *)
THEOREM KernelWalkSound == Spec => []KernelWalkIsAncestry
<1>1. HeadersOK => KernelWalkIsAncestry
  <2> SUFFICES ASSUME HeadersOK, NEW tip \in Tree, NEW c \in Tree
               PROVE  LET ks == {k \in DOMAIN Lineage[tip] : Lineage[tip][k] = c}
                          accepted == ChainLinksTo(c.digest, headers, tip.digest)
                      IN  /\ (\E k \in ks : headers = UpwardPath(tip, k)) => accepted
                          /\ accepted => \E k \in ks :
                               Digests(headers) = Digests(UpwardPath(tip, k))
    BY DEF KernelWalkIsAncestry, UpwardPath, Digests
  <2>1. ASSUME NEW k \in DOMAIN Lineage[tip], Lineage[tip][k] = c,
               headers = UpwardPath(tip, k)
        PROVE  ChainLinksTo(c.digest, headers, tip.digest)
    BY <2>1, KernelAcceptsTruePath
  <2>2. ASSUME ChainLinksTo(c.digest, headers, tip.digest)
        PROVE  \E k \in DOMAIN Lineage[tip] :
                 /\ Lineage[tip][k] = c
                 /\ Digests(headers) = Digests(UpwardPath(tip, k))
    BY <2>2, KernelAcceptsOnlyTruePath DEF HeadersOK
  <2> QED
    BY <2>1, <2>2
<1> QED
  BY <1>1, TypeCorrect, PTL

-----------------------------------------------------------------------------
(* The verdicts on a claim.                                                *)
LEMMA FeeIsNat == \A n \in Name : FeeForName(n) \in Nat
<1> SUFFICES ASSUME NEW n \in Name PROVE FeeForName(n) \in Nat
  OBVIOUS
<1> DEFINE stem == IF n.suffixed THEN n.bytes - 5 ELSE n.bytes
<1>1. stem \in Nat
  BY NameAssumption
<1>2. FeeForName(n) = CASE stem = 0             -> 0
                        [] stem >= 10           -> 6553600
                        [] stem \in 5 .. 9      -> 32768000
                        [] stem \in 1 .. 4      -> 327680000
  BY DEF FeeForName
<1> HIDE DEF stem
<1>3. stem = 0 \/ stem >= 10 \/ stem \in 5 .. 9 \/ stem \in 1 .. 4
  BY <1>1
<1> QED
  BY <1>1, <1>2, <1>3

LEMMA ScheduledClaim ==
  ASSUME NEW c \in Claim
  PROVE  /\ AtSchedule(c).name = c.name
         /\ AtSchedule(c).owner = c.owner
         /\ AtSchedule(c).fee = FeeForName(c.name)
         /\ AtSchedule(c).txHash = c.txHash
         /\ AtSchedule(c).witness = c.witness
BY DEF AtSchedule, Claim

(* One claim, one page: what %validate-claim asks, and what the scanner    *)
(* asks more.                                                              *)
LEMMA VerdictIsScanners ==
  ASSUME NEW c \in Claim, NEW digest, NEW page, NEW hs, NEW tip
  PROVE  LET accepted == ValidateClaimBundle(BundleOf(c, digest, page, hs, tip))
                           = "ok"
             evidence == digest = page.digest /\ ChainLinksTo(digest, hs, tip)
         IN  /\ accepted <=> /\ evidence
                             /\ c.fee >= FeeForName(c.name)
                             /\ ValidClaim(page, AtSchedule(c))
             /\ evidence => ( ValidClaim(page, c)
                                <=> accepted /\ c.witness.amount >= c.fee )
<1> DEFINE b        == BundleOf(c, digest, page, hs, tip)
           evidence == digest = page.digest /\ ChainLinksTo(digest, hs, tip)
           Pays(n)  == c.witness.amount >= n
           fits     == /\ IsValidName(c.name)
                       /\ c.txHash \in page.txIds
                       /\ c.witness.txId = c.txHash
                       /\ c.witness.spender = c.owner
                       /\ c.witness.lockRoot = TreasuryLockRoot
<1>1. /\ c.fee \in Nat
      /\ c.witness.amount \in Nat
      /\ FeeForName(c.name) \in Nat
  BY FeeIsNat DEF Claim, Witness
<1>2. ValidateClaimBundle(b) = "ok" <=>
        /\ fits /\ evidence
        /\ c.fee >= FeeForName(c.name) /\ Pays(FeeForName(c.name))
  <2>1. /\ c.fee >= FeeForName(c.name) <=> ~(c.fee < FeeForName(c.name))
        /\ Pays(FeeForName(c.name))
              <=> ~(c.witness.amount < FeeForName(c.name))
    BY <1>1
  <2>2. /\ b.claim = c /\ b.page = page /\ b.blockDigest = digest
        /\ b.headers = hs /\ b.tip = tip
    BY DEF BundleOf
  <2> HIDE DEF b, Pays
  <2> QED
    BY <2>1, <2>2 DEF ValidateClaimBundle
<1>3. ValidClaim(page, c) <=>
        fits /\ c.fee >= FeeForName(c.name) /\ Pays(c.fee)
  BY DEF ValidClaim
<1>4. ValidClaim(page, AtSchedule(c)) <=> fits /\ Pays(FeeForName(c.name))
  <2>1. PICK d : d = AtSchedule(c)
    OBVIOUS
  <2>2. /\ d.name = c.name /\ d.owner = c.owner /\ d.txHash = c.txHash
        /\ d.fee = FeeForName(c.name) /\ d.witness = c.witness
    BY <2>1, ScheduledClaim
  <2>3. FeeForName(c.name) >= FeeForName(c.name)
    BY <1>1
  <2>4. ValidClaim(page, d) <=> fits /\ Pays(FeeForName(c.name))
    BY <2>2, <2>3 DEF ValidClaim
  <2> QED
    BY <2>1, <2>4
<1>5. c.fee >= FeeForName(c.name) /\ Pays(c.fee) => Pays(FeeForName(c.name))
  BY <1>1
<1>6. Pays(c.fee) <=> c.witness.amount >= c.fee
  OBVIOUS
<1> HIDE DEF fits, Pays
<1>7. ValidateClaimBundle(b) = "ok" <=>
        /\ evidence
        /\ c.fee >= FeeForName(c.name)
        /\ ValidClaim(page, AtSchedule(c))
  <2> HIDE DEF evidence, b
  <2> QED
    BY <1>2, <1>4
<1>8. evidence => ( ValidClaim(page, c)
                      <=> /\ ValidateClaimBundle(b) = "ok"
                          /\ c.witness.amount >= c.fee )
  <2> HIDE DEF evidence, b
  <2> QED
    BY <1>2, <1>3, <1>5, <1>6
<1> QED
  BY <1>7, <1>8

(* %validate-claim and the scanner of %scan-block differ in the fee a      *)
(* claim declares and in the evidence, and in nothing else                 *)
(* (validate-claim-bundle against valid-claim).                            *)
THEOREM ScannerIsValidateAndDeclaredFee ==
  Spec => []ScannerAddsTheDeclaredFee
<1>1. ScannerAddsTheDeclaredFee
  BY VerdictIsScanners, PoolAssumption DEF ScannerAddsTheDeclaredFee
<1> QED
  BY <1>1, PTL

LEMMA PaidClaim ==
  ASSUME NEW c \in Claim
  PROVE  /\ FullyPaid(c).name = c.name
         /\ FullyPaid(c).owner = c.owner
         /\ FullyPaid(c).fee = c.fee
         /\ FullyPaid(c).txHash = c.txHash
         /\ FullyPaid(c).witness =
              [txId |-> c.txHash, spender |-> c.owner,
               amount |-> FeeForName(c.name), lockRoot |-> TreasuryLockRoot]
BY DEF FullyPaid, Claim

(* The linear validator, which a wallet's proof is about, leaves out the   *)
(* payment and nothing else (validate-claim-bundle-linear).                *)
THEOREM LinearIsValidateButPayment == Spec => []LinearLacksOnlyThePayment
<1>1. ASSUME NEW c \in Claim, NEW digest, NEW page, NEW hs, NEW tip
      PROVE  ValidateClaimBundleLinear(BundleOf(c, digest, page, hs, tip))
               = ValidateClaimBundle(
                   BundleOf(FullyPaid(c), digest, page, hs, tip))
  <2>1. FeeForName(c.name) \in Nat
    BY FeeIsNat DEF Claim
  <2>2. ~(FeeForName(c.name) < FeeForName(c.name))
    BY <2>1
  <2> DEFINE b    == BundleOf(c, digest, page, hs, tip)
             paid == BundleOf(FullyPaid(c), digest, page, hs, tip)
  <2>3. /\ paid.claim.name = c.name
        /\ paid.claim.fee = c.fee
        /\ paid.claim.txHash = c.txHash
        /\ paid.claim.witness.txId = paid.claim.txHash
        /\ paid.claim.witness.spender = paid.claim.owner
        /\ paid.claim.witness.amount = FeeForName(c.name)
        /\ paid.claim.witness.lockRoot = TreasuryLockRoot
    <3>1. paid.claim = FullyPaid(c)
      BY DEF BundleOf
    <3> HIDE DEF paid
    <3>2. PICK f : f = FullyPaid(c)
      OBVIOUS
    <3>3. f.witness = [txId |-> c.txHash, spender |-> c.owner,
                       amount |-> FeeForName(c.name),
                       lockRoot |-> TreasuryLockRoot]
      BY <3>2, PaidClaim
    <3>4. f.name = c.name /\ f.owner = c.owner /\ f.fee = c.fee
          /\ f.txHash = c.txHash
      BY <3>2, PaidClaim
    <3> QED
      BY <3>1, <3>2, <3>3, <3>4
  <2>4. /\ b.claim = c
        /\ b.page = page /\ paid.page = page
        /\ b.blockDigest = digest /\ paid.blockDigest = digest
        /\ b.headers = hs /\ paid.headers = hs
        /\ b.tip = tip /\ paid.tip = tip
    BY DEF BundleOf
  <2> HIDE DEF b, paid
  <2>5. ValidateClaimBundleLinear(b) = ValidateClaimBundle(paid)
    BY <2>2, <2>3, <2>4 DEF ValidateClaimBundleLinear, ValidateClaimBundle
  <2> QED
    BY <2>5 DEF b, paid
<1>2. LinearLacksOnlyThePayment
  BY <1>1, PoolAssumption DEF LinearLacksOnlyThePayment
<1> QED
  BY <1>2, PTL
=============================================================================
