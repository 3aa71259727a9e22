-------------------------- MODULE KernelWireProofs --------------------------
(***************************************************************************)
(* Proofs about the wire between hull and kernel (KernelWire), for every   *)
(* reachable kernel and lists of any length.                               *)
(***************************************************************************)
EXTENDS KernelWire, KernelPartsProofs

-----------------------------------------------------------------------------
(* Spines: a noun that starts with the n elements of s, the last of which  *)
(* is what is left.                                                        *)
TailAt(noun, f, i) ==
  IF i = 0 THEN noun ELSE IF IsCell(f[i - 1]) THEN f[i - 1][2] ELSE Crash

Behind == INSTANCE FoldFacts WITH Op <- LAMBDA p, f, i : TailAt(p, f, i)

LEMMA TailsExist ==
  ASSUME NEW noun
  PROVE  Tails(noun) = [i \in Nat |-> TailAt(noun, Tails(noun), i)]
<1>1. Behind!LooksBack(noun)
  <2> SUFFICES ASSUME NEW i \in Nat, NEW f, NEW g,
                      \A j \in 0 .. i - 1 : f[j] = g[j]
               PROVE  TailAt(noun, f, i) = TailAt(noun, g, i)
    BY DEF Behind!LooksBack
  <2>1. i # 0 => f[i - 1] = g[i - 1]
    OBVIOUS
  <2> QED
    BY <2>1 DEF TailAt
<1>2. \E f : f = [i \in Nat |-> TailAt(noun, f, i)]
  BY <1>1, Behind!RecursiveFcn
<1> QED
  BY <1>2 DEF Tails, TailAt

LEMMA TailsAre ==
  ASSUME NEW noun
  PROVE  /\ Tails(noun)[0] = noun
         /\ \A i \in Nat : Tails(noun)[i + 1] = TailOf(Tails(noun)[i])
<1>1. \A i \in Nat : Tails(noun)[i] = TailAt(noun, Tails(noun), i)
  BY TailsExist
<1>2. ASSUME NEW i \in Nat PROVE Tails(noun)[i + 1] = TailOf(Tails(noun)[i])
  <2>1. i + 1 \in Nat /\ i + 1 # 0 /\ (i + 1) - 1 = i
    OBVIOUS
  <2> QED
    BY <1>1, <2>1 DEF TailAt, TailOf
<1> QED
  BY <1>1, <1>2 DEF TailAt

IsSpine(noun, s, n, from) ==
  /\ noun = from[1]
  /\ from[n] = s[n]
  /\ \A i \in 1 .. n - 1 : from[i] = Cell(s[i], from[i + 1])

LEMMA SpineTails ==
  ASSUME NEW noun, NEW s, NEW n \in Nat \ {0}, NEW from,
         IsSpine(noun, s, n, from)
  PROVE  \A i \in 1 .. n : Tails(noun)[i - 1] = from[i]
<1> DEFINE S == {j \in Nat : j < n => Tails(noun)[j] = from[j + 1]}
<1>1. 0 \in S
  BY TailsAre DEF IsSpine
<1>2. ASSUME NEW j \in Nat, j \in S PROVE j + 1 \in S
  <2> SUFFICES ASSUME j + 1 < n
               PROVE  Tails(noun)[j + 1] = from[(j + 1) + 1]
    OBVIOUS
  <2>1. Tails(noun)[j] = from[j + 1] /\ j + 1 \in 1 .. n - 1
    BY <1>2
  <2>2. from[j + 1] = Cell(s[j + 1], from[(j + 1) + 1])
    BY <2>1 DEF IsSpine
  <2> QED
    BY <2>1, <2>2, TailsAre, CellIs
<1> HIDE DEF S
<1>3. \A j \in Nat : j \in S
  BY <1>1, <1>2, Behind!NatInd
<1>4. ASSUME NEW i \in 1 .. n PROVE Tails(noun)[i - 1] = from[i]
  <2>1. i - 1 \in Nat /\ i - 1 < n /\ (i - 1) + 1 = i
    OBVIOUS
  <2> QED
    BY <1>3, <2>1 DEF S
<1> QED
  BY <1>4

(* s reads as the n elements of t. *)
Reads(s, t, n) == DOMAIN s = 1 .. n /\ Len(s) = n /\ \A i \in 1 .. n : s[i] = t[i]

LEMMA SpineFields ==
  ASSUME NEW noun, NEW s, NEW n \in Nat \ {0}, NEW from,
         IsSpine(noun, s, n, from)
  PROVE  Reads(Fields(n, noun), s, n)
<1> DEFINE heads == {i \in 1 .. n - 1 : IsCell(Tails(noun)[i - 1])}
           last  == Cardinality(heads) + 1
           t     == Tails(noun)
<1>1. ASSUME NEW i \in 1 .. n - 1
      PROVE  IsCell(t[i - 1]) /\ t[i - 1][1] = s[i]
  <2>1. t[i - 1] = Cell(s[i], from[i + 1])
    BY SpineTails DEF IsSpine
  <2> QED
    BY <2>1, CellIs
<1>2. t[n - 1] = s[n]
  BY SpineTails DEF IsSpine
<1>3. heads = 1 .. n - 1
  BY <1>1
<1>4. last = n
  <2>1. Cardinality(1 .. n - 1) = n - 1
    BY FS_Interval
  <2> HIDE DEF heads
  <2> QED
    BY <1>3, <2>1
<1>5. Fields(n, noun) =
        [i \in 1 .. last |-> IF i < last THEN t[i - 1][1] ELSE t[i - 1]]
  BY DEF Fields
<1> HIDE DEF heads, last, t
<1>6. \A i \in 1 .. n : Fields(n, noun)[i] = s[i]
  BY <1>1, <1>2, <1>4, <1>5
<1>7. DOMAIN Fields(n, noun) = 1 .. n
  BY <1>4, <1>5
<1>8. Len(Fields(n, noun)) = n
  BY <1>4, <1>5
<1> QED
  BY <1>6, <1>7, <1>8 DEF Reads

LEMMA TupleFields ==
  ASSUME NEW s, NEW n \in Nat \ {0}, DOMAIN s = 1 .. n, Len(s) = n
  PROVE  Reads(Fields(n, Tuple(s)), s, n)
<1>1. PICK from : IsTuple(s, n, from)
  BY TupleIs
<1>2. IsSpine(Tuple(s), s, n, from)
  BY <1>1 DEF IsTuple, IsSpine
<1> QED
  BY <1>2, SpineFields

(* Behind the tag of a poke come its fields. *)
LEMMA TaggedFields ==
  ASSUME NEW s, NEW k \in Nat \ {0}, DOMAIN s = 1 .. k + 1, Len(s) = k + 1
  PROVE  /\ IsCell(Tuple(s)) /\ Tuple(s)[1] = s[1]
         /\ Reads(Fields(k, Tuple(s)[2]), [i \in 1 .. k |-> s[i + 1]], k)
<1> DEFINE t == [i \in 1 .. k |-> s[i + 1]]
<1>1. PICK from : IsTuple(s, k + 1, from)
  BY TupleIs
<1> DEFINE rest == [i \in 1 .. k |-> from[i + 1]]
<1>2. Tuple(s) = Cell(s[1], from[2])
  BY <1>1 DEF IsTuple
<1>3. IsSpine(from[2], t, k, rest)
  <2>1. rest[1] = from[2] /\ rest[k] = from[k + 1] /\ from[k + 1] = s[k + 1]
    BY <1>1 DEF IsTuple
  <2>2. ASSUME NEW i \in 1 .. k - 1
        PROVE  rest[i] = Cell(t[i], rest[i + 1])
    <3>1. i + 1 \in 1 .. (k + 1) - 1 /\ i + 1 \in 1 .. k /\ i \in 1 .. k
      OBVIOUS
    <3>2. from[i + 1] = Cell(s[i + 1], from[(i + 1) + 1])
      BY <1>1, <3>1 DEF IsTuple
    <3> QED
      BY <3>1, <3>2
  <2>3. t[k] = s[k + 1]
    OBVIOUS
  <2> HIDE DEF rest, t
  <2> QED
    BY <2>1, <2>2, <2>3 DEF IsSpine
<1>4. Reads(Fields(k, from[2]), t, k)
  <2> HIDE DEF rest, t
  <2> QED
    BY <1>3, SpineFields
<1>5. IsCell(Tuple(s)) /\ Tuple(s)[1] = s[1] /\ Tuple(s)[2] = from[2]
  BY <1>2, CellIs
<1> QED
  BY <1>4, <1>5

(* A list gives back its elements. *)
LEMMA NullIs == IsAtom(Null) /\ ~IsCell(Null)
BY AtomIs DEF Null, Num

LEMMA ListReads ==
  ASSUME NEW S, NEW s, NEW n \in Nat, IsSeqOf(s, n, S)
  PROVE  Reads(ListElements(ListOf(s)), s, n)
<1> DEFINE noun == ListOf(s)
           z    == Append(s, Null)
           t    == Tails(noun)
<1>1. /\ DOMAIN z = 1 .. n + 1 /\ Len(z) = n + 1
      /\ z[n + 1] = Null /\ \A i \in 1 .. n : z[i] = s[i]
  <2>1. s \in Seq(S \cup {Null}) /\ Null \in S \cup {Null}
    BY DEF IsSeqOf
  <2>2. /\ z \in Seq(S \cup {Null}) /\ Len(z) = Len(s) + 1
        /\ \A i \in 1 .. Len(s) : z[i] = s[i]
        /\ z[Len(s) + 1] = Null
    BY <2>1, AppendProperties
  <2> QED
    BY <2>2, LenProperties DEF IsSeqOf
<1> HIDE DEF z
<1>2. PICK from : IsTuple(z, n + 1, from)
  BY <1>1, TupleIs
<1>3. IsSpine(noun, z, n + 1, from)
  BY <1>2 DEF IsTuple, IsSpine, ListOf, z
<1> HIDE DEF noun
<1>4. \A i \in 1 .. n + 1 : t[i - 1] = from[i]
  BY <1>3, SpineTails
<1> HIDE DEF t
<1>5. t[n] = Null
  BY <1>1, <1>3, <1>4 DEF IsSpine
<1>6. ASSUME NEW i \in 1 .. n
      PROVE  t[i - 1][1] = s[i] /\ IsCell(t[i - 1])
  <2>1. i \in 1 .. (n + 1) - 1 /\ i \in 1 .. n + 1
    OBVIOUS
  <2>2. from[i] = Cell(s[i], from[i + 1])
    BY <1>1, <1>3, <2>1 DEF IsSpine
  <2> QED
    BY <1>4, <2>1, <2>2, CellIs
<1>7. \A j \in Nat : j >= n => ~IsCell(t[j])
  <2> DEFINE R == {j \in Nat : j >= n => ~IsCell(t[j])}
  <2>1. 0 \in R
    BY <1>5, NullIs
  <2>2. ASSUME NEW j \in Nat, j \in R PROVE j + 1 \in R
    <3>1. CASE j >= n
      <4>1. t[j + 1] = Crash
        BY <2>2, <3>1, TailsAre DEF TailOf, t
      <4>2. ~IsCell(t[j + 1])
        BY <4>1 DEF IsCell, Crash
      <4> QED
        BY <4>2
    <3>2. CASE j + 1 = n
      BY <1>5, <3>2, NullIs
    <3> QED
      BY <3>1, <3>2
  <2> HIDE DEF R
  <2>3. \A j \in Nat : j \in R
    BY <2>1, <2>2, Behind!NatInd
  <2> QED
    BY <2>3 DEF R
<1> DEFINE LengthAt(g, i) == IF IsCell(t[i]) THEN 1 + g[i + 1] ELSE 0
<1>8. \E g : g = [i \in Nat |-> LengthAt(g, i)]
  <2> DEFINE g == [i \in Nat |-> IF i < n THEN n - i ELSE 0]
  <2>1. ASSUME NEW i \in Nat PROVE g[i] = LengthAt(g, i)
    <3>1. CASE i < n
      <4>1. i + 1 \in 1 .. n /\ (i + 1) - 1 = i
        BY <3>1
      <4>2. IsCell(t[i])
        BY <1>6, <4>1
      <4>3. g[i] = n - i /\ g[i + 1] = n - (i + 1)
        BY <3>1
      <4> QED
        BY <4>2, <4>3
    <3>2. CASE ~(i < n)
      BY <1>7, <3>2
    <3> QED
      BY <3>1, <3>2
  <2>2. g = [i \in Nat |-> LengthAt(g, i)]
    BY <2>1
  <2> QED
    BY <2>2
<1> DEFINE length == CHOOSE g : g = [i \in Nat |-> LengthAt(g, i)]
<1>9. length = [i \in Nat |-> LengthAt(length, i)]
  BY <1>8
<1>10. ListElements(noun) = [i \in 1 .. length[0] |-> t[i - 1][1]]
  BY DEF ListElements, t
<1> HIDE DEF length
<1>11. \A i \in Nat : length[i] = IF IsCell(t[i]) THEN 1 + length[i + 1] ELSE 0
  BY <1>9
<1>12. length[0] = n
  <2> DEFINE R == {j \in Nat : j <= n => length[n - j] = j}
  <2>1. 0 \in R
    BY <1>7, <1>11
  <2>2. ASSUME NEW j \in Nat, j \in R PROVE j + 1 \in R
    <3> SUFFICES ASSUME j + 1 <= n PROVE length[n - (j + 1)] = j + 1
      OBVIOUS
    <3>1. n - j \in 1 .. n /\ n - (j + 1) \in Nat /\ (n - j) - 1 = n - (j + 1)
          /\ (n - (j + 1)) + 1 = n - j
      OBVIOUS
    <3>2. IsCell(t[n - (j + 1)])
      BY <1>6, <3>1
    <3>3. length[n - j] = j
      BY <2>2
    <3> QED
      BY <1>11, <3>1, <3>2, <3>3
  <2> HIDE DEF R
  <2>3. n \in R
    BY <2>1, <2>2, Behind!NatInd
  <2> QED
    BY <2>3 DEF R
<1>13. \A i \in 1 .. n : ListElements(noun)[i] = s[i]
  BY <1>6, <1>10, <1>12
<1>14. DOMAIN ListElements(noun) = 1 .. n /\ Len(ListElements(noun)) = n
  BY <1>10, <1>12
<1> QED
  BY <1>13, <1>14 DEF Reads, noun

-----------------------------------------------------------------------------
(* Atoms and what is read out of them. *)
LEMMA AtomsBack ==
  ASSUME NEW x
  PROVE  /\ AsNumber(Num(x)) = x /\ AsCord(Cord(x)) = x
         /\ AsName(Named(x)) = x /\ Cue(Jam(x)) = x
         /\ Jam(x) # Null /\ Cord(x) # Null
         /\ IsAtom(Hash(x)) /\ IsAtom(Cord(x)) /\ IsAtom(Jam(x))
<1>1. [jam |-> x] # [num |-> 0] /\ [cord |-> x] # [num |-> 0]
  OBVIOUS
<1>2. Jam(x) # Null /\ Cord(x) # Null
  BY <1>1, AtomIs DEF Jam, Cord, Null, Num
<1>3. AsNumber(Num(x)) = x /\ AsCord(Cord(x)) = x
  BY AtomIs DEF AsNumber, Num, AsCord, Cord
<1>4. AsName(Named(x)) = x /\ Cue(Jam(x)) = x
  BY AtomIs DEF AsName, Named, Cue, Jam
<1>5. IsAtom(Hash(x)) /\ IsAtom(Cord(x)) /\ IsAtom(Jam(x))
  BY AtomIs DEF Hash, Null, Num, Cord, Jam
<1> QED
  BY <1>2, <1>3, <1>4, <1>5

LEMMA BytesBack ==
  ASSUME NEW d
  PROVE  AsBytes(Hash(d)) = d
<1>1. CASE d = ZeroDigest
  BY <1>1 DEF AsBytes, Hash
<1>2. CASE d # ZeroDigest
  <2>1. [hash |-> d] # [num |-> 0]
    OBVIOUS
  <2>2. Hash(d) = Atom([hash |-> d]) /\ Hash(d) # Null /\ Hash(d)[1] = [hash |-> d]
    BY <1>2, <2>1, AtomIs DEF Hash, Null, Num
  <2> QED
    BY <2>2 DEF AsBytes
<1> QED
  BY <1>1, <1>2

LEMMA CordsDiffer ==
  ASSUME NEW x, NEW y
  PROVE  Cord(x) = Cord(y) <=> x = y
<1>1. AsCord(Cord(x)) = x /\ AsCord(Cord(y)) = y
  BY AtomsBack
<1> QED
  BY <1>1

-----------------------------------------------------------------------------
(* A poke arrives at the arm of its tag with the fields it was built of.   *)
Arrives(tag, k, s) ==
  /\ SoftCause(tag, Tuple(s)) # None
  /\ Reads(SoftCause(tag, Tuple(s))[1], [i \in 1 .. k |-> s[i + 1]], k)

LEMMA PokeArrives ==
  ASSUME NEW tag, NEW k \in Nat \ {0}, [tag |-> tag, fields |-> k] \in Causes,
         \A c \in Causes : c.tag = tag => c.fields = k,
         NEW s, DOMAIN s = 1 .. k + 1, Len(s) = k + 1, s[1] = Cord(tag)
  PROVE  Arrives(tag, k, s)
<1> DEFINE noun == Tuple(s)
           t    == [i \in 1 .. k |-> s[i + 1]]
           f    == Fields(k, noun[2])
           fits == {c \in Causes : c.tag = tag /\ noun[1] = Cord(c.tag)}
<1>1. noun[1] = Cord(tag) /\ Reads(f, t, k)
  BY TaggedFields
<1>2. [tag |-> tag, fields |-> k] \in fits
  BY <1>1
<1>3. (CHOOSE c \in fits : TRUE).fields = k
  <2>1. \A c \in fits : c.fields = k
    OBVIOUS
  <2> HIDE DEF fits
  <2> QED
    BY <1>2, <2>1
<1>4. Len(f) = k
  BY <1>1 DEF Reads
<1>5. fits # {} /\ ~(Len(f) < k)
  BY <1>2, <1>4
<1>6. SoftCause(tag, noun) = Some(f)
  <2>1. SoftCause(tag, noun) =
          IF fits = {} \/ Len(Fields((CHOOSE c \in fits : TRUE).fields, noun[2]))
                            < (CHOOSE c \in fits : TRUE).fields
          THEN None
          ELSE Some(Fields((CHOOSE c \in fits : TRUE).fields, noun[2]))
    BY DEF SoftCause
  <2> HIDE DEF fits, noun
  <2> QED
    BY <1>3, <1>5, <2>1
<1> HIDE DEF f, noun
<1>7. Some(f) # None /\ Some(f)[1] = f
  BY DEF Some, None
<1> QED
  BY <1>1, <1>6, <1>7 DEF Arrives, noun

LEMMA CauseTags ==
  /\ [tag |-> "scan-block", fields |-> 5] \in Causes
  /\ [tag |-> "prove-recursive-transition", fields |-> 7] \in Causes
  /\ [tag |-> "verify-accumulator-snapshot", fields |-> 7] \in Causes
  /\ [tag |-> "verify-stark", fields |-> 1] \in Causes
  /\ [tag |-> "verify-stark-explicit", fields |-> 3] \in Causes
  /\ [tag |-> "verify-chain-link", fields |-> 3] \in Causes
  /\ [tag |-> "verify-tx-in-page", fields |-> 3] \in Causes
  /\ [tag |-> "validate-claim", fields |-> 14] \in Causes
  /\ \A c \in Causes :
       /\ c.tag = "scan-block" => c.fields = 5
       /\ c.tag = "prove-recursive-transition" => c.fields = 7
       /\ c.tag = "verify-accumulator-snapshot" => c.fields = 7
       /\ c.tag = "verify-stark" => c.fields = 1
       /\ c.tag = "verify-stark-explicit" => c.fields = 3
       /\ c.tag = "verify-chain-link" => c.fields = 3
       /\ c.tag = "verify-tx-in-page" => c.fields = 3
       /\ c.tag = "validate-claim" => c.fields = 14
       /\ c.tag \notin {"claim", "set-primary", "prove-claim"}
BY DEF Causes

(* A noun with another tag fits no mold. *)
LEMMA NoCause ==
  ASSUME NEW tag, \A c \in Causes : c.tag # tag,
         NEW s, NEW k \in Nat \ {0}, DOMAIN s = 1 .. k + 1, Len(s) = k + 1,
         s[1] = Cord(tag)
  PROVE  InvalidCause(Tuple(s))
<1> SUFFICES ASSUME NEW c \in Causes
             PROVE  SoftCause(c.tag, Tuple(s)) = None
  BY DEF InvalidCause
<1>1. Tuple(s)[1] = Cord(tag)
  BY TaggedFields
<1>2. {d \in Causes : d.tag = c.tag /\ Tuple(s)[1] = Cord(d.tag)} = {}
  BY <1>1, CordsDiffer
<1> QED
  BY <1>2 DEF SoftCause

-----------------------------------------------------------------------------
(* What is first heard in no effect, in one, and in two: to the decoder of *)
(* each kind of effect, as no lemma can take it as a parameter.            *)
LEMMA NothingHeard ==
  /\ First(ScanBlockDone, <<>>) = None
  /\ First(ScanBlockError, <<>>) = None
  /\ First(ProveFailed, <<>>) = None
  /\ First(GenesisRecursiveProof, <<>>) = None
  /\ First(RecursiveTransitionProof, <<>>) = None
  /\ First(GenesisRecursiveDryRunOk, <<>>) = None
  /\ First(RecursiveTransitionDryRunOk, <<>>) = None
BY DEF First, SelectInSeq

LEMMA OneHeard ==
  ASSUME NEW e
  PROVE  /\ First(ScanBlockDone, <<e>>) = ScanBlockDone(e)
         /\ First(ScanBlockError, <<e>>) = ScanBlockError(e)
         /\ First(ProveFailed, <<e>>) = ProveFailed(e)
         /\ First(GenesisRecursiveProof, <<e>>) = GenesisRecursiveProof(e)
         /\ First(RecursiveTransitionProof, <<e>>) = RecursiveTransitionProof(e)
         /\ First(GenesisRecursiveDryRunOk, <<e>>) = GenesisRecursiveDryRunOk(e)
         /\ First(RecursiveTransitionDryRunOk, <<e>>) = RecursiveTransitionDryRunOk(e)
         /\ First(ClaimInStarkProof, <<e>>) = ClaimInStarkProof(e)
         /\ First(ArbitraryProof, <<e>>) = ArbitraryProof(e)
         /\ First(ValidateClaimResult, <<e>>) = ValidateClaimResult(e)
         /\ First(ChainLinkResult, <<e>>) = ChainLinkResult(e)
         /\ First(TxInPageResult, <<e>>) = TxInPageResult(e)
         /\ First(VerifyStarkResult, <<e>>) = VerifyStarkResult(e)
         /\ First(SnapshotResult, <<e>>) = SnapshotResult(e)
<1> DEFINE fx == <<e>>
<1>0. Len(fx) = 1 /\ fx[1] = e /\ 1 .. Len(fx) = {1} /\ Min({1}) = 1
  BY DEF Min
<1> HIDE DEF fx
<1>1. First(ScanBlockDone, fx) = ScanBlockDone(e)
  BY <1>0 DEF First, SelectInSeq
<1>2. First(ScanBlockError, fx) = ScanBlockError(e)
  BY <1>0 DEF First, SelectInSeq
<1>3. First(ProveFailed, fx) = ProveFailed(e)
  BY <1>0 DEF First, SelectInSeq
<1>4. First(GenesisRecursiveProof, fx) = GenesisRecursiveProof(e)
  BY <1>0 DEF First, SelectInSeq
<1>5. First(RecursiveTransitionProof, fx) = RecursiveTransitionProof(e)
  BY <1>0 DEF First, SelectInSeq
<1>6. First(GenesisRecursiveDryRunOk, fx) = GenesisRecursiveDryRunOk(e)
  BY <1>0 DEF First, SelectInSeq
<1>7. First(RecursiveTransitionDryRunOk, fx) = RecursiveTransitionDryRunOk(e)
  BY <1>0 DEF First, SelectInSeq
<1>8. First(ClaimInStarkProof, fx) = ClaimInStarkProof(e)
  BY <1>0 DEF First, SelectInSeq
<1>9. First(ArbitraryProof, fx) = ArbitraryProof(e)
  BY <1>0 DEF First, SelectInSeq
<1>10. First(ValidateClaimResult, fx) = ValidateClaimResult(e)
  BY <1>0 DEF First, SelectInSeq
<1>11. First(ChainLinkResult, fx) = ChainLinkResult(e)
  BY <1>0 DEF First, SelectInSeq
<1>12. First(TxInPageResult, fx) = TxInPageResult(e)
  BY <1>0 DEF First, SelectInSeq
<1>13. First(VerifyStarkResult, fx) = VerifyStarkResult(e)
  BY <1>0 DEF First, SelectInSeq
<1>14. First(SnapshotResult, fx) = SnapshotResult(e)
  BY <1>0 DEF First, SelectInSeq
<1> QED
  BY <1>1, <1>2, <1>3, <1>4, <1>5, <1>6, <1>7, <1>8, <1>9, <1>10, <1>11, <1>12, <1>13, <1>14
     DEF fx

LEMMA TwoHeard ==
  ASSUME NEW d, NEW e
  PROVE  /\ First(ScanBlockDone, <<d, e>>) =
              IF ScanBlockDone(d) # None
              THEN ScanBlockDone(d) ELSE ScanBlockDone(e)
         /\ First(ScanBlockError, <<d, e>>) =
              IF ScanBlockError(d) # None
              THEN ScanBlockError(d) ELSE ScanBlockError(e)
         /\ First(ProveFailed, <<d, e>>) =
              IF ProveFailed(d) # None
              THEN ProveFailed(d) ELSE ProveFailed(e)
         /\ First(GenesisRecursiveProof, <<d, e>>) =
              IF GenesisRecursiveProof(d) # None
              THEN GenesisRecursiveProof(d) ELSE GenesisRecursiveProof(e)
         /\ First(RecursiveTransitionProof, <<d, e>>) =
              IF RecursiveTransitionProof(d) # None
              THEN RecursiveTransitionProof(d) ELSE RecursiveTransitionProof(e)
         /\ First(GenesisRecursiveDryRunOk, <<d, e>>) =
              IF GenesisRecursiveDryRunOk(d) # None
              THEN GenesisRecursiveDryRunOk(d) ELSE GenesisRecursiveDryRunOk(e)
         /\ First(RecursiveTransitionDryRunOk, <<d, e>>) =
              IF RecursiveTransitionDryRunOk(d) # None
              THEN RecursiveTransitionDryRunOk(d) ELSE RecursiveTransitionDryRunOk(e)
<1> DEFINE fx == <<d, e>>
<1>0. /\ Len(fx) = 2 /\ fx[1] = d /\ fx[2] = e /\ 1 .. Len(fx) = {1, 2}
      /\ Min({1}) = 1 /\ Min({2}) = 2 /\ Min({1, 2}) = 1
  BY DEF Min
<1> HIDE DEF fx
<1>1. First(ScanBlockDone, fx) =
        IF ScanBlockDone(d) # None
        THEN ScanBlockDone(d) ELSE ScanBlockDone(e)
  BY <1>0 DEF First, SelectInSeq
<1>2. First(ScanBlockError, fx) =
        IF ScanBlockError(d) # None
        THEN ScanBlockError(d) ELSE ScanBlockError(e)
  BY <1>0 DEF First, SelectInSeq
<1>3. First(ProveFailed, fx) =
        IF ProveFailed(d) # None
        THEN ProveFailed(d) ELSE ProveFailed(e)
  BY <1>0 DEF First, SelectInSeq
<1>4. First(GenesisRecursiveProof, fx) =
        IF GenesisRecursiveProof(d) # None
        THEN GenesisRecursiveProof(d) ELSE GenesisRecursiveProof(e)
  BY <1>0 DEF First, SelectInSeq
<1>5. First(RecursiveTransitionProof, fx) =
        IF RecursiveTransitionProof(d) # None
        THEN RecursiveTransitionProof(d) ELSE RecursiveTransitionProof(e)
  BY <1>0 DEF First, SelectInSeq
<1>6. First(GenesisRecursiveDryRunOk, fx) =
        IF GenesisRecursiveDryRunOk(d) # None
        THEN GenesisRecursiveDryRunOk(d) ELSE GenesisRecursiveDryRunOk(e)
  BY <1>0 DEF First, SelectInSeq
<1>7. First(RecursiveTransitionDryRunOk, fx) =
        IF RecursiveTransitionDryRunOk(d) # None
        THEN RecursiveTransitionDryRunOk(d) ELSE RecursiveTransitionDryRunOk(e)
  BY <1>0 DEF First, SelectInSeq
<1> QED
  BY <1>1, <1>2, <1>3, <1>4, <1>5, <1>6, <1>7
     DEF fx

LEMMA PayloadIs ==
  ASSUME NEW t, NEW tag, NEW p
  PROVE  EffectPayload(t, Effect(tag, p)) = IF t = tag THEN Some(p) ELSE None
BY CellIs, CordsDiffer DEF EffectPayload, Effect

LEMMA SomeIs ==
  ASSUME NEW x
  PROVE  Some(x) # None /\ Some(x)[1] = x
BY DEF Some, None

(* A decoder does not hear the effects of another tag. *)
LEMMA OthersUnheard ==
  ASSUME NEW tag, NEW p
  PROVE  LET e == Effect(tag, p)
         IN  /\ tag # "scan-block-done"  => ScanBlockDone(e) = None
             /\ tag # "scan-block-error" => ScanBlockError(e) = None
             /\ tag # "prove-failed"     => ProveFailed(e) = None
             /\ tag # "genesis-recursive-proof" =>
                  GenesisRecursiveProof(e) = None
             /\ tag # "recursive-transition-proof" =>
                  RecursiveTransitionProof(e) = None
             /\ tag # "genesis-recursive-dry-run-ok" =>
                  GenesisRecursiveDryRunOk(e) = None
             /\ tag # "recursive-transition-dry-run-ok" =>
                  RecursiveTransitionDryRunOk(e) = None
             /\ tag # "claim-in-stark-proof" => ClaimInStarkProof(e) = None
             /\ tag # "arbitrary-proof" => ArbitraryProof(e) = None
BY PayloadIs DEF ScanBlockDone, ScanBlockError, ProveFailed,
                 GenesisRecursiveProof, RecursiveTransitionProof, JamOfPayload,
                 GenesisRecursiveDryRunOk, RecursiveTransitionDryRunOk, Loobean,
                 ClaimInStarkProof, ArbitraryProof

(* What it hears in its own. *)
LEMMA OwnHeard ==
  ASSUME NEW p
  PROVE  /\ ScanBlockError(Effect("scan-block-error", p)) = Some(AsCord(p))
         /\ ProveFailed(Effect("prove-failed", p)) = Some(p)
         /\ GenesisRecursiveProof(Effect("genesis-recursive-proof", p))
              = Some(Jam(p))
         /\ RecursiveTransitionProof(Effect("recursive-transition-proof", p))
              = Some(Jam(p))
         /\ ArbitraryProof(Effect("arbitrary-proof", p))
              = Some([product |-> Jam(p[1]), proof |-> Jam(p[2])])
         /\ ClaimInStarkProof(Effect("claim-in-stark-proof", p))
              = Some([validation |-> IF p[1][1] = Null THEN "ok"
                                     ELSE AsCord(p[1][2]),
                      proof |-> Jam(p[2])])
BY PayloadIs, SomeIs DEF ScanBlockError, ProveFailed,
                 GenesisRecursiveProof, RecursiveTransitionProof, JamOfPayload,
                 ClaimInStarkProof, ArbitraryProof

LEMMA ScanBlockDoneHeard ==
  ASSUME NEW h, NEW d, NEW root
  PROVE  ScanBlockDone(Effect("scan-block-done", Tuple(<<Num(h), Hash(d), root>>)))
           = Some([height |-> h, digest |-> d, root |-> root])
<1> DEFINE s == <<Num(h), Hash(d), root>>
           f == Fields(3, Tuple(s))
<1>1. /\ 3 \in Nat \ {0} /\ DOMAIN s = 1 .. 3 /\ Len(s) = 3
      /\ s[1] = Num(h) /\ s[2] = Hash(d) /\ s[3] = root
  OBVIOUS
<1> HIDE DEF s
<1>2. f[1] = Num(h) /\ f[2] = Hash(d) /\ f[3] = root
  <2>1. Reads(f, s, 3)
    BY <1>1, TupleFields
  <2> QED
    BY <1>1, <2>1 DEF Reads
<1>3. ScanBlockDone(Effect("scan-block-done", Tuple(s))) =
        Some([height |-> AsNumber(f[1]), digest |-> AsBytes(f[2]), root |-> f[3]])
  BY PayloadIs, SomeIs DEF ScanBlockDone
<1> QED
  BY <1>2, <1>3, AtomsBack, BytesBack DEF s

-----------------------------------------------------------------------------
(* A verdict of a dry run goes before a proof or a failure.                *)
LEMMA DryRunIs ==
  ASSUME NEW tag, NEW dry \in DryRunEffects(tag)
  PROVE  \E p : dry = Effect(tag, p)
BY DEF DryRunEffects, YesNo, Effect

(* The effects a poke may have emitted, by the kernel's effect. *)
LEMMA EmittedIs ==
  ASSUME TypeOK, NEW fx \in Emitted
  PROVE  \/ effect \in {"none", "poke-crashed"} /\ fx = <<>>
         \/ /\ effect = "scan-block-done"
            /\ fx = <<Effect("scan-block-done",
                             Tuple(<<Num(lastProvedHeight),
                                     Hash(lastProvedDigest),
                                     RootAtom(accumulator)>>))>>
         \/ /\ effect \in ScanErrors
            /\ fx = <<Effect("scan-block-error", Cord(effect))>>
         \/ /\ effect = "prove-failed"
            /\ \E p : \/ fx = <<Effect("prove-failed", p)>>
                      \/ \E tag \in {"genesis-recursive-dry-run-ok",
                                     "recursive-transition-dry-run-ok"} : \E q :
                           fx = <<Effect(tag, q), Effect("prove-failed", p)>>
         \/ /\ effect = "genesis-recursive-proof"
            /\ \E q : fx = <<Effect("genesis-recursive-dry-run-ok", q),
                             Effect("genesis-recursive-proof",
                                    ProofNoun(recursiveProof))>>
         \/ /\ effect = "recursive-transition-proof"
            /\ \E q : fx = <<Effect("recursive-transition-dry-run-ok", q),
                             Effect("recursive-transition-proof",
                                    ProofNoun(recursiveProof))>>
         \/ /\ effect = "other-proof"
            /\ \/ fx = <<Effect("arbitrary-proof",
                                Cell(Num(7), ProofNoun(lastProved)))>>
               \/ \E product \in {Cell(Num(0), Null),
                                  Cell(Num(1), Cord("chain-broken"))} :
                    fx = <<Effect("claim-in-stark-proof",
                                  Cell(product, ProofNoun(lastProved)))>>
<1>0. effect \in Effects
  BY DEF TypeOK
<1>1. CASE effect \in {"none", "poke-crashed"}
  BY <1>1, Zenon DEF Emitted
<1>2. CASE effect = "scan-block-done"
  BY <1>2 DEF Emitted, ScanErrors
<1>3. CASE effect \in ScanErrors
  BY <1>3 DEF Emitted, ScanErrors
<1>4. CASE effect = "prove-failed"
  BY <1>4, DryRunIs DEF Emitted, ScanErrors
<1>5. CASE effect = "genesis-recursive-proof"
  BY <1>5, DryRunIs DEF Emitted, ScanErrors
<1>6. CASE effect = "recursive-transition-proof"
  BY <1>6, DryRunIs DEF Emitted, ScanErrors
<1>7. CASE effect = "other-proof"
  BY <1>7 DEF Emitted, ScanErrors
<1> QED
  BY <1>0, <1>1, <1>2, <1>3, <1>4, <1>5, <1>6, <1>7 DEF Effects

LEMMA EffectsHeard ==
  ASSUME TypeOK
  PROVE  EffectsAreHeard
<1> SUFFICES ASSUME NEW fx \in Emitted
             PROVE  EffectsAreHeard!(fx)
  BY DEF EffectsAreHeard
<1>1. CASE effect \in {"none", "poke-crashed"} /\ fx = <<>>
  BY <1>1, NothingHeard DEF ScanErrors
<1>2. CASE /\ effect = "scan-block-done"
           /\ fx = <<Effect("scan-block-done",
                            Tuple(<<Num(lastProvedHeight),
                                    Hash(lastProvedDigest),
                                    RootAtom(accumulator)>>))>>
  <2> DEFINE e == Effect("scan-block-done", Tuple(<<Num(lastProvedHeight),
                         Hash(lastProvedDigest), RootAtom(accumulator)>>))
  <2>1. ScanBlockDone(e) =
          Some([height |-> lastProvedHeight, digest |-> lastProvedDigest,
                root |-> RootAtom(accumulator)])
    BY ScanBlockDoneHeard
  <2>2. /\ ScanBlockError(e) = None /\ ProveFailed(e) = None
        /\ GenesisRecursiveProof(e) = None
        /\ RecursiveTransitionProof(e) = None
        /\ RecursiveTransitionDryRunOk(e) = None
    BY OthersUnheard
  <2> HIDE DEF e
  <2>3. fx = <<e>>
    BY <1>2 DEF e
  <2> QED
    BY <1>2, <2>1, <2>2, <2>3, OneHeard DEF ScanErrors
<1>3. CASE effect \in ScanErrors /\ fx = <<Effect("scan-block-error", Cord(effect))>>
  <2> DEFINE e == Effect("scan-block-error", Cord(effect))
  <2>1. ScanBlockError(e) = Some(effect)
    <3>1. ScanBlockError(e) = Some(AsCord(Cord(effect)))
      BY OwnHeard
    <3>2. AsCord(Cord(effect)) = effect
      BY AtomsBack
    <3> QED
      BY <3>1, <3>2
  <2>2. /\ ScanBlockDone(e) = None /\ ProveFailed(e) = None
        /\ GenesisRecursiveProof(e) = None
        /\ RecursiveTransitionProof(e) = None
        /\ RecursiveTransitionDryRunOk(e) = None
    BY OthersUnheard
  <2> HIDE DEF e
  <2>3. fx = <<e>>
    BY <1>3 DEF e
  <2> QED
    BY <1>3, <2>1, <2>2, <2>3, OneHeard DEF ScanErrors
<1>4. ASSUME effect = "prove-failed",
             NEW p, fx = <<Effect("prove-failed", p)>>
      PROVE  EffectsAreHeard!(fx)
  <2> DEFINE e == Effect("prove-failed", p)
  <2>1. ProveFailed(e) # None
    BY OwnHeard, SomeIs
  <2>2. /\ ScanBlockDone(e) = None /\ ScanBlockError(e) = None
        /\ GenesisRecursiveProof(e) = None
        /\ RecursiveTransitionProof(e) = None
        /\ RecursiveTransitionDryRunOk(e) = None
    BY OthersUnheard
  <2> HIDE DEF e
  <2>3. fx = <<e>>
    BY <1>4 DEF e
  <2> QED
    BY <1>4, <2>1, <2>2, <2>3, OneHeard DEF ScanErrors
<1>5. ASSUME effect = "prove-failed", NEW p, NEW q,
             NEW tag \in {"genesis-recursive-dry-run-ok",
                          "recursive-transition-dry-run-ok"},
             fx = <<Effect(tag, q), Effect("prove-failed", p)>>
      PROVE  EffectsAreHeard!(fx)
  <2> DEFINE d == Effect(tag, q)
             e == Effect("prove-failed", p)
  <2>1. ProveFailed(e) # None
    BY OwnHeard, SomeIs
  <2>2. /\ ScanBlockDone(e) = None /\ ScanBlockError(e) = None
        /\ GenesisRecursiveProof(e) = None
        /\ RecursiveTransitionProof(e) = None
        /\ GenesisRecursiveDryRunOk(e) = None
        /\ RecursiveTransitionDryRunOk(e) = None
    BY OthersUnheard
  <2>3. /\ ScanBlockDone(d) = None /\ ScanBlockError(d) = None
        /\ ProveFailed(d) = None
        /\ GenesisRecursiveProof(d) = None
        /\ RecursiveTransitionProof(d) = None
        /\ \/ GenesisRecursiveDryRunOk(d) = None
           \/ RecursiveTransitionDryRunOk(d) = None
    BY OthersUnheard
  <2> HIDE DEF d, e
  <2>4. fx = <<d, e>>
    BY <1>5 DEF d, e
  <2>5. /\ First(ScanBlockDone, fx) = None /\ First(ScanBlockError, fx) = None
        /\ First(ProveFailed, fx) # None
        /\ First(GenesisRecursiveProof, fx) = None
        /\ First(RecursiveTransitionProof, fx) = None
        /\ \/ First(GenesisRecursiveDryRunOk, fx) = None
           \/ First(RecursiveTransitionDryRunOk, fx) = None
    BY <2>1, <2>2, <2>3, <2>4, TwoHeard
  <2> QED
    BY <1>5, <2>5 DEF ScanErrors
<1>6. ASSUME effect = "genesis-recursive-proof", NEW q,
             fx = <<Effect("genesis-recursive-dry-run-ok", q),
                    Effect("genesis-recursive-proof", ProofNoun(recursiveProof))>>
      PROVE  EffectsAreHeard!(fx)
  <2> DEFINE d == Effect("genesis-recursive-dry-run-ok", q)
             e == Effect("genesis-recursive-proof", ProofNoun(recursiveProof))
  <2>1. GenesisRecursiveProof(e) = Some(Jam(ProofNoun(recursiveProof)))
    BY OwnHeard
  <2>2. /\ ScanBlockDone(e) = None /\ ScanBlockError(e) = None
        /\ ProveFailed(e) = None
        /\ RecursiveTransitionProof(e) = None
        /\ RecursiveTransitionDryRunOk(e) = None
    BY OthersUnheard
  <2>3. /\ ScanBlockDone(d) = None /\ ScanBlockError(d) = None
        /\ ProveFailed(d) = None
        /\ GenesisRecursiveProof(d) = None
        /\ RecursiveTransitionProof(d) = None
        /\ RecursiveTransitionDryRunOk(d) = None
    BY OthersUnheard
  <2> HIDE DEF d, e
  <2>4. fx = <<d, e>>
    BY <1>6 DEF d, e
  <2>5. /\ First(ScanBlockDone, fx) = None /\ First(ScanBlockError, fx) = None
        /\ First(ProveFailed, fx) = None
        /\ First(GenesisRecursiveProof, fx) =
             Some(Jam(ProofNoun(recursiveProof)))
        /\ First(RecursiveTransitionProof, fx) = None
        /\ First(RecursiveTransitionDryRunOk, fx) = None
    BY <2>1, <2>2, <2>3, <2>4, TwoHeard
  <2> QED
    BY <1>6, <2>5 DEF ScanErrors
<1>7. ASSUME effect = "recursive-transition-proof", NEW q,
             fx = <<Effect("recursive-transition-dry-run-ok", q),
                    Effect("recursive-transition-proof",
                           ProofNoun(recursiveProof))>>
      PROVE  EffectsAreHeard!(fx)
  <2> DEFINE d == Effect("recursive-transition-dry-run-ok", q)
             e == Effect("recursive-transition-proof", ProofNoun(recursiveProof))
  <2>1. RecursiveTransitionProof(e) = Some(Jam(ProofNoun(recursiveProof)))
    BY OwnHeard
  <2>2. /\ ScanBlockDone(e) = None /\ ScanBlockError(e) = None
        /\ ProveFailed(e) = None
        /\ GenesisRecursiveProof(e) = None
        /\ GenesisRecursiveDryRunOk(e) = None
    BY OthersUnheard
  <2>3. /\ ScanBlockDone(d) = None /\ ScanBlockError(d) = None
        /\ ProveFailed(d) = None
        /\ GenesisRecursiveProof(d) = None
        /\ RecursiveTransitionProof(d) = None
        /\ GenesisRecursiveDryRunOk(d) = None
    BY OthersUnheard
  <2> HIDE DEF d, e
  <2>4. fx = <<d, e>>
    BY <1>7 DEF d, e
  <2>5. /\ First(ScanBlockDone, fx) = None /\ First(ScanBlockError, fx) = None
        /\ First(ProveFailed, fx) = None
        /\ First(GenesisRecursiveProof, fx) = None
        /\ First(RecursiveTransitionProof, fx) =
             Some(Jam(ProofNoun(recursiveProof)))
        /\ First(GenesisRecursiveDryRunOk, fx) = None
    BY <2>1, <2>2, <2>3, <2>4, TwoHeard
  <2> QED
    BY <1>7, <2>5 DEF ScanErrors
<1>8. ASSUME effect = "other-proof", NEW e, fx = <<e>>,
             ScanBlockDone(e) = None, ScanBlockError(e) = None,
             ProveFailed(e) = None, GenesisRecursiveProof(e) = None,
             RecursiveTransitionProof(e) = None,
             RecursiveTransitionDryRunOk(e) = None,
             \/ /\ ClaimInStarkProof(e) = None
                /\ ArbitraryProof(e)[1].proof = Jam(ProofNoun(lastProved))
             \/ /\ ArbitraryProof(e) = None
                /\ ClaimInStarkProof(e)[1].validation \in {"ok", "chain-broken"}
                /\ ClaimInStarkProof(e)[1].proof = Jam(ProofNoun(lastProved))
      PROVE  EffectsAreHeard!(fx)
  BY <1>8, OneHeard DEF ScanErrors
<1>9. CASE /\ effect = "other-proof"
           /\ fx = <<Effect("arbitrary-proof", Cell(Num(7), ProofNoun(lastProved)))>>
  <2> DEFINE p == Cell(Num(7), ProofNoun(lastProved))
             e == Effect("arbitrary-proof", p)
  <2>1. /\ ScanBlockDone(e) = None /\ ScanBlockError(e) = None
        /\ ProveFailed(e) = None
        /\ GenesisRecursiveProof(e) = None
        /\ RecursiveTransitionProof(e) = None
        /\ RecursiveTransitionDryRunOk(e) = None
        /\ ClaimInStarkProof(e) = None
    BY OthersUnheard
  <2>2. p[2] = ProofNoun(lastProved)
    BY CellIs
  <2>3. ArbitraryProof(e) = Some([product |-> Jam(p[1]), proof |-> Jam(p[2])])
    BY OwnHeard
  <2> HIDE DEF p, e
  <2>4. ArbitraryProof(e)[1].proof = Jam(ProofNoun(lastProved))
    BY <2>2, <2>3, SomeIs
  <2>5. fx = <<e>>
    BY <1>9 DEF p, e
  <2> QED
    BY <1>8, <1>9, <2>1, <2>4, <2>5
<1>10. ASSUME effect = "other-proof",
              NEW product \in {Cell(Num(0), Null),
                               Cell(Num(1), Cord("chain-broken"))},
              fx = <<Effect("claim-in-stark-proof",
                            Cell(product, ProofNoun(lastProved)))>>
       PROVE  EffectsAreHeard!(fx)
  <2> DEFINE p == Cell(product, ProofNoun(lastProved))
             e == Effect("claim-in-stark-proof", p)
  <2>1. /\ ScanBlockDone(e) = None /\ ScanBlockError(e) = None
        /\ ProveFailed(e) = None
        /\ GenesisRecursiveProof(e) = None
        /\ RecursiveTransitionProof(e) = None
        /\ RecursiveTransitionDryRunOk(e) = None
        /\ ArbitraryProof(e) = None
    BY OthersUnheard
  <2>2. p[1] = product /\ p[2] = ProofNoun(lastProved)
    BY CellIs
  <2>3. ClaimInStarkProof(e) =
          Some([validation |-> IF p[1][1] = Null THEN "ok"
                               ELSE AsCord(p[1][2]),
                proof |-> Jam(p[2])])
    BY OwnHeard
  <2>4. product[1] = Null \/ AsCord(product[2]) = "chain-broken"
    BY CellIs, AtomsBack DEF Null
  <2> HIDE DEF p, e
  <2>5. /\ ClaimInStarkProof(e)[1].validation \in {"ok", "chain-broken"}
        /\ ClaimInStarkProof(e)[1].proof = Jam(ProofNoun(lastProved))
    BY <2>2, <2>3, <2>4, SomeIs
  <2>6. fx = <<e>>
    BY <1>10 DEF p, e
  <2> QED
    BY <1>8, <1>10, <2>1, <2>5, <2>6
<1> QED
  BY <1>1, <1>2, <1>3, <1>4, <1>5, <1>6, <1>7, <1>9, <1>10, EmittedIs

-----------------------------------------------------------------------------
(* Peeks: what the arms answer, and what the decoders make of it.          *)
LEMMA ValueIs ==
  ASSUME NEW noun
  PROVE  /\ PeekUnwrapInner(Value(noun)) = [known |-> TRUE, value |-> Some(noun)]
         /\ PeekUnwrapSome(Value(noun))[1] = noun
<1> DEFINE v == Value(noun)
<1>1. v = Cell(Null, Cell(Null, noun))
  BY Tuple3 DEF Value
<1>2. v[2] = Cell(Null, noun) /\ v[2][2] = noun
  BY <1>1, CellIs
<1>3. ~IsAtom(v) /\ ~IsAtom(v[2])
  BY <1>1, <1>2 DEF IsAtom, Cell
<1> HIDE DEF v
<1>4. PeekUnwrapInner(v) = [known |-> TRUE, value |-> Some(noun)]
  BY <1>2, <1>3 DEF PeekUnwrapInner
<1>5. PeekUnwrapSome(v)[1] = noun
  BY <1>4, SomeIs DEF PeekUnwrapSome
<1> QED
  BY <1>4, <1>5 DEF v

LEMMA UnitIs ==
  ASSUME NEW noun
  PROVE  ~IsAtom(Unit(noun)) /\ Unit(noun)[2] = noun
BY DEF Unit, IsAtom, Cell

LEMMA PathIs ==
  ASSUME NEW tag, NEW name
  PROVE  /\ AsCord(SingleTagPeek(tag)[1]) = tag
         /\ AsCord(NamePeek(tag, name)[1]) = tag
         /\ AsName(NamePeek(tag, name)[2][1]) = name
<1>1. NamePeek(tag, name) = Cell(Cord(tag), Cell(Named(name), Null))
  BY Tuple3 DEF NamePeek
<1>2. /\ NamePeek(tag, name)[1] = Cord(tag)
      /\ NamePeek(tag, name)[2][1] = Named(name)
  BY <1>1, CellIs
<1>3. SingleTagPeek(tag)[1] = Cord(tag)
  BY CellIs DEF SingleTagPeek
<1> QED
  BY <1>2, <1>3, AtomsBack

LEMMA PeeksAre ==
  ASSUME NEW name
  PROVE  /\ Peek(NamePeek("accumulator", name)) =
              Value(IF HasRow(accumulator, name)
                    THEN Unit(RowNoun(accumulator[name])) ELSE Null)
         /\ Peek(NamePeek("accumulator-proof", name)) =
              Value(IF HasRow(accumulator, name) THEN Unit(ProofAxis) ELSE Null)
         /\ Peek(NamePeek("fee-for-name", name)) = Value(Num(FeeForName(name)))
         /\ Peek(SingleTagPeek("accumulator-root")) = Value(RootAtom(accumulator))
         /\ Peek(SingleTagPeek("accumulator-jam")) = Value(Jam(accumulator))
         /\ Peek(SingleTagPeek("recursive-proof")) = RecursiveProofPeek
         /\ Peek(SingleTagPeek("kernel-debug")) = Value(KernelDebug)
         /\ Peek(SingleTagPeek("scan-state")) =
              Value(Tuple(<<Num(lastProvedHeight), Hash(lastProvedDigest),
                            RootAtom(accumulator),
                            Num(Cardinality(DOMAIN accumulator))>>))
BY PathIs DEF Peek

(* A row and back. *)
LEMMA RowBack ==
  ASSUME NEW r \in Entry
  PROVE  RowOfFields(Fields(5, RowNoun(r))) = r
<1> DEFINE s == <<Named(r.name), Cord(r.owner), Hash(r.txHash),
                  Num(r.claimHeight), Hash(r.blockDigest)>>
           f == Fields(5, Tuple(s))
<1>1. /\ 5 \in Nat \ {0} /\ DOMAIN s = 1 .. 5 /\ Len(s) = 5
      /\ s[1] = Named(r.name) /\ s[2] = Cord(r.owner) /\ s[3] = Hash(r.txHash)
      /\ s[4] = Num(r.claimHeight) /\ s[5] = Hash(r.blockDigest)
  OBVIOUS
<1>2. RowNoun(r) = Tuple(s)
  BY DEF RowNoun
<1> HIDE DEF s
<1>3. Reads(f, s, 5)
  BY <1>1, TupleFields
<1>4. /\ f[1] = Named(r.name) /\ f[2] = Cord(r.owner) /\ f[3] = Hash(r.txHash)
      /\ f[4] = Num(r.claimHeight) /\ f[5] = Hash(r.blockDigest)
  BY <1>1, <1>3 DEF Reads
<1> HIDE DEF f
<1>5. /\ AsName(f[1]) = r.name /\ AsCord(f[2]) = r.owner
      /\ AsBytes(f[3]) = r.txHash /\ AsNumber(f[4]) = r.claimHeight
      /\ AsBytes(f[5]) = r.blockDigest
  BY <1>4, AtomsBack, BytesBack
<1>6. RowOfFields(f) = r
  BY <1>5 DEF RowOfFields, Entry
<1> QED
  BY <1>2, <1>6 DEF f

(* ok=? effects. *)
LEMMA LoobeanIs ==
  ASSUME NEW tag
  PROVE  /\ Loobean(tag, Effect(tag, Num(0))) = Some(TRUE)
         /\ Loobean(tag, Effect(tag, Num(1))) = Some(FALSE)
<1>1. Num(0) = Null /\ Num(1) # Null
  <2>1. AsNumber(Num(0)) = 0 /\ AsNumber(Num(1)) = 1
    BY AtomsBack
  <2> QED
    BY <2>1 DEF Null
<1>2. ASSUME NEW n PROVE Loobean(tag, Effect(tag, Num(n))) = Some(Num(n) = Null)
  <2> DEFINE p == EffectPayload(tag, Effect(tag, Num(n)))
  <2>1. p = Some(Num(n))
    BY PayloadIs
  <2>2. p # None /\ p[1] = Num(n)
    BY <2>1, SomeIs
  <2>3. Loobean(tag, Effect(tag, Num(n)))
          = IF p = None THEN None ELSE Some(p[1] = Null)
    BY Zenon DEF Loobean
  <2> HIDE DEF p
  <2>4. Loobean(tag, Effect(tag, Num(n))) = Some(p[1] = Null)
    BY <2>2, <2>3, Zenon
  <2> QED
    BY <2>2, <2>4, Zenon
<1>3. Some(Num(0) = Null) = Some(TRUE)
  BY <1>1 DEF Some
<1>4. Some(Num(1) = Null) = Some(FALSE)
  BY <1>1 DEF Some
<1> QED
  BY <1>2, <1>3, <1>4

-----------------------------------------------------------------------------
(* Every row is stored under its name. *)
LEMMA RowsAreNamed ==
  ASSUME RegistryIsReplay, NEW n \in DOMAIN accumulator
  PROVE  accumulator[n].name = n
<1>1. CASE n = Tld
  BY <1>1 DEF RegistryIsReplay, TldReserved, HasRow, GenesisTldEntry
<1>2. CASE n # Tld
  BY <1>2 DEF RegistryIsReplay, RowsAreFirstClaims, RowOf, ClaimAt
<1> QED
  BY <1>1, <1>2

(* What the kernel answers to the row of a lookup. *)
AskSnapshot(root, accJam, r) ==
  First(SnapshotResult,
        SnapshotEffects(SoftCause("verify-accumulator-snapshot",
          BuildVerifyAccumulatorSnapshotPoke(root, accJam, r))[1]))

LEMMA SnapshotAnswer ==
  ASSUME NEW acc, NEW r
  PROVE  AskSnapshot(RootAtom(acc), Jam(acc), r) =
           IF VerifyAccumulatorSnapshot(Root(acc), acc, r.name,
                [name |-> r.name, owner |-> r.owner, txHash |-> r.txHash,
                 claimHeight |-> r.claimHeight, blockDigest |-> r.blockDigest])
                = "ok"
           THEN Some(TRUE) ELSE Some(FALSE)
<1> DEFINE tag == "verify-accumulator-snapshot"
           out == "accumulator-snapshot-verify-result"
           s == <<Cord(tag), RootAtom(acc), Jam(acc), Named(r.name),
                  Cord(r.owner), Hash(r.txHash), Num(r.claimHeight),
                  Hash(r.blockDigest)>>
           f == SoftCause(tag, Tuple(s))[1]
           row == [name |-> r.name, owner |-> r.owner, txHash |-> r.txHash,
                   claimHeight |-> r.claimHeight, blockDigest |-> r.blockDigest]
<1>1. /\ 7 \in Nat \ {0} /\ DOMAIN s = 1 .. 7 + 1 /\ Len(s) = 7 + 1
      /\ s[1] = Cord(tag) /\ s[2] = RootAtom(acc) /\ s[3] = Jam(acc)
      /\ s[4] = Named(r.name) /\ s[5] = Cord(r.owner) /\ s[6] = Hash(r.txHash)
      /\ s[7] = Num(r.claimHeight) /\ s[8] = Hash(r.blockDigest)
  OBVIOUS
<1>2. BuildVerifyAccumulatorSnapshotPoke(RootAtom(acc), Jam(acc), r) = Tuple(s)
  BY DEF BuildVerifyAccumulatorSnapshotPoke
<1> HIDE DEF s
<1>3. Arrives(tag, 7, s)
  BY <1>1, PokeArrives, CauseTags
<1>4. /\ DOMAIN f = 1 .. 7 /\ Len(f) = 7
      /\ f[1] = RootAtom(acc) /\ f[2] = Jam(acc) /\ f[3] = Named(r.name)
      /\ f[4] = Cord(r.owner) /\ f[5] = Hash(r.txHash)
      /\ f[6] = Num(r.claimHeight) /\ f[7] = Hash(r.blockDigest)
  BY <1>1, <1>3 DEF Arrives, Reads
<1> HIDE DEF f
<1>5. f[1][1].root = Root(acc) /\ Cue(f[2]) = acc /\ AsName(f[3]) = r.name
  BY <1>4, AtomIs, AtomsBack DEF RootAtom
<1>6. RowOfNouns(SubSeq(f, 3, 7)) = row
  <2> DEFINE g == SubSeq(f, 3, 7)
  <2>1. g[1] = f[3] /\ g[2] = f[4] /\ g[3] = f[5] /\ g[4] = f[6] /\ g[5] = f[7]
    OBVIOUS
  <2> HIDE DEF g
  <2>2. /\ AsName(g[1]) = r.name /\ AsCord(g[2]) = r.owner
        /\ AsBytes(g[3]) = r.txHash /\ AsNumber(g[4]) = r.claimHeight
        /\ AsBytes(g[5]) = r.blockDigest
    BY <1>4, <2>1, AtomsBack, BytesBack
  <2>3. RowOfNouns(g) = row
    BY <2>2 DEF RowOfNouns
  <2> QED
    BY <2>3 DEF g
<1> DEFINE verdict == VerifyAccumulatorSnapshot(Root(acc), acc, r.name, row)
<1>7. SnapshotEffects(f) =
        <<Effect(out, IF verdict = "ok" THEN Num(0) ELSE Num(1))>>
  BY <1>5, <1>6 DEF SnapshotEffects, YesNo, Effect
<1> HIDE DEF verdict
<1>8. First(SnapshotResult, SnapshotEffects(f)) =
        IF verdict = "ok" THEN Some(TRUE) ELSE Some(FALSE)
  BY <1>7, OneHeard, LoobeanIs DEF SnapshotResult
<1> QED
  BY <1>2, <1>8 DEF AskSnapshot, verdict, f

(* What a lookup exports passes the wallet's kernel.                       *)
LEMMA LookupPasses ==
  ASSUME TypeOK, RegistryIsReplay
  PROVE  LookupVerifies
<1> SUFFICES ASSUME NEW name \in Name
             PROVE  LookupVerifies!(name)
  BY Zenon DEF LookupVerifies
<1> DEFINE row  == DecodeAccumulatorEntry(Peek(NamePeek("accumulator", name)))
           axis == DecodeAccumulatorProofAxis(
                     Peek(NamePeek("accumulator-proof", name)))
           root == DecodeAccumulatorRoot(Peek(SingleTagPeek("accumulator-root")))
           jam  == DecodeAccumulatorJam(Peek(SingleTagPeek("accumulator-jam")))
           acc  == accumulator
           Asked(r) ==
             First(SnapshotResult,
                   SnapshotEffects(SoftCause("verify-accumulator-snapshot",
                     BuildVerifyAccumulatorSnapshotPoke(root, jam, r))[1]))
<1>1. root = RootAtom(acc)
  BY PeeksAre, ValueIs DEF DecodeAccumulatorRoot
<1>2. jam = Jam(acc)
  BY PeeksAre, ValueIs DEF DecodeAccumulatorJam, DecodeAccumulatorRoot
<1>3. ASSUME NEW r PROVE Asked(r) = AskSnapshot(root, jam, r)
  BY DEF AskSnapshot
<1> HIDE DEF root, jam
<1>4. /\ acc # Garbled
      /\ \A n \in DOMAIN acc : acc[n] \in Entry /\ acc[n].name = n
  <2>1. acc \in [DOMAIN acc -> Entry] /\ DOMAIN acc \in SUBSET Name
    BY DEF TypeOK, IsAccumulator
  <2>2. acc # Garbled
    BY <2>1, WireAssumption
  <2> QED
    BY <2>1, <2>2, RowsAreNamed
<1>5. ASSUME NEW r \in Entry
      PROVE  Asked(r) =
               IF VerifyAccumulatorSnapshot(Root(acc), acc, r.name, r) = "ok"
               THEN Some(TRUE) ELSE Some(FALSE)
  <2>1. r = [name |-> r.name, owner |-> r.owner, txHash |-> r.txHash,
             claimHeight |-> r.claimHeight, blockDigest |-> r.blockDigest]
    BY DEF Entry
  <2> HIDE DEF Asked
  <2>2. Asked(r) = AskSnapshot(RootAtom(acc), Jam(acc), r)
    BY <1>1, <1>2, <1>3
  <2> QED
    BY <2>1, <2>2, SnapshotAnswer
<1> HIDE DEF Asked
<1>6. CASE HasRow(acc, name)
  <2> DEFINE r == acc[name]
  <2>1. r \in Entry /\ r.name = name
    BY <1>4, <1>6 DEF HasRow
  <2>2. row = Some(r)
    <3>1. PeekUnwrapSome(Peek(NamePeek("accumulator", name)))[1] = Unit(RowNoun(r))
      BY <1>6, PeeksAre, ValueIs
    <3> QED
      BY <2>1, <3>1, UnitIs, RowBack DEF DecodeAccumulatorEntry
  <2>3. axis # None
    <3>1. PeekUnwrapSome(Peek(NamePeek("accumulator-proof", name)))[1]
            = Unit(ProofAxis)
      BY <1>6, PeeksAre, ValueIs
    <3> QED
      BY <3>1, UnitIs, SomeIs DEF DecodeAccumulatorProofAxis
  <2>4. VerifyAccumulatorSnapshot(Root(acc), acc, r.name, r) = "ok"
    <3>1. [r EXCEPT !.name = r.name] = r
      BY <2>1 DEF Entry
    <3> QED
      BY <1>4, <1>6, <2>1, <3>1 DEF VerifyAccumulatorSnapshot
  <2> HIDE DEF r, row, axis
  <2>5. Asked(r) = Some(TRUE)
    BY <1>5, <2>1, <2>4
  <2>6. row # None /\ row[1] = r
    BY <2>2, SomeIs
  <2> QED
    BY <1>6, <2>3, <2>5, <2>6 DEF row, axis, root, jam, Asked
<1>7. CASE ~HasRow(acc, name)
  <2>1. row = None
    <3>1. PeekUnwrapSome(Peek(NamePeek("accumulator", name)))[1] = Null
      BY <1>7, PeeksAre, ValueIs
    <3> QED
      BY <3>1, NullIs DEF DecodeAccumulatorEntry
  <2>2. axis = None
    <3>1. PeekUnwrapSome(Peek(NamePeek("accumulator-proof", name)))[1] = Null
      BY <1>7, PeeksAre, ValueIs
    <3> QED
      BY <3>1, NullIs DEF DecodeAccumulatorProofAxis
  <2>3. ASSUME NEW n \in DOMAIN acc
        PROVE  Asked([acc[n] EXCEPT !.name = name]) = Some(FALSE)
    <3> DEFINE r == [acc[n] EXCEPT !.name = name]
    <3>1. r \in Entry /\ r.name = name
      BY <1>4 DEF Entry
    <3> HIDE DEF r
    <3>2. VerifyAccumulatorSnapshot(Root(acc), acc, r.name, r) = "bad"
      BY <1>4, <1>7, <3>1 DEF VerifyAccumulatorSnapshot
    <3>3. Asked(r) = Some(FALSE)
      BY <1>5, <3>1, <3>2
    <3> QED
      BY <3>3 DEF r
  <2> HIDE DEF row, axis
  <2> QED
    BY <1>7, <2>1, <2>2, <2>3 DEF row, axis, root, jam, Asked
<1> QED
  BY <1>6, <1>7

-----------------------------------------------------------------------------
(* Whoever stores a recursive proof has cached its pair.                   *)
ProofsAreCached == recursiveProof # NoProof => lastProved # NoProof

LEMMA ProofsAreCachedStep ==
  ASSUME TypeOK, ProofsAreCached, [Next]_kernelVars
  PROVE  ProofsAreCached'
<1>1. \/ UNCHANGED proofs
      \/ lastProved' = GenesisComputation
      \/ \E b \in ScanInput : lastProved' = TransitionComputation(b)
      \/ lastProved' = OtherComputation
  BY DEF Next, kernelVars, ScanBlock, ScanParentMismatch, ScanHeightMismatch,
         ScanTrap, ScanAccept, proofs, ProveRecursiveGenesis,
         ProveRecursiveTransition, ProveOther
<1>2. CASE UNCHANGED proofs
  BY <1>2 DEF proofs, ProofsAreCached
<1>3. CASE lastProved' \in {GenesisComputation, OtherComputation}
  <2>1. lastProved' \in Computation
    BY <1>3, AccumulatorAssumption
       DEF GenesisComputation, OtherComputation, Computation, TypeOK
  <2> QED
    BY <2>1, WireAssumption DEF ProofsAreCached
<1>4. ASSUME NEW b \in ScanInput, lastProved' = TransitionComputation(b)
      PROVE  ProofsAreCached'
  <2>1. b.digest \in Digest /\ b.claims \in Seq(Claim)
    BY ScanInputAssumption DEF ScanPayload
  <2>2. \A i \in DOMAIN b.claims : b.claims[i].name \in Name
    <3>1. \A i \in 1 .. Len(b.claims) : b.claims[i] \in Claim
      BY <2>1, ElementOfSeq
    <3>2. DOMAIN b.claims = 1 .. Len(b.claims)
      BY <2>1, LenProperties
    <3> QED
      BY <3>1, <3>2 DEF Claim
  <2>3. ClaimedNames(b) \in SUBSET Name
    BY <2>2 DEF ClaimedNames
  <2>4. PrevHeight \in Nat
    BY AccumulatorAssumption DEF PrevHeight, TypeOK
  <2>5. lastProved' \in Computation
    BY <1>4, <2>1, <2>3, <2>4 DEF TransitionComputation, Computation, TypeOK
  <2> QED
    BY <2>5, WireAssumption DEF ProofsAreCached
<1> QED
  BY <1>1, <1>2, <1>3, <1>4

(* Pairs and proofs are those of one computation, up to its bound.         *)
Unbound(c) == [c EXCEPT !.bound = 0]

LEMMA VerifiesIs ==
  ASSUME NEW c \in Computation, NEW d \in Computation
  PROVE  Verifies(ProofNoun(c), Traced(d, "subject"), Traced(d, "formula"))
           <=> Unbound(d) = Unbound(c)
<1>1. ProofNoun(c)[1][1].proves = c
  BY CellIs, AtomIs DEF ProofNoun
<1>2. ASSUME NEW part, NEW e
      PROVE  Traced(e, part)[1][1].of = Unbound(e)
  BY CellIs, AtomIs DEF Traced, Unbound
<1>3. ASSUME NEW part, Unbound(c) = Unbound(d)
      PROVE  Traced(c, part) = Traced(d, part)
  BY <1>3 DEF Traced, Unbound
<1>4. Traced(d, "subject") = Traced(c, "subject") => Unbound(d) = Unbound(c)
  BY <1>2
<1>5. Verifies(ProofNoun(c), Traced(d, "subject"), Traced(d, "formula"))
        <=> /\ Traced(d, "subject") = Traced(c, "subject")
            /\ Traced(d, "formula") = Traced(c, "formula")
  BY <1>1 DEF Verifies
<1> QED
  BY <1>3, <1>4, <1>5

(* The yes or no of an effect the hull hears.                              *)
LEMMA VerifyStarkAnswers ==
  ASSUME NEW ok \in BOOLEAN
  PROVE  First(VerifyStarkResult, <<YesNo("verify-stark-result", ok)>>) =
           IF ok THEN Some(TRUE) ELSE Some(FALSE)
<1> DEFINE e == Effect("verify-stark-result", IF ok THEN Num(0) ELSE Num(1))
<1>1. YesNo("verify-stark-result", ok) = e
  BY DEF YesNo, Effect
<1>2. VerifyStarkResult(e) = IF ok THEN Some(TRUE) ELSE Some(FALSE)
  BY LoobeanIs DEF VerifyStarkResult
<1> HIDE DEF e
<1> QED
  BY <1>1, <1>2, OneHeard

(* The stored triple as the hull exports it.                               *)
LEMMA TripleIs ==
  LET triple == DecodeRecursiveProof(Peek(SingleTagPeek("recursive-proof")))
  IN  triple = IF recursiveProof = NoProof THEN None
               ELSE Some([proof   |-> Jam(ProofNoun(recursiveProof)),
                          subject |-> Jam(Traced(recursiveProof, "subject")),
                          formula |-> Jam(Traced(recursiveProof, "formula"))])
<1> DEFINE s == <<Jam(ProofNoun(recursiveProof)),
                  Jam(Traced(recursiveProof, "subject")),
                  Jam(Traced(recursiveProof, "formula"))>>
           result == Peek(SingleTagPeek("recursive-proof"))
           f == Fields(3, Tuple(s))
<1>1. /\ 3 \in Nat \ {0} /\ DOMAIN s = 1 .. 3 /\ Len(s) = 3
      /\ s[1] = Jam(ProofNoun(recursiveProof))
      /\ s[2] = Jam(Traced(recursiveProof, "subject"))
      /\ s[3] = Jam(Traced(recursiveProof, "formula"))
      /\ Tuple(s) = Cell(s[1], Cell(s[2], s[3]))
  BY Tuple3
<1>2. result = IF recursiveProof = NoProof THEN Value(Null) ELSE Value(Tuple(s))
  BY PeeksAre DEF RecursiveProofPeek
<1> HIDE DEF s, result
<1>3. CASE recursiveProof = NoProof
  <2>1. PeekUnwrapInner(result).value = Some(Null)
    BY <1>2, <1>3, ValueIs
  <2>2. IsAtom(PeekUnwrapInner(result).value[1])
    BY <2>1, SomeIs, NullIs
  <2> QED
    BY <1>3, <2>2 DEF DecodeRecursiveProof, result
<1>4. CASE recursiveProof # NoProof
  <2>1. PeekUnwrapInner(result).value = Some(Tuple(s))
    BY <1>2, <1>4, ValueIs
  <2>2. ~IsAtom(Tuple(s))
    BY <1>1 DEF IsAtom, Cell
  <2>3. f[1] = s[1] /\ f[2] = s[2] /\ f[3] = s[3]
    <3>1. Reads(f, s, 3)
      BY <1>1, TupleFields
    <3> QED
      BY <3>1 DEF Reads
  <2>4. DecodeRecursiveProof(result) =
          Some([proof |-> f[1], subject |-> f[2], formula |-> f[3]])
    BY <2>1, <2>2, SomeIs DEF DecodeRecursiveProof
  <2> HIDE DEF f
  <2> QED
    BY <1>1, <1>4, <2>3, <2>4 DEF result
<1> QED
  BY <1>3, <1>4

(* The fields of the three pokes it is used in.                            *)
LEMMA TripleArrives ==
  ASSUME NEW t, NEW b
  PROVE  LET explicit == SoftCause("verify-stark-explicit",
                                   BuildVerifyStarkExplicitPoke(t))[1]
             cached   == SoftCause("verify-stark",
                                   BuildVerifyStarkPoke(t.proof))[1]
             next     == SoftCause("prove-recursive-transition",
                                   BuildProveRecursiveTransitionPoke(t, b))[1]
         IN  /\ explicit[1] = t.proof /\ explicit[2] = t.subject
             /\ explicit[3] = t.formula
             /\ cached[1] = t.proof
             /\ next[1] = t.proof /\ next[2] = t.subject
             /\ next[3] = t.formula
<1>1. LET f == SoftCause("verify-stark-explicit",
                         BuildVerifyStarkExplicitPoke(t))[1]
      IN  f[1] = t.proof /\ f[2] = t.subject /\ f[3] = t.formula
  <2> DEFINE tag == "verify-stark-explicit"
             s == <<Cord(tag), t.proof, t.subject, t.formula>>
  <2>1. /\ 3 \in Nat \ {0} /\ DOMAIN s = 1 .. 3 + 1 /\ Len(s) = 3 + 1
        /\ s[1] = Cord(tag) /\ s[2] = t.proof /\ s[3] = t.subject
        /\ s[4] = t.formula
    OBVIOUS
  <2>2. BuildVerifyStarkExplicitPoke(t) = Tuple(s)
    BY DEF BuildVerifyStarkExplicitPoke
  <2> HIDE DEF s
  <2>3. Arrives(tag, 3, s)
    BY <2>1, PokeArrives, CauseTags
  <2> QED
    BY <2>1, <2>2, <2>3 DEF Arrives, Reads
<1>2. SoftCause("verify-stark", BuildVerifyStarkPoke(t.proof))[1][1] = t.proof
  <2> DEFINE tag == "verify-stark"
             s == <<Cord(tag), t.proof>>
  <2>1. /\ 1 \in Nat \ {0} /\ DOMAIN s = 1 .. 1 + 1 /\ Len(s) = 1 + 1
        /\ s[1] = Cord(tag) /\ s[2] = t.proof
    OBVIOUS
  <2>2. BuildVerifyStarkPoke(t.proof) = Tuple(s)
    BY DEF BuildVerifyStarkPoke
  <2> HIDE DEF s
  <2>3. Arrives(tag, 1, s)
    BY <2>1, PokeArrives, CauseTags
  <2> QED
    BY <2>1, <2>2, <2>3 DEF Arrives, Reads
<1>3. LET f == SoftCause("prove-recursive-transition",
                         BuildProveRecursiveTransitionPoke(t, b))[1]
      IN  f[1] = t.proof /\ f[2] = t.subject /\ f[3] = t.formula
  <2> DEFINE tag == "prove-recursive-transition"
             ids == TxIdList(b.txIds)
             cs  == ClaimList(b.claims)
             s == <<Cord(tag), t.proof, t.subject, t.formula, Hash(b.digest),
                    ids, cs, Null>>
  <2>2. BuildProveRecursiveTransitionPoke(t, b) = Tuple(s)
    BY DEF BuildProveRecursiveTransitionPoke
  <2> HIDE DEF ids, cs
  <2>1. /\ 7 \in Nat \ {0} /\ DOMAIN s = 1 .. 7 + 1 /\ Len(s) = 7 + 1
        /\ s[1] = Cord(tag) /\ s[2] = t.proof /\ s[3] = t.subject
        /\ s[4] = t.formula
    OBVIOUS
  <2> HIDE DEF s
  <2>3. Arrives(tag, 7, s)
    BY <2>1, PokeArrives, CauseTags
  <2> QED
    BY <2>1, <2>2, <2>3 DEF Arrives, Reads
<1> QED
  BY <1>1, <1>2, <1>3

LEMMA SomeMember ==
  ASSUME NEW x, NEW S
  PROVE  /\ x \in S    => Some(x \in S) = Some(TRUE)
         /\ x \notin S => Some(x \in S) = Some(FALSE)
<1>1. x \in S => Some(x \in S) = Some(TRUE)
  BY Zenon
<1>2. ASSUME x \notin S PROVE Some(x \in S) = Some(FALSE)
  <2> DEFINE p == x \in S
  <2>1. p \in BOOLEAN /\ ~p
    BY <1>2
  <2> HIDE DEF p
  <2>2. p = FALSE
    BY <2>1
  <2>3. Some(p) = Some(FALSE)
    BY <2>2, Zenon
  <2> QED
    BY <2>3 DEF p
<1> QED
  BY <1>1, <1>2, Zenon

LEMMA SomeEquality ==
  ASSUME NEW x, NEW y
  PROVE  /\ x = y => Some(x = y) = Some(TRUE)
         /\ x # y => Some(x = y) = Some(FALSE)
BY Zenon

LEMMA ExportIsUsable ==
  ASSUME TypeOK, ProofsAreCached
  PROVE  ExportedProofIsUsable
<1> DEFINE triple == DecodeRecursiveProof(Peek(SingleTagPeek("recursive-proof")))
           c == recursiveProof
           t == triple[1]
           explicit == SoftCause("verify-stark-explicit",
                                 BuildVerifyStarkExplicitPoke(t))[1]
           cached == SoftCause("verify-stark", BuildVerifyStarkPoke(t.proof))[1]
           Fed(prev, b) == SoftCause("prove-recursive-transition",
                             BuildProveRecursiveTransitionPoke(prev, b))[1]
           Read(f) == <<PartOf(f[1], ProofNoun(c)),
                        PartOf(f[2], Traced(c, "subject")),
                        PartOf(f[3], Traced(c, "formula"))>>
<1>1. triple = None <=> c = NoProof
  BY TripleIs, SomeIs
<1>2. ASSUME triple # None
      PROVE  /\ c \in Computation /\ lastProved \in Computation
             /\ lastProved # NoProof
             /\ t.proof = Jam(ProofNoun(c))
             /\ t.subject = Jam(Traced(c, "subject"))
             /\ t.formula = Jam(Traced(c, "formula"))
  <2>1. t = [proof   |-> Jam(ProofNoun(c)), subject |-> Jam(Traced(c, "subject")),
             formula |-> Jam(Traced(c, "formula"))]
    BY <1>1, <1>2, TripleIs, SomeIs
  <2> HIDE DEF t, triple
  <2> QED
    BY <1>1, <1>2, <2>1 DEF TypeOK, ProofsAreCached
<1> HIDE DEF triple, t
<1>3. ASSUME triple # None
      PROVE  First(VerifyStarkResult, VerifyStarkExplicitEffects(explicit))
               = Some(TRUE)
  <2>1. /\ Cue(explicit[1]) = ProofNoun(c)
        /\ Cue(explicit[2]) = Traced(c, "subject")
        /\ Cue(explicit[3]) = Traced(c, "formula")
    BY <1>2, <1>3, TripleArrives, AtomsBack
  <2>2. Verifies(ProofNoun(c), Traced(c, "subject"), Traced(c, "formula"))
    BY <1>2, <1>3, VerifiesIs
  <2> HIDE DEF explicit
  <2>3. VerifyStarkExplicitEffects(explicit)
          = <<YesNo("verify-stark-result", TRUE)>>
    BY <2>1, <2>2 DEF VerifyStarkExplicitEffects, YesNo
  <2> QED
    BY <2>3, VerifyStarkAnswers
<1>4. ASSUME triple # None
      PROVE  First(VerifyStarkResult, VerifyStarkEffects(cached))
               = Some([lastProved EXCEPT !.bound = 0] = [c EXCEPT !.bound = 0])
  <2> DEFINE same == Unbound(lastProved) = Unbound(c)
             valid == Verifies(ProofNoun(c), Traced(lastProved, "subject"),
                               Traced(lastProved, "formula"))
             said == YesNo("verify-stark-result", valid)
  <2>1. Cue(cached[1]) = ProofNoun(c)
    BY <1>2, <1>4, TripleArrives, AtomsBack
  <2>2. valid <=> same
    BY <1>2, <1>4, VerifiesIs
  <2>3. valid \in BOOLEAN
    BY DEF Verifies
  <2> HIDE DEF cached
  <2>4. VerifyStarkEffects(cached) = <<said>>
    BY <1>2, <1>4, <2>1 DEF VerifyStarkEffects, YesNo
  <2> HIDE DEF valid
  <2>5. First(VerifyStarkResult, <<said>>) =
          IF valid THEN Some(TRUE) ELSE Some(FALSE)
    BY <2>3, VerifyStarkAnswers
  <2> HIDE DEF said
  <2>6. CASE valid
    <3>1. Some(same) = Some(TRUE)
      BY <2>2, <2>6, SomeEquality, Zenon
    <3> QED
      BY <2>4, <2>5, <2>6, <3>1, Zenon DEF Unbound
  <2>7. CASE ~valid
    <3>1. Some(same) = Some(FALSE)
      BY <2>2, <2>7, SomeEquality, Zenon
    <3> QED
      BY <2>4, <2>5, <2>7, <3>1, Zenon DEF Unbound
  <2> QED
    BY <2>6, <2>7
<1>5. ASSUME triple # None, NEW b \in ScanInput
      PROVE  Read(Fed(t, b)) = Read(Fed(EmptyJams, b))
  <2> DEFINE f == Fed(t, b)
             g == Fed(EmptyJams, b)
  <2>1. /\ f[1] = Jam(ProofNoun(c)) /\ f[2] = Jam(Traced(c, "subject"))
        /\ f[3] = Jam(Traced(c, "formula"))
    BY <1>2, <1>5, TripleArrives
  <2>2. g[1] = Null /\ g[2] = Null /\ g[3] = Null
    BY TripleArrives DEF EmptyJams
  <2> HIDE DEF f, g
  <2>3. ASSUME NEW x PROVE PartOf(Jam(x), x) = x /\ PartOf(Null, x) = x
    BY AtomsBack DEF PartOf
  <2>4. Read(f) = Read(g)
    BY <2>1, <2>2, <2>3
  <2> QED
    BY <2>4 DEF f, g
<1> QED
  BY <1>1, <1>3, <1>4, <1>5, Zenon DEF ExportedProofIsUsable, triple, t

-----------------------------------------------------------------------------
(* Lists in a poke: the ids of a finite set in any order, claims, headers. *)
LEMMA SetListed ==
  ASSUME NEW S, IsFiniteSet(S)
  PROVE  /\ Cardinality(S) \in Nat
         /\ IsSeqOf(SetToSeq(S), Cardinality(S), S)
         /\ {SetToSeq(S)[i] : i \in 1 .. Cardinality(S)} = S
<1> DEFINE n == Cardinality(S)
           s == SetToSeq(S)
<1>1. n \in Nat /\ ExistsBijection(1 .. n, S)
  BY FS_CardinalityType
<1> HIDE DEF n
<1>2. PICK g : g \in Bijection(1 .. n, S)
  BY <1>1 DEF ExistsBijection
<1>3. s \in [1 .. n -> S] /\ IsInjective(s)
  <2>1. \E f \in [1 .. n -> S] : IsInjective(f)
    BY <1>2 DEF Bijection, Injection, IsInjective
  <2>2. s = CHOOSE f \in [1 .. n -> S] : IsInjective(f)
    BY DEF SetToSeq, n
  <2> HIDE DEF s
  <2> QED
    BY <2>1, <2>2
<1> HIDE DEF s
<1>4. s \in Injection(1 .. n, S)
  BY <1>3 DEF Injection, IsInjective
<1>5. s \in Surjection(1 .. n, S)
  <2>1. Cardinality(1 .. n) = Cardinality(S)
    BY <1>1, FS_Interval DEF n
  <2> QED
    BY <1>4, <2>1, FS_Injection
<1>6. {s[i] : i \in 1 .. n} = S
  BY <1>5 DEF Surjection
<1>7. IsSeqOf(s, n, S)
  BY <1>1, <1>3, OfFunction
<1> QED
  BY <1>1, <1>6, <1>7 DEF n, s

LEMMA IdsRead ==
  ASSUME NEW ids, IsFiniteSet(ids)
  PROVE  TxIdsOf(TxIdList(ids)) = ids
<1> DEFINE n == Cardinality(ids)
           s == SetToSeq(ids)
           H == {Hash(d) : d \in ids}
           l == [i \in 1 .. n |-> Hash(s[i])]
           e == ListElements(ListOf(l))
<1>1. n \in Nat /\ IsSeqOf(s, n, ids) /\ {s[i] : i \in 1 .. n} = ids
  BY SetListed
<1>2. TxIdList(ids) = ListOf(l)
  BY <1>1 DEF TxIdList, IsSeqOf
<1> HIDE DEF n, s
<1>3. l \in [1 .. n -> H]
  BY <1>1
<1>4. IsSeqOf(l, n, H)
  <2> HIDE DEF l, H
  <2> QED
    BY <1>1, <1>3, OfFunction
<1>5. Reads(e, l, n)
  <2> HIDE DEF l, H
  <2> QED
    BY <1>1, <1>4, ListReads
<1> HIDE DEF e
<1>6. Range(e) = {l[i] : i \in 1 .. n}
  <2> HIDE DEF l
  <2> QED
    BY <1>5 DEF Reads, Range
<1>7. {AsBytes(id) : id \in Range(e)} = {s[i] : i \in 1 .. n}
  <2>1. \A i \in 1 .. n : AsBytes(l[i]) = s[i]
    BY BytesBack
  <2> HIDE DEF l
  <2> QED
    BY <1>6, <2>1
<1> QED
  BY <1>1, <1>2, <1>7 DEF TxIdsOf, e

LEMMA WitnessBack ==
  ASSUME NEW w \in Witness, NEW f, Reads(f, WitnessAtoms(w), 4)
  PROVE  WitnessOf(f) = w
<1>1. /\ f[1] = Hash(w.txId) /\ f[2] = Cord(w.spender)
      /\ f[3] = Num(w.amount) /\ f[4] = Cord(w.lockRoot)
  BY DEF Reads, WitnessAtoms
<1>2. /\ AsBytes(f[1]) = w.txId /\ AsCord(f[2]) = w.spender
      /\ AsNumber(f[3]) = w.amount /\ AsCord(f[4]) = w.lockRoot
  BY <1>1, AtomsBack, BytesBack
<1> QED
  BY <1>2 DEF WitnessOf, Witness

LEMMA ClaimBack ==
  ASSUME NEW c \in Claim
  PROVE  ClaimOfNoun(ClaimNoun(c)) = c
<1> DEFINE w == WitnessAtoms(c.witness)
           s == <<Named(c.name), Cord(c.owner), Num(c.fee), Hash(c.txHash),
                  Tuple(w)>>
           f == Fields(5, Tuple(s))
           g == Fields(4, Tuple(w))
<1>1. ClaimNoun(c) = Tuple(s)
  BY DEF ClaimNoun
<1>2. 4 \in Nat \ {0} /\ DOMAIN w = 1 .. 4 /\ Len(w) = 4
  BY DEF WitnessAtoms
<1> HIDE DEF w
<1>3. /\ 5 \in Nat \ {0} /\ DOMAIN s = 1 .. 5 /\ Len(s) = 5
      /\ s[1] = Named(c.name) /\ s[2] = Cord(c.owner) /\ s[3] = Num(c.fee)
      /\ s[4] = Hash(c.txHash) /\ s[5] = Tuple(w)
  OBVIOUS
<1> HIDE DEF s
<1>4. Reads(f, s, 5) /\ Reads(g, w, 4)
  BY <1>2, <1>3, TupleFields
<1>5. /\ f[1] = Named(c.name) /\ f[2] = Cord(c.owner) /\ f[3] = Num(c.fee)
      /\ f[4] = Hash(c.txHash) /\ f[5] = Tuple(w)
  BY <1>3, <1>4 DEF Reads
<1>6. WitnessOf(g) = c.witness
  BY <1>4, WitnessBack DEF Claim, w
<1>7. ClaimOfNoun(ClaimNoun(c)) =
        [name |-> AsName(f[1]), owner |-> AsCord(f[2]),
         fee |-> AsNumber(f[3]), txHash |-> AsBytes(f[4]),
         witness |-> WitnessOf(Fields(4, f[5]))]
  BY <1>1 DEF ClaimOfNoun
<1> HIDE DEF f
<1>8. /\ AsName(f[1]) = c.name /\ AsCord(f[2]) = c.owner
      /\ AsNumber(f[3]) = c.fee /\ AsBytes(f[4]) = c.txHash
  BY <1>5, AtomsBack, BytesBack
<1>9. WitnessOf(Fields(4, f[5])) = c.witness
  BY <1>5, <1>6
<1> QED
  BY <1>7, <1>8, <1>9 DEF Claim

LEMMA ClaimsRead ==
  ASSUME NEW cs \in Seq(Claim)
  PROVE  ClaimsOf(ClaimList(cs)) = cs
<1> DEFINE n == Len(cs)
           N == {ClaimNoun(c) : c \in Claim}
           l == [i \in 1 .. n |-> ClaimNoun(cs[i])]
           e == ListElements(ListOf(l))
<1>1. /\ n \in Nat /\ DOMAIN cs = 1 .. n
      /\ \A i \in 1 .. n : cs[i] \in Claim
      /\ cs = [i \in 1 .. n |-> cs[i]]
  BY LenProperties, ElementOfSeq
<1>2. ClaimList(cs) = ListOf(l)
  BY <1>1 DEF ClaimList
<1> HIDE DEF n
<1>3. l \in [1 .. n -> N]
  BY <1>1
<1>4. Reads(e, l, n)
  <2> HIDE DEF l, N
  <2>1. IsSeqOf(l, n, N)
    BY <1>1, <1>3, OfFunction
  <2> QED
    BY <1>1, <2>1, ListReads
<1> HIDE DEF e
<1>5. ASSUME NEW i \in 1 .. n PROVE ClaimOfNoun(e[i]) = cs[i]
  <2>1. e[i] = ClaimNoun(cs[i])
    BY <1>4 DEF Reads
  <2> QED
    BY <1>1, <2>1, ClaimBack
<1>6. ClaimsOf(ClaimList(cs)) = [i \in 1 .. n |-> ClaimOfNoun(e[i])]
  BY <1>2, <1>4 DEF ClaimsOf, e, Reads
<1> QED
  BY <1>1, <1>5, <1>6

LEMMA HeadersRead ==
  ASSUME NEW hs \in Seq([height : Nat, digest : Digest, parent : Digest])
  PROVE  HeadersOf(HeaderList(hs)) = hs
<1> DEFINE n == Len(hs)
           Header == [height : Nat, digest : Digest, parent : Digest]
           Noun(h) == Tuple(<<Hash(h.digest), Num(h.height), Hash(h.parent)>>)
           N == {Noun(h) : h \in Header}
           l == [i \in 1 .. n |-> Noun(hs[i])]
           e == ListElements(ListOf(l))
           Of(x) == [digest |-> AsBytes(Fields(3, x)[1]),
                     height |-> AsNumber(Fields(3, x)[2]),
                     parent |-> AsBytes(Fields(3, x)[3])]
<1>1. /\ n \in Nat /\ DOMAIN hs = 1 .. n
      /\ \A i \in 1 .. n : hs[i] \in Header
      /\ hs = [i \in 1 .. n |-> hs[i]]
  BY LenProperties, ElementOfSeq
<1>2. HeaderList(hs) = ListOf(l)
  BY <1>1 DEF HeaderList
<1>3. ASSUME NEW h \in Header PROVE Of(Noun(h)) = h
  <2> DEFINE s == <<Hash(h.digest), Num(h.height), Hash(h.parent)>>
             f == Fields(3, Tuple(s))
  <2>1. /\ 3 \in Nat \ {0} /\ DOMAIN s = 1 .. 3 /\ Len(s) = 3
        /\ s[1] = Hash(h.digest) /\ s[2] = Num(h.height)
        /\ s[3] = Hash(h.parent)
    OBVIOUS
  <2> HIDE DEF s
  <2>2. Reads(f, s, 3)
    BY <2>1, TupleFields
  <2>3. f[1] = Hash(h.digest) /\ f[2] = Num(h.height) /\ f[3] = Hash(h.parent)
    BY <2>1, <2>2 DEF Reads
  <2> HIDE DEF f
  <2>4. /\ AsBytes(f[1]) = h.digest /\ AsNumber(f[2]) = h.height
        /\ AsBytes(f[3]) = h.parent
    BY <2>3, AtomsBack, BytesBack
  <2>5. [digest |-> AsBytes(f[1]), height |-> AsNumber(f[2]),
         parent |-> AsBytes(f[3])] = h
    BY <2>4
  <2> QED
    BY <2>5 DEF f, s
<1> HIDE DEF n, Noun, Header
<1>4. l \in [1 .. n -> N]
  BY <1>1
<1>5. Reads(e, l, n)
  <2> HIDE DEF l, N
  <2>1. IsSeqOf(l, n, N)
    BY <1>1, <1>4, OfFunction
  <2> QED
    BY <1>1, <2>1, ListReads
<1>6. HeadersOf(HeaderList(hs)) = [i \in 1 .. n |-> Of(e[i])]
  <2>1. DOMAIN e = 1 .. n
    BY <1>5 DEF Reads
  <2> HIDE DEF e
  <2> QED
    BY <1>2, <2>1 DEF HeadersOf, e
<1> HIDE DEF e, Of
<1>7. ASSUME NEW i \in 1 .. n PROVE Of(e[i]) = hs[i]
  <2>1. e[i] = Noun(hs[i])
    BY <1>5 DEF Reads
  <2> QED
    BY <1>1, <1>3, <2>1
<1> QED
  BY <1>1, <1>6, <1>7

-----------------------------------------------------------------------------
(* The block of a scan, and of the proof of it.                            *)
LEMMA ScanArrives ==
  ASSUME NEW b \in ScanInput
  PROVE  LET read == SoftCause("scan-block", BuildScanBlockPoke(b))
         IN  read # None /\ ScanPayloadOf(read[1]) = b
<1> DEFINE tag == "scan-block"
           ids == TxIdList(b.txIds)
           cs  == ClaimList(b.claims)
           s   == <<Cord(tag), Hash(b.parent), Num(b.height), Hash(b.digest),
                    ids, cs>>
           f   == SoftCause(tag, Tuple(s))[1]
<1>1. b \in ScanPayload /\ IsFiniteSet(b.txIds)
  BY ScanInputAssumption, WireAssumption
<1>2. BuildScanBlockPoke(b) = Tuple(s)
  BY DEF BuildScanBlockPoke
<1>3. TxIdsOf(ids) = b.txIds /\ ClaimsOf(cs) = b.claims
  BY <1>1, IdsRead, ClaimsRead DEF ScanPayload
<1> HIDE DEF ids, cs
<1>4. /\ 5 \in Nat \ {0} /\ DOMAIN s = 1 .. 5 + 1 /\ Len(s) = 5 + 1
      /\ s[1] = Cord(tag) /\ s[2] = Hash(b.parent) /\ s[3] = Num(b.height)
      /\ s[4] = Hash(b.digest) /\ s[5] = ids /\ s[6] = cs
  OBVIOUS
<1> HIDE DEF s
<1>5. Arrives(tag, 5, s)
  BY <1>4, PokeArrives, CauseTags
<1>6. /\ f[1] = Hash(b.parent) /\ f[2] = Num(b.height)
      /\ f[3] = Hash(b.digest) /\ f[4] = ids /\ f[5] = cs
  BY <1>4, <1>5 DEF Arrives, Reads
<1>7. SoftCause(tag, Tuple(s)) # None
  BY <1>5 DEF Arrives
<1> HIDE DEF f
<1>8. /\ AsBytes(f[1]) = b.parent /\ AsNumber(f[2]) = b.height
      /\ AsBytes(f[3]) = b.digest
  BY <1>6, AtomsBack, BytesBack
<1>9. ScanPayloadOf(f) =
        [parent |-> b.parent, height |-> b.height, digest |-> b.digest,
         txIds |-> b.txIds, claims |-> b.claims]
  BY <1>3, <1>6, <1>8 DEF ScanPayloadOf
<1>10. ScanPayloadOf(f) = b
  BY <1>1, <1>9 DEF ScanPayload
<1> QED
  BY <1>2, <1>7, <1>10 DEF f

LEMMA TransitionArrives ==
  ASSUME NEW b \in ScanInput
  PROVE  LET poke == BuildProveRecursiveTransitionPoke(EmptyJams, b)
         IN  TransitionBlockOf(SoftCause("prove-recursive-transition", poke)[1])
               = [digest |-> b.digest, txIds |-> b.txIds, claims |-> b.claims]
<1> DEFINE tag == "prove-recursive-transition"
           j   == EmptyJams
           ids == TxIdList(b.txIds)
           cs  == ClaimList(b.claims)
           s   == <<Cord(tag), j.proof, j.subject, j.formula, Hash(b.digest),
                    ids, cs, Null>>
           f   == SoftCause(tag, Tuple(s))[1]
<1>1. b \in ScanPayload /\ IsFiniteSet(b.txIds)
  BY ScanInputAssumption, WireAssumption
<1>2. BuildProveRecursiveTransitionPoke(EmptyJams, b) = Tuple(s)
  BY DEF BuildProveRecursiveTransitionPoke
<1>3. TxIdsOf(ids) = b.txIds /\ ClaimsOf(cs) = b.claims
  BY <1>1, IdsRead, ClaimsRead DEF ScanPayload
<1> HIDE DEF ids, cs, j
<1>4. /\ 7 \in Nat \ {0} /\ DOMAIN s = 1 .. 7 + 1 /\ Len(s) = 7 + 1
      /\ s[1] = Cord(tag) /\ s[5] = Hash(b.digest) /\ s[6] = ids /\ s[7] = cs
  OBVIOUS
<1> HIDE DEF s
<1>5. Arrives(tag, 7, s)
  BY <1>4, PokeArrives, CauseTags
<1>6. f[4] = Hash(b.digest) /\ f[5] = ids /\ f[6] = cs
  BY <1>4, <1>5 DEF Arrives, Reads
<1> HIDE DEF f
<1>7. AsBytes(f[4]) = b.digest
  BY <1>6, BytesBack
<1>8. TransitionBlockOf(f) =
        [digest |-> b.digest, txIds |-> b.txIds, claims |-> b.claims]
  BY <1>3, <1>6, <1>7 DEF TransitionBlockOf
<1> QED
  BY <1>2, <1>8 DEF f

(* A claim in front of its witness: the fields of a bundle in a poke.      *)
BundlePoke(tag, u) ==
  <<Cord(tag)>> \o BundleAtoms(u) \o WitnessAtoms(u.claim.witness)

LEMMA BundlePokeIs ==
  ASSUME NEW tag, NEW u
  PROVE  LET s == BundlePoke(tag, u)
         IN  /\ DOMAIN s = 1 .. 14 + 1 /\ Len(s) = 14 + 1 /\ s[1] = Cord(tag)
             /\ \A i \in 1 .. 10 : s[i + 1] = BundleAtoms(u)[i]
             /\ \A i \in 1 .. 4 : s[i + 11] = WitnessAtoms(u.claim.witness)[i]
<1> DEFINE head == <<Cord(tag)>>
           body == BundleAtoms(u)
           tail == WitnessAtoms(u.claim.witness)
           V == {head[1]} \cup {body[i] : i \in 1 .. 10}
                          \cup {tail[i] : i \in 1 .. 4}
<1>1. IsSeqOf(head, 1, V) /\ head[1] = Cord(tag)
  BY DEF IsSeqOf
<1>2. DOMAIN body = 1 .. 10 /\ Len(body) = 10 /\ body = [i \in 1 .. 10 |-> body[i]]
  BY DEF BundleAtoms
<1>3. DOMAIN tail = 1 .. 4 /\ Len(tail) = 4 /\ tail = [i \in 1 .. 4 |-> tail[i]]
  BY DEF WitnessAtoms
<1> HIDE DEF head, body, tail
<1>4. IsSeqOf(body, 10, V)
  <2>1. body \in [1 .. 10 -> V]
    BY <1>2
  <2> HIDE DEF V
  <2> QED
    BY <2>1, OfFunction
<1>5. IsSeqOf(tail, 4, V)
  <2>1. tail \in [1 .. 4 -> V]
    BY <1>3
  <2> HIDE DEF V
  <2> QED
    BY <2>1, OfFunction
<1> HIDE DEF V
<1> DEFINE front == head \o body
<1>6. IsSeqOf(front, 11, V)
  BY <1>1, <1>4, Joined
<1>7. At(front, 1) = At(head, 1) /\ \A i \in 1 .. 10 : At(front, i + 1) = At(body, i)
  BY <1>1, <1>4, JoinedAt
<1> HIDE DEF front
<1> DEFINE s == front \o tail
<1>8. IsSeqOf(s, 15, V)
  BY <1>5, <1>6, Joined
<1>9. /\ \A i \in 1 .. 11 : At(s, i) = At(front, i)
      /\ \A i \in 1 .. 4 : At(s, i + 11) = At(tail, i)
  BY <1>5, <1>6, JoinedAt
<1>10. s = BundlePoke(tag, u)
  BY DEF BundlePoke, head, body, tail, front
<1> HIDE DEF s
<1>11. /\ s[1] = Cord(tag)
       /\ \A i \in 1 .. 10 : s[i + 1] = body[i]
       /\ \A i \in 1 .. 4 : s[i + 11] = tail[i]
  BY <1>1, <1>7, <1>9 DEF At
<1> QED
  BY <1>8, <1>10, <1>11 DEF IsSeqOf, body, tail

(* Pokes and paths of earlier kernels.                                     *)
LEMMA RetiredPokes ==
  ASSUME NEW c, NEW u
  PROVE  /\ InvalidCause(BuildClaimPoke(c))
         /\ InvalidCause(BuildSetPrimaryPoke(c.owner, c.name))
         /\ InvalidCause(BuildProveClaimPoke(u))
<1>1. InvalidCause(BuildClaimPoke(c))
  <2> DEFINE s == <<Cord("claim"), Named(c.name), Cord(c.owner), Num(c.fee),
                    Cord(c.txHash)>>
  <2>1. BuildClaimPoke(c) = Tuple(s)
    BY DEF BuildClaimPoke
  <2>2. /\ 4 \in Nat \ {0} /\ DOMAIN s = 1 .. 4 + 1 /\ Len(s) = 4 + 1
        /\ s[1] = Cord("claim")
    OBVIOUS
  <2> HIDE DEF s
  <2>3. \A d \in Causes : d.tag # "claim"
    BY CauseTags
  <2>4. InvalidCause(Tuple(s))
    BY <2>2, <2>3, NoCause
  <2> QED
    BY <2>1, <2>4
<1>2. InvalidCause(BuildSetPrimaryPoke(c.owner, c.name))
  <2> DEFINE s == <<Cord("set-primary"), Cord(c.owner), Named(c.name)>>
  <2>1. BuildSetPrimaryPoke(c.owner, c.name) = Tuple(s)
    BY DEF BuildSetPrimaryPoke
  <2>2. /\ 2 \in Nat \ {0} /\ DOMAIN s = 1 .. 2 + 1 /\ Len(s) = 2 + 1
        /\ s[1] = Cord("set-primary")
    OBVIOUS
  <2> HIDE DEF s
  <2>3. \A d \in Causes : d.tag # "set-primary"
    BY CauseTags
  <2>4. InvalidCause(Tuple(s))
    BY <2>2, <2>3, NoCause
  <2> QED
    BY <2>1, <2>4
<1>3. InvalidCause(BuildProveClaimPoke(u))
  <2> DEFINE s == BundlePoke("prove-claim", u)
  <2>1. BuildProveClaimPoke(u) = Tuple(s)
    BY DEF BuildProveClaimPoke, BundlePoke
  <2>2. /\ 14 \in Nat \ {0} /\ DOMAIN s = 1 .. 14 + 1 /\ Len(s) = 14 + 1
        /\ s[1] = Cord("prove-claim")
    BY BundlePokeIs
  <2> HIDE DEF s
  <2>3. \A d \in Causes : d.tag # "prove-claim"
    BY CauseTags
  <2>4. InvalidCause(Tuple(s))
    BY <2>2, <2>3, NoCause
  <2> QED
    BY <2>1, <2>4
<1> QED
  BY <1>1, <1>2, <1>3

LEMMA RetiredPaths ==
  ASSUME NEW name, NEW path \in RetiredPeeks(name)
  PROVE  ~PeekUnwrapInner(Peek(path)).known
<1> DEFINE tag == AsCord(path[1])
<1>1. tag \in {"snapshot", "pending-batch", "last-settled", "anchor", "owner",
               "proof"}
  BY PathIs DEF RetiredPeeks
<1>2. Peek(path) = Null
  BY <1>1 DEF Peek
<1> QED
  BY <1>2, NullIs DEF PeekUnwrapInner

LEMMA BlocksArrive == PokesArrive
<1> SUFFICES ASSUME NEW b \in ScanInput
             PROVE  PokesArrive!(b)
  BY Zenon DEF PokesArrive
<1>1. ASSUME NEW i \in DOMAIN b.claims
      PROVE  LET c == b.claims[i]
                 u == [claim |-> c, blockDigest |-> b.digest, headers |-> <<>>,
                       page |-> b, tip |-> b.digest, tipHeight |-> b.height]
             IN  /\ InvalidCause(BuildClaimPoke(c))
                 /\ InvalidCause(BuildSetPrimaryPoke(c.owner, c.name))
                 /\ InvalidCause(BuildProveClaimPoke(u))
                 /\ \A path \in RetiredPeeks(c.name) :
                      ~PeekUnwrapInner(Peek(path)).known
  BY RetiredPokes, RetiredPaths, Zenon
<1> QED
  BY <1>1, ScanArrives, TransitionArrives, Zenon

-----------------------------------------------------------------------------
(* The summaries.  The rows of the debug list are the registry, each once. *)
RowNouns == {RowNoun(accumulator[n]) : n \in DOMAIN accumulator}

LEMMA RowNounsAre ==
  ASSUME TypeOK, FiniteRegistry, RegistryIsReplay
  PROVE  /\ IsFiniteSet(RowNouns)
         /\ Cardinality(RowNouns) = Cardinality(DOMAIN accumulator)
         /\ {RowOfFields(Fields(5, x)) : x \in RowNouns} = Range(accumulator)
<1> DEFINE D == DOMAIN accumulator
           f == [n \in D |-> RowNoun(accumulator[n])]
<1>1. \A n \in D : accumulator[n] \in Entry /\ accumulator[n].name = n
  BY RowsAreNamed DEF TypeOK, IsAccumulator
<1>2. \A n \in D : RowOfFields(Fields(5, RowNoun(accumulator[n]))) = accumulator[n]
  BY <1>1, RowBack
<1>3. f \in Bijection(D, RowNouns)
  <2>1. f \in [D -> RowNouns]
    BY DEF RowNouns
  <2>2. \A m, n \in D : f[m] = f[n] => m = n
    BY <1>1, <1>2
  <2>3. \A x \in RowNouns : \E n \in D : f[n] = x
    BY DEF RowNouns
  <2> HIDE DEF f, D
  <2> QED
    BY <2>1, <2>2, <2>3 DEF Bijection, Injection, Surjection, IsInjective
<1>4. ExistsBijection(D, RowNouns)
  BY <1>3 DEF ExistsBijection
<1>5. IsFiniteSet(RowNouns) /\ Cardinality(RowNouns) = Cardinality(D)
  BY <1>4, FS_Bijection DEF FiniteRegistry
<1>6. {RowOfFields(Fields(5, x)) : x \in RowNouns} = Range(accumulator)
  BY <1>2 DEF RowNouns, Range
<1> QED
  BY <1>5, <1>6

LEMMA DebugNames ==
  ASSUME TypeOK, FiniteRegistry, RegistryIsReplay
  PROVE  LET e == ListElements(ListOf(SetToSeq(RowNouns)))
             names == [i \in DOMAIN e |-> RowOfFields(Fields(5, e[i]))]
         IN  /\ Len(names) = Cardinality(DOMAIN accumulator)
             /\ Range(names) = Range(accumulator)
<1> DEFINE n == Cardinality(DOMAIN accumulator)
           s == SetToSeq(RowNouns)
           e == ListElements(ListOf(s))
           Row(x) == RowOfFields(Fields(5, x))
           names == [i \in 1 .. n |-> Row(e[i])]
<1>1. n \in Nat /\ IsSeqOf(s, n, RowNouns) /\ {s[i] : i \in 1 .. n} = RowNouns
  BY RowNounsAre, SetListed
<1>2. {Row(x) : x \in RowNouns} = Range(accumulator)
  BY RowNounsAre
<1> HIDE DEF n, s, Row
<1>3. Reads(e, s, n)
  BY <1>1, ListReads
<1> HIDE DEF e
<1>4. Len(names) = n
  BY <1>1
<1>5. Range(names) = {Row(s[i]) : i \in 1 .. n}
  BY <1>3 DEF Range, Reads
<1>6. {Row(s[i]) : i \in 1 .. n} = {Row(x) : x \in RowNouns}
  BY <1>1
<1>7. DOMAIN e = 1 .. n
  BY <1>3 DEF Reads
<1> QED
  BY <1>2, <1>4, <1>5, <1>6, <1>7 DEF n, s, e, Row

LEMMA ScanStateIs ==
  DecodeScanState(Peek(SingleTagPeek("scan-state"))) =
    [height |-> lastProvedHeight, digest |-> lastProvedDigest,
     root |-> RootAtom(accumulator), size |-> Cardinality(DOMAIN accumulator)]
<1> DEFINE size == Cardinality(DOMAIN accumulator)
           s == <<Num(lastProvedHeight), Hash(lastProvedDigest),
                  RootAtom(accumulator), Num(size)>>
           f == Fields(4, Tuple(s))
<1>1. PeekUnwrapSome(Peek(SingleTagPeek("scan-state")))[1] = Tuple(s)
  BY PeeksAre, ValueIs
<1> HIDE DEF size
<1>2. /\ 4 \in Nat \ {0} /\ DOMAIN s = 1 .. 4 /\ Len(s) = 4
      /\ s[1] = Num(lastProvedHeight) /\ s[2] = Hash(lastProvedDigest)
      /\ s[3] = RootAtom(accumulator) /\ s[4] = Num(size)
  OBVIOUS
<1> HIDE DEF s
<1>3. Reads(f, s, 4)
  BY <1>2, TupleFields
<1>4. /\ f[1] = Num(lastProvedHeight) /\ f[2] = Hash(lastProvedDigest)
      /\ f[3] = RootAtom(accumulator) /\ f[4] = Num(size)
  BY <1>2, <1>3 DEF Reads
<1>5. DecodeScanState(Peek(SingleTagPeek("scan-state"))) =
        [height |-> AsNumber(f[1]), digest |-> AsBytes(f[2]), root |-> f[3],
         size |-> AsNumber(f[4])]
  BY <1>1 DEF DecodeScanState
<1> HIDE DEF f
<1>6. /\ AsNumber(f[1]) = lastProvedHeight /\ AsBytes(f[2]) = lastProvedDigest
      /\ AsNumber(f[4]) = size
  BY <1>4, AtomsBack, BytesBack
<1> QED
  BY <1>4, <1>5, <1>6 DEF size

LEMMA KernelDebugIs ==
  LET debug == DecodeKernelDebug(Peek(SingleTagPeek("kernel-debug")))
      e == ListElements(ListOf(SetToSeq(RowNouns)))
  IN  /\ debug.version = 0 /\ debug.height = lastProvedHeight
      /\ debug.digest = lastProvedDigest /\ debug.root = RootAtom(accumulator)
      /\ debug.size = Cardinality(DOMAIN accumulator)
      /\ debug.names = [i \in DOMAIN e |-> RowOfFields(Fields(5, e[i]))]
      /\ debug.lastProved =
           IF lastProved = NoProof THEN None
           ELSE Some([subject |-> Jam(Traced(lastProved, "subject")),
                      formula |-> Jam(Traced(lastProved, "formula"))])
<1> DEFINE result == Peek(SingleTagPeek("kernel-debug"))
           size == Cardinality(DOMAIN accumulator)
           list == ListOf(SetToSeq(RowNouns))
           subject == Jam(Traced(lastProved, "subject"))
           formula == Jam(Traced(lastProved, "formula"))
           pair == IF lastProved = NoProof THEN Null
                   ELSE Unit(Cell(subject, formula))
           s == <<Num(0), Num(lastProvedHeight), Hash(lastProvedDigest),
                  RootAtom(accumulator), Num(size), list, Null, Null, pair>>
           f == Fields(9, Tuple(s))
           e == ListElements(f[6])
<1>1. PeekUnwrapSome(result)[1] = Tuple(s)
  <2>1. KernelDebug = Tuple(s)
    BY DEF KernelDebug, RowNouns
  <2> HIDE DEF s
  <2> QED
    BY <2>1, PeeksAre, ValueIs
<1> HIDE DEF size, list, pair, result
<1>2. /\ 9 \in Nat \ {0} /\ DOMAIN s = 1 .. 9 /\ Len(s) = 9
      /\ s[1] = Num(0) /\ s[2] = Num(lastProvedHeight)
      /\ s[3] = Hash(lastProvedDigest) /\ s[4] = RootAtom(accumulator)
      /\ s[5] = Num(size) /\ s[6] = list /\ s[9] = pair
  OBVIOUS
<1> HIDE DEF s
<1>3. Reads(f, s, 9)
  BY <1>2, TupleFields
<1>4. /\ f[1] = Num(0) /\ f[2] = Num(lastProvedHeight)
      /\ f[3] = Hash(lastProvedDigest) /\ f[4] = RootAtom(accumulator)
      /\ f[5] = Num(size) /\ f[6] = list /\ f[9] = pair
  BY <1>2, <1>3 DEF Reads
<1>5. DecodeKernelDebug(result) =
        [version |-> AsNumber(f[1]), height |-> AsNumber(f[2]),
         digest |-> AsBytes(f[3]), root |-> f[4], size |-> AsNumber(f[5]),
         names |-> [i \in DOMAIN e |-> RowOfFields(Fields(5, e[i]))],
         registered |-> ListElements(f[7]), settled |-> ListElements(f[8]),
         lastProved |-> DecodeOptionalJamPair(f[9])]
  BY <1>1 DEF DecodeKernelDebug
<1> HIDE DEF f
<1>6. /\ AsNumber(f[1]) = 0 /\ AsNumber(f[2]) = lastProvedHeight
      /\ AsBytes(f[3]) = lastProvedDigest /\ AsNumber(f[5]) = size
  BY <1>4, AtomsBack, BytesBack
<1>7. DecodeOptionalJamPair(f[9]) =
        IF lastProved = NoProof THEN None
        ELSE Some([subject |-> subject, formula |-> formula])
  <2>1. CASE lastProved = NoProof
    BY <1>4, <2>1, NullIs DEF DecodeOptionalJamPair, pair
  <2>2. CASE lastProved # NoProof
    <3>1. f[9] = Unit(Cell(subject, formula))
      BY <1>4, <2>2 DEF pair
    <3>2. /\ ~IsAtom(f[9]) /\ f[9][2][1] = subject /\ f[9][2][2] = formula
      BY <3>1, UnitIs, CellIs
    <3> QED
      BY <2>2, <3>2 DEF DecodeOptionalJamPair
  <2> QED
    BY <2>1, <2>2
<1>8. e = ListElements(list)
  BY <1>4
<1> HIDE DEF e, subject, formula
<1> DEFINE debug == DecodeKernelDebug(result)
<1>9. /\ debug.version = AsNumber(f[1]) /\ debug.height = AsNumber(f[2])
      /\ debug.digest = AsBytes(f[3]) /\ debug.root = f[4]
      /\ debug.size = AsNumber(f[5])
      /\ debug.names = [i \in DOMAIN e |-> RowOfFields(Fields(5, e[i]))]
      /\ debug.lastProved = DecodeOptionalJamPair(f[9])
  BY <1>5
<1> HIDE DEF debug
<1> QED
  BY <1>4, <1>6, <1>7, <1>8, <1>9
     DEF debug, result, size, list, subject, formula

LEMMA PeeksTell ==
  ASSUME TypeOK, FiniteRegistry, RegistryIsReplay
  PROVE  PeeksAreTrue
<1> DEFINE scan  == DecodeScanState(Peek(SingleTagPeek("scan-state")))
           debug == DecodeKernelDebug(Peek(SingleTagPeek("kernel-debug")))
           size  == Cardinality(DOMAIN accumulator)
<1>1. scan = [height |-> lastProvedHeight, digest |-> lastProvedDigest,
              root |-> RootAtom(accumulator), size |-> size]
  BY ScanStateIs
<1>2. /\ debug.version = 0 /\ debug.height = lastProvedHeight
      /\ debug.digest = lastProvedDigest /\ debug.root = RootAtom(accumulator)
      /\ debug.size = size
  BY KernelDebugIs
<1>3. Len(debug.names) = debug.size /\ Range(debug.names) = Range(accumulator)
  BY KernelDebugIs, DebugNames
<1>4. debug.lastProved =
        IF lastProved = NoProof THEN None
        ELSE Some([subject |-> Jam(Traced(lastProved, "subject")),
                   formula |-> Jam(Traced(lastProved, "formula"))])
  BY KernelDebugIs
<1>5. ASSUME NEW n \in Name
      PROVE  DecodeFeeForName(Peek(NamePeek("fee-for-name", n))) = FeeForName(n)
  <2>1. PeekUnwrapSome(Peek(NamePeek("fee-for-name", n)))[1] = Num(FeeForName(n))
    BY PeeksAre, ValueIs
  <2> QED
    BY <2>1, AtomsBack DEF DecodeFeeForName
<1> HIDE DEF scan, debug, size
<1>6. <<debug.version, debug.height, debug.digest, debug.root, debug.size>>
        = <<0, scan.height, scan.digest, scan.root, scan.size>>
  BY <1>1, <1>2
<1> QED
  BY <1>1, <1>3, <1>4, <1>5, <1>6, Zenon DEF PeeksAreTrue, scan, debug, size

-----------------------------------------------------------------------------
(* The headers of the blocks scanned since block i lead to the cursor.     *)
Since(i)   == SubSeq(scanned, i + 1, Len(scanned))
Headers(i) == [k \in DOMAIN Since(i) |-> HeaderOf(Since(i)[k])]

LEMMA HeadersAre ==
  ASSUME TypeOK, NEW i \in DOMAIN scanned
  PROVE  LET n == Len(scanned) IN
         /\ i \in 1 .. n /\ n \in Nat
         /\ Headers(i) \in Seq([height : Nat, digest : Digest, parent : Digest])
         /\ DOMAIN Headers(i) = 1 .. n - i /\ Len(Headers(i)) = n - i
         /\ \A k \in 1 .. n - i : /\ i + k \in DOMAIN scanned
                                  /\ Headers(i)[k] = HeaderOf(scanned[i + k])
<1> DEFINE n == Len(scanned)
           H == [height : Nat, digest : Digest, parent : Digest]
           s == Since(i)
           h == [k \in 1 .. n - i |-> HeaderOf(s[k])]
<1>1. /\ n \in Nat /\ DOMAIN scanned = 1 .. n /\ i \in 1 .. n
      /\ \A k \in 1 .. n : scanned[k] \in ScanPayload
  BY LenProperties, ElementOfSeq, ScanInputAssumption DEF TypeOK
<1> HIDE DEF n
<1>2. /\ s \in Seq(ScanPayload) /\ Len(s) = n - i
      /\ \A k \in 1 .. n - i : s[k] = scanned[i + k]
  <2>1. i + 1 \in Int /\ n \in Int /\ \A k \in i + 1 .. n : scanned[k] \in ScanPayload
    BY <1>1
  <2>2. /\ SubSeq(scanned, i + 1, n) \in Seq(ScanPayload)
        /\ Len(SubSeq(scanned, i + 1, n)) =
             IF i + 1 <= n THEN n - (i + 1) + 1 ELSE 0
        /\ \A k \in 1 .. n - (i + 1) + 1 :
             SubSeq(scanned, i + 1, n)[k] = scanned[(i + 1) + k - 1]
    BY <2>1, SubSeqProperties
  <2>3. s = SubSeq(scanned, i + 1, n)
    BY DEF Since, n
  <2> HIDE DEF s
  <2>4. Len(s) = n - i
    BY <1>1, <2>2, <2>3
  <2>5. ASSUME NEW k \in 1 .. n - i PROVE s[k] = scanned[i + k]
    <3>1. k \in 1 .. n - (i + 1) + 1 /\ (i + 1) + k - 1 = i + k
      BY <1>1
    <3> QED
      BY <2>2, <2>3, <3>1
  <2> QED
    BY <2>2, <2>3, <2>4, <2>5
<1> HIDE DEF s
<1>3. DOMAIN s = 1 .. n - i
  BY <1>2, LenProperties
<1>4. ASSUME NEW k \in 1 .. n - i
      PROVE  /\ i + k \in DOMAIN scanned
             /\ h[k] = HeaderOf(scanned[i + k])
             /\ h[k] \in H
  <2>1. i + k \in 1 .. n
    BY <1>1
  <2>2. scanned[i + k] \in ScanPayload
    BY <1>1, <2>1
  <2> QED
    BY <1>1, <1>2, <2>1, <2>2 DEF HeaderOf, ScanPayload
<1>5. Headers(i) = h
  BY <1>3 DEF Headers, s
<1>6. h \in [1 .. n - i -> H] /\ n - i \in Nat
  BY <1>1, <1>4
<1> HIDE DEF h, H
<1>7. IsSeqOf(h, n - i, H)
  BY <1>6, OfFunction
<1> QED
  BY <1>1, <1>4, <1>5, <1>7 DEF n, H, IsSeqOf

LEMMA HeadersLink ==
  ASSUME TypeOK, ScannedIsLinkedRun, NEW i \in DOMAIN scanned
  PROVE  ChainLinksTo(scanned[i].digest, Headers(i), lastProvedDigest)
<1> DEFINE n == Len(scanned)
           h == Headers(i)
<1>1. /\ i \in 1 .. n /\ n \in Nat /\ DOMAIN h = 1 .. n - i /\ Len(h) = n - i
      /\ \A k \in 1 .. n - i : i + k \in DOMAIN scanned
      /\ \A k \in 1 .. n - i : h[k] = HeaderOf(scanned[i + k])
      /\ h \in Seq([height : Nat, digest : Digest, parent : Digest])
  BY HeadersAre
<1>2. lastProvedDigest = scanned[n].digest
  BY <1>1 DEF ScannedIsLinkedRun
<1>3. \A k \in DOMAIN scanned : /\ scanned[k].height = GenesisHeight + k - 1
                                /\ k > 1 => scanned[k].parent = scanned[k - 1].digest
  BY DEF ScannedIsLinkedRun
<1> HIDE DEF n, h
<1>4. ASSUME NEW k \in 1 .. n - i
      PROVE  /\ h[k].parent = scanned[i + k - 1].digest
             /\ h[k].digest = scanned[i + k].digest
             /\ h[k].height = GenesisHeight + i + k - 1
  <2>1. i + k \in DOMAIN scanned /\ i + k > 1 /\ i + k \in Nat
    BY <1>1
  <2>2. h[k] = HeaderOf(scanned[i + k])
    BY <1>1
  <2>3. /\ h[k].parent = scanned[i + k].parent
        /\ h[k].digest = scanned[i + k].digest
        /\ h[k].height = scanned[i + k].height
    BY <2>2 DEF HeaderOf
  <2>4. /\ scanned[i + k].height = GenesisHeight + (i + k) - 1
        /\ scanned[i + k].parent = scanned[(i + k) - 1].digest
    BY <1>3, <2>1
  <2>5. (i + k) - 1 = i + k - 1
        /\ GenesisHeight + (i + k) - 1 = GenesisHeight + i + k - 1
    BY <1>1, AccumulatorAssumption
  <2> QED
    BY <2>3, <2>4, <2>5
<1>5. CASE n = i
  <2>1. h = <<>>
    BY <1>1, <1>5, EmptySeq
  <2> QED
    BY <1>2, <1>5, <2>1 DEF ChainLinksTo, h
<1>6. CASE n # i
  <2>1. 1 \in 1 .. n - i /\ n - i \in 1 .. n - i
    BY <1>1, <1>6
  <2>2. h # <<>>
    BY <1>1, <2>1
  <2>3. h[1].parent = scanned[i].digest
    <3>1. i + 1 - 1 = i
      BY <1>1
    <3> QED
      BY <1>4, <2>1, <3>1
  <2>4. ASSUME NEW k \in 2 .. Len(h)
        PROVE  h[k].parent = h[k - 1].digest /\ h[k].height = h[k - 1].height + 1
    <3>1. k \in 1 .. n - i /\ k - 1 \in 1 .. n - i /\ i + (k - 1) = i + k - 1
      BY <1>1
    <3>2. GenesisHeight + i + k - 1 = (GenesisHeight + i + (k - 1) - 1) + 1
      BY <1>1, AccumulatorAssumption
    <3>3. h[k].parent = scanned[i + k - 1].digest
          /\ h[k].height = GenesisHeight + i + k - 1
      BY <1>4, <3>1
    <3>4. h[k - 1].digest = scanned[i + (k - 1)].digest
          /\ h[k - 1].height = GenesisHeight + i + (k - 1) - 1
      BY <1>4, <3>1
    <3> QED
      BY <3>1, <3>2, <3>3, <3>4
  <2>5. h[Len(h)].digest = lastProvedDigest
    <3>1. i + (n - i) = n
      BY <1>1
    <3>2. h[n - i].digest = scanned[i + (n - i)].digest
      BY <1>4, <2>1
    <3> QED
      BY <1>1, <1>2, <3>1, <3>2
  <2> QED
    BY <2>2, <2>3, <2>4, <2>5 DEF ChainLinksTo, h
<1> QED
  BY <1>5, <1>6

-----------------------------------------------------------------------------
(* The evidence of a claim, at the arm that judges it.                     *)
LEMMA ValidateArrives ==
  ASSUME NEW u, u.claim \in Claim, IsFiniteSet(u.page.txIds),
         u.headers \in Seq([height : Nat, digest : Digest, parent : Digest])
  PROVE  BundleOfFields(SoftCause("validate-claim", BuildValidateClaimPoke(u))[1])
           = BundleOf(u.claim, u.blockDigest,
                      [digest |-> u.page.digest, txIds |-> u.page.txIds],
                      u.headers, u.tip)
<1> DEFINE tag  == "validate-claim"
           c    == u.claim
           hs   == HeaderList(u.headers)
           ids  == TxIdList(u.page.txIds)
           body == BundleAtoms(u)
           tail == WitnessAtoms(c.witness)
           s    == BundlePoke(tag, u)
           f    == SoftCause(tag, Tuple(s))[1]
           g    == SubSeq(f, 11, 14)
<1>1. BuildValidateClaimPoke(u) = Tuple(s)
  BY DEF BuildValidateClaimPoke, BundlePoke
<1>2. TxIdsOf(ids) = u.page.txIds /\ HeadersOf(hs) = u.headers
  BY IdsRead, HeadersRead
<1> HIDE DEF hs, ids
<1>3. /\ 14 \in Nat \ {0} /\ DOMAIN s = 1 .. 14 + 1 /\ Len(s) = 14 + 1
      /\ s[1] = Cord(tag)
      /\ \A i \in 1 .. 10 : s[i + 1] = body[i]
      /\ \A i \in 1 .. 4 : s[i + 11] = tail[i]
  BY BundlePokeIs
<1>4. /\ body[1] = Named(c.name) /\ body[2] = Cord(c.owner)
      /\ body[3] = Num(c.fee) /\ body[4] = Hash(c.txHash)
      /\ body[5] = Hash(u.blockDigest) /\ body[6] = hs
      /\ body[7] = Hash(u.page.digest) /\ body[8] = ids /\ body[9] = Hash(u.tip)
  BY DEF BundleAtoms, hs, ids
<1> HIDE DEF s, body
<1>5. Arrives(tag, 14, s)
  BY <1>3, PokeArrives, CauseTags
<1>6. DOMAIN f = 1 .. 14 /\ Len(f) = 14 /\ \A i \in 1 .. 14 : f[i] = s[i + 1]
  BY <1>5 DEF Arrives, Reads
<1> HIDE DEF f
<1>7. \A i \in 1 .. 10 : f[i] = body[i]
  BY <1>3, <1>6
<1>8. Reads(g, tail, 4)
  <2>1. DOMAIN g = 1 .. 4 /\ Len(g) = 4
    OBVIOUS
  <2>2. ASSUME NEW i \in 1 .. 4 PROVE g[i] = tail[i]
    <3>1. g[i] = f[i + 10]
      OBVIOUS
    <3>2. i + 10 \in 1 .. 14 /\ (i + 10) + 1 = i + 11
      OBVIOUS
    <3>3. f[i + 10] = s[i + 11]
      BY <1>6, <3>2
    <3>4. s[i + 11] = tail[i]
      BY <1>3
    <3> HIDE DEF g, tail
    <3> QED
      BY <3>1, <3>3, <3>4
  <2> HIDE DEF g, tail
  <2> QED
    BY <2>1, <2>2 DEF Reads
<1>9. WitnessOf(g) = c.witness
  <2>1. c.witness \in Witness
    BY DEF Claim
  <2> HIDE DEF g
  <2> QED
    BY <1>8, <2>1, WitnessBack
<1>10. /\ AsName(f[1]) = c.name /\ AsCord(f[2]) = c.owner
       /\ AsNumber(f[3]) = c.fee /\ AsBytes(f[4]) = c.txHash
       /\ AsBytes(f[5]) = u.blockDigest /\ f[6] = hs
       /\ AsBytes(f[7]) = u.page.digest /\ f[8] = ids /\ AsBytes(f[9]) = u.tip
  BY <1>4, <1>7, AtomsBack, BytesBack
<1>11. c = [name |-> c.name, owner |-> c.owner, fee |-> c.fee,
            txHash |-> c.txHash, witness |-> c.witness]
  BY DEF Claim
<1>12. BundleOfFields(f) =
         BundleOf([name |-> AsName(f[1]), owner |-> AsCord(f[2]),
                   fee |-> AsNumber(f[3]), txHash |-> AsBytes(f[4]),
                   witness |-> WitnessOf(g)],
                  AsBytes(f[5]),
                  [digest |-> AsBytes(f[7]), txIds |-> TxIdsOf(f[8])],
                  HeadersOf(f[6]), AsBytes(f[9]))
  BY DEF BundleOfFields
<1> HIDE DEF g, c
<1>13. BundleOfFields(f) =
         BundleOf(c, u.blockDigest,
                  [digest |-> u.page.digest, txIds |-> u.page.txIds],
                  u.headers, u.tip)
  BY <1>2, <1>9, <1>10, <1>11, <1>12
<1> QED
  BY <1>1, <1>13 DEF f, c

LEMMA LinkArrives ==
  ASSUME NEW d, NEW tip,
         NEW hs \in Seq([height : Nat, digest : Digest, parent : Digest])
  PROVE  LET f == SoftCause("verify-chain-link",
                            BuildVerifyChainLinkPoke(d, hs, tip))[1]
         IN  /\ AsBytes(f[1]) = d /\ HeadersOf(f[2]) = hs
             /\ AsBytes(f[3]) = tip
<1> DEFINE tag  == "verify-chain-link"
           list == HeaderList(hs)
           s    == <<Cord(tag), Hash(d), list, Hash(tip)>>
           f    == SoftCause(tag, Tuple(s))[1]
<1>1. BuildVerifyChainLinkPoke(d, hs, tip) = Tuple(s)
  BY DEF BuildVerifyChainLinkPoke
<1>2. HeadersOf(list) = hs
  BY HeadersRead
<1> HIDE DEF list
<1>3. /\ 3 \in Nat \ {0} /\ DOMAIN s = 1 .. 3 + 1 /\ Len(s) = 3 + 1
      /\ s[1] = Cord(tag) /\ s[2] = Hash(d) /\ s[3] = list /\ s[4] = Hash(tip)
  OBVIOUS
<1> HIDE DEF s
<1>4. Arrives(tag, 3, s)
  BY <1>3, PokeArrives, CauseTags
<1>5. f[1] = Hash(d) /\ f[2] = list /\ f[3] = Hash(tip)
  BY <1>3, <1>4 DEF Arrives, Reads
<1> HIDE DEF f
<1>6. AsBytes(f[1]) = d /\ HeadersOf(f[2]) = hs /\ AsBytes(f[3]) = tip
  BY <1>2, <1>5, BytesBack
<1> QED
  BY <1>1, <1>6 DEF f

LEMMA PageArrives ==
  ASSUME NEW page, NEW id, IsFiniteSet(page.txIds)
  PROVE  LET f == SoftCause("verify-tx-in-page",
                            BuildVerifyTxInPagePoke(page, id))[1]
         IN  TxIdsOf(f[2]) = page.txIds /\ AsBytes(f[3]) = id
<1> DEFINE tag == "verify-tx-in-page"
           ids == TxIdList(page.txIds)
           s   == <<Cord(tag), Hash(page.digest), ids, Hash(id)>>
           f   == SoftCause(tag, Tuple(s))[1]
<1>1. BuildVerifyTxInPagePoke(page, id) = Tuple(s)
  BY DEF BuildVerifyTxInPagePoke
<1>2. TxIdsOf(ids) = page.txIds
  BY IdsRead
<1> HIDE DEF ids
<1>3. /\ 3 \in Nat \ {0} /\ DOMAIN s = 1 .. 3 + 1 /\ Len(s) = 3 + 1
      /\ s[1] = Cord(tag) /\ s[3] = ids /\ s[4] = Hash(id)
  OBVIOUS
<1> HIDE DEF s
<1>4. Arrives(tag, 3, s)
  BY <1>3, PokeArrives, CauseTags
<1>5. f[2] = ids /\ f[3] = Hash(id)
  BY <1>3, <1>4 DEF Arrives, Reads
<1> HIDE DEF f
<1>6. TxIdsOf(f[2]) = page.txIds /\ AsBytes(f[3]) = id
  BY <1>2, <1>5, BytesBack
<1> QED
  BY <1>1, <1>6 DEF f

(* What the hull hears of the three.                                       *)
LEMMA VerdictHeard ==
  ASSUME NEW v
  PROVE  First(ValidateClaimResult,
               <<IF v = "ok" THEN Effect("validate-claim-ok", Null)
                 ELSE Effect("validate-claim-error", Cord(v))>>) = Some(v)
<1>1. CASE v = "ok"
  <2> DEFINE e == Effect("validate-claim-ok", Null)
  <2>1. ValidateClaimResult(e) = Some("ok")
    BY PayloadIs, SomeIs DEF ValidateClaimResult
  <2> HIDE DEF e
  <2>2. First(ValidateClaimResult, <<e>>) = Some("ok")
    BY <2>1, OneHeard
  <2> QED
    BY <1>1, <2>2 DEF e
<1>2. CASE v # "ok"
  <2> DEFINE e == Effect("validate-claim-error", Cord(v))
  <2>1. /\ EffectPayload("validate-claim-ok", e) = None
        /\ EffectPayload("validate-claim-error", e) = Some(Cord(v))
    BY PayloadIs
  <2> HIDE DEF e
  <2>2. ValidateClaimResult(e) = Some(AsCord(Cord(v)))
    BY <2>1, SomeIs DEF ValidateClaimResult
  <2>3. First(ValidateClaimResult, <<e>>) = Some(v)
    BY <2>2, OneHeard, AtomsBack
  <2> QED
    BY <1>2, <2>3 DEF e
<1> QED
  BY <1>1, <1>2

LEMMA LinkHeard ==
  ASSUME NEW ok \in BOOLEAN
  PROVE  /\ First(ChainLinkResult, <<YesNo("chain-link-result", ok)>>) =
              IF ok THEN Some(TRUE) ELSE Some(FALSE)
         /\ First(TxInPageResult, <<YesNo("tx-in-page-result", ok)>>) =
              IF ok THEN Some(TRUE) ELSE Some(FALSE)
<1> DEFINE d == Effect("chain-link-result", IF ok THEN Num(0) ELSE Num(1))
           e == Effect("tx-in-page-result", IF ok THEN Num(0) ELSE Num(1))
<1>1. /\ YesNo("chain-link-result", ok) = d
      /\ YesNo("tx-in-page-result", ok) = e
  BY DEF YesNo, Effect
<1>2. ChainLinkResult(d) = IF ok THEN Some(TRUE) ELSE Some(FALSE)
  BY LoobeanIs DEF ChainLinkResult
<1>3. TxInPageResult(e) = IF ok THEN Some(TRUE) ELSE Some(FALSE)
  BY LoobeanIs DEF TxInPageResult
<1> HIDE DEF d, e
<1> QED
  BY <1>1, <1>2, <1>3, OneHeard

(* The scanner's rules and the validator's.                                *)
LEMMA FeeTyped == \A n \in Name : FeeForName(n) \in Nat
<1> SUFFICES ASSUME NEW n \in Name PROVE FeeForName(n) \in Nat
  BY Zenon
<1> DEFINE stem == IF n.suffixed THEN n.bytes - 5 ELSE n.bytes
<1>1. stem \in Nat
  BY NameAssumption
<1>2. FeeForName(n) = CASE stem = 0             -> 0
                        [] stem >= 10           -> 6553600
                        [] stem \in 5 .. 9      -> 32768000
                        [] stem \in 1 .. 4      -> 327680000
  BY DEF FeeForName
<1> HIDE DEF stem
<1>3. stem = 0 \/ stem >= 10 \/ stem \in 5 .. 9 \/ stem \in 1 .. 4
  BY <1>1
<1> QED
  BY <1>1, <1>2, <1>3

LEMMA VerdictIs ==
  ASSUME NEW c \in Claim, NEW b, NEW hs, NEW tip,
         ChainLinksTo(b.digest, hs, tip)
  PROVE  LET page == [digest |-> b.digest, txIds |-> b.txIds]
             verdict == ValidateClaimBundle(BundleOf(c, b.digest, page, hs, tip))
         IN  /\ ValidClaim(b, c) => verdict = "ok"
             /\ verdict = "ok" /\ c.witness.amount >= c.fee => ValidClaim(b, c)
<1>1. /\ c.fee \in Nat
      /\ c.witness.amount \in Nat
      /\ FeeForName(c.name) \in Nat
  BY FeeTyped DEF Claim, Witness
<1>2. c.fee >= FeeForName(c.name) <=> ~(c.fee < FeeForName(c.name))
  BY <1>1
<1>3. c.fee >= FeeForName(c.name) /\ c.witness.amount >= c.fee
        => ~(c.witness.amount < FeeForName(c.name))
  BY <1>1
<1> QED
  BY <1>2, <1>3 DEF ValidateClaimBundle, BundleOf, ValidClaim

LEMMA RowsPassAgain ==
  ASSUME TypeOK, ScannedIsLinkedRun
  PROVE  RowsRevalidate
<1> SUFFICES ASSUME NEW i \in DOMAIN scanned,
                    NEW j \in DOMAIN scanned[i].claims
             PROVE  RowsRevalidate!(i)!(j)
  BY Zenon DEF RowsRevalidate
<1> DEFINE b    == scanned[i]
           c    == b.claims[j]
           hs   == Headers(i)
           tip  == lastProvedDigest
           u    == [claim |-> c, blockDigest |-> b.digest, headers |-> hs,
                    page |-> b, tip |-> tip, tipHeight |-> lastProvedHeight]
           page == [digest |-> b.digest, txIds |-> b.txIds]
           link == SoftCause("verify-chain-link",
                             BuildVerifyChainLinkPoke(b.digest, hs, tip))[1]
           inPage == SoftCause("verify-tx-in-page",
                               BuildVerifyTxInPagePoke(b, c.txHash))[1]
           asked == SoftCause("validate-claim", BuildValidateClaimPoke(u))[1]
           verdict == First(ValidateClaimResult, ValidateClaimEffects(asked))
<1>1. /\ b \in ScanPayload /\ IsFiniteSet(b.txIds)
      /\ c \in Claim
  <2>1. b \in ScanInput
    BY LenProperties, ElementOfSeq DEF TypeOK
  <2>2. b \in ScanPayload /\ IsFiniteSet(b.txIds)
    BY <2>1, ScanInputAssumption, WireAssumption
  <2>3. b.claims \in Seq(Claim)
    BY <2>2 DEF ScanPayload
  <2> HIDE DEF b
  <2>4. c \in Claim
    <3>1. j \in 1 .. Len(b.claims)
      BY <2>3, LenProperties DEF b
    <3> QED
      BY <2>3, <3>1, ElementOfSeq
  <2> QED
    BY <2>2, <2>4
<1>2. hs \in Seq([height : Nat, digest : Digest, parent : Digest])
  BY HeadersAre
<1>3. ChainLinksTo(b.digest, hs, tip)
  BY HeadersLink
<1> HIDE DEF b, hs, tip
<1>4. First(ChainLinkResult, ChainLinkEffects(link)) = Some(TRUE)
  <2>1. /\ AsBytes(link[1]) = b.digest /\ HeadersOf(link[2]) = hs
        /\ AsBytes(link[3]) = tip
    BY <1>2, LinkArrives
  <2> HIDE DEF link
  <2>2. ChainLinkEffects(link) = <<YesNo("chain-link-result", TRUE)>>
    BY <1>3, <2>1 DEF ChainLinkEffects, YesNo
  <2> QED
    BY <2>2, LinkHeard
<1>5. First(TxInPageResult, TxInPageEffects(inPage)) = Some(c.txHash \in b.txIds)
  <2> DEFINE ok == c.txHash \in b.txIds
  <2>1. TxIdsOf(inPage[2]) = b.txIds /\ AsBytes(inPage[3]) = c.txHash
    BY <1>1, PageArrives
  <2> HIDE DEF inPage
  <2>2. CASE ok
    <3>1. TxInPageEffects(inPage) = <<YesNo("tx-in-page-result", TRUE)>>
      BY <2>1, <2>2 DEF TxInPageEffects, YesNo
    <3>2. Some(ok) = Some(TRUE)
      BY <2>2, SomeMember, Zenon
    <3> QED
      BY <3>1, <3>2, LinkHeard, Zenon
  <2>3. CASE ~ok
    <3>1. TxInPageEffects(inPage) = <<YesNo("tx-in-page-result", FALSE)>>
      BY <2>1, <2>3 DEF TxInPageEffects, YesNo
    <3>2. Some(ok) = Some(FALSE)
      BY <2>3, SomeMember, Zenon
    <3> QED
      BY <3>1, <3>2, LinkHeard, Zenon
  <2> QED
    BY <2>2, <2>3
<1> DEFINE judged == ValidateClaimBundle(BundleOf(c, b.digest, page, hs, tip))
<1>6. verdict = Some(judged)
  <2>1. /\ u.claim = c /\ u.blockDigest = b.digest /\ u.headers = hs
        /\ u.page = b /\ u.tip = tip
    OBVIOUS
  <2> HIDE DEF u
  <2>2. BundleOfFields(asked) = BundleOf(c, b.digest, page, hs, tip)
    BY <1>1, <1>2, <2>1, ValidateArrives
  <2> HIDE DEF asked, page
  <2>3. ValidateClaimEffects(asked) =
          <<IF judged = "ok" THEN Effect("validate-claim-ok", Null)
            ELSE Effect("validate-claim-error", Cord(judged))>>
    BY <2>2 DEF ValidateClaimEffects
  <2> HIDE DEF judged
  <2> QED
    BY <2>3, VerdictHeard
<1>7. /\ ValidClaim(b, c) => judged = "ok"
      /\ judged = "ok" /\ c.witness.amount >= c.fee => ValidClaim(b, c)
  BY <1>1, <1>3, VerdictIs
<1>8. j \in ValidPositions(b) <=> ValidClaim(b, c)
  BY DEF ValidPositions, b
<1>9. Some(judged) = Some("ok") <=> judged = "ok"
  BY DEF Some
<1> HIDE DEF judged, c
<1>10. /\ j \in ValidPositions(b) => verdict = Some("ok")
       /\ verdict = Some("ok") /\ c.witness.amount >= c.fee =>
            j \in ValidPositions(b)
  BY <1>6, <1>7, <1>8, <1>9
<1> QED
  BY <1>4, <1>5, <1>10, Zenon DEF b, c, hs, tip, Headers, Since, HeaderOf

-----------------------------------------------------------------------------
(* In every state the kernel reaches.                                      *)

(* Whatever block the hull sends, with lists of any length, the kernel     *)
(* reads the block it meant; the pokes and paths of earlier kernels fit    *)
(* nothing (the build_* functions of src/kernel.rs against +$cause).       *)
THEOREM PokesAlwaysArrive == Spec => []PokesArrive
<1>1. PokesArrive
  BY BlocksArrive
<1> QED
  BY <1>1, PTL

(* What the hull makes of the effects is what the arms meant by them (the  *)
(* first_* decoders of src/kernel.rs).                                     *)
THEOREM EffectsAlwaysHeard == Spec => []EffectsAreHeard
<1>1. TypeOK => EffectsAreHeard
  BY EffectsHeard
<1> QED
  BY <1>1, TypeCorrect, PTL

(* Every claim that names an owner passes %validate-claim again, however   *)
(* long the run of blocks since, and so does its evidence (the three       *)
(* read-only pokes against the scanner).                                   *)
THEOREM RowsAlwaysRevalidate == Spec => []RowsRevalidate
<1>1. TypeOK /\ ScannedIsLinkedRun => RowsRevalidate
  BY RowsPassAgain
<1> QED
  BY <1>1, TypeCorrect, LinkedRun, PTL

(* The wallet's kernel accepts what a lookup exports, and nothing for a    *)
(* name without a row (decode_accumulator_entry and its siblings against   *)
(* %verify-accumulator-snapshot).                                          *)
THEOREM LookupsVerify == Spec => []LookupVerifies
<1>1. TypeOK /\ RegistryIsReplay => LookupVerifies
  BY LookupPasses
<1> QED
  BY <1>1, TypeCorrect, RegistryReplay, PTL

(* The two summaries show the kernel's state, the debug list each row of   *)
(* the registry once (decode_scan_state, decode_kernel_debug).             *)
THEOREM SummariesAreTrue == Spec => []PeeksAreTrue
<1>1. TypeOK /\ FiniteRegistry /\ RegistryIsReplay => PeeksAreTrue
  BY PeeksTell
<1> QED
  BY <1>1, TypeCorrect, RegistryIsFinite, RegistryReplay, PTL

(* A stored recursive proof is never without a cached pair, whatever pokes *)
(* fail in between (last-proved and recursive-proof of the kernel state).  *)
THEOREM CacheFollowsProofs == Spec => []ProofsAreCached
<1>1. Init => ProofsAreCached
  BY DEF Init, ProofsAreCached
<1>2. TypeOK /\ ProofsAreCached /\ [Next]_kernelVars => ProofsAreCached'
  BY ProofsAreCachedStep
<1> QED
  BY <1>1, <1>2, TypeCorrect, PTL DEF Spec

(* The exported triple verifies and can be handed back                     *)
(* (decode_recursive_proof against %verify-stark-explicit and the          *)
(* prev-*-jam fields of %prove-recursive-transition).                      *)
THEOREM ExportsAreUsable == Spec => []ExportedProofIsUsable
<1>1. TypeOK /\ ProofsAreCached => ExportedProofIsUsable
  BY ExportIsUsable
<1> QED
  BY <1>1, TypeCorrect, CacheFollowsProofs, PTL
=============================================================================
