------------------------------ MODULE FoldFacts ------------------------------
(***************************************************************************)
(* What FoldLeft of the community modules computes, for any operator: the  *)
(* last value of a run that starts with the base and takes in one element  *)
(* after the other.  A proof about a fold instantiates this module with    *)
(* the fold's step and then argues along the run with NatInd.  Last, that  *)
(* functions defined by recursion over the naturals exist.                 *)
(***************************************************************************)
EXTENDS SequencesExt, Integers, WellFoundedInduction, TLAPS

(* A step of the fold: parameter, value so far, element.  Of a recursive   *)
(* definition: parameter, function, argument.                              *)
CONSTANT Op(_, _, _)

Fold(p, base, seq) == FoldLeft(LAMBDA a, x : Op(p, a, x), base, seq)

(* Induction over the naturals, for a set of naturals. *)
LEMMA NatInd ==
  ASSUME NEW S, 0 \in S, \A n \in Nat : n \in S => n + 1 \in S
  PROVE  \A n \in Nat : n \in S
<1> SUFFICES ASSUME NEW n \in Nat, n \notin S
             PROVE  FALSE
  OBVIOUS
<1> DEFINE Lt == {ss \in Nat \X Nat : ss[1] < ss[2]}
           T  == {m \in Nat : m \notin S}
<1>1. IsWellFoundedOn(Lt, Nat)
  BY NatLessThanWellFounded DEF OpToRel
<1>2. \A x, y \in Nat : <<y, x>> \in Lt <=> y < x
  OBVIOUS
<1>3. T \subseteq Nat /\ T # {}
  OBVIOUS
<1>4. PICK m \in T : \A y \in T : ~ (<<y, m>> \in Lt)
  <2> HIDE DEF Lt, T
  <2> QED
    BY <1>1, <1>3, WFMin
<1>5. m # 0 /\ m - 1 \in Nat /\ m - 1 < m /\ (m - 1) + 1 = m
  BY <1>4
<1>6. m - 1 \in T
  BY <1>4, <1>5
<1> QED
  BY <1>2, <1>4, <1>5, <1>6

(* The largest of some numbers up to n. *)
LEMMA MaxUpTo ==
  ASSUME NEW n \in Nat, NEW s \in SUBSET (1 .. n), s # {}
  PROVE  Max(s) \in s /\ \A y \in s : Max(s) >= y
<1> DEFINE S == {k \in Nat : \A t \in SUBSET (1 .. k) :
                   t # {} => \E x \in t : \A y \in t : x >= y}
<1>1. 0 \in S
  <2>1. 1 .. 0 = {}
    OBVIOUS
  <2> QED
    BY <2>1
<1>2. ASSUME NEW k \in Nat, k \in S PROVE k + 1 \in S
  <2> SUFFICES ASSUME NEW t \in SUBSET (1 .. k + 1), t # {}
               PROVE  \E x \in t : \A y \in t : x >= y
    OBVIOUS
  <2>1. CASE k + 1 \in t
    BY <2>1
  <2>2. CASE k + 1 \notin t
    <3>1. t \in SUBSET (1 .. k)
      BY <2>2
    <3> QED
      BY <1>2, <3>1
  <2> QED
    BY <2>1, <2>2
<1>3. n \in S
  <2> HIDE DEF S
  <2> QED
    BY <1>1, <1>2, NatInd
<1>4. \E x \in s : \A y \in s : x >= y
  BY <1>3
<1> QED
  BY <1>4 DEF Max

-----------------------------------------------------------------------------
(* f is the run of a fold over the n elements of seq.                      *)
IsRun(f, p, base, seq, n) ==
  /\ f[0] = base
  /\ \A i \in 1 .. n : f[i] = Op(p, f[i - 1], seq[i])
  /\ Fold(p, base, seq) = f[n]

Run(p, base, seq, n) == CHOOSE f : IsRun(f, p, base, seq, n)

(* FoldLeft goes through sets of positions; its values on the sets 1 .. i  *)
(* are the run.                                                            *)
LEMMA RunExists ==
  ASSUME NEW p, NEW base, NEW seq, NEW n \in Nat, DOMAIN seq = 1 .. n
  PROVE  \E f : IsRun(f, p, base, seq, n)
<1> DEFINE Body(g, s) == IF s = {} THEN base
                         ELSE Op(p, g[s \ {Max(s)}], seq[Max(s)])
           S == {k \in Nat : \E g : g = [s \in SUBSET (1 .. k) |-> Body(g, s)]}
<1>1. 0 \in S
  <2> DEFINE g == [s \in SUBSET (1 .. 0) |-> base]
  <2>1. \A s \in SUBSET (1 .. 0) : s = {}
    OBVIOUS
  <2>2. g = [s \in SUBSET (1 .. 0) |-> Body(g, s)]
    BY <2>1
  <2> QED
    BY <2>2
<1>2. ASSUME NEW k \in Nat, k \in S PROVE k + 1 \in S
  <2>1. PICK g : g = [s \in SUBSET (1 .. k) |-> Body(g, s)]
    BY <1>2
  <2> DEFINE h == [s \in SUBSET (1 .. k + 1) |-> Body(g, s)]
  <2>2. ASSUME NEW s \in SUBSET (1 .. k + 1), s # {}
        PROVE  s \ {Max(s)} \in SUBSET (1 .. k)
    <3>1. k + 1 \in Nat
      OBVIOUS
    <3>2. Max(s) \in s /\ \A y \in s : Max(s) >= y
      BY <2>2, <3>1, MaxUpTo
    <3>3. ASSUME NEW y \in s, y # Max(s) PROVE y \in 1 .. k
      <4>1. y \in 1 .. k + 1 /\ Max(s) \in 1 .. k + 1 /\ Max(s) >= y
        BY <3>2
      <4> QED
        BY <3>3, <4>1
    <3> QED
      BY <3>3
  <2>3. \A s \in SUBSET (1 .. k) : s \in SUBSET (1 .. k + 1)
    OBVIOUS
  <2>4. ASSUME NEW s \in SUBSET (1 .. k) PROVE h[s] = g[s]
    <3>1. h[s] = Body(g, s)
      BY <2>3
    <3>2. g[s] = Body(g, s)
      <4> HIDE DEF Body
      <4> QED
        BY <2>1
    <3> QED
      BY <3>1, <3>2
  <2>5. ASSUME NEW s \in SUBSET (1 .. k + 1) PROVE Body(g, s) = Body(h, s)
    BY <2>2, <2>4
  <2>6. h = [s \in SUBSET (1 .. k + 1) |-> Body(h, s)]
    <3> HIDE DEF Body
    <3> QED
      BY <2>5
  <2> HIDE DEF h, Body
  <2> QED
    BY <2>6
<1>3. n \in S
  <2> HIDE DEF S
  <2> QED
    BY <1>1, <1>2, NatInd
<1>4. \E g : g = [s \in SUBSET (1 .. n) |-> Body(g, s)]
  BY <1>3
<1> DEFINE it == CHOOSE g : g = [s \in SUBSET (1 .. n) |-> Body(g, s)]
<1>5. it = [s \in SUBSET (1 .. n) |-> Body(it, s)]
  <2> HIDE DEF Body
  <2> QED
    BY <1>4
<1>6. Fold(p, base, seq) = it[1 .. n]
  BY DEF Fold, FoldLeft, MapThenFoldSet
<1>7. \A s \in SUBSET (1 .. n) : it[s] = Body(it, s)
  <2> HIDE DEF it, Body
  <2> QED
    BY <1>5
<1> HIDE DEF it
<1> DEFINE f == [i \in 0 .. n |-> it[1 .. i]]
<1>8. f[0] = base
  <2>1. 1 .. 0 = {} /\ {} \in SUBSET (1 .. n)
    OBVIOUS
  <2>2. it[{}] = base
    BY <1>7, <2>1
  <2> QED
    BY <2>1, <2>2
<1>9. ASSUME NEW i \in 1 .. n PROVE f[i] = Op(p, f[i - 1], seq[i])
  <2>1. 1 .. i \in SUBSET (1 .. n) /\ 1 .. i # {} /\ i \in Nat
    OBVIOUS
  <2>2. Max(1 .. i) = i
    <3>1. Max(1 .. i) \in 1 .. i /\ \A y \in 1 .. i : Max(1 .. i) >= y
      BY <2>1, MaxUpTo
    <3> QED
      BY <3>1
  <2>3. (1 .. i) \ {i} = 1 .. i - 1
    OBVIOUS
  <2>4. it[1 .. i] = Op(p, it[(1 .. i) \ {Max(1 .. i)}], seq[Max(1 .. i)])
    BY <1>7, <2>1
  <2>5. it[1 .. i] = Op(p, it[1 .. i - 1], seq[i])
    BY <2>2, <2>3, <2>4
  <2> QED
    BY <2>5
<1>10. f[n] = it[1 .. n]
  OBVIOUS
<1> QED
  BY <1>6, <1>8, <1>9, <1>10 DEF IsRun

(* A fold over a list of n elements is the last value of its run, which    *)
(* the later proofs walk along with NatInd.                                *)
THEOREM FoldRun ==
  ASSUME NEW p, NEW base, NEW seq, NEW n \in Nat, DOMAIN seq = 1 .. n
  PROVE  /\ Run(p, base, seq, n)[0] = base
         /\ \A i \in 1 .. n :
              Run(p, base, seq, n)[i] = Op(p, Run(p, base, seq, n)[i - 1], seq[i])
         /\ Fold(p, base, seq) = Run(p, base, seq, n)[n]
<1>1. IsRun(Run(p, base, seq, n), p, base, seq, n)
  BY RunExists DEF Run
<1> QED
  BY <1>1 DEF IsRun
-----------------------------------------------------------------------------
(* Functions on the naturals that are defined in terms of their values for *)
(* smaller arguments: Op(p, f, n) is f[n].                                 *)
LooksBack(p) ==
  \A n \in Nat : \A f, g :
    (\A i \in 0 .. n - 1 : f[i] = g[i]) => Op(p, f, n) = Op(p, g, n)

Computes(f, p, n) == \A i \in 0 .. n : f[i] = Op(p, f, i)

(* There is only one. *)
LEMMA ComputeAlike ==
  ASSUME NEW p, LooksBack(p), NEW n \in Nat,
         NEW f, Computes(f, p, n), NEW g, Computes(g, p, n)
  PROVE  \A i \in 0 .. n : f[i] = g[i]
<1> DEFINE S == {k \in Nat : k <= n => \A i \in 0 .. k : f[i] = g[i]}
<1>1. 0 \in S
  <2>1. f[0] = Op(p, f, 0) /\ g[0] = Op(p, g, 0)
    BY DEF Computes
  <2>2. Op(p, f, 0) = Op(p, g, 0)
    BY DEF LooksBack
  <2> QED
    BY <2>1, <2>2
<1>2. ASSUME NEW k \in Nat, k \in S PROVE k + 1 \in S
  <2> SUFFICES ASSUME k + 1 <= n PROVE \A i \in 0 .. k + 1 : f[i] = g[i]
    OBVIOUS
  <2>1. \A i \in 0 .. k : f[i] = g[i]
    BY <1>2
  <2>2. f[k + 1] = Op(p, f, k + 1) /\ g[k + 1] = Op(p, g, k + 1)
    BY DEF Computes
  <2>3. Op(p, f, k + 1) = Op(p, g, k + 1)
    BY <2>1 DEF LooksBack
  <2> QED
    BY <2>1, <2>2, <2>3
<1> HIDE DEF S
<1>3. n \in S
  BY <1>1, <1>2, NatInd
<1> QED
  BY <1>3 DEF S

(* Up to any n there is one. *)
LEMMA ComputesUpTo ==
  ASSUME NEW p, LooksBack(p), NEW n \in Nat
  PROVE  \E f : Computes(f, p, n)
<1> DEFINE S == {k \in Nat : \E f : Computes(f, p, k)}
<1>1. 0 \in S
  <2> DEFINE f == [i \in 0 .. 0 |-> Op(p, p, 0)]
  <2>1. Op(p, f, 0) = Op(p, p, 0)
    BY DEF LooksBack
  <2>2. Computes(f, p, 0)
    BY <2>1 DEF Computes
  <2> QED
    BY <2>2
<1>2. ASSUME NEW k \in Nat, k \in S PROVE k + 1 \in S
  <2>1. PICK f : Computes(f, p, k)
    BY <1>2
  <2> DEFINE g == [i \in 0 .. k + 1 |-> IF i <= k THEN f[i] ELSE Op(p, f, k + 1)]
  <2>2. \A i \in 0 .. k : g[i] = f[i]
    OBVIOUS
  <2>3. g[k + 1] = Op(p, f, k + 1)
    OBVIOUS
  <2> HIDE DEF g
  <2>4. ASSUME NEW i \in 0 .. k + 1 PROVE Op(p, g, i) = Op(p, f, i)
    <3>1. \A j \in 0 .. i - 1 : g[j] = f[j]
      BY <2>2
    <3> QED
      BY <3>1 DEF LooksBack
  <2>5. ASSUME NEW i \in 0 .. k PROVE g[i] = Op(p, g, i)
    BY <2>1, <2>2, <2>4 DEF Computes
  <2>6. g[k + 1] = Op(p, g, k + 1)
    BY <2>3, <2>4
  <2>7. Computes(g, p, k + 1)
    BY <2>5, <2>6 DEF Computes
  <2> QED
    BY <2>7
<1>3. n \in S
  <2> HIDE DEF S
  <2> QED
    BY <1>1, <1>2, NatInd
<1> QED
  BY <1>3

(* A recursive definition on the naturals defines what it says. *)
THEOREM RecursiveFcn ==
  ASSUME NEW p, LooksBack(p)
  PROVE  \E f : f = [n \in Nat |-> Op(p, f, n)]
<1> DEFINE upTo(n) == CHOOSE f : Computes(f, p, n)
           f == [n \in Nat |-> upTo(n)[n]]
<1>1. \A n \in Nat : Computes(upTo(n), p, n)
  BY ComputesUpTo
<1> HIDE DEF upTo
<1>2. ASSUME NEW n \in Nat, NEW i \in 0 .. n PROVE upTo(i)[i] = upTo(n)[i]
  <2>1. Computes(upTo(n), p, i)
    BY <1>1 DEF Computes
  <2>2. Computes(upTo(i), p, i)
    BY <1>1
  <2> QED
    BY <2>1, <2>2, ComputeAlike
<1>3. ASSUME NEW n \in Nat PROVE f[n] = Op(p, f, n)
  <2>1. \A i \in 0 .. n - 1 : f[i] = upTo(n)[i]
    BY <1>2
  <2> HIDE DEF f
  <2>2. Op(p, f, n) = Op(p, upTo(n), n)
    BY <2>1 DEF LooksBack
  <2>3. upTo(n)[n] = Op(p, upTo(n), n)
    BY <1>1 DEF Computes
  <2> QED
    BY <2>2, <2>3 DEF f
<1>4. f = [n \in Nat |-> Op(p, f, n)]
  <2>1. f = [n \in Nat |-> f[n]]
    OBVIOUS
  <2> HIDE DEF f
  <2> QED
    BY <1>3, <2>1
<1> QED
  BY <1>4
=============================================================================
