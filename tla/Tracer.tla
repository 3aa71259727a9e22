------------------------------- MODULE Tracer -------------------------------
(***************************************************************************)
(* The Nock formulas the recursive proofs trace (hoon/app/tracer.hoon).  A *)
(* formula reads a flat subject by axis and produces 0 where the           *)
(* constraints it encodes hold and 1 where one fails.                      *)
(*                                                                         *)
(* Left out: the digest limb comparisons, which no formula in use contains.*)
(***************************************************************************)
EXTENDS Nock

(* The axis of the n-th element of a right-nested tuple, but for the last. *)
SlotAxis(slot) == 2 ^ (slot + 1) - 2

(* Axes of the genesis subject [acc [height digest]]. *)
GenesisAxes == [acc |-> 2, height |-> 6, digest |-> 7]

(* Slots of the empty transition subject: prev-h, the five limbs of the    *)
(* page digest, want-h, the five limbs of the wanted one.                  *)
EmptyAxes == [prevH |-> SlotAxis(1), wantH |-> SlotAxis(7)]

(* Slots of the full one: the page's limbs are 3 to 7, the wanted ones 12  *)
(* to 16, the block proof 10.                                              *)
FullAxes ==
  [proofLen |-> SlotAxis(1), prevH |-> SlotAxis(2), accTag |-> SlotAxis(8),
   candTag |-> SlotAxis(9), wantH |-> SlotAxis(11)]

-----------------------------------------------------------------------------
TracePick(axis)  == Cell(Atom(0), Atom(axis))
TraceLit(x)      == Cell(Atom(1), Atom(x))
TraceEq(a, b)    == Tuple(<<Atom(5), a, b>>)
TraceIf(p, q, r) == Tuple(<<Atom(6), p, q, r>>)

TraceAnd(p, q) ==
  TraceIf(p, TraceIf(q, TraceLit(0), TraceLit(1)), TraceLit(1))

TraceNonzero(axis) ==
  TraceIf(TraceEq(TracePick(axis), TraceLit(0)), TraceLit(1), TraceLit(0))

(* Mutant: a present candidate is accepted whatever the registry holds. *)
TraceFwwAny(candAxis, accAxis) ==
  TraceIf(TraceEq(TracePick(candAxis), TraceLit(0)), TraceLit(0),
          TraceIf(TraceEq(TracePick(accAxis), TracePick(candAxis)),
                  TraceLit(0), TraceLit(0)))

(* No candidate tag, or one that differs from the accumulator's. *)
TraceFww(candAxis, accAxis) ==
  TraceIf(TraceEq(TracePick(candAxis), TraceLit(0)), TraceLit(0),
          TraceIf(TraceEq(TracePick(accAxis), TracePick(candAxis)),
                  TraceLit(1), TraceLit(0)))

(* The constraints, already compiled, in conjunction.  The empty list      *)
(* compiles to failure.                                                    *)
CompileTrace(nodes) ==
  IF nodes = <<>> THEN TraceLit(1) ELSE NestRight(TraceAnd, nodes)

(* Mutant: the digest is compared with the genesis height. *)
GenesisTraceFormulaMixed(genesisHeight) ==
  CompileTrace(<<
    TraceNonzero(GenesisAxes.acc),
    TraceEq(TracePick(GenesisAxes.height), TraceLit(genesisHeight)),
    TraceEq(TracePick(GenesisAxes.digest), TraceLit(genesisHeight)) >>)

GenesisTraceFormula(genesisHeight) ==
  CompileTrace(<<
    TraceNonzero(GenesisAxes.acc),
    TraceEq(TracePick(GenesisAxes.height), TraceLit(genesisHeight)),
    TraceEq(TracePick(GenesisAxes.digest), TraceLit(0)) >>)

TransitionTraceFormulaEmpty(wantH) ==
  TraceEq(TracePick(EmptyAxes.wantH), TraceLit(wantH))

(* The wanted height is left to the host's specification. *)
TransitionTraceFormulaFull(prevH) ==
  CompileTrace(<<
    TraceNonzero(FullAxes.proofLen),
    TraceEq(TracePick(FullAxes.prevH), TraceLit(prevH)),
    TraceFww(FullAxes.candTag, FullAxes.accTag) >>)

-----------------------------------------------------------------------------
(* Subjects; page and want are sequences of five limbs. *)
Atoms(numbers) == [i \in DOMAIN numbers |-> Atom(numbers[i])]

EmptyTransitionSubject(prevH, page, wantH, want) ==
  Tuple(Atoms(<<prevH>> \o page \o <<wantH>> \o want))

FullTransitionSubject(proofLen, prevH, page, accTag, candTag, block, wantH, want) ==
  Tuple(Atoms(<<proofLen, prevH>> \o page \o <<accTag, candTag>>)
        \o <<block>> \o Atoms(<<wantH>> \o want))

(* The verdict of the dry runs on a product. *)
TraceSucceeded(product) == product # Cell(Atom(1), Atom(1))
=============================================================================
