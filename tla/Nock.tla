-------------------------------- MODULE Nock --------------------------------
(***************************************************************************)
(* Nouns, and of the Nock machine the opcodes that occur in the formulas   *)
(* of hoon/app/tracer.hoon: slot (0), constant (1), equality (5) and       *)
(* branch (6).  External to the repository, and modelled by how the dry    *)
(* runs of hoon/app/app.hoon use it.                                       *)
(***************************************************************************)
EXTENDS Naturals, Sequences

(* An atom is a tuple of one number, a cell a tuple of two nouns. *)
Atom(n)       == <<n>>
Cell(h, t)    == <<h, t>>
IsAtom(noun)  == Len(noun) = 1
IsCell(noun)  == Len(noun) = 2

(* No noun: the computation crashed. *)
Crash == <<>>

Yes == Atom(0)
No  == Atom(1)

(* a op (b op ( ... op z)) *)
NestRight(op(_, _), seq) ==
  LET from[i \in DOMAIN seq] ==
        IF i = Len(seq) THEN seq[i] ELSE op(seq[i], from[i + 1])
  IN  from[1]

(* The noun [a b ... z]. *)
Tuple(nouns) == NestRight(Cell, nouns)

(* The parts of a noun by their axes: 1 is the whole, 2n and 2n + 1 are    *)
(* head and tail of the part at n.                                         *)
Parts(noun) ==
  LET part[axis \in Nat] ==
        IF axis < 2 THEN IF axis = 1 THEN noun ELSE Crash
        ELSE LET above == part[axis \div 2]
             IN  IF IsCell(above) THEN above[(axis % 2) + 1] ELSE Crash
  IN  part

Slot(axis, noun) == Parts(noun)[axis]

-----------------------------------------------------------------------------
Equality(x, y) ==
  IF Crash \in {x, y} THEN Crash ELSE IF x = y THEN Yes ELSE No

Branch(test, p, q) ==
  CASE test = Yes -> p [] test = No -> q [] OTHER -> Crash

(* The products of the parts of a formula on a subject.  Below a part at   *)
(* axis a, [op x y] has its arguments at 4a + 2 and 4a + 3, [op x y z] at  *)
(* 4a + 2, 8a + 6 and 8a + 7.  An argument of the wrong shape, an axis     *)
(* that is not there and a test that is no loobean crash.                  *)
Products(subject, formula) ==
  LET product[a \in Nat] ==
        LET here == Slot(a, formula)
            op   == here[1]
            arg  == here[2]
        IN  IF ~IsCell(here) THEN Crash ELSE
            CASE op = Atom(0) /\ IsAtom(arg) -> Slot(arg[1], subject)
              [] op = Atom(1) -> arg
              [] op = Atom(5) /\ IsCell(arg) ->
                   Equality(product[4 * a + 2], product[4 * a + 3])
              [] op = Atom(6) /\ IsCell(arg) /\ IsCell(arg[2]) ->
                   Branch(product[4 * a + 2],
                          product[8 * a + 6], product[8 * a + 7])
              [] OTHER -> Crash
  IN  product

Product(subject, formula) == Products(subject, formula)[1]
=============================================================================
