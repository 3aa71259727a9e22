---------------------------- MODULE MCHeaderWalks ----------------------------
(***************************************************************************)
(* A tree with a fork at two heights, and headers that lie by one.         *)
(*                                                                         *)
(*     a2 -- a3 -- a4 -- a5         b2 -- b3                                *)
(*      \--- c3 -- c4                                                      *)
(***************************************************************************)
EXTENDS HeaderWalks, MCNames

MCDigest == {"0", "d1", "a2", "a3", "a4", "a5", "b2", "b3", "c3", "c4"}
MCTxId   == {"0x1", "t1", "t2", "t3"}

LOCAL B(parent, h, d, txIds) ==
  [parent |-> parent, height |-> h, digest |-> d, txIds |-> txIds,
   claims |-> <<>>]

MCTree ==
  { B("d1", 2, "a2", {"t1", "t2"}), B("a2", 3, "a3", {"t2"}),
    B("a3", 4, "a4", {}),           B("a4", 5, "a5", {}),
    B("d1", 2, "b2", {"t1"}),       B("b2", 3, "b3", {}),
    B("a2", 3, "c3", {"t1", "t2"}), B("c3", 4, "c4", {}) }

MCWrong ==
  { [HeaderOf(b) EXCEPT !.height = @ + 1] :
      b \in {b \in MCTree : b.digest \in {"a3", "a4"}} }

MCPool == {AliceLong, BobShort} \cup BadClaims
=============================================================================
