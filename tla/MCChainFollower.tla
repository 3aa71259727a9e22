-------------------------- MODULE MCChainFollower --------------------------
(***************************************************************************)
(* Genesis height 2 and chains up to height 4 or 5 over a tree that forks  *)
(* at every height:                                                        *)
(*                                                                         *)
(*     a2 -- a3 -- a4 -- a5            b2 -- b3 -- b4 -- b5                 *)
(*      \     \---- c4                                                     *)
(*       \--- c3                                                           *)
(*                                                                         *)
(* Names are claimed on both branches by different owners, so a registry   *)
(* that followed the wrong branch shows it.                                *)
(***************************************************************************)
EXTENDS ChainFollower, MCNames

CONSTANTS MaxHeight   \* the highest block of the tree in this instance

MCDigest == {"0", "d1", "a2", "a3", "a4", "a5", "b2", "b3", "b4", "b5",
             "c3", "c4"}
MCTxId   == {"0x1", "t1", "t2", "t3"}

LOCAL B(parent, h, d, claims) ==
  [parent |-> parent, height |-> h, digest |-> d, txIds |-> {"t1", "t2"},
   claims |-> claims]

LOCAL Tree ==
  { B("d1", 2, "a2", <<AliceShort>>),
    B("a2", 3, "a3", <<BobShort, BobLong>>),
    B("a3", 4, "a4", <<AliceLong>>),
    B("a4", 5, "a5", <<>>),
    B("d1", 2, "b2", <<BobShort>>),
    B("b2", 3, "b3", <<AliceLong>>),
    B("b3", 4, "b4", <<>>),
    B("b4", 5, "b5", <<>>),
    B("a2", 3, "c3", <<>>),
    B("a3", 4, "c4", <<BobLong>>) }

MCBlock == {b \in Tree : b.height <= MaxHeight}

(* Every path of the tree that starts at the genesis height. *)
MCChains ==
  LET linked(c) == \A i \in DOMAIN c :
        /\ c[i].height = GenesisHeight + i - 1
        /\ i > 1 => c[i].parent = c[i - 1].digest
      next(C) == {Append(c, b) : c \in C, b \in MCBlock}
      extend(C) == {c \in next(C) : linked(c)}
      C1 == extend({<<>>})   C2 == extend(C1)
      C3 == extend(C2)       C4 == extend(C3)
  IN  {<<>>} \cup C1 \cup C2 \cup C3 \cup C4
=============================================================================
