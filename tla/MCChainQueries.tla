--------------------------- MODULE MCChainQueries ---------------------------
(***************************************************************************)
(* Genesis height 2 and chains up to height 5 that fork below and above    *)
(* it.  The same transactions are mined at other heights and in another    *)
(* order on the other branches, or not at all, and claim other names.      *)
(*                                                                         *)
(*     a2 -- a3 -- a4 -- a5         b2 -- b3 -- b4 -- b5                    *)
(*      \--- c3 -- c4                                                      *)
(***************************************************************************)
EXTENDS ChainQueries, MCNames

MCDigest == {"0", "d1", "a2", "a3", "a4", "a5", "b2", "b3", "b4", "b5",
             "c3", "c4"}
MCTxId   == {"0x1", "t1", "t2"}

LOCAL Out(name, locks, amount) ==
  [name |-> name, locks |-> locks, amount |-> amount]

(* T1 pays 8 and 8, which a u64 of MaxU64 = 12 cannot hold, by lock and by *)
(* name; T2 pays 3 to the treasury and 9 elsewhere.                        *)
LOCAL T1 ==
  [id |-> "t1", inputs |-> <<[noteName |-> "bob"], [noteName |-> "alice"]>>,
   outputs |-> <<Out("n1", {"treasury"}, 8), Out("n2", {}, Nothing),
                 Out("treasury", {"elsewhere"}, 8)>>]
LOCAL T2 ==
  [id |-> "t2", inputs |-> <<[noteName |-> "bob"]>>,
   outputs |-> <<Out("n1", {"elsewhere"}, 9), Out("n2", {"treasury"}, 3)>>]

MCTx == {T1, T2}

LOCAL Pow(present, raw) == [present |-> present, raw |-> raw]

LOCAL B(parent, h, d, txs, claims, pow) ==
  [parent |-> parent, height |-> h, digest |-> d, txs |-> txs,
   txIds |-> {txs[i].id : i \in DOMAIN txs}, claims |-> claims, pow |-> pow]

LOCAL Tree ==
  { B("d1", 2, "a2", <<T1>>, <<AliceShort>>, Nothing),
    B("a2", 3, "a3", <<T2>>, <<BobShort, BobLong>>, Pow(TRUE, "p")),
    B("a3", 4, "a4", <<>>, <<>>, Pow(TRUE, Nothing)),
    B("a4", 5, "a5", <<>>, <<>>, Pow(FALSE, "p")),
    B("d1", 2, "b2", <<T2, T1>>, <<BobShort, AliceLong>>, Nothing),
    B("b2", 3, "b3", <<>>, <<>>, Pow(TRUE, "p")),
    B("b3", 4, "b4", <<>>, <<>>, Nothing),
    B("b4", 5, "b5", <<>>, <<>>, Nothing),
    B("a2", 3, "c3", <<>>, <<>>, Nothing),
    B("c3", 4, "c4", <<T2>>, <<BobLong>>, Nothing) }

MCChains ==
  LET linked(c) == \A i \in DOMAIN c :
        /\ c[i].height = GenesisHeight + i - 1
        /\ i > 1 => c[i].parent = c[i - 1].digest
      next(C) == {Append(c, b) : c \in C, b \in Tree}
      extend(C) == {c \in next(C) : linked(c)}
      C1 == extend({<<>>})   C2 == extend(C1)
      C3 == extend(C2)       C4 == extend(C3)
  IN  {<<>>} \cup C1 \cup C2 \cup C3 \cup C4

(* The anchor of every block, and some whose height is wrong. *)
MCAnchor ==
  {[height |-> b.height, digest |-> b.digest] : b \in Tree}
    \cup {[height |-> b.height + 1, digest |-> b.digest] :
            b \in {b \in Tree : b.digest \in {"a2", "b3"}}}

MCFee == {3, 10, 12}
=============================================================================
