-------------------------- MODULE MCClaimExtraction --------------------------
(***************************************************************************)
(* Transactions with each shape of claim note: owner and id in the note,   *)
(* path notes with one and with two signers, an unsigned legacy spend, a   *)
(* note that names another transaction, an owner who did not sign, two     *)
(* claims in one transaction, names of every tier of the fee schedule, a   *)
(* payment split over outputs, one that sums to more than MaxU64.          *)
(***************************************************************************)
EXTENDS ClaimExtraction, MCNames

LOCAL Five == NameRec("abcde", 10, 10, TRUE, TRUE)
LOCAL Nine == NameRec("abcdefghi", 14, 14, TRUE, TRUE)

MCTierName == MCName \cup {Five, Nine}

MCDigest == {"0"}
MCTxId   == {"0x1", "t1", "t2", "t3", "t4", "t5", "t6"}

MCZRank == [t \in MCTxId |->
  CASE t = "0x1" -> 0 [] t = "t1" -> 3 [] t = "t2" -> 1 [] t = "t3" -> 2
    [] t = "t4" -> 6 [] t = "t5" -> 5 [] t = "t6" -> 4]

LOCAL In(signers, noteName) == [signers |-> signers, noteName |-> noteName]
LOCAL Note(name, owner, tx) ==
  [inner |-> "triple", name |-> name, owner |-> owner, txHash |-> tx]
LOCAL Path(name) == [inner |-> "path", name |-> name]
LOCAL Memo == [inner |-> "other"]

(* An output that pays the treasury by its lock, by its name, or not. *)
LOCAL Pay(n, blob) ==
  [name |-> "n1", locks |-> {"elsewhere", "treasury"}, blob |-> blob,
   amount |-> n]
LOCAL OldPay(n, blob) ==
  [name |-> "treasury", locks |-> {}, blob |-> blob, amount |-> n]
LOCAL Other(blob) ==
  [name |-> "n2", locks |-> {"elsewhere"}, blob |-> blob, amount |-> 1]

LOCAL ShortFee == 327680000

LOCAL T1 == [id |-> "t1", inputs |-> <<In({"alice"}, "bob")>>,
             outputs |-> <<Pay(ShortFee, Note(Short, "alice", "t1")),
                           Other(Note(Long, "bob", Nothing)),
                           OldPay(ShortFee, Nothing)>>]
LOCAL T2 == [id |-> "t2", inputs |-> <<In({"bob"}, "bob"), In({"bob"}, "nock")>>,
             outputs |-> <<Pay(ShortFee, Path(Short)), Other(Path(Upper)),
                           Other(Path(Five)), Other(Path(Nine))>>]
LOCAL T3 == [id |-> "t3", inputs |-> <<In({"alice"}, "bob"), In({"bob"}, "nock")>>,
             outputs |-> <<Pay(6553600, Path(Long)),
                           Other(Note(Short, "bob", Nothing))>>]
LOCAL T4 == [id |-> "t4", inputs |-> <<In({}, "alice")>>,
             outputs |-> <<Pay(6000000, Nothing), Other(Path(Long)),
                           OldPay(553600, Memo)>>]
LOCAL T5 == [id |-> "t5", inputs |-> <<In({"bob"}, "alice")>>,
             outputs |-> <<Pay(ShortFee, Note(Short, "bob", "t1"))>>]
LOCAL T6 == [id |-> "t6", inputs |-> <<In({}, "alice"), In({}, "bob")>>,
             outputs |-> <<Pay(Nothing, Path(Short)),
                           Other(Note(Long, "bob", "t6"))>>]

MCTx == {T1, T2, T3, T4, T5, T6}

(* Lists of two transactions in any order and with repetitions, and one of *)
(* three in each order.                                                    *)
MCBlocks ==
  {<<>>} \cup [1 .. 2 -> MCTx]
    \cup {b \in [1 .. 3 -> {T1, T2, T4}] : \A i, j \in 1 .. 3 :
                                              b[i] = b[j] => i = j}
=============================================================================
