------------------------------- MODULE Payment -------------------------------
(***************************************************************************)
(* The hull's side of a payment (src/payment.rs): its fee schedule and     *)
(* what a transaction pays into the treasury.                              *)
(*                                                                         *)
(* A transaction is what GetTransactionDetails says of it: per input its   *)
(* signers and the name of the spent note; per output its name, the blob   *)
(* entry of its note data, its lock entries and its amount.  Decoding a    *)
(* lock and hashing it to a lock root is left out.                         *)
(***************************************************************************)
EXTENDS NNSPredicates, SequencesExt

CONSTANTS
  MaxU64,   \* largest u64, scaled down
  Nothing   \* no note, no owner, no amount, no payment: Option::None

ASSUME MaxU64Assumption == MaxU64 \in Nat

(* Besides the bytes the kernel counts, a name has the characters the hull *)
(* counts: as many if all of them are ASCII, fewer otherwise.              *)
ASSUME CharsAssumption ==
  \A n \in Name : /\ n.chars \in 0 .. n.bytes
                  /\ n.suffixed => n.chars >= 5
                  /\ n.lowerAlnum => n.chars = n.bytes

(* fee_for_name *)
HullFeeForName(name) ==
  LET stem == IF name.suffixed THEN name.chars - 5 ELSE name.chars
  IN  CASE stem = 0            -> 0
        [] stem >= 10          -> 6553600
        [] stem \in 5 .. 9     -> 32768000
        [] stem \in 1 .. 4     -> 327680000

NoteNames(tx) == {tx.inputs[i].noteName : i \in DOMAIN tx.inputs}

(* One of its lock entries hashes to the treasury's lock root, or, for old *)
(* notes, it is named after it.                                            *)
OutputPaysTreasury(out) ==
  TreasuryLockRoot \in out.locks \cup {out.name}

(* Mutant: the addition of u64 wraps around. *)
SaturatingAddWraps(m, n) == (m + n) % (MaxU64 + 1)

(* Addition of u64 that stays at its maximum. *)
SaturatingAdd(m, n) == IF m + n > MaxU64 THEN MaxU64 ELSE m + n

(* sum_treasury_outputs_v1 *)
AddOutput(sum, out) ==
  IF OutputPaysTreasury(out) /\ out.amount # Nothing
  THEN SaturatingAdd(sum, out.amount) ELSE sum

TreasurySum(tx) == FoldLeft(AddOutput, 0, tx.outputs)
=============================================================================
