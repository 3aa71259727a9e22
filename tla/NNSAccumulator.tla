--------------------------- MODULE NNSAccumulator ---------------------------
(***************************************************************************)
(* The registry data structure of the kernel: rows keyed by name, written  *)
(* once (hoon/app/nns-accumulator.hoon).                                   *)
(*                                                                         *)
(* The code keys its z-map by the Tip5 digest of the name.  The digest is  *)
(* taken to be collision free, so an accumulator is a function from a set  *)
(* of names to rows; the treap shape and the commitment root, which are    *)
(* functions of those rows, are left out.                                  *)
(***************************************************************************)
EXTENDS Naturals

CONSTANTS
  Name,           \* names as records, see NNSPredicates
  Owner,          \* base58 addresses / signer keys
  TxId,           \* transaction ids
  Digest,         \* block digests
  ZeroDigest,     \* 0x0, the digest of a cursor that has scanned nothing
  GenesisHeight,  \* nns-genesis-height, 63.000 in the code
  Tld,            \* the reserved stem `nock`
  TldOwner,       \* its owner cord
  TldTx           \* its transaction id, 0x1

ASSUME AccumulatorAssumption ==
  /\ ZeroDigest \in Digest
  /\ GenesisHeight \in Nat \ {0}
  /\ Tld \in Name
  /\ TldOwner \in Owner
  /\ TldTx \in TxId

(* One row: nns-accumulator-entry. *)
Entry ==
  [name : Name, owner : Owner, txHash : TxId,
   claimHeight : Nat, blockDigest : Digest]

(* An accumulator maps some of the names to rows. *)
IsAccumulator(acc) ==
  /\ acc = [n \in DOMAIN acc |-> acc[n]]
  /\ DOMAIN acc \subseteq Name
  /\ \A n \in DOMAIN acc : acc[n] \in Entry

EmptyAccumulator == [n \in {} |-> CHOOSE e \in Entry : TRUE]

HasRow(acc, name) == name \in DOMAIN acc

(* Mutant: the last writer wins. *)
InsertOverwrites(acc, name, entry) ==
  [n \in DOMAIN acc \cup {name} |->
     IF n = name THEN [entry EXCEPT !.name = name] ELSE acc[n]]

(* First writer wins: a name that already has a row keeps it.  The code    *)
(* overwrites the entry's name field with the key it is stored under.      *)
Insert(acc, name, entry) ==
  IF HasRow(acc, name)
  THEN acc
  ELSE [n \in DOMAIN acc \cup {name} |->
          IF n = name THEN [entry EXCEPT !.name = name] ELSE acc[n]]

GenesisTldEntry ==
  [name |-> Tld, owner |-> TldOwner, txHash |-> TldTx,
   claimHeight |-> GenesisHeight, blockDigest |-> ZeroDigest]

(* Seed the reserved top-level row unless it is already there. *)
EnsureGenesisTld(acc) == Insert(acc, Tld, GenesisTldEntry)
=============================================================================
