--------------------------- MODULE NNSPredicates ---------------------------
(***************************************************************************)
(* The claim rules of the kernel (hoon/app/nns-predicates.hoon): name      *)
(* format, fee schedule, inclusion in the block, payment witness, and the  *)
(* fold of a block's claims over the accumulator.                          *)
(*                                                                         *)
(* A name is a record of what the rules look at: the byte length of the    *)
(* cord, whether its last five bytes are ".nock", whether the bytes in     *)
(* front of the suffix are all lower case letters and digits, and a label  *)
(* that tells names of one shape apart.                                    *)
(***************************************************************************)
EXTENDS NNSAccumulator, Sequences

CONSTANTS
  LockRoot,          \* lock roots of treasury outputs
  TreasuryLockRoot   \* the canonical one

ASSUME NameAssumption ==
  \A n \in Name : /\ n.bytes \in Nat
                  /\ n.suffixed \in BOOLEAN
                  /\ n.lowerAlnum \in BOOLEAN
                  /\ n.suffixed => n.bytes >= 5

(* The reserved stem carries no suffix, so no claim can name it. *)
ASSUME TldAssumption == ~Tld.suffixed

ASSUME TreasuryAssumption == TreasuryLockRoot \in LockRoot

Witness == [txId : TxId, spender : Owner, amount : Nat, lockRoot : LockRoot]

Claim == [name : Name, owner : Owner, fee : Nat, txHash : TxId,
          witness : Witness]

-----------------------------------------------------------------------------
(* G1: <nonempty stem of a-z0-9>.nock *)
HasNockSuffix(name) == name.bytes >= 6 /\ name.suffixed

IsValidName(name) ==
  /\ HasNockSuffix(name)
  /\ name.bytes - 5 # 0
  /\ name.lowerAlnum

(* The fee schedule in nicks, by the length of the stem. *)
FeeForName(name) ==
  LET stem == IF name.suffixed THEN name.bytes - 5 ELSE name.bytes
  IN  CASE stem = 0             -> 0
        [] stem >= 10           -> 6553600
        [] stem \in 5 .. 9      -> 32768000
        [] stem \in 1 .. 4      -> 327680000

(* The predicate bundle a scanned claim has to pass.  `page' carries the   *)
(* block's digest and its transaction ids.                                 *)
ValidClaim(page, c) ==
  /\ IsValidName(c.name)
  /\ c.fee >= FeeForName(c.name)
  /\ c.txHash \in page.txIds
  /\ c.witness.txId = c.txHash
  /\ c.witness.spender = c.owner
  /\ c.witness.amount >= c.fee
  /\ c.witness.lockRoot = TreasuryLockRoot

(* The row a claim of this page writes. *)
RowOf(page, c) ==
  [name |-> c.name, owner |-> c.owner, txHash |-> c.txHash,
   claimHeight |-> page.height, blockDigest |-> page.digest]

-----------------------------------------------------------------------------
(* The claims of the page that pass, by their position in the list. *)
ValidPositions(page) ==
  {i \in DOMAIN page.claims : ValidClaim(page, page.claims[i])}

(* i is the first position with a valid claim on `name'. *)
IsFirstClaim(page, name, i) ==
  /\ i \in ValidPositions(page)
  /\ page.claims[i].name = name
  /\ \A j \in ValidPositions(page) : page.claims[j].name = name => i <= j

(* +claim-scanner: every name that had a row keeps it, every other name    *)
(* with a valid claim gets the row of its first one.  The code computes    *)
(* this with a left fold of Insert; ClaimScannerFold is that fold and      *)
(* FoldIsFirstWriterWins compares the two.                                 *)
ClaimScanner(acc, page) ==
  LET claimed == {page.claims[i].name : i \in ValidPositions(page)}
      first(n) == CHOOSE i \in ValidPositions(page) : IsFirstClaim(page, n, i)
  IN  [n \in DOMAIN acc \cup claimed |->
         IF HasRow(acc, n) THEN acc[n]
                           ELSE RowOf(page, page.claims[first(n)])]
=============================================================================
