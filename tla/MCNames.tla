------------------------------- MODULE MCNames -------------------------------
(***************************************************************************)
(* The small universe the model checker uses: names on both sides of the   *)
(* fee schedule's boundaries, two owners, and claims that pass or fail     *)
(* each rule.                                                              *)
(***************************************************************************)
EXTENDS Naturals

(* A name of `n' bytes and `m' characters, suffix included. *)
NameRec(label, n, m, suffixed, ok) ==
  [label |-> label, bytes |-> n, chars |-> m, suffixed |-> suffixed,
   lowerAlnum |-> ok]

MCTld   == NameRec("nock", 4, 4, FALSE, TRUE)
Short   == NameRec("abcd", 9, 9, TRUE, TRUE)         \* 327680000 nicks
Long    == NameRec("abcdefghij", 15, 15, TRUE, TRUE) \* 6553600 nicks
Upper   == NameRec("wide", 10, 9, TRUE, FALSE)       \* fails G1; one of its
                                                     \* characters has 2 bytes

MCName == {MCTld, Short, Long, Upper}

MCOwner    == {"nock", "alice", "bob"}
MCLockRoot == {"treasury", "elsewhere"}

(* A claim of `name' by `owner' in transaction `tx' that pays `paid'. *)
MCClaim(name, owner, fee, tx, paid, root) ==
  [name |-> name, owner |-> owner, fee |-> fee, txHash |-> tx,
   witness |-> [txId |-> tx, spender |-> owner, amount |-> paid,
                lockRoot |-> root]]

LOCAL ShortFee == 327680000
LOCAL LongFee  == 6553600

AliceShort == MCClaim(Short, "alice", ShortFee, "t1", ShortFee, "treasury")
BobShort   == MCClaim(Short, "bob", ShortFee, "t2", ShortFee, "treasury")
AliceLong  == MCClaim(Long, "alice", LongFee, "t1", ShortFee, "treasury")
BobLong    == MCClaim(Long, "bob", LongFee, "t2", LongFee, "treasury")

(* Claims that break one rule each. *)
BadFormat  == MCClaim(Upper, "bob", ShortFee, "t2", ShortFee, "treasury")
LowFee     == MCClaim(Short, "bob", LongFee, "t2", ShortFee, "treasury")
Underpaid  == MCClaim(Short, "bob", ShortFee, "t2", LongFee, "treasury")
WrongRoot  == MCClaim(Short, "bob", ShortFee, "t2", ShortFee, "elsewhere")
Overdeclared == MCClaim(Long, "bob", ShortFee, "t2", LongFee, "treasury")
NotInPage  == MCClaim(Short, "bob", ShortFee, "t3", ShortFee, "treasury")
OtherTx    == [BobShort EXCEPT !.witness.txId = "t1"]
NotSigner  == [BobShort EXCEPT !.witness.spender = "alice"]
TldClaim   == MCClaim(MCTld, "bob", ShortFee, "t2", ShortFee, "treasury")

GoodClaims == {AliceShort, BobShort, AliceLong, BobLong}
BadClaims  == {BadFormat, LowFee, Underpaid, Overdeclared, WrongRoot,
               NotInPage, OtherTx, NotSigner, TldClaim}
=============================================================================
