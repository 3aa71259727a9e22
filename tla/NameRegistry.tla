---------------------------- MODULE NameRegistry ----------------------------
(***************************************************************************)
(* What the registrar promises, without blocks, cursors, proofs or pokes:  *)
(* a ledger of rows that is extended one chain height at a time, never     *)
(* rewritten, and whose new rows are stamped with the height that wrote    *)
(* them.  NNSKernel implements it (Registry!Spec there).                   *)
(***************************************************************************)
EXTENDS Naturals

CONSTANTS
  FirstHeight   \* the first chain height that may register names

VARIABLES
  rows,     \* the registered names and their rows
  height    \* the last height taken into account, 0 before the first

Init == DOMAIN rows = {} /\ height = 0

NextHeight == IF height = 0 THEN FirstHeight ELSE height + 1

(* The names of the next height are added; nothing is lost or changed. *)
Extend ==
  /\ height' = NextHeight
  /\ DOMAIN rows \subseteq DOMAIN rows'
  /\ \A n \in DOMAIN rows : rows'[n] = rows[n]
  /\ \A n \in DOMAIN rows' \ DOMAIN rows :
       rows'[n].name = n /\ rows'[n].claimHeight = height'

Spec == Init /\ [][Extend]_<<rows, height>>
=============================================================================
