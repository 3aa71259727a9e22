------------------------------ MODULE MCHullApi ------------------------------
(***************************************************************************)
(* HullApi over the fork tree of MCChainFollower.                          *)
(***************************************************************************)
EXTENDS HullApi, MCChainFollower
=============================================================================
