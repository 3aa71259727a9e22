----------------------------- MODULE LightVerify -----------------------------
(***************************************************************************)
(* The offline wallet check: src/bin/light_verify.rs, the header walk of   *)
(* src/wallet_y4.rs and the two verify pokes of the kernel it boots.       *)
(*                                                                         *)
(* The wallet pins a checkpoint and reads a bundle: a row, the scan cursor *)
(* and root it belongs to, a snapshot of the registry, a recursive proof   *)
(* and the block headers from the cursor down to the checkpoint.  Hex and  *)
(* jam decoding is left out but for a snapshot that does not cue.          *)
(***************************************************************************)
EXTENDS NNSAccumulator, Sequences

CONSTANTS
  Absent,   \* a missing bundle field or CLI flag
  Garbled   \* a snapshot jam that does not cue

(* The commitment root digests the rows sorted by name.  Free of           *)
(* collisions, it tells sets of rows apart; the keys are not in it.        *)
Root(acc) == {acc[n] : n \in DOMAIN acc}

(* A header link of the bundle; an honest one copies a block.              *)
HeaderOf(block) ==
  [height |-> block.height, digest |-> block.digest, parent |-> block.parent]

(* Mutant: the walk may end anywhere at the checkpoint's height. *)
HeaderChainOkAnyEnd(height, digest, checkpoint, headers) ==
  \/ /\ height = checkpoint.height
     /\ headers = <<>>
     /\ digest = checkpoint.digest
  \/ /\ height > checkpoint.height
     /\ headers # <<>>
     /\ headers[1].digest = digest
     /\ headers[1].height = height
     /\ \A i \in 1 .. Len(headers) - 1 :
          /\ headers[i].parent = headers[i + 1].digest
          /\ headers[i + 1].height + 1 = headers[i].height
     /\ headers[Len(headers)].height = checkpoint.height

(* Newest header first, each parent the digest of the next, the last one   *)
(* the checkpoint itself; no headers when the cursor is the checkpoint.    *)
HeaderChainOk(height, digest, checkpoint, headers) ==
  \/ /\ height = checkpoint.height
     /\ headers = <<>>
     /\ digest = checkpoint.digest
  \/ /\ height > checkpoint.height
     /\ headers # <<>>
     /\ headers[1].digest = digest
     /\ headers[1].height = height
     /\ \A i \in 1 .. Len(headers) - 1 :
          /\ headers[i].parent = headers[i + 1].digest
          /\ headers[i + 1].height + 1 = headers[i].height
     /\ headers[Len(headers)].height = checkpoint.height
     /\ headers[Len(headers)].digest = checkpoint.digest

(* The poke %verify-accumulator-snapshot: the snapshot has the root and    *)
(* the row.                                                                *)
VerifyAccumulatorSnapshot(root, snapshot, name, value) ==
  IF snapshot = Garbled THEN "error"
  ELSE IF /\ Root(snapshot) = root
          /\ HasRow(snapshot, name)
          /\ snapshot[name] = [value EXCEPT !.name = name]
  THEN "ok" ELSE "bad"

(* The poke %verify-stark-explicit: a proof is accepted for the            *)
(* computation it was made for.  `traced' is the subject and formula       *)
(* shipped with it.                                                        *)
VerifyStarkExplicit(proof) ==
  IF Garbled \in {proof.proves, proof.traced} THEN "error"
  ELSE IF proof.proves = proof.traced THEN "ok" ELSE "bad"

(* The wallet pokes a kernel of its own, booted in a temporary directory;  *)
(* an error effect and a kernel that does not boot are errors alike.       *)
VerifyAccumulatorOffline(cli, bundle) ==
  IF cli.kernelBoots
  THEN VerifyAccumulatorSnapshot(bundle.root, bundle.snapshot, bundle.name,
                                 bundle.value)
  ELSE "error"

VerifyStarkOffline(cli, proof) ==
  IF cli.kernelBoots THEN VerifyStarkExplicit(proof) ELSE "error"

(* verify_stark_section: a proof without its computation fails like one    *)
(* that does not verify.                                                   *)
StarkSectionFails(cli, bundle) ==
  /\ bundle.proof # Absent
  /\ \/ bundle.proof.traced = Absent
     \/ VerifyStarkOffline(cli, bundle.proof) # "ok"

Shown(bundle) == bundle.value # Absent

Snapshotted(bundle) == Shown(bundle) /\ bundle.snapshot # Absent

(* The exit code of light_verify: that of the first check that fails.      *)
LightVerifyExit(cli, bundle) ==
  IF cli.checkpoint = Absent THEN 5
  ELSE IF bundle.zInProof THEN 2
  ELSE IF StarkSectionFails(cli, bundle) THEN 7
  ELSE IF bundle.proof = Absent /\ ~cli.allowEmptyRecursive THEN 8
  ELSE IF Shown(bundle) /\ bundle.snapshot = Absent
          /\ ~cli.allowMissingSnapshot THEN 9
  ELSE IF Snapshotted(bundle)
          /\ VerifyAccumulatorOffline(cli, bundle) = "error" THEN 7
  ELSE IF Snapshotted(bundle)
          /\ VerifyAccumulatorOffline(cli, bundle) = "bad" THEN 10
  ELSE IF ~HeaderChainOk(bundle.height, bundle.digest, cli.checkpoint,
                         bundle.headers) THEN 1
  ELSE 0
=============================================================================
