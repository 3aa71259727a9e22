--------------------------- MODULE ClaimExtraction ---------------------------
(***************************************************************************)
(* From the node's answers for one block to the claims of its %scan-block: *)
(* the transaction details are fetched by concurrent tasks that retry      *)
(* while the node still calls a transaction pending                        *)
(* (fetch_block_transaction_details), put into the canonical order of the  *)
(* block's transaction set (align_scan_block_fetch_tx_order) and searched  *)
(* for claim notes (extract_claims, payment.rs).                           *)
(***************************************************************************)
EXTENDS ClaimBundle, Payment

CONSTANTS
  Tx,           \* transactions
  Blocks,       \* what GetBlockDetails may list: sequences of txs
  ZRank,        \* external: the visit order of the z-set, TxId -> Nat
  MaxAttempts,  \* MAX_ATTEMPTS
  MaxFaults     \* bound: failing or wrong answers in a behaviour

(* ClaimNoteV1::from_note_data on the blob of an output: a claim path      *)
(* names no owner and no transaction, a triple may leave them empty, and   *)
(* anything else is no claim note.  Wallet packing and jam wrapping are    *)
(* stripped where they occur and are left out.                             *)
ClaimNote(out) ==
  CASE out.blob = Nothing         -> Nothing
    [] out.blob.inner = "path"    -> [name |-> out.blob.name,
                                      owner |-> Nothing, txHash |-> Nothing]
    [] out.blob.inner = "triple"  -> [name |-> out.blob.name,
                                      owner |-> out.blob.owner,
                                      txHash |-> out.blob.txHash]
    [] OTHER                      -> Nothing

ASSUME ZRankAssumption ==
  /\ ZRank \in [TxId -> Nat]
  /\ \A s, t \in TxId : ZRank[s] = ZRank[t] => s = t

(* A transaction has one id, and its details are the same whoever asks.    *)
ASSUME TxAssumption ==
  /\ \A tx \in Tx :
       /\ tx.id \in TxId
       /\ tx.outputs \in Seq(Range(tx.outputs))
       /\ \A out \in Range(tx.outputs) :
            /\ out.amount \in Nat \cup {Nothing}
            /\ ClaimNote(out) # Nothing => ClaimNote(out).name \in Name
  /\ \A s, t \in Tx : s.id = t.id => s = t

(* A u64 holds every fee of the schedule. *)
ASSUME FeesAssumption == \A n \in Name : FeeForName(n) <= MaxU64

ASSUME BlocksAssumption == Blocks \subseteq Seq(Tx)

VARIABLES
  listed,    \* the transactions in the order GetBlockDetails lists them
  indexed,   \* those the node's transaction index has
  attempts,  \* calls made so far, per task
  details,   \* answers, per task that has one
  result,    \* "fetching", "done" or "failed"
  claims,    \* the claims of the block
  faults

vars == <<listed, indexed, attempts, details, result, claims, faults>>

-----------------------------------------------------------------------------
(* Claims of one transaction. *)

Signers(tx) == UNION {tx.inputs[i].signers : i \in DOMAIN tx.inputs}

(* infer_claim_owner_for_claim: the owner in the note, else the only       *)
(* signer, else (no signer at all) the only spent-note name.               *)
InferOwner(tx, note) ==
  IF note.owner # Nothing THEN note.owner
  ELSE LET from == IF Signers(tx) # {} THEN Signers(tx) ELSE NoteNames(tx)
       IN  IF \E o \in from : from = {o} THEN CHOOSE o \in from : TRUE
                                         ELSE Nothing

(* Mutant: the spent-note rule applies to signed transactions too. *)
OwnerOkLegacy(tx, owner) == owner \in Signers(tx) \cup NoteNames(tx)

(* claim_witness_from_transaction: the owner signed, or, where the node    *)
(* reports no signers, is the name of a spent note.                        *)
OwnerOk(tx, owner) ==
  IF Signers(tx) # {} THEN owner \in Signers(tx) ELSE owner \in NoteNames(tx)

(* Mutant: the transaction id in the note is not compared. *)
YieldsClaimOfAnyTx(tx, out) ==
  /\ ClaimNote(out) # Nothing
  /\ InferOwner(tx, ClaimNote(out)) # Nothing
  /\ OwnerOk(tx, InferOwner(tx, ClaimNote(out)))

(* An output is a claim if its note decodes, names this transaction or     *)
(* none, and its owner is known and authorised; all others are skipped.    *)
YieldsClaim(tx, out) ==
  /\ ClaimNote(out) # Nothing
  /\ ClaimNote(out).txHash \in {Nothing, tx.id}
  /\ InferOwner(tx, ClaimNote(out)) # Nothing
  /\ OwnerOk(tx, InferOwner(tx, ClaimNote(out)))

EffectiveTxId(tx, note) ==
  IF note.txHash = Nothing THEN tx.id ELSE note.txHash

(* An underpaid claim is only warned about; the kernel drops it. *)
ClaimOf(tx, out) ==
  LET note  == ClaimNote(out)
      owner == InferOwner(tx, note)
  IN  [name |-> note.name, owner |-> owner, fee |-> HullFeeForName(note.name),
       txHash |-> EffectiveTxId(tx, note),
       witness |-> [txId |-> tx.id, spender |-> owner,
                    amount |-> TreasurySum(tx),
                    lockRoot |-> TreasuryLockRoot]]

PushClaim(tx, cs, out) ==
  IF YieldsClaim(tx, out) THEN Append(cs, ClaimOf(tx, out)) ELSE cs

ExtractFromTransaction(tx) ==
  FoldLeft(LAMBDA cs, out : PushClaim(tx, cs, out), <<>>, tx.outputs)

ExtendClaims(cs, tx) == cs \o ExtractFromTransaction(tx)

ExtractClaims(txs) == FoldLeft(ExtendClaims, <<>>, txs)

-----------------------------------------------------------------------------
(* Order. *)

TxIdsOf(txs) == {txs[i].id : i \in DOMAIN txs}

(* canonical_z_set_tx_order: the ids in the order of the z-set; a list     *)
(* with a duplicate is an error.                                           *)
IsCanonicalOrder(ids) ==
  \A i, j \in DOMAIN ids : i < j => ZRank[ids[i]] < ZRank[ids[j]]

CanonicalOrder(txs) ==
  CHOOSE ids \in [1 .. Cardinality(TxIdsOf(txs)) -> TxIdsOf(txs)] :
    IsCanonicalOrder(ids)

HasDuplicate(txs) == \E i, j \in DOMAIN txs : i # j /\ txs[i].id = txs[j].id

(* Mutant: the details stay in the order of the RPC. *)
AlignUnsorted(ids, txs) ==
  IF HasDuplicate(txs) \/ TxIdsOf(txs) # {ids[i] : i \in DOMAIN ids}
  THEN Nothing
  ELSE txs

(* align_transaction_details_with_canonical_order: the details by the id   *)
(* they carry, in the order of `ids'; one missing or one too many is an    *)
(* error.                                                                  *)
Align(ids, txs) ==
  IF TxIdsOf(txs) # {ids[i] : i \in DOMAIN ids}
  THEN Nothing
  ELSE [i \in DOMAIN ids |-> CHOOSE tx \in {txs[j] : j \in DOMAIN txs} :
                               tx.id = ids[i]]

-----------------------------------------------------------------------------
(* The fetch. *)

Init ==
  /\ listed \in Blocks
  /\ indexed \in SUBSET {listed[i] : i \in DOMAIN listed}
  /\ attempts = [i \in DOMAIN listed |-> 0]
  /\ details = [i \in {} |-> Nothing]
  /\ result = "fetching"
  /\ claims = <<>>
  /\ faults = 0

(* Environment: the node's index catches up with the block. *)
NodeIndexes ==
  /\ \E tx \in {listed[i] : i \in DOMAIN listed} \ indexed :
       indexed' = indexed \cup {tx}
  /\ UNCHANGED <<listed, attempts, details, result, claims, faults>>

(* Task i is at work: no answer yet, and some attempt left. *)
AtWork(i) ==
  /\ result = "fetching"
  /\ i \in DOMAIN listed \ DOMAIN details
  /\ attempts[i] < MaxAttempts

Answer(i, tx) ==
  /\ attempts' = [attempts EXCEPT ![i] = @ + 1]
  /\ details' = [j \in DOMAIN details \cup {i} |->
                   IF j = i THEN tx ELSE details[j]]
  /\ UNCHANGED <<listed, indexed, result, claims>>

TxReady(i) ==
  /\ AtWork(i) /\ listed[i] \in indexed
  /\ Answer(i, listed[i])
  /\ UNCHANGED faults

(* The node answers with the details of another transaction. *)
TxWrong(i) ==
  /\ AtWork(i) /\ faults < MaxFaults
  /\ \E tx \in Tx \ {listed[i]} : Answer(i, tx)
  /\ faults' = faults + 1

(* Mutant: pending transactions are asked for again without end. *)
TxPendingForever(i) ==
  /\ AtWork(i) /\ listed[i] \notin indexed
  /\ attempts' = [attempts EXCEPT ![i] = 1]
  /\ UNCHANGED <<listed, indexed, details, result, claims, faults>>

(* Pending: sleep and ask again, up to MaxAttempts times. *)
TxPending(i) ==
  /\ AtWork(i) /\ listed[i] \notin indexed
  /\ attempts' = [attempts EXCEPT ![i] = @ + 1]
  /\ result' = IF attempts[i] + 1 = MaxAttempts THEN "failed" ELSE result
  /\ UNCHANGED <<listed, indexed, details, claims, faults>>

(* The query fails, or the node reports an error: the block fails. *)
TxError(i) ==
  /\ AtWork(i) /\ faults < MaxFaults
  /\ faults' = faults + 1
  /\ result' = "failed"
  /\ UNCHANGED <<listed, indexed, attempts, details, claims>>

(* All tasks have joined: sort, align, extract. *)
Finish ==
  /\ result = "fetching"
  /\ DOMAIN details = DOMAIN listed
  /\ IF HasDuplicate(listed) \/ Align(CanonicalOrder(listed), details) = Nothing
     THEN result' = "failed" /\ UNCHANGED claims
     ELSE /\ result' = "done"
          /\ claims' = ExtractClaims(Align(CanonicalOrder(listed), details))
  /\ UNCHANGED <<listed, indexed, attempts, details, faults>>

Next ==
  \/ NodeIndexes
  \/ \E i \in DOMAIN listed :
       TxReady(i) \/ TxWrong(i) \/ TxPending(i) \/ TxError(i)
  \/ Finish

(* Each call returns, and each task asks again after its delay. *)
Fairness ==
  /\ WF_vars(Finish)
  /\ WF_vars(\E i \in DOMAIN listed : TxReady(i) \/ TxPending(i))

Spec == Init /\ [][Next]_vars /\ Fairness

-----------------------------------------------------------------------------
(* The claims of a transaction set, told without any fetch: one per        *)
(* eligible output, by the rank of the transaction, then by output.        *)
ClaimPositions(txs) ==
  {p \in UNION {{tx} \X DOMAIN tx.outputs : tx \in txs} :
     YieldsClaim(p[1], p[1].outputs[p[2]])}

ClaimAt(p) == ClaimOf(p[1], p[1].outputs[p[2]])

EarlierClaim(p, q) ==
  \/ ZRank[p[1].id] < ZRank[q[1].id]
  \/ p[1] = q[1] /\ p[2] < q[2]

(* The order in which a block's claims reach the kernel, and which claims  *)
(* do, is a function of the block's set of transactions: not of the order  *)
(* the RPC lists them in, of the tasks' order, of retries or of answers    *)
(* that belong to another transaction.  First writer wins depends on it.   *)
ClaimsAreCanonical ==
  result = "done" =>
    LET ps == ClaimPositions({listed[i] : i \in DOMAIN listed})
    IN  \E order \in [1 .. Cardinality(ps) -> ps] :
          /\ \A i, j \in DOMAIN order : i < j => EarlierClaim(order[i], order[j])
          /\ claims = [i \in DOMAIN order |-> ClaimAt(order[i])]

(* What a transaction really pays into the treasury, however large. *)
AddPaid(sum, out) ==
  IF OutputPaysTreasury(out) /\ out.amount # Nothing
  THEN sum + out.amount ELSE sum

Paid(tx) == FoldLeft(AddPaid, 0, tx.outputs)

(* What the hull hands to the kernel fails there only for its name or for  *)
(* its price, the price being what its transaction really pays, also where *)
(* that exceeds a u64: the two sides, written in two languages, agree on   *)
(* everything else, and %validate-claim would say the same (extract_claims *)
(* and sum_treasury_outputs_v1 against valid-claim and                     *)
(* validate-claim-bundle).                                                 *)
KernelOnlyJudgesNameAndPrice ==
  LET page == [digest |-> ZeroDigest, height |-> GenesisHeight,
               txIds |-> TxIdsOf(listed), claims |-> claims]
  IN  \A i \in DOMAIN claims : \E t \in DOMAIN listed :
        LET c  == claims[i]
            ok == IsValidName(c.name) /\ Paid(listed[t]) >= FeeForName(c.name)
        IN  /\ listed[t].id = c.txHash
            /\ ValidClaim(page, c) <=> ok
            /\ ValidateClaimBundle(BundleOf(c, page.digest, page, <<>>,
                                            page.digest)) = "ok" <=> ok

(* Nobody is registered by a stranger.  Entitled to a claim are those who  *)
(* signed its transaction or, where the node reports no signer at all,     *)
(* those its spent notes are named after.  The owner is one of them, and   *)
(* either the note says so or nobody else is (infer_claim_owner_for_claim, *)
(* claim_witness_from_transaction).                                        *)
OwnerSigned ==
  \A i \in DOMAIN claims :
    \E t \in DOMAIN listed : \E out \in Range(listed[t].outputs) :
      LET tx       == listed[t]
          note     == ClaimNote(out)
          entitled == IF Signers(tx) # {} THEN Signers(tx) ELSE NoteNames(tx)
      IN  /\ tx.id = claims[i].txHash
          /\ note # Nothing /\ note.name = claims[i].name
          /\ claims[i].owner \in entitled
          /\ note.owner = claims[i].owner \/ entitled = {claims[i].owner}

(* Every fetch ends, even if the node never indexes a transaction. *)
FetchEnds == <>(result \in {"done", "failed"})
=============================================================================
