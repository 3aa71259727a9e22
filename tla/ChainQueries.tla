---------------------------- MODULE ChainQueries ----------------------------
(***************************************************************************)
(* The library calls that put one question to a Nockchain node in one or   *)
(* more RPCs (src/chain.rs), the payment check built from two of them      *)
(* (src/payment.rs), and a wallet that applies the freshness policy to a   *)
(* claim proof (src/freshness.rs).  Between two RPCs of a call the chain   *)
(* grows and reorganises and the mempool changes.                          *)
(*                                                                         *)
(* The node and the arguments of a call are environment.  So is the order  *)
(* in which the wallet asks: the tip, then the block at the height of the  *)
(* anchor, as the documentation of check_freshness and check_anchor_binding *)
(* has it.                                                                 *)
(***************************************************************************)
EXTENDS Payment, Freshness

CONSTANTS
  Tx,          \* transactions, see Payment
  Chains,      \* the chains a node may serve, from GenesisHeight up: blocks
               \* with their transactions in the order GetBlockDetails lists
               \* them, and their PoW proof
  Anchor,      \* anchors of claim proofs: [height, digest]
  Fee,         \* fees a payment may be checked against
  MaxFaults    \* bound: failing calls in a behaviour

ASSUME TxAssumption ==
  \A tx \in Tx :
    /\ tx.outputs \in Seq(Range(tx.outputs))
    /\ \A out \in Range(tx.outputs) : out.amount \in Nat \cup {Nothing}

(* A chain grows from GenesisHeight, each block on the one before, and     *)
(* digests do not collide.                                                 *)
ASSUME ChainsAssumption ==
  /\ \A c \in Chains :
       /\ c \in Seq(Range(c))
       /\ \A i \in DOMAIN c :
            /\ c[i].txs \in Seq(Tx)
            /\ c[i].height = GenesisHeight + i - 1
            /\ i > 1 => c[i].parent = c[i - 1].digest
  /\ \A c, d \in Chains : \A i \in DOMAIN c, j \in DOMAIN d :
       c[i].digest = d[j].digest => c[i] = d[j]

ASSUME ArgumentAssumption ==
  /\ \A a \in Anchor : a.height \in Nat
  /\ Fee \subseteq Nat

VARIABLES
  chain,     \* the node's best chain; chain[1] is at GenesisHeight
  mempool,   \* transactions the node knows beyond those of its chain
  call,      \* the call in progress
  reply,     \* what the last call returned
  faults

vars == <<chain, mempool, call, reply, faults>>

-----------------------------------------------------------------------------
(* External: what the node knows. *)
TipHeight == GenesisHeight + Len(chain) - 1

HasBlock(h) == h >= GenesisHeight /\ h <= TipHeight

BlockAt(h) == chain[h - GenesisHeight + 1]

TxsOf(block) == {block.txs[i] : i \in DOMAIN block.txs}

Mined(tx) == \E i \in DOMAIN chain : tx \in TxsOf(chain[i])

HeightOf(tx) ==
  CHOOSE h \in GenesisHeight .. TipHeight : tx \in TxsOf(BlockAt(h))

(* What may be asked. *)
Settlement == {"local", "endpoint", "unconfigured"}

Calls ==
  [op : {"accepted", "height", "position", "page", "details"}, tx : Tx]
  \cup [op : {"block_proof"}, height : GenesisHeight .. GenesisHeight + 3]
  \cup [op : {"receipt", "submit"}, settlement : Settlement]
  \cup [op : {"verify"}, settlement : Settlement, tx : Tx \cup {Nothing},
        address : Owner, fee : Fee]
  \cup [op : {"freshness"}, anchor : Anchor]

Idle == [step |-> "none"]

Ok(x)  == [ok |-> TRUE, value |-> x]
Err(e) == [ok |-> FALSE, value |-> e]

Init ==
  /\ chain \in {c \in Chains : Len(c) <= 1}
  /\ mempool = {}
  /\ call = Idle
  /\ reply = Ok(Nothing)
  /\ faults = 0

-----------------------------------------------------------------------------
(* Environment. *)

(* The node takes a chain at least as long as its own, of whatever branch. *)
(* What the new chain does not mine falls back into the mempool.           *)
NodeMoves ==
  /\ \E c \in Chains \ {chain} : Len(c) >= Len(chain) /\ chain' = c
  /\ mempool' = {tx \in mempool \cup {tx \in Tx : Mined(tx)} : ~Mined(tx)'}
  /\ UNCHANGED <<call, reply, faults>>

MempoolChanges ==
  /\ \E tx \in Tx :
       /\ ~Mined(tx)
       /\ mempool' = IF tx \in mempool THEN mempool \ {tx}
                                       ELSE mempool \cup {tx}
  /\ UNCHANGED <<chain, call, reply, faults>>

-----------------------------------------------------------------------------
environment == <<chain, mempool>>

Return(r) ==
  /\ call' = Idle
  /\ reply' = r

(* On to the next RPC with what is known so far. *)
Continue(step, seen) ==
  /\ call' = [call EXCEPT !.step = step, !.seen = seen]
  /\ UNCHANGED reply

(* The height the call asks GetBlockDetails for. *)
HeightAsked ==
  CASE call.asked.op = "block_proof" -> call.asked.height
    [] call.asked.op = "freshness"   -> call.asked.anchor.height
    [] OTHER                         -> call.seen

FirstStep(c) ==
  CASE c.op \in {"accepted", "receipt", "submit", "verify"} -> "accepted"
    [] c.op \in {"height", "position", "page"}              -> "tx_block"
    [] c.op = "details"                                     -> "details"
    [] c.op = "block_proof"                                 -> "block"
    [] c.op = "freshness"                                   -> "tip"

(* Some calls are answered without the node: everything in local mode, a   *)
(* payment without a transaction id, and a missing endpoint.               *)
SettleLocally(c) ==
  IF c.settlement = "local" THEN {Ok(Nothing)}
  ELSE IF c.settlement = "unconfigured" THEN {Err("rpc")} ELSE {}

VerifyLocally(c) ==
  IF c.tx = Nothing THEN {Ok("stub")}
  ELSE IF c.settlement = "local" THEN {Ok(c.tx)}
  ELSE IF c.settlement = "unconfigured" THEN {Err("rpc")} ELSE {}

AnsweredLocally(c) ==
  CASE c.op = "verify"               -> VerifyLocally(c)
    [] c.op \in {"receipt", "submit"} -> SettleLocally(c)
    [] OTHER                         -> {}

Ask(c) ==
  /\ call = Idle
  /\ \/ /\ AnsweredLocally(c) = {}
        /\ call' = [asked |-> c, step |-> FirstStep(c), seen |-> Nothing]
        /\ reply' = Ok(Nothing)
     \/ /\ reply' \in AnsweredLocally(c)
        /\ UNCHANGED call
  /\ UNCHANGED <<environment, faults>>

(* Receipts and submissions only want to see the node answer; the claim    *)
(* note itself is not sent.                                                *)
Queued(c) ==
  /\ c.op \in {"receipt", "submit"}
  /\ Return(Ok("queued"))

(* The RPC TransactionAccepted, as ChainClient puts it: a transaction that *)
(* is pending or unknown is not accepted.                                  *)
CheckAccepted ==
  /\ call.step = "accepted"
  /\ LET c == call.asked
     IN  \/ c.op = "accepted" /\ Return(Ok(Mined(c.tx)))
         \/ Queued(c)
         \/ c.op = "verify" /\ Mined(c.tx) /\ Continue("details", Nothing)
         \/ c.op = "verify" /\ ~Mined(c.tx) /\ Return(Err("not accepted"))
  /\ UNCHANGED <<environment, faults>>

(* GetTransactionBlock: the height of the block, or pending, or, for a     *)
(* transaction it does not know, an error or an empty answer.  Only the    *)
(* height is kept.  Two of the calls take an empty answer for pending.     *)
GetTransactionBlock ==
  /\ call.step = "tx_block"
  /\ LET c == call.asked
     IN  \/ /\ Mined(c.tx)
            /\ \/ c.op = "height" /\ Return(Ok(HeightOf(c.tx)))
               \/ c.op # "height" /\ Continue("block", HeightOf(c.tx))
         \/ /\ c.tx \in mempool
            /\ Return(IF c.op = "page" THEN Err("pending") ELSE Ok(Nothing))
         \/ /\ ~Mined(c.tx) /\ c.tx \notin mempool
            /\ \/ Return(Err("unknown"))
               \/ Return(IF c.op = "page" THEN Err("empty") ELSE Ok(Nothing))
  /\ UNCHANGED <<environment, faults>>

(* The proof of work of a block, if it has one and says so. *)
BlockProof(block) ==
  IF block.pow = Nothing \/ ~block.pow.present THEN Nothing ELSE block.pow.raw

(* Index in the list of the block, from 0. *)
IndexOf(block, tx) == (CHOOSE i \in DOMAIN block.txs : block.txs[i] = tx) - 1

(* Mutant: a transaction missing from the block is given the first index. *)
PositionOrFirst(block, tx) ==
  Ok([height |-> call.seen,
      index |-> IF tx \in TxsOf(block) THEN IndexOf(block, tx) ELSE 0])

(* Tail of confirmed_tx_position. *)
PositionIn(block, tx) ==
  IF tx \in TxsOf(block)
  THEN Ok([height |-> call.seen, index |-> IndexOf(block, tx)])
  ELSE Err("not in block")

(* GetBlockDetails by height.  The page of a transaction is the block at   *)
(* the height known from the RPC before, whatever it holds now.            *)
GetBlockDetails ==
  /\ call.step = "block"
  /\ LET c == call.asked
         b == BlockAt(HeightAsked)
     IN  Return(
           IF ~HasBlock(HeightAsked)    THEN Err("no such block")
           ELSE CASE c.op = "position"    -> PositionIn(b, c.tx)
                  [] c.op = "page"        -> Ok([block |-> b,
                                                 proof |-> BlockProof(b)])
                  [] c.op = "block_proof" -> Ok(BlockProof(b))
                  [] c.op = "freshness"   ->
                       IF AnchorBound(c.anchor.digest, b.digest)
                       THEN Ok(c.anchor) ELSE Err("digest mismatch"))
  /\ UNCHANGED <<environment, faults>>

(* Mutant: whoever sent it. *)
PaymentVerdictAnySender(c) ==
  IF TreasurySum(c.tx) < c.fee THEN Err("underpaid") ELSE Ok(c.tx)

(* Tail of payment::verify: the payment comes from a note of the address   *)
(* and covers the fee.                                                     *)
PaymentVerdict(c) ==
  IF c.address \notin NoteNames(c.tx)  THEN Err("sender mismatch")
  ELSE IF TreasurySum(c.tx) < c.fee    THEN Err("underpaid")
  ELSE Ok(c.tx)

(* GetTransactionDetails, without retry: pending is an error here. *)
GetTransactionDetails ==
  /\ call.step = "details"
  /\ LET c == call.asked
     IN  Return(IF ~Mined(c.tx) THEN Err("pending or unknown")
                ELSE IF c.op = "verify" THEN PaymentVerdict(c) ELSE Ok(c.tx))
  /\ UNCHANGED <<environment, faults>>

(* The wallet's first question: GetBlocks for the tip, then the policy. *)
GetTip ==
  /\ call.step = "tip"
  /\ IF Fresh(call.asked.anchor.height, TipHeight)
     THEN Continue("block", TipHeight)
     ELSE Return(Err("too stale"))
  /\ UNCHANGED <<environment, faults>>

(* A connection, a deadline or a query fails. *)
CallFails ==
  /\ call # Idle
  /\ faults < MaxFaults
  /\ faults' = faults + 1
  /\ Return(Err("rpc"))
  /\ UNCHANGED environment

Next ==
  \/ NodeMoves
  \/ MempoolChanges
  \/ \E c \in Calls : Ask(c)
  \/ CheckAccepted
  \/ GetTransactionBlock
  \/ GetBlockDetails
  \/ GetTransactionDetails
  \/ GetTip
  \/ CallFails

Spec == Init /\ [][Next]_vars

-----------------------------------------------------------------------------
(* The step returns Ok to a call of this kind that asked the node. *)
Succeeds(op) ==
  /\ call # Idle
  /\ call.asked.op = op
  /\ call' = Idle
  /\ reply'.ok

(* A position is one the transaction has at the moment it is returned,     *)
(* although height and index come from two RPCs and a reorganisation may   *)
(* have moved the transaction to another height, another index or off the  *)
(* chain between them (confirmed_tx_position).                             *)
PositionIsCurrent ==
  [][ Succeeds("position") /\ reply'.value # Nothing =>
        /\ HasBlock(reply'.value.height)
        /\ BlockAt(reply'.value.height).txs[reply'.value.index + 1]
             = call.asked.tx ]_vars

(* A payment passes only for a transaction that is mined when its details  *)
(* are read, that spends a note of the address, and whose outputs to the   *)
(* treasury really add up to the fee: a transaction dropped after it was   *)
(* accepted and a sum beyond u64 included (payment::verify).               *)
VerifiedPaymentIsMined ==
  [][ Succeeds("verify") =>
        LET tx   == reply'.value
            paid == {i \in DOMAIN tx.outputs :
                       /\ OutputPaysTreasury(tx.outputs[i])
                       /\ tx.outputs[i].amount # Nothing}
        IN  /\ tx = call.asked.tx
            /\ Mined(tx)
            /\ \E i \in DOMAIN tx.inputs :
                 tx.inputs[i].noteName = call.asked.address
            /\ MapThenSumSet(LAMBDA i : tx.outputs[i].amount, paid)
                 >= call.asked.fee ]_vars

(* The registry of a server that has scanned exactly the blocks of c. *)
RegistryOf(c) ==
  FoldLeft(ClaimScanner, EnsureGenesisTld(EmptyAccumulator), c)

(* A proof that is fresh and bound to the wallet's chain leaves out no     *)
(* claim of that chain older than the staleness window, and names no other *)
(* owner for it: the server that made it had scanned the same blocks up to *)
(* there, not a stale or abandoned branch, wherever the node moved between *)
(* the two questions (Freshness::check, check_anchor_binding).             *)
FreshAnchorCoversWindow ==
  [][ Succeeds("freshness") =>
        \A server \in Chains \ {<<>>}, t \in GenesisHeight .. TipHeight :
          LET old == RegistryOf(SubSeq(chain, 1, t - GenesisHeight + 1))
              its == RegistryOf(server)
          IN  /\ server[Len(server)].digest = reply'.value.digest
              /\ t + MaxStaleness <= call.seen
              => \A n \in DOMAIN old : HasRow(its, n) /\ its[n] = old[n] ]_vars
=============================================================================
