------------------------------- MODULE HullApi -------------------------------
(***************************************************************************)
(* The read API of the hull (src/api.rs) beside the follower, the node and *)
(* the kernel of ChainFollower, up to the wallet that checks the answer    *)
(* with LightVerify.                                                       *)
(*                                                                         *)
(* A lookup takes the kernel mutex, peeks up to five paths one after the   *)
(* other and releases it; the follower shares the mutex.  A status request *)
(* copies the follower's telemetry under the hull mutex and then peeks the *)
(* kernel.  A request dies with the process, an answer stays with whoever  *)
(* asked.                                                                  *)
(***************************************************************************)
EXTENDS ChainFollower, LightVerify

CONSTANTS MaxRequests   \* bound: requests in a behaviour

(* What is absent or garbled is told from what is there. *)
ASSUME ApiAssumption ==
  /\ MaxRequests \in Nat
  /\ Absent \notin Nat /\ Absent \notin BOOLEAN /\ Absent \notin Entry
  /\ Absent \notin [height : Nat, digest : Digest]
  /\ \A x \in {Absent, Garbled} :
       /\ x \notin K!Computation
       /\ x \notin [proves : K!Computation, traced : K!Computation]
       /\ \A names \in SUBSET Name : x \notin [names -> Entry]

VARIABLES
  lookup,        \* the lookup being served
  answer,        \* the answer to the last lookup
  statusCopy,    \* telemetry copied by the status request being served
  statusAnswer,  \* the answer to the last status request
  requests       \* requests made so far

apiVars == <<lookup, answer, statusCopy, statusAnswer, requests>>

apiRest == <<statusCopy, statusAnswer, requests>>

NoLookup == [at |-> "none", name |-> Absent, export |-> FALSE,
             value |-> Absent, height |-> 0, digest |-> ZeroDigest,
             root |-> Absent, snapshot |-> Absent, proof |-> Absent]

NoAnswer == [code |-> 0, asked |-> NoLookup]

ApiInit ==
  /\ Init
  /\ lookup = NoLookup
  /\ answer = NoAnswer
  /\ statusCopy = Absent
  /\ statusAnswer = Absent
  /\ requests = 0

-----------------------------------------------------------------------------
(* What the hull decodes from the kernel's peeks. *)

AccumulatorPeek(name) ==
  IF HasRow(accumulator, name) THEN accumulator[name] ELSE Absent

ScanStatePeek ==
  [height |-> lastProvedHeight, digest |-> lastProvedDigest,
   root   |-> Root(accumulator)]

RecursiveProofPeek ==
  IF recursiveProof = NoProof THEN Absent
  ELSE [proves |-> recursiveProof, traced |-> recursiveProof]

-----------------------------------------------------------------------------
(* GET /accumulator/:name, accumulator_handler. *)

(* Mutant: the mutex is released between peeks. *)
KernelLockedPerPeek == FALSE

(* The handler holds the kernel mutex from its first peek to its last. *)
KernelLocked == lookup.at # "none"

NewRequest == requests < MaxRequests /\ requests' = requests + 1

Reply(code, asked) ==
  /\ answer' = [code |-> code, asked |-> asked]
  /\ lookup' = NoLookup

(* A name that breaks G1 never gets to the kernel. *)
RejectName(name) ==
  /\ NewRequest
  /\ ~IsValidName(name)
  /\ answer' = [code |-> 400, asked |-> [NoLookup EXCEPT !.name = name]]
  /\ UNCHANGED <<vars, lookup, statusCopy, statusAnswer>>

(* Lock, peek /accumulator/<name>: 404 when there is no row.  The cursor   *)
(* of that moment is kept for the properties; the reply does not carry it. *)
PeekEntry(name, export) ==
  /\ NewRequest
  /\ IsValidName(name)
  /\ lookup.at = "none"
  /\ LET asked == [NoLookup EXCEPT !.at = "scan", !.name = name,
                                   !.export = export,
                                   !.height = lastProvedHeight]
     IN  IF AccumulatorPeek(name) # Absent
         THEN /\ lookup' = [asked EXCEPT !.value = AccumulatorPeek(name)]
              /\ UNCHANGED answer
         ELSE Reply(404, asked)
  /\ UNCHANGED <<vars, statusCopy, statusAnswer>>

(* /accumulator-proof/<name>, whose axis nothing here reads, and           *)
(* /scan-state.                                                            *)
PeekScan ==
  /\ lookup.at = "scan"
  /\ lookup' = [lookup EXCEPT
                  !.height = ScanStatePeek.height,
                  !.digest = ScanStatePeek.digest,
                  !.root   = ScanStatePeek.root,
                  !.at     = IF lookup.export THEN "snapshot" ELSE "proof"]
  /\ UNCHANGED <<vars, answer, apiRest>>

(* /accumulator-jam, for ?wallet_export=true only. *)
PeekSnapshot ==
  /\ lookup.at = "snapshot"
  /\ lookup' = [lookup EXCEPT !.snapshot = accumulator, !.at = "proof"]
  /\ UNCHANGED <<vars, answer, apiRest>>

(* /recursive-proof, with the subject and formula it was traced from;      *)
(* then the mutex is released and the reply sent.                          *)
PeekProof ==
  /\ lookup.at = "proof"
  /\ Reply(200, [lookup EXCEPT !.proof = RecursiveProofPeek])
  /\ UNCHANGED <<vars, apiRest>>

(* A peek fails or does not decode: 500, the guard is dropped. *)
LookupFails ==
  /\ lookup.at # "none"
  /\ Reply(500, lookup)
  /\ UNCHANGED <<vars, apiRest>>

-----------------------------------------------------------------------------
(* GET /status. *)

CopyTelemetry ==
  /\ NewRequest
  /\ statusCopy = Absent
  /\ statusCopy' = telemetry
  /\ UNCHANGED <<vars, lookup, answer, statusAnswer>>

Lag(tip, scan) == IF tip > scan THEN tip - scan ELSE 0

(* is_caught_up *)
CaughtUp(lag) == lag <= FinalityDepth + 1

(* The scan state is peeked afterwards; a failing peek leaves it out. *)
AnswerStatus ==
  /\ statusCopy # Absent
  /\ ~KernelLocked
  /\ \E scan \in {ScanStatePeek.height, Absent} :
       LET lag == IF statusCopy.chainTip = None \/ scan = Absent
                  THEN Absent ELSE Lag(statusCopy.chainTip, scan)
       IN  statusAnswer' =
             [tip      |-> statusCopy.chainTip,
              advance  |-> statusCopy.advanceTip,
              scan     |-> scan,
              lag      |-> lag,
              caughtUp |-> IF lag = Absent THEN Absent ELSE CaughtUp(lag)]
  /\ statusCopy' = Absent
  /\ UNCHANGED <<vars, lookup, answer, requests>>

Serve ==
  \/ \E n \in Name : RejectName(n)
  \/ \E n \in Name, export \in BOOLEAN : PeekEntry(n, export)
  \/ PeekScan
  \/ PeekSnapshot
  \/ PeekProof
  \/ LookupFails
  \/ CopyTelemetry
  \/ AnswerStatus

-----------------------------------------------------------------------------
(* The steps of the follower that peek or poke. *)
FollowerUsesKernel ==
  \/ pc \in {"idle", "genesis", "poke", "transition"}
  \/ pc = "fetch" /\ DOMAIN got = want

Others ==
  \/ NodeMoves /\ UNCHANGED apiVars
  \/ Checkpoint /\ UNCHANGED apiVars
  \/ /\ FollowerUsesKernel => ~KernelLocked
     /\ Tick
     /\ UNCHANGED apiVars
  \/ /\ Crash
     /\ lookup' = NoLookup /\ statusCopy' = Absent
     /\ UNCHANGED <<answer, statusAnswer, requests>>

ApiNext == Serve \/ Others

ApiSpec == ApiInit /\ [][ApiNext]_<<vars, apiVars>>

-----------------------------------------------------------------------------
(* The valid claims on `name' in the node's present chain up to height h,  *)
(* as positions.                                                           *)
ClaimsOnChain(name, h) ==
  {p \in UNION {{i} \X ValidPositions(chain[i]) : i \in DOMAIN chain} :
     chain[p[1]].height <= h /\ chain[p[1]].claims[p[2]].name = name}

(* What a client was told stays true of the node's chain, whatever         *)
(* reorganisations and restarts came before or after: a 200 carries the    *)
(* row of the first valid claim up to the cursor it reports, a 404 says    *)
(* that up to the cursor of that moment there was none                     *)
(* (accumulator_handler over claim-scanner and the finality depth).        *)
AnswerIsChainTruth ==
  LET claims == ClaimsOnChain(answer.asked.name, answer.asked.height)
  IN  /\ answer.code = 404 => claims = {}
      /\ answer.code = 200 =>
           \E p \in claims :
             /\ answer.asked.value
                  = RowOf(chain[p[1]], chain[p[1]].claims[p[2]])
             /\ \A q \in claims : ~K!Before(q[1], q[2], p[1], p[2])

(* The honest wallet: it adds the headers from the reported cursor down to *)
(* a checkpoint on the node's chain.                                       *)
Checkpoints ==
  {[height |-> chain[i].height, digest |-> chain[i].digest] :
     i \in {i \in DOMAIN chain : chain[i].height <= answer.asked.height}}

HeadersDownTo(checkpoint) ==
  IF checkpoint.height = answer.asked.height THEN <<>>
  ELSE [i \in 1 .. answer.asked.height - checkpoint.height + 1 |->
          HeaderOf(BlockAt(answer.asked.height - i + 1))]

Bundle(checkpoint) ==
  [name |-> answer.asked.name, value |-> answer.asked.value,
   height |-> answer.asked.height, digest |-> answer.asked.digest,
   root |-> answer.asked.root, snapshot |-> answer.asked.snapshot,
   proof |-> answer.asked.proof, zInProof |-> FALSE,
   headers |-> HeadersDownTo(checkpoint)]

(* An exported answer passes the wallet's check against every checkpoint   *)
(* at or below its cursor, also after the node has moved on: its row,      *)
(* root, snapshot and cursor come from one kernel state although they were *)
(* peeked one by one, and its cursor is on the chain.  The strict wallet   *)
(* refuses it only for want of a proof, and no wallet accepts it without a *)
(* kernel of its own to verify with.                                       *)
ExportVerifies ==
  answer.code = 200 /\ answer.asked.export =>
    /\ Checkpoints # {}
    /\ \A c \in Checkpoints, relaxed, boots \in BOOLEAN :
         LightVerifyExit([checkpoint |-> c, allowEmptyRecursive |-> relaxed,
                          allowMissingSnapshot |-> FALSE,
                          kernelBoots |-> boots], Bundle(c))
           = IF answer.asked.proof = Absent /\ ~relaxed THEN 8
             ELSE IF boots THEN 0 ELSE 7

(* A status answer mixes telemetry and kernel state of two moments, with a *)
(* follower and a crash in between; still the advance it reports is not    *)
(* ahead of the scan height it reports, it never claims more lag than the  *)
(* node's chain has, and a follower with nothing left to scan below the    *)
(* finality depth is never reported as fallen behind (is_caught_up).       *)
StatusIsCoherent ==
  statusAnswer # Absent /\ statusAnswer.scan # Absent =>
    /\ statusAnswer.advance # None => statusAnswer.advance <= statusAnswer.scan
    /\ statusAnswer.lag # Absent =>
         statusAnswer.lag <= Lag(TipHeight, statusAnswer.scan)
    /\ statusAnswer.caughtUp = FALSE => statusAnswer.scan < FinalizedHeight

-----------------------------------------------------------------------------
(* The comment in the handler: the recursive proof is "global for current  *)
(* tip; present after first successful recursive-step prove"               *)
(* (src/api.rs:219).  A lookup between an accepted block and its           *)
(* transition proof, or after one that failed, ships an older block's.     *)
ProofIsForTip ==
  answer.code = 200 /\ answer.asked.proof # Absent =>
    answer.asked.proof.proves.digest = answer.asked.digest
=============================================================================
