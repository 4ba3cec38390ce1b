--------------------------- MODULE BscAssembler ---------------------------
(***************************************************************************)
(* The BSC -> Greenfield oracle-channel relay pipeline of greenfield-relayer *)
(* (src/assembler/bsc_assembler.go), run by every relayer process of a     *)
(* federated relayer set, together with the parts of the world it reads   *)
(* and writes:                                                             *)
(*   - the relayer's in-memory cursor (inturnRelayerSequenceStatus,        *)
(*     relayerNonce), its alert set and its validator cache                *)
(*     (GreenfieldExecutor.validators);                                     *)
(*   - the relayer's own database of packages (bsc_relay_package rows,     *)
(*     one row per oracle sequence in this model);                          *)
(*   - the BSC source chain (oracle sequences it has emitted and their      *)
(*     block times) and the Greenfield destination chain (its receive       *)
(*     sequence, the relayers' account nonces, its validator set and the    *)
(*     in-turn relayer rule).                                               *)
(* One pass of BSCAssembler.process is split into the steps between which  *)
(* another relayer, the chains or the clock can move: the role resolution, *)
(* the stand-by sleep, one iteration of the claim loop, and the            *)
(* calibration that waits for the next Greenfield block.                    *)
(***************************************************************************)
EXTENDS Naturals, Integers, Sequences, FiniteSets

CONSTANTS
    Relayers,               \* the relayer processes (model values)
    NoRelayer,              \* "no relayer", for sequences not yet delivered
    Turns,                  \* the chain's in-turn rotation: a sequence of Relayers
    MaxSeq,                 \* number of oracle sequences the BSC side emits
    MaxTime,                \* bound on the clock (seconds)
    RelayInterval,          \* length of one in-turn window on Greenfield
    SequenceUpdateLatency,  \* config GreenfieldSequenceUpdateLatency
    InturnRelayerTimeout,   \* config BSCToGreenfieldInturnRelayerTimeout, equal
                            \* to the chain's relayer timeout
    TxDelayAlertThreshHold, \* common.TxDelayAlertThreshHold
    MaxValSets,             \* number of Greenfield validator sets over a run
    MaxFaults,              \* bound on transient RPC / database failures
    MaxCrashes              \* bound on relayer process restarts

ASSUME ConstantsAssumption ==
    /\ NoRelayer \notin Relayers
    /\ Turns \in Seq(Relayers) /\ Len(Turns) > 0
    /\ MaxSeq \in Nat /\ MaxTime \in Nat
    /\ RelayInterval \in Nat \ {0}
    /\ SequenceUpdateLatency \in Nat
    /\ InturnRelayerTimeout \in Nat
    /\ TxDelayAlertThreshHold \in Nat
    /\ MaxValSets \in Nat \ {0}
    /\ MaxFaults \in Nat /\ MaxCrashes \in Nat

Seqs == 0 .. MaxSeq - 1                \* the oracle sequences
Statuses == {"None", "Saved", "AllVoted", "Delivered"}  \* "None": no row yet
PCs == {"Idle", "Sleep", "Loop", "Calibrate"}

VARIABLES
    \* --- per relayer process, in memory (BSCAssembler fields) ---
    pass,              \* locals of the running process() call
    hasRetrieved,      \* inturnRelayerSequenceStatus.HasRetrieved
    nextDeliverySeq,   \* inturnRelayerSequenceStatus.NextDeliverySeq
    relayerNonce,      \* relayerNonce
    alertSet,          \* alertSet (the has-delay gauge is alertSet # {})
    validators,        \* GreenfieldExecutor.validators; 0 = empty cache
    \* --- per relayer, persisted (its bsc_relay_package table) ---
    pkgStatus,         \* status of the package row of each oracle sequence
    claimedTxHash,     \* sequences whose row has a claimed_tx_hash
    \* --- BSC ---
    sendSeq,           \* next oracle sequence BSC will emit
    txTime,            \* block time of each emitted oracle sequence
    \* --- Greenfield ---
    receiveSeq,        \* next oracle sequence Greenfield accepts
    nonce,             \* account nonce of each relayer
    valSet,            \* version of the current validator set
    claimer,           \* relayer whose claim delivered each sequence
    now,               \* wall clock = block time (seconds)
    \* --- bounds on the environment's failures ---
    faults, crashes

relayerVars == <<pass, hasRetrieved, nextDeliverySeq, relayerNonce, alertSet, validators>>
dbVars == <<pkgStatus, claimedTxHash>>
chainVars == <<sendSeq, txTime, receiveSeq, nonce, valSet, claimer, now>>
vars == <<relayerVars, dbVars, chainVars, faults, crashes>>

\* The locals of process() between passes, asleep, in the claim loop
\* (role, loop variable i and endSequence), and waiting to calibrate.
IdlePass == [pc |-> "Idle", inturn |-> FALSE, i |-> 0, end |-> 0, wake |-> 0]
SleepPass(w) == [pc |-> "Sleep", inturn |-> FALSE, i |-> 0, end |-> 0, wake |-> w]
LoopPass(b, i, e) == [pc |-> "Loop", inturn |-> b, i |-> i, end |-> e, wake |-> 0]
CalibratePass == [pc |-> "Calibrate", inturn |-> TRUE, i |-> 0, end |-> 0, wake |-> 0]

Passes == [pc : PCs, inturn : BOOLEAN, i : 0 .. MaxSeq, end : 0 .. MaxSeq,
           wake : 0 .. MaxTime + SequenceUpdateLatency]

TypeOK ==
    /\ pass \in [Relayers -> Passes]
    /\ hasRetrieved \in [Relayers -> BOOLEAN]
    /\ nextDeliverySeq \in [Relayers -> Nat]
    /\ relayerNonce \in [Relayers -> Nat]
    /\ alertSet \in [Relayers -> SUBSET Seqs]
    /\ validators \in [Relayers -> 0 .. MaxValSets]
    /\ pkgStatus \in [Relayers -> [Seqs -> Statuses]]
    /\ claimedTxHash \in [Relayers -> SUBSET Seqs]
    /\ sendSeq \in 0 .. MaxSeq
    /\ txTime \in [Seqs -> 0 .. MaxTime]
    /\ receiveSeq \in 0 .. MaxSeq
    /\ nonce \in [Relayers -> Nat]
    /\ valSet \in 1 .. MaxValSets
    /\ claimer \in [Seqs -> Relayers \cup {NoRelayer}]
    /\ now \in 0 .. MaxTime
    /\ faults \in 0 .. MaxFaults
    /\ crashes \in 0 .. MaxCrashes

-----------------------------------------------------------------------------
(* Queries the assembler makes of the chains and of its database.          *)

\* Greenfield's in-turn relayer at time t and the start of its interval
\* (GetInturnRelayer; the rotation itself is the chain's rule).
IntervalStart(t) == (t \div RelayInterval) * RelayInterval
InturnAt(t) == Turns[((t \div RelayInterval) % Len(Turns)) + 1]

\* The package rows of oracle sequence i in r's database
\* (GetPackagesByOracleSequence); "None" when there is no row.
PkgsOf(r, i) == IF i \in Seqs THEN pkgStatus[r][i] ELSE "None"

\* GetLatestOracleSequenceByStatus(AllVoted): the sequences whose row is
\* AllVoted (the query returns -1 when there is none), and "end is the
\* greatest of them".
AllVotedSeqs(r) == {s \in Seqs : pkgStatus[r][s] = "AllVoted"}
IsLatestAllVoted(r, end) ==
    end \in AllVotedSeqs(r) /\ \A t \in AllVotedSeqs(r) : t <= end

\* QueryCachedLatestValidators: the cache, or a fresh query when it is empty.
UsedValidators(r) == IF validators[r] = 0 THEN valSet ELSE validators[r]

\* Greenfield accepts r's claim of sequence i with nonce n built over the
\* validator set v: the nonce is the account's, the sequence is the next
\* one, the bitset is over the current validators, and r is the in-turn
\* relayer or the in-turn relayer's timeout for the package has passed.
ClaimAccepted(r, i, n, v) ==
    /\ n = nonce[r]
    /\ i = receiveSeq
    /\ v = valSet
    /\ InturnAt(now) = r \/ now >= txTime[i] + InturnRelayerTimeout

\* The chain applies an accepted claim of sequence i by r.
ApplyClaim(r, i) ==
    /\ receiveSeq' = receiveSeq + 1
    /\ nonce' = [nonce EXCEPT ![r] = @ + 1]
    /\ claimer' = [claimer EXCEPT ![i] = r]

\* Mutant of ReconciledAlerts: the alert set is cleared once the start
\* sequence reaches its greatest member (>= instead of >).
ReconciledAlertsUpTo(r, start) ==
    IF alertSet[r] # {} /\ \A s \in alertSet[r] : s <= start
    THEN {} ELSE alertSet[r]

\* Delay-alert reconciliation of process(): the whole alert set is cleared
\* once the start sequence is past its greatest member.
ReconciledAlerts(r, start) ==
    IF alertSet[r] # {} /\ \A s \in alertSet[r] : s < start
    THEN {} ELSE alertSet[r]

\* An iteration of the claim loop flags sequence i when its package is older
\* than the alert threshold.
ObserveDelay(r, i) ==
    alertSet' = [alertSet EXCEPT ![r] =
                    IF now - txTime[i] > TxDelayAlertThreshHold THEN @ \cup {i} ELSE @]

\* The loop moves to i + 1, or the pass returns after end.
NextIteration(r) ==
    IF pass[r].i + 1 <= pass[r].end
    THEN LoopPass(pass[r].inturn, pass[r].i + 1, pass[r].end) ELSE IdlePass

-----------------------------------------------------------------------------
(* The assembler of relayer r.                                             *)

\* process(), in-turn branch, up to the claim loop. A cursor not yet
\* retrieved is taken from the chain once the grace period after the start
\* of the interval is over (before that the pass returns without a step).
\* The pass then ends when there is no AllVoted row or a read fails, and
\* otherwise enters the loop from the cursor to the latest AllVoted row.
ProcessInturn(r) ==
    /\ pass[r].pc = "Idle"
    /\ InturnAt(now) = r
    /\ hasRetrieved[r] \/ now - IntervalStart(now) >= SequenceUpdateLatency
    /\ LET retrieve == ~hasRetrieved[r]
           start == IF retrieve THEN receiveSeq ELSE nextDeliverySeq[r]
       IN  /\ hasRetrieved' = [hasRetrieved EXCEPT ![r] = TRUE]
           /\ nextDeliverySeq' = [nextDeliverySeq EXCEPT ![r] = start]
           /\ relayerNonce' = [relayerNonce EXCEPT ![r] =
                                  IF retrieve THEN nonce[r] ELSE @]
           /\ \/ /\ AllVotedSeqs(r) = {}
                 /\ UNCHANGED <<pass, alertSet, faults>>
              \/ /\ faults < MaxFaults
                 /\ faults' = faults + 1
                 /\ UNCHANGED <<pass, alertSet>>
              \/ \E end \in Seqs :
                 /\ IsLatestAllVoted(r, end)
                 /\ alertSet' = [alertSet EXCEPT ![r] = ReconciledAlerts(r, start)]
                 /\ pass' = [pass EXCEPT ![r] =
                               IF start <= end
                               THEN LoopPass(TRUE, start, end)
                               ELSE IdlePass]
                 /\ UNCHANGED faults
    /\ UNCHANGED <<validators, dbVars, chainVars, crashes>>

\* process(), stand-by branch: forget the cursor and sleep for the grace
\* period.
ProcessStandby(r) ==
    /\ pass[r].pc = "Idle"
    /\ InturnAt(now) # r
    /\ hasRetrieved' = [hasRetrieved EXCEPT ![r] = FALSE]
    /\ pass' = [pass EXCEPT ![r] = SleepPass(now + SequenceUpdateLatency)]
    /\ UNCHANGED <<nextDeliverySeq, relayerNonce, alertSet, validators,
                   dbVars, chainVars, faults, crashes>>

\* Mutant of StandbyWake: the stand-by window ends one past the next send
\* sequence.
StandbyWakeEndPastSend(r) ==
    /\ pass[r].pc = "Sleep"
    /\ now >= pass[r].wake
    /\ relayerNonce' = [relayerNonce EXCEPT ![r] = nonce[r]]
    /\ alertSet' = [alertSet EXCEPT ![r] = ReconciledAlerts(r, receiveSeq)]
    /\ pass' = [pass EXCEPT ![r] =
                  IF receiveSeq <= sendSeq + 1
                  THEN LoopPass(FALSE, receiveSeq, sendSeq + 1)
                  ELSE IdlePass]
    /\ UNCHANGED <<hasRetrieved, nextDeliverySeq, validators, dbVars,
                   chainVars, faults, crashes>>

\* process(), stand-by branch after the sleep: start from the chain's next
\* delivery sequence and nonce, end at BSC's next send sequence. A failed
\* read ends the pass, with the nonce read or not.
StandbyWake(r) ==
    /\ pass[r].pc = "Sleep"
    /\ now >= pass[r].wake
    /\ LET start == receiveSeq
           end == sendSeq
       IN  \/ /\ relayerNonce' = [relayerNonce EXCEPT ![r] = nonce[r]]
              /\ alertSet' = [alertSet EXCEPT ![r] = ReconciledAlerts(r, start)]
              /\ pass' = [pass EXCEPT ![r] =
                            IF start <= end
                            THEN LoopPass(FALSE, start, end)
                            ELSE IdlePass]
              /\ UNCHANGED faults
           \/ /\ faults < MaxFaults
              /\ faults' = faults + 1
              /\ relayerNonce' \in {[relayerNonce EXCEPT ![r] = nonce[r]], relayerNonce}
              /\ pass' = [pass EXCEPT ![r] = IdlePass]
              /\ UNCHANGED alertSet
    /\ UNCHANGED <<hasRetrieved, nextDeliverySeq, validators, dbVars,
                   chainVars, crashes>>

\* Claim loop, sequence i has no package row yet: the pass returns.
PkgsMissing(r) ==
    /\ pass[r].pc = "Loop"
    /\ PkgsOf(r, pass[r].i) = "None"
    /\ pass' = [pass EXCEPT ![r] = IdlePass]
    /\ UNCHANGED <<hasRetrieved, nextDeliverySeq, relayerNonce, alertSet,
                   validators, dbVars, chainVars, faults, crashes>>

\* Claim loop, the row of sequence i is neither AllVoted nor Delivered: the
\* pass fails, after flagging a delay.
NotEnoughVotes(r) ==
    LET i == pass[r].i IN
    /\ pass[r].pc = "Loop"
    /\ PkgsOf(r, i) = "Saved"
    /\ ObserveDelay(r, i)
    /\ pass' = [pass EXCEPT ![r] = IdlePass]
    /\ UNCHANGED <<hasRetrieved, nextDeliverySeq, relayerNonce, validators,
                   dbVars, chainVars, faults, crashes>>

\* Claim loop, stand-by: the in-turn relayer's timeout for the package has
\* not passed, so the pass returns.
StandbyDefers(r) ==
    LET i == pass[r].i IN
    /\ pass[r].pc = "Loop"
    /\ PkgsOf(r, i) \in {"AllVoted", "Delivered"}
    /\ ~pass[r].inturn
    /\ now < txTime[i] + InturnRelayerTimeout
    /\ ObserveDelay(r, i)
    /\ pass' = [pass EXCEPT ![r] = IdlePass]
    /\ UNCHANGED <<hasRetrieved, nextDeliverySeq, relayerNonce, validators,
                   dbVars, chainVars, faults, crashes>>

\* Mutant of Claimable: the vote-status check of the loop is missing.
ClaimableWithoutStatus(r) ==
    LET i == pass[r].i IN
    /\ pass[r].pc = "Loop"
    /\ PkgsOf(r, i) # "None"
    /\ pass[r].inturn \/ now >= txTime[i] + InturnRelayerTimeout

\* The loop goes on to processPkgs for sequence i.
Claimable(r) ==
    LET i == pass[r].i IN
    /\ pass[r].pc = "Loop"
    /\ PkgsOf(r, i) \in {"AllVoted", "Delivered"}
    /\ pass[r].inturn \/ now >= txTime[i] + InturnRelayerTimeout

\* processPkgs succeeds: the claim lands; in-turn marks the row Delivered
\* with its tx hash and advances the cursor, stand-by only records the hash;
\* the nonce is incremented and the loop goes on.
ClaimSucceeded(r) ==
    LET i == pass[r].i IN
    /\ Claimable(r)
    /\ ClaimAccepted(r, i, relayerNonce[r], UsedValidators(r))
    /\ ApplyClaim(r, i)
    /\ ObserveDelay(r, i)
    /\ claimedTxHash' = [claimedTxHash EXCEPT ![r] = @ \cup {i}]
    /\ IF pass[r].inturn
       THEN /\ pkgStatus' = [pkgStatus EXCEPT ![r][i] = "Delivered"]
            /\ nextDeliverySeq' = [nextDeliverySeq EXCEPT ![r] = i + 1]
       ELSE UNCHANGED <<pkgStatus, nextDeliverySeq>>
    /\ relayerNonce' = [relayerNonce EXCEPT ![r] = @ + 1]
    /\ pass' = [pass EXCEPT ![r] = NextIteration(r)]
    /\ UNCHANGED <<hasRetrieved, validators, sendSeq, txTime, valSet, now,
                   faults, crashes>>

\* Mutant of ClaimFailed: the nonce is incremented whatever processPkgs
\* returned (relayerNonce++ before the error check).
ClaimFailedBumpsNonce(r) ==
    LET i == pass[r].i IN
    /\ Claimable(r)
    /\ ~ClaimAccepted(r, i, relayerNonce[r], UsedValidators(r))
    /\ relayerNonce' = [relayerNonce EXCEPT ![r] = @ + 1]
    /\ ObserveDelay(r, i)
    /\ pass' = [pass EXCEPT ![r] = IF pass[r].inturn
                                   THEN CalibratePass
                                   ELSE IdlePass]
    /\ UNCHANGED <<hasRetrieved, nextDeliverySeq, validators, dbVars,
                   chainVars, faults, crashes>>

\* Mutant of ClaimFailed: the error of ClaimPackages is ignored and the
\* claimed tx hash is written for a rejected claim.
ClaimFailedRecordsHash(r) ==
    LET i == pass[r].i IN
    /\ Claimable(r)
    /\ ~ClaimAccepted(r, i, relayerNonce[r], UsedValidators(r))
    /\ claimedTxHash' = [claimedTxHash EXCEPT ![r] = @ \cup {i}]
    /\ ObserveDelay(r, i)
    /\ pass' = [pass EXCEPT ![r] = IdlePass]
    /\ UNCHANGED <<hasRetrieved, nextDeliverySeq, relayerNonce, validators,
                   pkgStatus, chainVars, faults, crashes>>

\* processPkgs fails: the chain rejects the claim, a read or the broadcast
\* fails before the chain sees it, or the chain applies it and the reply or
\* the database update is lost. In-turn goes on to calibrate, stand-by
\* returns the error.
ClaimFailed(r) ==
    LET i == pass[r].i IN
    /\ Claimable(r)
    /\ \/ /\ ~ClaimAccepted(r, i, relayerNonce[r], UsedValidators(r))
          /\ UNCHANGED <<receiveSeq, nonce, claimer, faults>>
       \/ /\ faults < MaxFaults
          /\ faults' = faults + 1
          /\ UNCHANGED <<receiveSeq, nonce, claimer>>
       \/ /\ faults < MaxFaults
          /\ faults' = faults + 1
          /\ ClaimAccepted(r, i, relayerNonce[r], UsedValidators(r))
          /\ ApplyClaim(r, i)
    /\ ObserveDelay(r, i)
    /\ pass' = [pass EXCEPT ![r] = IF pass[r].inturn
                                   THEN CalibratePass
                                   ELSE IdlePass]
    /\ UNCHANGED <<hasRetrieved, nextDeliverySeq, relayerNonce, validators,
                   dbVars, sendSeq, txTime, valSet, now, crashes>>

\* In-turn calibration after a failed claim, one block later: the nonce
\* from GetNonceOnNextBlock, then the next delivery sequence from the
\* chain. Either read may fail, the second after the first was stored.
Calibrate(r) ==
    /\ pass[r].pc = "Calibrate"
    /\ \/ /\ relayerNonce' = [relayerNonce EXCEPT ![r] = nonce[r]]
          /\ nextDeliverySeq' = [nextDeliverySeq EXCEPT ![r] = receiveSeq]
          /\ UNCHANGED faults
       \/ /\ faults < MaxFaults
          /\ faults' = faults + 1
          /\ UNCHANGED <<relayerNonce, nextDeliverySeq>>
       \/ /\ faults < MaxFaults
          /\ faults' = faults + 1
          /\ relayerNonce' = [relayerNonce EXCEPT ![r] = nonce[r]]
          /\ UNCHANGED nextDeliverySeq
    /\ pass' = [pass EXCEPT ![r] = IdlePass]
    /\ UNCHANGED <<hasRetrieved, alertSet, validators, dbVars, chainVars, crashes>>

\* Mutant of RefreshValidators: the cache is only filled while it is empty.
RefreshValidatorsOnce(r) ==
    /\ validators[r] = 0
    /\ validators' = [validators EXCEPT ![r] = valSet]
    /\ UNCHANGED <<pass, hasRetrieved, nextDeliverySeq, relayerNonce, alertSet,
                   dbVars, chainVars, faults, crashes>>

\* UpdateCachedLatestValidatorsLoop: one refresh of the validator cache (a
\* failed query is a step that changes nothing).
RefreshValidators(r) ==
    /\ validators' = [validators EXCEPT ![r] = valSet]
    /\ UNCHANGED <<pass, hasRetrieved, nextDeliverySeq, relayerNonce, alertSet,
                   dbVars, chainVars, faults, crashes>>

-----------------------------------------------------------------------------
(* The environment.                                                        *)

\* The clock advances.
Tick ==
    /\ now < MaxTime
    /\ now' = now + 1
    /\ UNCHANGED <<relayerVars, dbVars, sendSeq, txTime, receiveSeq, nonce,
                   valSet, claimer, faults, crashes>>

\* BSC emits the next oracle sequence.
Emit ==
    /\ sendSeq < MaxSeq
    /\ sendSeq' = sendSeq + 1
    /\ txTime' = [txTime EXCEPT ![sendSeq] = now]
    /\ UNCHANGED <<relayerVars, dbVars, receiveSeq, nonce, valSet, claimer,
                   now, faults, crashes>>

\* r's BSC listener saves the package of the next emitted sequence.
SavePackage(r) ==
    \E s \in Seqs :
        /\ s < sendSeq
        /\ pkgStatus[r][s] = "None"
        /\ \A t \in 0 .. s - 1 : pkgStatus[r][t] # "None"
        /\ pkgStatus' = [pkgStatus EXCEPT ![r][s] = "Saved"]
        /\ UNCHANGED <<relayerVars, claimedTxHash, chainVars, faults, crashes>>

\* r's vote processor has collected enough votes for sequence s.
CollectVotes(r) ==
    \E s \in Seqs :
        /\ pkgStatus[r][s] = "Saved"
        /\ pkgStatus' = [pkgStatus EXCEPT ![r][s] = "AllVoted"]
        /\ UNCHANGED <<relayerVars, claimedTxHash, chainVars, faults, crashes>>

\* Greenfield's validator set changes.
ChangeValidators ==
    /\ valSet < MaxValSets
    /\ valSet' = valSet + 1
    /\ UNCHANGED <<relayerVars, dbVars, sendSeq, txTime, receiveSeq, nonce,
                   claimer, now, faults, crashes>>

\* Relayer r's process restarts: its memory is lost, its database is kept.
Restart(r) ==
    /\ crashes < MaxCrashes
    /\ crashes' = crashes + 1
    /\ pass' = [pass EXCEPT ![r] = IdlePass]
    /\ hasRetrieved' = [hasRetrieved EXCEPT ![r] = FALSE]
    /\ nextDeliverySeq' = [nextDeliverySeq EXCEPT ![r] = 0]
    /\ relayerNonce' = [relayerNonce EXCEPT ![r] = 0]
    /\ alertSet' = [alertSet EXCEPT ![r] = {}]
    /\ validators' = [validators EXCEPT ![r] = 0]
    /\ UNCHANGED <<dbVars, chainVars, faults>>

-----------------------------------------------------------------------------
Init ==
    /\ pass = [r \in Relayers |-> IdlePass]
    /\ hasRetrieved = [r \in Relayers |-> FALSE]
    /\ nextDeliverySeq = [r \in Relayers |-> 0]
    /\ relayerNonce = [r \in Relayers |-> 0]
    /\ alertSet = [r \in Relayers |-> {}]
    /\ validators = [r \in Relayers |-> 0]
    /\ pkgStatus = [r \in Relayers |-> [s \in Seqs |-> "None"]]
    /\ claimedTxHash = [r \in Relayers |-> {}]
    /\ sendSeq = 0
    /\ txTime = [s \in Seqs |-> 0]
    /\ receiveSeq = 0
    /\ nonce = [r \in Relayers |-> 0]
    /\ valSet = 1
    /\ claimer = [s \in Seqs |-> NoRelayer]
    /\ now = 0
    /\ faults = 0
    /\ crashes = 0

\* One step of relayer r's assembler.
AssemblerStep(r) ==
    \/ ProcessInturn(r) \/ ProcessStandby(r) \/ StandbyWake(r)
    \/ PkgsMissing(r) \/ NotEnoughVotes(r) \/ StandbyDefers(r)
    \/ ClaimSucceeded(r) \/ ClaimFailed(r) \/ Calibrate(r)

Environment ==
    \/ Tick \/ Emit \/ ChangeValidators
    \/ \E r \in Relayers : SavePackage(r) \/ CollectVotes(r) \/ Restart(r)

Next ==
    \/ \E r \in Relayers : AssemblerStep(r) \/ RefreshValidators(r)
    \/ Environment

\* The assembler and the cache refresh are ticker loops of a live process;
\* the clock, BSC, the listener and the vote processor keep making progress.
\* Failures, restarts and validator changes are not fair.
Fairness ==
    /\ \A r \in Relayers :
          /\ WF_vars(AssemblerStep(r))
          /\ WF_vars(RefreshValidators(r))
          /\ WF_vars(SavePackage(r))
          /\ WF_vars(CollectVotes(r))
    /\ WF_vars(Tick)
    /\ WF_vars(Emit)

Spec == Init /\ [][Next]_vars
FairSpec == Spec /\ Fairness

-----------------------------------------------------------------------------
(* Properties.                                                             *)

\* The relayer's cursor never runs ahead of Greenfield: the next delivery
\* sequence it holds is at most the chain's receive sequence, and its nonce
\* at most its account nonce. The cursor is read once per in-turn period,
\* advanced locally after every successful claim and re-read by the
\* calibration; other relayers' claims and lost replies interleave with all
\* of it. A cursor ahead of the chain would make every later claim fail.
CursorNotAhead ==
    \A r \in Relayers :
        /\ nextDeliverySeq[r] <= receiveSeq
        /\ relayerNonce[r] <= nonce[r]

\* The database agrees with Greenfield: a row carries a claimed tx hash only
\* when r's own claim delivered that sequence, and a Delivered row always
\* carries one (processPkgs writes the database only after ClaimPackages
\* returned a tx hash, and only the in-turn branch writes Delivered).
DbAgreesWithChain ==
    \A r \in Relayers, s \in Seqs :
        /\ s \in claimedTxHash[r] => s < receiveSeq /\ claimer[s] = r
        /\ pkgStatus[r][s] = "Delivered" => s \in claimedTxHash[r]

\* No claim lands for a sequence whose package the claiming relayer had not
\* seen AllVoted (the status check of the claim loop).
ClaimedOnlyVoted ==
    \A s \in Seqs :
        s < receiveSeq => PkgsOf(claimer[s], s) \in {"AllVoted", "Delivered"}

\* While a relayer keeps its in-turn cursor, neither its next delivery
\* sequence nor its nonce ever decreases (spec invariant 1), across
\* successful claims, failures and calibrations.
CursorMonotone ==
    [][\A r \in Relayers :
          hasRetrieved[r] /\ hasRetrieved'[r] =>
              /\ nextDeliverySeq'[r] >= nextDeliverySeq[r]
              /\ relayerNonce'[r] >= relayerNonce[r]]_vars

\* The delay alert of a live process is cleared only when every sequence it
\* flagged has been delivered on Greenfield.
AlertClearedOnlyAfterDelivery ==
    [][\A r \in Relayers :
          alertSet[r] # {} /\ alertSet'[r] = {} /\ crashes' = crashes =>
              \A s \in alertSet[r] : s < receiveSeq]_vars

\* Every oracle sequence BSC emits is eventually delivered on Greenfield.
AllDelivered == <>(receiveSeq = MaxSeq)

=============================================================================
