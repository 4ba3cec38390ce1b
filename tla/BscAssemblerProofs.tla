------------------------ MODULE BscAssemblerProofs ------------------------
(***************************************************************************)
(* Proofs about the assembler model of BscAssembler, for every value of    *)
(* the constants that satisfies ConstantsAssumption.                       *)
(***************************************************************************)
EXTENDS BscAssemblerRefinement, TLAPS

USE ConstantsAssumption DEF relayerVars, dbVars, chainVars

-----------------------------------------------------------------------------
(* Type correctness.                                                       *)

\* The locals of a pass that returns, sleeps, loops or calibrates are
\* well typed.
LEMMA IdlePassType == IdlePass \in Passes
BY DEF IdlePass, Passes, PCs

LEMMA SleepPassType ==
    ASSUME NEW w \in 0 .. MaxTime + SequenceUpdateLatency
    PROVE  SleepPass(w) \in Passes
BY DEF SleepPass, Passes, PCs

LEMMA LoopPassType ==
    ASSUME NEW b \in BOOLEAN, NEW i \in 0 .. MaxSeq, NEW e \in 0 .. MaxSeq
    PROVE  LoopPass(b, i, e) \in Passes
BY DEF LoopPass, Passes, PCs

LEMMA CalibratePassType == CalibratePass \in Passes
BY DEF CalibratePass, Passes, PCs

\* The fields of a well-typed pass.
LEMMA PassFields ==
    ASSUME NEW p \in Passes
    PROVE  /\ p.pc \in PCs /\ p.inturn \in BOOLEAN
           /\ p.i \in 0 .. MaxSeq /\ p.end \in 0 .. MaxSeq
           /\ p.wake \in 0 .. MaxTime + SequenceUpdateLatency
BY DEF Passes

\* The sequence a claim-loop step works on has a package row, so it is one
\* of the oracle sequences.
LEMMA LoopSeqInSeqs ==
    ASSUME TypeOK, NEW r \in Relayers,
           PkgsOf(r, pass[r].i) # "None"
    PROVE  pass[r].i \in Seqs
BY DEF PkgsOf

\* A claim accepted by Greenfield is for its receive sequence, which is
\* then below MaxSeq.
LEMMA AcceptedSeqBelowMax ==
    ASSUME TypeOK, NEW r \in Relayers, NEW i \in Seqs, NEW n, NEW v,
           ClaimAccepted(r, i, n, v)
    PROVE  /\ i = receiveSeq
           /\ receiveSeq + 1 \in 0 .. MaxSeq
BY DEF ClaimAccepted, Seqs, TypeOK

\* The loop continues within 0 .. MaxSeq or returns.
LEMMA NextIterationType ==
    ASSUME TypeOK, NEW r \in Relayers
    PROVE  NextIteration(r) \in Passes
<1>1. pass[r] \in Passes
  BY DEF TypeOK
<1>2. CASE pass[r].i + 1 <= pass[r].end
  <2>1. LoopPass(pass[r].inturn, pass[r].i + 1, pass[r].end) \in Passes
    BY <1>1, <1>2 DEF Passes, LoopPass, PCs
  <2>2. QED
    BY <2>1, <1>2 DEF NextIteration
<1>3. CASE ~(pass[r].i + 1 <= pass[r].end)
  BY <1>3, IdlePassType DEF NextIteration
<1>4. QED
  BY <1>2, <1>3

\* The alert set after reconciliation is a subset of the old one.
LEMMA ReconciledAlertsType ==
    ASSUME TypeOK, NEW r \in Relayers, NEW start
    PROVE  ReconciledAlerts(r, start) \in SUBSET Seqs
BY DEF ReconciledAlerts, TypeOK

\* A delay observation flags an oracle sequence.
LEMMA ObserveDelayType ==
    ASSUME TypeOK, NEW r \in Relayers, NEW i \in Seqs, ObserveDelay(r, i)
    PROVE  alertSet' \in [Relayers -> SUBSET Seqs]
BY DEF ObserveDelay, TypeOK

\* A step either leaves the fault count alone or spends one more fault.
LEMMA FaultsStepType ==
    ASSUME TypeOK, faults' = faults \/ (faults < MaxFaults /\ faults' = faults + 1)
    PROVE  faults' \in 0 .. MaxFaults
BY DEF TypeOK

\* Replacing the locals of one relayer's pass by well-typed ones.
LEMMA PassUpdateType ==
    ASSUME TypeOK, NEW r \in Relayers, NEW p \in Passes
    PROVE  [pass EXCEPT ![r] = p] \in [Relayers -> Passes]
BY DEF TypeOK

\* Every step keeps every variable in its type.
THEOREM TypeCorrect == Spec => []TypeOK
<1>1. Init => TypeOK
  BY IdlePassType DEF Init, TypeOK, Seqs, Statuses
<1>2. TypeOK /\ [Next]_vars => TypeOK'
  <2> SUFFICES ASSUME TypeOK, [Next]_vars PROVE TypeOK'
    OBVIOUS
  <2>1. ASSUME NEW r \in Relayers, ProcessInturn(r) PROVE TypeOK'
    <3> DEFINE start == IF ~hasRetrieved[r] THEN receiveSeq ELSE nextDeliverySeq[r]
    <3>1. start \in Nat
      BY DEF TypeOK
    <3>2. ASSUME NEW end \in Seqs, start <= end
          PROVE  LoopPass(TRUE, start, end) \in Passes
      <4>1. start \in 0 .. MaxSeq /\ end \in 0 .. MaxSeq
        BY <3>1, <3>2 DEF Seqs
      <4>2. QED
        BY <4>1 DEF LoopPass, Passes, PCs
    <3>3. ASSUME NEW end \in Seqs
          PROVE  (IF start <= end THEN LoopPass(TRUE, start, end) ELSE IdlePass) \in Passes
      BY <3>2, IdlePassType
    <3>4. pass' \in [Relayers -> Passes]
      <4>1. CASE UNCHANGED pass
        BY <4>1 DEF TypeOK
      <4>2. CASE \E end \in Seqs :
                   pass' = [pass EXCEPT ![r] = IF start <= end
                                               THEN LoopPass(TRUE, start, end)
                                               ELSE IdlePass]
        BY <4>2, <3>3 DEF TypeOK
      <4>3. QED
        BY <2>1, <4>1, <4>2 DEF ProcessInturn
    <3>5. alertSet' \in [Relayers -> SUBSET Seqs]
      <4>1. ReconciledAlerts(r, start) \in SUBSET Seqs
        BY ReconciledAlertsType
      <4>2. QED
        BY <2>1, <4>1 DEF ProcessInturn, TypeOK
    <3>6. /\ nextDeliverySeq' \in [Relayers -> Nat]
          /\ relayerNonce' \in [Relayers -> Nat]
          /\ hasRetrieved' \in [Relayers -> BOOLEAN]
      <4>1. nextDeliverySeq' \in [Relayers -> Nat]
        BY <2>1, <3>1 DEF ProcessInturn, TypeOK
      <4>2. relayerNonce' \in [Relayers -> Nat]
        BY <2>1 DEF ProcessInturn, TypeOK
      <4>3. hasRetrieved' \in [Relayers -> BOOLEAN]
        BY <2>1 DEF ProcessInturn, TypeOK
      <4>4. QED
        BY <4>1, <4>2, <4>3
    <3>7. faults' \in 0 .. MaxFaults
      <4>1. faults' = faults \/ (faults < MaxFaults /\ faults' = faults + 1)
        BY <2>1 DEF ProcessInturn
      <4>2. QED
        BY <4>1, FaultsStepType
    <3>8. UNCHANGED <<validators, dbVars, chainVars, crashes>>
      BY <2>1 DEF ProcessInturn
    <3>9. QED
      BY Zenon, <3>4, <3>5, <3>6, <3>7, <3>8 DEF TypeOK
  <2>2. ASSUME NEW r \in Relayers, ProcessStandby(r) PROVE TypeOK'
    <3>1. SleepPass(now + SequenceUpdateLatency) \in Passes
      BY DEF TypeOK, SleepPass, Passes, PCs
    <3>2. pass' \in [Relayers -> Passes]
      BY <2>2, <3>1 DEF ProcessStandby, TypeOK
    <3>3. hasRetrieved' \in [Relayers -> BOOLEAN]
      BY <2>2 DEF ProcessStandby, TypeOK
    <3>4. UNCHANGED <<nextDeliverySeq, relayerNonce, alertSet, validators,
                      dbVars, chainVars, faults, crashes>>
      BY <2>2 DEF ProcessStandby
    <3>5. QED
      BY Zenon, <3>2, <3>3, <3>4 DEF TypeOK
  <2>3. ASSUME NEW r \in Relayers, StandbyWake(r) PROVE TypeOK'
    <3>1. (IF receiveSeq <= sendSeq THEN LoopPass(FALSE, receiveSeq, sendSeq)
                                    ELSE IdlePass) \in Passes
      BY IdlePassType DEF TypeOK, LoopPass, Passes, PCs
    <3>2. pass' \in [Relayers -> Passes]
      BY <2>3, <3>1, IdlePassType DEF StandbyWake, TypeOK
    <3>3. alertSet' \in [Relayers -> SUBSET Seqs]
      <4>1. ReconciledAlerts(r, receiveSeq) \in SUBSET Seqs
        BY ReconciledAlertsType
      <4>2. QED
        BY <2>3, <4>1 DEF StandbyWake, TypeOK
    <3>4. relayerNonce' \in [Relayers -> Nat]
      <4>1. relayerNonce' \in {[relayerNonce EXCEPT ![r] = nonce[r]], relayerNonce}
        BY <2>3, Zenon DEF StandbyWake
      <4>2. QED
        BY <4>1 DEF TypeOK
    <3>5. faults' \in 0 .. MaxFaults
      <4>1. faults' = faults \/ (faults < MaxFaults /\ faults' = faults + 1)
        BY <2>3 DEF StandbyWake
      <4>2. QED
        BY <4>1, FaultsStepType
    <3>6. UNCHANGED <<hasRetrieved, nextDeliverySeq, validators, dbVars, chainVars, crashes>>
      BY <2>3 DEF StandbyWake
    <3>7. QED
      BY Zenon, <3>2, <3>3, <3>4, <3>5, <3>6 DEF TypeOK
  <2>4. ASSUME NEW r \in Relayers, PkgsMissing(r) PROVE TypeOK'
    <3>1. pass' \in [Relayers -> Passes]
      BY <2>4, IdlePassType DEF PkgsMissing, TypeOK
    <3>2. UNCHANGED <<hasRetrieved, nextDeliverySeq, relayerNonce, alertSet,
                      validators, dbVars, chainVars, faults, crashes>>
      BY <2>4 DEF PkgsMissing
    <3>3. QED
      BY Zenon, <3>1, <3>2 DEF TypeOK
  <2>5. ASSUME NEW r \in Relayers, NotEnoughVotes(r) PROVE TypeOK'
    <3>1. pass[r].i \in Seqs
      BY <2>5, LoopSeqInSeqs DEF NotEnoughVotes
    <3>2. alertSet' \in [Relayers -> SUBSET Seqs]
      BY <2>5, <3>1, ObserveDelayType DEF NotEnoughVotes
    <3>3. pass' \in [Relayers -> Passes]
      BY <2>5, IdlePassType DEF NotEnoughVotes, TypeOK
    <3>4. UNCHANGED <<hasRetrieved, nextDeliverySeq, relayerNonce, validators,
                      dbVars, chainVars, faults, crashes>>
      BY <2>5 DEF NotEnoughVotes
    <3>5. QED
      BY Zenon, <3>2, <3>3, <3>4 DEF TypeOK
  <2>6. ASSUME NEW r \in Relayers, StandbyDefers(r) PROVE TypeOK'
    <3>1. pass[r].i \in Seqs
      BY <2>6, LoopSeqInSeqs DEF StandbyDefers
    <3>2. alertSet' \in [Relayers -> SUBSET Seqs]
      BY <2>6, <3>1, ObserveDelayType DEF StandbyDefers
    <3>3. pass' \in [Relayers -> Passes]
      BY <2>6, IdlePassType DEF StandbyDefers, TypeOK
    <3>4. UNCHANGED <<hasRetrieved, nextDeliverySeq, relayerNonce, validators,
                      dbVars, chainVars, faults, crashes>>
      BY <2>6 DEF StandbyDefers
    <3>5. QED
      BY Zenon, <3>2, <3>3, <3>4 DEF TypeOK
  <2>7. ASSUME NEW r \in Relayers, ClaimSucceeded(r) PROVE TypeOK'
    <3> DEFINE i == pass[r].i
    <3>1. i \in Seqs
      BY <2>7, LoopSeqInSeqs DEF ClaimSucceeded, Claimable
    <3>2. i = receiveSeq /\ receiveSeq + 1 \in 0 .. MaxSeq
      BY <2>7, <3>1, AcceptedSeqBelowMax DEF ClaimSucceeded
    <3>3. pass' \in [Relayers -> Passes]
      <4>1. NextIteration(r) \in Passes
        BY NextIterationType
      <4>2. QED
        BY <2>7, <4>1 DEF ClaimSucceeded, TypeOK
    <3>4. alertSet' \in [Relayers -> SUBSET Seqs]
      BY <2>7, <3>1, ObserveDelayType DEF ClaimSucceeded
    <3>5. receiveSeq' \in 0 .. MaxSeq
      BY <2>7, <3>2 DEF ClaimSucceeded, ApplyClaim
    <3>6. nonce' \in [Relayers -> Nat]
      <4>1. nonce' = [nonce EXCEPT ![r] = @ + 1]
        BY <2>7 DEF ClaimSucceeded, ApplyClaim
      <4>2. nonce \in [Relayers -> Nat] /\ nonce[r] + 1 \in Nat
        BY DEF TypeOK
      <4>3. QED
        BY <4>1, <4>2
    <3>7. claimer' \in [Seqs -> Relayers \cup {NoRelayer}]
      BY <2>7, <3>1 DEF ClaimSucceeded, ApplyClaim, TypeOK
    <3>8. /\ pkgStatus' \in [Relayers -> [Seqs -> Statuses]]
          /\ nextDeliverySeq' \in [Relayers -> Nat]
      <4>1. CASE pass[r].inturn
        <5>1. pkgStatus' = [pkgStatus EXCEPT ![r][i] = "Delivered"]
              /\ nextDeliverySeq' = [nextDeliverySeq EXCEPT ![r] = i + 1]
          BY <2>7, <4>1 DEF ClaimSucceeded
        <5>2. pkgStatus' \in [Relayers -> [Seqs -> Statuses]]
          BY <3>1, <5>1 DEF TypeOK, Statuses
        <5>3. nextDeliverySeq' \in [Relayers -> Nat]
          <6>1. i + 1 \in Nat
            BY <3>1 DEF Seqs
          <6>2. QED
            BY <5>1, <6>1 DEF TypeOK
        <5>4. QED
          BY <5>2, <5>3
      <4>2. CASE ~pass[r].inturn
        BY <2>7, <4>2 DEF ClaimSucceeded, TypeOK
      <4>3. QED
        BY <4>1, <4>2
    <3>9. claimedTxHash' \in [Relayers -> SUBSET Seqs]
      BY <2>7, <3>1 DEF ClaimSucceeded, TypeOK
    <3>10. relayerNonce' \in [Relayers -> Nat]
      <4>1. relayerNonce' = [relayerNonce EXCEPT ![r] = @ + 1]
        BY <2>7 DEF ClaimSucceeded
      <4>2. relayerNonce \in [Relayers -> Nat] /\ relayerNonce[r] + 1 \in Nat
        BY DEF TypeOK
      <4>3. QED
        BY <4>1, <4>2
    <3>11. UNCHANGED <<hasRetrieved, validators, sendSeq, txTime, valSet, now,
                       faults, crashes>>
      BY <2>7 DEF ClaimSucceeded
    <3>12. QED
      BY Zenon, <3>3, <3>4, <3>5, <3>6, <3>7, <3>8, <3>9, <3>10, <3>11 DEF TypeOK
  <2>8. ASSUME NEW r \in Relayers, ClaimFailed(r) PROVE TypeOK'
    <3> DEFINE i == pass[r].i
    <3>1. i \in Seqs
      BY <2>8, LoopSeqInSeqs DEF ClaimFailed, Claimable
    <3>2. pass' \in [Relayers -> Passes]
      <4>1. (IF pass[r].inturn THEN CalibratePass ELSE IdlePass) \in Passes
        BY IdlePassType, CalibratePassType
      <4>2. QED
        BY <2>8, <4>1 DEF ClaimFailed, TypeOK
    <3>3. alertSet' \in [Relayers -> SUBSET Seqs]
      BY <2>8, <3>1, ObserveDelayType DEF ClaimFailed
    <3>4. /\ receiveSeq' \in 0 .. MaxSeq
          /\ nonce' \in [Relayers -> Nat]
          /\ claimer' \in [Seqs -> Relayers \cup {NoRelayer}]
          /\ faults' \in 0 .. MaxFaults
      <4>1. CASE /\ ClaimAccepted(r, i, relayerNonce[r], UsedValidators(r))
                 /\ ApplyClaim(r, i)
                 /\ faults < MaxFaults /\ faults' = faults + 1
        <5>1. i = receiveSeq /\ receiveSeq + 1 \in 0 .. MaxSeq
          BY <3>1, <4>1, AcceptedSeqBelowMax
        <5>2. receiveSeq' \in 0 .. MaxSeq
          BY <4>1, <5>1 DEF ApplyClaim
        <5>3. nonce' \in [Relayers -> Nat]
          BY <4>1 DEF ApplyClaim, TypeOK
        <5>4. claimer' \in [Seqs -> Relayers \cup {NoRelayer}]
          BY <3>1, <4>1 DEF ApplyClaim, TypeOK
        <5>5. faults' \in 0 .. MaxFaults
          BY <4>1, FaultsStepType
        <5>6. QED
          BY <5>2, <5>3, <5>4, <5>5
      <4>2. CASE /\ UNCHANGED <<receiveSeq, nonce, claimer>>
                 /\ faults' = faults \/ (faults < MaxFaults /\ faults' = faults + 1)
        BY <4>2, FaultsStepType DEF TypeOK
      <4>3. QED
        BY <2>8, <4>1, <4>2 DEF ClaimFailed
    <3>5. UNCHANGED <<hasRetrieved, nextDeliverySeq, relayerNonce, validators,
                      dbVars, sendSeq, txTime, valSet, now, crashes>>
      BY <2>8 DEF ClaimFailed
    <3>6. QED
      BY Zenon, <3>2, <3>3, <3>4, <3>5 DEF TypeOK
  <2>9. ASSUME NEW r \in Relayers, Calibrate(r) PROVE TypeOK'
    <3>1. pass' \in [Relayers -> Passes]
      BY <2>9, IdlePassType DEF Calibrate, TypeOK
    <3>2. relayerNonce' \in [Relayers -> Nat]
      <4>1. relayerNonce' \in {[relayerNonce EXCEPT ![r] = nonce[r]], relayerNonce}
        BY <2>9, Zenon DEF Calibrate
      <4>2. QED
        BY <4>1 DEF TypeOK
    <3>3. nextDeliverySeq' \in [Relayers -> Nat]
      <4>1. nextDeliverySeq' \in {[nextDeliverySeq EXCEPT ![r] = receiveSeq], nextDeliverySeq}
        BY <2>9, Zenon DEF Calibrate
      <4>2. [nextDeliverySeq EXCEPT ![r] = receiveSeq] \in [Relayers -> Nat]
        BY DEF TypeOK
      <4>3. QED
        BY <4>1, <4>2 DEF TypeOK
    <3>4. faults' \in 0 .. MaxFaults
      <4>1. faults' = faults \/ (faults < MaxFaults /\ faults' = faults + 1)
        BY <2>9 DEF Calibrate
      <4>2. QED
        BY <4>1, FaultsStepType
    <3>5. UNCHANGED <<hasRetrieved, alertSet, validators, dbVars, chainVars, crashes>>
      BY <2>9 DEF Calibrate
    <3>6. QED
      BY Zenon, <3>1, <3>2, <3>3, <3>4, <3>5 DEF TypeOK
  <2>10. ASSUME NEW r \in Relayers, RefreshValidators(r) PROVE TypeOK'
    <3>1. validators' \in [Relayers -> 0 .. MaxValSets]
      BY <2>10 DEF RefreshValidators, TypeOK
    <3>2. UNCHANGED <<pass, hasRetrieved, nextDeliverySeq, relayerNonce, alertSet,
                      dbVars, chainVars, faults, crashes>>
      BY <2>10 DEF RefreshValidators
    <3>3. QED
      BY Zenon, <3>1, <3>2 DEF TypeOK
  <2>11. CASE Tick
    <3>1. now' \in 0 .. MaxTime
      BY <2>11 DEF Tick, TypeOK
    <3>2. UNCHANGED <<relayerVars, dbVars, sendSeq, txTime, receiveSeq, nonce,
                      valSet, claimer, faults, crashes>>
      BY <2>11 DEF Tick
    <3>3. QED
      BY Zenon, <3>1, <3>2 DEF TypeOK
  <2>12. CASE Emit
    <3>1. sendSeq' \in 0 .. MaxSeq
      BY <2>12 DEF Emit, TypeOK
    <3>2. txTime' \in [Seqs -> 0 .. MaxTime]
      BY <2>12 DEF Emit, TypeOK, Seqs
    <3>3. UNCHANGED <<relayerVars, dbVars, receiveSeq, nonce, valSet, claimer,
                      now, faults, crashes>>
      BY <2>12 DEF Emit
    <3>4. QED
      BY Zenon, <3>1, <3>2, <3>3 DEF TypeOK
  <2>13. CASE ChangeValidators
    <3>1. valSet' \in 1 .. MaxValSets
      BY <2>13 DEF ChangeValidators, TypeOK
    <3>2. UNCHANGED <<relayerVars, dbVars, sendSeq, txTime, receiveSeq, nonce,
                      claimer, now, faults, crashes>>
      BY <2>13 DEF ChangeValidators
    <3>3. QED
      BY Zenon, <3>1, <3>2 DEF TypeOK
  <2>14. ASSUME NEW r \in Relayers, SavePackage(r) PROVE TypeOK'
    <3>1. PICK s \in Seqs :
            /\ pkgStatus' = [pkgStatus EXCEPT ![r][s] = "Saved"]
            /\ UNCHANGED <<relayerVars, claimedTxHash, chainVars, faults, crashes>>
      BY <2>14 DEF SavePackage
    <3>2. pkgStatus' \in [Relayers -> [Seqs -> Statuses]]
      BY <3>1 DEF TypeOK, Statuses
    <3>3. QED
      BY Zenon, <3>1, <3>2 DEF TypeOK
  <2>15. ASSUME NEW r \in Relayers, CollectVotes(r) PROVE TypeOK'
    <3>1. PICK s \in Seqs :
            /\ pkgStatus' = [pkgStatus EXCEPT ![r][s] = "AllVoted"]
            /\ UNCHANGED <<relayerVars, claimedTxHash, chainVars, faults, crashes>>
      BY <2>15 DEF CollectVotes
    <3>2. pkgStatus' \in [Relayers -> [Seqs -> Statuses]]
      BY <3>1 DEF TypeOK, Statuses
    <3>3. QED
      BY Zenon, <3>1, <3>2 DEF TypeOK
  <2>16. ASSUME NEW r \in Relayers, Restart(r) PROVE TypeOK'
    <3>1. pass' \in [Relayers -> Passes]
      BY <2>16, IdlePassType DEF Restart, TypeOK
    <3>2. /\ hasRetrieved' \in [Relayers -> BOOLEAN]
          /\ nextDeliverySeq' \in [Relayers -> Nat]
          /\ relayerNonce' \in [Relayers -> Nat]
      BY <2>16 DEF Restart, TypeOK
    <3>3. /\ alertSet' \in [Relayers -> SUBSET Seqs]
          /\ validators' \in [Relayers -> 0 .. MaxValSets]
      BY <2>16 DEF Restart, TypeOK
    <3>4. crashes' \in 0 .. MaxCrashes
      BY <2>16 DEF Restart, TypeOK
    <3>5. UNCHANGED <<dbVars, chainVars, faults>>
      BY <2>16 DEF Restart
    <3>6. QED
      BY Zenon, <3>1, <3>2, <3>3, <3>4, <3>5 DEF TypeOK
  <2>17. CASE UNCHANGED vars
    BY Zenon, <2>17 DEF vars, TypeOK
  <2>18. QED
    BY <2>1, <2>2, <2>3, <2>4, <2>5, <2>6, <2>7, <2>8, <2>9, <2>10, <2>11,
       <2>12, <2>13, <2>14, <2>15, <2>16, <2>17
    DEF Next, AssemblerStep, Environment
<1>3. QED
  BY <1>1, <1>2, PTL DEF Spec

-----------------------------------------------------------------------------
(* The cursor never runs ahead of the chain.                               *)

\* Greenfield's receive sequence and account nonces never decrease: only an
\* applied claim changes them, by one.
LEMMA ChainMonotone ==
    ASSUME TypeOK, [Next]_vars
    PROVE  /\ receiveSeq <= receiveSeq'
           /\ \A q \in Relayers : nonce[q] <= nonce'[q]
<1>1. ASSUME NEW r \in Relayers, ApplyClaim(r, pass[r].i)
      PROVE  /\ receiveSeq <= receiveSeq'
             /\ \A q \in Relayers : nonce[q] <= nonce'[q]
  <2>1. receiveSeq <= receiveSeq'
    BY <1>1 DEF ApplyClaim, TypeOK
  <2>2. ASSUME NEW q \in Relayers PROVE nonce[q] <= nonce'[q]
    <3>1. nonce'[q] = IF q = r THEN nonce[q] + 1 ELSE nonce[q]
      BY <1>1 DEF ApplyClaim, TypeOK
    <3>2. nonce[q] \in Nat
      BY DEF TypeOK
    <3>3. QED
      BY <3>1, <3>2
  <2>3. QED
    BY <2>1, <2>2
<1>2. ASSUME NEW r \in Relayers, ClaimSucceeded(r)
      PROVE  ApplyClaim(r, pass[r].i)
  BY <1>2 DEF ClaimSucceeded
<1>3. ASSUME NEW r \in Relayers, ClaimFailed(r)
      PROVE  ApplyClaim(r, pass[r].i) \/ UNCHANGED <<receiveSeq, nonce>>
  BY <1>3 DEF ClaimFailed
<1>4. ASSUME NEW r \in Relayers,
             \/ ProcessInturn(r) \/ ProcessStandby(r) \/ StandbyWake(r)
             \/ PkgsMissing(r) \/ NotEnoughVotes(r) \/ StandbyDefers(r)
             \/ Calibrate(r) \/ RefreshValidators(r) \/ SavePackage(r)
             \/ CollectVotes(r) \/ Restart(r)
      PROVE  UNCHANGED <<receiveSeq, nonce>>
  BY <1>4 DEF ProcessInturn, ProcessStandby, StandbyWake, PkgsMissing,
              NotEnoughVotes, StandbyDefers, Calibrate, RefreshValidators,
              SavePackage, CollectVotes, Restart
<1>5. Tick \/ Emit \/ ChangeValidators \/ UNCHANGED vars
      => UNCHANGED <<receiveSeq, nonce>>
  BY DEF Tick, Emit, ChangeValidators, vars
<1>6. UNCHANGED <<receiveSeq, nonce>>
      => /\ receiveSeq <= receiveSeq'
         /\ \A q \in Relayers : nonce[q] <= nonce'[q]
  BY DEF TypeOK
<1>7. QED
  BY <1>1, <1>2, <1>3, <1>4, <1>5, <1>6 DEF Next, AssemblerStep, Environment

\* Every value a step writes into a relayer's cursor is the chain's (after
\* the step) or the value it already had, except after a restart, which
\* zeroes the cursor and marks it not retrieved.
Sourced(q) ==
    \/ /\ nextDeliverySeq'[q] \in {nextDeliverySeq[q], receiveSeq'}
       /\ relayerNonce'[q] \in {relayerNonce[q], nonce'[q]}
    \/ /\ ~hasRetrieved'[q]
       /\ nextDeliverySeq'[q] = 0 /\ relayerNonce'[q] = 0

LEMMA CursorSources ==
    ASSUME TypeOK, [Next]_vars, NEW q \in Relayers
    PROVE  Sourced(q)
<1>1. ASSUME NEW r \in Relayers, ProcessInturn(r) PROVE Sourced(q)
  BY <1>1 DEF ProcessInturn, TypeOK, Sourced
<1>2. ASSUME NEW r \in Relayers, StandbyWake(r) PROVE Sourced(q)
  <2>1. relayerNonce' \in {[relayerNonce EXCEPT ![r] = nonce[r]], relayerNonce}
    BY <1>2, Zenon DEF StandbyWake
  <2>2. UNCHANGED <<nextDeliverySeq, nonce>>
    BY <1>2 DEF StandbyWake
  <2>3. QED
    BY <2>1, <2>2 DEF TypeOK, Sourced
<1>3. ASSUME NEW r \in Relayers, ClaimSucceeded(r) PROVE Sourced(q)
  <2> DEFINE i == pass[r].i
  <2>1. i \in Seqs
    BY <1>3, LoopSeqInSeqs DEF ClaimSucceeded, Claimable
  <2>2. /\ i = receiveSeq /\ relayerNonce[r] = nonce[r]
        /\ receiveSeq' = receiveSeq + 1
        /\ nonce' = [nonce EXCEPT ![r] = @ + 1]
        /\ relayerNonce' = [relayerNonce EXCEPT ![r] = @ + 1]
    BY <1>3, <2>1 DEF ClaimSucceeded, ClaimAccepted, ApplyClaim
  <2>3. nextDeliverySeq' \in {[nextDeliverySeq EXCEPT ![r] = i + 1], nextDeliverySeq}
    BY <1>3, Zenon DEF ClaimSucceeded
  <2>4. QED
    BY <2>2, <2>3 DEF TypeOK, Sourced
<1>4. ASSUME NEW r \in Relayers, Calibrate(r) PROVE Sourced(q)
  <2>1. relayerNonce' \in {[relayerNonce EXCEPT ![r] = nonce[r]], relayerNonce}
    BY <1>4, Zenon DEF Calibrate
  <2>2. nextDeliverySeq' \in {[nextDeliverySeq EXCEPT ![r] = receiveSeq], nextDeliverySeq}
    BY <1>4, Zenon DEF Calibrate
  <2>3. UNCHANGED <<receiveSeq, nonce>>
    BY <1>4 DEF Calibrate
  <2>4. QED
    BY <2>1, <2>2, <2>3 DEF TypeOK, Sourced
<1>5. ASSUME NEW r \in Relayers, Restart(r) PROVE Sourced(q)
  <2>1. CASE q = r
    BY <1>5, <2>1 DEF Restart, TypeOK, Sourced
  <2>2. CASE q # r
    BY <1>5, <2>2 DEF Restart, TypeOK, Sourced
  <2>3. QED
    BY <2>1, <2>2
<1>6. ASSUME NEW r \in Relayers,
             \/ ProcessStandby(r) \/ PkgsMissing(r) \/ NotEnoughVotes(r)
             \/ StandbyDefers(r) \/ ClaimFailed(r) \/ RefreshValidators(r)
             \/ SavePackage(r) \/ CollectVotes(r)
      PROVE  UNCHANGED <<nextDeliverySeq, relayerNonce>>
  BY <1>6 DEF ProcessStandby, PkgsMissing, NotEnoughVotes, StandbyDefers,
              ClaimFailed, RefreshValidators, SavePackage, CollectVotes
<1>7. Tick \/ Emit \/ ChangeValidators \/ UNCHANGED vars
      => UNCHANGED <<nextDeliverySeq, relayerNonce>>
  BY DEF Tick, Emit, ChangeValidators, vars
<1>8. UNCHANGED <<nextDeliverySeq, relayerNonce>> => Sourced(q)
  BY DEF Sourced
<1>9. QED
  BY <1>1, <1>2, <1>3, <1>4, <1>5, <1>6, <1>7, <1>8
  DEF Next, AssemblerStep, Environment

\* The relayer's next delivery sequence and nonce never run ahead of
\* Greenfield's receive sequence and account nonce (CursorNotAhead), across
\* every interleaving of claims, failures, calibrations and restarts.
THEOREM CursorNeverAhead == Spec => []CursorNotAhead
<1>1. Init => CursorNotAhead
  BY DEF Init, CursorNotAhead
<1>2. TypeOK /\ TypeOK' /\ CursorNotAhead /\ [Next]_vars => CursorNotAhead'
  <2> SUFFICES ASSUME TypeOK, TypeOK', CursorNotAhead, [Next]_vars, NEW q \in Relayers
               PROVE  nextDeliverySeq'[q] <= receiveSeq' /\ relayerNonce'[q] <= nonce'[q]
    BY DEF CursorNotAhead
  <2>1. /\ receiveSeq <= receiveSeq'
        /\ nonce[q] <= nonce'[q]
    BY ChainMonotone
  <2>2. Sourced(q)
    BY CursorSources
  <2>3. /\ receiveSeq' \in Nat /\ nonce'[q] \in Nat
        /\ receiveSeq \in Nat /\ nonce[q] \in Nat
        /\ nextDeliverySeq[q] <= receiveSeq /\ relayerNonce[q] <= nonce[q]
        /\ nextDeliverySeq[q] \in Nat /\ relayerNonce[q] \in Nat
    BY DEF TypeOK, CursorNotAhead
  <2>4. nextDeliverySeq'[q] <= receiveSeq'
    <3>1. CASE nextDeliverySeq'[q] = nextDeliverySeq[q]
      BY <2>1, <2>3, <3>1
    <3>2. CASE nextDeliverySeq'[q] = receiveSeq' \/ nextDeliverySeq'[q] = 0
      BY <2>3, <3>2
    <3>3. QED
      BY <2>2, <3>1, <3>2 DEF Sourced
  <2>5. relayerNonce'[q] <= nonce'[q]
    <3>1. CASE relayerNonce'[q] = relayerNonce[q]
      BY <2>1, <2>3, <3>1
    <3>2. CASE relayerNonce'[q] = nonce'[q] \/ relayerNonce'[q] = 0
      BY <2>3, <3>2
    <3>3. QED
      BY <2>2, <3>1, <3>2 DEF Sourced
  <2>6. QED
    BY <2>4, <2>5
<1>3. QED
  BY <1>1, <1>2, TypeCorrect, PTL DEF Spec

\* While a relayer keeps its retrieved cursor, no step decreases its next
\* delivery sequence or its nonce (CursorMonotone, spec invariant 1): every
\* write copies the chain, which is never behind the cursor, or increments.
THEOREM CursorNeverDecreases == Spec => CursorMonotone
<1>1. ASSUME TypeOK, TypeOK', CursorNotAhead, [Next]_vars, NEW q \in Relayers,
             hasRetrieved'[q]
      PROVE  /\ nextDeliverySeq'[q] >= nextDeliverySeq[q]
             /\ relayerNonce'[q] >= relayerNonce[q]
  <2>1. /\ receiveSeq <= receiveSeq'
        /\ nonce[q] <= nonce'[q]
    BY <1>1, ChainMonotone
  <2>2. /\ nextDeliverySeq'[q] \in {nextDeliverySeq[q], receiveSeq'}
        /\ relayerNonce'[q] \in {relayerNonce[q], nonce'[q]}
    BY <1>1, CursorSources DEF Sourced
  <2>3. /\ receiveSeq' \in Nat /\ nonce'[q] \in Nat
        /\ receiveSeq \in Nat /\ nonce[q] \in Nat
        /\ nextDeliverySeq[q] <= receiveSeq /\ relayerNonce[q] <= nonce[q]
        /\ nextDeliverySeq[q] \in Nat /\ relayerNonce[q] \in Nat
    BY <1>1 DEF TypeOK, CursorNotAhead
  <2>4. QED
    BY <2>1, <2>2, <2>3
<1>2. TypeOK /\ TypeOK' /\ CursorNotAhead /\ [Next]_vars =>
        [\A r \in Relayers :
            hasRetrieved[r] /\ hasRetrieved'[r] =>
                /\ nextDeliverySeq'[r] >= nextDeliverySeq[r]
                /\ relayerNonce'[r] >= relayerNonce[r]]_vars
  BY <1>1
<1>3. QED
  BY <1>2, TypeCorrect, CursorNeverAhead, PTL DEF Spec, CursorMonotone

-----------------------------------------------------------------------------
(* The database agrees with Greenfield.                                    *)

\* A claim the chain applies is for its receive sequence, so it never
\* rewrites the claimer of a sequence already delivered.
LEMMA ApplyClaimKeepsPast ==
    ASSUME TypeOK, NEW r \in Relayers, NEW i \in Seqs, i = receiveSeq,
           ApplyClaim(r, i)
    PROVE  /\ receiveSeq' = receiveSeq + 1
           /\ claimer'[i] = r
           /\ \A s \in Seqs : s < receiveSeq => claimer'[s] = claimer[s]
BY DEF ApplyClaim, TypeOK, Seqs

\* DbAgreesWithChain reads only the rows, the hashes, the receive sequence
\* and the claimers: a step that keeps them keeps it.
LEMMA DbAgreesFrame ==
    ASSUME DbAgreesWithChain,
           claimedTxHash' = claimedTxHash, pkgStatus' = pkgStatus,
           receiveSeq' = receiveSeq, claimer' = claimer
    PROVE  DbAgreesWithChain'
BY DEF DbAgreesWithChain

\* A row carries a claimed tx hash only when r's own claim delivered that
\* sequence, and a Delivered row always carries one (DbAgreesWithChain),
\* whatever the order of claims, lost replies and restarts.
THEOREM DbAgrees == Spec => []DbAgreesWithChain
<1>1. Init => DbAgreesWithChain
  BY DEF Init, DbAgreesWithChain
<1>2. TypeOK /\ DbAgreesWithChain /\ [Next]_vars => DbAgreesWithChain'
  <2> SUFFICES ASSUME TypeOK, DbAgreesWithChain, [Next]_vars
               PROVE  DbAgreesWithChain'
    OBVIOUS
  <2>1. ASSUME NEW r \in Relayers, ClaimSucceeded(r) PROVE DbAgreesWithChain'
    <3> DEFINE i == pass[r].i
    <3>1. i \in Seqs
      BY <2>1, LoopSeqInSeqs DEF ClaimSucceeded, Claimable
    <3>2. i = receiveSeq
      BY <2>1, <3>1 DEF ClaimSucceeded, ClaimAccepted
    <3>3. /\ receiveSeq' = receiveSeq + 1
          /\ claimer'[i] = r
          /\ \A s \in Seqs : s < receiveSeq => claimer'[s] = claimer[s]
      BY <2>1, <3>1, <3>2, ApplyClaimKeepsPast DEF ClaimSucceeded
    <3>4. claimedTxHash' = [claimedTxHash EXCEPT ![r] = @ \cup {i}]
      BY <2>1 DEF ClaimSucceeded
    <3>5. pkgStatus' \in {[pkgStatus EXCEPT ![r][i] = "Delivered"], pkgStatus}
      BY <2>1, Zenon DEF ClaimSucceeded
    <3>6. SUFFICES ASSUME NEW q \in Relayers, NEW t \in Seqs
                   PROVE  /\ t \in claimedTxHash'[q] => t < receiveSeq' /\ claimer'[t] = q
                          /\ pkgStatus'[q][t] = "Delivered" => t \in claimedTxHash'[q]
      BY DEF DbAgreesWithChain
    <3>7. /\ t \in claimedTxHash[q] => t < receiveSeq /\ claimer[t] = q
          /\ pkgStatus[q][t] = "Delivered" => t \in claimedTxHash[q]
      BY DEF DbAgreesWithChain
    <3>8. t \in claimedTxHash'[q] => t < receiveSeq' /\ claimer'[t] = q
      <4>1. CASE q = r /\ t = i
        BY <3>2, <3>3, <4>1 DEF TypeOK
      <4>2. CASE ~(q = r /\ t = i)
        <5>1. t \in claimedTxHash'[q] => t \in claimedTxHash[q]
          <6>1. claimedTxHash'[q] = IF q = r THEN claimedTxHash[q] \cup {i}
                                            ELSE claimedTxHash[q]
            BY <3>4 DEF TypeOK
          <6>2. QED
            BY <4>2, <6>1
        <5>2. t < receiveSeq => t < receiveSeq' /\ claimer'[t] = claimer[t]
          <6>1. t \in Nat /\ receiveSeq \in Nat
            BY DEF TypeOK, Seqs
          <6>2. QED
            BY <3>3, <6>1
        <5>3. QED
          BY <3>7, <5>1, <5>2
      <4>3. QED
        BY <4>1, <4>2
    <3>9. pkgStatus'[q][t] = "Delivered" => t \in claimedTxHash'[q]
      <4>1. t \in claimedTxHash[q] => t \in claimedTxHash'[q]
        BY <3>4 DEF TypeOK
      <4>2. CASE pkgStatus' = pkgStatus
        BY <3>7, <4>1, <4>2
      <4>3. CASE pkgStatus' = [pkgStatus EXCEPT ![r][i] = "Delivered"]
        <5>1. CASE q = r /\ t = i
          BY <3>4, <5>1 DEF TypeOK
        <5>2. CASE ~(q = r /\ t = i)
          <6>1. pkgStatus'[q][t] = pkgStatus[q][t]
            BY <3>1, <4>3, <5>2 DEF TypeOK
          <6>2. QED
            BY <3>7, <4>1, <6>1
        <5>3. QED
          BY <5>1, <5>2
      <4>4. QED
        BY <3>5, <4>2, <4>3
    <3>10. QED
      BY <3>8, <3>9
  <2>2. ASSUME NEW r \in Relayers, ClaimFailed(r) PROVE DbAgreesWithChain'
    <3> DEFINE i == pass[r].i
    <3>1. i \in Seqs
      BY <2>2, LoopSeqInSeqs DEF ClaimFailed, Claimable
    <3>2. UNCHANGED dbVars
      BY <2>2 DEF ClaimFailed
    <3>3. CASE ClaimAccepted(r, i, relayerNonce[r], UsedValidators(r)) /\ ApplyClaim(r, i)
      <4>1. i = receiveSeq
        BY <3>3 DEF ClaimAccepted
      <4>2. /\ receiveSeq' = receiveSeq + 1
            /\ \A s \in Seqs : s < receiveSeq => claimer'[s] = claimer[s]
        BY <3>1, <3>3, <4>1, ApplyClaimKeepsPast
      <4>3. SUFFICES ASSUME NEW q \in Relayers, NEW t \in Seqs
                     PROVE  /\ t \in claimedTxHash'[q] => t < receiveSeq' /\ claimer'[t] = q
                            /\ pkgStatus'[q][t] = "Delivered" => t \in claimedTxHash'[q]
        BY DEF DbAgreesWithChain
      <4>4. /\ t \in claimedTxHash[q] => t < receiveSeq /\ claimer[t] = q
            /\ pkgStatus[q][t] = "Delivered" => t \in claimedTxHash[q]
        BY DEF DbAgreesWithChain
      <4>5. claimedTxHash' = claimedTxHash /\ pkgStatus' = pkgStatus
        BY <3>2
      <4>6. t < receiveSeq => t < receiveSeq' /\ claimer'[t] = claimer[t]
        BY <4>2 DEF TypeOK, Seqs
      <4>7. QED
        BY <4>4, <4>5, <4>6
    <3>4. CASE UNCHANGED <<receiveSeq, claimer>>
      BY <3>2, <3>4 DEF DbAgreesWithChain
    <3>5. QED
      BY <2>2, <3>3, <3>4 DEF ClaimFailed
  <2>3. ASSUME NEW r \in Relayers, SavePackage(r) \/ CollectVotes(r)
        PROVE  DbAgreesWithChain'
    <3>1. PICK s \in Seqs, v \in {"Saved", "AllVoted"} :
            /\ pkgStatus' = [pkgStatus EXCEPT ![r][s] = v]
            /\ UNCHANGED <<claimedTxHash, chainVars>>
      BY <2>3 DEF SavePackage, CollectVotes
    <3>2. SUFFICES ASSUME NEW q \in Relayers, NEW t \in Seqs
                   PROVE  /\ t \in claimedTxHash'[q] => t < receiveSeq' /\ claimer'[t] = q
                          /\ pkgStatus'[q][t] = "Delivered" => t \in claimedTxHash'[q]
      BY DEF DbAgreesWithChain
    <3>3. /\ t \in claimedTxHash[q] => t < receiveSeq /\ claimer[t] = q
          /\ pkgStatus[q][t] = "Delivered" => t \in claimedTxHash[q]
      BY DEF DbAgreesWithChain
    <3>4. pkgStatus'[q][t] = "Delivered" => pkgStatus[q][t] = "Delivered"
      BY <3>1 DEF TypeOK
    <3>5. QED
      BY <3>1, <3>3, <3>4
  <2>4. ASSUME NEW r \in Relayers,
               \/ ProcessInturn(r) \/ ProcessStandby(r) \/ StandbyWake(r)
               \/ PkgsMissing(r) \/ NotEnoughVotes(r) \/ StandbyDefers(r)
               \/ Calibrate(r) \/ RefreshValidators(r) \/ Restart(r)
        PROVE  UNCHANGED <<dbVars, receiveSeq, claimer>>
    BY <2>4 DEF ProcessInturn, ProcessStandby, StandbyWake, PkgsMissing,
                NotEnoughVotes, StandbyDefers, Calibrate, RefreshValidators, Restart
  <2>5. Tick \/ Emit \/ ChangeValidators \/ UNCHANGED vars
        => UNCHANGED <<dbVars, receiveSeq, claimer>>
    BY DEF Tick, Emit, ChangeValidators, vars
  <2>6. UNCHANGED <<dbVars, receiveSeq, claimer>> => DbAgreesWithChain'
    <3> SUFFICES ASSUME UNCHANGED <<dbVars, receiveSeq, claimer>>
                 PROVE  DbAgreesWithChain'
      OBVIOUS
    <3>1. claimedTxHash' = claimedTxHash /\ pkgStatus' = pkgStatus
      BY DEF dbVars
    <3>2. receiveSeq' = receiveSeq /\ claimer' = claimer
      OBVIOUS
    <3>3. QED
      BY <3>1, <3>2, DbAgreesFrame
  <2>7. QED
    BY <2>1, <2>2, <2>3, <2>4, <2>5, <2>6 DEF Next, AssemblerStep, Environment
<1>3. QED
  BY <1>1, <1>2, TypeCorrect, PTL DEF Spec

-----------------------------------------------------------------------------
(* Only voted packages are claimed.                                        *)

\* The rows the claim loop accepts: AllVoted or Delivered.
Voted == {"AllVoted", "Delivered"}

\* A row that is AllVoted or Delivered stays so: the listener writes only
\* rows that do not exist, the vote processor only Saved rows, and the
\* assembler only Delivered.
LEMMA VotedStable ==
    ASSUME TypeOK, [Next]_vars, NEW q \in Relayers, NEW t \in Seqs,
           pkgStatus[q][t] \in Voted
    PROVE  pkgStatus'[q][t] \in Voted
<1>1. ASSUME NEW r \in Relayers, ClaimSucceeded(r) PROVE pkgStatus'[q][t] \in Voted
  <2>1. pass[r].i \in Seqs
    BY <1>1, LoopSeqInSeqs DEF ClaimSucceeded, Claimable
  <2>2. pkgStatus' \in {[pkgStatus EXCEPT ![r][pass[r].i] = "Delivered"], pkgStatus}
    BY <1>1, Zenon DEF ClaimSucceeded
  <2>3. CASE pkgStatus' = pkgStatus
    BY <2>3
  <2>4. CASE pkgStatus' = [pkgStatus EXCEPT ![r][pass[r].i] = "Delivered"]
    <3>1. CASE q = r /\ t = pass[r].i
      BY <2>1, <2>4, <3>1 DEF TypeOK, Voted
    <3>2. CASE ~(q = r /\ t = pass[r].i)
      BY <2>1, <2>4, <3>2 DEF TypeOK
    <3>3. QED
      BY <3>1, <3>2
  <2>5. QED
    BY <2>2, <2>3, <2>4
<1>2. ASSUME NEW r \in Relayers, SavePackage(r) \/ CollectVotes(r)
      PROVE  pkgStatus'[q][t] \in Voted
  <2>1. PICK u \in Seqs, v \in {"Saved", "AllVoted"} :
          /\ pkgStatus[r][u] \in {"None", "Saved"}
          /\ pkgStatus' = [pkgStatus EXCEPT ![r][u] = v]
    BY <1>2 DEF SavePackage, CollectVotes
  <2>2. CASE q = r /\ t = u
    BY <2>1, <2>2 DEF Voted
  <2>3. CASE ~(q = r /\ t = u)
    BY <2>1, <2>3 DEF TypeOK
  <2>4. QED
    BY <2>2, <2>3
<1>3. ASSUME NEW r \in Relayers,
             \/ ProcessInturn(r) \/ ProcessStandby(r) \/ StandbyWake(r)
             \/ PkgsMissing(r) \/ NotEnoughVotes(r) \/ StandbyDefers(r)
             \/ ClaimFailed(r) \/ Calibrate(r) \/ RefreshValidators(r)
             \/ Restart(r)
      PROVE  UNCHANGED pkgStatus
  BY <1>3 DEF ProcessInturn, ProcessStandby, StandbyWake, PkgsMissing,
              NotEnoughVotes, StandbyDefers, ClaimFailed, Calibrate,
              RefreshValidators, Restart
<1>4. Tick \/ Emit \/ ChangeValidators \/ UNCHANGED vars => UNCHANGED pkgStatus
  BY DEF Tick, Emit, ChangeValidators, vars
<1>5. QED
  BY <1>1, <1>2, <1>3, <1>4 DEF Next, AssemblerStep, Environment

\* Greenfield's receive sequence and claimers change only by a claim of
\* the receive sequence that passed the claim loop's checks.
LEMMA ChainStep ==
    ASSUME TypeOK, [Next]_vars
    PROVE  \/ UNCHANGED <<receiveSeq, claimer>>
           \/ \E r \in Relayers :
                 /\ Claimable(r)
                 /\ pass[r].i \in Seqs
                 /\ pass[r].i = receiveSeq
                 /\ ApplyClaim(r, pass[r].i)
<1>1. ASSUME NEW r \in Relayers, ClaimSucceeded(r) \/ ClaimFailed(r)
      PROVE  \/ UNCHANGED <<receiveSeq, claimer>>
             \/ /\ Claimable(r)
                /\ pass[r].i \in Seqs
                /\ pass[r].i = receiveSeq
                /\ ApplyClaim(r, pass[r].i)
  <2>1. Claimable(r)
    BY <1>1 DEF ClaimSucceeded, ClaimFailed
  <2>2. pass[r].i \in Seqs
    BY <2>1, LoopSeqInSeqs DEF Claimable
  <2>3. \/ UNCHANGED <<receiveSeq, claimer>>
        \/ ClaimAccepted(r, pass[r].i, relayerNonce[r], UsedValidators(r))
           /\ ApplyClaim(r, pass[r].i)
    BY <1>1 DEF ClaimSucceeded, ClaimFailed
  <2>4. QED
    BY <2>1, <2>2, <2>3 DEF ClaimAccepted
<1>2. ASSUME NEW r \in Relayers,
             \/ ProcessInturn(r) \/ ProcessStandby(r) \/ StandbyWake(r)
             \/ PkgsMissing(r) \/ NotEnoughVotes(r) \/ StandbyDefers(r)
             \/ Calibrate(r) \/ RefreshValidators(r) \/ SavePackage(r)
             \/ CollectVotes(r) \/ Restart(r)
      PROVE  UNCHANGED <<receiveSeq, claimer>>
  BY <1>2 DEF ProcessInturn, ProcessStandby, StandbyWake, PkgsMissing,
              NotEnoughVotes, StandbyDefers, Calibrate, RefreshValidators,
              SavePackage, CollectVotes, Restart
<1>3. Tick \/ Emit \/ ChangeValidators \/ UNCHANGED vars
      => UNCHANGED <<receiveSeq, claimer>>
  BY DEF Tick, Emit, ChangeValidators, vars
<1>4. QED
  BY <1>1, <1>2, <1>3 DEF Next, AssemblerStep, Environment

\* Strengthening: every delivered sequence has a relayer as its claimer.
ClaimerIsRelayer == \A s \in Seqs : s < receiveSeq => claimer[s] \in Relayers

VotedInv == ClaimerIsRelayer /\ ClaimedOnlyVoted

\* Greenfield only ever delivers a sequence whose package the claiming
\* relayer's own database held AllVoted or Delivered (ClaimedOnlyVoted):
\* the claim loop's status check guards every claim, and a voted row never
\* goes back.
THEOREM ClaimsOnlyVoted == Spec => []ClaimedOnlyVoted
<1>1. Init => VotedInv
  BY DEF Init, VotedInv, ClaimerIsRelayer, ClaimedOnlyVoted, Seqs
<1>2. TypeOK /\ VotedInv /\ [Next]_vars => VotedInv'
  <2> SUFFICES ASSUME TypeOK, VotedInv, [Next]_vars, NEW s \in Seqs, s < receiveSeq'
               PROVE  claimer'[s] \in Relayers /\ PkgsOf(claimer[s], s)' \in Voted
    BY DEF VotedInv, ClaimerIsRelayer, ClaimedOnlyVoted, Voted
  <2>1. CASE s < receiveSeq
    <3>1. claimer'[s] = claimer[s]
      <4>1. CASE UNCHANGED <<receiveSeq, claimer>>
        BY <4>1
      <4>2. CASE \E r \in Relayers : pass[r].i \in Seqs /\ pass[r].i = receiveSeq
                                     /\ ApplyClaim(r, pass[r].i)
        BY <2>1, <4>2, ApplyClaimKeepsPast
      <4>3. QED
        BY <4>1, <4>2, ChainStep
    <3>2. claimer[s] \in Relayers /\ pkgStatus[claimer[s]][s] \in Voted
      BY <2>1 DEF VotedInv, ClaimerIsRelayer, ClaimedOnlyVoted, PkgsOf, Voted
    <3>3. pkgStatus'[claimer[s]][s] \in Voted
      BY <3>2, VotedStable
    <3>4. QED
      BY <3>1, <3>2, <3>3 DEF PkgsOf
  <2>2. CASE ~(s < receiveSeq)
    <3>1. PICK r \in Relayers : /\ Claimable(r)
                                /\ pass[r].i \in Seqs
                                /\ pass[r].i = receiveSeq
                                /\ ApplyClaim(r, pass[r].i)
      BY <2>2, ChainStep DEF TypeOK, Seqs
    <3>2. receiveSeq' = receiveSeq + 1 /\ claimer'[pass[r].i] = r
      BY <3>1, ApplyClaimKeepsPast
    <3>3. s = receiveSeq
      BY <2>2, <3>2 DEF TypeOK, Seqs
    <3>4. claimer'[s] = r
      BY <3>1, <3>2, <3>3
    <3>5. pkgStatus[r][s] \in Voted
      BY <3>1, <3>3 DEF Claimable, PkgsOf, Voted
    <3>6. pkgStatus'[r][s] \in Voted
      BY <3>5, VotedStable
    <3>7. QED
      BY <3>4, <3>6 DEF PkgsOf
  <2>3. QED
    BY <2>1, <2>2
<1>3. VotedInv => ClaimedOnlyVoted
  BY DEF VotedInv
<1>4. QED
  BY <1>1, <1>2, <1>3, TypeCorrect, PTL DEF Spec

-----------------------------------------------------------------------------
(* Refinement of the oracle channel.                                       *)

\* Every package row is for a sequence BSC has already emitted.
RowsBelowSend ==
    \A r \in Relayers, s \in Seqs : pkgStatus[r][s] # "None" => s < sendSeq

\* A row changes only along None -> Saved (for an emitted sequence, by the
\* listener), Saved -> AllVoted (by the vote processor) and a voted row to
\* Delivered (by an in-turn claim).
LEMMA RowStep ==
    ASSUME TypeOK, [Next]_vars, NEW q \in Relayers, NEW t \in Seqs,
           pkgStatus'[q][t] # pkgStatus[q][t]
    PROVE  \/ /\ pkgStatus[q][t] = "None" /\ t < sendSeq
              /\ pkgStatus'[q][t] = "Saved"
           \/ /\ pkgStatus[q][t] = "Saved" /\ pkgStatus'[q][t] = "AllVoted"
              /\ \E r \in Relayers : CollectVotes(r)
           \/ pkgStatus[q][t] \in Voted /\ pkgStatus'[q][t] = "Delivered"
<1>1. ASSUME NEW r \in Relayers, ClaimSucceeded(r)
      PROVE  pkgStatus[q][t] \in Voted /\ pkgStatus'[q][t] = "Delivered"
  <2>1. pass[r].i \in Seqs
    BY <1>1, LoopSeqInSeqs DEF ClaimSucceeded, Claimable
  <2>2. pkgStatus[r][pass[r].i] \in Voted
    BY <1>1, <2>1 DEF ClaimSucceeded, Claimable, PkgsOf, Voted
  <2>3. pkgStatus' \in {[pkgStatus EXCEPT ![r][pass[r].i] = "Delivered"], pkgStatus}
    BY <1>1, Zenon DEF ClaimSucceeded
  <2>4. pkgStatus' = [pkgStatus EXCEPT ![r][pass[r].i] = "Delivered"]
    BY <2>3
  <2>5. q = r /\ t = pass[r].i
    BY <2>1, <2>4 DEF TypeOK
  <2>6. QED
    BY <2>1, <2>2, <2>4, <2>5 DEF TypeOK
<1>2. ASSUME NEW r \in Relayers, SavePackage(r)
      PROVE  /\ pkgStatus[q][t] = "None" /\ t < sendSeq
             /\ pkgStatus'[q][t] = "Saved"
  <2>1. PICK u \in Seqs : /\ u < sendSeq
                          /\ pkgStatus[r][u] = "None"
                          /\ pkgStatus' = [pkgStatus EXCEPT ![r][u] = "Saved"]
    BY <1>2, Zenon DEF SavePackage
  <2>2. q = r /\ t = u
    BY <2>1 DEF TypeOK
  <2>3. QED
    BY <2>1, <2>2 DEF TypeOK
<1>3. ASSUME NEW r \in Relayers, CollectVotes(r)
      PROVE  pkgStatus[q][t] = "Saved" /\ pkgStatus'[q][t] = "AllVoted"
  <2>1. PICK u \in Seqs : /\ pkgStatus[r][u] = "Saved"
                          /\ pkgStatus' = [pkgStatus EXCEPT ![r][u] = "AllVoted"]
    BY <1>3, Zenon DEF CollectVotes
  <2>2. q = r /\ t = u
    BY <2>1 DEF TypeOK
  <2>3. QED
    BY <2>1, <2>2 DEF TypeOK
<1>4. ASSUME NEW r \in Relayers,
             \/ ProcessInturn(r) \/ ProcessStandby(r) \/ StandbyWake(r)
             \/ PkgsMissing(r) \/ NotEnoughVotes(r) \/ StandbyDefers(r)
             \/ ClaimFailed(r) \/ Calibrate(r) \/ RefreshValidators(r)
             \/ Restart(r)
      PROVE  FALSE
  <2>1. UNCHANGED pkgStatus
    BY <1>4 DEF ProcessInturn, ProcessStandby, StandbyWake, PkgsMissing,
                NotEnoughVotes, StandbyDefers, ClaimFailed, Calibrate,
                RefreshValidators, Restart
  <2>2. QED
    BY <2>1
<1>5. ASSUME Tick \/ Emit \/ ChangeValidators \/ UNCHANGED vars PROVE FALSE
  <2>1. UNCHANGED pkgStatus
    BY <1>5 DEF Tick, Emit, ChangeValidators, vars
  <2>2. QED
    BY <2>1
<1>6. QED
  BY <1>1, <1>2, <1>3, <1>4, <1>5 DEF Next, AssemblerStep, Environment

\* BSC's send sequence changes only by an emission.
LEMMA SendStep ==
    ASSUME [Next]_vars
    PROVE  sendSeq' = sendSeq \/ Emit
<1>1. ASSUME NEW r \in Relayers,
             \/ ProcessInturn(r) \/ ProcessStandby(r) \/ StandbyWake(r)
      PROVE  sendSeq' = sendSeq
  BY <1>1 DEF ProcessInturn, ProcessStandby, StandbyWake
<1>2. ASSUME NEW r \in Relayers,
             \/ PkgsMissing(r) \/ NotEnoughVotes(r) \/ StandbyDefers(r)
      PROVE  sendSeq' = sendSeq
  BY <1>2 DEF PkgsMissing, NotEnoughVotes, StandbyDefers
<1>3. ASSUME NEW r \in Relayers,
             \/ ClaimSucceeded(r) \/ ClaimFailed(r) \/ Calibrate(r)
      PROVE  sendSeq' = sendSeq
  BY <1>3 DEF ClaimSucceeded, ClaimFailed, Calibrate
<1>4. ASSUME NEW r \in Relayers,
             \/ RefreshValidators(r) \/ SavePackage(r) \/ CollectVotes(r)
             \/ Restart(r)
      PROVE  sendSeq' = sendSeq
  BY <1>4 DEF RefreshValidators, SavePackage, CollectVotes, Restart
<1>5. Tick \/ ChangeValidators \/ UNCHANGED vars => sendSeq' = sendSeq
  BY DEF Tick, ChangeValidators, vars
<1>6. QED
  BY <1>1, <1>2, <1>3, <1>4, <1>5 DEF Next, AssemblerStep, Environment

\* Rows exist only for emitted sequences (RowsBelowSend), since the listener
\* saves only sequences BSC sent: a lemma of Refinement.
LEMMA RowsBelowSendHolds == Spec => []RowsBelowSend
<1>1. Init => RowsBelowSend
  BY DEF Init, RowsBelowSend
<1>2. TypeOK /\ RowsBelowSend /\ [Next]_vars => RowsBelowSend'
  <2> SUFFICES ASSUME TypeOK, RowsBelowSend, [Next]_vars,
                      NEW q \in Relayers, NEW t \in Seqs, pkgStatus'[q][t] # "None"
               PROVE  t < sendSeq'
    BY DEF RowsBelowSend
  <2>1. t < sendSeq
    <3>1. CASE pkgStatus'[q][t] = pkgStatus[q][t]
      BY <3>1 DEF RowsBelowSend
    <3>2. CASE pkgStatus'[q][t] # pkgStatus[q][t]
      BY <3>2, RowStep DEF RowsBelowSend, Voted
    <3>3. QED
      BY <3>1, <3>2
  <2>2. sendSeq' = sendSeq \/ sendSeq' = sendSeq + 1
    BY SendStep DEF Emit
  <2>3. sendSeq \in Nat /\ t \in Nat
    BY DEF TypeOK, Seqs
  <2>4. QED
    BY <2>1, <2>2, <2>3
<1>3. QED
  BY <1>1, <1>2, TypeCorrect, PTL DEF Spec

\* When no row becomes voted, the set of voted sequences is unchanged.
LEMMA VotedSeqsSame ==
    ASSUME \A q \in Relayers, t \in Seqs :
              pkgStatus'[q][t] \in Voted <=> pkgStatus[q][t] \in Voted
    PROVE  VotedSeqs' = VotedSeqs
BY DEF VotedSeqs, Voted

\* The assembler pipeline implements the oracle channel (OracleImplemented):
\* BSC's sequences reach Greenfield in order, each once, and only after a
\* relayer's database holds them all-voted.  Claims map to Deliver, the
\* vote processor's first AllVoted for a sequence to Vote, BSC's emission
\* to Send, and every other step to a stutter.
THEOREM Refinement == Spec => OracleImplemented
<1>1. Init => Oracle!Init
  <2> SUFFICES ASSUME Init PROVE Oracle!Init
    OBVIOUS
  <2>1. VotedSeqs = {}
    BY DEF Init, VotedSeqs
  <2>2. QED
    BY <2>1 DEF Init, Oracle!Init, Oracle!Seqs, Seqs
<1>2. TypeOK /\ RowsBelowSend /\ [Next]_vars => [Oracle!Next]_Oracle!vars
  <2> SUFFICES ASSUME TypeOK, RowsBelowSend, [Next]_vars
               PROVE  [Oracle!Next]_Oracle!vars
    OBVIOUS
  <2>1. CASE \E r \in Relayers : CollectVotes(r)
    <3>1. PICK r \in Relayers, u \in Seqs :
            /\ pkgStatus[r][u] = "Saved"
            /\ pkgStatus' = [pkgStatus EXCEPT ![r][u] = "AllVoted"]
            /\ UNCHANGED <<sendSeq, receiveSeq, claimer>>
      BY <2>1, Zenon DEF CollectVotes
    <3>2. u < sendSeq
      <4>1. pkgStatus[r][u] # "None"
        BY <3>1
      <4>2. QED
        BY <4>1, Zenon DEF RowsBelowSend
    <3>3. VotedSeqs' = VotedSeqs \cup {u}
      BY <3>1 DEF VotedSeqs, TypeOK
    <3>4. CASE u \in VotedSeqs
      BY <3>1, <3>3, <3>4 DEF Oracle!vars
    <3>5. CASE u \notin VotedSeqs
      <4>1. Oracle!Vote(u)
        BY <3>1, <3>2, <3>3, <3>5 DEF Oracle!Vote
      <4>2. QED
        BY <4>1 DEF Oracle!Next, Oracle!Seqs, Seqs
    <3>6. QED
      BY <3>4, <3>5
  <2>2. CASE ~\E r \in Relayers : CollectVotes(r)
    <3>1. VotedSeqs' = VotedSeqs
      <4>1. ASSUME NEW q \in Relayers, NEW t \in Seqs
            PROVE  pkgStatus'[q][t] \in Voted <=> pkgStatus[q][t] \in Voted
        <5>1. CASE pkgStatus'[q][t] = pkgStatus[q][t]
          BY <5>1
        <5>2. CASE pkgStatus'[q][t] # pkgStatus[q][t]
          BY <5>2, <2>2, RowStep DEF Voted
        <5>3. QED
          BY <5>1, <5>2
      <4>2. QED
        BY <4>1, VotedSeqsSame
    <3>2. CASE Emit
      <4>1. sendSeq' = sendSeq + 1 /\ sendSeq < MaxSeq
            /\ UNCHANGED <<receiveSeq, claimer>>
        BY <3>2 DEF Emit
      <4>2. QED
        BY <3>1, <4>1 DEF Oracle!Next, Oracle!Send
    <3>3. CASE ~Emit /\ UNCHANGED <<receiveSeq, claimer>>
      <4>1. sendSeq' = sendSeq
        BY <3>3, SendStep
      <4>2. QED
        BY <3>1, <3>3, <4>1 DEF Oracle!vars
    <3>4. CASE ~Emit /\ ~UNCHANGED <<receiveSeq, claimer>>
      <4>1. PICK r \in Relayers : /\ Claimable(r)
                                  /\ pass[r].i \in Seqs
                                  /\ pass[r].i = receiveSeq
                                  /\ ApplyClaim(r, pass[r].i)
        BY <3>4, ChainStep
      <4>2. sendSeq' = sendSeq
        BY <3>4, SendStep
      <4>3. pkgStatus[r][receiveSeq] \in Voted
        BY <4>1 DEF Claimable, PkgsOf, Voted
      <4>4. receiveSeq \in VotedSeqs /\ receiveSeq < sendSeq
        BY <4>1, <4>3 DEF VotedSeqs, Voted, RowsBelowSend
      <4>5. receiveSeq' = receiveSeq + 1
            /\ claimer' = [claimer EXCEPT ![receiveSeq] = r]
        BY <4>1 DEF ApplyClaim
      <4>6. Oracle!Deliver(r)
        BY <3>1, <4>2, <4>4, <4>5 DEF Oracle!Deliver
      <4>7. QED
        BY <4>6 DEF Oracle!Next
    <3>5. QED
      BY <3>2, <3>3, <3>4
  <2>3. QED
    BY <2>1, <2>2
<1>3. QED
  BY <1>1, <1>2, RowsBelowSendHolds, TypeCorrect, PTL
  DEF Spec, OracleImplemented, Oracle!Spec


-----------------------------------------------------------------------------
(* The delay alert is cleared only after delivery.                         *)

\* How a step may change relayer q's alert set without a restart: a claim
\* loop step only adds the sequence it flags; process() reconciles it
\* against its start sequence, which is the chain's receive sequence or
\* q's own cursor; every other step leaves it alone.
AlertMoves(q) ==
    \/ alertSet[q] \subseteq alertSet'[q]
    \/ alertSet'[q] = ReconciledAlerts(q, receiveSeq)
    \/ alertSet'[q] = ReconciledAlerts(q, nextDeliverySeq[q])

LEMMA ObserveDelayGrows ==
    ASSUME TypeOK, NEW r \in Relayers, NEW i, ObserveDelay(r, i), NEW q \in Relayers
    PROVE  alertSet[q] \subseteq alertSet'[q]
BY DEF ObserveDelay, TypeOK

LEMMA AlertSources ==
    ASSUME TypeOK, [Next]_vars, crashes' = crashes, NEW q \in Relayers
    PROVE  AlertMoves(q)
<1>1. ASSUME NEW r \in Relayers, ProcessInturn(r) PROVE AlertMoves(q)
  <2>1. CASE q = r
    <3>1. \/ UNCHANGED alertSet
          \/ alertSet' = [alertSet EXCEPT ![r] = ReconciledAlerts(r, receiveSeq)]
          \/ alertSet' = [alertSet EXCEPT ![r] = ReconciledAlerts(r, nextDeliverySeq[r])]
      BY <1>1, Zenon DEF ProcessInturn
    <3>2. QED
      BY <2>1, <3>1 DEF TypeOK, AlertMoves
  <2>2. CASE q # r
    BY <1>1, <2>2 DEF ProcessInturn, TypeOK, AlertMoves
  <2>3. QED
    BY <2>1, <2>2
<1>2. ASSUME NEW r \in Relayers, StandbyWake(r) PROVE AlertMoves(q)
  <2>1. \/ UNCHANGED alertSet
        \/ alertSet' = [alertSet EXCEPT ![r] = ReconciledAlerts(r, receiveSeq)]
    BY <1>2, Zenon DEF StandbyWake
  <2>2. QED
    BY <2>1 DEF TypeOK, AlertMoves
<1>3. ASSUME NEW r \in Relayers,
             \/ NotEnoughVotes(r) \/ StandbyDefers(r)
             \/ ClaimSucceeded(r) \/ ClaimFailed(r)
      PROVE  AlertMoves(q)
  <2>1. ObserveDelay(r, pass[r].i)
    BY <1>3 DEF NotEnoughVotes, StandbyDefers, ClaimSucceeded, ClaimFailed
  <2>2. QED
    BY <2>1, ObserveDelayGrows DEF AlertMoves
<1>4. ASSUME NEW r \in Relayers, Restart(r) PROVE FALSE
  BY <1>4 DEF Restart, TypeOK
<1>5. ASSUME NEW r \in Relayers,
             \/ ProcessStandby(r) \/ PkgsMissing(r) \/ Calibrate(r)
             \/ RefreshValidators(r) \/ SavePackage(r) \/ CollectVotes(r)
      PROVE  UNCHANGED alertSet
  BY <1>5 DEF ProcessStandby, PkgsMissing, Calibrate, RefreshValidators,
              SavePackage, CollectVotes
<1>6. Tick \/ Emit \/ ChangeValidators \/ UNCHANGED vars => UNCHANGED alertSet
  BY DEF Tick, Emit, ChangeValidators, vars
<1>7. UNCHANGED alertSet => AlertMoves(q)
  BY DEF AlertMoves
<1>8. QED
  BY <1>1, <1>2, <1>3, <1>4, <1>5, <1>6, <1>7 DEF Next, AssemblerStep, Environment

\* Reconciliation empties a non-empty alert set only when every flagged
\* sequence is below the start sequence.
LEMMA ReconciledEmpty ==
    ASSUME NEW r \in Relayers, NEW start,
           alertSet[r] # {}, ReconciledAlerts(r, start) = {}
    PROVE  \A s \in alertSet[r] : s < start
BY DEF ReconciledAlerts

\* A live process clears its delay alert only once Greenfield has received
\* every sequence it flagged (AlertClearedOnlyAfterDelivery): process()
\* reconciles the alert set against a start sequence that, by
\* CursorNotAhead, is never past Greenfield's receive sequence.
THEOREM AlertClearedOnlyAfterDeliveryHolds == Spec => AlertClearedOnlyAfterDelivery
<1>1. ASSUME TypeOK, CursorNotAhead, [Next]_vars, NEW q \in Relayers,
             alertSet[q] # {}, alertSet'[q] = {}, crashes' = crashes
      PROVE  \A s \in alertSet[q] : s < receiveSeq
  <2>1. AlertMoves(q)
    BY <1>1, AlertSources
  <2>2. CASE alertSet[q] \subseteq alertSet'[q]
    BY <1>1, <2>2
  <2>3. CASE alertSet'[q] = ReconciledAlerts(q, receiveSeq)
    BY <1>1, <2>3, ReconciledEmpty
  <2>4. CASE alertSet'[q] = ReconciledAlerts(q, nextDeliverySeq[q])
    <3>1. \A s \in alertSet[q] : s < nextDeliverySeq[q]
      BY <1>1, <2>4, ReconciledEmpty
    <3>2. nextDeliverySeq[q] <= receiveSeq /\ nextDeliverySeq[q] \in Nat
          /\ receiveSeq \in Nat /\ alertSet[q] \subseteq Nat
      BY <1>1 DEF CursorNotAhead, TypeOK, Seqs
    <3>3. QED
      BY <3>1, <3>2
  <2>5. QED
    BY <2>1, <2>2, <2>3, <2>4 DEF AlertMoves
<1>2. TypeOK /\ CursorNotAhead /\ [Next]_vars =>
        [\A r \in Relayers :
            alertSet[r] # {} /\ alertSet'[r] = {} /\ crashes' = crashes =>
                \A s \in alertSet[r] : s < receiveSeq]_vars
  BY <1>1
<1>3. QED
  BY <1>2, TypeCorrect, CursorNeverAhead, PTL DEF Spec, AlertClearedOnlyAfterDelivery


\* Through the refinement, the channel's guarantee holds of the pipeline:
\* Greenfield's receive sequence never passes BSC's send sequence, and every
\* sequence Greenfield received was all-voted in some relayer's database and
\* was claimed by a relayer, whatever the interleaving, faults and restarts.
THEOREM ReceivedWereVoted == Spec => [](Oracle!TypeOK /\ Oracle!ChannelSafe)
<1>1. MaxSeq \in Nat
  OBVIOUS
<1>2. Oracle!Spec => [](Oracle!TypeOK /\ Oracle!ChannelSafe)
  BY <1>1, Oracle!ChannelSafeHolds
<1>3. QED
  BY <1>2, Refinement DEF OracleImplemented

=============================================================================
