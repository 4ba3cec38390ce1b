------------------------- MODULE GreenfieldDaoProofs -------------------------
(***************************************************************************)
(* Proofs about GreenfieldDao for every value of the constants that        *)
(* satisfies DaoConstants.                                                 *)
(***************************************************************************)
EXTENDS GreenfieldDao, TLAPS

USE DaoConstants DEF chainVars, daoVars

-----------------------------------------------------------------------------
(* Type correctness.                                                       *)

\* The saved blocks are always 1 .. k for a k no higher than Greenfield's
\* tip: the listener saves the block after GetLatestBlock's, one at a time.
BlocksPrefix == \E k \in 0 .. gnfdHeight : blocks = 1 .. k

\* The greatest height of 1 .. k is k (0 for none).
LEMMA TopOfPrefix ==
    ASSUME NEW k \in Nat
    PROVE  TopHeight(1 .. k) = k
<1>1. CASE k = 0
  BY <1>1 DEF TopHeight
<1>2. CASE k # 0
  <2>1. \E h \in 1 .. k : \A g \in 1 .. k : g <= h
    BY <1>2
  <2>2. LET h == CHOOSE h \in 1 .. k : \A g \in 1 .. k : g <= h
        IN  h \in 1 .. k /\ \A g \in 1 .. k : g <= h
    BY <2>1
  <2>3. QED
    BY <1>2, <2>2 DEF TopHeight
<1>3. QED
  BY <1>1, <1>2

WellFormed == TypeOK /\ BlocksPrefix

\* Every step keeps the types and the prefix of saved blocks.
LEMMA WellFormedStep == WellFormed /\ [Next]_vars => WellFormed'
<1> SUFFICES ASSUME TypeOK, BlocksPrefix, [Next]_vars PROVE TypeOK' /\ BlocksPrefix'
    BY DEF WellFormed
<1>0. PICK k \in 0 .. gnfdHeight : blocks = 1 .. k
    BY DEF BlocksPrefix
<1>1. LatestBlockHeight = k
    BY <1>0, TopOfPrefix DEF LatestBlockHeight, TypeOK
<1>2. BlocksPrefix'
  <2>1. CASE SaveBlockAndBatchTransactions
    <3>1. k + 1 <= gnfdHeight /\ gnfdHeight' = gnfdHeight
        BY <2>1, <1>1 DEF SaveBlockAndBatchTransactions
    <3>2. blocks' = 1 .. (k + 1)
        BY <1>0, <1>1, <2>1 DEF SaveBlockAndBatchTransactions
    <3>3. QED
        BY <3>1, <3>2 DEF BlocksPrefix, TypeOK
  <2>2. CASE GnfdNewBlock
    <3>1. gnfdHeight' = gnfdHeight + 1 /\ blocks' = blocks
        BY <2>2 DEF GnfdNewBlock
    <3>2. k \in 0 .. gnfdHeight'
        BY <1>0, <3>1 DEF TypeOK
    <3>3. QED
        BY <1>0, <3>1, <3>2 DEF BlocksPrefix
  <2>3. CASE ~SaveBlockAndBatchTransactions /\ ~GnfdNewBlock
    <3>1. UNCHANGED <<gnfdHeight, blocks>>
        BY <2>3 DEF Next, vars, UpdateTransactionStatus,
                    UpdateTransactionClaimedTxHash,
                    UpdateTransactionStatusAndClaimedTxHash,
                    UpdateBatchTransactionStatusToDelivered, BscDeliver,
                    SaveSyncLightBlockTransaction
    <3>2. QED
        BY <1>0, <3>1 DEF BlocksPrefix
  <2>4. QED
      BY <2>1, <2>2, <2>3
<1>3. TypeOK'
  <2>1. CASE SaveBlockAndBatchTransactions
    <3>1. k + 1 \in Heights
        BY <2>1, <1>1 DEF SaveBlockAndBatchTransactions, TypeOK, Heights
    <3>2. blocks' \in SUBSET Heights
        BY <2>1, <1>1, <3>1 DEF SaveBlockAndBatchTransactions, TypeOK
    <3>3. status' \in [Channels -> [Seqs -> Statuses]]
        BY <2>1 DEF SaveBlockAndBatchTransactions, TypeOK, Statuses, Saved
    <3>4. UNCHANGED <<chainVars, hash, synced>>
        BY <2>1 DEF SaveBlockAndBatchTransactions
    <3>5. QED
        BY <3>2, <3>3, <3>4 DEF TypeOK
  <2>2. ASSUME NEW c \in Channels, NEW s \in Seqs, NEW st \in {SelfVoted, AllVoted},
                 UpdateTransactionStatus(c, s, st)
          PROVE  TypeOK'
      BY <2>2 DEF UpdateTransactionStatus, TypeOK, Statuses, SelfVoted, AllVoted
  <2>3. ASSUME NEW c \in Channels, NEW s \in Seqs, UpdateTransactionClaimedTxHash(c, s)
          PROVE  TypeOK'
      BY <2>3 DEF UpdateTransactionClaimedTxHash, TypeOK
  <2>4. ASSUME NEW c \in Channels, UpdateTransactionStatusAndClaimedTxHash(c)
          PROVE  TypeOK'
    <3>1. bscRecv[c] \in Seqs
        BY <2>4 DEF UpdateTransactionStatusAndClaimedTxHash, TypeOK, Seqs
    <3>2. bscRecv' \in [Channels -> 0 .. MaxSeq]
        BY <2>4, <3>1 DEF UpdateTransactionStatusAndClaimedTxHash, TypeOK, Seqs
    <3>3. status' \in [Channels -> [Seqs -> Statuses]]
        BY <2>4, <3>1 DEF UpdateTransactionStatusAndClaimedTxHash, TypeOK, Statuses,
                          Delivered
    <3>4. hash' \in [Channels -> [Seqs -> BOOLEAN]]
        BY <2>4, <3>1 DEF UpdateTransactionStatusAndClaimedTxHash, TypeOK
    <3>5. UNCHANGED <<gnfdHeight, sendSeq, pkgHeight, blocks, synced>>
        BY <2>4 DEF UpdateTransactionStatusAndClaimedTxHash
    <3>6. QED
        BY <3>2, <3>3, <3>4, <3>5 DEF TypeOK
  <2>5. ASSUME NEW c \in Channels, UpdateBatchTransactionStatusToDelivered(c)
          PROVE  TypeOK'
      BY <2>5 DEF UpdateBatchTransactionStatusToDelivered, TypeOK, Statuses, Delivered
  <2>6. ASSUME NEW c \in Channels, BscDeliver(c) PROVE TypeOK'
      BY <2>6 DEF BscDeliver, TypeOK
  <2>7. ASSUME NEW h \in Heights, SaveSyncLightBlockTransaction(h) PROVE TypeOK'
      BY <2>7 DEF SaveSyncLightBlockTransaction, TypeOK
  <2>8. CASE GnfdNewBlock
    <3>1. PICK E \in SUBSET {c \in Channels : sendSeq[c] < MaxSeq} :
              /\ gnfdHeight' = gnfdHeight + 1
              /\ pkgHeight' = [c \in Channels |->
                                  IF c \in E
                                  THEN [pkgHeight[c] EXCEPT ![sendSeq[c]] = gnfdHeight + 1]
                                  ELSE pkgHeight[c]]
              /\ sendSeq' = [c \in Channels |->
                                IF c \in E THEN sendSeq[c] + 1 ELSE sendSeq[c]]
        BY <2>8 DEF GnfdNewBlock
    <3>2. gnfdHeight' \in 0 .. MaxHeight
        BY <2>8, <3>1 DEF GnfdNewBlock, TypeOK
    <3>3. pkgHeight' \in [Channels -> [Seqs -> 0 .. MaxHeight]]
        BY <3>1, <3>2 DEF TypeOK
    <3>4. sendSeq' \in [Channels -> 0 .. MaxSeq]
        BY <3>1 DEF TypeOK
    <3>5. UNCHANGED <<bscRecv, blocks, status, hash, synced>>
        BY <2>8 DEF GnfdNewBlock
    <3>6. QED
        BY <3>2, <3>3, <3>4, <3>5 DEF TypeOK
  <2>9. CASE UNCHANGED vars
      BY <2>9 DEF vars, TypeOK
  <2>10. QED
      BY <2>1, <2>2, <2>3, <2>4, <2>5, <2>6, <2>7, <2>8, <2>9 DEF Next
<1>4. QED
    BY <1>2, <1>3

\* The tables and the chains keep their types (TypeOK), and the saved
\* blocks form a prefix of Greenfield's chain.
THEOREM TypeCorrect == Spec => []WellFormed
<1>1. Init => WellFormed
  BY DEF Init, WellFormed, TypeOK, BlocksPrefix, Statuses, NoRow, Seqs
<1>2. QED
  BY <1>1, WellFormedStep, PTL DEF Spec

-----------------------------------------------------------------------------
(* No package is skipped.                                                  *)

\* The inductive invariant: the types, the prefix of saved blocks, and
\* NoPackageSkipped itself.  A new Greenfield block emits at a height above
\* every saved block, and no write turns a row back into no row.
IInv == WellFormed /\ NoPackageSkipped

\* Every step keeps NoPackageSkipped.
LEMMA NoPackageSkippedStep == IInv /\ [Next]_vars => NoPackageSkipped'
<1> SUFFICES ASSUME TypeOK, BlocksPrefix, NoPackageSkipped, [Next]_vars,
                    NEW c \in Channels, NEW s \in Seqs,
                    pkgHeight'[c][s] \in 1 .. LatestBlockHeight'
             PROVE  status'[c][s] # NoRow
  BY DEF IInv, WellFormed, NoPackageSkipped
<1>0. PICK k \in 0 .. gnfdHeight : blocks = 1 .. k
  BY DEF BlocksPrefix
<1>1. LatestBlockHeight = k
  BY <1>0, TopOfPrefix DEF LatestBlockHeight, TypeOK
<1>2. pkgHeight[c][s] \in 1 .. LatestBlockHeight => status[c][s] # NoRow
  BY DEF NoPackageSkipped
<1>3. CASE SaveBlockAndBatchTransactions
  <2>1. LatestBlockHeight' = k + 1
    <3>1. blocks' = 1 .. (k + 1) /\ k + 1 \in Nat
      BY <1>0, <1>1, <1>3 DEF SaveBlockAndBatchTransactions, TypeOK
    <3>2. QED
      BY <3>1, TopOfPrefix DEF LatestBlockHeight
  <2>2. pkgHeight' = pkgHeight
    BY <1>3 DEF SaveBlockAndBatchTransactions
  <2>3. status'[c][s] = IF pkgHeight[c][s] = k + 1 THEN Saved ELSE status[c][s]
    BY <1>1, <1>3 DEF SaveBlockAndBatchTransactions
  <2>4. pkgHeight[c][s] \in 0 .. MaxHeight /\ k \in Nat
    BY <1>0 DEF TypeOK
  <2>5. CASE pkgHeight[c][s] = k + 1
    BY <2>3, <2>5 DEF Saved, NoRow
  <2>6. CASE pkgHeight[c][s] # k + 1
    <3>1. pkgHeight[c][s] \in 1 .. LatestBlockHeight
      BY <1>1, <2>1, <2>2, <2>4, <2>6
    <3>2. QED
      BY <1>2, <2>3, <2>6, <3>1
  <2>7. QED
    BY <2>5, <2>6
<1>4. CASE GnfdNewBlock
  <2>1. PICK E \in SUBSET {d \in Channels : sendSeq[d] < MaxSeq} :
            /\ gnfdHeight' = gnfdHeight + 1
            /\ pkgHeight' = [d \in Channels |->
                                IF d \in E
                                THEN [pkgHeight[d] EXCEPT ![sendSeq[d]] = gnfdHeight + 1]
                                ELSE pkgHeight[d]]
    BY <1>4 DEF GnfdNewBlock
  <2>2. UNCHANGED <<blocks, status>>
    BY <1>4 DEF GnfdNewBlock
  <2>3. pkgHeight'[c][s] \in {pkgHeight[c][s], gnfdHeight + 1}
    BY <2>1 DEF TypeOK
  <2>4. QED
    BY <1>0, <1>1, <1>2, <2>2, <2>3 DEF LatestBlockHeight, TypeOK
<1>5. CASE ~SaveBlockAndBatchTransactions /\ ~GnfdNewBlock
  <2>1. UNCHANGED <<pkgHeight, blocks>>
    BY <1>5 DEF Next, vars, UpdateTransactionStatus,
                UpdateTransactionClaimedTxHash,
                UpdateTransactionStatusAndClaimedTxHash,
                UpdateBatchTransactionStatusToDelivered, BscDeliver,
                SaveSyncLightBlockTransaction
  <2>2. status[c][s] # NoRow
    BY <1>2, <2>1 DEF LatestBlockHeight
  <2>3. status'[c][s] \in {status[c][s], SelfVoted, AllVoted, Delivered}
    <3>1. ASSUME NEW d \in Channels, NEW t \in Seqs, NEW st \in {SelfVoted, AllVoted},
                 UpdateTransactionStatus(d, t, st)
          PROVE  status'[c][s] \in {status[c][s], SelfVoted, AllVoted, Delivered}
      BY <3>1 DEF UpdateTransactionStatus, TypeOK
    <3>2. ASSUME NEW d \in Channels, UpdateTransactionStatusAndClaimedTxHash(d)
          PROVE  status'[c][s] \in {status[c][s], SelfVoted, AllVoted, Delivered}
      BY <3>2 DEF UpdateTransactionStatusAndClaimedTxHash, TypeOK
    <3>3. ASSUME NEW d \in Channels, UpdateBatchTransactionStatusToDelivered(d)
          PROVE  status'[c][s] \in {status[c][s], SelfVoted, AllVoted, Delivered}
      BY <3>3 DEF UpdateBatchTransactionStatusToDelivered
    <3>4. CASE UNCHANGED status
      BY <3>4
    <3>5. QED
      BY <1>5, <3>1, <3>2, <3>3, <3>4 DEF Next, vars, UpdateTransactionClaimedTxHash,
                                          BscDeliver, SaveSyncLightBlockTransaction
  <2>4. QED
    BY <2>2, <2>3 DEF NoRow, SelfVoted, AllVoted, Delivered
<1>6. QED
  BY <1>3, <1>4, <1>5

\* No relay transaction is ever skipped (NoPackageSkipped), for every set of
\* channels and every bound: the listener's single database transaction
\* for a block and its packages, with GetLatestBlock's resume point, leaves
\* no emitted package without its row.
THEOREM NoPackageSkippedHolds == Spec => []NoPackageSkipped
<1>1. Init => IInv
  BY DEF Init, IInv, WellFormed, TypeOK, BlocksPrefix, Statuses, NoRow, Seqs,
         NoPackageSkipped
<1>2. IInv /\ [Next]_vars => IInv'
  BY WellFormedStep, NoPackageSkippedStep DEF IInv
<1>3. QED
  BY <1>1, <1>2, PTL DEF Spec, IInv


=============================================================================
