---------------------------- MODULE GreenfieldDao ----------------------------
(***************************************************************************)
(* GreenfieldDao (src/db/dao/greenfield_dao.go): the tables of the         *)
(* Greenfield -> BSC direction, written by that direction's listener, vote *)
(* processor and assembler.  Those clients are not under src/; each action *)
(* here is one DAO method, called with the arguments its client derives    *)
(* from the chains and from the DAO's own queries.  A gorm call or         *)
(* transaction that fails changes nothing, a stuttering step.              *)
(*                                                                         *)
(* A relay transaction row is keyed by its channel and sequence; its       *)
(* status is the db.TxStatus code the SQL compares with (Saved = 0,        *)
(* SelfVoted = 1, AllVoted = 2, Delivered = 3).                            *)
(***************************************************************************)
EXTENDS Integers, FiniteSets

CONSTANTS
    Channels,    \* the channels of the Greenfield -> BSC direction
    MaxSeq,      \* each channel emits sequences 0 .. MaxSeq - 1
    MaxHeight    \* Greenfield produces blocks 1 .. MaxHeight

ASSUME DaoConstants ==
    /\ IsFiniteSet(Channels)
    /\ MaxSeq \in Nat
    /\ MaxHeight \in Nat

Seqs == 0 .. MaxSeq - 1
Heights == 1 .. MaxHeight

NoRow == -1
Saved == 0
SelfVoted == 1
AllVoted == 2
Delivered == 3
Statuses == {NoRow, Saved, SelfVoted, AllVoted, Delivered}

VARIABLES
    gnfdHeight,  \* Greenfield's latest block
    sendSeq,     \* Greenfield's next send sequence per channel
    pkgHeight,   \* pkgHeight[c][s]: block that emitted (c, s); 0 = not yet
    bscRecv,     \* BSC's next receive sequence per channel
    blocks,      \* greenfield_block: the heights saved
    status,      \* greenfield_relay_transaction: status of row (c, s)
    hash,        \* greenfield_relay_transaction: claimed_tx_hash is set
    synced       \* sync_light_block_transaction: the heights saved

chainVars == <<gnfdHeight, sendSeq, pkgHeight, bscRecv>>
daoVars == <<blocks, status, hash, synced>>
vars == <<chainVars, daoVars>>

TypeOK ==
    /\ gnfdHeight \in 0 .. MaxHeight
    /\ sendSeq \in [Channels -> 0 .. MaxSeq]
    /\ pkgHeight \in [Channels -> [Seqs -> 0 .. MaxHeight]]
    /\ bscRecv \in [Channels -> 0 .. MaxSeq]
    /\ blocks \in SUBSET Heights
    /\ status \in [Channels -> [Seqs -> Statuses]]
    /\ hash \in [Channels -> [Seqs -> BOOLEAN]]
    /\ synced \in SUBSET Heights

Init ==
    /\ gnfdHeight = 0
    /\ sendSeq = [c \in Channels |-> 0]
    /\ pkgHeight = [c \in Channels |-> [s \in Seqs |-> 0]]
    /\ bscRecv = [c \in Channels |-> 0]
    /\ blocks = {}
    /\ status = [c \in Channels |-> [s \in Seqs |-> NoRow]]
    /\ hash = [c \in Channels |-> [s \in Seqs |-> FALSE]]
    /\ synced = {}

-----------------------------------------------------------------------------
(* Queries.                                                                *)

\* The greatest height of a set of rows, 0 for none.
TopHeight(S) == IF S = {} THEN 0 ELSE CHOOSE h \in S : \A g \in S : g <= h

\* GetLatestBlock: the block with the greatest height, or an empty block
\* (height 0) on ErrRecordNotFound.
LatestBlockHeight == TopHeight(blocks)

\* GetLatestSyncedTransaction, likewise.
LatestSyncedHeight == TopHeight(synced)

\* GetNextDeliverySequenceForChannelWithRetry: BSC's next receive sequence
\* of channel c, read through the BSC executor.
NextDeliverySequence(c) == bscRecv[c]

-----------------------------------------------------------------------------
(* DAO writes.                                                             *)

\* Mutant of SaveBlockAndBatchTransactions: the two creates outside a
\* database transaction, so the block row can commit and the batch fail.
SaveBlockThenTransactions ==
    LET h == LatestBlockHeight + 1 IN
    /\ h <= gnfdHeight
    /\ blocks' = blocks \cup {h}
    /\ \/ status' = [c \in Channels |-> [s \in Seqs |->
                        IF pkgHeight[c][s] = h THEN Saved ELSE status[c][s]]]
       \/ UNCHANGED status
    /\ UNCHANGED <<chainVars, hash, synced>>

\* SaveBlockAndBatchTransactions: the listener saves the block after the
\* latest saved one and the relay transactions it emitted, in one database
\* transaction.
SaveBlockAndBatchTransactions ==
    LET h == LatestBlockHeight + 1 IN
    /\ h <= gnfdHeight
    /\ blocks' = blocks \cup {h}
    /\ status' = [c \in Channels |-> [s \in Seqs |->
                     IF pkgHeight[c][s] = h THEN Saved ELSE status[c][s]]]
    /\ UNCHANGED <<chainVars, hash, synced>>

\* UpdateTransactionStatus(id, status): the vote processor writes SelfVoted
\* or AllVoted to a row it read.  The UPDATE names only the id, so the row's
\* current status, whatever it is, is overwritten.
UpdateTransactionStatus(c, s, st) ==
    /\ st \in {SelfVoted, AllVoted}
    /\ status[c][s] # NoRow
    /\ status' = [status EXCEPT ![c][s] = st]
    /\ UNCHANGED <<chainVars, blocks, hash, synced>>

\* UpdateTransactionClaimedTxHash: the hash of a claim broadcast for a row
\* is recorded by id, its status left alone.
UpdateTransactionClaimedTxHash(c, s) ==
    /\ status[c][s] # NoRow
    /\ hash' = [hash EXCEPT ![c][s] = TRUE]
    /\ UNCHANGED <<chainVars, blocks, status, synced>>

\* The assembler's claim of the next sequence of channel c lands on BSC and
\* UpdateTransactionStatusAndClaimedTxHash marks the row Delivered with its
\* hash.  A failure after the claim lands is BscDeliver below.
UpdateTransactionStatusAndClaimedTxHash(c) ==
    LET s == bscRecv[c] IN
    /\ s < sendSeq[c]
    /\ status[c][s] # NoRow
    /\ bscRecv' = [bscRecv EXCEPT ![c] = s + 1]
    /\ status' = [status EXCEPT ![c][s] = Delivered]
    /\ hash' = [hash EXCEPT ![c][s] = TRUE]
    /\ UNCHANGED <<gnfdHeight, sendSeq, pkgHeight, blocks, synced>>

\* Mutant of UpdateBatchTransactionStatusToDelivered: `sequence <= ?`.
UpdateBatchDeliveredUpTo(c) ==
    LET seq == NextDeliverySequence(c) IN
    /\ status' = [d \in Channels |-> [s \in Seqs |->
                     IF s <= seq /\ status[d][s] = AllVoted
                     THEN Delivered ELSE status[d][s]]]
    /\ UNCHANGED <<chainVars, blocks, hash, synced>>

\* UpdateBatchTransactionStatusToDelivered(seq), called with channel c's
\* next delivery sequence on BSC: every all-voted row whose sequence is
\* below seq becomes Delivered.  The WHERE clause does not name a channel.
UpdateBatchTransactionStatusToDelivered(c) ==
    LET seq == NextDeliverySequence(c) IN
    /\ status' = [d \in Channels |-> [s \in Seqs |->
                     IF s < seq /\ status[d][s] = AllVoted
                     THEN Delivered ELSE status[d][s]]]
    /\ UNCHANGED <<chainVars, blocks, hash, synced>>

\* SaveSyncLightBlockTransaction: a light block above the latest synced one
\* is synced to BSC and recorded.
SaveSyncLightBlockTransaction(h) ==
    /\ LatestSyncedHeight < h
    /\ h <= gnfdHeight
    /\ synced' = synced \cup {h}
    /\ UNCHANGED <<chainVars, blocks, status, hash>>

-----------------------------------------------------------------------------
(* The chains.                                                             *)

\* Greenfield produces a block in which some channels emit their next
\* sequence.
GnfdNewBlock ==
    /\ gnfdHeight < MaxHeight
    /\ \E E \in SUBSET {c \in Channels : sendSeq[c] < MaxSeq} :
          /\ gnfdHeight' = gnfdHeight + 1
          /\ pkgHeight' = [c \in Channels |->
                              IF c \in E
                              THEN [pkgHeight[c] EXCEPT ![sendSeq[c]] = gnfdHeight + 1]
                              ELSE pkgHeight[c]]
          /\ sendSeq' = [c \in Channels |->
                            IF c \in E THEN sendSeq[c] + 1 ELSE sendSeq[c]]
    /\ UNCHANGED <<bscRecv, daoVars>>

\* A claim of channel c's next sequence lands on BSC without this
\* relayer's database recording it (another relayer's claim, or ours with
\* the database update lost).
BscDeliver(c) ==
    /\ bscRecv[c] < sendSeq[c]
    /\ bscRecv' = [bscRecv EXCEPT ![c] = @ + 1]
    /\ UNCHANGED <<gnfdHeight, sendSeq, pkgHeight, daoVars>>

Next ==
    \/ SaveBlockAndBatchTransactions
    \/ \E c \in Channels, s \in Seqs :
          \/ \E st \in {SelfVoted, AllVoted} : UpdateTransactionStatus(c, s, st)
          \/ UpdateTransactionClaimedTxHash(c, s)
    \/ \E c \in Channels :
          \/ UpdateTransactionStatusAndClaimedTxHash(c)
          \/ UpdateBatchTransactionStatusToDelivered(c)
          \/ BscDeliver(c)
    \/ \E h \in Heights : SaveSyncLightBlockTransaction(h)
    \/ GnfdNewBlock

Spec == Init /\ [][Next]_vars

-----------------------------------------------------------------------------
\* No relay transaction is skipped: every package Greenfield emitted at or
\* below the latest saved block has its row.  The listener resumes from
\* GetLatestBlock, so a block saved without its transactions would leave
\* them out for good; SaveBlockAndBatchTransactions writes both in one
\* database transaction.
NoPackageSkipped ==
    \A c \in Channels, s \in Seqs :
        pkgHeight[c][s] \in 1 .. LatestBlockHeight => status[c][s] # NoRow

\* A row is Delivered only once BSC has received its sequence on its own
\* channel: neither the claim path nor the batch update marks a package
\* delivered that BSC has not received.
DeliveredOnlyReceived ==
    \A c \in Channels, s \in Seqs :
        status[c][s] = Delivered => s < bscRecv[c]

=============================================================================
