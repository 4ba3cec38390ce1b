# TLA+ verification of greenfield-relayer

This directory models two parts of greenfield-relayer. The first is the BSC → Greenfield oracle-channel relay pipeline. The second is the DAO of the Greenfield → BSC direction. The models are checked with TLC, and their main safety invariants and a refinement are proved with TLAPS. The code they follow is:

- `src/assembler/bsc_assembler.go`: `BSCAssembler`.
- `src/executor/greenfield_executor.go`: `GreenfieldExecutor`, including its validator cache at the level of the race between its two goroutines.
- `src/db/dao/greenfield_dao.go`: `GreenfieldDao`.
- The BSC executor, the BSC package DAO, the listeners, the vote processors and both chains are not under `src/`. They are modelled from `spec.md` as the environment.

## 1. The system

### Parts and how they interact

| Part | Code | State | Operations |
|---|---|---|---|
| Assembler (one per relayer process) | `bsc_assembler.go` | `inturnRelayerSequenceStatus{HasRetrieved, NextDeliverySeq}`, `relayerNonce`, `alertSet`, and the locals of the running `process()` call | `process()`: role resolution, cursor establishment, window end, alert reconciliation, then the claim loop over `processPkgs` and, in turn, calibration |
| Greenfield executor | `greenfield_executor.go` | `validators` (the validator cache) | `QueryCachedLatestValidators`, `UpdateCachedLatestValidatorsLoop`, `GetNonce`, `ClaimPackages`, `GetInturnRelayer` |
| Package store (per relayer) | DAO (not in src) | `bsc_relay_package` rows: status and `claimed_tx_hash` | `GetPackagesByOracleSequence`, `GetLatestOracleSequenceByStatus`, `UpdateBatchPackages*` |
| BSC + listener + vote processor | not in src | emitted oracle sequences and their block times; rows go None → Saved → AllVoted | emission, saving rows without gaps, vote collection |
| Greenfield chain | not in src | receive sequence, account nonces, validator set, who delivered each sequence, in-turn rotation | accept or reject a `MsgClaim` |

Each relayer runs two goroutines:

- The assembler ticker, which calls `process()` once per tick. Passes never overlap.
- The validator-cache refresh ticker.

The relayers do not talk to each other. They meet only on Greenfield: the same receive sequence, and the in-turn rule. The in-turn relayer claims from its own cursor. A stand-by relayer sleeps for the grace period, re-reads the chain, and claims only packages older than the in-turn timeout.

### The hard behaviours

Every one of these can be reached by an interleaving that no unit test writes down.

- **Racing relayers.** A stand-by relayer may deliver what the in-turn relayer's cursor still names.
- **Lost replies.** `ClaimPackages` can fail after the chain applied the claim (the broadcast reply is lost). The relayer then keeps the old nonce and the row stays undelivered.
- **Partial failures.**
  - Calibration stores the nonce and then the sequence read fails.
  - In the stand-by branch the nonce is stored and then a later read fails.
- **Restarts.** All memory is lost while the database is kept.
- **A stale validator cache.** After a validator-set change, every claim fails until the cache is refreshed.
- **The delay alert.** Its clearing rule compares `startSeq` with the greatest flagged sequence.

`PROJECT.json` lists these as hazards, each at the line where it bites.

## 2. The modules

- **`BscAssembler.tla`**: the whole pipeline, for a set `Relayers` of processes. CONSTANTS name the sizes and the config values:
  - `MaxSeq`, `MaxTime`, `RelayInterval`
  - `SequenceUpdateLatency`, `InturnRelayerTimeout`, `TxDelayAlertThreshHold`
  - `MaxValSets`, `MaxFaults`, `MaxCrashes`
- **`MCBscAssembler.tla`**: instantiates it with two relayers `r1`, `r2` that alternate turns.
- **`BscAssemblerProofs.tla`**: the TLAPS proofs, including the refinement proof.
- **`OracleChannel.tla`**: the abstract specification of what the BSC → Greenfield channel promises, with no relayer in it. BSC sends sequences in order (`Send`). Their votes are collected (`Vote(s)`). Greenfield receives the next sequence once, from some relayer, only if it was voted (`Deliver(r)`).
- **`BscAssemblerRefinement.tla`**: the refinement mapping. `sent` is `sendSeq`, `delivered` is `receiveSeq` and `deliverer` is `claimer`. `voted` is `VotedSeqs`, the sequences that some relayer's database holds AllVoted or Delivered. `OracleImplemented == Oracle!Spec`.
- **`ValidatorCache.tla`** (+ `MCValidatorCache.tla`): the validator cache of `GreenfieldExecutor` at the level of machine words.
  - `e.validators` is a slice header with a pointer field (`cachePtr`) and a length field (`cacheLen`).
  - `RefreshTick` and `StoreField(f)` are `UpdateCachedLatestValidatorsLoop`. The assignment at line 278 stores the two fields in either order.
  - `CheckLen`, `LoadPtr` and `LoadLen` are `QueryCachedLatestValidators`: `len(e.validators)` at line 260, then the load of the header at line 261.
  - `UseSnapshot` is the caller in `processPkgs`.
  - In `BscAssembler` the same cache is read and written atomically. This module is the finer view that shows the race.
- **`GreenfieldDao.tla`** (+ `MCGreenfieldDao.tla`, `GreenfieldDaoProofs.tla`): the DAO of the Greenfield → BSC direction over its three tables, for a set `Channels`, sequences `0 .. MaxSeq-1` and Greenfield blocks `1 .. MaxHeight`.
  - A row's status is the `db.TxStatus` code that the SQL compares with: Saved 0, SelfVoted 1, AllVoted 2, Delivered 3. `NoRow` (-1) means the row does not exist.
  - Each DAO write method is one action, called with the arguments its caller derives. Those callers (listener, vote processor, assembler) are not under `src/`.
    - `SaveBlockAndBatchTransactions` saves block `GetLatestBlock + 1` and the rows emitted in it, in one database transaction.
    - `UpdateTransactionStatus`, `UpdateTransactionClaimedTxHash` and `UpdateTransactionStatusAndClaimedTxHash` each update one existing row by id, whatever its status (their WHERE clause names only the id). `UpdateTransactionStatus` may therefore overwrite AllVoted or Delivered with SelfVoted; the order of statuses is the vote processor's.
    - `UpdateTransactionStatusAndClaimedTxHash(c)` is the assembler's call after its claim of channel c's next sequence landed on BSC, so the landing and the write are one step. A claim that lands without the write is `BscDeliver(c)`.
    - `UpdateBatchTransactionStatusToDelivered(c)` is called with channel c's next delivery sequence on BSC.
    - `SaveSyncLightBlockTransaction` records a synced light block.
  - `GnfdNewBlock` and `BscDeliver(c)` are the chains. `BscDeliver(c)` is a claim landing that this database does not record: another relayer's claim, or a failed update.
  - A gorm call that fails changes nothing, so it is a stuttering step.

### State

| Variable | Code |
|---|---|
| `pass[r]` | locals of the running `process()` call: `pc` (Idle, Sleep, Loop, Calibrate), role `inturn`, loop variable `i`, `endSequence` as `end`, wake-up time of the stand-by sleep |
| `hasRetrieved[r]`, `nextDeliverySeq[r]` | `inturnRelayerSequenceStatus` |
| `relayerNonce[r]` | `relayerNonce` |
| `alertSet[r]` | `alertSet` (the has-delay gauge is `alertSet[r] # {}`) |
| `validators[r]` | `GreenfieldExecutor.validators`, as a validator-set version; 0 = empty |
| `pkgStatus[r][s]`, `claimedTxHash[r]` | relayer r's `bsc_relay_package` rows |
| `sendSeq`, `txTime` | BSC's next send sequence and the block times |
| `receiveSeq`, `nonce`, `valSet`, `claimer` | Greenfield's receive sequence, account nonces, validator set, deliverer of each sequence |
| `now` | wall clock, equal to block time |
| `faults`, `crashes` | bounded counts of failures and restarts |

### Actions

One `process()` call is split at the points where another relayer, the chain or the clock can move.

| Action | Code |
|---|---|
| `ProcessInturn(r)` | lines 61–129: role check, grace period, first retrieval of the cursor, latest AllVoted row, alert reconciliation (139–150), loop entry or return |
| `ProcessStandby(r)` | lines 104–107: clear `HasRetrieved`, sleep |
| `StandbyWake(r)` | lines 108–150: re-read the sequence and the nonce; the window ends at BSC's next send sequence |
| `PkgsMissing(r)` | line 158: a gap, so return |
| `NotEnoughVotes(r)` | lines 161–170: delay alert, then the status check fails |
| `StandbyDefers(r)` | lines 172–175: stand-by inside the in-turn timeout |
| `ClaimSucceeded(r)` | lines 176, 197–199 and `processPkgs` 203–245: the chain applies the claim; in-turn marks Delivered and advances the cursor, stand-by records the tx hash; `relayerNonce++` |
| `ClaimFailed(r)` | lines 176–184 and `processPkgs` failures |
| `Calibrate(r)` | lines 185–195: `GetNonceOnNextBlock` then the sequence read, either of which may fail |
| `RefreshValidators(r)` | `UpdateCachedLatestValidatorsLoop` |
| `Restart(r)` | the process restarts (`NewBSCAssembler`) |
| `Tick`, `Emit`, `SavePackage`, `CollectVotes`, `ChangeValidators` | the environment |

`ClaimFailed(r)` has three outcomes:

- the chain rejects the claim;
- a read or the broadcast fails before the chain sees it;
- the chain applies the claim but the reply or the database write is lost.

In each case in-turn goes on to `Calibrate` and stand-by returns the error.

Greenfield accepts a claim when four conditions hold (`ClaimAccepted`):

- the nonce is the account's nonce;
- the sequence is the receive sequence;
- the bitset was built over the current validator set (`UsedValidators`, i.e. `QueryCachedLatestValidators`);
- the sender is in turn, or the in-turn timeout of the package has passed.

The in-turn relayer at time t is `Turns[(t \div RelayInterval) % Len(Turns) + 1]`.

### Abstractions

- Signatures, payloads, hashes and the metrics are left out.
- A failed RPC that changes nothing is a stuttering step, so it is not modelled separately.
- Every fault that changes something is a disjunct of its action, bounded by `MaxFaults`.
- The clock-skew branch (line 86) cannot happen with a clock shared with the chain.

## 3. Runs

Bounds shared by all runs: `RelayInterval = 2`, `SequenceUpdateLatency = 1`, `InturnRelayerTimeout = 1`. Every run has two relayers alternating turns.

| Run (cfg) | Bounds | Checks | Shows |
|---|---|---|---|
| safety (`BscAssemblerSafety.cfg`) | 2 sequences, time 0..4, 1 fault | `TypeOK`, `CursorNotAhead`, `DbAgreesWithChain`, `ClaimedOnlyVoted` | every interleaving of both relayers over two turns, with one rejected claim, lost reply, failed read or half-done calibration |
| alerts (`BscAssemblerAlerts.cfg`) | threshold 1 s, no faults, 1 restart | `AlertClearedOnlyAfterDelivery` | the alert is cleared only after every flagged sequence was delivered, with a process restart (which forgets the alert set and the cursor) at any point |
| liveness (`BscAssemblerLiveness.cfg`) | 1 sequence, time 0..5, 2 validator sets, 1 fault | `AllDelivered` | delivery happens eventually, even after a validator-set change |
| validator_cache_race (`ValidatorCacheRace.cfg`), **violation** | 2 validator sets of lengths 2 and 3, 3 ticks | `ConsistentSnapshot` | a torn read of `e.validators` (see Findings) |
| dao_one_channel (`GreenfieldDaoOneChannel.cfg`) | 1 channel, 3 sequences, 4 blocks | `NoPackageSkipped`, `DeliveredOnlyReceived` | every package of a saved block has its row, and with one channel no row is Delivered before BSC received it |
| dao_two_channels (`GreenfieldDaoTwoChannels.cfg`), **violation** | 2 channels, 2 sequences, 2 blocks | `DeliveredOnlyReceived` | the channel-blind batch update (see Findings) |

Why these bounds are enough:

- **Two turns in time 0..4.** Each relayer is in turn once, so both the in-turn and the stand-by paths run. They race on the same sequence: the stand-by timeout is 1 s, shorter than an interval.
- **Two sequences.** Enough for a cursor that advances, a loop that continues, and a gap.
- **One fault.** Places every failure kind at every point of the pass.
- **The DAO.** 3 sequences over 4 blocks let a block emit none, one or several packages. Rows can then be saved, voted, claimed and batch-delivered in every order, against claims landing from elsewhere.
- **The validator cache.** Two sets of different lengths make a torn header observable.

### Fairness (liveness run only)

Weak fairness is assumed for:

- each relayer's `AssemblerStep`, because the assembler ticker calls `process()` forever;
- `RefreshValidators`, the refresh ticker;
- the clock and BSC emission;
- the listener's `SavePackage` and the vote processor's `CollectVotes`, which the spec treats as eventually catching up.

Faults, restarts and validator changes get no fairness; they may happen or not.

### Mutants

Each property has a plausible bug that TLC catches (`PROJECT.json`, "mutants"):

| Property | Mutant | Bug |
|---|---|---|
| `TypeOK` | `StandbyWakeEndPastSend` | stand-by window one past the next send sequence |
| `CursorNotAhead` | `ClaimFailedBumpsNonce` | `relayerNonce++` before the error check |
| `DbAgreesWithChain` | `ClaimFailedRecordsHash` | tx hash written for a rejected claim |
| `ClaimedOnlyVoted` | `ClaimableWithoutStatus` | status check dropped |
| `AlertClearedOnlyAfterDelivery` | `ReconciledAlertsUpTo` | `>=` instead of `>` |
| `AllDelivered` | `RefreshValidatorsOnce` | cache filled only when empty, so it is never refreshed after a change |
| `NoPackageSkipped` | `SaveBlockThenTransactions` | block and transactions saved outside one database transaction |
| `DeliveredOnlyReceived` | `UpdateBatchDeliveredUpTo` | `sequence <= ?` instead of `<` |

### Findings

- **Torn read of the validator cache** (run validator_cache_race, `greenfield_executor.go:278`). `spec.md` puts the cache under mutual exclusion. The code has no lock: `UpdateCachedLatestValidatorsLoop` assigns `e.validators` while `QueryCachedLatestValidators` reads it (lines 260–261). TLC finds the following in 6 states:
  1. the length field of the new set is stored;
  2. the reader sees a non-zero length;
  3. the reader loads the pointer, which is still nil.

  The assembler then builds the validator bitset over a list no RPC returned. With Go's race semantics, the same thing happens between two non-nil sets.
- **Batch delivery ignores the channel** (run dao_two_channels, `greenfield_dao.go:102`). `UpdateBatchTransactionStatusToDelivered(seq)` updates `sequence < seq and status = 2` across all channels. Called with one channel's next delivery sequence, it marks another channel's all-voted rows Delivered before BSC received them, so they are never claimed. With a single channel the run dao_one_channel finds no violation.

## 4. Proofs (`BscAssemblerProofs.tla`, `GreenfieldDaoProofs.tla`, `OracleChannel.tla`)

All proofs are checked by tlapm for every value of the constants that satisfies `ConstantsAssumption`. That assumption requires:

- a non-empty rotation of relayers;
- natural-number bounds;
- a non-zero interval and a non-zero number of validator sets.

| Theorem | Statement | Argument |
|---|---|---|
| `TypeCorrect` | `Spec => []TypeOK` | one step per action, with lemmas on the pass constructors (`IdlePassType`, `LoopPassType`...), `NextIterationType` and `AcceptedSeqBelowMax` (an accepted claim is for `receiveSeq < MaxSeq`) |
| `CursorNeverAhead` | `Spec => []CursorNotAhead` | `TypeOK /\ CursorNotAhead` is inductive; see below |
| `CursorNeverDecreases` | `Spec => CursorMonotone` | spec invariant 1; see below |
| `DbAgrees` | `Spec => []DbAgreesWithChain` | inductive with `TypeOK`; see below |
| `ClaimsOnlyVoted` | `Spec => []ClaimedOnlyVoted` | needs the strengthening `ClaimerIsRelayer`; see below |
| `AlertClearedOnlyAfterDeliveryHolds` | `Spec => AlertClearedOnlyAfterDelivery` | an action property, from `TypeCorrect` and `CursorNeverAhead`; see below |
| `ReceivedWereVoted` | `Spec => [](Oracle!TypeOK /\ Oracle!ChannelSafe)` | from `Refinement` and `OracleChannel`'s lemma `ChannelSafeHolds` |

The arguments behind the later theorems:

- **`CursorNeverAhead`.**
  - `ChainMonotone`: Greenfield's receive sequence and nonces never decrease.
  - `CursorSources`: every value a step writes into a cursor is the chain's value after the step, or the old value, or 0 after a restart (which also clears `hasRetrieved`).
- **`CursorNeverDecreases`.** While `hasRetrieved` stays true, the 0 case is excluded. The chain values are not behind the cursor, by `CursorNeverAhead`.
- **`DbAgrees`.** `ApplyClaimKeepsPast`: an applied claim is for the receive sequence, so it never rewrites the claimer of an earlier sequence.
- **`ClaimsOnlyVoted`.**
  - The strengthening `ClaimerIsRelayer` says that every delivered sequence has a relayer as claimer. It was checked by TLC before it was proved.
  - `VotedStable`: AllVoted and Delivered rows stay voted.
  - `ChainStep`: the chain moves only by a claim that passed the loop's status check.
- **`AlertClearedOnlyAfterDeliveryHolds`.** `AlertSources` classifies how a step without a restart changes a relayer's alert set. A claim-loop step only adds the sequence it flags (`ObserveDelayGrows`). `process()` reconciles the set against the receive sequence or the relayer's own cursor. Every other step leaves it alone. `ReconciledEmpty`: a reconciliation that empties a non-empty set had every member below the start. The cursor is at or below the receive sequence, by `CursorNeverAhead`.
- **`ChannelSafeHolds`**, a lemma (in `OracleChannel.tla`, assuming `MaxSeq \in Nat`, which `ConstantsAssumption` gives the instance). `TypeOK /\ ChannelSafe` is inductive for the abstract channel. `ReceivedWereVoted` instantiates it through `Oracle` and combines it with `Refinement`, so a safety property proved once of the abstract spec holds of the pipeline.

- **`RowsBelowSendHolds`**, a lemma of `Refinement` (`Spec => []RowsBelowSend`). It follows from the listener's model, which saves only sequences BSC sent. Every row in a relayer's database has a sequence below `sendSeq`. `RowStep` lists the three ways a row changes: None → Saved below `sendSeq`, Saved → AllVoted by `CollectVotes`, and voted → Delivered.
- **`Refinement`** (`Spec => OracleImplemented`). `Init` maps to `Oracle!Init`. Under `TypeOK /\ RowsBelowSend`, a step is classified as follows:
  - `CollectVotes` adds at most one sequence to `VotedSeqs`, below `sendSeq` by `RowsBelowSend`, so it is `Vote` or a stutter;
  - `Emit` is `Send` (`SendStep`);
  - a step that does not move Greenfield leaves `receiveSeq` and `claimer` alone, and `VotedSeqs` too (`VotedSeqsSame`);
  - a step that moves Greenfield is, by `ChainStep`, a claim of `receiveSeq` that passed the status check. It is therefore `Deliver` of a voted sequence.

  The temporal step combines these with `TypeCorrect` and `RowsBelowSendHolds` by PTL.

  No TLC run checks `OracleImplemented`. Its only dependence on `src/` is the status check at line 168, which the safety run checks as `ClaimedOnlyVoted`. Greenfield's in-order, once-only acceptance and the listener's saving of sent sequences are modelled from the spec.

`GreenfieldDaoProofs.tla` holds its proofs under `DaoConstants`: a finite set of channels and natural-number bounds.

- **`TypeCorrect`** (`Spec => []WellFormed`). The types hold, and so does `BlocksPrefix`: the saved blocks are `1 .. k` for some `k <= gnfdHeight`. `TopOfPrefix` shows that `GetLatestBlock` of `1 .. k` is `k`, which turns the CHOOSE into arithmetic.
- **`NoPackageSkippedHolds`** (`Spec => []NoPackageSkipped`). `WellFormed /\ NoPackageSkipped` is inductive, for two reasons:
  - a new Greenfield block emits at a height above every saved block;
  - no write turns a row back into `NoRow`.


TLC alone covers the following:

- **Liveness.** `AllDelivered` depends on fairness and ENABLED, which TLAPS cannot handle here.
- **`ConsistentSnapshot`.** It fails in the code, so there is nothing to prove.
- **`DeliveredOnlyReceived`.** It holds only with one channel (dao_one_channel), and no deployment is limited to one channel, so nothing about it is proved.

## 5. Not modelled, and open points

- **BLS aggregation, the vote table, the vote-pool RPC, key loading, metrics, the reverse direction.** These are pure computation, I/O or out of scope; see `PROJECT.json` "components".
- **The read-only queries of `greenfield_dao.go`.** `GetTransactionsByStatusWithLimit`, `GetLeastSavedTransactionHeight`, `GetTransactionByChannelIdAndSequence` and `GetLatestSequenceByChannelIdAndStatus` are not modelled. Only their callers, which are not under `src/`, decide what is done with their results. 
- **The BSC package DAO.** The assembler calls it, but it is not under `src/`, so its queries are modelled from the spec.
- **The data race on `GreenfieldExecutor.validators`.** `BscAssembler` reads and writes the cache atomically. `ValidatorCache` models the race itself.
- **The stand-by window end.** The stand-by branch ends its window at BSC's next send sequence itself (`bsc_assembler.go:131–135`), where the spec says `next_send − 1`. The model follows the code. The extra iteration reads a missing row and the pass returns at line 158, so nothing is claimed out of order.
