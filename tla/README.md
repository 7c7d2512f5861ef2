# TLA+ models of the Olympus chain engine and key manager

This directory holds TLA+ models of the C++ sources under `src/`:

- `src/mcp/node/chain.cpp`: the chain engine of a DAG ledger.
- `src/mcp/node/chain_state.cpp`: the account-state executor.
- `src/mcp/wallet/key_manager.cpp`: the wallet key manager.

The models are checked with TLC. `PROJECT.json` lists:

- the components and how much of each is modelled;
- every run, with its configuration and expected result;
- the mutants that show each property can fail;
- the source lines each definition translates;
- the findings;
- the hazards of the code.

## 1. The system

### Chain engine (`chain.cpp`)

The engine is single-writer. The caller (the block processor, not in `src/`) calls two things inside a "timeout transaction". It commits between logical units.

**`save_dag_block`.** It runs once per block the validator admitted, in one write transaction:

1. `write_dag_block` stores the block and records `successor[root]` if the root has none yet.
2. It clears the `is_free` flag of the parents and removes them from the `dag_free` index.
3. It asks the Ledger for the best parent, the level and the witnessed level. It passes `calc_level` the best parent only (line 454), so the level is one more than the best parent's level. Spec 4.3 says one more than the highest parent's level.
4. It adds the block as a free tip.
5. The best free tip is the first `dag_free` key: witnessed level descending, then level ascending, then hash ascending.
6. `find_main_chain_changes` walks best parents from that tip back to the main chain. This gives `retreat_mci`. It throws if `retreat_mci` is below `last_stable_mci` (the stable-MCI-retreat check).
7. `update_mci` demotes `main_chain[retreat+1..last_mci]` and asserts that none of those blocks is stable. It then promotes the new path.
8. `update_latest_included_mci` refreshes the five included-MCI bounds (limci). After a retreat it refreshes every descendant of the retreat block, in level order. Otherwise it refreshes only the new block.
9. If the block's `last_stable_block` has an MCI above `last_stable_mci`, `advance_info` is set to that MCI. Before that, an `assert_x` requires the block to still be on the main chain.

**`try_advance`.** While `advance_info.mci > last_stable_mci`, it increments `last_stable_mci` and runs `advance_stable_mci` for that MCI:

1. `search_stable_block` makes a BFS over parents from `main_chain[mci]`. It stops at genesis and at stable blocks.
2. The batch is sorted by (level, hash).
3. For each block, the code executes its transactions and approvals and then calls `set_block_stable`.
4. `set_block_stable` marks the block `fork` when its previous block is a fork, or when `successor[root]` points at another block that is already stable.
5. Otherwise it moves `successor[root]` to the block. For an ok block it updates `dag_account.latest_stable_block`.
6. It sets the MCI, the stable flag and the stable index, then the summary hash and the skip list.
7. After each MCI, `try_advance` persists `last_stable_mci` and rotates the witness list at epoch boundaries (`add_new_witness_list`).

**Executor.** In `advance_stable_mci` (lines 781-866), each link of a stable block is handled in turn:

1. If the transaction already has a receipt, the receipt is reused. The transaction is executed and counted down once, whichever block links it first.
2. Otherwise `chain::execute` builds a fresh `chain_state` and runs the transaction with `Permanence::Committed`.
3. `chain_state::executeTransaction` takes a savepoint (the change-log length) and calls the Executive (`initialize`, `execute`, `go`, `finalize`).
4. Each mutation (`incNonce`, `addBalance`, `subBalance`, `createAccount`) logs an entry that `rollback` can undo.
5. A NotEnoughCash exception is caught and turned into `false`, with no rollback. Any other exception is rolled back and rethrown.
6. `commit` kills dirty empty accounts and stores every dirty one.
7. The loop then stores the receipt: an empty one for InvalidNonce. It records the transaction address and reduces `transaction_unstable_count`.

`save_transaction` stores a transaction before any block linking it is stable, and counts it.

`estimate_gas` binary-searches a gas limit with `Permanence::Reverted` probes.

### Key manager (`key_manager.cpp`)

The key manager holds three pieces of state:

- `m_key_contents`, guarded by `m_key_contents_mutex`;
- `m_unlocked`, guarded by `m_unlocked_mutex`;
- the persistent `key_store`.

Calls come from RPC threads. The constructor loads the store into the map.

- **Create, import, change_password.** These end in `add_or_update_key`. It writes the map under the mutex, then the store outside any lock.
- **`remove`.** It erases from `m_unlocked`, then from the map, then from the store: three separate steps.
- **`unlock`.** It decrypts, then inserts into `m_unlocked`.
- **`authenticate`.** It reads both maps with no lock at all.

### Interactions

- `save_dag_block` and `try_advance` interact through `advance_info`, `last_mci`, `last_stable_mci` and the stable flags.
- `set_block_stable` and `write_dag_block` interact through `successor`.
- Stabilisation feeds the executor and witness rotation.
- The executor and `save_transaction` share the unstable-transaction counter. They write into the same timeout transaction, which commits only between MCIs.
- The key manager is independent of the chain.

## 2. Modules

### `Chain.tla`: DAG writer, main-chain selector, limci pass and stability advancer

Constants:

| Constant | Meaning |
|---|---|
| `NumBlocks` | blocks offered after genesis |
| `Rank` | the hash order |
| `Senders` | block authors |
| `Witnesses` | the witness list |
| `GenesisFrom` | the author of genesis |
| `MaxParents` | the most parents a block may name |
| `SkiplistDivisor` | `mcp::skiplist_divisor`, defined outside `src/` |
| `Finality` | the validator's guarantee, see below |
| `None` | absent value |

Variables and the code state they stand for:

| Variable | Code state |
|---|---|
| `blk` | the `block` column family (parents, author, `previous`, `last_stable_block`) |
| `st` | `block_state` |
| `dagFree` | `dag_free` |
| `mainChain` | `main_chain` |
| `successor` | `successor` |
| `latestStable` | `dag_account.latest_stable_block` |
| `lastMci`, `lastStableMci`, `lastStableIndex`, `advanceMci` | the internal counters and `advance_info.mci` |
| `skiplist` | `skiplist` |
| `minRetrievable` | `m_min_retrievable_mci_internal` |
| `admitted`, `rejected`, `nextBlock` | bookkeeping of the environment |

Actions:

- **`OfferBlock`.** The environment offers block `nextBlock` with any parents (1 to `MaxParents` admitted blocks), any author, any valid `previous` (an earlier block of the same author in its past, or none) and any main-chain block of its past as `last_stable_block`.
  - `SaveOutcome` computes the whole `save_dag_block` (`WriteDagState`, `BestFreeTip`, `NewMcBlocks`/`RetreatBlock`, `UpdateMciState`/`UpdateMainChain`, `UpdateLatestIncluded`).
  - `SaveDagBlock` commits the result and sets `advance_info` as lines 160-164 do.
  - `SaveDagBlockThrows` rolls the transaction back when `Throws` holds. `Throws` is `StableMciRetreat` (line 495), `DemotesStable` (line 524) or `LastStableOffMc` (line 157).
- **`TryAdvanceStep`.** One iteration of the `try_advance` loop. `AdvanceStableMci` folds `SetBlockStable` over `SearchStableBlock(main_chain[mci])`, sorted by (level, `Rank`). `MinRetrievableMci` is lines 380-388: the MCI, in the block states the batch wrote, of the `last_stable_block` of `main_chain[mci]`; `None` stands for the case where the assert at line 387 would fail.
- **Skip list.** `CalSkipListMcis` is `cal_skip_list_mcis` (lines 1111-1125) as the recursive `SkipListFrom`. `SkipListPut` is the skip-list block of `set_block_stable` (1035-1057): for a main-chain block it stores the `main_chain` blocks at those MCIs, when there are any. `skiplist_divisor` is defined outside `src/`; the constant `SkiplistDivisor` stands for it.
- **Read-only query.** `GetMcInfo` is `get_mc_info_from_block_hash` (1165-1200). It gives, for a stable block, the stable index and MCI of the main-chain block at the block's MCI. `mc_timestamp` and `last_summary_mci` are left out.
- **Ledger.** `DetermineBestParent` and `CalcWitnessedLevel` are not in `src/`. They are modelled from spec 4.3 and marked `spec_modelled` in the map, as is `Majority`: the live code reads `majority_of_witnesses` from `witness_param`, which is defined outside `src/` (the formula at line 304 is inside `#if 0`). `CalcLevel` follows the call at line 455: `calc_level` receives only `best_pblock_hash`, and the model takes its result as that parent's level plus one.

What is left out of `Chain.tla`, and why:

- Transaction and approve execution inside a batch (transactions are in `ChainState`), and summaries. None of them feeds back into the DAG state modelled here.
- Witness-list epochs: one epoch with a fixed witness list.
- A throw is modelled as the rolled-back transaction followed by a restart. `init` reloads `last_mci`, `last_stable_mci` and `advance_info` from the store. The in-memory counters updated before the throw are discarded.

**`Finality`.** In the real system the external validator only admits a block whose `last_stable_block` is really stable. Its stability claim therefore never leaves the main chain, and no later block retreats below it.

- With `Finality = FALSE` the model admits any block that passes the code's own checks. This is where the code's checks alone are put to the test.
- With `Finality = TRUE`, `ValidatorAccepts` adds the validator's guarantee: the claim is on the main chain and no retreat goes below the pending `advance_info.mci`.

### `ChainState.tla`: execution of links and approves at stabilisation, witness rotation, and the saves

Constants:

| Constant | Meaning |
|---|---|
| `Accts` | account addresses |
| `TxIds` | transaction hashes |
| `Tx` | each transaction's `from`, `to`, `value` and `nonce` |
| `Genesis` | the account states before the first MCI |
| `Mcis` | the links of each stable MCI, in stable order |
| `MaxFaults` | bound on crashes and internal exceptions |
| `Aps`, `Ap` | approve hashes, and each approve's sender, epoch and VRF output |
| `McApproves` | the approves of each stable MCI, in stable order |
| `WitnessCount`, `InitialWitnesses`, `EpochPeriod` | `witness_count`, the genesis witness list, `epoch_period` |

Variables and the code state they stand for:

| Variable | Code state |
|---|---|
| `accountState` | `latest_account_state` |
| `cache`, `changeLog` | `m_cache` (balance, nonce, dirty flag) and `m_changeLog` |
| `receipt` | `transaction_receipt` (outcome only) |
| `saved`, `unstableCount`, `txCount`, `accountNonce` | the transaction column and the counters `save_transaction` writes |
| `mci`, `idx` | `m_last_stable_mci_internal` and the link position |
| `sp`, `spCache` | the Executive's savepoint, and the cache when it was taken (a history variable for the rollback check) |
| `durable` | what the last commit of the timeout transaction holds |
| `apSaved`, `apReceipt`, `apUnstable`, `aidx` | stored approves (and `epoch_approves`), approve receipts, `approve_unstable_count`, the approve position |
| `vrfOutputs`, `witnessParam`, `lastStableEpoch` | `vrf_outputs`, the published `witness_param` lists, `m_last_stable_epoch` |

The `chain_state` operations are pure operators on `[c |-> cache, l |-> log]`:

- `IncNonce`, `AddBalance`, `SubBalance`, `TransferBalance`, `CreateAccount`;
- `Undo` (one iteration of `rollback`'s switch) and the RECURSIVE `Rollback`;
- `Commit`.

The actions:

- `SaveTransaction`;
- `LinkReused`;
- `LinkInvalidNonce` and `LinkNotEnoughCash` (the two ways `initialize` throws);
- `LinkExecute` (`execute`: nonce bump, savepoint, value transfer);
- `GoOk`, `GoHalt` (exceptional halt, rolled back to the Executive's savepoint) and `GoFault` (an internal exception, rethrown out of `try_advance`);
- `Crash`;
- `SaveApprove`, `ApproveReused` and `ApproveExecute` (the approves loop, 869-924: count down, receipt, and the VRF output collected only when `ap.epoch == epoch(mci)`);
- `FinishMci`: `last_stable_mci` is put, `AddNewWitnessList` rotates (elect the top `witness_count` outputs of the previous epoch, else republish the current list), and the timeout transaction may commit.

The model runs an MCI's links and then its approves. The code alternates them block by block. The two loops share no state, so the order only matters for where a crash can fall, and a crash anywhere loses the whole uncommitted MCI either way.

`GoFault` and `Crash` lose the uncommitted work, and `Reload` is `chain::init`'s reload. That includes `init_vrf_outputs` (`InitVrfOutputs`) and `m_last_stable_epoch`.

The Executive is not under `src/`. It is modelled from spec 4.7, with gas priced at zero, so the value is the whole cost. Code, storage and storage roots are left out: the model has no contract state.

A crash is allowed anywhere, up to `MaxFaults` times. The model assumes that an exception out of `try_advance` ends the process, so the next start reloads from the store. The mutant `GoFaultSkipsMci` shows what recovery inside the running process would do: the MCI being processed when the exception was thrown is skipped (hazard at line 371).

### `ExecLedger.tla`: what execution promises

`ExecLedger` is the abstract specification:

- a link without a receipt is applied in one step: invalid, not-enough-cash, ok (value moved, nonce consumed) or failed (nonce consumed);
- a link with a receipt is reused;
- work since the last checkpoint can be lost.

`ChainState` instantiates it as `Abstract` with a refinement mapping:

- absent and killed accounts map to the zero account;
- the checkpoint is `durable`.

`RefinesExecLedger == Abstract!Spec` is checked as a `PROPERTY`.

### `StableLedger.tla`: what the stability advancer promises

`StableLedger` is the abstract specification of stabilisation. It has no main chain, levels, hashes or fork marks:

- `Admit(b, P)`: a block joins the DAG, naming known blocks as its predecessors (parents and previous block);
- `Stabilise(top)`: the unstable past of one block (`Closure`) is appended to the ledger as one batch, in some order in which every block follows its predecessors (`Topological`);
- nothing already in the ledger changes.

`Chain` instantiates it as `Ledger` with a refinement mapping:

- `preds[b]` is `blk[b].parents` plus `blk[b].previous`;
- `batches[m]`, for m up to `last_stable_mci`, is `StableBatch(m)`: the blocks stabilised at MCI m, by stable index.

A committed `save_dag_block` is `Admit`, a rejected one is a stuttering step, and a `try_advance` iteration is `Stabilise(main_chain[mci])`. `RefinesStableLedger == Ledger!Spec` is checked as a `PROPERTY` in `chain_safety` at 4 blocks. The 5-block `chain_level_order` instance, whose batch order is not topological, checks only `StableIndexOrder`.

### `EstimateGas.tla`: the gas search of `estimate_gas`

The variables are the loop's `lowerBound`, `upperBound` and `good`, and the inputs: the caller's `maxGas`, the intrinsic gas `base`, and the gas `need` that the call requires.

`Init` enumerates every input up to `GasLimit`. Each probe's execution is abstracted to its outcome:

- below `base`, `initialize` throws, and the catch returns `(0, false)`;
- below `need`, the probe ends in OutOfGas;
- otherwise the probe succeeds.

### `KeyManager.tla`: the key manager

Each thread runs one call at a time; `pc[t]` is its next step. A step is:

- one critical section (no code path holds two mutexes, so each is atomic);
- one `key_store` write; or
- one unguarded read.

Key contents are abstracted to the password they are encrypted under, so `decrypt_prv` succeeds exactly when the password matches.

- `Restart` models a crash at any point followed by the constructor.
- `authenticate`'s `m_unlocked[account]` on an absent key inserts a zero secret (`"Zero"`). `authenticate` reads without locks, which is a data race and undefined behaviour. The model takes the outcome an ordinary build produces: each read sees the map as it is at that step.

The action table is in `PROJECT.json` (`map`).

## 3. Runs

| Run | Config | Expect | What it shows |
|---|---|---|---|
| `chain_safety` | `MCChain.cfg` | pass | 4 blocks, 2 authors, both witnesses, up to 2 parents, any `previous`, any stability claim, `Finality = FALSE`. The main chain is the best-parent path to the best free tip (`MainChainIsBestParentPath`). `dag_free` is the set of childless blocks (`FreeTipsAreChildless`). The stable set is exactly the past of `main_chain[last_stable_mci]` (`StableSetIsPastOfLastStable`). Stable indexes are 1..n in parent-before-child order (`StableIndexOrder`). At most one ok stable block per root, and every fork has a reason (`ForkDetection`). Every stable main-chain block's skip list holds the main-chain blocks at m - d^k for every power d^k dividing its MCI m, each stable (`SkipListMatchesReference`). `get_mc_info_from_block_hash` answers for every stable block but genesis, off-main ones included, without tripping its asserts (`McInfoOfStableBlocks`). Every unstable off-main block's included-MCI bounds equal a from-scratch recomputation (`IncludedMciFresh`). Stability is final (`StableIsFinal`). The stable batches implement `StableLedger` (`RefinesStableLedger`). The cfg's `VIEW MCSafetyView` leaves out the stored `last_stable_block` and `min_retrievable_mci`. Nothing else is computed from them, and no property of this run reads them. Without the view the run would reach 1.2M states. About 221k states, about 2 minutes. |
| `chain_claims_liveness` | `MCChainFinal.cfg` | pass | With `Finality = TRUE` and weak fairness of `TryAdvanceStep`, every MCI that `advance_info` records is eventually stable, unless a later block lowers `advance_info` first (`ClaimedMciBecomesStable`). 3 blocks: liveness checking at 4 blocks takes over 15 minutes. At 4 blocks the form without the exception fails: block 3 claims MCI 2, block 4 claims MCI 1, and line 160 compares the claim with `last_stable_mci` instead of the pending target, so `advance_info` drops to 1 and MCI 2 waits for a new claim. |
| `chain_level_order` | `MCChainLevelOrder.cfg` | violation | 5 blocks, one witness. `MCFixedAuthors` fixes each block's author and allows no `previous`; it only removes behaviours. Blocks 1 and 2 (non-witness, 2 on 1) and 3 (witness, on genesis) are followed by block 4 on {2, 3}. Its best parent is 3 (higher witnessed level), so its level is 2, the level of block 2. Block 5 claims MCI 2, and the batch {1, 4, 2}, sorted by (level, hash), stabilises 4 before its parent 2 (`StableIndexOrder`). In the code the assert that the parent's summary exists (line 1030) fails. About 15k states, 30 s. |
| `exec_safety` | `MCChainState.cfg` | pass | The run uses five transfers over two MCIs: one beyond alice's balance, one that empties it, one creating an account, one reusing a consumed nonce, and one with zero value from a non-existent sender to an existing empty account. One transaction is linked twice. Every VM outcome, up to two crashes or internal exceptions, and every commit point are explored. The stored states equal genesis plus the receipts (`LedgerMatchesReceipts`). Rollback restores the state at each savepoint (`RollbackRestoresSavepoint`). The unstable count is exact (`UnstableCountExact`). Every link gets a receipt (`AllLinksExecuted`). The executor implements `ExecLedger` (`RefinesExecLedger`). Five approves over three one-MCI epochs, with `witness_count` 2, give both branches of the rotation: an election and a fallback, for missing outputs and for too few. One approve is linked twice, and one becomes stable an epoch late. Every published witness list is the one the stable DAG determines, restarts included (`RotationMatchesReference`). About 78k states, 70 s. |
| `exec_rotation_restart` | `MCChainStateRotation.cfg` | violation | `MCApFuture` makes aC an epoch-2 approve that is stable at MCI 1, in epoch 1. The running node skips its output (line 910). After a restart in epoch 2, `init_vrf_outputs` (line 358) counts it, because it applies no `ap.epoch == epoch(mci)` filter. The restarted node elects {alice, dave} for epoch 4; a node that never stopped keeps {carol, bob}. The comment at 906-907 says such approves reach the loop. Whether validation (outside `src/`) admits them decides whether this can split consensus. |
| `exec_nocash_nonce` | `MCChainStateNoCash.cfg` | violation | A NotEnoughCash transaction does not consume its nonce (`NotEnoughCashConsumesNonce`). `executeTransaction` swallows the exception, so the nonce write at chain.cpp:826 is dead code. Spec 4.7 and spec scenario 4 expect the nonce advanced. |
| `gas_estimate` | `EstimateGas.cfg` | pass | The loop always ends (`EstimateTerminates`). It returns the least succeeding gas, or the cap not found (`EstimateIsLeastGas`), for every input up to 12 except a need equal to the cap. |
| `gas_cap_not_found` | `EstimateGasCap.cfg` | violation | A call that needs exactly `min(_maxGas, tx_max_gas)` is reported not found, because the cap is never probed (`CapSufficesIsFound`, line 1281). |
| `keys_serial` | `KeyManagerSerial.cfg` | pass | One caller, two accounts, two passwords, crashes anywhere. Between calls the map equals the store; no removed account is unlocked; every unlocked secret is the real key. |
| `keys_lost_update` | `KeyManagerLostUpdate.cfg` | violation | Two threads: concurrent `add_or_update_key` calls leave memory and store disagreeing. |
| `keys_removed_unlocked` | `KeyManagerRemovedUnlocked.cfg` | violation | Two threads: an `unlock` racing a `remove` leaves the removed account's key unlocked. |
| `keys_zero_secret` | `KeyManagerZeroSecret.cfg` | violation | Two threads: `lock` racing `authenticate` inserts and returns a zero secret. |

Every property of a passing run has a mutant in `PROJECT.json`. The mutant is a plausible bug in the mapped code, and TLC finds the property violated under that run's configuration.

## 4. Bounds, and why they are enough

**Four blocks, two authors, two parents.** This is the smallest bound in which each of these happens:

- a main-chain retreat (a later block wins by witnessed level, or by a lower level);
- a retreat that the stable-MCI check refuses;
- two blocks with one root (a fork), stabilised in one batch or across MCIs;
- an off-main block stabilised with a main-chain block;
- an included-MCI refresh after a retreat.

The `Rank` permutation `<<3, 1, 4, 2>>` makes the hash order differ from the arrival order. `SkiplistDivisor = 2` gives MCI 2 a one-entry skip list and MCIs 1 and 3 none. The second power (MCI 4) would need a sixth block to be claimed stable, which the run cannot afford, so only the first step of the `cal_skip_list_mcis` loop meets the reference in this run.

`min_retrievable_mci` is modelled but no run checks a property of it. A retreat between a block's `last_stable_block` claim and the claim's stabilisation needs four blocks, where the stored claims make `chain_safety` reach 1.2M states. That is beyond a run's budget. An invariant that the claimed block is still a stable main-chain block at stabilisation held when checked once at that size (hazard at line 387).

Five blocks are needed for a stable batch with two unstable levels below the main-chain block. The full environment at 5 blocks does not converge within 15 minutes. `chain_level_order` therefore checks 5 blocks with one witness, fixed authors and no `previous`.

**Executor.** The run has four accounts:

- alice is funded;
- bob exists and is empty, like a precompiled account;
- carol and dave do not exist.

These give every branch of `addBalance` and `incNonce`: touch, create and plain. Five transactions give every receipt kind and a duplicate link. Two MCIs give a commit point, and a crash that loses one or two MCIs. Two faults allow a crash during the retry. `epoch_period` 1 makes each MCI an epoch, so three MCIs give rotation at three boundaries, including one whose outputs a restart must rebuild. The branch for epoch 0 is not reached, because the first modelled MCI is 1.

**Gas search.** Every intrinsic gas, cap and need up to 12, with `tx_max_gas` 10. This includes empty intervals, caps below the intrinsic gas, and needs above the cap.

**Key manager.** One account gives every race on a single key, and two passwords distinguish key contents. The serial run uses two accounts.

## 5. Fairness

`FairSpec` assumes weak fairness of `TryAdvanceStep` only. The block processor calls `try_advance` after processing blocks, and the loop runs until `advance_info.mci` is reached (lines 369-402). No fairness is assumed for block arrival: blocks may stop coming.

`ChainState`'s `FairSpec` assumes weak fairness of its progress steps: saves, link steps, `go` outcomes and `FinishMci`. Crashes and internal exceptions get no fairness, and they are bounded. The loop is the writer thread's own code and never waits on another thread.

`EstimateGas` assumes weak fairness of its loop: it is straight-line code on the caller's thread.

The key manager runs have no liveness property. No call can block: there is no nested locking.

## 6. Plan

Modules are ordered by dependency, and each has a pass run and mutants.

1. **Done.** `Chain` (writer, main chain, limci, stability) and `KeyManager`; `ChainState` with `ExecLedger` and its refinement; `EstimateGas`.
2. **A crash/restart model of the chain engine.** Split in-memory counters from the store. Model the timeout-transaction commit per MCI and `init`'s reload. Check that a throw after `update_mci` (line 564), or in `advance_stable_mci` after line 371, does not leave memory ahead of the store for later calls. Hazards at chain.cpp:564, 371, 90.
3. **Done.** A 5-block stabilisation run (`chain_level_order`). It found the level divergence.
4. **Done.** The approves loop, `save_approve` and witness rotation, in `ChainState`.
5. **Restart-consistent rotation.** Check a filtered `init_vrf_outputs` (keeping only approves whose first stable MCI is in their epoch) against `RotationMatchesReference` with `MCApFuture`.
6. **Done.** `cal_skip_list_mcis` as an operator, checked against a reference definition through the stored skip lists.
7. **Done.** The abstract `StableLedger` specification, and `Chain`'s refinement of it (`RefinesStableLedger`).
8. **Done.** `min_retrievable_mci` (chain.cpp 380-388) and the `last_stable_block` it reads. No run checks a property of it; see section 4.

## 7. Not modelled

- **Out of TLC's reach, or pure I/O:** the EVM, precompiles, RLP, tries, Keccak summaries, the backup file of the key manager, and logging.
- **Read-only getters** change no state. The counter getters return what `update_cache` copied. `update_cache` is called by `init` and by the block processor outside `src/`, so readers of the cache are not modelled.
- **`update_cache`** publishes internal counters to readers after commit. Readers are not modelled.
- **Executor paths outside stabilisation:** `Permanence::Reverted` and `Uncommitted` executions (calls and the probes of `estimate_gas`, abstracted to their outcome), and `setNonce`, `setBalance` and `kill`, which only the Executive calls. The storage and code journal (`setStorage`, `clearStorage`, `setCode` and the `Storage`, `StorageRoot` and `Code` cases of `rollback`) is also left out. Only the EVM, through the Executive, writes storage or code. Their meaning lives in `account_state`, which is not under `src/`. The transfers of `exec_safety` never reach them, and a contract account with a storage slot would more than triple that run's state space.
- **Not checked by a run:** with `Finality = FALSE`, a block whose best tip retreats below a pending `advance_info.mci` (but not below `last_stable_mci`) is admitted. `try_advance` is then left a target with no `main_chain` entry (assert at line 740). The spec states no validator rule that excludes this. TLC reaches it at four blocks; it is not among the runs.
- **Not checked by a run:** `set_block_stable` writes the stabilising MCI into off-main blocks' `main_chain_index` (line 1003). Spec section 3 reserves the field for main-chain blocks. This divergence is not among the runs: the code depends on it, since `get_mc_info_from_block_hash` finds an off-main block's main-chain block through it. `McInfoOfStableBlocks` fails under the mutant `SetBlockStableMcOnlyMci`, which follows the spec.
