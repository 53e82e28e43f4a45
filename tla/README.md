# A TLA+ model of zisk_eth_guest

This directory holds TLA+ specifications of the stateless block verifier in
`cpp-guest/` and of the programs around it, TLC configurations that check them
on small instances, and TLAPS proofs of the properties that matter most.
`PROJECT.json` maps every definition to the source lines it models and lists
the runs, the mutants that show each property can fail, the hazards and the
theorems.

To check a run: `tlc -config StateDB_create.cfg MCStateDB`. To check the
proofs: `tlapm M.tla` for `JournalProofs`, `StateDBOps`, `StateDBFrames`,
`StateDBProofs`, `BlockAccessListOps`, `BlockAccessListFrames` and
`BlockAccessListProofs`.

## The system

| Part | Where | What it does |
|---|---|---|
| State database | `cpp-guest/src/zisk_state_db.cpp` | executes the block: transactions, system calls, EVM frames, host operations |
| Tables and journal | `accounts.cpp`, `storages.cpp`, `transient_storage.cpp`, `warm_keys.hpp`, `journal.cpp` | rows with their per-transaction bookkeeping; undo of failed frames |
| Block access list | `block_access_list.{hpp,cpp}` | EIP-7928: what each transaction accessed and changed |
| Code and memory | `contracts.*`, `tx_arena.hpp`, `chunked_vector.hpp`, `analysis_cache.hpp` | deployed code, the per-transaction arena, the cache of code analyses |
| Interpreter | `src/zevm/` | the EVM (or evmone), which calls the state database as its host |
| Roots and headers | `state_root.cpp`, `mpt.cpp`, `run.cpp`, `previous_blocks.cpp`, `consensus_info.cpp` | old and new state root, header rules, public output |
| Byte formats | `transactions.cpp`, `rlp.cpp`, `ssz.cpp`, `receipt.cpp`, `new_payload_request.cpp` | decoding the input, encoding what is hashed |
| Runtime | `cpp-guest/zisk/` | the zkVM's entry point, allocator and accelerators |
| Execution extension | `reth-zisk-exex/src/` | a node that proves every new payload: payload tap, pipeline, prover client, signer, beacon client |
| Input generator | `rust-input-gen/src/` | builds the guest's input from an RPC node |
| Fixture bridge | `eest-witness-gen/src/` | builds inputs from test fixtures |
| Proof engine | `proof-engine/src/` | verifies proofs for the beacon node |
| Tooling | `scripts/`, `proof-stats/` | follows the chain with the guest; collects proof timings |

The parts meet in three places. The interpreter calls the state database
(`evmc::Host`), which calls back into the interpreter for every nested frame.
The input generator and the extension write the binary input that the guest
reads. The extension hands the input to a prover, signs the proof and gives it
to the beacon node, which asks the proof engine to verify it.

## Modules

| Module | Models |
|---|---|
| `Journal` | the tables that rollback restores, the raw writers, the journal entries, one iteration of `Journal::rollback` |
| `StateDB` | `ZiskStateDB`: one action per host operation and per step of the block |
| `MCStateDB` | instances of `StateDB` for TLC |
| `Pipeline` | the prover pipeline of the extension: payload sources, event loop, jobs, coordinator |
| `MCPipeline` | instances of `Pipeline` for TLC |
| `EagerAccessList` | what a block access list promises: the state compared at the end of every index |
| `BlockAccessList` | how the code records it: periods opened by the first write, pending accesses, the final pass |
| `MCBlockAccessList` | instances of `BlockAccessList` for TLC |
| `JournalProofs` | lemmas: undoing an entry gives back the tables it was made from; a chained journal stays chained |
| `StateDBOps` | the inductive invariant; the shapes of step; the host operations that open no frame preserve it |
| `StateDBFrames` | opening a frame, returning from it and rolling it back preserve it |
| `StateDBProofs` | the transactions and the rest of the block preserve it; the theorems |
| `BlockAccessListOps` | the inductive invariant of the access list; the shapes of step that preserve it and refine the eager list |
| `BlockAccessListFrames` | the steps inside a frame and its end have these shapes |
| `BlockAccessListProofs` | so do the steps of the block; the theorems, the refinement among them |

### `Journal` and `StateDB`

The tables are one record `db`: balances, nonces, code hashes and
`last_tx_idx` of account rows; values and `last_tx_idx` of storage rows; warmth
of keys without a row; the transient map; the set of accounts pending
destruction. `tx_original`, `created` (`created_this_tx_idx_`), `wiped`
(`storage_wiped_idx_`) and `logs` are the state that rollback does not restore
through the journal. `frames` is the C++ call stack: one record per live frame
with its checkpoint.

Two kinds of history are kept and never read by an action's guard or by the
values it writes: `pre` in a journal entry and `saved` in a frame are the tables when the entry
was made and when the checkpoint was taken; `txStart` and `supply` are the
tables when the transaction began and the ether there should be. The
properties are stated with them.

`phase` says what runs: `idle` between transactions, `start` before the
top-level frame, `run` while the top frame runs, `rollback` inside
`Journal::rollback`, `settle` after the top-level frame. `stage` is the part of
`execute_block` (system calls before, transactions, withdrawals and system
calls after).

The EVM is external. It is modelled by what it may ask of its host: it
accesses a slot or an account before it uses it, sends value only from an
account that has it, runs nothing in an account without code, and ends the
frame at SELFDESTRUCT. The constant `Ops` selects which host operations a run
exercises, so that each run can be deep in the ones it is about.

What is abstracted:

- A row's dirty overlay and its original are one current value.
- A transient key is its owner; a code hash is a model value.
- Accesses that change nothing (a warm account, a call of a precompile without
  value) are not steps.
- `BALANCE`-like reads of a precompile touch its row without a journal entry.
  Nothing reads that row's `last_tx_idx` (`access_account` answers before), so
  the touch is left out.
- `clear_account_for_selfdestruct` writes journal entries that the next
  `reset_tx_arena` drops unread; they are left out.
- System contracts create and destroy nothing (the code relies on it, see the
  comment in `system_call`), so a system call does not either.
- Gas amounts are left out: a frame may fail wherever a charge is made, the
  refund and the tip are any amounts that fit in what was paid up front.
- The EIP-7702 authorization list, delegated accounts and forks before
  Shanghai are left out.

### `Pipeline`

`payloads` and `events` are the two inputs of the loop in `Pipeline::run`; its
select takes either, so an event may be handled after a payload that was sent
later. `current` and `started` are the fields of the same names. `jobs` are the
spawned tasks in order; `pc` is where a task is in `run_job` (down to the calls
of `submit_when_free`, `push_input` and `wait`), and every await is a place
where anything else may run. A select with two ready branches is a choice: the
reply (`JobPushed`, `JobWait`) and the token (`JobToken`) are actions of their
own. What the coordinator does with a call (`CoordinatorTakes`,
`CoordinatorHasInput`) and its reply are separate steps, so a job may hold the
worker before it knows, and a call may fail (`JobCallFails`) although it was
served.
`worker` and `remote` are the coordinator's side. `early`, `added` and
`canonical` are history.

External, and modelled by what the code can tell apart: the engine (it executes
a block after its parent, with or without a newPayload, and commits any executed
block as head), the coordinator (one job at a time, refuses the next as busy)
and the beacon node. Deadlines (36 s for the parent, 12 s for execution, 20 s of
busy retries, 24 s for the beacon root) may pass whenever the wait they limit
goes on. The calls to the coordinator have no deadline; their replies come when
they come. `Faults` says which errors a run allows.

Left out: witness and emulate modes, `compare_exec`, the timing report (only its
`executed` mark matters, and the eviction of timelines beyond 64 is not
modelled), lag of the engine's broadcast stream, signatures and byte formats.

### `EagerAccessList` and `BlockAccessList`

A *cell* is one field of an account row (balance, nonce, code hash) or the
value of a storage row; a row's cells share its `accessed` flag and its open
`period`. `EagerAccessList` says which changes a block owes: one for each cell
and each block access index at whose end the cell differs from its value at the
index's start. The code never compares the state: the first write of a row in
an index closes the row's old period and opens the current one (`Open`), and
`build_block_access_list_hash` closes what is still open. The refinement
mapping reads the eager list off that state: the start of the index is `pre`
for a row opened in it and the current value otherwise, and a period left open
by an earlier index already counts as a change (`Owed`).

`Touch(reads, writes, new)` is the common part of every host callback: it
commits the pending access, lists what it loads, opens what it writes. The
actions follow the order in which the interpreter makes its callbacks and
charges, since that order decides what is listed: `op` is the account opcode
the interpreter is in the middle of, a charge that fails makes it `halt`.
`EndFrame` is `run_frame` returning with what its caller does next; a rollback
restores account fields through the writers that open a period and slots past
them, as `Journal::rollback` does. `loaded` is history. The values of a cell
are any small set: a transfer or a write may put any of them, so nothing rests
on amounts.

Left out: EIP-7702 authorizations, addresses without a row, the sorted links of
the final pass and its item limit, the RLP encoding.

## Runs

| Run | Instance | Shows |
|---|---|---|
| `statedb_storage` | two transactions or system calls, depth 3, journal of 7, an account, a slot, a key without a row, access lists | rollback is exact for warmth and storage; `tx_original` of a warm slot is its value at the start of the transaction; no row is warm before a transaction touches it |
| `statedb_transient` | one transaction or system call, depth 3, journal of 7, Amsterdam | rollback is exact for the transient map and transfers; checkpoints and log counts nest; a failed transaction leaves nothing of its execution in the tables or in its logs |
| `statedb_create` | one Amsterdam transaction, depth 3, journal of 14, nonce limit 2, a precompile | rollback is exact through creation and destruction; nested creations are anchored after the bump; only accounts that were empty are destroyed; ether is conserved; no storage without an account |
| `statedb_destroy` | two Shanghai transactions, depth 3, journal of 10 | the same where any contract may be destroyed and created again; types |
| `statedb_top_create_warmth` | one creation transaction | violation, see Findings |
| `pipeline_sources` | two siblings (one invalid) and a child, tap and executed blocks, channel of 1, `started` of 2, one forkchoice update | one job per block, one live job, dropped payloads made up for; types |
| `pipeline_reorg` | the siblings, executed blocks only, streamed inputs, two forkchoice updates, no failures, uploads and proofs that may never end | a discarded proof is not published; the worker is never left with an abandoned job; an unwanted proof is cancelled at the coordinator |
| `pipeline_faults` | a block and its child from Lighthouse, every kind of failure and deadline | if every call to the coordinator returns, every job ends |
| `pipeline_early_child` | a block and its child, one forkchoice update | violation, see Findings |
| `bal_tx` | two accounts, a slot, balances, one transaction between the two system indices, no nested frames | the lazy list implements the eager one, through transfers and self-destructions; change lists are in order; rows are whole; nothing unpaid is listed; types |
| `bal_frames` | nonces, no transaction, frames nested once | the same through nested calls, creations and rollbacks |
| `bal_depth` | nonces, one transaction | violation, see Findings |

The bounds. Depth 3 gives a frame, one nested in it and one nested in that: a
rollback of the middle one undoes a frame that returned and leaves one that
goes on, which is every case of nesting. The journal bounds let each frame
write, and the longest one (14) a nested creation in a creation. Two
transactions are enough for what one leaves to the next (`last_tx_idx`,
`tx_original`, `wiped`). The nonce limit is 2 instead of 2^64-1, so the limit
is reached. `View` merges states between transactions that differ only in what
the next transaction resets before reading it. For the pipeline, two blocks
give a job and the one that supersedes it; siblings are needed for reorgs and
for a block that arrives at the height in flight. The caps 64 of the channel and
of `started` become 1 and 2, so that both overflow; `started` must hold the
siblings of one height, as 64 does in practice. For the access list, three
indices let a period stay open over an index and be closed by a write or by the
final pass; two values let a cell change and change back; a depth limit of 0 or
1 is reached, as 1024 would be. A block that is built has nothing left to do,
so its runs do not check deadlock.

Fairness. Only `Pipeline` has liveness properties. `JobFairness` is weak
fairness of the steps a job takes by itself: the runtime polls a task that can
proceed, and the deadlines of its own waits pass (36 s for the parent, 12 s for
execution, 24 s for the beacon root, 30 s for every request of the beacon
client). No failure is fair: nothing ends because a call happens to fail.

That calls to the coordinator return is an assumption about the coordinator and
the network, and the code does not ensure it: the channel is opened without a
deadline (`prover.rs:119`), and `job_request` (185) and `cancel_job` (217, 356)
are awaited outside any select. A job whose `job_request` is never answered
cannot be cancelled and never ends. The assumption is stated where it is used.
`CancelSpec` asks it of `job_request` and `cancel_job` only, so `WorkerFreed`
leans neither on the upload nor on the proof ending. `FairSpec` asks it of every
call (`CallsReturn`), and that the worker ends a job it runs; it adds strong
fairness of giving up, since a job that meets the busy answer again and again
runs out of its 20 s. A job that was accepted and lost its client before the
input was sent may hold the worker for ever: nothing is assumed to free it.

## Proofs

`RollbackExact` (when the rollback loop reaches its checkpoint, the tables are
those of the checkpoint) is not inductive: it says nothing of a state in which
no rollback runs. `Inv` adds what makes it so: the journal is *chained*. Entry
`k`, undone from the tables the next entry was made from (the last one from the
current tables), leads to the tables it was made from; and every live frame's
checkpoint is a marker made from the tables that frame saved.

- `JournalProofs` proves that each kind of entry undoes the write logged with
  it (`UndoNonce`, ..., `UndoMarker`), that logging an entry before its write
  keeps the chain (`Push` and its instances), and that undoing the last entry
  does (`Pop`).
- `StateDBOps`, `StateDBFrames` and `StateDBProofs` prove one lemma per action
  that it preserves `Inv`, from three shapes of step: a host operation (`HostStep`), a push (`PushFrame`,
  `FirstFrame`) and a pop (`PopFrame`) of a frame.
- `TypeCorrect`, `RollbackIsExact` and `CheckpointsAreNested` follow for every
  set of accounts, slots, keys and values, every fork and every bound, from
  `JournalAssumption` and `StateDBAssumption`.

`CheckpointsNest` orders every pair of frames, not only neighbours: a rollback
of the top frame sets the log count back to its own, and every outer frame's
must be below that.

The access list. `LazyListIsEager` is a refinement for all constants:
`Spec => Eager!Spec`. A step within an index must leave the start values and
the owed changes alone, which holds if every value it changes lies in a row
that is open in this index afterwards (`Opens`). For a write through the hooks
that is immediate. Two writes bypass them, and the invariant is what they need
(`Bypasses`): wherever the current value differs from one that a live frame
would restore, the row has been opened in this index; and a non-zero slot of an
account created in this transaction has been opened in it, so that the
destruction may clear slots without a record. `Records` adds that an open
period belongs to a listed row and lies after every change already recorded for
it, which gives `ChangesStayInOrder` and `FinalPassIsWhole`; `Listed` that a
frame's account is listed and a pending access that was paid is loaded, which
gives `NothingUnpaidIsListed`. All from `ConstantsAssumption`.

Only model-checked: `FailedTxLeavesNoTrace`, `TxOriginalIsTxStart`,
`WarmthIsPerTx`, `DestructOnlyCreated`, `CreateAnchoredAfterBump`,
`EtherConserved`, `EmptyHasNoStorage`, and everything about the pipeline, its
liveness (`JobsEnd`, `WorkerFreed`) included.

## Findings

`statedb_top_create_warmth`: the comment at `zisk_state_db.cpp:2183` says the
address of a creation transaction stays warm if the creation fails, because
there is no enclosing checkpoint. There is one (line 1431), and the rollback to
it undoes the warming. Nothing reads the warmth afterwards.

`pipeline_early_child`: when a block's payload is handled before the queued
commit of its parent, the commit discards the block's job as if it had been
reorged out (`pipeline.rs:234`), and `started` keeps it from being started
again. The comments at lines 135 and 231 say the branch is for blocks that left
the canonical chain; the comment at line 347 says payloads may come that early.

`bal_depth`: the comment in `access_account` (`zisk_state_db.cpp:692`) says a
charge that succeeds shows as a further host callback or as the frame ending
normally. A call at the depth limit, without value, to a delegated account pays
for the delegate's access and then fails lightly with no callback
(`system.inl.hpp:232`); if the frame halts before its next one, the paid access
is dropped and the delegate is not listed.

## Plan

Done: the journal and the state database, with proofs; the block access list,
with proofs; the prover pipeline.

1. The access list of EIP-7702 authorizations and of addresses without a row.
2. Block follower script and statistics collector: polling, reorgs, restarts.
3. Gas of a transaction (intrinsic, floor, refund cap, reservoir) and the
   EIP-7702 authorization list, added to `StateDB`.
4. Analysis cache, contracts table with the arena, frame scratch.
5. Header rules and previous blocks as operators; the state-root walk over
   small tries.
6. Interpreter frames: memory stack, call gas, depth.
7. Proof engine, input generator's reorg detection.
8. Proofs: `WarmthIsPerTx` and `TxOriginalIsTxStart` from the invariant that
   every `last_tx_idx`, in the tables and in the journal, is at most
   `tx_counter_`; a snapshot-stack specification that `StateDB` implements;
   the safety invariants of the pipeline.
