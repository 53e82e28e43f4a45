------------------------------ MODULE StateDB ------------------------------
(***************************************************************************)
(* The guest's state database while a block runs (ZiskStateDB in           *)
(* cpp-guest/src/zisk_state_db.cpp): transactions and system calls, the    *)
(* EVM frames nested in them, the host operations a frame performs on the  *)
(* tables of module Journal, and the rollback of a frame that fails.       *)
(*                                                                         *)
(* The EVM is external.  It is modelled by the order in which it calls the *)
(* host: a slot or account is accessed (warmed) before it is read, written *)
(* or called; a value is sent only by an account that has it; a frame      *)
(* whose account has no code does nothing; SELFDESTRUCT ends its frame.    *)
(*                                                                         *)
(* Journal::rollback is a loop; each of its iterations is one step here    *)
(* (phase "rollback"), and nothing else is enabled until it has finished.  *)
(*                                                                         *)
(* Left out: the EIP-7702 authorization list, gas amounts (a charge may    *)
(* fail wherever it is checked), receipts other than their number of logs, *)
(* the block access list (a module of its own).  Forks before Shanghai are *)
(* not covered.                                                            *)
(***************************************************************************)
EXTENDS Journal

CONSTANTS
  Cancun, Prague, Amsterdam,  \* is_cancun_or_later() and so on
  Precompile,         \* accounts at precompile addresses
  Predeploy,          \* system contracts, the targets of system calls
  NewAddr,            \* addresses that creations derive
  Recipient,          \* what transactions are sent to: accounts, None
  Amount,             \* values a call or a transaction may carry
  Coinbase,           \* consensus_.beneficiary()
  BlockStartStorage,  \* accounts whose block-start storage trie is not empty
  None,               \* tx.to() of a contract creation
  AccessList,         \* EIP-2930 access lists a transaction may have
  Upfront,            \* upfront gas costs a transaction may have
  Ops,                \* kinds of host operations the block's code performs
  InitDB,             \* the tables at the start of the block
  InitSupply,         \* history: the sum of its balances
  MaxNonce,           \* 2^64 - 1
  MaxTxCounter,       \* bound on transactions plus system calls
  MaxDepth,           \* bound on nested frames (1024 in the code)
  MaxJournal          \* bound on the journal

ASSUME StateDBAssumption ==
  /\ Cancun \in BOOLEAN /\ Prague \in BOOLEAN /\ Amsterdam \in BOOLEAN
  /\ Amsterdam => Prague
  /\ Prague => Cancun
  /\ Precompile \subseteq Acct /\ BlockStartStorage \subseteq Acct
  /\ Predeploy \subseteq Acct \ Precompile
  /\ NewAddr \subseteq Acct \ Precompile
  /\ Coinbase \in Acct /\ None \notin Acct
  /\ Recipient \subseteq Acct \cup {None}
  /\ AccessList \subseteq
       [accts : SUBSET Acct, slots : SUBSET Slot, keys : SUBSET WarmKey]
  /\ Upfront \subseteq Nat /\ Amount \subseteq Nat
  /\ MaxNonce \in Nat /\ MaxTxCounter \in Nat /\ MaxDepth \in Nat /\ MaxJournal \in Nat
  /\ InitDB \in DB /\ InitSupply \in Nat
  /\ \A a \in Acct : InitDB.alast[a] = 0 /\ InitDB.transient[a] = Absent
  /\ \A s \in Slot : InitDB.slast[s] = 0
  /\ \A k \in WarmKey : InitDB.wlast[k] = 0
  /\ InitDB.pending = {}

VARIABLES
  stage,        \* "pre", "txs" or "post": the three phases of execute_block
  phase,        \* what runs now: "idle", "start", "run", "rollback", "settle"
  tx_counter,   \* tx_counter_
  db,           \* the tables rollback restores
  tx_original,  \* Storages::Mods::tx_original, which it does not
  created,      \* created_this_tx_idx_, which it does not either
  wiped,        \* storage_wiped_idx_
  logs,         \* number of logs in the current receipt
  journal,      \* journal_
  frames,       \* the live frames, outermost first
  tx,           \* the transaction being executed
  txStart,      \* history: the tables when its execution phase began
  supply        \* history: ether in the accounts, by fees and withdrawals

vars == <<stage, phase, tx_counter, db, tx_original, created, wiped, logs,
          journal, frames, tx, txStart, supply>>

Frame == [kind      : {"call", "create", "system"},
          self      : Acct,
          mode      : {"live", "halted", "codeless"},
          cp        : Nat,   \* position of its checkpoint's marker
          log_count : Nat,
          saved     : DB]    \* history: the tables at that checkpoint

Tx == [sender : Acct, to : Acct \cup {None}, value : Nat, upfront : Nat]

TypeOK ==
  /\ stage \in {"pre", "txs", "post"}
  /\ phase \in {"idle", "start", "run", "rollback", "settle"}
  /\ tx_counter \in Nat
  /\ db \in DB
  /\ tx_original \in [Slot -> Value]
  /\ created \subseteq Acct
  /\ wiped \subseteq Acct
  /\ logs \in Nat
  /\ journal \in Seq(Entry)
  /\ frames \in Seq(Frame)
  /\ tx \in Tx
  /\ txStart \in DB
  /\ supply \in Int

Init ==
  /\ stage = "pre"
  /\ phase = "idle"
  /\ tx_counter = 0
  /\ db = InitDB
  /\ tx_original = [s \in Slot |-> 0]
  /\ created = {}
  /\ wiped = {}
  /\ logs = 0
  /\ journal = << >>
  /\ frames = << >>
  /\ tx = [sender |-> Coinbase, to |-> None, value |-> 0, upfront |-> 0]
  /\ txStart = InitDB
  /\ supply = InitSupply

-----------------------------------------------------------------------------
(* Frames.                                                                 *)

Depth == Len(frames)
Top == frames[Depth]
Self == Top.self
Running(op) == phase = "run" /\ Top.mode = "live" /\ op \in Ops
Room(n) == Len(journal) + n <= MaxJournal

\* A frame whose checkpoint's marker is entry cp of the journal, taken when
\* the tables were d.
NewFrame(kind, self, mode, cp, d) ==
  [kind |-> kind, self |-> self, mode |-> mode, cp |-> cp,
   log_count |-> logs, saved |-> d]

Mode(d, a) == IF d.code[a] = EmptyCode THEN "codeless" ELSE "live"

\* Logs of a system call are discarded (in_system_call_).
InSystemCall == Depth > 0 /\ frames[1].kind = "system"
EmittedLogs(n) == IF InSystemCall THEN 0 ELSE n

\* emit_transfer_log (EIP-7708): nothing before Amsterdam, for a transfer to
\* oneself, or of nothing.
TransferLogs(from, to, v) ==
  IF Amsterdam /\ from # to /\ v # 0 THEN EmittedLogs(1) ELSE 0

\* address_has_storage, has_block_start_storage and the EIP-684 / EIP-7610
\* collision test of a contract creation.
HasStorage(d, a) == \E s \in Slot : Owner[s] = a /\ d.value[s] # 0
HasBlockStartStorage(a) == a \in BlockStartStorage /\ a \notin wiped
Collides(d, a) ==
  \/ d.nonce[a] # 0
  \/ d.code[a] # EmptyCode
  \/ HasStorage(d, a)
  \/ HasBlockStartStorage(a)

\* account_exists
Exists(d, a) == d.nonce[a] # 0 \/ d.code[a] # EmptyCode \/ d.balance[a] # 0

-----------------------------------------------------------------------------
(* The block: execute_block, process_transactions, system_call.            *)

\* pre_warm_for_tx: accounts, slots and row-less keys warmed at the start of
\* transaction t, without journaling.
PreWarm(d, accts, access, t) ==
  [d EXCEPT
     !.alast = [a \in Acct |-> IF a \in accts /\ t > @[a] THEN t ELSE @[a]],
     !.slast = [s \in Slot |-> IF s \in access.slots /\ t > @[s] THEN t ELSE @[s]],
     !.wlast = [k \in WarmKey |-> IF k \in access.keys THEN t ELSE @[k]]]

\* reset_tx_arena drops the transient map (and the journal).
ResetTransient(d) == [d EXCEPT !.transient = [a \in Acct |-> Absent]]

\* ++tx_counter_
SameTxCounter == tx_counter
NextTxCounter == tx_counter + 1

\* check_transaction: EIP-3607, the nonce limit, and funds for gas and value.
CheckTransactionIgnoresValue(sender, value, upfront) ==
  /\ db.code[sender] = EmptyCode
  /\ db.nonce[sender] < MaxNonce
  /\ db.balance[sender] >= upfront
CheckTransaction(sender, value, upfront) ==
  /\ db.code[sender] = EmptyCode
  /\ db.nonce[sender] < MaxNonce
  /\ db.balance[sender] >= upfront + value

\* One iteration of process_transactions up to the top-level frame: the
\* counter, the per-transaction resets, pre-warming, check_transaction and
\* the upfront accounting (not journaled), then the checkpoints cp_runtime
\* and cp.
BeginTx(sender, to, value, upfront, access) ==
  LET t    == NextTxCounter
      warm == (access.accts \cup {sender, Coinbase, to}) \ Precompile
      d0   == PreWarm([ResetTransient(db) EXCEPT !.pending = {}], warm, access, t)
      d1   == SetNonce(d0, sender, d0.nonce[sender] + 1, t)
      d2   == SetBalance(d1, sender, d1.balance[sender] - upfront, t)
  IN
  /\ phase = "idle" /\ stage = "txs"
  /\ tx_counter < MaxTxCounter
  /\ CheckTransaction(sender, value, upfront)
  /\ phase' = "start"
  /\ tx_counter' = t
  /\ db' = d2
  /\ tx_original' = [s \in Slot |-> IF s \in access.slots /\ t > db.slast[s]
                                    THEN db.value[s] ELSE tx_original[s]]
  /\ created' = {}
  /\ logs' = 0
  /\ journal' = <<CheckpointMarker(d2), CheckpointMarker(d2)>>
  /\ tx' = [sender |-> sender, to |-> to, value |-> value, upfront |-> upfront]
  /\ txStart' = d2
  /\ supply' = supply - upfront
  /\ UNCHANGED <<stage, wiped, frames>>

\* execute_top_level_message, a call.
TopLevelCall ==
  LET to == tx.to
  IN
  /\ phase = "start" /\ to # None
  /\ phase' = "run"
  /\ frames' = <<NewFrame("call", to, Mode(db, to), 2, db)>>
  /\ IF tx.value = 0
     THEN UNCHANGED <<db, journal, logs>>
     ELSE /\ db' = Transfer(db, tx.sender, to, tx.value, tx_counter)
          /\ journal' = LogTransfer(journal, db, tx.sender, to, tx.value, tx_counter)
          /\ logs' = logs + TransferLogs(tx.sender, to, tx.value)
  /\ UNCHANGED <<stage, tx_counter, tx_original, created, wiped, tx, txStart, supply>>

\* Nonce 1 and the endowment for the account a creation makes: the tables,
\* and the journal.
InitCreate(d, from, a, value, t) ==
  LET d1 == SetNonce(d, a, 1, t)
  IN  IF value = 0 THEN d1 ELSE Transfer(d1, from, a, value, t)
LogInitCreate(j, d, from, a, value, t) ==
  LET d1 == SetNonce(d, a, 1, t)
      j1 == Append(j, NonceEntry(d, a))
  IN  IF value = 0 THEN j1 ELSE LogTransfer(j1, d1, from, a, value, t)

\* The collision test and init_create_account for the account of a creation,
\* from tables d and journal j; a collision fails the frame.
EnterCreate(d, j, from, new, value) ==
  IF Collides(d, new)
  THEN /\ phase' = "rollback"
       /\ db' = d
       /\ journal' = j
       /\ UNCHANGED <<created, logs>>
  ELSE /\ phase' = "run"
       /\ db' = InitCreate(d, from, new, value, tx_counter)
       /\ journal' = LogInitCreate(j, d, from, new, value, tx_counter)
       /\ created' = created \cup {new}
       /\ logs' = logs + TransferLogs(from, new, value)

\* execute_top_level_message, a creation at address `new'.  A collision is a
\* failed frame, so process_transactions rolls back to cp.
TopLevelCreate(new) ==
  /\ phase = "start" /\ tx.to = None
  /\ frames' = <<NewFrame("create", new, "live", 2, db)>>
  /\ EnterCreate(TouchAccount(db, new, tx_counter),
                 LogWarmAccount(journal, db, new, tx_counter),
                 tx.sender, new, tx.value)
  /\ UNCHANGED <<stage, tx_counter, tx_original, wiped, tx, txStart, supply>>

\* execute_top_level_frame (Amsterdam): the new-account charge of the first
\* frame runs out of gas, and the whole phase since cp_runtime is undone.
RuntimeOutOfGas(recipient) ==
  /\ phase = "start" /\ Amsterdam
  /\ IF tx.to = None THEN recipient \in NewAddr
                     ELSE recipient = tx.to /\ tx.value # 0
  /\ ~Exists(db, recipient)
  /\ phase' = "rollback"
  /\ frames' = <<NewFrame("call", recipient, "halted", 1, db)>>
  /\ UNCHANGED <<stage, tx_counter, db, tx_original, created, wiped, logs,
                 journal, tx, txStart, supply>>

\* system_call.  The target's code is looked up after the checkpoint; the
\* lookup touches its row without a journal entry, so a rollback restores
\* the tables as they are after that touch.
SystemCall(target) ==
  LET t == NextTxCounter
      d == TouchAccount(ResetTransient(db), target, t)
  IN
  /\ phase = "idle"
  /\ (stage = "pre" /\ Cancun) \/ (stage = "post" /\ Prague)
  /\ tx_counter < MaxTxCounter
  /\ phase' = "run"
  /\ tx_counter' = t
  /\ db' = d
  /\ created' = {}
  /\ journal' = <<CheckpointMarker(d)>>
  /\ frames' = <<NewFrame("system", target, Mode(d, target), 1, d)>>
  /\ txStart' = d
  /\ UNCHANGED <<stage, tx_original, wiped, logs, tx, supply>>

-----------------------------------------------------------------------------
(* Host operations of the running frame.                                   *)

\* access_account of an address with a row; a precompile is always warm.
AccessAccount(a) ==
  /\ Running("access")
  /\ a \notin Precompile
  /\ ~AccountWarm(db, a, tx_counter) /\ Room(1)
  /\ journal' = LogWarmAccount(journal, db, a, tx_counter)
  /\ db' = TouchAccount(db, a, tx_counter)
  /\ UNCHANGED <<stage, phase, tx_counter, tx_original, created, wiped, logs,
                 frames, tx, txStart, supply>>

\* access_account and access_storage of an address or slot without a row.
AccessMissing(k) ==
  /\ Running("access")
  /\ db.wlast[k] # tx_counter /\ Room(1)
  /\ journal' = Append(journal, WarmKeyEntry(db, k))
  /\ db' = SetWarmKey(db, k, tx_counter)
  /\ UNCHANGED <<stage, phase, tx_counter, tx_original, created, wiped, logs,
                 frames, tx, txStart, supply>>

\* access_storage of a slot with a row.  mark_touched_at snapshots the value
\* into tx_original when it steps last_tx_idx forward.
AccessStorage(s) ==
  /\ Running("storage")
  /\ Owner[s] = Self
  /\ ~SlotWarm(db, s, tx_counter) /\ Room(1)
  /\ journal' = Append(journal, StorageWarmEntry(db, s))
  /\ db' = TouchSlot(db, s, tx_counter)
  /\ tx_original' = IF tx_counter > db.slast[s]
                    THEN [tx_original EXCEPT ![s] = db.value[s]] ELSE tx_original
  /\ UNCHANGED <<stage, phase, tx_counter, created, wiped, logs, frames, tx,
                 txStart, supply>>

\* set_storage; the VM has called access_storage before.
SetStorageLogsLate(s, v) ==
  /\ Running("storage")
  /\ Owner[s] = Self
  /\ SlotWarm(db, s, tx_counter) /\ Room(1)
  /\ db' = SetValue(db, s, v, tx_counter)
  /\ journal' = Append(journal, StorageEntry(db', s))
  /\ UNCHANGED <<stage, phase, tx_counter, tx_original, created, wiped, logs,
                 frames, tx, txStart, supply>>
SetStorageSnapshots(s, v) ==
  /\ Running("storage")
  /\ Owner[s] = Self
  /\ SlotWarm(db, s, tx_counter) /\ Room(1)
  /\ journal' = Append(journal, StorageEntry(db, s))
  /\ db' = SetValue(db, s, v, tx_counter)
  /\ tx_original' = [tx_original EXCEPT ![s] = db.value[s]]
  /\ UNCHANGED <<stage, phase, tx_counter, created, wiped, logs,
                 frames, tx, txStart, supply>>
SetStorage(s, v) ==
  /\ Running("storage")
  /\ Owner[s] = Self
  /\ SlotWarm(db, s, tx_counter) /\ Room(1)
  /\ journal' = Append(journal, StorageEntry(db, s))
  /\ db' = SetValue(db, s, v, tx_counter)
  /\ UNCHANGED <<stage, phase, tx_counter, tx_original, created, wiped, logs,
                 frames, tx, txStart, supply>>

\* set_transient_storage
SetTransientStorage(v) ==
  /\ Running("transient")
  /\ Room(1)
  /\ journal' = Append(journal, TransientEntry(db, Self))
  /\ db' = SetTransient(db, Self, v)
  /\ UNCHANGED <<stage, phase, tx_counter, tx_original, created, wiped, logs,
                 frames, tx, txStart, supply>>

\* emit_log
EmitLog ==
  /\ Running("log")
  /\ logs < MaxJournal
  /\ logs' = logs + EmittedLogs(1)
  /\ UNCHANGED <<stage, phase, tx_counter, db, tx_original, created, wiped,
                 journal, frames, tx, txStart, supply>>

\* call(): CALL with a value, and STATICCALL or CALL without.  A call of a
\* precompile without value changes nothing and is left out.
Call(to, value) ==
  LET cp == Len(journal) + 1
      j  == Append(journal, CheckpointMarker(db))
  IN
  /\ Running("call")
  /\ Depth < MaxDepth /\ Room(3)
  /\ IF to \in Precompile THEN value # 0 ELSE AccountWarm(db, to, tx_counter)
  /\ db.balance[Self] >= value
  /\ frames' = Append(frames, NewFrame("call", to, Mode(db, to), cp, db))
  /\ IF value = 0
     THEN /\ journal' = j
          /\ UNCHANGED <<db, logs>>
     ELSE /\ db' = Transfer(db, Self, to, value, tx_counter)
          /\ journal' = LogTransfer(j, db, Self, to, value, tx_counter)
          /\ logs' = logs + TransferLogs(Self, to, value)
  /\ UNCHANGED <<stage, phase, tx_counter, tx_original, created, wiped, tx,
                 txStart, supply>>

\* call(): DELEGATECALL and CALLCODE run the code of `to' as Self.
DelegateCall(to) ==
  /\ Running("delegatecall")
  /\ Depth < MaxDepth /\ Room(1)
  /\ AccountWarm(db, to, tx_counter)
  /\ frames' = Append(frames, NewFrame("call", Self, Mode(db, to), Len(journal) + 1, db))
  /\ journal' = Append(journal, CheckpointMarker(db))
  /\ UNCHANGED <<stage, phase, tx_counter, db, tx_original, created, wiped,
                 logs, tx, txStart, supply>>

\* call_create() when the creator's nonce can still be bumped: call()'s
\* checkpoint, the bump, the warming of the new address, cp_after_bump.
MayCreate(value) ==
  /\ Running("create") /\ ~InSystemCall
  /\ Depth < MaxDepth /\ Room(7)
  /\ db.balance[Self] >= value
  /\ db.nonce[Self] < MaxNonce
Bumped == SetNonce(db, Self, db.nonce[Self] + 1, tx_counter)
BumpedAndWarm(new) == TouchAccount(Bumped, new, tx_counter)
LogBumpAndWarm(new) ==
  LET j1 == Append(journal, CheckpointMarker(db))
      j2 == Append(j1, NonceEntry(db, Self))
      j3 == LogWarmAccount(j2, Bumped, new, tx_counter)
  IN  Append(j3, CheckpointMarker(BumpedAndWarm(new)))

CreateAnchoredOnCp(new, value) ==
  /\ MayCreate(value)
  /\ frames' = Append(frames, NewFrame("create", new, "live", Len(journal) + 1, db))
  /\ EnterCreate(BumpedAndWarm(new), LogBumpAndWarm(new), Self, new, value)
  /\ UNCHANGED <<stage, tx_counter, tx_original, wiped, tx, txStart, supply>>
Create(new, value) ==
  /\ MayCreate(value)
  /\ frames' = Append(frames, NewFrame("create", new, "live", Len(LogBumpAndWarm(new)),
                                       BumpedAndWarm(new)))
  /\ EnterCreate(BumpedAndWarm(new), LogBumpAndWarm(new), Self, new, value)
  /\ UNCHANGED <<stage, tx_counter, tx_original, wiped, tx, txStart, supply>>

\* call_create() at the nonce limit: only the checkpoint call() took stays.
CreateAtMaxNonce ==
  /\ Running("create") /\ ~InSystemCall
  /\ Depth < MaxDepth /\ Room(1)
  /\ db.nonce[Self] = MaxNonce
  /\ journal' = Append(journal, CheckpointMarker(db))
  /\ UNCHANGED <<stage, phase, tx_counter, db, tx_original, created, wiped,
                 logs, frames, tx, txStart, supply>>

\* selfdestruct(): the balance moves (or, to oneself and before Amsterdam,
\* burns), and the account is marked for the end of the transaction.
ShouldDestroyAlways(a) == TRUE
ShouldDestroy(a) == Cancun => a \in created

SweptDB(d, self, beneficiary, t) ==
  IF self # beneficiary THEN Transfer(d, self, beneficiary, d.balance[self], t)
  ELSE IF ShouldDestroy(self) /\ ~Amsterdam THEN SetBalance(d, self, 0, t)
  ELSE d
LogSweep(j, d, self, beneficiary, t) ==
  IF self # beneficiary THEN LogTransfer(j, d, self, beneficiary, d.balance[self], t)
  ELSE IF ShouldDestroy(self) /\ ~Amsterdam THEN Append(j, BalanceEntry(d, self))
  ELSE j

SelfDestruct(beneficiary) ==
  LET d1 == SweptDB(db, Self, beneficiary, tx_counter)
      j1 == LogSweep(journal, db, Self, beneficiary, tx_counter)
  IN
  /\ Running("selfdestruct") /\ ~InSystemCall
  /\ Room(3)
  /\ AccountWarm(db, beneficiary, tx_counter) \/ beneficiary \in Precompile
  /\ logs' = logs + TransferLogs(Self, beneficiary, db.balance[Self])
  /\ IF ShouldDestroy(Self)
     THEN /\ db' = MarkDestruct(d1, Self)
          /\ journal' = Append(j1, PendingDestructEntry(d1, Self))
     ELSE /\ db' = d1
          /\ journal' = j1
  /\ frames' = [frames EXCEPT ![Depth].mode = "halted"]
  /\ UNCHANGED <<stage, phase, tx_counter, tx_original, created, wiped, tx,
                 txStart, supply>>

-----------------------------------------------------------------------------
(* The end of a frame, and Journal::rollback.                              *)

Butlast == SubSeq(frames, 1, Depth - 1)

\* What runs once the frames below the top one are all that is left.
PhaseAfterPop ==
  IF Depth > 1 THEN "run" ELSE IF InSystemCall THEN "idle" ELSE "settle"

\* A frame of a call returns EVMC_SUCCESS: its checkpoint is forgotten.
ReturnSuccess ==
  /\ phase = "run" /\ Top.kind # "create"
  /\ phase' = PhaseAfterPop
  /\ frames' = Butlast
  /\ UNCHANGED <<stage, tx_counter, db, tx_original, created, wiped, logs,
                 journal, tx, txStart, supply>>

\* Init code returns and passes the size, prefix and deposit checks:
\* register_deployed_code.  SELFDESTRUCT in init code returns no code.
ReturnCreate(code) ==
  /\ phase = "run" /\ Top.kind = "create"
  /\ Top.mode = "halted" => code = EmptyCode
  /\ phase' = PhaseAfterPop
  /\ db' = SetCodeHash(db, Self, code, tx_counter)
  /\ journal' = Append(journal, CodeHashEntry(db, Self))
  /\ frames' = Butlast
  /\ UNCHANGED <<stage, tx_counter, tx_original, created, wiped, logs, tx,
                 txStart, supply>>

\* REVERT, out of gas, an invalid deployment, or a failing precompile.
ReturnFailure ==
  /\ phase = "run"
  /\ Top.mode = "live" \/ Self \in Precompile
  /\ phase' = "rollback"
  /\ UNCHANGED <<stage, tx_counter, db, tx_original, created, wiped, logs,
                 journal, frames, tx, txStart, supply>>

\* One iteration of the loop of Journal::rollback.
RollbackStepTooFar ==
  /\ phase = "rollback"
  /\ Len(journal) > 0 /\ Len(journal) + 1 >= Top.cp
  /\ db' = Undo(journal[Len(journal)], db)
  /\ journal' = SubSeq(journal, 1, Len(journal) - 1)
  /\ UNCHANGED <<stage, phase, tx_counter, tx_original, created, wiped, logs,
                 frames, tx, txStart, supply>>
RollbackStep ==
  /\ phase = "rollback"
  /\ Len(journal) >= Top.cp
  /\ db' = Undo(journal[Len(journal)], db)
  /\ journal' = SubSeq(journal, 1, Len(journal) - 1)
  /\ UNCHANGED <<stage, phase, tx_counter, tx_original, created, wiped, logs,
                 frames, tx, txStart, supply>>

RollbackDoneKeepsLogs ==
  /\ phase = "rollback"
  /\ Len(journal) < Top.cp
  /\ phase' = PhaseAfterPop
  /\ frames' = Butlast
  /\ UNCHANGED <<stage, tx_counter, db, tx_original, created, wiped, logs,
                 journal, tx, txStart, supply>>
\* The loop ends, ZiskStateDB::rollback truncates the logs, the frame is gone.
RollbackDone ==
  /\ phase = "rollback"
  /\ Len(journal) < Top.cp
  /\ phase' = PhaseAfterPop
  /\ logs' = Top.log_count
  /\ frames' = Butlast
  /\ UNCHANGED <<stage, tx_counter, db, tx_original, created, wiped, journal,
                 tx, txStart, supply>>

-----------------------------------------------------------------------------
(* The end of a transaction, and the rest of the block.                    *)

\* apply_pending_destructs.  The journal entries that
\* clear_account_for_selfdestruct writes are dropped unread by the next
\* reset_tx_arena, so they are left out.
ClearDestructedKeepsSlots(d, t) ==
  [d EXCEPT
     !.balance = [a \in Acct |-> IF a \in d.pending /\ ~Amsterdam THEN 0 ELSE @[a]],
     !.nonce = [a \in Acct |-> IF a \in d.pending THEN 0 ELSE @[a]],
     !.code = [a \in Acct |-> IF a \in d.pending THEN EmptyCode ELSE @[a]],
     !.alast = [a \in Acct |-> IF a \in d.pending THEN t ELSE @[a]],
     !.pending = {}]
ClearDestructed(d, t) ==
  LET gone(s) == Owner[s] \in d.pending /\ d.value[s] # 0
  IN  [d EXCEPT
        !.balance = [a \in Acct |-> IF a \in d.pending /\ ~Amsterdam THEN 0 ELSE @[a]],
        !.nonce = [a \in Acct |-> IF a \in d.pending THEN 0 ELSE @[a]],
        !.code = [a \in Acct |-> IF a \in d.pending THEN EmptyCode ELSE @[a]],
        !.alast = [a \in Acct |-> IF a \in d.pending THEN t ELSE @[a]],
        !.value = [s \in Slot |-> IF gone(s) THEN 0 ELSE @[s]],
        !.slast = [s \in Slot |-> IF gone(s) THEN t ELSE @[s]],
        !.pending = {}]

\* settle_tx_gas (the sender's refund, then the coinbase's tip; both raw),
\* finalize_receipt, apply_pending_destructs.
EndTx(refund, tip) ==
  LET d1 == SetBalance(db, tx.sender, db.balance[tx.sender] + refund, tx_counter)
      d2 == SetBalance(d1, Coinbase, d1.balance[Coinbase] + tip, tx_counter)
  IN
  /\ phase = "settle"
  /\ refund + tip <= tx.upfront
  /\ phase' = "idle"
  /\ db' = ClearDestructed(d2, tx_counter)
  /\ wiped' = wiped \cup db.pending
  /\ supply' = supply + refund + tip
  /\ UNCHANGED <<stage, tx_counter, tx_original, created, logs, journal,
                 frames, tx, txStart>>

\* execute_block: pre_execute_block is over, the transactions begin.
BeginTxs ==
  /\ phase = "idle" /\ stage = "pre"
  /\ stage' = "txs"
  /\ UNCHANGED <<phase, tx_counter, db, tx_original, created, wiped, logs,
                 journal, frames, tx, txStart, supply>>

\* post_execute_block begins by crediting a withdrawal (EIP-4895).
CreditWithdrawals(a, amount) ==
  /\ phase = "idle" /\ stage = "txs"
  /\ stage' = "post"
  /\ db' = SetBalance(db, a, db.balance[a] + amount, tx_counter)
  /\ supply' = supply + amount
  /\ UNCHANGED <<phase, tx_counter, tx_original, created, wiped, logs, journal,
                 frames, tx, txStart>>

\* execute_block returns.
Finished ==
  /\ phase = "idle" /\ stage = "post"
  /\ UNCHANGED vars

-----------------------------------------------------------------------------

HostOperation ==
  \/ \E a \in Acct : AccessAccount(a)
  \/ \E k \in WarmKey : AccessMissing(k)
  \/ \E s \in Slot : AccessStorage(s)
  \/ \E s \in Slot, v \in Value : SetStorage(s, v)
  \/ \E v \in Value : SetTransientStorage(v)
  \/ EmitLog
  \/ \E to \in Acct, value \in Amount : Call(to, value)
  \/ \E to \in Acct : DelegateCall(to)
  \/ \E new \in NewAddr, value \in Amount : Create(new, value)
  \/ CreateAtMaxNonce
  \/ \E beneficiary \in Acct : SelfDestruct(beneficiary)

FrameEnd ==
  \/ ReturnSuccess
  \/ \E code \in Code \cup {EmptyCode} : ReturnCreate(code)
  \/ ReturnFailure

Rollback == RollbackStep \/ RollbackDone

BlockStep ==
  \/ \E sender \in Acct, to \in Recipient, value \in Amount,
        upfront \in Upfront, access \in AccessList :
        BeginTx(sender, to, value, upfront, access)
  \/ TopLevelCall
  \/ \E new \in NewAddr : TopLevelCreate(new)
  \/ \E recipient \in Acct : RuntimeOutOfGas(recipient)
  \/ \E target \in Predeploy : SystemCall(target)
  \/ \E refund \in 0 .. tx.upfront, tip \in 0 .. tx.upfront : EndTx(refund, tip)
  \/ BeginTxs
  \/ \E a \in Acct, amount \in Amount : CreditWithdrawals(a, amount)
  \/ Finished

Next == HostOperation \/ FrameEnd \/ Rollback \/ BlockStep

Spec == Init /\ [][Next]_vars

-----------------------------------------------------------------------------
(* Properties.                                                             *)

\* Journal::rollback is exact: when its loop reaches the frame's checkpoint,
\* every table (values, code, nonces, warmth, transient storage, pending
\* destructions) is as it was when checkpoint() was called.
RollbackExact ==
  phase = "rollback" /\ Len(journal) < Top.cp => db = Top.saved

\* Every live checkpoint is the position of a marker of the journal, inner
\* frames' after outer frames', and no frame started with more logs than
\* there are now: rollback() never meets a checkpoint beyond the journal.
CheckpointsNest ==
  /\ \A i \in 1 .. Depth : frames[i].log_count <= logs
  /\ \A i, k \in 1 .. Depth :
        i < k => frames[i].cp < frames[k].cp /\ frames[i].log_count <= frames[k].log_count
  /\ \A i \in 1 .. Depth :
        \/ frames[i].cp <= Len(journal) /\ journal[frames[i].cp].kind = "marker"
        \/ i = Depth /\ phase = "rollback" /\ frames[i].cp = Len(journal) + 1

\* Storages::Mods::tx_original of a slot that is warm is its value when the
\* transaction began, however many frames wrote it and rolled back since:
\* SSTORE is priced from it although rollback does not restore it.
TxOriginalIsTxStart ==
  phase \in {"run", "rollback"} =>
    \A s \in Slot : SlotWarm(db, s, tx_counter) => tx_original[s] = txStart.value[s]

\* EIP-6780: an account is marked for destruction only if it was empty when
\* the transaction began, although created_this_tx_idx_ keeps the accounts
\* of creations that were rolled back.
DestructOnlyCreated ==
  Cancun => \A a \in db.pending : txStart.nonce[a] = 0 /\ txStart.code[a] = EmptyCode

\* A nested creation is anchored after the creator's nonce bump and the
\* warming of the new address (cp_after_bump), so its failure undoes neither.
CreateAnchoredAfterBump ==
  \A i \in 2 .. Depth :
    LET f == frames[i]
        creator == frames[i - 1].self
    IN  f.kind = "create" =>
          /\ f.saved.alast[f.self] = tx_counter
          /\ \E k \in frames[i - 1].cp + 1 .. f.cp - 1 :
               /\ journal[k].kind = "nonce" /\ journal[k].key = creator
               /\ f.saved.nonce[creator] = journal[k].old + 1
               /\ \A m \in k + 1 .. f.cp - 1 : journal[m].kind = "acct_warm"

\* An account with nonce 0 and no code has no storage, at every step of
\* creation, destruction and rollback: the new root drops such an account
\* (EIP-161), and a creation at its address starts from empty storage.
EmptyHasNoStorage ==
  \A s \in Slot :
    db.nonce[Owner[s]] = 0 /\ db.code[Owner[s]] = EmptyCode => db.value[s] = 0

\* What execute_top_level_message says of the account of a creation
\* transaction: it is warm whether the creation succeeds or fails.
TopLevelCreateStaysWarm ==
  phase = "settle" /\ tx.to = None =>
    \E a \in NewAddr : AccountWarm(db, a, tx_counter)

\* Warmth is per transaction: when a transaction or a system call begins, no
\* row and no key is already warm under its tx_counter_ (0 included, the
\* last_tx_idx of a row never touched).
WarmthIsPerTx ==
  [][phase = "idle" /\ phase' # "idle" =>
       /\ \A a \in Acct : db.alast[a] # tx_counter'
       /\ \A s \in Slot : db.slast[s] # tx_counter'
       /\ \A k \in WarmKey : db.wlast[k] # tx_counter']_vars

\* A transaction whose outermost frame fails leaves nothing of its execution
\* behind, in the tables or in its receipt's logs, whatever the frames below it
\* committed; the upfront payment and the nonce stay (process_transactions).
FailedTxLeavesNoTrace ==
  [][phase = "rollback" /\ phase' = "settle" => db' = txStart /\ logs' = 0]_vars
=============================================================================
