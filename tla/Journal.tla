------------------------------ MODULE Journal ------------------------------
(***************************************************************************)
(* The mutable tables of the guest's state database and the undo journal   *)
(* over them: Accounts and Storages rows, WarmKeys, TransientStorage, the  *)
(* pending_destruct set, and Journal::log_* / Journal::rollback            *)
(* (cpp-guest/src/journal.cpp).                                            *)
(*                                                                         *)
(* The tables that rollback restores are one record `d' (see DB).  A       *)
(* journal entry keeps what the C++ entry keeps (kind, key, old value, old *)
(* last_tx_idx) plus `pre', a history field no operation reads: the tables *)
(* as they must be once this entry has been undone.                        *)
(*                                                                         *)
(* Data abstractions.  A row's "dirty" overlay and its original are one    *)
(* current value.  A transient key is its owner (one position per          *)
(* contract).  A code hash is a member of Code.  Balances are naturals:    *)
(* the VM checks the payer's balance, and a 256-bit sum cannot wrap below  *)
(* the total supply.                                                       *)
(***************************************************************************)
EXTENDS Integers, Sequences

CONSTANTS
  Acct,       \* account rows of the witness
  Slot,       \* storage rows of the witness
  Owner,      \* Owner[s] is the account whose storage holds slot s
  WarmKey,    \* addresses and slots without a row (WarmKeys)
  Value,      \* storage words; 0 is the empty word
  Code,       \* hashes of non-empty code
  EmptyCode,  \* EMPTY_CODE_HASH
  Absent      \* no entry in the transient map

ASSUME JournalAssumption ==
  /\ Owner \in [Slot -> Acct]
  /\ Value \subseteq Nat
  /\ 0 \in Value
  /\ EmptyCode \notin Code
  /\ Absent \notin Value

DB == [balance   : [Acct -> Nat],
       nonce     : [Acct -> Nat],
       code      : [Acct -> Code \cup {EmptyCode}],
       alast     : [Acct -> Nat],       \* Accounts::Mods::last_tx_idx
       value     : [Slot -> Value],
       slast     : [Slot -> Nat],       \* Storages::Mods::last_tx_idx
       wlast     : [WarmKey -> Nat],    \* WarmKeys; 0 is "not in the map"
       transient : [Acct -> Value \cup {Absent}],
       pending   : SUBSET Acct]         \* pending_destruct_

-----------------------------------------------------------------------------
(* Raw writers and readers of the tables.                                  *)

SetBalance(d, a, v, t) == [d EXCEPT !.balance[a] = v, !.alast[a] = t]
SetNonce(d, a, v, t)   == [d EXCEPT !.nonce[a] = v, !.alast[a] = t]
SetCodeHash(d, a, v, t) == [d EXCEPT !.code[a] = v, !.alast[a] = t]
SetValue(d, s, v, t)   == [d EXCEPT !.value[s] = v, !.slast[s] = t]
SetAccountWarm(d, a, t) == [d EXCEPT !.alast[a] = t]
SetSlotWarm(d, s, t)   == [d EXCEPT !.slast[s] = t]
SetWarmKey(d, k, t)    == [d EXCEPT !.wlast[k] = t]
SetTransient(d, a, v)  == [d EXCEPT !.transient[a] = v]

\* mark_touched_at: only ever steps last_tx_idx forward.
TouchAccount(d, a, t) == IF t > d.alast[a] THEN SetAccountWarm(d, a, t) ELSE d
TouchSlot(d, s, t)    == IF t > d.slast[s] THEN SetSlotWarm(d, s, t) ELSE d

AccountWarm(d, a, t) == d.alast[a] = t
SlotWarm(d, s, t)    == d.slast[s] = t

-----------------------------------------------------------------------------
(* Journal entries, each with the value it restores read off the tables    *)
(* before the write.                                                       *)

Kinds == {"marker", "nonce", "balance", "code", "storage", "acct_warm",
          "slot_warm", "key_warm", "transient", "destruct"}

NoKey == Absent

Entry == [kind : Kinds,
          key  : Acct \cup Slot \cup WarmKey \cup {NoKey},
          old  : Nat \cup Code \cup {EmptyCode, Absent},
          last : Nat,
          pre  : DB]

CheckpointMarker(d) ==
  [kind |-> "marker", key |-> NoKey, old |-> 0, last |-> 0, pre |-> d]
NonceEntry(d, a) ==
  [kind |-> "nonce", key |-> a, old |-> d.nonce[a], last |-> d.alast[a], pre |-> d]
BalanceEntry(d, a) ==
  [kind |-> "balance", key |-> a, old |-> d.balance[a], last |-> d.alast[a], pre |-> d]
CodeHashEntry(d, a) ==
  [kind |-> "code", key |-> a, old |-> d.code[a], last |-> d.alast[a], pre |-> d]
StorageEntry(d, s) ==
  [kind |-> "storage", key |-> s, old |-> d.value[s], last |-> d.slast[s], pre |-> d]
AccountWarmEntry(d, a) ==
  [kind |-> "acct_warm", key |-> a, old |-> 0, last |-> d.alast[a], pre |-> d]
StorageWarmEntry(d, s) ==
  [kind |-> "slot_warm", key |-> s, old |-> 0, last |-> d.slast[s], pre |-> d]
WarmKeyEntry(d, k) ==
  [kind |-> "key_warm", key |-> k, old |-> 0, last |-> d.wlast[k], pre |-> d]
\* `old' is Absent when the map had no entry (was_present = false).
TransientEntryForgetsAbsence(d, a) ==
  [kind |-> "transient", key |-> a,
   old |-> IF d.transient[a] = Absent THEN 0 ELSE d.transient[a], last |-> 0, pre |-> d]
TransientEntry(d, a) ==
  [kind |-> "transient", key |-> a, old |-> d.transient[a], last |-> 0, pre |-> d]
\* `old' is was_already_present, as 0 or 1.
PendingDestructEntryForgets(d, a) ==
  [kind |-> "destruct", key |-> a, old |-> 0, last |-> 0, pre |-> d]
PendingDestructEntry(d, a) ==
  [kind |-> "destruct", key |-> a, old |-> IF a \in d.pending THEN 1 ELSE 0,
   last |-> 0, pre |-> d]

\* One iteration of the loop of Journal::rollback: the tables after entry e
\* is undone.
Undo(e, d) ==
  CASE e.kind = "nonce"     -> SetNonce(d, e.key, e.old, e.last)
    [] e.kind = "balance"   -> SetBalance(d, e.key, e.old, e.last)
    [] e.kind = "code"      -> SetCodeHash(d, e.key, e.old, e.last)
    [] e.kind = "storage"   -> SetValue(d, e.key, e.old, e.last)
    [] e.kind = "acct_warm" -> SetAccountWarm(d, e.key, e.last)
    [] e.kind = "slot_warm" -> SetSlotWarm(d, e.key, e.last)
    [] e.kind = "key_warm"  -> SetWarmKey(d, e.key, e.last)
    [] e.kind = "transient" -> SetTransient(d, e.key, e.old)
    [] e.kind = "destruct"  -> IF e.old = 1 THEN d
                               ELSE [d EXCEPT !.pending = @ \ {e.key}]
    [] e.kind = "marker"    -> d

-----------------------------------------------------------------------------
(* Journaled writes used by several operations: the journal after the      *)
(* writes, and the tables after them.                                      *)

\* access_account / call_create: log a cold-to-warm transition, then touch.
LogWarmAccount(j, d, a, t) ==
  IF AccountWarm(d, a, t) THEN j ELSE Append(j, AccountWarmEntry(d, a))

\* transfer_value: both balances are logged before either is written; a
\* transfer of an account to itself does nothing.
LogTransferPayerOnly(j, d, from, to, v, t) ==
  IF from = to THEN j ELSE Append(j, BalanceEntry(d, from))
LogTransfer(j, d, from, to, v, t) ==
  IF from = to THEN j
  ELSE LET debited == SetBalance(d, from, d.balance[from] - v, t)
       IN  Append(Append(j, BalanceEntry(d, from)), BalanceEntry(debited, to))
TransferToSelfMints(d, from, to, v, t) ==
  SetBalance(SetBalance(d, from, d.balance[from] - v, t), to, d.balance[to] + v, t)
Transfer(d, from, to, v, t) ==
  IF from = to THEN d
  ELSE SetBalance(SetBalance(d, from, d.balance[from] - v, t),
                  to, d.balance[to] + v, t)

\* Insertion into pending_destruct_, with its journal entry.
MarkDestruct(d, a) == [d EXCEPT !.pending = @ \cup {a}]
=============================================================================
