--------------------------- MODULE JournalProofs ---------------------------
(***************************************************************************)
(* Lemmas about module Journal, for every set of accounts, slots and keys: *)
(* undoing a journal entry gives back the tables it was made from, and a   *)
(* journal that is a chain of such entries stays one when it grows.        *)
(***************************************************************************)
EXTENDS Journal, SequenceTheorems, TLAPS

\* Time for a loaded machine; a leaf alone takes a second.
USE SMTT(30)

\* Every entry of journal j undoes what was done after it was logged: from
\* the tables the next entry was made from (for the last one, the current
\* tables d) it leads back to the tables it was made from itself.
Chained(j, d) ==
  \A k \in 1 .. Len(j) :
    Undo(j[k], IF k = Len(j) THEN d ELSE j[k + 1].pre) = j[k].pre

\* Journal j2 is journal j with entries appended.
Grows(j, j2) ==
  /\ Len(j) <= Len(j2)
  /\ \A k \in 1 .. Len(j) : j2[k] = j[k]

\* j2 and d2 are a journal and tables that journaled writes lead to from the
\* journal j and the tables d.
Journaled(j, j2, d2) ==
  /\ j2 \in Seq(Entry)
  /\ d2 \in DB
  /\ Chained(j2, d2)
  /\ Grows(j, j2)

-----------------------------------------------------------------------------
(* The writers keep the types of the tables.                               *)

\* set_balance_at, set_nonce_at and set_warm_at of an account row.
LEMMA AccountWriteTypes ==
  ASSUME NEW d \in DB, NEW a \in Acct, NEW t \in Nat, NEW v \in Nat
  PROVE  /\ SetBalance(d, a, v, t) \in DB
         /\ SetNonce(d, a, v, t) \in DB
         /\ SetAccountWarm(d, a, t) \in DB
<1>1. SetBalance(d, a, v, t) \in DB
  BY Zenon DEF SetBalance, DB
<1>2. SetNonce(d, a, v, t) \in DB
  BY Zenon DEF SetNonce, DB
<1>3. SetAccountWarm(d, a, t) \in DB
  BY DEF SetAccountWarm, DB
<1> QED
  BY <1>1, <1>2, <1>3

\* set_code_hash_at.
LEMMA CodeWriteType ==
  ASSUME NEW d \in DB, NEW a \in Acct, NEW t \in Nat, NEW c \in Code \cup {EmptyCode}
  PROVE  SetCodeHash(d, a, c, t) \in DB
BY Zenon DEF SetCodeHash, DB

\* set_value_at and set_warm_at of a storage row.
LEMMA SlotWriteTypes ==
  ASSUME NEW d \in DB, NEW s \in Slot, NEW t \in Nat, NEW v \in Value
  PROVE  SetValue(d, s, v, t) \in DB /\ SetSlotWarm(d, s, t) \in DB
<1>1. SetValue(d, s, v, t) \in DB
  BY Zenon DEF SetValue, DB
<1>2. SetSlotWarm(d, s, t) \in DB
  BY DEF SetSlotWarm, DB
<1> QED
  BY <1>1, <1>2

\* WarmKeys::set_account and set_slot.
LEMMA KeyWriteType ==
  ASSUME NEW d \in DB, NEW k \in WarmKey, NEW t \in Nat
  PROVE  SetWarmKey(d, k, t) \in DB
BY DEF SetWarmKey, DB

\* TransientStorage::set and restore.
LEMMA TransientWriteType ==
  ASSUME NEW d \in DB, NEW a \in Acct, NEW v \in Value \cup {Absent}
  PROVE  SetTransient(d, a, v) \in DB
BY DEF SetTransient, DB

\* The insertion into pending_destruct_.
LEMMA MarkDestructType ==
  ASSUME NEW d \in DB, NEW a \in Acct
  PROVE  MarkDestruct(d, a) \in DB
BY DEF MarkDestruct, DB

\* Every log_* function makes an entry of the journal.
LEMMA EntryTypes ==
  ASSUME NEW d \in DB
  PROVE  /\ CheckpointMarker(d) \in Entry
         /\ \A a \in Acct :
              /\ NonceEntry(d, a) \in Entry
              /\ BalanceEntry(d, a) \in Entry
              /\ CodeHashEntry(d, a) \in Entry
              /\ AccountWarmEntry(d, a) \in Entry
              /\ TransientEntry(d, a) \in Entry
              /\ PendingDestructEntry(d, a) \in Entry
         /\ \A s \in Slot : StorageEntry(d, s) \in Entry /\ StorageWarmEntry(d, s) \in Entry
         /\ \A k \in WarmKey : WarmKeyEntry(d, k) \in Entry
<1>1. CheckpointMarker(d) \in Entry
  BY DEF CheckpointMarker, Entry, Kinds, NoKey
<1>2. ASSUME NEW a \in Acct
      PROVE  /\ NonceEntry(d, a) \in Entry
             /\ BalanceEntry(d, a) \in Entry
             /\ CodeHashEntry(d, a) \in Entry
             /\ AccountWarmEntry(d, a) \in Entry
             /\ TransientEntry(d, a) \in Entry
             /\ PendingDestructEntry(d, a) \in Entry
  <2> d.balance[a] \in Nat /\ d.nonce[a] \in Nat /\ d.alast[a] \in Nat
    BY DEF DB
  <2> d.code[a] \in Code \cup {EmptyCode} /\ d.transient[a] \in Value \cup {Absent}
    BY DEF DB
  <2> Value \subseteq Nat
    BY JournalAssumption
  <2>1. NonceEntry(d, a) \in Entry /\ BalanceEntry(d, a) \in Entry
    BY DEF NonceEntry, BalanceEntry, Entry, Kinds
  <2>2. CodeHashEntry(d, a) \in Entry /\ AccountWarmEntry(d, a) \in Entry
    BY DEF CodeHashEntry, AccountWarmEntry, Entry, Kinds
  <2>3. TransientEntry(d, a) \in Entry
    BY Zenon DEF TransientEntry, Entry, Kinds
  <2>4. PendingDestructEntry(d, a) \in Entry
    BY DEF PendingDestructEntry, Entry, Kinds
  <2> QED
    BY <2>1, <2>2, <2>3, <2>4
<1>3. ASSUME NEW s \in Slot
      PROVE  StorageEntry(d, s) \in Entry /\ StorageWarmEntry(d, s) \in Entry
  <2> d.value[s] \in Nat /\ d.slast[s] \in Nat
    BY JournalAssumption, Zenon DEF DB
  <2> QED
    BY DEF StorageEntry, StorageWarmEntry, Entry, Kinds
<1>4. ASSUME NEW k \in WarmKey
      PROVE  WarmKeyEntry(d, k) \in Entry
  <2> d.wlast[k] \in Nat
    BY DEF DB
  <2> QED
    BY DEF WarmKeyEntry, Entry, Kinds
<1> QED
  BY <1>1, <1>2, <1>3, <1>4

-----------------------------------------------------------------------------
(* Undoing an entry.                                                       *)

\* Journal::rollback dispatches on the kind of the entry.
LEMMA UndoCases ==
  ASSUME NEW e, NEW d
  PROVE  /\ e.kind = "nonce"     => Undo(e, d) = SetNonce(d, e.key, e.old, e.last)
         /\ e.kind = "balance"   => Undo(e, d) = SetBalance(d, e.key, e.old, e.last)
         /\ e.kind = "code"      => Undo(e, d) = SetCodeHash(d, e.key, e.old, e.last)
         /\ e.kind = "storage"   => Undo(e, d) = SetValue(d, e.key, e.old, e.last)
         /\ e.kind = "acct_warm" => Undo(e, d) = SetAccountWarm(d, e.key, e.last)
         /\ e.kind = "slot_warm" => Undo(e, d) = SetSlotWarm(d, e.key, e.last)
         /\ e.kind = "key_warm"  => Undo(e, d) = SetWarmKey(d, e.key, e.last)
         /\ e.kind = "transient" => Undo(e, d) = SetTransient(d, e.key, e.old)
         /\ e.kind = "destruct"  => Undo(e, d) = IF e.old = 1 THEN d
                                      ELSE [d EXCEPT !.pending = @ \ {e.key}]
         /\ e.kind = "marker"    => Undo(e, d) = d
BY DEF Undo

\* set_nonce_at is undone by what log_nonce kept.
LEMMA UndoNonce ==
  ASSUME NEW d \in DB, NEW a \in Acct, NEW v, NEW t
  PROVE  Undo(NonceEntry(d, a), SetNonce(d, a, v, t)) = d
<1> DEFINE e == NonceEntry(d, a)
           w == SetNonce(d, a, v, t)
<1>1. Undo(e, w) = SetNonce(w, a, d.nonce[a], d.alast[a])
  BY UndoCases DEF NonceEntry
<1>2. SetNonce(w, a, d.nonce[a], d.alast[a]) = d
  BY Zenon DEF SetNonce, DB
<1> QED
  BY <1>1, <1>2

\* set_balance_at is undone by what log_balance kept.
LEMMA UndoBalance ==
  ASSUME NEW d \in DB, NEW a \in Acct, NEW v, NEW t
  PROVE  Undo(BalanceEntry(d, a), SetBalance(d, a, v, t)) = d
<1> DEFINE e == BalanceEntry(d, a)
           w == SetBalance(d, a, v, t)
<1>1. Undo(e, w) = SetBalance(w, a, d.balance[a], d.alast[a])
  BY UndoCases DEF BalanceEntry
<1>2. SetBalance(w, a, d.balance[a], d.alast[a]) = d
  BY Zenon DEF SetBalance, DB
<1> QED
  BY <1>1, <1>2

\* set_code_hash_at is undone by what log_code_hash kept.
LEMMA UndoCodeHash ==
  ASSUME NEW d \in DB, NEW a \in Acct, NEW v, NEW t
  PROVE  Undo(CodeHashEntry(d, a), SetCodeHash(d, a, v, t)) = d
<1> DEFINE e == CodeHashEntry(d, a)
           w == SetCodeHash(d, a, v, t)
<1>1. Undo(e, w) = SetCodeHash(w, a, d.code[a], d.alast[a])
  BY UndoCases DEF CodeHashEntry
<1>2. SetCodeHash(w, a, d.code[a], d.alast[a]) = d
  BY Zenon DEF SetCodeHash, DB
<1> QED
  BY <1>1, <1>2

\* set_value_at is undone by what log_storage kept.
LEMMA UndoStorage ==
  ASSUME NEW d \in DB, NEW s \in Slot, NEW v, NEW t
  PROVE  Undo(StorageEntry(d, s), SetValue(d, s, v, t)) = d
<1> DEFINE e == StorageEntry(d, s)
           w == SetValue(d, s, v, t)
<1>1. Undo(e, w) = SetValue(w, s, d.value[s], d.slast[s])
  BY UndoCases DEF StorageEntry
<1>2. SetValue(w, s, d.value[s], d.slast[s]) = d
  BY Zenon DEF SetValue, DB
<1> QED
  BY <1>1, <1>2

\* A cold account warmed is cold again after log_account_warm's entry.
LEMMA UndoAccountWarm ==
  ASSUME NEW d \in DB, NEW a \in Acct, NEW t
  PROVE  Undo(AccountWarmEntry(d, a), SetAccountWarm(d, a, t)) = d
<1> DEFINE e == AccountWarmEntry(d, a)
           w == SetAccountWarm(d, a, t)
<1>1. Undo(e, w) = SetAccountWarm(w, a, d.alast[a])
  BY UndoCases DEF AccountWarmEntry
<1>2. SetAccountWarm(w, a, d.alast[a]) = d
  BY Zenon DEF SetAccountWarm, DB
<1> QED
  BY <1>1, <1>2

\* A cold slot warmed is cold again after log_storage_warm's entry.
LEMMA UndoStorageWarm ==
  ASSUME NEW d \in DB, NEW s \in Slot, NEW t
  PROVE  Undo(StorageWarmEntry(d, s), SetSlotWarm(d, s, t)) = d
<1> DEFINE e == StorageWarmEntry(d, s)
           w == SetSlotWarm(d, s, t)
<1>1. Undo(e, w) = SetSlotWarm(w, s, d.slast[s])
  BY UndoCases DEF StorageWarmEntry
<1>2. SetSlotWarm(w, s, d.slast[s]) = d
  BY Zenon DEF SetSlotWarm, DB
<1> QED
  BY <1>1, <1>2

\* A key without a row, likewise (log_warm_key_account, log_warm_key_slot).
LEMMA UndoWarmKey ==
  ASSUME NEW d \in DB, NEW k \in WarmKey, NEW t
  PROVE  Undo(WarmKeyEntry(d, k), SetWarmKey(d, k, t)) = d
<1> DEFINE e == WarmKeyEntry(d, k)
           w == SetWarmKey(d, k, t)
<1>1. Undo(e, w) = SetWarmKey(w, k, d.wlast[k])
  BY UndoCases DEF WarmKeyEntry
<1>2. SetWarmKey(w, k, d.wlast[k]) = d
  BY Zenon DEF SetWarmKey, DB
<1> QED
  BY <1>1, <1>2

\* A transient write is undone by log_transient's entry, absence included.
LEMMA UndoTransient ==
  ASSUME NEW d \in DB, NEW a \in Acct, NEW v
  PROVE  Undo(TransientEntry(d, a), SetTransient(d, a, v)) = d
<1> DEFINE e == TransientEntry(d, a)
           w == SetTransient(d, a, v)
<1>1. Undo(e, w) = SetTransient(w, a, d.transient[a])
  BY UndoCases DEF TransientEntry
<1>2. SetTransient(w, a, d.transient[a]) = d
  BY Zenon DEF SetTransient, DB
<1> QED
  BY <1>1, <1>2

\* An insertion into pending_destruct_ is undone by its entry, and only if it
\* inserted anything.
LEMMA UndoPendingDestruct ==
  ASSUME NEW d \in DB, NEW a \in Acct
  PROVE  Undo(PendingDestructEntry(d, a), MarkDestruct(d, a)) = d
<1> DEFINE e == PendingDestructEntry(d, a)
           w == MarkDestruct(d, a)
<1>1. Undo(e, w) = IF a \in d.pending THEN w ELSE [w EXCEPT !.pending = @ \ {a}]
  BY UndoCases DEF PendingDestructEntry
<1>2. CASE a \in d.pending
  <2>1. w = d
    BY <1>2 DEF MarkDestruct, DB
  <2> QED
    BY <1>1, <1>2, <2>1
<1>3. CASE a \notin d.pending
  <2>1. (d.pending \cup {a}) \ {a} = d.pending
    BY <1>3
  <2>2. [w EXCEPT !.pending = @ \ {a}] = d
    BY <2>1, Zenon DEF MarkDestruct, DB
  <2> QED
    BY <1>1, <1>3, <2>2
<1> QED
  BY <1>2, <1>3

\* A checkpoint's marker changes nothing.
LEMMA UndoMarker ==
  ASSUME NEW d
  PROVE  Undo(CheckpointMarker(d), d) = d
BY UndoCases DEF CheckpointMarker

-----------------------------------------------------------------------------
(* Journals that are chains.                                               *)

\* A journal that grows twice has grown.
LEMMA GrowsTransitive ==
  ASSUME NEW j1 \in Seq(Entry), NEW j2 \in Seq(Entry), NEW j3 \in Seq(Entry),
         Grows(j1, j2), Grows(j2, j3)
  PROVE  Grows(j1, j3)
BY DEF Grows

\* A journal left alone has (trivially) grown.
LEMMA GrowsReflexive ==
  ASSUME NEW j \in Seq(Entry)
  PROVE  Grows(j, j)
BY DEF Grows

\* Logging an entry that undoes the write that follows it extends the chain.
LEMMA Push ==
  ASSUME NEW j \in Seq(Entry), NEW d \in DB, Chained(j, d),
         NEW e \in Entry, e.pre = d, NEW d2 \in DB, Undo(e, d2) = d
  PROVE  Journaled(j, Append(j, e), d2)
<1> DEFINE j2 == Append(j, e)
<1>1. /\ j2 \in Seq(Entry)
      /\ Len(j2) = Len(j) + 1
      /\ j2[Len(j) + 1] = e
      /\ \A k \in 1 .. Len(j) : j2[k] = j[k]
  OBVIOUS
<1>2. ASSUME NEW k \in 1 .. Len(j2)
      PROVE  Undo(j2[k], IF k = Len(j2) THEN d2 ELSE j2[k + 1].pre) = j2[k].pre
  <2>1. CASE k = Len(j) + 1
    BY <1>1, <2>1
  <2>2. CASE k = Len(j)
    <3>1. k \in 1 .. Len(j) /\ j2[k] = j[k] /\ j2[k + 1].pre = d /\ k # Len(j2)
      BY <1>1, <2>2
    <3> QED
      BY <2>2, <3>1 DEF Chained
  <2>3. CASE k < Len(j)
    <3>1. k \in 1 .. Len(j) /\ k + 1 \in 1 .. Len(j) /\ k # Len(j2) /\ k # Len(j)
      BY <1>1, <2>3
    <3>2. j2[k] = j[k] /\ j2[k + 1] = j[k + 1]
      BY <1>1, <3>1
    <3> QED
      BY <3>1, <3>2 DEF Chained
  <2> QED
    BY <1>1, <2>1, <2>2, <2>3
<1>3. Chained(j2, d2)
  BY <1>2 DEF Chained
<1>4. Grows(j, j2)
  BY <1>1 DEF Grows
<1> HIDE DEF j2
<1> QED
  BY <1>1, <1>3, <1>4 DEF Journaled, j2

\* A sequence without its last element.
LEMMA DropLast ==
  ASSUME NEW S, NEW q \in Seq(S), Len(q) > 0
  PROVE  /\ SubSeq(q, 1, Len(q) - 1) \in Seq(S)
         /\ Len(SubSeq(q, 1, Len(q) - 1)) = Len(q) - 1
         /\ \A k \in 1 .. Len(q) - 1 : SubSeq(q, 1, Len(q) - 1)[k] = q[k]
<1> DEFINE n == Len(q) - 1
<1>1. n \in Nat /\ 1 \in Int /\ n \in Int /\ \A i \in 1 .. n : q[i] \in S
  OBVIOUS
<1> HIDE DEF n
<1>2. /\ SubSeq(q, 1, n) \in Seq(S)
      /\ Len(SubSeq(q, 1, n)) = IF 1 <= n THEN n - 1 + 1 ELSE 0
      /\ \A i \in 1 .. n - 1 + 1 : SubSeq(q, 1, n)[i] = q[1 + i - 1]
  BY <1>1, SubSeqProperties
<1>3. Len(SubSeq(q, 1, n)) = n
  BY <1>1, <1>2
<1>4. \A k \in 1 .. n : SubSeq(q, 1, n)[k] = q[k]
  <2> TAKE k \in 1 .. n
  <2>1. k \in 1 .. n - 1 + 1 /\ 1 + k - 1 = k
    BY <1>1
  <2> QED
    BY <1>2, <2>1
<1> QED
  BY <1>2, <1>3, <1>4 DEF n

\* Undoing the last entry gives back the tables it was made from, and the
\* rest is a chain that ends there.
LEMMA Pop ==
  ASSUME NEW j \in Seq(Entry), NEW d \in DB, Chained(j, d), Len(j) > 0
  PROVE  LET e  == j[Len(j)]
             j2 == SubSeq(j, 1, Len(j) - 1)
         IN  /\ Undo(e, d) = e.pre
             /\ j2 \in Seq(Entry)
             /\ Len(j2) = Len(j) - 1
             /\ \A k \in 1 .. Len(j) - 1 : j2[k] = j[k]
             /\ Chained(j2, e.pre)
<1> DEFINE e  == j[Len(j)]
           j2 == SubSeq(j, 1, Len(j) - 1)
<1>1. Undo(e, d) = e.pre
  <2>1. Len(j) \in 1 .. Len(j)
    OBVIOUS
  <2> QED
    BY <2>1 DEF Chained
<1>2. /\ j2 \in Seq(Entry)
      /\ Len(j2) = Len(j) - 1
      /\ \A k \in 1 .. Len(j) - 1 : j2[k] = j[k]
  BY DropLast
<1> HIDE DEF j2
<1>3. ASSUME NEW k \in 1 .. Len(j2)
      PROVE  Undo(j2[k], IF k = Len(j2) THEN e.pre ELSE j2[k + 1].pre) = j2[k].pre
  <2>1. k \in 1 .. Len(j) /\ k # Len(j) /\ j2[k] = j[k]
    BY <1>2
  <2>2. Undo(j[k], j[k + 1].pre) = j[k].pre
    BY <2>1 DEF Chained
  <2>3. CASE k = Len(j2)
    BY <1>2, <2>1, <2>2, <2>3
  <2>4. CASE k # Len(j2)
    <3>1. k + 1 \in 1 .. Len(j) - 1
      BY <1>2, <2>4
    <3> QED
      BY <1>2, <2>1, <2>2, <2>4, <3>1
  <2> QED
    BY <2>3, <2>4
<1>4. Chained(j2, e.pre)
  BY <1>3 DEF Chained
<1> QED
  BY <1>1, <1>2, <1>4 DEF j2

\* A marker on its own, and a checkpoint on top of a chain.
LEMMA PushMarker ==
  ASSUME NEW j \in Seq(Entry), NEW d \in DB, Chained(j, d)
  PROVE  Journaled(j, Append(j, CheckpointMarker(d)), d)
<1>1. CheckpointMarker(d) \in Entry /\ CheckpointMarker(d).pre = d
  BY EntryTypes DEF CheckpointMarker
<1> QED
  BY <1>1, Push, UndoMarker

\* The journaled row writes.
LEMMA PushNonce ==
  ASSUME NEW j \in Seq(Entry), NEW d \in DB, Chained(j, d),
         NEW a \in Acct, NEW v \in Nat, NEW t \in Nat
  PROVE  Journaled(j, Append(j, NonceEntry(d, a)), SetNonce(d, a, v, t))
<1>1. NonceEntry(d, a) \in Entry /\ NonceEntry(d, a).pre = d
  BY EntryTypes DEF NonceEntry
<1>2. SetNonce(d, a, v, t) \in DB
  BY AccountWriteTypes
<1> QED
  BY <1>1, <1>2, Push, UndoNonce

\* log_balance, then set_balance_at.
LEMMA PushBalance ==
  ASSUME NEW j \in Seq(Entry), NEW d \in DB, Chained(j, d),
         NEW a \in Acct, NEW v \in Nat, NEW t \in Nat
  PROVE  Journaled(j, Append(j, BalanceEntry(d, a)), SetBalance(d, a, v, t))
<1>1. BalanceEntry(d, a) \in Entry /\ BalanceEntry(d, a).pre = d
  BY EntryTypes DEF BalanceEntry
<1>2. SetBalance(d, a, v, t) \in DB
  BY AccountWriteTypes
<1> QED
  BY <1>1, <1>2, Push, UndoBalance

\* access_account's and call_create's warming, journaled if it was cold.
LEMMA WarmAccountJournaled ==
  ASSUME NEW j \in Seq(Entry), NEW d \in DB, Chained(j, d),
         NEW a \in Acct, NEW t \in Nat
  PROVE  Journaled(j, LogWarmAccount(j, d, a, t), TouchAccount(d, a, t))
<1>0. d.alast[a] \in Nat
  BY DEF DB
<1>1. CASE d.alast[a] = t
  <2>1. LogWarmAccount(j, d, a, t) = j /\ TouchAccount(d, a, t) = d
    BY <1>0, <1>1 DEF LogWarmAccount, TouchAccount, AccountWarm
  <2> QED
    BY <2>1, GrowsReflexive DEF Journaled
<1>2. CASE d.alast[a] # t
  <2>1. LogWarmAccount(j, d, a, t) = Append(j, AccountWarmEntry(d, a))
    BY <1>0, <1>2 DEF LogWarmAccount, AccountWarm
  <2>2. \E u \in Nat : TouchAccount(d, a, t) = SetAccountWarm(d, a, u)
    <3>1. d = SetAccountWarm(d, a, d.alast[a])
      BY DEF SetAccountWarm, DB
    <3> QED
      BY <1>0, <3>1 DEF TouchAccount
  <2>3. PICK u \in Nat : TouchAccount(d, a, t) = SetAccountWarm(d, a, u)
    BY <2>2
  <2>4. AccountWarmEntry(d, a) \in Entry /\ AccountWarmEntry(d, a).pre = d
    BY EntryTypes DEF AccountWarmEntry
  <2>5. SetAccountWarm(d, a, u) \in DB
    BY AccountWriteTypes
  <2> QED
    BY <2>1, <2>3, <2>4, <2>5, Push, UndoAccountWarm
<1> QED
  BY <1>1, <1>2

\* access_storage's warming of a cold slot.
LEMMA WarmSlotJournaled ==
  ASSUME NEW j \in Seq(Entry), NEW d \in DB, Chained(j, d),
         NEW s \in Slot, NEW t \in Nat
  PROVE  Journaled(j, Append(j, StorageWarmEntry(d, s)), TouchSlot(d, s, t))
<1>1. \E u \in Nat : TouchSlot(d, s, t) = SetSlotWarm(d, s, u)
  <2>1. d = SetSlotWarm(d, s, d.slast[s]) /\ d.slast[s] \in Nat
    BY DEF SetSlotWarm, DB
  <2> QED
    BY <2>1 DEF TouchSlot
<1>2. PICK u \in Nat : TouchSlot(d, s, t) = SetSlotWarm(d, s, u)
  BY <1>1
<1>3. StorageWarmEntry(d, s) \in Entry /\ StorageWarmEntry(d, s).pre = d
  BY EntryTypes DEF StorageWarmEntry
<1>4. SetSlotWarm(d, s, u) \in DB
  BY SlotWriteTypes, JournalAssumption
<1> QED
  BY <1>2, <1>3, <1>4, Push, UndoStorageWarm

\* transfer_value, between distinct accounts or an account and itself.
LEMMA TransferJournaled ==
  ASSUME NEW j \in Seq(Entry), NEW d \in DB, Chained(j, d),
         NEW from \in Acct, NEW to \in Acct, NEW v \in Nat, NEW t \in Nat,
         d.balance[from] >= v
  PROVE  Journaled(j, LogTransfer(j, d, from, to, v, t), Transfer(d, from, to, v, t))
<1>1. CASE from = to
  BY <1>1, GrowsReflexive DEF Journaled, LogTransfer, Transfer
<1>2. CASE from # to
  <2> DEFINE d1 == SetBalance(d, from, d.balance[from] - v, t)
             j1 == Append(j, BalanceEntry(d, from))
             j2 == Append(j1, BalanceEntry(d1, to))
             d2 == SetBalance(d1, to, d.balance[to] + v, t)
  <2>1. d.balance[from] - v \in Nat /\ d.balance[to] + v \in Nat
    BY DEF DB
  <2>2. Journaled(j, j1, d1)
    BY <2>1, PushBalance
  <2> HIDE DEF j1, d1
  <2>3. Journaled(j1, j2, d2)
    BY <2>1, <2>2, PushBalance DEF Journaled
  <2>4. Journaled(j, j2, d2)
    BY <2>2, <2>3, GrowsTransitive, Zenon DEF Journaled
  <2>5. LogTransfer(j, d, from, to, v, t) = j2 /\ Transfer(d, from, to, v, t) = d2
    BY <1>2 DEF LogTransfer, Transfer, j1, d1
  <2> QED
    BY <2>4, <2>5
<1> QED
  BY <1>1, <1>2

\* The other journaled writes of the host operations.
LEMMA PushWarmKey ==
  ASSUME NEW j \in Seq(Entry), NEW d \in DB, Chained(j, d),
         NEW k \in WarmKey, NEW t \in Nat
  PROVE  Journaled(j, Append(j, WarmKeyEntry(d, k)), SetWarmKey(d, k, t))
<1>1. WarmKeyEntry(d, k) \in Entry /\ WarmKeyEntry(d, k).pre = d
  BY EntryTypes DEF WarmKeyEntry
<1> QED
  BY <1>1, Push, UndoWarmKey, KeyWriteType

\* log_storage, then set_value_at.
LEMMA PushStorage ==
  ASSUME NEW j \in Seq(Entry), NEW d \in DB, Chained(j, d),
         NEW s \in Slot, NEW v \in Value, NEW t \in Nat
  PROVE  Journaled(j, Append(j, StorageEntry(d, s)), SetValue(d, s, v, t))
<1>1. StorageEntry(d, s) \in Entry /\ StorageEntry(d, s).pre = d
  BY EntryTypes DEF StorageEntry
<1>2. SetValue(d, s, v, t) \in DB
  BY SlotWriteTypes
<1> QED
  BY <1>1, <1>2, Push, UndoStorage

\* log_transient, then TransientStorage::set.
LEMMA PushTransient ==
  ASSUME NEW j \in Seq(Entry), NEW d \in DB, Chained(j, d),
         NEW a \in Acct, NEW v \in Value
  PROVE  Journaled(j, Append(j, TransientEntry(d, a)), SetTransient(d, a, v))
<1>1. TransientEntry(d, a) \in Entry /\ TransientEntry(d, a).pre = d
  BY EntryTypes DEF TransientEntry
<1> QED
  BY <1>1, Push, UndoTransient, TransientWriteType

\* log_code_hash, then set_code_hash_at.
LEMMA PushCodeHash ==
  ASSUME NEW j \in Seq(Entry), NEW d \in DB, Chained(j, d),
         NEW a \in Acct, NEW c \in Code \cup {EmptyCode}, NEW t \in Nat
  PROVE  Journaled(j, Append(j, CodeHashEntry(d, a)), SetCodeHash(d, a, c, t))
<1>1. CodeHashEntry(d, a) \in Entry /\ CodeHashEntry(d, a).pre = d
  BY EntryTypes DEF CodeHashEntry
<1> QED
  BY <1>1, Push, UndoCodeHash, CodeWriteType

\* log_pending_destruct, then the insertion.
LEMMA PushPendingDestruct ==
  ASSUME NEW j \in Seq(Entry), NEW d \in DB, Chained(j, d), NEW a \in Acct
  PROVE  Journaled(j, Append(j, PendingDestructEntry(d, a)), MarkDestruct(d, a))
<1>1. PendingDestructEntry(d, a) \in Entry /\ PendingDestructEntry(d, a).pre = d
  BY EntryTypes DEF PendingDestructEntry
<1> QED
  BY <1>1, Push, UndoPendingDestruct, MarkDestructType

\* Journaled writes one after the other.
LEMMA JournaledTransitive ==
  ASSUME NEW j1 \in Seq(Entry), NEW j2, NEW d2, NEW j3, NEW d3,
         Journaled(j1, j2, d2), Journaled(j2, j3, d3)
  PROVE  Journaled(j1, j3, d3)
BY GrowsTransitive DEF Journaled
=============================================================================
