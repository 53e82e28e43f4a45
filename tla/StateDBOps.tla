---------------------------- MODULE StateDBOps -----------------------------
(***************************************************************************)
(* The inductive invariant of StateDB, the shapes of step that preserve    *)
(* it, and one lemma per host operation that opens no frame.               *)
(***************************************************************************)
EXTENDS StateDB, JournalProofs

\* Time for a loaded machine; a leaf alone takes a second.
USE SMTT(30)

\* Frame i's checkpoint is a marker of the journal that was made from the
\* tables the frame saved, or the rollback of the frame has just undone it.
Anchored(i) ==
  \/ /\ frames[i].cp \in 1 .. Len(journal)
     /\ journal[frames[i].cp].kind = "marker"
     /\ journal[frames[i].cp].pre = frames[i].saved
  \/ /\ i = Depth
     /\ phase = "rollback"
     /\ frames[i].cp = Len(journal) + 1
     /\ db = frames[i].saved

\* The inductive invariant: the journal is a chain that leads from the
\* current tables back through the tables of every live checkpoint.
Inv ==
  /\ TypeOK
  /\ phase \in {"run", "rollback"} <=> Depth > 0
  /\ phase \in {"start", "run", "rollback"} => Chained(journal, db)
  /\ phase = "start" =>
       /\ journal = <<CheckpointMarker(db), CheckpointMarker(db)>>
       /\ db.balance[tx.sender] >= tx.value
  /\ \A i \in 1 .. Depth : Anchored(i)
  /\ \A i \in 1 .. Depth : frames[i].log_count <= logs
  /\ \A i, k \in 1 .. Depth :
       i < k => frames[i].cp < frames[k].cp /\ frames[i].log_count <= frames[k].log_count

-----------------------------------------------------------------------------

\* The fields of a live frame and of the running one.
LEMMA FrameFields ==
  ASSUME TypeOK, NEW i \in 1 .. Depth
  PROVE  /\ frames[i] \in Frame /\ frames[i].self \in Acct /\ frames[i].cp \in Nat
         /\ frames[i].log_count \in Nat /\ frames[i].saved \in DB
<1>1. frames[i] \in Frame
  BY DEF TypeOK, Depth
<1> QED
  BY <1>1 DEF Frame

\* Inv gives the properties the model checker checks.
LEMMA InvImplies == Inv => TypeOK /\ RollbackExact /\ CheckpointsNest
<1> SUFFICES ASSUME Inv
             PROVE  TypeOK /\ RollbackExact /\ CheckpointsNest
  OBVIOUS
<1>0. Depth \in Nat /\ Len(journal) \in Nat
  BY DEF Inv, TypeOK, Depth
<1>1. ASSUME phase = "rollback", Len(journal) < Top.cp
      PROVE  db = Top.saved
  <2>1. Depth \in 1 .. Depth
    BY <1>0, <1>1 DEF Inv
  <2>2. Anchored(Depth)
    BY <2>1 DEF Inv
  <2> QED
    BY <1>0, <1>1, <2>1, <2>2 DEF Anchored, Top
<1>2. RollbackExact
  BY <1>1 DEF RollbackExact
<1>3. \A i \in 1 .. Depth :
        \/ frames[i].cp <= Len(journal) /\ journal[frames[i].cp].kind = "marker"
        \/ i = Depth /\ phase = "rollback" /\ frames[i].cp = Len(journal) + 1
  BY <1>0 DEF Inv, Anchored
<1>4. CheckpointsNest
  BY <1>3 DEF Inv, CheckpointsNest
<1> QED
  BY <1>2, <1>4 DEF Inv

\* A step of the running frame that appends to the journal and keeps the
\* frames' checkpoints.
LEMMA HostStep ==
  ASSUME Inv, phase = "run", phase' = "run",
         Journaled(journal, journal', db'),
         logs' \in Nat, logs <= logs',
         created' \subseteq Acct, tx_original' \in [Slot -> Value],
         frames' \in Seq(Frame), Len(frames') = Len(frames),
         \A i \in 1 .. Len(frames) :
            /\ frames'[i].cp = frames[i].cp
            /\ frames'[i].saved = frames[i].saved
            /\ frames'[i].log_count = frames[i].log_count,
         UNCHANGED <<stage, tx_counter, wiped, tx, txStart, supply>>
  PROVE  Inv'
<1>0. Depth \in Nat /\ Len(journal) \in Nat /\ Depth' = Depth /\ Len(journal') \in Nat
      /\ frames \in Seq(Frame) /\ logs \in Nat
  BY DEF Inv, TypeOK, Depth, Journaled
<1>1. TypeOK'
  BY DEF Inv, TypeOK, Journaled
<1>2. ASSUME NEW i \in 1 .. Depth
      PROVE  Anchored(i)'
  <2>1. Anchored(i)
    BY DEF Inv
  <2>2. /\ frames[i].cp \in 1 .. Len(journal)
        /\ journal[frames[i].cp].kind = "marker"
        /\ journal[frames[i].cp].pre = frames[i].saved
    BY <2>1 DEF Anchored
  <2>3. Len(journal) <= Len(journal') /\ journal'[frames[i].cp] = journal[frames[i].cp]
    BY <2>2 DEF Journaled, Grows
  <2>4. frames'[i].cp = frames[i].cp /\ frames'[i].saved = frames[i].saved
    BY DEF Depth
  <2> QED
    BY <1>0, <2>2, <2>3, <2>4 DEF Anchored
<1>3. \A i \in 1 .. Depth' : frames'[i].log_count <= logs'
  <2> SUFFICES ASSUME NEW i \in 1 .. Depth
               PROVE  frames'[i].log_count <= logs'
    BY <1>0
  <2>1. frames[i].log_count <= logs /\ frames'[i].log_count = frames[i].log_count
    BY DEF Inv, Depth
  <2>2. frames[i].log_count \in Nat
    BY FrameFields DEF Inv
  <2> QED
    BY <1>0, <2>1, <2>2
<1>4. ASSUME NEW i \in 1 .. Depth', NEW k \in 1 .. Depth', i < k
      PROVE  frames'[i].cp < frames'[k].cp /\ frames'[i].log_count <= frames'[k].log_count
  <2>1. i \in 1 .. Depth /\ k \in 1 .. Depth
    BY <1>0
  <2> QED
    BY <1>4, <2>1 DEF Inv, Depth
<1>5. Chained(journal', db')
  BY DEF Journaled
<1> QED
  BY <1>0, <1>1, <1>2, <1>3, <1>4, <1>5 DEF Inv

\* The running frame.
LEMMA TopFacts ==
  ASSUME Inv, phase \in {"run", "rollback"}
  PROVE  /\ Depth \in Nat /\ Depth > 0 /\ Depth \in 1 .. Depth
         /\ Top \in Frame /\ Self \in Acct /\ Top.cp \in Nat /\ Top.log_count \in Nat
         /\ Top.saved \in DB
         /\ journal \in Seq(Entry) /\ db \in DB /\ Chained(journal, db)
         /\ tx_counter \in Nat /\ logs \in Nat
         /\ created \subseteq Acct /\ tx_original \in [Slot -> Value]
         /\ frames \in Seq(Frame)
<1>1. TypeOK /\ Depth > 0 /\ Chained(journal, db)
  BY DEF Inv
<1>2. Depth \in Nat
  BY <1>1 DEF TypeOK, Depth
<1>3. Depth \in 1 .. Depth
  BY <1>1, <1>2
<1> QED
  BY <1>1, <1>2, <1>3, FrameFields DEF TypeOK, Top, Self

\* A step that pushes a frame anchored on a marker it appends.
LEMMA PushFrame ==
  ASSUME Inv, phase = "run", phase' \in {"run", "rollback"},
         NEW f \in Frame, frames' = Append(frames, f), f.log_count = logs,
         Journaled(journal, journal', db'),
         f.cp \in Len(journal) + 1 .. Len(journal'),
         journal'[f.cp].kind = "marker", journal'[f.cp].pre = f.saved,
         logs' \in Nat, logs <= logs',
         created' \subseteq Acct,
         UNCHANGED <<stage, tx_counter, tx_original, wiped, tx, txStart, supply>>
  PROVE  Inv'
<1>0. /\ Depth \in Nat /\ frames \in Seq(Frame) /\ journal \in Seq(Entry)
      /\ Len(journal) \in Nat /\ Len(journal') \in Nat /\ logs \in Nat
  BY TopFacts DEF Journaled
<1>1. /\ frames' \in Seq(Frame) /\ Depth' = Depth + 1
      /\ frames'[Depth + 1] = f
      /\ \A i \in 1 .. Depth : frames'[i] = frames[i]
  BY <1>0 DEF Depth
<1>2. TypeOK'
  BY <1>1 DEF Inv, TypeOK, Journaled
<1>3. ASSUME NEW i \in 1 .. Depth
      PROVE  /\ frames[i].cp \in 1 .. Len(journal)
             /\ journal[frames[i].cp].kind = "marker"
             /\ journal[frames[i].cp].pre = frames[i].saved
             /\ frames[i].log_count \in Nat
             /\ frames[i].log_count <= logs
  <2>1. Anchored(i)
    BY DEF Inv
  <2>2. frames[i].log_count \in Nat
    BY FrameFields DEF Inv
  <2> QED
    BY <2>1, <2>2 DEF Anchored, Inv
<1>4. ASSUME NEW i \in 1 .. Depth'
      PROVE  Anchored(i)'
  <2>1. CASE i = Depth + 1
    <3>0. f.cp \in 1 .. Len(journal')
      BY <1>0
    <3>1. frames'[i] = f
      BY <1>1, <2>1, Zenon
    <3>2. /\ frames'[i].cp \in 1 .. Len(journal')
          /\ journal'[frames'[i].cp].kind = "marker"
          /\ journal'[frames'[i].cp].pre = frames'[i].saved
      BY <3>0, <3>1
    <3> QED
      BY <3>2, Zenon DEF Anchored
  <2>2. CASE i # Depth + 1
    <3>1. i \in 1 .. Depth
      BY <1>0, <1>1, <2>2
    <3>2. Len(journal) <= Len(journal') /\ journal'[frames[i].cp] = journal[frames[i].cp]
      BY <1>3, <3>1 DEF Journaled, Grows
    <3>3. frames'[i] = frames[i] /\ frames[i].cp \in 1 .. Len(journal')
      BY <1>0, <1>1, <1>3, <3>1, <3>2
    <3> QED
      BY <1>3, <3>1, <3>2, <3>3 DEF Anchored
  <2> QED
    BY <2>1, <2>2
<1>5. ASSUME NEW i \in 1 .. Depth'
      PROVE  frames'[i].log_count <= logs'
  <2>1. CASE i = Depth + 1
    BY <1>0, <1>1, <2>1, Zenon
  <2>2. CASE i # Depth + 1
    <3>1. i \in 1 .. Depth
      BY <1>0, <1>1, <2>2
    <3> QED
      BY <1>0, <1>1, <1>3, <3>1
  <2> QED
    BY <2>1, <2>2, Zenon
<1>6. ASSUME NEW i \in 1 .. Depth', NEW k \in 1 .. Depth', i < k
      PROVE  frames'[i].cp < frames'[k].cp /\ frames'[i].log_count <= frames'[k].log_count
  <2>0. i \in 1 .. Depth
    BY <1>0, <1>1, <1>6
  <2>1. i \in 1 .. Depth /\ frames'[i] = frames[i]
    BY <1>1, <2>0, Zenon
  <2>2. CASE k = Depth + 1
    <3>1. frames'[k] = f
      BY <1>1, <2>2, Zenon
    <3> QED
      BY <1>0, <1>3, <2>1, <3>1
  <2>3. CASE k # Depth + 1
    <3>1. k \in 1 .. Depth
      BY <1>0, <1>1, <2>3
    <3>2. frames'[k] = frames[k]
      BY <1>1, <3>1, Zenon
    <3> QED
      BY <1>6, <2>1, <3>1, <3>2 DEF Inv
  <2> QED
    BY <2>2, <2>3, Zenon
<1>7. Chained(journal', db')
  BY DEF Journaled
<1>8. phase' # "start" /\ Depth' > 0
  BY <1>0, <1>1
<1> QED
  BY <1>2, <1>4, <1>5, <1>6, <1>7, <1>8, Zenon DEF Inv

\* A step that pops the running frame.
LEMMA PopFrame ==
  ASSUME Inv, phase \in {"run", "rollback"}, phase' = PhaseAfterPop,
         frames' = Butlast,
         Journaled(journal, journal', db'),
         logs' \in Nat, \A i \in 1 .. Depth - 1 : frames[i].log_count <= logs',
         UNCHANGED <<stage, tx_counter, tx_original, created, wiped, tx, txStart, supply>>
  PROVE  Inv'
<1>0. /\ Depth \in Nat /\ Depth > 0 /\ frames \in Seq(Frame) /\ journal \in Seq(Entry)
      /\ Len(journal) \in Nat /\ Len(journal') \in Nat /\ TypeOK
  BY TopFacts DEF Journaled, Inv
<1>1. /\ frames' \in Seq(Frame) /\ Depth' = Depth - 1
      /\ \A i \in 1 .. Depth - 1 : frames'[i] = frames[i]
  BY <1>0, DropLast DEF Depth, Butlast
<1>2. phase' \in {"idle", "run", "settle"} /\ (phase' = "run" <=> Depth > 1)
  BY DEF PhaseAfterPop
<1>3. TypeOK'
  BY <1>0, <1>1, <1>2 DEF TypeOK, Journaled
<1>4. ASSUME NEW i \in 1 .. Depth - 1
      PROVE  Anchored(i)'
  <2>1. i \in 1 .. Depth /\ i # Depth
    BY <1>0
  <2>2. /\ frames[i].cp \in 1 .. Len(journal)
        /\ journal[frames[i].cp].kind = "marker"
        /\ journal[frames[i].cp].pre = frames[i].saved
    BY <2>1 DEF Inv, Anchored
  <2>3. Len(journal) <= Len(journal') /\ journal'[frames[i].cp] = journal[frames[i].cp]
    BY <2>2 DEF Journaled, Grows
  <2>4. frames[i].cp \in 1 .. Len(journal') /\ frames'[i] = frames[i]
    BY <1>0, <1>1, <2>2, <2>3
  <2> QED
    BY <2>2, <2>3, <2>4 DEF Anchored
<1>5. \A i \in 1 .. Depth' : frames'[i].log_count <= logs'
  BY <1>1
<1>6. ASSUME NEW i \in 1 .. Depth', NEW k \in 1 .. Depth', i < k
      PROVE  frames'[i].cp < frames'[k].cp /\ frames'[i].log_count <= frames'[k].log_count
  <2>1. /\ i \in 1 .. Depth - 1 /\ k \in 1 .. Depth - 1
        /\ i \in 1 .. Depth /\ k \in 1 .. Depth
    BY <1>0, <1>1
  <2>2. frames'[i] = frames[i] /\ frames'[k] = frames[k]
    BY <1>1, <2>1
  <2> QED
    BY <1>6, <2>1, <2>2 DEF Inv
<1>7. Chained(journal', db')
  BY DEF Journaled
<1>8. phase' # "start" /\ (phase' \in {"run", "rollback"} <=> Depth' > 0)
  BY <1>0, <1>1, <1>2
<1> QED
  BY <1>1, <1>3, <1>4, <1>5, <1>6, <1>7, <1>8 DEF Inv

-----------------------------------------------------------------------------
(* One lemma per host operation.                                           *)

\* emit_transfer_log emits at most one log.
LEMMA TransferLogsNat ==
  ASSUME NEW from, NEW to, NEW v
  PROVE  TransferLogs(from, to, v) \in {0, 1}
BY DEF TransferLogs, EmittedLogs

\* access_account of a row preserves Inv: the warming is journaled.
LEMMA AccessAccountInv ==
  ASSUME Inv, NEW a \in Acct, AccessAccount(a)
  PROVE  Inv'
<1>1. phase = "run"
  BY DEF AccessAccount, Running
<1>2. Journaled(journal, journal', db')
  BY <1>1, TopFacts, WarmAccountJournaled DEF AccessAccount
<1> QED
  BY <1>1, <1>2, TopFacts, HostStep DEF AccessAccount

\* access_account and access_storage without a row preserve Inv.
LEMMA AccessMissingInv ==
  ASSUME Inv, NEW k \in WarmKey, AccessMissing(k)
  PROVE  Inv'
<1>1. phase = "run"
  BY DEF AccessMissing, Running
<1>2. Journaled(journal, journal', db')
  BY <1>1, TopFacts, PushWarmKey DEF AccessMissing
<1> QED
  BY <1>1, <1>2, TopFacts, HostStep DEF AccessMissing

\* access_storage of a row preserves Inv, although it writes tx_original.
LEMMA AccessStorageInv ==
  ASSUME Inv, NEW s \in Slot, AccessStorage(s)
  PROVE  Inv'
<1>1. phase = "run"
  BY DEF AccessStorage, Running
<1>2. Journaled(journal, journal', db')
  BY <1>1, TopFacts, WarmSlotJournaled DEF AccessStorage
<1>3. tx_original' \in [Slot -> Value]
  <2>1. db.value[s] \in Value
    BY <1>1, TopFacts DEF DB
  <2> QED
    BY <1>1, <2>1, TopFacts DEF AccessStorage
<1> QED
  BY <1>1, <1>2, <1>3, TopFacts, HostStep DEF AccessStorage

\* set_storage preserves Inv.
LEMMA SetStorageInv ==
  ASSUME Inv, NEW s \in Slot, NEW v \in Value, SetStorage(s, v)
  PROVE  Inv'
<1>1. phase = "run"
  BY DEF SetStorage, Running
<1>2. Journaled(journal, journal', db')
  BY <1>1, TopFacts, PushStorage DEF SetStorage
<1> QED
  BY <1>1, <1>2, TopFacts, HostStep DEF SetStorage

\* set_transient_storage preserves Inv.
LEMMA SetTransientStorageInv ==
  ASSUME Inv, NEW v \in Value, SetTransientStorage(v)
  PROVE  Inv'
<1>1. phase = "run"
  BY DEF SetTransientStorage, Running
<1>2. Journaled(journal, journal', db')
  BY <1>1, TopFacts, PushTransient DEF SetTransientStorage
<1> QED
  BY <1>1, <1>2, TopFacts, HostStep DEF SetTransientStorage

\* emit_log preserves Inv.
LEMMA EmitLogInv ==
  ASSUME Inv, EmitLog
  PROVE  Inv'
<1>1. phase = "run"
  BY DEF EmitLog, Running
<1>2. Journaled(journal, journal', db')
  BY <1>1, TopFacts, GrowsReflexive DEF EmitLog, Journaled
<1>3. logs' \in Nat /\ logs <= logs'
  BY <1>1, TopFacts DEF EmitLog, EmittedLogs
<1> QED
  BY <1>1, <1>2, <1>3, TopFacts, HostStep DEF EmitLog

\* call_create at the nonce limit preserves Inv: its marker has no frame.
LEMMA CreateAtMaxNonceInv ==
  ASSUME Inv, CreateAtMaxNonce
  PROVE  Inv'
<1>1. phase = "run"
  BY DEF CreateAtMaxNonce, Running
<1>2. Journaled(journal, journal', db')
  BY <1>1, TopFacts, PushMarker DEF CreateAtMaxNonce
<1> QED
  BY <1>1, <1>2, TopFacts, HostStep DEF CreateAtMaxNonce

\* What selfdestruct does with the balance is journaled.
LEMMA SweepJournaled ==
  ASSUME NEW j \in Seq(Entry), NEW d \in DB, Chained(j, d),
         NEW self \in Acct, NEW beneficiary \in Acct, NEW t \in Nat
  PROVE  Journaled(j, LogSweep(j, d, self, beneficiary, t), SweptDB(d, self, beneficiary, t))
<1>1. d.balance[self] \in Nat /\ d.balance[self] >= d.balance[self]
  BY DEF DB
<1>2. CASE self # beneficiary
  BY <1>1, <1>2, TransferJournaled DEF LogSweep, SweptDB
<1>3. CASE self = beneficiary /\ ShouldDestroy(self) /\ ~Amsterdam
  BY <1>3, PushBalance DEF LogSweep, SweptDB
<1>4. CASE self = beneficiary /\ ~(ShouldDestroy(self) /\ ~Amsterdam)
  BY <1>4, GrowsReflexive DEF LogSweep, SweptDB, Journaled
<1> QED
  BY <1>2, <1>3, <1>4

\* selfdestruct preserves Inv.
LEMMA SelfDestructInv ==
  ASSUME Inv, NEW beneficiary \in Acct, SelfDestruct(beneficiary)
  PROVE  Inv'
<1> DEFINE d1 == SweptDB(db, Self, beneficiary, tx_counter)
           j1 == LogSweep(journal, db, Self, beneficiary, tx_counter)
<1>1. phase = "run" /\ phase' = "run"
  BY DEF SelfDestruct, Running
<1>2. Journaled(journal, j1, d1)
  BY <1>1, TopFacts, SweepJournaled
<1>3. Journaled(journal, journal', db')
  <2>1. CASE ShouldDestroy(Self)
    <3>1. journal' = Append(j1, PendingDestructEntry(d1, Self)) /\ db' = MarkDestruct(d1, Self)
      BY <2>1 DEF SelfDestruct
    <3> HIDE DEF j1, d1
    <3>2. Journaled(j1, Append(j1, PendingDestructEntry(d1, Self)), MarkDestruct(d1, Self))
      BY <1>1, <1>2, TopFacts, PushPendingDestruct DEF Journaled
    <3> QED
      BY <1>1, <1>2, <3>1, <3>2, TopFacts, JournaledTransitive
  <2>2. CASE ~ShouldDestroy(Self)
    BY <1>2, <2>2 DEF SelfDestruct
  <2> QED
    BY <2>1, <2>2
<1>4. logs' \in Nat /\ logs <= logs'
  BY <1>1, TopFacts, TransferLogsNat DEF SelfDestruct
<1>5. /\ frames' \in Seq(Frame) /\ Len(frames') = Len(frames)
      /\ \A i \in 1 .. Len(frames) :
           /\ frames'[i].cp = frames[i].cp
           /\ frames'[i].saved = frames[i].saved
           /\ frames'[i].log_count = frames[i].log_count
  <2>1. frames' = [frames EXCEPT ![Depth] = [frames[Depth] EXCEPT !.mode = "halted"]]
    BY DEF SelfDestruct
  <2>2. /\ [frames[Depth] EXCEPT !.mode = "halted"] \in Frame
        /\ [frames[Depth] EXCEPT !.mode = "halted"].cp = frames[Depth].cp
        /\ [frames[Depth] EXCEPT !.mode = "halted"].saved = frames[Depth].saved
        /\ [frames[Depth] EXCEPT !.mode = "halted"].log_count = frames[Depth].log_count
    BY <1>1, TopFacts, Zenon DEF Frame, Top
  <2> QED
    BY <1>1, <2>1, <2>2, TopFacts DEF Depth
<1>6. /\ created' \subseteq Acct /\ tx_original' \in [Slot -> Value]
      /\ UNCHANGED <<stage, tx_counter, wiped, tx, txStart, supply>>
  BY <1>1, TopFacts DEF SelfDestruct
<1> QED
  BY <1>1, <1>3, <1>4, <1>5, <1>6, HostStep
=============================================================================
