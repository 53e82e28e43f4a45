-------------------------- MODULE StateDBFrames ---------------------------
(***************************************************************************)
(* Opening a frame, returning from it and rolling it back preserve the     *)
(* inductive invariant.                                                    *)
(***************************************************************************)
EXTENDS StateDBOps

\* Time for a loaded machine; a leaf alone takes a second.
USE SMTT(30)

\* The fields of a new frame.
LEMMA NewFrameFields ==
  ASSUME logs \in Nat, NEW kind \in {"call", "create", "system"}, NEW self \in Acct,
         NEW mode \in {"live", "halted", "codeless"}, NEW cp \in Nat, NEW d \in DB
  PROVE  LET f == NewFrame(kind, self, mode, cp, d)
         IN  /\ f \in Frame /\ f.cp = cp /\ f.saved = d /\ f.log_count = logs
BY DEF NewFrame, Frame

\* The mode a frame starts in.
LEMMA ModeType ==
  ASSUME NEW d, NEW a
  PROVE  Mode(d, a) \in {"live", "halted", "codeless"}
BY DEF Mode

\* The last entry of a journal a marker was just appended to.
LEMMA MarkerOnTop ==
  ASSUME NEW j \in Seq(Entry), NEW d \in DB
  PROVE  LET j2 == Append(j, CheckpointMarker(d))
         IN  /\ Len(j2) = Len(j) + 1 /\ j2[Len(j) + 1].kind = "marker"
             /\ j2[Len(j) + 1].pre = d
<1> DEFINE e == CheckpointMarker(d)
<1>1. e \in Entry /\ e.kind = "marker" /\ e.pre = d
  BY EntryTypes DEF CheckpointMarker
<1> HIDE DEF e
<1>2. Len(Append(j, e)) = Len(j) + 1 /\ Append(j, e)[Len(j) + 1] = e
  BY <1>1
<1> QED
  BY <1>1, <1>2 DEF e

\* call() with or without a value preserves Inv.
LEMMA CallInv ==
  ASSUME Inv, NEW to \in Acct, NEW value \in Amount, Call(to, value)
  PROVE  Inv'
<1> DEFINE cp == Len(journal) + 1
           j  == Append(journal, CheckpointMarker(db))
           f  == NewFrame("call", to, Mode(db, to), cp, db)
<1>1. phase = "run" /\ phase' = "run" /\ value \in Nat
  BY StateDBAssumption DEF Call, Running
<1>2. Journaled(journal, j, db) /\ j[cp].kind = "marker" /\ j[cp].pre = db /\ Len(j) = cp
  BY <1>1, TopFacts, PushMarker, MarkerOnTop
<1>3. f \in Frame /\ f.cp = cp /\ f.saved = db /\ f.log_count = logs
  <2>1. /\ cp \in Nat /\ db \in DB /\ logs \in Nat /\ to \in Acct
        /\ Mode(db, to) \in {"live", "halted", "codeless"}
        /\ "call" \in {"call", "create", "system"}
    BY <1>1, TopFacts, ModeType
  <2> QED
    BY <2>1, NewFrameFields
<1>4. frames' = Append(frames, f)
  BY DEF Call
<1> HIDE DEF f
<1>5. Journaled(j, journal', db')
  <2>1. CASE value = 0
    <3>1. journal' = j /\ db' = db
      BY <2>1 DEF Call
    <3> QED
      BY <1>2, <3>1, GrowsReflexive, Zenon DEF Journaled
  <2>2. CASE value # 0
    <3>1. /\ db' = Transfer(db, Self, to, value, tx_counter)
          /\ journal' = LogTransfer(j, db, Self, to, value, tx_counter)
          /\ db.balance[Self] >= value
      BY <2>2 DEF Call
    <3> HIDE DEF j
    <3> QED
      BY <1>1, <1>2, <3>1, TopFacts, TransferJournaled DEF Journaled
  <2> QED
    BY <2>1, <2>2
<1>6. Journaled(journal, journal', db')
  BY <1>1, <1>2, <1>5, TopFacts, JournaledTransitive
<1>7. /\ f.cp \in Len(journal) + 1 .. Len(journal')
      /\ journal'[f.cp].kind = "marker" /\ journal'[f.cp].pre = f.saved
  <2>0. cp \in 1 .. Len(j)
    BY <1>1, <1>2, TopFacts
  <2>1. journal'[cp] = j[cp] /\ Len(j) <= Len(journal')
    BY <1>5, <2>0 DEF Journaled, Grows
  <2>2. Len(journal') \in Nat /\ Len(journal) \in Nat
    BY <1>1, <1>5, TopFacts DEF Journaled
  <2> QED
    BY <1>2, <1>3, <2>1, <2>2
<1>8. /\ logs' \in Nat /\ logs <= logs' /\ created' \subseteq Acct
      /\ UNCHANGED <<stage, tx_counter, tx_original, wiped, tx, txStart, supply>>
  <2>1. logs \in Nat /\ created \subseteq Acct
    BY <1>1, TopFacts
  <2>2. TransferLogs(Self, to, value) \in Nat
    BY TransferLogsNat
  <2>3. logs' \in {logs, logs + TransferLogs(Self, to, value)} /\ created' = created
    BY DEF Call
  <2>4. UNCHANGED <<stage, tx_counter, tx_original, wiped, tx, txStart, supply>>
    BY DEF Call
  <2> QED
    BY <2>1, <2>2, <2>3, <2>4
<1> QED
  BY <1>1, <1>3, <1>4, <1>6, <1>7, <1>8, PushFrame

\* call() of a delegated frame preserves Inv.
LEMMA DelegateCallInv ==
  ASSUME Inv, NEW to \in Acct, DelegateCall(to)
  PROVE  Inv'
<1> DEFINE cp == Len(journal) + 1
           f  == NewFrame("call", Self, Mode(db, to), cp, db)
<1>1. phase = "run" /\ phase' = "run"
  BY DEF DelegateCall, Running
<1>2. journal' = Append(journal, CheckpointMarker(db)) /\ db' = db
  BY DEF DelegateCall
<1>3. /\ Journaled(journal, journal', db')
      /\ journal'[cp].kind = "marker" /\ journal'[cp].pre = db /\ Len(journal') = cp
  BY <1>1, <1>2, TopFacts, PushMarker, MarkerOnTop
<1>4. f \in Frame /\ f.cp = cp /\ f.saved = db /\ f.log_count = logs
  <2>1. /\ cp \in Nat /\ db \in DB /\ logs \in Nat /\ Self \in Acct
        /\ Mode(db, to) \in {"live", "halted", "codeless"}
        /\ "call" \in {"call", "create", "system"}
    BY <1>1, TopFacts, ModeType
  <2> QED
    BY <2>1, NewFrameFields
<1>5. frames' = Append(frames, f)
  BY DEF DelegateCall
<1> HIDE DEF f
<1>6. f.cp \in Len(journal) + 1 .. Len(journal')
  BY <1>1, <1>3, <1>4, TopFacts
<1>7. /\ logs' \in Nat /\ logs <= logs' /\ created' \subseteq Acct
      /\ UNCHANGED <<stage, tx_counter, tx_original, wiped, tx, txStart, supply>>
  BY <1>1, TopFacts DEF DelegateCall
<1> QED
  BY <1>1, <1>3, <1>4, <1>5, <1>6, <1>7, PushFrame

\* The first writes of a creation are journaled.
LEMMA InitCreateJournaled ==
  ASSUME NEW j \in Seq(Entry), NEW d \in DB, Chained(j, d),
         NEW from \in Acct, NEW a \in Acct, NEW value \in Nat, NEW t \in Nat,
         d.balance[from] >= value
  PROVE  Journaled(j, LogInitCreate(j, d, from, a, value, t), InitCreate(d, from, a, value, t))
<1> DEFINE d1 == SetNonce(d, a, 1, t)
           j1 == Append(j, NonceEntry(d, a))
<1>1. Journaled(j, j1, d1)
  BY PushNonce
<1>2. d1.balance[from] >= value
  BY DEF SetNonce, DB
<1>3. CASE value = 0
  BY <1>1, <1>3 DEF LogInitCreate, InitCreate
<1>4. CASE value # 0
  <2>1. /\ LogInitCreate(j, d, from, a, value, t) = LogTransfer(j1, d1, from, a, value, t)
        /\ InitCreate(d, from, a, value, t) = Transfer(d1, from, a, value, t)
    BY <1>4 DEF LogInitCreate, InitCreate
  <2> HIDE DEF j1, d1
  <2>2. Journaled(j1, LogTransfer(j1, d1, from, a, value, t), Transfer(d1, from, a, value, t))
    BY <1>1, <1>2, TransferJournaled, Zenon DEF Journaled
  <2> QED
    BY <1>1, <2>1, <2>2, JournaledTransitive
<1> QED
  BY <1>3, <1>4

\* Warming and nonce writes leave balances alone.
LEMMA BalancesKept ==
  ASSUME NEW d \in DB, NEW a \in Acct, NEW v, NEW t
  PROVE  /\ SetNonce(d, a, v, t).balance = d.balance
         /\ TouchAccount(d, a, t).balance = d.balance
<1>1. SetNonce(d, a, v, t).balance = d.balance
  BY DEF SetNonce, DB
<1>2. SetAccountWarm(d, a, t).balance = d.balance
  BY DEF SetAccountWarm, DB
<1> QED
  BY <1>1, <1>2 DEF TouchAccount

\* call_create preserves Inv: cp_after_bump is a marker made from the tables
\* after the bump and the warming.
LEMMA CreateInv ==
  ASSUME Inv, NEW new \in NewAddr, NEW value \in Amount, Create(new, value)
  PROVE  Inv'
<1> DEFINE t  == tx_counter
           j1 == Append(journal, CheckpointMarker(db))
           d1 == SetNonce(db, Self, db.nonce[Self] + 1, t)
           j2 == Append(j1, NonceEntry(db, Self))
           d2 == TouchAccount(d1, new, t)
           j3 == LogWarmAccount(j2, d1, new, t)
           j4 == Append(j3, CheckpointMarker(d2))
           f  == NewFrame("create", new, "live", Len(j4), d2)
<1>0. phase = "run" /\ value \in Nat /\ new \in Acct
  BY StateDBAssumption DEF Create, MayCreate, Running
<1>1. /\ Self \in Acct /\ t \in Nat /\ logs \in Nat /\ journal \in Seq(Entry)
      /\ db \in DB /\ Chained(journal, db) /\ created \subseteq Acct
  BY <1>0, TopFacts
<1>2. /\ frames' = Append(frames, f)
      /\ db.balance[Self] >= value
      /\ IF Collides(d2, new)
         THEN phase' = "rollback" /\ db' = d2 /\ journal' = j4 /\ UNCHANGED <<created, logs>>
         ELSE /\ phase' = "run"
              /\ db' = InitCreate(d2, Self, new, value, t)
              /\ journal' = LogInitCreate(j4, d2, Self, new, value, t)
              /\ created' = created \cup {new}
              /\ logs' = logs + TransferLogs(Self, new, value)
      /\ UNCHANGED <<stage, tx_counter, tx_original, wiped, tx, txStart, supply>>
  BY DEF Create, MayCreate, EnterCreate, BumpedAndWarm, LogBumpAndWarm, Bumped
<1>3. Journaled(journal, j1, db)
  BY <1>1, PushMarker
<1>4. Journaled(j1, j2, d1)
  <2>1. db.nonce[Self] + 1 \in Nat
    BY <1>1 DEF DB
  <2> HIDE DEF j1
  <2> QED
    BY <1>1, <1>3, <2>1, PushNonce DEF Journaled
<1>5. Journaled(j2, j3, d2)
  <2> HIDE DEF j2, d1
  <2> QED
    BY <1>0, <1>1, <1>4, WarmAccountJournaled, Zenon DEF Journaled
<1>6. Journaled(journal, j3, d2)
  <2> HIDE DEF j1, j2, j3, d1, d2
  <2>1. Journaled(journal, j2, d1)
    BY <1>1, <1>3, <1>4, JournaledTransitive
  <2> QED
    BY <1>1, <1>5, <2>1, JournaledTransitive
<1>7. /\ Journaled(j3, j4, d2)
      /\ Len(j4) = Len(j3) + 1 /\ j4[Len(j4)].kind = "marker" /\ j4[Len(j4)].pre = d2
  <2> HIDE DEF j3, d2
  <2> QED
    BY <1>6, PushMarker, MarkerOnTop DEF Journaled
<1>8. d2.balance = db.balance
  <2>1. d1 \in DB
    BY <1>4 DEF Journaled
  <2>2. d1.balance = db.balance
    BY <1>1, BalancesKept
  <2> HIDE DEF d1
  <2>3. d2.balance = d1.balance
    BY <1>0, <1>1, <2>1, BalancesKept
  <2> HIDE DEF d2
  <2> QED
    BY <2>2, <2>3
<1>9. f \in Frame /\ f.cp = Len(j4) /\ f.saved = d2 /\ f.log_count = logs
  <2>1. d2 \in DB /\ j4 \in Seq(Entry)
    BY <1>7, Zenon DEF Journaled
  <2> HIDE DEF j4, d2
  <2>2. Len(j4) \in Nat
    BY <2>1
  <2> QED
    BY <1>0, <1>1, <2>1, <2>2, NewFrameFields
<1> HIDE DEF f, j4, d2, j3, d1, j2, j1
<1>10. Journaled(j4, journal', db')
  <2>1. CASE Collides(d2, new)
    BY <1>2, <1>7, <2>1, GrowsReflexive DEF Journaled
  <2>2. CASE ~Collides(d2, new)
    <3>1. /\ j4 \in Seq(Entry) /\ d2 \in DB /\ Chained(j4, d2)
          /\ d2.balance[Self] >= value
      BY <1>2, <1>7, <1>8 DEF Journaled
    <3>2. Journaled(j4, LogInitCreate(j4, d2, Self, new, value, t),
                    InitCreate(d2, Self, new, value, t))
      BY <1>0, <1>1, <3>1, InitCreateJournaled
    <3> QED
      BY <1>2, <2>2, <3>2
  <2> QED
    BY <2>1, <2>2
<1>11. Journaled(journal, journal', db')
  <2>1. Journaled(journal, j4, d2)
    BY <1>1, <1>6, <1>7, JournaledTransitive
  <2> QED
    BY <1>1, <1>10, <2>1, JournaledTransitive
<1>12. /\ f.cp \in Len(journal) + 1 .. Len(journal')
       /\ journal'[f.cp].kind = "marker" /\ journal'[f.cp].pre = f.saved
  <2>1. Len(j3) \in Nat /\ Len(j4) \in Nat /\ Len(journal) \in Nat /\ Len(journal') \in Nat
    BY <1>1, <1>6, <1>7, <1>10 DEF Journaled
  <2>2. Len(journal) <= Len(j3) /\ Len(j4) <= Len(journal')
    BY <1>6, <1>10 DEF Journaled, Grows
  <2>3. Len(j4) \in 1 .. Len(j4)
    BY <1>7, <2>1
  <2>4. journal'[Len(j4)] = j4[Len(j4)]
    BY <1>10, <2>3 DEF Journaled, Grows
  <2>5. Len(j4) \in Len(journal) + 1 .. Len(journal')
    BY <1>7, <2>1, <2>2
  <2> QED
    BY <1>7, <1>9, <2>4, <2>5
<1>13. phase' \in {"run", "rollback"} /\ logs' \in Nat /\ logs <= logs' /\ created' \subseteq Acct
  <2>1. CASE Collides(d2, new)
    BY <1>1, <1>2, <2>1
  <2>2. CASE ~Collides(d2, new)
    BY <1>0, <1>1, <1>2, <2>2, TransferLogsNat
  <2> QED
    BY <2>1, <2>2
<1> QED
  BY <1>0, <1>2, <1>9, <1>11, <1>12, <1>13, PushFrame

-----------------------------------------------------------------------------
(* The end of a frame, and rollback.                                       *)

\* Frames below the running one started with no more logs than it did.
LEMMA OuterLogs ==
  ASSUME Inv, phase \in {"run", "rollback"}
  PROVE  \A i \in 1 .. Depth - 1 :
           frames[i].log_count <= logs /\ frames[i].log_count <= Top.log_count
<1> TAKE i \in 1 .. Depth - 1
<1>1. i \in 1 .. Depth /\ Depth \in 1 .. Depth /\ i < Depth
  BY TopFacts
<1> QED
  BY <1>1 DEF Inv, Top

\* A successful call preserves Inv: the outer frames' markers stay.
LEMMA ReturnSuccessInv ==
  ASSUME Inv, ReturnSuccess
  PROVE  Inv'
<1>1. phase = "run"
  BY DEF ReturnSuccess
<1>2. Journaled(journal, journal', db')
  BY <1>1, TopFacts, GrowsReflexive DEF ReturnSuccess, Journaled
<1> QED
  BY <1>1, <1>2, TopFacts, OuterLogs, PopFrame DEF ReturnSuccess

\* register_deployed_code preserves Inv.
LEMMA ReturnCreateInv ==
  ASSUME Inv, NEW code \in Code \cup {EmptyCode}, ReturnCreate(code)
  PROVE  Inv'
<1>1. phase = "run"
  BY DEF ReturnCreate
<1>2. Journaled(journal, journal', db')
  BY <1>1, TopFacts, PushCodeHash DEF ReturnCreate
<1> QED
  BY <1>1, <1>2, TopFacts, OuterLogs, PopFrame DEF ReturnCreate

\* The start of a rollback preserves Inv.
LEMMA ReturnFailureInv ==
  ASSUME Inv, ReturnFailure
  PROVE  Inv'
<1>1. phase = "run" /\ phase' = "rollback" /\ UNCHANGED <<stage, tx_counter, db, tx_original,
         created, wiped, logs, journal, frames, tx, txStart, supply>>
  BY DEF ReturnFailure
<1>2. TypeOK'
  BY <1>1 DEF Inv, TypeOK
<1>3. \A i \in 1 .. Depth : Anchored(i)'
  BY <1>1 DEF Inv, Anchored
<1> QED
  BY <1>1, <1>2, <1>3 DEF Inv, Depth

\* The end of a rollback preserves Inv.
LEMMA RollbackDoneInv ==
  ASSUME Inv, RollbackDone
  PROVE  Inv'
<1>1. phase = "rollback"
  BY DEF RollbackDone
<1>2. Journaled(journal, journal', db')
  BY <1>1, TopFacts, GrowsReflexive DEF RollbackDone, Journaled
<1> QED
  BY <1>1, <1>2, TopFacts, OuterLogs, PopFrame DEF RollbackDone

\* Each undone entry is the last link of the chain; the running frame's own
\* marker is the last one undone.
LEMMA RollbackStepInv ==
  ASSUME Inv, RollbackStep
  PROVE  Inv'
<1> DEFINE n == Len(journal)
           e == journal[n]
<1>1. /\ phase = "rollback" /\ phase' = "rollback" /\ n >= Top.cp
      /\ db' = Undo(e, db) /\ journal' = SubSeq(journal, 1, n - 1)
      /\ UNCHANGED <<stage, tx_counter, tx_original, created, wiped, logs, frames, tx,
                     txStart, supply>>
  BY DEF RollbackStep
<1>2. Anchored(Depth) /\ Depth' = Depth /\ n \in Nat /\ Depth \in 1 .. Depth
  BY <1>1, TopFacts DEF Inv, Depth
<1>3. Top.cp \in 1 .. n /\ n > 0
  BY <1>1, <1>2 DEF Anchored, Top
<1>4. /\ Undo(e, db) = e.pre
      /\ journal' \in Seq(Entry)
      /\ Len(journal') = n - 1
      /\ \A k \in 1 .. n - 1 : journal'[k] = journal[k]
      /\ Chained(journal', e.pre)
  BY <1>1, <1>3, TopFacts, Pop
<1>5. db' \in DB /\ Chained(journal', db')
  <2>1. e \in Entry
    BY <1>1, <1>2, <1>3, TopFacts
  <2>2. e.pre \in DB
    BY <2>1 DEF Entry
  <2> QED
    BY <1>1, <1>4, <2>2
<1>6. TypeOK'
  BY <1>1, <1>4, <1>5 DEF Inv, TypeOK
<1>7. ASSUME NEW i \in 1 .. Depth
      PROVE  Anchored(i)'
  <2>1. /\ frames[i].cp \in 1 .. n
        /\ journal[frames[i].cp].kind = "marker"
        /\ journal[frames[i].cp].pre = frames[i].saved
    BY <1>1, <1>2, <1>3 DEF Inv, Anchored, Top
  <2>2. CASE frames[i].cp < n
    <3>1. frames[i].cp \in 1 .. n - 1 /\ frames[i].cp \in 1 .. Len(journal')
      BY <1>2, <1>4, <2>1, <2>2
    <3>2. journal'[frames[i].cp] = journal[frames[i].cp]
      BY <1>4, <3>1
    <3> QED
      BY <1>1, <2>1, <3>1, <3>2 DEF Anchored
  <2>3. CASE frames[i].cp = n
    <3>1. i = Depth
      <4>1. CASE i < Depth
        <5>1. frames[i].cp < frames[Depth].cp
          BY <1>2, <4>1 DEF Inv
        <5> QED
          BY <1>1, <1>2, <1>3, <2>3, <5>1 DEF Top
      <4> QED
        BY <1>2, <4>1
    <3>2. db' = frames[i].saved
      BY <1>1, <1>4, <2>1, <2>3
    <3>3. frames[i].cp = Len(journal') + 1
      BY <1>2, <1>4, <2>3
    <3> QED
      BY <1>1, <1>2, <3>1, <3>2, <3>3 DEF Anchored
  <2> QED
    BY <1>2, <2>1, <2>2, <2>3
<1> QED
  BY <1>1, <1>2, <1>5, <1>6, <1>7 DEF Inv
=============================================================================
