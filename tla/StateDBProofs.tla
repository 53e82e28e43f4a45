--------------------------- MODULE StateDBProofs ---------------------------
(***************************************************************************)
(* For every set of accounts, slots, keys and values, every fork and every *)
(* bound: type correctness of StateDB, exactness of rollback and nesting   *)
(* of checkpoints.                                                         *)
(***************************************************************************)
EXTENDS StateDBFrames

\* Time for a loaded machine; a leaf alone takes a second.
USE SMTT(30)

-----------------------------------------------------------------------------
(* Transactions, system calls and the rest of the block.                   *)

\* A step that starts the outermost frame.
LEMMA FirstFrame ==
  ASSUME TypeOK', phase' \in {"run", "rollback"},
         NEW f \in Frame, frames' = <<f>>, f.log_count <= logs',
         Chained(journal', db'),
         f.cp \in 1 .. Len(journal'),
         journal'[f.cp].kind = "marker", journal'[f.cp].pre = f.saved
  PROVE  Inv'
<1>1. Depth' = 1 /\ frames'[1] = f
  BY DEF Depth
<1>2. \A i \in 1 .. Depth' : i = 1
  BY <1>1
<1>3. Anchored(1)'
  BY <1>1 DEF Anchored
<1> QED
  BY <1>1, <1>2, <1>3 DEF Inv

\* A step between frames.
LEMMA NoFrames ==
  ASSUME Inv, TypeOK', phase \in {"idle", "start", "settle"},
         phase' \in {"idle", "settle"}, UNCHANGED frames
  PROVE  Inv'
<1>1. Depth \in Nat /\ Depth = 0 /\ Depth' = 0
  BY DEF Inv, TypeOK, Depth
<1>2. \A i \in 1 .. Depth' : FALSE
  BY <1>1
<1> QED
  BY <1>1, <1>2 DEF Inv

\* A journal of two markers is a chain.
LEMMA TwoMarkers ==
  ASSUME NEW d \in DB
  PROVE  LET m == CheckpointMarker(d)
         IN  /\ <<m, m>> \in Seq(Entry) /\ Chained(<<m, m>>, d)
             /\ Len(<<m, m>>) = 2 /\ <<m, m>>[1] = m /\ <<m, m>>[2] = m
             /\ m.kind = "marker" /\ m.pre = d
<1> DEFINE m == CheckpointMarker(d)
<1>1. m \in Entry /\ m.pre = d /\ m.kind = "marker" /\ Undo(m, d) = d
  BY EntryTypes, UndoMarker DEF CheckpointMarker
<1> HIDE DEF m
<1>2. <<m, m>> \in Seq(Entry) /\ Len(<<m, m>>) = 2 /\ <<m, m>>[1] = m /\ <<m, m>>[2] = m
  BY <1>1
<1>3. Chained(<<m, m>>, d)
  BY <1>1, <1>2 DEF Chained
<1> QED
  BY <1>1, <1>2, <1>3 DEF m

\* A journal of one marker is a chain.
LEMMA OneMarker ==
  ASSUME NEW d \in DB
  PROVE  LET m == CheckpointMarker(d)
         IN  /\ <<m>> \in Seq(Entry) /\ Chained(<<m>>, d)
             /\ Len(<<m>>) = 1 /\ <<m>>[1] = m
             /\ m.kind = "marker" /\ m.pre = d
<1> DEFINE m == CheckpointMarker(d)
<1>1. m \in Entry /\ m.pre = d /\ m.kind = "marker" /\ Undo(m, d) = d
  BY EntryTypes, UndoMarker DEF CheckpointMarker
<1> HIDE DEF m
<1>2. <<m>> \in Seq(Entry) /\ Len(<<m>>) = 1 /\ <<m>>[1] = m
  BY <1>1
<1>3. Chained(<<m>>, d)
  BY <1>1, <1>2 DEF Chained
<1> QED
  BY <1>1, <1>2, <1>3 DEF m

\* What Inv says when the top-level frame is about to start.
LEMMA StartFacts ==
  ASSUME Inv, phase = "start"
  PROVE  /\ TypeOK /\ db \in DB /\ journal \in Seq(Entry) /\ Chained(journal, db)
         /\ Len(journal) = 2
         /\ journal[1].kind = "marker" /\ journal[1].pre = db
         /\ journal[2].kind = "marker" /\ journal[2].pre = db
         /\ tx.sender \in Acct /\ tx.value \in Nat /\ db.balance[tx.sender] >= tx.value
         /\ tx_counter \in Nat /\ logs \in Nat /\ created \subseteq Acct
<1>1. TypeOK /\ journal = <<CheckpointMarker(db), CheckpointMarker(db)>>
      /\ db.balance[tx.sender] >= tx.value
  BY DEF Inv
<1>2. db \in DB /\ tx \in Tx /\ tx_counter \in Nat /\ logs \in Nat /\ created \subseteq Acct
  BY <1>1 DEF TypeOK
<1>3. tx.sender \in Acct /\ tx.value \in Nat
  BY <1>2 DEF Tx
<1> QED
  BY <1>1, <1>2, <1>3, TwoMarkers

\* A marker stays where it is while the journal grows.
LEMMA MarkerStays ==
  ASSUME NEW j \in Seq(Entry), NEW j2, NEW d, Journaled(j, j2, d), NEW k \in 1 .. Len(j)
  PROVE  j2[k] = j[k] /\ k \in 1 .. Len(j2) /\ j2 \in Seq(Entry) /\ d \in DB /\ Chained(j2, d)
BY DEF Journaled, Grows

\* The first frame of a call transaction establishes Inv for itself.
LEMMA TopLevelCallInv ==
  ASSUME Inv, TopLevelCall
  PROVE  Inv'
<1> DEFINE to == tx.to
           f  == NewFrame("call", to, Mode(db, to), 2, db)
<1>1. /\ phase = "start" /\ to # None /\ phase' = "run" /\ frames' = <<f>>
      /\ UNCHANGED <<stage, tx_counter, tx_original, created, wiped, tx, txStart, supply>>
  BY DEF TopLevelCall
<1>2. to \in Acct
  BY <1>1, StartFacts DEF TypeOK, Tx
<1>3. f \in Frame /\ f.cp = 2 /\ f.saved = db /\ f.log_count = logs
  <2>1. Mode(db, to) \in {"live", "halted", "codeless"}
    BY ModeType
  <2>2. db \in DB /\ logs \in Nat
    BY <1>1, StartFacts
  <2> QED
    BY <1>2, <2>1, <2>2, NewFrameFields
<1>4. Journaled(journal, journal', db') /\ logs' \in Nat /\ logs <= logs'
  <2>1. CASE tx.value = 0
    <3>1. UNCHANGED <<db, journal, logs>>
      BY <2>1 DEF TopLevelCall
    <3> QED
      BY <1>1, <3>1, StartFacts, GrowsReflexive DEF Journaled
  <2>2. CASE tx.value # 0
    <3>1. /\ db' = Transfer(db, tx.sender, to, tx.value, tx_counter)
          /\ journal' = LogTransfer(journal, db, tx.sender, to, tx.value, tx_counter)
          /\ logs' = logs + TransferLogs(tx.sender, to, tx.value)
      BY <2>2 DEF TopLevelCall
    <3>2. Journaled(journal, journal', db')
      BY <1>1, <1>2, <3>1, StartFacts, TransferJournaled
    <3>3. TransferLogs(tx.sender, to, tx.value) \in {0, 1}
      BY TransferLogsNat
    <3> QED
      BY <1>1, <3>1, <3>2, <3>3, StartFacts
  <2> QED
    BY <2>1, <2>2
<1> HIDE DEF f
<1>5. TypeOK'
  BY <1>1, <1>3, <1>4, StartFacts DEF TypeOK, Journaled
<1>6. 2 \in 1 .. Len(journal)
  <2>1. Len(journal) = 2
    BY <1>1, StartFacts
  <2> QED
    BY <2>1
<1>7. /\ 2 \in 1 .. Len(journal') /\ Chained(journal', db')
      /\ journal'[2].kind = "marker" /\ journal'[2].pre = db
  BY <1>1, <1>4, <1>6, StartFacts, MarkerStays
<1> QED
  BY <1>1, <1>3, <1>4, <1>5, <1>7, FirstFrame

\* So does the first frame of a creation transaction, collision included.
LEMMA TopLevelCreateInv ==
  ASSUME Inv, NEW new \in NewAddr, TopLevelCreate(new)
  PROVE  Inv'
<1> DEFINE t  == tx_counter
           d1 == TouchAccount(db, new, t)
           j1 == LogWarmAccount(journal, db, new, t)
           f  == NewFrame("create", new, "live", 2, db)
<1>1. /\ phase = "start" /\ frames' = <<f>> /\ new \in Acct
      /\ phase' \in {"run", "rollback"}
      /\ \/ db' = d1 /\ journal' = j1 /\ UNCHANGED <<created, logs>>
         \/ /\ db' = InitCreate(d1, tx.sender, new, tx.value, t)
            /\ journal' = LogInitCreate(j1, d1, tx.sender, new, tx.value, t)
            /\ created' = created \cup {new}
            /\ logs' = logs + TransferLogs(tx.sender, new, tx.value)
      /\ UNCHANGED <<stage, tx_counter, tx_original, wiped, tx, txStart, supply>>
  BY StateDBAssumption DEF TopLevelCreate, EnterCreate
<1>2. f \in Frame /\ f.cp = 2 /\ f.saved = db /\ f.log_count = logs
  BY <1>1, StartFacts, NewFrameFields
<1>3. Journaled(journal, j1, d1) /\ d1.balance = db.balance
  BY <1>1, StartFacts, WarmAccountJournaled, BalancesKept, Zenon
<1>4. TransferLogs(tx.sender, new, tx.value) \in {0, 1}
  BY TransferLogsNat
<1> HIDE DEF f, d1, j1
<1>5. Journaled(journal, journal', db')
  <2>1. CASE db' = d1 /\ journal' = j1
    BY <1>3, <2>1
  <2>2. CASE /\ db' = InitCreate(d1, tx.sender, new, tx.value, t)
             /\ journal' = LogInitCreate(j1, d1, tx.sender, new, tx.value, t)
    <3>1. j1 \in Seq(Entry) /\ d1 \in DB /\ Chained(j1, d1) /\ d1.balance[tx.sender] >= tx.value
      BY <1>1, <1>3, StartFacts DEF Journaled
    <3>2. Journaled(j1, journal', db')
      BY <1>1, <2>2, <3>1, StartFacts, InitCreateJournaled
    <3> QED
      BY <1>1, <1>3, <3>2, StartFacts, JournaledTransitive
  <2> QED
    BY <1>1, <2>1, <2>2
<1>6. logs' \in Nat /\ logs <= logs' /\ created' \subseteq Acct
  BY <1>1, <1>4, StartFacts
<1>7. TypeOK'
  BY <1>1, <1>2, <1>5, <1>6, StartFacts DEF TypeOK, Journaled
<1>8. 2 \in 1 .. Len(journal)
  <2>1. Len(journal) = 2
    BY <1>1, StartFacts
  <2> QED
    BY <2>1
<1>9. /\ 2 \in 1 .. Len(journal') /\ Chained(journal', db')
      /\ journal'[2].kind = "marker" /\ journal'[2].pre = db
  BY <1>1, <1>5, <1>8, StartFacts, MarkerStays
<1> QED
  BY <1>1, <1>2, <1>6, <1>7, <1>9, FirstFrame

\* So does the rollback to cp_runtime.
LEMMA RuntimeOutOfGasInv ==
  ASSUME Inv, NEW recipient \in Acct, RuntimeOutOfGas(recipient)
  PROVE  Inv'
<1> DEFINE f == NewFrame("call", recipient, "halted", 1, db)
<1>1. /\ phase = "start" /\ phase' = "rollback" /\ frames' = <<f>>
      /\ UNCHANGED <<stage, tx_counter, db, tx_original, created, wiped, logs,
                     journal, tx, txStart, supply>>
  BY DEF RuntimeOutOfGas
<1>2. f \in Frame /\ f.cp = 1 /\ f.saved = db /\ f.log_count = logs
  <2>1. db \in DB /\ logs \in Nat
    BY <1>1, StartFacts
  <2> QED
    BY <2>1, NewFrameFields
<1> HIDE DEF f
<1>3. TypeOK'
  BY <1>1, <1>2, StartFacts DEF TypeOK
<1>4. /\ 1 \in 1 .. Len(journal') /\ Chained(journal', db') /\ logs <= logs'
      /\ journal'[1].kind = "marker" /\ journal'[1].pre = db
  <2>1. Len(journal) = 2 /\ logs \in Nat
    BY <1>1, StartFacts
  <2>2. 1 \in 1 .. Len(journal) /\ logs <= logs
    BY <2>1
  <2> QED
    BY <1>1, <2>2, StartFacts
<1> QED
  BY <1>1, <1>2, <1>3, <1>4, FirstFrame

\* Pre-warming and the reset of the transient map keep the types and leave
\* nonces and balances alone.
LEMMA PreWarmType ==
  ASSUME NEW d \in DB, NEW accts, NEW access, NEW t \in Nat
  PROVE  LET p == PreWarm(d, accts, access, t)
         IN  p \in DB /\ p.balance = d.balance /\ p.nonce = d.nonce
BY Zenon DEF PreWarm, DB

\* The per-transaction resets keep types, balances and nonces.
LEMMA ResetTransientType ==
  ASSUME NEW d \in DB
  PROVE  LET r == ResetTransient(d)
             p == [r EXCEPT !.pending = {}]
         IN  /\ r \in DB
             /\ p \in DB /\ p.balance = d.balance /\ p.nonce = d.nonce
BY Zenon DEF ResetTransient, DB

\* The start of a transaction preserves Inv: check_transaction leaves the
\* sender enough for the value.
LEMMA BeginTxInv ==
  ASSUME Inv, NEW sender \in Acct, NEW to \in Recipient, NEW value \in Amount,
         NEW upfront \in Upfront, NEW access \in AccessList,
         BeginTx(sender, to, value, upfront, access)
  PROVE  Inv'
<1> DEFINE t    == tx_counter + 1
           warm == (access.accts \cup {sender, Coinbase, to}) \ Precompile
           r    == [ResetTransient(db) EXCEPT !.pending = {}]
           d0   == PreWarm(r, warm, access, t)
           d1   == SetNonce(d0, sender, d0.nonce[sender] + 1, t)
           d2   == SetBalance(d1, sender, d1.balance[sender] - upfront, t)
           m    == CheckpointMarker(d2)
           x    == [sender |-> sender, to |-> to, value |-> value, upfront |-> upfront]
<1>0. /\ TypeOK /\ db \in DB /\ t \in Nat /\ value \in Nat /\ upfront \in Nat
      /\ to \in Acct \cup {None} /\ db.balance \in [Acct -> Nat] /\ db.nonce \in [Acct -> Nat]
      /\ db.value \in [Slot -> Value] /\ supply \in Int /\ tx_original \in [Slot -> Value]
  <2>1. TypeOK /\ db \in DB /\ t \in Nat /\ supply \in Int /\ tx_original \in [Slot -> Value]
    BY DEF Inv, TypeOK
  <2>2. /\ db.balance \in [Acct -> Nat] /\ db.nonce \in [Acct -> Nat]
        /\ db.value \in [Slot -> Value]
    BY <2>1 DEF DB
  <2>3. value \in Nat /\ upfront \in Nat /\ to \in Acct \cup {None}
    BY StateDBAssumption
  <2> QED
    BY <2>1, <2>2, <2>3
<1>1. /\ phase = "idle" /\ phase' = "start" /\ tx_counter' = t /\ db' = d2
      /\ db.balance[sender] >= upfront + value
      /\ tx_original' = [s \in Slot |-> IF s \in access.slots /\ t > db.slast[s]
                                        THEN db.value[s] ELSE tx_original[s]]
      /\ created' = {} /\ logs' = 0 /\ journal' = <<m, m>> /\ tx' = x
      /\ txStart' = d2 /\ supply' = supply - upfront
      /\ UNCHANGED <<stage, wiped, frames>>
  BY DEF BeginTx, CheckTransaction, NextTxCounter
<1>2. r \in DB /\ r.balance = db.balance /\ r.nonce = db.nonce
  BY <1>0, ResetTransientType
<1> HIDE DEF r
<1>3. d0 \in DB /\ d0.balance = db.balance /\ d0.nonce = db.nonce
  BY <1>0, <1>2, PreWarmType
<1> HIDE DEF d0
<1>4. d1 \in DB /\ d1.balance = db.balance
  <2>1. d0.nonce[sender] + 1 \in Nat
    BY <1>0, <1>3
  <2>2. d1 \in DB
    BY <1>0, <1>3, <2>1, AccountWriteTypes
  <2>3. d1.balance = d0.balance
    BY <1>3, BalancesKept
  <2> QED
    BY <1>3, <2>2, <2>3
<1> HIDE DEF d1
<1>5. d1.balance[sender] - upfront \in Nat /\ d1.balance[sender] - upfront >= value
  BY <1>0, <1>1, <1>4
<1>6. d2 \in DB /\ d2.balance[sender] >= value
  <2>1. d2 \in DB
    BY <1>0, <1>4, <1>5, AccountWriteTypes
  <2>2. d2.balance[sender] = d1.balance[sender] - upfront
    BY <1>4 DEF SetBalance, DB
  <2> QED
    BY <1>5, <2>1, <2>2
<1> HIDE DEF d2, t
<1>7. <<m, m>> \in Seq(Entry) /\ Chained(<<m, m>>, d2)
  BY <1>6, TwoMarkers
<1>8. x \in Tx /\ x.sender = sender /\ x.value = value
  BY <1>0 DEF Tx
<1>9. tx_original' \in [Slot -> Value] /\ supply' \in Int
  BY <1>0, <1>1
<1>10. db' = d2 /\ journal' = <<CheckpointMarker(db'), CheckpointMarker(db')>>
       /\ tx' = x /\ Chained(journal', db')
  BY <1>1, <1>7
<1> HIDE DEF m, x
<1>11. TypeOK'
  BY <1>0, <1>1, <1>6, <1>7, <1>8, <1>9 DEF TypeOK
<1>12. Depth' = Depth /\ Depth = 0
  BY <1>0, <1>1 DEF Inv, Depth, TypeOK
<1>13. \A i \in 1 .. Depth' : FALSE
  BY <1>12
<1>14. phase' = "start" /\ db'.balance[tx'.sender] >= tx'.value
  BY <1>1, <1>6, <1>8, <1>10
<1> QED
  BY <1>10, <1>11, <1>12, <1>13, <1>14 DEF Inv

\* system_call preserves Inv.
LEMMA SystemCallInv ==
  ASSUME Inv, NEW target \in Predeploy, SystemCall(target)
  PROVE  Inv'
<1> DEFINE t == tx_counter + 1
           r == ResetTransient(db)
           d == TouchAccount(r, target, t)
           m == CheckpointMarker(d)
           f == NewFrame("system", target, Mode(d, target), 1, d)
<1>0. TypeOK /\ db \in DB /\ t \in Nat /\ logs \in Nat /\ target \in Acct
  BY StateDBAssumption DEF Inv, TypeOK
<1>1. /\ phase = "idle" /\ phase' = "run" /\ tx_counter' = t /\ db' = d
      /\ created' = {} /\ journal' = <<m>> /\ frames' = <<f>> /\ txStart' = d
      /\ UNCHANGED <<stage, tx_original, wiped, logs, tx, supply>>
  BY DEF SystemCall, NextTxCounter
<1>2. r \in DB
  BY <1>0, ResetTransientType, Zenon
<1> HIDE DEF r
<1>3. d \in DB
  BY <1>0, <1>2, AccountWriteTypes DEF TouchAccount
<1> HIDE DEF d, t
<1>4. <<m>> \in Seq(Entry) /\ Chained(<<m>>, d) /\ Len(<<m>>) = 1 /\ <<m>>[1] = m
      /\ m.kind = "marker" /\ m.pre = d
  BY <1>3, OneMarker
<1> HIDE DEF m
<1>5. f \in Frame /\ f.cp = 1 /\ f.saved = d /\ f.log_count = logs
  <2>1. Mode(d, target) \in {"live", "halted", "codeless"}
    BY ModeType
  <2> QED
    BY <1>0, <1>3, <2>1, NewFrameFields
<1> HIDE DEF f
<1>6. <<f>> \in Seq(Frame)
  BY <1>5
<1>7. TypeOK'
  BY <1>0, <1>1, <1>3, <1>4, <1>6 DEF TypeOK
<1>8. /\ f.cp \in 1 .. Len(journal') /\ journal'[f.cp].kind = "marker"
      /\ journal'[f.cp].pre = f.saved /\ f.log_count <= logs' /\ Chained(journal', db')
  <2>1. f.cp \in 1 .. 1 /\ logs <= logs
    BY <1>0, <1>5
  <2> QED
    BY <1>1, <1>4, <1>5, <2>1
<1> QED
  BY <1>1, <1>5, <1>7, <1>8, FirstFrame

\* Destroying the pending accounts keeps the types.
LEMMA ClearDestructedType ==
  ASSUME NEW d \in DB, NEW t \in Nat
  PROVE  ClearDestructed(d, t) \in DB
BY JournalAssumption, Zenon DEF ClearDestructed, DB

\* settle_tx_gas and apply_pending_destructs preserve Inv.
LEMMA EndTxInv ==
  ASSUME Inv, NEW refund \in 0 .. tx.upfront, NEW tip \in 0 .. tx.upfront, EndTx(refund, tip)
  PROVE  Inv'
<1> DEFINE d1 == SetBalance(db, tx.sender, db.balance[tx.sender] + refund, tx_counter)
           d2 == SetBalance(d1, Coinbase, d1.balance[Coinbase] + tip, tx_counter)
<1>0. /\ TypeOK /\ db \in DB /\ tx_counter \in Nat /\ Coinbase \in Acct
      /\ tx.sender \in Acct /\ refund \in Nat /\ tip \in Nat /\ supply \in Int
  BY StateDBAssumption DEF Inv, TypeOK, Tx
<1>1. /\ phase = "settle" /\ phase' = "idle" /\ db' = ClearDestructed(d2, tx_counter)
      /\ wiped' = wiped \cup db.pending /\ supply' = supply + refund + tip
      /\ UNCHANGED <<stage, tx_counter, tx_original, created, logs, journal,
                     frames, tx, txStart>>
  BY DEF EndTx
<1>2. d1 \in DB
  <2>1. db.balance[tx.sender] + refund \in Nat
    BY <1>0 DEF DB
  <2> QED
    BY <1>0, <2>1, AccountWriteTypes
<1> HIDE DEF d1
<1>3. d2 \in DB
  <2>1. d1.balance[Coinbase] + tip \in Nat
    BY <1>0, <1>2 DEF DB
  <2> QED
    BY <1>0, <1>2, <2>1, AccountWriteTypes
<1> HIDE DEF d2
<1>4. db' \in DB
  BY <1>0, <1>1, <1>3, ClearDestructedType
<1>5. wiped' \subseteq Acct /\ supply' \in Int
  BY <1>0, <1>1 DEF TypeOK, DB
<1>6. TypeOK'
  BY <1>0, <1>1, <1>4, <1>5 DEF TypeOK
<1> QED
  BY <1>1, <1>6, NoFrames

\* The end of pre_execute_block preserves Inv.
LEMMA BeginTxsInv ==
  ASSUME Inv, BeginTxs
  PROVE  Inv'
<1>1. TypeOK'
  BY DEF Inv, TypeOK, BeginTxs
<1> QED
  BY <1>1, NoFrames DEF BeginTxs

\* credit_withdrawals preserves Inv.
LEMMA CreditWithdrawalsInv ==
  ASSUME Inv, NEW a \in Acct, NEW amount \in Amount, CreditWithdrawals(a, amount)
  PROVE  Inv'
<1>0. /\ TypeOK /\ db \in DB /\ amount \in Nat /\ tx_counter \in Nat /\ supply \in Int
      /\ db.balance[a] \in Nat
  BY StateDBAssumption, Zenon DEF Inv, TypeOK, DB
<1>1. db.balance[a] + amount \in Nat /\ supply + amount \in Int
  BY <1>0
<1>2. db' \in DB
  BY <1>0, <1>1, AccountWriteTypes, Zenon DEF CreditWithdrawals
<1>3. TypeOK'
  BY <1>0, <1>1, <1>2 DEF TypeOK, CreditWithdrawals
<1> QED
  BY <1>3, NoFrames DEF CreditWithdrawals

-----------------------------------------------------------------------------

\* The initial state satisfies the invariant.
LEMMA InitInv == Init => Inv
<1> SUFFICES ASSUME Init
             PROVE  Inv
  OBVIOUS
<1>1. frames = << >> /\ journal = << >> /\ phase = "idle" /\ logs = 0
  BY DEF Init
<1>2. Depth = 0 /\ \A i \in 1 .. Depth : FALSE
  BY <1>1 DEF Depth
<1>3. frames \in Seq(Frame) /\ journal \in Seq(Entry)
  BY <1>1
<1>4. tx \in Tx /\ tx_original \in [Slot -> Value] /\ supply \in Int
  BY StateDBAssumption, JournalAssumption DEF Init, Tx
<1>5. TypeOK
  BY <1>3, <1>4, StateDBAssumption DEF Init, TypeOK
<1> QED
  BY <1>1, <1>2, <1>5 DEF Inv

\* Every step preserves it.
LEMMA NextInv == Inv /\ [Next]_vars => Inv'
<1> SUFFICES ASSUME Inv, [Next]_vars
             PROVE  Inv'
  OBVIOUS
<1>1. CASE HostOperation
  BY <1>1, AccessAccountInv, AccessMissingInv, AccessStorageInv, SetStorageInv,
     SetTransientStorageInv, EmitLogInv, CallInv, DelegateCallInv, CreateInv,
     CreateAtMaxNonceInv, SelfDestructInv DEF HostOperation
<1>2. CASE FrameEnd
  BY <1>2, ReturnSuccessInv, ReturnCreateInv, ReturnFailureInv DEF FrameEnd
<1>3. CASE Rollback
  BY <1>3, RollbackStepInv, RollbackDoneInv DEF Rollback
<1>4. CASE UNCHANGED vars
  <2>1. UNCHANGED <<Depth, Top>>
    BY <1>4 DEF vars, Depth, Top
  <2>2. TypeOK'
    BY <1>4 DEF vars, Inv, TypeOK
  <2>3. \A i \in 1 .. Depth : Anchored(i)'
    BY <1>4, <2>1 DEF vars, Inv, Anchored
  <2> QED
    BY <1>4, <2>1, <2>2, <2>3 DEF vars, Inv
<1>5. CASE BlockStep
  BY <1>4, <1>5, BeginTxInv, TopLevelCallInv, TopLevelCreateInv, RuntimeOutOfGasInv,
     SystemCallInv, EndTxInv, BeginTxsInv, CreditWithdrawalsInv DEF BlockStep, Finished
<1> QED
  BY <1>1, <1>2, <1>3, <1>4, <1>5 DEF Next

\* Inv holds in every reachable state.
THEOREM Invariance == Spec => []Inv
<1>1. Init => Inv
  BY InitInv
<1>2. Inv /\ [Next]_vars => Inv'
  BY NextInv
<1> QED
  BY <1>1, <1>2, PTL DEF Spec

\* Type correctness.
THEOREM TypeCorrect == Spec => []TypeOK
<1>1. Inv => TypeOK
  BY InvImplies
<1> QED
  BY <1>1, Invariance, PTL

\* Journal::rollback gives back exactly the tables of the frame's checkpoint,
\* whatever the frame and the frames nested in it did.
THEOREM RollbackIsExact == Spec => []RollbackExact
<1>1. Inv => RollbackExact
  BY InvImplies
<1> QED
  BY <1>1, Invariance, PTL

\* Checkpoints and log counts of live frames nest.
THEOREM CheckpointsAreNested == Spec => []CheckpointsNest
<1>1. Inv => CheckpointsNest
  BY InvImplies
<1> QED
  BY <1>1, Invariance, PTL
=============================================================================
