------------------------ MODULE BlockAccessListOps -------------------------
(***************************************************************************)
(* The inductive invariant of BlockAccessList, and the shapes of step that *)
(* preserve it and refine a step of EagerAccessList.                       *)
(***************************************************************************)
EXTENDS BlockAccessList, SequenceTheorems, TLAPS

\* Time for a loaded machine; a leaf alone takes a second.
USE SMTT(30)

\* Where the value differs from a snapshot, the row was written in this index.
WrittenSince(saved) == \A c \in Cell : value[c] # saved[c] => period[RowOf(c)] = index

\* The same of the state after a step.
WrittenSinceNext(saved) ==
  \A c \in Cell : value'[c] # saved[c] => period'[RowOf(c)] = index'

\* The records: an open period is that of a listed row and lies after every
\* change recorded for the row, and the changes are in order.
Records ==
  /\ \A r \in Row : period[r] # NoPeriod => r \in accessed /\ period[r] <= index
  /\ \A c \in Cell :
       /\ period[RowOf(c)] = NoPeriod /\ ~built => changes[c] = <<>>
       /\ period[RowOf(c)] # NoPeriod =>
            \A k \in DOMAIN changes[c] : changes[c][k].index < period[RowOf(c)]
  /\ ChangesInOrder

\* A write that bypasses the hooks finds its row already open: the slots a
\* rollback restores, and those of an account this transaction created.
Bypasses ==
  /\ \A k \in 1 .. Depth : WrittenSince(frames[k].saved)
  /\ ~built => \A s \in Slot :
       Owner[s] \in created /\ value[<<s, "value">>] # 0 => period[s] = index
  /\ InTx => doomed \subseteq created /\ \A k \in 1 .. Depth : frames[k].doomed \subseteq created

\* Who is listed: the account of every frame and of every listed slot, and
\* nobody who was not loaded.
Listed ==
  /\ \A s \in Slot : s \in accessed => Owner[s] \in accessed
  /\ \A k \in 1 .. Depth : frames[k].to \in accessed
  /\ op.at = "call" => op.dst \in accessed
  /\ accessed \cap Account \subseteq loaded
  /\ pending # NoAccount /\ op.at # "halt" => pending \in loaded

Control ==
  /\ op.at \in {"load", "call"} => op.dst \in Account /\ op.code \in Account
  /\ frames = <<>> => pending = NoAccount /\ op = Running
  /\ built => frames = <<>> /\ index = PostIndex

Inv == TypeOK /\ Records /\ Bypasses /\ Listed /\ Control

-----------------------------------------------------------------------------
\* The row of a cell, and the cells of a row.
LEMMA Cells ==
  /\ \A c \in Cell : RowOf(c) \in Row
  /\ \A s \in Slot : <<s, "value">> \in Cell /\ RowOf(<<s, "value">>) = s
  /\ \A a \in Account, f \in AccountField : <<a, f>> \in Cell /\ RowOf(<<a, f>>) = a
  /\ \A c \in Cell : RowOf(c) \in Slot => c = <<RowOf(c), "value">>
  BY ConstantsAssumption DEF Cell, Row, RowOf

\* The types of the records, apart from those of the control state.
RecordTypes ==
  /\ value \in [Cell -> Value]
  /\ index \in 0 .. PostIndex
  /\ period \in [Row -> {NoPeriod} \cup 0 .. PostIndex]
  /\ pre \in [Cell -> Value]
  /\ changes \in [Cell -> Seq(Change)]

\* What closing the period of a cell makes of its change list.
ClosedCell(c) ==
  IF period[RowOf(c)] # NoPeriod /\ value[c] # pre[c]
    THEN Append(changes[c], [index |-> period[RowOf(c)], value |-> value[c]])
    ELSE changes[c]

\* What a step within an index does to the records: a row keeps its period
\* or opens the current one, closing the old; and a value changes only in a
\* row that is then open.
Opens ==
  /\ RecordTypes'
  /\ UNCHANGED <<index, built>>
  /\ accessed \subseteq accessed'
  /\ \A r \in Row : \/ period'[r] = period[r]
                    \/ period[r] # index /\ period'[r] = index /\ r \in accessed'
  /\ \A c \in Cell :
       IF period'[RowOf(c)] = period[RowOf(c)]
         THEN changes'[c] = changes[c] /\ pre'[c] = pre[c]
         ELSE changes'[c] = ClosedCell(c) /\ pre'[c] = value[c]
  /\ \A c \in Cell : value'[c] # value[c] => period'[RowOf(c)] = index

LEMMA ClosedCellType ==
  ASSUME TypeOK, NEW c \in Cell
  PROVE  ClosedCell(c) \in Seq(Change)
<1>1. /\ RowOf(c) \in Row /\ changes[c] \in Seq(Change) /\ value[c] \in Value
      /\ period[RowOf(c)] \in {NoPeriod} \cup 0 .. PostIndex
  BY Cells DEF TypeOK
<1>2. CASE period[RowOf(c)] # NoPeriod
  <2> DEFINE e == [index |-> period[RowOf(c)], value |-> value[c]]
  <2>1. e \in Change
    BY <1>1, <1>2 DEF Change
  <2> HIDE DEF e
  <2>2. Append(changes[c], e) \in Seq(Change)
    BY <1>1, <2>1
  <2> QED
    BY <1>1, <2>2 DEF ClosedCell, e
<1> QED
  BY <1>1, <1>2 DEF ClosedCell

\* The changes of a closed cell: those it had, and the one of its period.
LEMMA ClosedCellRange ==
  ASSUME TypeOK, NEW c \in Cell
  PROVE  {ClosedCell(c)[k] : k \in DOMAIN ClosedCell(c)} =
           {changes[c][k] : k \in DOMAIN changes[c]} \cup
           IF period[RowOf(c)] # NoPeriod /\ value[c] # pre[c]
             THEN {[index |-> period[RowOf(c)], value |-> value[c]]}
             ELSE {}
<1> DEFINE e == [index |-> period[RowOf(c)], value |-> value[c]]
           n == Len(changes[c])
           app == Append(changes[c], e)
           Rec == {changes[c][k] : k \in DOMAIN changes[c]}
<1> HIDE DEF e
<1>1. changes[c] \in Seq(Change)
  BY DEF TypeOK
<1>2. /\ n \in Nat /\ DOMAIN changes[c] = 1 .. n /\ DOMAIN app = 1 .. n + 1
      /\ \A k \in 1 .. n : app[k] = changes[c][k]
      /\ app[n + 1] = e
  BY <1>1
<1> HIDE DEF n, app
<1>3. 1 .. n + 1 = (1 .. n) \cup {n + 1} /\ n + 1 \notin 1 .. n
  BY <1>2
<1>4. {app[k] : k \in DOMAIN app} = Rec \cup {e}
  <2>1. \A k \in DOMAIN app : app[k] \in Rec \cup {e}
    BY <1>2, <1>3
  <2>2. \A x \in Rec \cup {e} : \E k \in DOMAIN app : app[k] = x
    BY <1>2, <1>3
  <2> HIDE DEF Rec
  <2> QED
    BY <2>1, <2>2
<1>5. CASE period[RowOf(c)] # NoPeriod /\ value[c] # pre[c]
  <2>1. ClosedCell(c) = app
    BY <1>5 DEF ClosedCell, app, e
  <2>2. {ClosedCell(c)[k] : k \in DOMAIN ClosedCell(c)} = Rec \cup {e}
    BY <1>4, <2>1
  <2> QED
    BY <1>5, <2>2 DEF e
<1>6. CASE ~(period[RowOf(c)] # NoPeriod /\ value[c] # pre[c])
  BY <1>6 DEF ClosedCell
<1> QED
  BY <1>5, <1>6

\* Open, before a write that changes only the rows it opens or rows that are
\* open already.
LEMMA OpenStep ==
  ASSUME TypeOK, NEW writes \in SUBSET Row, Open(writes), writes \subseteq accessed',
         accessed \subseteq accessed', value' \in [Cell -> Value],
         \A c \in Cell : value'[c] # value[c] => RowOf(c) \in writes \/ period[RowOf(c)] = index,
         UNCHANGED <<index, built>>
  PROVE  Opens
<1>1. /\ period' = [r \in Row |-> IF r \in writes /\ period[r] # index THEN index ELSE period[r]]
      /\ pre' = [c \in Cell |-> IF RowOf(c) \in writes /\ period[RowOf(c)] # index
                                 THEN value[c] ELSE pre[c]]
      /\ changes' = [c \in Cell |-> IF RowOf(c) \in writes /\ period[RowOf(c)] # index
                                     THEN ClosedCell(c) ELSE changes[c]]
  <2>1. \A r \in Row : r \in Unopened(writes) <=> r \in writes /\ period[r] # index
    BY DEF Unopened
  <2>2. \A c \in Cell : Closed(Unopened(writes))[c] =
                         IF RowOf(c) \in Unopened(writes) THEN ClosedCell(c) ELSE changes[c]
    BY DEF Closed, ClosedCell
  <2>3. Closed(Unopened(writes)) = [c \in Cell |-> Closed(Unopened(writes))[c]]
    BY DEF Closed
  <2> QED
    BY <2>1, <2>2, <2>3, Cells DEF Open
<1>2. period' \in [Row -> {NoPeriod} \cup 0 .. PostIndex]
  BY <1>1 DEF TypeOK
<1>3. pre' \in [Cell -> Value]
  BY <1>1 DEF TypeOK
<1>4. changes' \in [Cell -> Seq(Change)]
  BY <1>1, ClosedCellType DEF TypeOK
<1>5. RecordTypes'
  BY <1>2, <1>3, <1>4 DEF RecordTypes, TypeOK
<1>6. \A r \in Row : period'[r] = IF r \in writes /\ period[r] # index THEN index ELSE period[r]
  BY <1>1
<1>7. \A c \in Cell :
        IF period'[RowOf(c)] = period[RowOf(c)]
          THEN changes'[c] = changes[c] /\ pre'[c] = pre[c]
          ELSE changes'[c] = ClosedCell(c) /\ pre'[c] = value[c]
  BY <1>1, <1>6, Cells
<1>8. \A c \in Cell : value'[c] # value[c] => period'[RowOf(c)] = index
  BY <1>6, Cells
<1> QED
  BY <1>5, <1>6, <1>7, <1>8 DEF Opens

\* Closing a period keeps the changes of a cell in order, up to the period.
LEMMA ClosedCellOrder ==
  ASSUME TypeOK, Records, ~built, NEW c \in Cell
  PROVE  /\ \A i, j \in DOMAIN ClosedCell(c) :
              i < j => ClosedCell(c)[i].index < ClosedCell(c)[j].index
         /\ period[RowOf(c)] = NoPeriod => ClosedCell(c) = <<>>
         /\ \A k \in DOMAIN ClosedCell(c) :
              ClosedCell(c)[k].index \in Int /\ ClosedCell(c)[k].index <= period[RowOf(c)]
<1> DEFINE r == RowOf(c)
<1>1. /\ r \in Row /\ changes[c] \in Seq(Change) /\ period[r] \in Int
      /\ (period[r] = NoPeriod => changes[c] = <<>>)
      /\ (period[r] # NoPeriod =>
            \A k \in DOMAIN changes[c] : changes[c][k].index < period[r])
      /\ \A i, j \in DOMAIN changes[c] : i < j => changes[c][i].index < changes[c][j].index
  BY Cells DEF TypeOK, Records, ChangesInOrder, NoPeriod
<1>2. \A k \in DOMAIN changes[c] : changes[c][k].index \in Int
  <2>1. \A k \in DOMAIN changes[c] : changes[c][k] \in Change
    BY <1>1
  <2>2. \A e \in Change : e.index \in Int
    BY DEF Change
  <2> QED
    BY <2>1, <2>2
<1>3. CASE period[r] # NoPeriod /\ value[c] # pre[c]
  <2> DEFINE e == [index |-> period[r], value |-> value[c]]
  <2>1. ClosedCell(c) = Append(changes[c], e) /\ e.index = period[r]
    BY <1>3 DEF ClosedCell
  <2> HIDE DEF e
  <2>2. /\ DOMAIN ClosedCell(c) = 1 .. Len(changes[c]) + 1
        /\ DOMAIN changes[c] = 1 .. Len(changes[c]) /\ Len(changes[c]) \in Nat
        /\ \A k \in 1 .. Len(changes[c]) : ClosedCell(c)[k] = changes[c][k]
        /\ ClosedCell(c)[Len(changes[c]) + 1] = e
    BY <1>1, <2>1
  <2> QED
    BY <1>1, <1>2, <1>3, <2>1, <2>2
<1>4. CASE ~(period[r] # NoPeriod /\ value[c] # pre[c])
  <2>1. ClosedCell(c) = changes[c]
    BY <1>4 DEF ClosedCell
  <2>2. CASE period[r] = NoPeriod
    BY <1>1, <2>1, <2>2
  <2>3. CASE period[r] # NoPeriod
    BY <1>1, <1>2, <2>1, <2>3
  <2> QED
    BY <2>2, <2>3
<1> QED
  BY <1>3, <1>4

\* Such a step keeps the records in order.
LEMMA OpensRecords ==
  ASSUME TypeOK, Records, Opens, ~built
  PROVE  Records'
<1>0. /\ index \in Int /\ index >= 0 /\ index' = index /\ ~built'
      /\ \A r \in Row : period[r] \in Int /\ (period[r] # NoPeriod => period[r] >= 0)
  BY DEF TypeOK, Opens, NoPeriod, PostIndex
<1>1. \A r \in Row : period'[r] # NoPeriod => r \in accessed' /\ period'[r] <= index'
  BY <1>0 DEF Records, Opens
<1>2. ASSUME NEW c \in Cell
      PROVE  /\ period'[RowOf(c)] = NoPeriod => changes'[c] = <<>>
             /\ period'[RowOf(c)] # NoPeriod =>
                  \A k \in DOMAIN changes'[c] : changes'[c][k].index < period'[RowOf(c)]
             /\ \A i, j \in DOMAIN changes'[c] :
                  i < j => changes'[c][i].index < changes'[c][j].index
  <2> DEFINE r == RowOf(c)
  <2>1. /\ r \in Row /\ changes[c] \in Seq(Change)
        /\ (period[r] = NoPeriod => changes[c] = <<>>)
        /\ (period[r] # NoPeriod =>
              \A k \in DOMAIN changes[c] : changes[c][k].index < period[r])
        /\ \A i, j \in DOMAIN changes[c] : i < j => changes[c][i].index < changes[c][j].index
    BY Cells DEF TypeOK, Records, ChangesInOrder
  <2>2. CASE period'[r] = period[r]
    <3>1. changes'[c] = changes[c]
      BY <2>2 DEF Opens
    <3> QED
      BY <2>1, <2>2, <3>1
  <2>3. CASE period'[r] # period[r]
    <3>1. changes'[c] = ClosedCell(c) /\ period'[r] = index
      BY <2>1, <2>3 DEF Opens
    <3>2. period[r] < index
      BY <1>0, <2>1, <2>3, <3>1 DEF Records, NoPeriod
    <3> QED
      BY <1>0, <2>1, <3>1, <3>2, ClosedCellOrder DEF NoPeriod
  <2> QED
    BY <2>2, <2>3
<1> QED
  BY <1>0, <1>1, <1>2 DEF Records, ChangesInOrder

\* What was written since a snapshot stays open, and so does everything
\* written since the step began.
LEMMA OpensSince ==
  ASSUME TypeOK, Opens
  PROVE  /\ \A r \in Row : period[r] = index => period'[r] = index'
         /\ \A saved : WrittenSince(saved) => WrittenSinceNext(saved)
         /\ \A c \in Cell : value'[c] # value[c] => period'[RowOf(c)] = index'
<1>1. \A r \in Row : period[r] = index => period'[r] = index'
  BY DEF Opens
<1> QED
  BY <1>1, Cells DEF Opens, WrittenSince, WrittenSinceNext

\* Such a step is a step of the eager list, within an index.
LEMMA OpensRefines ==
  ASSUME TypeOK, Opens, ~built
  PROVE  Eager!Execute
<1> DEFINE Start(c) == IF period[RowOf(c)] = index THEN pre[c] ELSE value[c]
<1>0. index \in Nat /\ index # NoPeriod /\ index' = index /\ built' = built
  BY DEF TypeOK, Opens, NoPeriod, PostIndex
<1>1. value' \in [Cell -> Value]
  BY DEF Opens, RecordTypes
<1>2. ASSUME NEW c \in Cell
      PROVE  Start(c)' = Start(c) /\ Owed(c)' = Owed(c)
  <2> DEFINE r == RowOf(c)
  <2>1. r \in Row /\ changes[c] \in Seq(Change)
    BY Cells DEF TypeOK
  <2>2. CASE period'[r] = period[r]
    <3>1. changes'[c] = changes[c] /\ pre'[c] = pre[c]
      BY <2>2 DEF Opens
    <3>2. period[r] # index => value'[c] = value[c]
      BY <2>2, <1>0 DEF Opens
    <3> QED
      BY <1>0, <2>2, <3>1, <3>2 DEF Owed
  <2>3. CASE period'[r] # period[r]
    <3>1. /\ period[r] # index /\ period'[r] = index
          /\ changes'[c] = ClosedCell(c) /\ pre'[c] = value[c]
      BY <2>1, <2>3 DEF Opens
    <3>2. Start(c)' = Start(c)
      BY <1>0, <3>1
    <3>3. Owed(c)' = {ClosedCell(c)[k] : k \in DOMAIN ClosedCell(c)}
      BY <1>0, <3>1 DEF Owed
    <3>4. Owed(c) = {ClosedCell(c)[k] : k \in DOMAIN ClosedCell(c)}
      BY <3>1, ClosedCellRange DEF Owed
    <3> QED
      BY <3>2, <3>3, <3>4
  <2> QED
    BY <2>2, <2>3
<1>3. [c \in Cell |-> Start(c)]' = [c \in Cell |-> Start(c)]
  BY <1>2
<1>4. [c \in Cell |-> Owed(c)]' = [c \in Cell |-> Owed(c)]
  BY <1>2
<1> QED
  BY <1>0, <1>1, <1>3, <1>4 DEF Eager!Execute

-----------------------------------------------------------------------------
\* Putting a value into a cell changes that row only.
LEMMA PutCell ==
  ASSUME NEW v \in [Cell -> Value], NEW r, NEW f, NEW x \in Value
  PROVE  /\ Put(v, r, f, x) \in [Cell -> Value]
         /\ \A c \in Cell : Put(v, r, f, x)[c] # v[c] => RowOf(c) = r
  BY DEF Put, RowOf

\* A transfer writes the balances of its two accounts, or nothing.
LEMMA TransferCells ==
  ASSUME NEW v \in [Cell -> Value], NEW from \in Account, NEW to \in Account,
         NEW t \in Transfers(v, from, to)
  PROVE  /\ t.writes \subseteq {from, to}
         /\ t.new \in [Cell -> Value]
         /\ \A c \in Cell : t.new[c] # v[c] => RowOf(c) \in t.writes
<1>1. CASE t = [writes |-> {}, new |-> v]
  BY <1>1
<1>2. CASE \E x, y \in Value :
             t = [writes |-> {from, to},
                  new |-> Put(Put(v, from, "balance", x), to, "balance", y)]
  <2>1. PICK x, y \in Value :
             t = [writes |-> {from, to},
                  new |-> Put(Put(v, from, "balance", x), to, "balance", y)]
    BY <1>2, Zenon
  <2> DEFINE v1 == Put(v, from, "balance", x)
             v2 == Put(v1, to, "balance", y)
  <2>2. v1 \in [Cell -> Value] /\ \A c \in Cell : v1[c] # v[c] => RowOf(c) = from
    BY PutCell
  <2>3. t.writes = {from, to} /\ t.new = v2
    BY <2>1
  <2> HIDE DEF v1
  <2>4. v2 \in [Cell -> Value] /\ \A c \in Cell : v2[c] # v1[c] => RowOf(c) = to
    BY <2>2, PutCell
  <2> HIDE DEF v2
  <2> QED
    BY <2>2, <2>3, <2>4
<1> QED
  BY <1>1, <1>2 DEF Transfers

\* A callback opens the rows it writes.
LEMMA TouchOpens ==
  ASSUME TypeOK, NEW reads, NEW writes \in SUBSET Row, NEW new \in [Cell -> Value],
         Touch(reads, writes, new), UNCHANGED <<index, built>>,
         \A c \in Cell : new[c] # value[c] => RowOf(c) \in writes \/ period[RowOf(c)] = index
  PROVE  Opens
<1>1. /\ Open(writes) /\ value' = new
      /\ accessed' = accessed \cup Committed \cup reads \cup writes
  BY DEF Touch
<1> QED
  BY <1>1, OpenStep

\* A callback lists what it loads and the access it shows to be paid.
LEMMA TouchListed ==
  ASSUME Inv, op.at # "halt",
         NEW reads \in SUBSET Row, NEW writes \in SUBSET Row, NEW new,
         Touch(reads, writes, new),
         \A s \in (reads \cup writes) \cap Slot : Owner[s] \in accessed
  PROVE  /\ accessed' \subseteq Row /\ loaded' \subseteq Account /\ accessed \subseteq accessed'
         /\ reads \cup writes \subseteq accessed'
         /\ \A s \in Slot : s \in accessed' => Owner[s] \in accessed'
         /\ accessed' \cap Account \subseteq loaded'
         /\ pending' = NoAccount
<1>1. /\ accessed' = accessed \cup Committed \cup reads \cup writes
      /\ loaded' = loaded \cup ((reads \cup writes) \cap Account)
      /\ pending' = NoAccount
  BY DEF Touch
<1>2. Committed \subseteq Account /\ Committed \subseteq loaded
  BY DEF Committed, Inv, TypeOK, Listed
<1>3. Account \subseteq Row /\ Account \cap Slot = {}
  BY ConstantsAssumption DEF Row
<1> QED
  BY <1>1, <1>2, <1>3 DEF Inv, TypeOK, Listed

\* A step within an index preserves the invariant if every frame it adds or
\* changes is anchored and listed, and every account it marks created is clean.
LEMMA StepInv ==
  ASSUME Inv, Opens, ~built,
         accessed' \subseteq Row, loaded' \subseteq Account, pending' \in Account \cup {NoAccount},
         op' \in Ops, stage' \in {"before", "ran", "destroyed"},
         created' \subseteq Account, doomed' \subseteq Account, frames' \in Seq(Frames),
         \A s \in Slot : s \in accessed' => Owner[s] \in accessed',
         accessed' \cap Account \subseteq loaded',
         pending' # NoAccount /\ op'.at # "halt" => pending' \in loaded',
         op'.at \in {"load", "call"} => op'.dst \in Account /\ op'.code \in Account,
         op'.at = "call" => op'.dst \in accessed',
         frames' = <<>> => pending' = NoAccount /\ op' = Running,
         InTx => created \subseteq created' /\ doomed' \subseteq created',
         \A s \in Slot : Owner[s] \in created' \ created => value[<<s, "value">>] = 0,
         \A k \in 1 .. Len(frames') :
           \/ k \in 1 .. Depth /\ frames'[k] = frames[k]
           \/ /\ frames'[k].to \in accessed'
              /\ WrittenSinceNext(frames'[k].saved)
              /\ InTx => frames'[k].doomed \subseteq created'
  PROVE  Inv'
<1>0. index' = index /\ ~built' /\ accessed \subseteq accessed' /\ Depth \in Nat
  BY DEF Opens, Inv, TypeOK, Depth
<1>1. TypeOK'
  BY <1>0 DEF Inv, TypeOK, Opens, RecordTypes
<1>2. Records'
  BY OpensRecords DEF Inv
<1>3. /\ \A r \in Row : period[r] = index => period'[r] = index'
      /\ \A saved : WrittenSince(saved) => WrittenSinceNext(saved)
      /\ \A c \in Cell : value'[c] # value[c] => period'[RowOf(c)] = index'
  BY OpensSince DEF Inv
<1>4. Bypasses'
  <2>1. \A k \in 1 .. Len(frames') : WrittenSinceNext(frames'[k].saved)
    BY <1>3 DEF Inv, Bypasses
  <2>2. \A s \in Slot : Owner[s] \in created' /\ value'[<<s, "value">>] # 0 => period'[s] = index'
    BY <1>3, Cells DEF Inv, Bypasses, Row
  <2>3. InTx => \A k \in 1 .. Len(frames') : frames'[k].doomed \subseteq created'
    BY DEF Inv, Bypasses
  <2> QED
    BY <1>0, <2>1, <2>2, <2>3 DEF Bypasses, Depth, InTx, WrittenSince, WrittenSinceNext
<1>5. Listed'
  <2>1. \A k \in 1 .. Len(frames') : frames'[k].to \in accessed'
    BY <1>0 DEF Inv, Listed
  <2> QED
    BY <2>1 DEF Listed, Depth
<1>6. Control'
  BY <1>0 DEF Control
<1> QED
  BY <1>1, <1>2, <1>4, <1>5, <1>6 DEF Inv

\* The running frame is one of the stack, and nothing is built while it runs.
LEMMA TopFacts ==
  ASSUME Inv, frames # <<>>
  PROVE  /\ Depth \in Nat /\ Depth \in 1 .. Depth /\ frames[Depth] \in Frames
         /\ Top \in Account /\ Top \in accessed /\ ~built
         /\ frames[Depth].saved \in [Cell -> Value] /\ frames[Depth].doomed \subseteq Account
<1>1. Depth \in Nat /\ Depth \in 1 .. Depth /\ frames[Depth] \in Frames
  BY DEF Inv, TypeOK, Depth
<1> QED
  BY <1>1 DEF Inv, Listed, Control, Top, Frames

\* A callback that adds no frame.
LEMMA QuietStep ==
  ASSUME Inv, ~built, op.at # "halt",
         NEW reads \in SUBSET Row, NEW writes \in SUBSET Row, NEW new \in [Cell -> Value],
         Touch(reads, writes, new),
         \A s \in (reads \cup writes) \cap Slot : Owner[s] \in accessed,
         \A c \in Cell : new[c] # value[c] => RowOf(c) \in writes \/ period[RowOf(c)] = index,
         UNCHANGED <<index, built, frames, created>>,
         doomed' \subseteq Account, InTx => doomed' \subseteq created,
         stage' \in {"before", "ran", "destroyed"},
         op' \in Ops, frames = <<>> => op' = Running,
         op'.at \in {"load", "call"} => op'.dst \in Account /\ op'.code \in Account,
         op'.at = "call" => op'.dst \in accessed \cup reads
  PROVE  Inv' /\ Opens
<1>1. Opens
  BY TouchOpens DEF Inv
<1>2. /\ accessed' \subseteq Row /\ loaded' \subseteq Account /\ accessed \subseteq accessed'
      /\ reads \cup writes \subseteq accessed'
      /\ \A s \in Slot : s \in accessed' => Owner[s] \in accessed'
      /\ accessed' \cap Account \subseteq loaded'
      /\ pending' = NoAccount
  BY TouchListed, Zenon
<1>3. created' \subseteq Account /\ frames' \in Seq(Frames)
  BY DEF Inv, TypeOK
<1>4. \A k \in 1 .. Len(frames') : k \in 1 .. Depth /\ frames'[k] = frames[k]
  BY DEF Depth
<1>5. /\ InTx => created \subseteq created' /\ doomed' \subseteq created'
      /\ \A s \in Slot : Owner[s] \in created' \ created => value[<<s, "value">>] = 0
      /\ frames' = <<>> => pending' = NoAccount /\ op' = Running
      /\ op'.at = "call" => op'.dst \in accessed'
  BY <1>2
<1> QED
  BY <1>1, <1>2, <1>3, <1>4, <1>5, StepInv

\* A callback that loads reads, writes new into writes and opens the frame f.
Pushes(reads, writes, new, f) ==
  /\ reads \in SUBSET Account /\ writes \in SUBSET Account
  /\ new \in [Cell -> Value] /\ f \in Frames
  /\ Touch(reads, writes, new)
  /\ \A c \in Cell : new[c] # value[c] => RowOf(c) \in writes
  /\ \A c \in Cell : new[c] # f.saved[c] => RowOf(c) \in writes
  /\ f.to \in accessed \cup reads /\ f.doomed = doomed
  /\ frames' = Append(frames, f)

LEMMA PushStep ==
  ASSUME Inv, ~built, op.at # "halt",
         NEW reads, NEW writes, NEW new, NEW f, Pushes(reads, writes, new, f),
         op' \in Ops, op'.at = "run",
         UNCHANGED <<index, built, doomed>>,
         created' \subseteq Account, InTx => created \subseteq created',
         \A s \in Slot : Owner[s] \in created' \ created => value[<<s, "value">>] = 0,
         stage' \in {"before", "ran", "destroyed"}
  PROVE  Inv' /\ Opens
<1> /\ reads \in SUBSET Account /\ writes \in SUBSET Account
    /\ new \in [Cell -> Value] /\ f \in Frames
    /\ Touch(reads, writes, new)
    /\ \A c \in Cell : new[c] # value[c] => RowOf(c) \in writes
    /\ \A c \in Cell : new[c] # f.saved[c] => RowOf(c) \in writes
    /\ f.to \in accessed \cup reads /\ f.doomed = doomed
    /\ frames' = Append(frames, f)
  BY DEF Pushes
<1>0. Account \subseteq Row /\ Account \cap Slot = {}
  BY ConstantsAssumption DEF Row
<1>1. Opens
  BY <1>0, TouchOpens DEF Inv
<1>2. /\ accessed' \subseteq Row /\ loaded' \subseteq Account /\ accessed \subseteq accessed'
      /\ reads \cup writes \subseteq accessed'
      /\ \A s \in Slot : s \in accessed' => Owner[s] \in accessed'
      /\ accessed' \cap Account \subseteq loaded'
      /\ pending' = NoAccount
  <2>1. /\ reads \in SUBSET Row /\ writes \in SUBSET Row
        /\ \A s \in (reads \cup writes) \cap Slot : Owner[s] \in accessed
    BY <1>0
  <2> QED
    BY <2>1, TouchListed, Zenon
<1>3. /\ frames \in Seq(Frames) /\ doomed' \subseteq Account /\ Depth \in Nat
      /\ frames' \in Seq(Frames) /\ Len(frames') = Depth + 1 /\ frames' # <<>>
      /\ \A k \in 1 .. Depth : frames'[k] = frames[k]
      /\ frames'[Depth + 1] = f
  <2>1. frames \in Seq(Frames) /\ doomed' \subseteq Account
    BY DEF Inv, TypeOK
  <2>2. frames' \in Seq(Frames) /\ Len(frames') = Len(frames) + 1 /\ Len(frames) \in Nat
    BY <2>1
  <2>3. (\A k \in 1 .. Len(frames) : frames'[k] = frames[k]) /\ frames'[Len(frames) + 1] = f
    BY <2>1
  <2>4. frames' # <<>>
    BY <2>2
  <2> QED
    BY <2>1, <2>2, <2>3, <2>4 DEF Depth
<1>4. WrittenSinceNext(f.saved)
  <2>1. value' = new /\ Open(writes) /\ index' = index
    BY DEF Touch
  <2>2. \A r \in writes : period'[r] = index'
    BY <1>0, <2>1 DEF Open, Unopened
  <2> QED
    BY <2>1, <2>2 DEF WrittenSinceNext
<1>5. InTx => doomed' \subseteq created' /\ f.doomed \subseteq created'
  BY DEF Inv, Bypasses
<1>6. \A k \in 1 .. Len(frames') :
        \/ k \in 1 .. Depth /\ frames'[k] = frames[k]
        \/ /\ frames'[k].to \in accessed'
           /\ WrittenSinceNext(frames'[k].saved)
           /\ InTx => frames'[k].doomed \subseteq created'
  <2>1. \A k \in 1 .. Depth + 1 : k \in 1 .. Depth \/ k = Depth + 1
    BY <1>3
  <2> QED
    BY <1>2, <1>3, <1>4, <1>5, <2>1
<1> QED
  BY <1>1, <1>2, <1>3, <1>5, <1>6, StepInv
=============================================================================
