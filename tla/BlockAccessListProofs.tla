----------------------- MODULE BlockAccessListProofs -----------------------
(***************************************************************************)
(* The lazily recorded block access list is the eager one, for any number  *)
(* of accounts, slots, values, transactions and frames.                    *)
(***************************************************************************)
EXTENDS BlockAccessListFrames

USE SMTT(30)

\* Outside any frame.
LEMMA OutsideFacts ==
  ASSUME Inv, Outside
  PROVE  /\ frames = <<>> /\ ~built /\ op = Running /\ op \in Ops /\ op.at = "run"
         /\ value \in [Cell -> Value] /\ doomed \subseteq Account /\ created \subseteq Account
         /\ stage \in {"before", "ran", "destroyed"} /\ pending = NoAccount
         /\ (InTx => doomed \subseteq created)
  BY Operands DEF Inv, TypeOK, Control, Bypasses, Outside

\* A frame opened from outside, with what it loads and writes.
LEMMA TopFrame ==
  ASSUME Inv, Outside, NEW to \in Account, NEW create \in BOOLEAN,
         NEW reads \in SUBSET Account, to \in reads,
         NEW writes \in SUBSET Account, NEW new \in [Cell -> Value],
         Touch(reads, writes, new),
         \A c \in Cell : new[c] # value[c] => RowOf(c) \in writes,
         frames' = <<Frame(to, create, value)>>
  PROVE  Pushes(reads, writes, new, Frame(to, create, value))
<1> DEFINE f == Frame(to, create, value)
<1>1. f \in Frames /\ f.to = to /\ f.saved = value /\ f.doomed = doomed
  BY OutsideFacts DEF Frame, Frames
<1> HIDE DEF f
<1>2. <<f>> = Append(<<>>, f)
  BY <1>1
<1>3. frames' = Append(frames, f)
  BY <1>2, OutsideFacts, Zenon DEF f
<1> QED
  BY <1>1, <1>3 DEF Pushes, f

LEMMA SystemCallInv ==
  ASSUME Inv, NEW a \in Account, SystemCall(a)
  PROVE  Inv' /\ Opens
<1> DEFINE f == Frame(a, FALSE, value)
           reads == {a}
           writes == {}
<1>1. /\ Outside /\ index \in {0, PostIndex} /\ Touch(reads, writes, value)
      /\ frames' = <<f>> /\ created' = {}
      /\ UNCHANGED <<index, built, doomed>> /\ UNCHANGED <<op, stage>>
  BY DEF SystemCall
<1>2. Pushes(reads, writes, value, f)
  <2>1. /\ reads \in SUBSET Account /\ a \in reads /\ writes \in SUBSET Account
        /\ value \in [Cell -> Value] /\ FALSE \in BOOLEAN
        /\ \A c \in Cell : value[c] # value[c] => RowOf(c) \in writes
    BY <1>1, OutsideFacts
  <2> HIDE DEF reads, writes
  <2> QED
    BY <1>1, <2>1, TopFrame, Zenon
<1>3. ~InTx
  BY <1>1, ConstantsAssumption DEF InTx, PostIndex
<1>4. /\ ~built /\ op.at # "halt" /\ op' \in Ops /\ op'.at = "run"
      /\ created' \subseteq Account /\ (InTx => created \subseteq created')
      /\ \A s \in Slot : Owner[s] \in created' \ created => value[<<s, "value">>] = 0
      /\ stage' \in {"before", "ran", "destroyed"}
  BY <1>1, <1>3, OutsideFacts
<1> HIDE DEF f, reads, writes
<1> QED
  BY <1>1, <1>2, <1>4, PushStep, Zenon

LEMMA TopCallInv ==
  ASSUME Inv, NEW sender \in Account, NEW a \in Account, NEW d \in Account,
         TopCall(sender, a, d)
  PROVE  Inv' /\ Opens
<1>1. /\ Outside /\ frames' = <<Frame(a, FALSE, value)>> /\ stage' = "ran"
      /\ UNCHANGED <<index, built, doomed>> /\ UNCHANGED <<op, created>>
  BY DEF TopCall
<1>2. PICK t \in Transfers(value, sender, a) : Touch({a, d}, t.writes, t.new)
  BY Zenon DEF TopCall
<1>3. /\ t.writes \subseteq {sender, a} /\ t.new \in [Cell -> Value]
      /\ \A c \in Cell : t.new[c] # value[c] => RowOf(c) \in t.writes
  BY <1>1, OutsideFacts, TransferCells
<1> DEFINE f == Frame(a, FALSE, value)
           reads == {a, d}
           writes == t.writes
           new == t.new
<1>4. Pushes(reads, writes, new, f)
  <2>1. /\ reads \in SUBSET Account /\ a \in reads /\ writes \in SUBSET Account
        /\ FALSE \in BOOLEAN
    BY <1>3
  <2>2. /\ Touch(reads, writes, new) /\ new \in [Cell -> Value]
        /\ \A c \in Cell : new[c] # value[c] => RowOf(c) \in writes
    BY <1>2, <1>3, Zenon
  <2> HIDE DEF reads, writes, new
  <2> QED
    BY <1>1, <2>1, <2>2, TopFrame, Zenon
<1>5. /\ ~built /\ op.at # "halt" /\ op' \in Ops /\ op'.at = "run"
      /\ created' \subseteq Account /\ (InTx => created \subseteq created')
      /\ \A s \in Slot : Owner[s] \in created' \ created => value[<<s, "value">>] = 0
      /\ stage' \in {"before", "ran", "destroyed"}
  BY <1>1, OutsideFacts
<1> HIDE DEF f, reads, writes, new
<1> QED
  BY <1>1, <1>4, <1>5, PushStep, Zenon

\* An account of a top-level transaction is read, and nothing else happens.
LEMMA TopRead ==
  ASSUME Inv, Outside, NEW a \in Account, Touch({a}, {}, value), stage' = "ran",
         UNCHANGED <<index, frames, op, created, doomed, built>>
  PROVE  Inv' /\ Opens
<1> DEFINE reads == {a}
<1>1. reads \in SUBSET Account /\ Touch(reads, {}, value)
  OBVIOUS
<1>2. /\ UNCHANGED <<index, built, frames, created, doomed>> /\ ~built /\ op.at # "halt"
      /\ stage' \in {"before", "ran", "destroyed"} /\ op' \in Ops
      /\ (frames = <<>> => op' = Running) /\ op'.at \notin {"load", "call"}
  BY OutsideFacts
<1> HIDE DEF reads
<1> QED
  BY <1>1, <1>2, ReadStep

LEMMA TopCallOutOfGasInv ==
  ASSUME Inv, NEW a \in Account, TopCallOutOfGas(a)
  PROVE  Inv' /\ Opens
<1>1. /\ Outside /\ Touch({a}, {}, value) /\ stage' = "ran"
      /\ UNCHANGED <<index, frames, op, created, doomed, built>>
  BY DEF TopCallOutOfGas
<1> QED
  BY <1>1, TopRead, Zenon

LEMMA TopCreateInv ==
  ASSUME Inv, NEW sender \in Account, NEW a \in Account, TopCreate(sender, a)
  PROVE  Inv' /\ Opens
<1>1. /\ Outside /\ stage' = "ran" /\ UNCHANGED <<index, built, doomed>> /\ op' = op
  BY DEF TopCreate
<1> DEFINE named == Put(value, a, "nonce", 1)
<1>2. named \in [Cell -> Value] /\ \A c \in Cell : named[c] # value[c] => RowOf(c) = a
  BY <1>1, OutsideFacts, PutCell, ConstantsAssumption
<1>3. CASE /\ LooksEmpty(a)
           /\ \E t \in Transfers(named, sender, a) : Touch({a}, {a} \cup t.writes, t.new)
           /\ frames' = <<Frame(a, TRUE, value)>>
           /\ created' = created \cup {a}
  <2> HIDE DEF named
  <2>1. PICK t \in Transfers(named, sender, a) : Touch({a}, {a} \cup t.writes, t.new)
    BY <1>3, Zenon
  <2>2. /\ t.writes \subseteq {sender, a} /\ t.new \in [Cell -> Value]
        /\ \A c \in Cell : t.new[c] # named[c] => RowOf(c) \in t.writes
    BY <1>2, TransferCells
  <2> DEFINE f == Frame(a, TRUE, value)
             reads == {a}
             writes == {a} \cup t.writes
             new == t.new
  <2>3. Pushes(reads, writes, new, f)
    <3>1. /\ reads \in SUBSET Account /\ a \in reads /\ writes \in SUBSET Account
          /\ TRUE \in BOOLEAN
      BY <2>2
    <3>2. new \in [Cell -> Value] /\ \A c \in Cell : new[c] # value[c] => RowOf(c) \in writes
      BY <1>2, <2>2
    <3>3. Touch(reads, writes, new)
      BY <2>1, Zenon
    <3> HIDE DEF reads, writes, new
    <3> QED
      BY <1>1, <1>3, <3>1, <3>2, <3>3, TopFrame, Zenon
  <2>4. /\ ~built /\ op.at # "halt" /\ op' \in Ops /\ op'.at = "run"
        /\ created' \subseteq Account /\ (InTx => created \subseteq created')
        /\ \A s \in Slot : Owner[s] \in created' \ created => value[<<s, "value">>] = 0
        /\ stage' \in {"before", "ran", "destroyed"}
    BY <1>1, <1>3, OutsideFacts DEF LooksEmpty, SlotsOf
  <2> HIDE DEF f, reads, writes, new
  <2> QED
    BY <1>1, <2>3, <2>4, PushStep, Zenon
<1>4. CASE Touch({a}, {}, value) /\ UNCHANGED <<frames, created>>
  <2>1. UNCHANGED <<index, frames, op, created, doomed, built>>
    BY <1>1, <1>4
  <2> QED
    BY <1>1, <1>4, <2>1, TopRead, Zenon
<1> QED
  BY <1>3, <1>4, Zenon DEF TopCreate, named

LEMMA WriteAccountInv ==
  ASSUME Inv, NEW a \in Account, NEW g \in AccountField, NEW x \in Value, WriteAccount(a, g, x)
  PROVE  Inv' /\ Opens
<1> DEFINE reads == {}
           writes == {a}
           new == Put(value, a, g, x)
<1>1. /\ Outside /\ Touch(reads, writes, new)
      /\ UNCHANGED <<index, built, frames, created>> /\ UNCHANGED <<op, doomed, stage>>
  BY DEF WriteAccount
<1>2. /\ new \in [Cell -> Value]
      /\ \A c \in Cell : new[c] # value[c] => RowOf(c) \in writes \/ period[RowOf(c)] = index
  BY <1>1, OutsideFacts, PutCell
<1>3. /\ reads \in SUBSET Row /\ writes \in SUBSET Row
      /\ \A r \in (reads \cup writes) \cap Slot : Owner[r] \in accessed
  BY Operands
<1>4. /\ doomed' \subseteq Account /\ (InTx => doomed' \subseteq created)
      /\ stage' \in {"before", "ran", "destroyed"}
      /\ op' \in Ops /\ (frames = <<>> => op' = Running) /\ op.at # "halt" /\ ~built
      /\ op'.at \in {"load", "call"} => op'.dst \in Account /\ op'.code \in Account
      /\ op'.at = "call" => op'.dst \in accessed \cup reads
  BY <1>1, OutsideFacts
<1> HIDE DEF reads, writes, new
<1> QED
  BY <1>1, <1>2, <1>3, <1>4, QuietStep, Zenon

\* A wiped slot without a record held zero or was written in this index.
LEMMA ApplyPendingDestructsInv ==
  ASSUME Inv, ApplyPendingDestructs
  PROVE  Inv' /\ Opens
<1> DEFINE reads == {}
           writes == doomed \cup WipedSlots
           new == [c \in Cell |-> IF Wiped(c) THEN 0 ELSE value[c]]
<1>1. /\ Outside /\ InTx /\ Touch(reads, writes, new) /\ doomed' = {} /\ stage' = "destroyed"
      /\ UNCHANGED <<index, built, frames, created>> /\ op' = op
  BY DEF ApplyPendingDestructs
<1>2. /\ reads \in SUBSET Row /\ writes \in SUBSET Row
      /\ \A r \in (reads \cup writes) \cap Slot : Owner[r] \in accessed
  BY <1>1, OutsideFacts, ConstantsAssumption DEF WipedSlots, Row, Inv, Listed
<1>3. new \in [Cell -> Value]
  BY <1>1, OutsideFacts, ConstantsAssumption
<1>4. ASSUME NEW c \in Cell, new[c] # value[c]
      PROVE  RowOf(c) \in writes \/ period[RowOf(c)] = index
  <2>1. Wiped(c) /\ value[c] # 0
    BY <1>4
  <2>2. CASE RowOf(c) \in doomed
    BY <2>2
  <2>3. CASE RowOf(c) \in Slot /\ Owner[RowOf(c)] \in doomed
    <3>1. Owner[RowOf(c)] \in created /\ c = <<RowOf(c), "value">>
      BY <1>1, <2>3, OutsideFacts, Cells
    <3> QED
      BY <1>1, <2>1, <2>3, <3>1, OutsideFacts DEF Inv, Bypasses
  <2> QED
    BY <2>1, <2>2, <2>3 DEF Wiped
<1>5. /\ doomed' \subseteq Account /\ (InTx => doomed' \subseteq created)
      /\ stage' \in {"before", "ran", "destroyed"}
      /\ op' \in Ops /\ (frames = <<>> => op' = Running) /\ op.at # "halt" /\ ~built
      /\ op'.at \in {"load", "call"} => op'.dst \in Account /\ op'.code \in Account
      /\ op'.at = "call" => op'.dst \in accessed \cup reads
  BY <1>1, OutsideFacts
<1>6. \A c \in Cell : new[c] # value[c] => RowOf(c) \in writes \/ period[RowOf(c)] = index
  BY <1>4
<1> HIDE DEF reads, writes, new
<1> QED
  BY <1>1, <1>2, <1>3, <1>5, <1>6, QuietStep, Zenon

-----------------------------------------------------------------------------
\* The end of an index: its open periods stay open, and become owed.
LEMMA SetIndexInv ==
  ASSUME Inv, SetIndex
  PROVE  Inv' /\ Eager!EndIndex
<1>1. /\ Outside /\ index' = index + 1 /\ created' = {} /\ doomed' = {} /\ stage' = "before"
      /\ index = 0 \/ InTx
      /\ UNCHANGED <<value, accessed, period, pre, changes, pending, frames, op, built, loaded>>
  BY DEF SetIndex, balVars
<1>2. /\ index \in Nat /\ index' \in 0 .. PostIndex /\ ~built /\ Depth = 0
      /\ \A r \in Row : period[r] \in Int /\ (period[r] # NoPeriod => period[r] <= index)
  BY <1>1, ConstantsAssumption, OutsideFacts
     DEF Inv, TypeOK, Records, InTx, PostIndex, NoPeriod, Depth
<1>3. Inv'
  <2>1. TypeOK'
    BY <1>1, <1>2 DEF Inv, TypeOK
  <2>2. Records'
    BY <1>1, <1>2 DEF Inv, Records, ChangesInOrder
  <2>3. Bypasses' /\ Listed' /\ Control'
    BY <1>1, <1>2 DEF Inv, Bypasses, Listed, Control, Depth
  <2> QED
    BY <2>1, <2>2, <2>3 DEF Inv
<1>4. ASSUME NEW c \in Cell
      PROVE  /\ (IF period[RowOf(c)] = index THEN pre[c] ELSE value[c])' = value[c]
             /\ Owed(c)' =
                  IF value[c] # (IF period[RowOf(c)] = index THEN pre[c] ELSE value[c])
                    THEN Owed(c) \cup {[index |-> index, value |-> value[c]]}
                    ELSE Owed(c)
  <2>1. RowOf(c) \in Row /\ period'[RowOf(c)] # index' /\ index # NoPeriod
    BY <1>1, <1>2, Cells DEF NoPeriod
  <2>2. CASE period[RowOf(c)] = index
    BY <1>1, <2>1, <2>2 DEF Owed
  <2>3. CASE period[RowOf(c)] # index
    BY <1>1, <2>1, <2>3 DEF Owed
  <2> QED
    BY <2>2, <2>3
<1>5. value \in [Cell -> Value]
  BY DEF Inv, TypeOK
<1> QED
  BY <1>1, <1>2, <1>3, <1>4, <1>5 DEF Eager!EndIndex

\* The final pass: what is still open is listed, and is closed.
LEMMA BuildBlockAccessListInv ==
  ASSUME Inv, BuildBlockAccessList
  PROVE  Inv' /\ Eager!EndIndex
<1>1. /\ Outside /\ index = PostIndex /\ built' = TRUE /\ changes' = Closed(accessed)
      /\ period' = [r \in Row |-> IF r \in accessed THEN NoPeriod ELSE period[r]]
      /\ UNCHANGED <<value, index, accessed, pre, pending, frames, op, created, doomed, stage,
                     loaded>>
  BY DEF BuildBlockAccessList
<1>2. /\ index \in Nat /\ index # NoPeriod /\ ~built /\ frames = <<>> /\ Depth = 0
      /\ value \in [Cell -> Value]
      /\ \A r \in Row : period[r] # NoPeriod => r \in accessed
  BY <1>1, ConstantsAssumption, OutsideFacts
     DEF Inv, TypeOK, Records, PostIndex, NoPeriod, Depth
<1>3. \A r \in Row : period'[r] = NoPeriod
  BY <1>1, <1>2
<1>4. \A c \in Cell : changes'[c] = ClosedCell(c)
  BY <1>1, <1>2, Cells DEF Closed, ClosedCell
<1>5. Inv'
  <2>1. TypeOK'
    <3>1. \A c \in Cell : changes'[c] \in Seq(Change)
      BY <1>4, ClosedCellType DEF Inv
    <3>2. changes' \in [Cell -> Seq(Change)]
      BY <1>1, <3>1 DEF Closed
    <3> QED
      BY <1>1, <3>2 DEF Inv, TypeOK
  <2>2. Records'
    <3>1. \A c \in Cell : \A i, j \in DOMAIN changes'[c] :
            i < j => changes'[c][i].index < changes'[c][j].index
      BY <1>2, <1>4, ClosedCellOrder DEF Inv
    <3> QED
      BY <1>1, <1>3, <3>1, Cells DEF Records, ChangesInOrder
  <2>3. Bypasses' /\ Listed' /\ Control'
    <3>1. InTx' = InTx /\ ~InTx
      BY <1>1, ConstantsAssumption DEF InTx, PostIndex
    <3> QED
      BY <1>1, <1>2, <1>3, <3>1 DEF Inv, Bypasses, Listed, Control, Depth
  <2> QED
    BY <2>1, <2>2, <2>3 DEF Inv
<1>6. ASSUME NEW c \in Cell
      PROVE  /\ (IF period[RowOf(c)] = index THEN pre[c] ELSE value[c])' = value[c]
             /\ Owed(c)' =
                  IF value[c] # (IF period[RowOf(c)] = index THEN pre[c] ELSE value[c])
                    THEN Owed(c) \cup {[index |-> index, value |-> value[c]]}
                    ELSE Owed(c)
  <2>1. RowOf(c) \in Row /\ period'[RowOf(c)] = NoPeriod /\ changes'[c] = ClosedCell(c)
    BY <1>3, <1>4, Cells
  <2>2. Owed(c)' = {ClosedCell(c)[k] : k \in DOMAIN ClosedCell(c)}
    BY <2>1 DEF Owed
  <2>3. Owed(c)' = {changes[c][k] : k \in DOMAIN changes[c]} \cup
                     IF period[RowOf(c)] # NoPeriod /\ value[c] # pre[c]
                       THEN {[index |-> period[RowOf(c)], value |-> value[c]]}
                       ELSE {}
    BY <2>2, ClosedCellRange DEF Inv
  <2>4. (IF period[RowOf(c)] = index THEN pre[c] ELSE value[c])' = value[c]
    BY <1>1, <1>2, <2>1
  <2>5. CASE period[RowOf(c)] = index
    <3>1. Owed(c) = {changes[c][k] : k \in DOMAIN changes[c]}
      BY <2>5 DEF Owed
    <3> QED
      BY <1>2, <2>3, <2>4, <2>5, <3>1
  <2>6. CASE period[RowOf(c)] # index
    <3>1. Owed(c)' = Owed(c)
      BY <2>3, <2>6 DEF Owed
    <3> QED
      BY <2>4, <2>6, <3>1
  <2> QED
    BY <2>5, <2>6
<1>7. ~built /\ (IF built THEN index + 1 ELSE index)' = index + 1 /\ value' = value
  BY <1>1, <1>2
<1>8. [c \in Cell |-> IF period[RowOf(c)] = index THEN pre[c] ELSE value[c]]' = value
  BY <1>2, <1>6
<1>9. [c \in Cell |-> Owed(c)]' =
        [c \in Cell |->
           IF value[c] # (IF period[RowOf(c)] = index THEN pre[c] ELSE value[c])
             THEN Owed(c) \cup {[index |-> index, value |-> value[c]]}
             ELSE Owed(c)]
  BY <1>6
<1> QED
  BY <1>5, <1>7, <1>8, <1>9 DEF Eager!EndIndex

-----------------------------------------------------------------------------
LEMMA InitInv ==
  ASSUME Init
  PROVE  Inv /\ Eager!Init
<1>1. TypeOK
  <2>1. 0 \in Value /\ 0 \in 0 .. PostIndex /\ Running \in Ops
    BY ConstantsAssumption, Operands DEF PostIndex
  <2>2. <<>> \in Seq(Change) /\ <<>> \in Seq(Frames)
    OBVIOUS
  <2>3. /\ period \in [Row -> {NoPeriod} \cup 0 .. PostIndex] /\ pre \in [Cell -> Value]
        /\ changes \in [Cell -> Seq(Change)]
    BY <2>1, <2>2 DEF Init
  <2>4. frames \in Seq(Frames) /\ op \in Ops
    <3>1. frames = <<>> /\ op = Running
      BY DEF Init
    <3> QED
      BY <2>1, <2>2, <3>1
  <2>5. /\ value \in [Cell -> Value] /\ accessed \subseteq Row
        /\ pending \in Account \cup {NoAccount}
        /\ created \subseteq Account /\ doomed \subseteq Account
        /\ stage \in {"before", "ran", "destroyed"} /\ built \in BOOLEAN /\ loaded \subseteq Account
        /\ index \in 0 .. PostIndex
    BY <2>1, Zenon DEF Init
  <2> QED
    BY <2>3, <2>4, <2>5 DEF TypeOK
<1>2. Records /\ Bypasses /\ Listed /\ Control
  BY Cells, Operands, ConstantsAssumption
     DEF Init, Records, Bypasses, Listed, Control, ChangesInOrder, Depth, InTx
<1>3. \A c \in Cell :
        /\ (IF period[RowOf(c)] = index THEN pre[c] ELSE value[c]) = value[c]
        /\ Owed(c) = {}
  BY Cells DEF Init, Owed, NoPeriod
<1> QED
  BY <1>1, <1>2, <1>3 DEF Inv, Init, Eager!Init

\* Once the list is built the block is over.
LEMMA NextNotBuilt ==
  ASSUME Inv, Next
  PROVE  ~built
<1>1. ASSUME Outside \/ frames # <<>>
      PROVE  ~built
  BY <1>1 DEF Inv, Control, Outside
<1>2. ASSUME NEW a \in Account,
             \/ SystemCall(a) \/ TopCallOutOfGas(a) \/ AccessAccount(a) \/ AccessDelegate(a)
             \/ Create(a) \/ CreateOutOfGas(a)
      PROVE  ~built
  BY <1>1, <1>2, Zenon DEF SystemCall, TopCallOutOfGas, AccessAccount, AccessDelegate, Create,
                    CreateOutOfGas, InFrame
<1>3. ASSUME NEW a, NEW b, NEW c, WriteAccount(a, b, c) \/ TopCall(a, b, c) \/ TopCreate(a, b)
      PROVE  ~built
  BY <1>1, <1>3, Zenon DEF WriteAccount, TopCall, TopCreate
<1>4. ASSUME NEW s, NEW x, GetStorage(s) \/ SetStorage(s, x) \/ EndFrame(x)
      PROVE  ~built
  BY <1>1, <1>4, Zenon DEF GetStorage, SetStorage, EndFrame, InFrame
<1>5. ASSUME \/ SetIndex \/ BuildBlockAccessList \/ ApplyPendingDestructs
             \/ Load \/ Call \/ CallTooPoor \/ CallTooDeep \/ CallOutOfGas \/ OtherCallback
             \/ SelfDestruct \/ SelfDestructOutOfGas
      PROVE  ~built
  BY <1>1, <1>5, Zenon DEF SetIndex, BuildBlockAccessList, ApplyPendingDestructs, Load, Call, CallTooPoor,
                    CallTooDeep, CallOutOfGas, OtherCallback, SelfDestruct, SelfDestructOutOfGas,
                    InFrame
<1> QED
  BY <1>2, <1>3, <1>4, <1>5, Zenon DEF Next

\* A step stays within an index or ends it.
LEMMA NextInv ==
  ASSUME Inv, [Next]_vars
  PROVE  Inv' /\ [Eager!Next]_(Eager!vars)
<1> DEFINE Stays == Inv' /\ Opens
           Ends == Inv' /\ Eager!EndIndex
<1>1. CASE SetIndex
  <2>1. Ends
    BY <1>1, SetIndexInv
  <2> QED
    BY <2>1 DEF Eager!Next
<1>2. CASE BuildBlockAccessList
  <2>1. Ends
    BY <1>2, BuildBlockAccessListInv
  <2> QED
    BY <2>1 DEF Eager!Next
<1>3. CASE UNCHANGED vars
  <2>1. /\ UNCHANGED <<value, index, accessed, period, pre, changes, pending>>
        /\ UNCHANGED <<frames, op, created, doomed, stage, built, loaded>>
    BY <1>3 DEF vars, balVars
  <2>2. Inv'
    BY <2>1 DEF Inv, TypeOK, Records, Bypasses, Listed, Control, ChangesInOrder, WrittenSince,
                Depth, InTx
  <2>3. UNCHANGED Eager!vars
    BY <2>1 DEF Eager!vars, Owed
  <2> QED
    BY <2>2, <2>3
<1>4. ASSUME NEW a \in Account,
             \/ SystemCall(a) \/ TopCallOutOfGas(a) \/ AccessAccount(a) \/ AccessDelegate(a)
             \/ Create(a) \/ CreateOutOfGas(a)
      PROVE  Stays
  BY <1>4, SystemCallInv, TopCallOutOfGasInv, AccessAccountInv, AccessDelegateInv, CreateInv,
     CreateOutOfGasInv
<1>5. ASSUME NEW a \in Account, NEW f \in AccountField, NEW x \in Value, WriteAccount(a, f, x)
      PROVE  Stays
  BY <1>5, WriteAccountInv
<1>6. ASSUME NEW sender \in Account, NEW a \in Account,
             TopCreate(sender, a) \/ \E d \in Account : TopCall(sender, a, d)
      PROVE  Stays
  BY <1>6, TopCreateInv, TopCallInv
<1>7. ASSUME NEW s \in Slot, GetStorage(s) \/ \E x \in Value : SetStorage(s, x)
      PROVE  Stays
  BY <1>7, GetStorageInv, SetStorageInv
<1>8. ASSUME NEW status \in {"success", "revert", "failure"}, EndFrame(status)
      PROVE  Stays
  BY <1>8, EndFrameInv
<1>9. ASSUME \/ Load \/ Call \/ CallTooPoor \/ CallTooDeep \/ CallOutOfGas \/ OtherCallback
             \/ SelfDestruct \/ SelfDestructOutOfGas \/ ApplyPendingDestructs
      PROVE  Stays
  BY <1>9, LoadInv, CallInv, CallReadsInv, CallTooDeepInv, OtherCallbackInv, SelfDestructInv,
     SelfDestructOutOfGasInv, ApplyPendingDestructsInv
<1>10. CASE Next /\ Stays
  <2>1. Inv' /\ Eager!Execute
    BY <1>10, NextNotBuilt, OpensRefines DEF Inv
  <2> QED
    BY <2>1 DEF Eager!Next
<1>11. CASE Next
  <2>1. SetIndex \/ BuildBlockAccessList \/ Stays
    BY <1>4, <1>5, <1>6, <1>7, <1>8, <1>9, <1>11, Zenon DEF Next
  <2> QED
    BY <1>1, <1>2, <1>10, <1>11, <2>1
<1> QED
  BY <1>3, <1>11

\* The invariant holds in every reachable state.
THEOREM Invariance == Spec => []Inv
<1>1. Init => Inv
  BY InitInv
<1>2. Inv /\ [Next]_vars => Inv'
  BY NextInv
<1> QED
  BY <1>1, <1>2, PTL DEF Spec

\* The list that the code records lazily, at the first write of a row in an
\* index and in the final pass (open_slot, open_account, close_slot,
\* close_account), implements the list that compares the whole state at the
\* end of every index.
THEOREM LazyListIsEager == Spec => LazyIsEager
<1>1. Init => Eager!Init
  BY InitInv
<1>2. Inv /\ [Next]_vars => [Eager!Next]_(Eager!vars)
  BY NextInv
<1> QED
  BY <1>1, <1>2, Invariance, PTL DEF Spec, LazyIsEager, Eager!Spec

\* The change lists that encode writes out are in order.
THEOREM ChangesStayInOrder == Spec => []ChangesInOrder
<1>1. Inv => ChangesInOrder
  BY DEF Inv, Records
<1> QED
  BY <1>1, Invariance, PTL

\* build_block_access_list_hash finds the account of every slot and skips no
\* open row.
THEOREM FinalPassIsWhole == Spec => []ListedRowsAreWhole
<1>1. Inv => ListedRowsAreWhole
  BY DEF Inv, Records, Listed, ListedRowsAreWhole
<1> QED
  BY <1>1, Invariance, PTL

\* No account is listed for an access that could not be paid.
THEOREM NothingUnpaidIsListed == Spec => []UnpaidNotListed
<1>1. Inv => UnpaidNotListed
  BY DEF Inv, Listed, UnpaidNotListed
<1> QED
  BY <1>1, Invariance, PTL
=============================================================================
