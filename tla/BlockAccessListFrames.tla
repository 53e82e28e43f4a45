----------------------- MODULE BlockAccessListFrames -----------------------
(***************************************************************************)
(* The steps inside a frame, from the host callbacks to its end, preserve  *)
(* the invariant of BlockAccessListOps and open every row they write.      *)
(***************************************************************************)
EXTENDS BlockAccessListOps

USE SMTT(30)

\* The operands of the operators of the model.
LEMMA Operands ==
  /\ Running \in Ops /\ Halting \in Ops /\ Stopping \in Ops
  /\ Running.at = "run" /\ Halting.at = "halt" /\ Stopping.at = "stop"
  /\ \A a \in Account : {a} \in SUBSET Row /\ {a} \cap Slot = {}
  /\ \A a, b \in Account : {a, b} \in SUBSET Row /\ {a, b} \cap Slot = {}
  /\ {} \in SUBSET Row
  BY ConstantsAssumption DEF Running, Halting, Stopping, Ops, Row

\* A callback that loads accounts and writes nothing.
LEMMA ReadStep ==
  ASSUME Inv, ~built, op.at # "halt", NEW reads \in SUBSET Account,
         Touch(reads, {}, value),
         UNCHANGED <<index, built, frames, created, doomed>>,
         stage' \in {"before", "ran", "destroyed"},
         op' \in Ops, frames = <<>> => op' = Running,
         op'.at \in {"load", "call"} => op'.dst \in Account /\ op'.code \in Account,
         op'.at = "call" => op'.dst \in accessed \cup reads
  PROVE  Inv' /\ Opens
<1>1. /\ reads \in SUBSET Row /\ {} \in SUBSET Row /\ value \in [Cell -> Value]
      /\ \A s \in (reads \cup {}) \cap Slot : Owner[s] \in accessed
      /\ doomed' \subseteq Account /\ (InTx => doomed' \subseteq created)
      /\ \A c \in Cell :
           value[c] # value[c] => RowOf(c) \in {} \/ period[RowOf(c)] = index
  BY ConstantsAssumption DEF Row, Inv, TypeOK, Bypasses
<1>2. UNCHANGED <<index, built, frames, created>>
  OBVIOUS
<1> QED
  BY <1>1, <1>2, QuietStep, Zenon

-----------------------------------------------------------------------------
\* Inside a frame.
LEMMA AccessInv ==
  ASSUME Inv, frames # <<>>, op.at # "halt", NEW a \in Account, NEW o \in Ops, Access(a, o),
         o.dst \in Account, o.code \in Account, o.at \in {"load", "call"},
         o.at = "call" => o.dst \in accessed
  PROVE  Inv' /\ Opens
<1>1. /\ accessed' = accessed \cup Committed /\ pending' = a
      /\ (op' = o /\ loaded' = loaded \cup {a}) \/ (op' = Halting /\ loaded' = loaded)
      /\ UNCHANGED <<value, period, pre, changes, frames, index, created, doomed, stage, built>>
  BY DEF Access, txVars
<1>2. Committed \subseteq Account /\ Committed \subseteq loaded /\ Account \subseteq Row
      /\ Account \cap Slot = {}
  BY ConstantsAssumption DEF Committed, Inv, TypeOK, Listed, Row
<1>3. Opens
  <2>1. value' = value /\ period' = period /\ pre' = pre /\ changes' = changes
    BY <1>1
  <2>2. RecordTypes'
    BY <1>1, <2>1 DEF RecordTypes, Inv, TypeOK
  <2> QED
    BY <1>1, <2>1, <2>2 DEF Opens
<1>4. /\ accessed' \subseteq Row /\ loaded' \subseteq Account /\ accessed \subseteq accessed'
      /\ \A s \in Slot : s \in accessed' => Owner[s] \in accessed'
      /\ accessed' \cap Account \subseteq loaded'
  BY <1>1, <1>2 DEF Inv, TypeOK, Listed
<1>5. /\ op' \in Ops
      /\ op'.at # "halt" => pending' \in loaded'
      /\ op'.at \in {"load", "call"} => op'.dst \in Account /\ op'.code \in Account
      /\ op'.at = "call" => op'.dst \in accessed'
  BY <1>1, <1>4, Operands
<1>6. /\ created' \subseteq Account /\ doomed' \subseteq Account /\ frames' \in Seq(Frames)
      /\ stage' \in {"before", "ran", "destroyed"} /\ frames' # <<>>
      /\ InTx => created \subseteq created' /\ doomed' \subseteq created'
      /\ created' \ created = {}
  BY <1>1 DEF Inv, TypeOK, Bypasses
<1>7. \A k \in 1 .. Len(frames') : k \in 1 .. Depth /\ frames'[k] = frames[k]
  BY <1>1 DEF Depth
<1>8. ~built
  BY TopFacts
<1> QED
  BY <1>1, <1>3, <1>4, <1>5, <1>6, <1>7, <1>8, StepInv

LEMMA AccessAccountInv ==
  ASSUME Inv, NEW a \in Account, AccessAccount(a)
  PROVE  Inv' /\ Opens
<1> DEFINE o == [at |-> "load", dst |-> a, code |-> a]
<1>1. frames # <<>> /\ op.at = "run" /\ Access(a, o)
  BY DEF AccessAccount, InFrame
<1>2. o \in Ops /\ o.dst \in Account /\ o.code \in Account /\ o.at = "load"
  BY DEF Ops
<1> HIDE DEF o
<1> QED
  BY <1>1, <1>2, AccessInv

LEMMA AccessDelegateInv ==
  ASSUME Inv, NEW d \in Account, AccessDelegate(d)
  PROVE  Inv' /\ Opens
<1> DEFINE o == [op EXCEPT !.code = d]
<1>1. frames # <<>> /\ op.at = "call" /\ Access(d, o)
  BY DEF AccessDelegate, InFrame
<1>2. op \in Ops /\ op.dst \in Account /\ op.dst \in accessed
  BY <1>1 DEF Inv, TypeOK, Control, Listed
<1>3. o \in Ops /\ o.dst = op.dst /\ o.code \in Account /\ o.at = "call"
  BY <1>1, <1>2 DEF Ops
<1> HIDE DEF o
<1> QED
  BY <1>1, <1>2, <1>3, AccessInv

LEMMA LoadInv ==
  ASSUME Inv, Load
  PROVE  Inv' /\ Opens
<1>1. /\ frames # <<>> /\ op.at = "load" /\ Touch({op.dst}, {}, value)
      /\ UNCHANGED <<index, built, frames, created, doomed, stage>>
      /\ op' \in {Running, [op EXCEPT !.at = "call"]}
  BY DEF Load, InFrame, txVars
<1>2. op \in Ops /\ op.dst \in Account /\ op.code \in Account /\ ~built
      /\ stage \in {"before", "ran", "destroyed"}
  BY <1>1, TopFacts DEF Inv, TypeOK, Control
<1>3. /\ op' \in Ops /\ (op'.at = "call" => op'.dst = op.dst /\ op'.code = op.code)
      /\ op'.at # "load"
  BY <1>1, <1>2, Operands DEF Ops
<1> DEFINE reads == {op.dst}
<1>4. reads \in SUBSET Account /\ Touch(reads, {}, value)
  BY <1>1, <1>2
<1>5. op'.at = "call" => op'.dst \in accessed \cup reads
  BY <1>3
<1> HIDE DEF reads
<1> QED
  BY <1>1, <1>2, <1>3, <1>4, <1>5, ReadStep

LEMMA CallReadsInv ==
  ASSUME Inv, CallTooPoor \/ CallOutOfGas
  PROVE  Inv' /\ Opens
<1>1. /\ frames # <<>> /\ op.at = "call"
      /\ UNCHANGED <<index, built, frames, created, doomed, stage>>
      /\ op' = Running \/ op' = Halting
  BY DEF CallTooPoor, CallOutOfGas, InFrame, txVars
<1>2. op.dst \in Account /\ Top \in Account /\ ~built
      /\ stage \in {"before", "ran", "destroyed"}
  BY <1>1, TopFacts DEF Inv, TypeOK, Control
<1>3. op' \in Ops /\ op'.at \notin {"load", "call"}
  BY <1>1, Operands
<1>4. PICK reads \in SUBSET Account : Touch(reads, {}, value)
  BY <1>2 DEF CallTooPoor, CallOutOfGas
<1> QED
  BY <1>1, <1>2, <1>3, <1>4, ReadStep

LEMMA CallTooDeepInv ==
  ASSUME Inv, CallTooDeep
  PROVE  Inv' /\ Opens
<1>1. /\ frames # <<>> /\ op.at = "call" /\ op' = Running
      /\ UNCHANGED <<value, accessed, period, pre, changes, pending, frames, loaded, index,
                     created, doomed, stage, built>>
  BY DEF CallTooDeep, InFrame, txVars, balVars
<1>2. ~built /\ op' \in Ops /\ op'.at = "run"
  BY <1>1, TopFacts, Operands
<1>3. Opens
  <2>1. RecordTypes'
    BY <1>1 DEF RecordTypes, Inv, TypeOK
  <2> QED
    BY <1>1, <2>1 DEF Opens
<1>4. /\ accessed' \subseteq Row /\ loaded' \subseteq Account /\ pending' \in Account \cup {NoAccount}
      /\ stage' \in {"before", "ran", "destroyed"}
      /\ created' \subseteq Account /\ doomed' \subseteq Account /\ frames' \in Seq(Frames)
  BY <1>1 DEF Inv, TypeOK
<1>5. /\ \A s \in Slot : s \in accessed' => Owner[s] \in accessed'
      /\ accessed' \cap Account \subseteq loaded'
      /\ pending' # NoAccount => pending' \in loaded'
  BY <1>1 DEF Inv, Listed
<1>6. /\ InTx => created \subseteq created' /\ doomed' \subseteq created'
      /\ created' \ created = {}
      /\ \A k \in 1 .. Len(frames') : k \in 1 .. Depth /\ frames'[k] = frames[k]
  BY <1>1 DEF Inv, Bypasses, Depth
<1> QED
  BY <1>1, <1>2, <1>3, <1>4, <1>5, <1>6, StepInv

LEMMA OtherCallbackInv ==
  ASSUME Inv, OtherCallback
  PROVE  Inv' /\ Opens
<1>1. /\ frames # <<>> /\ op.at = "run" /\ Touch({}, {}, value)
      /\ UNCHANGED <<index, built, frames, created, doomed, stage>>
      /\ op' \in {Running, Halting}
  BY DEF OtherCallback, InFrame, txVars
<1>2. ~built /\ stage' \in {"before", "ran", "destroyed"} /\ {} \in SUBSET Account
  BY <1>1, TopFacts DEF Inv, TypeOK
<1>3. op' \in Ops /\ op'.at \notin {"load", "call"}
  BY <1>1, Operands
<1> QED
  BY <1>1, <1>2, <1>3, ReadStep

LEMMA CreateOutOfGasInv ==
  ASSUME Inv, NEW a \in Account, CreateOutOfGas(a)
  PROVE  Inv' /\ Opens
<1> DEFINE reads == {Top, a}
<1>1. /\ frames # <<>> /\ op.at = "run" /\ Touch(reads, {}, value)
      /\ UNCHANGED <<index, built, frames, created, doomed, stage>>
      /\ op' = Halting
  BY DEF CreateOutOfGas, InFrame, txVars
<1>2. ~built /\ stage' \in {"before", "ran", "destroyed"} /\ reads \in SUBSET Account
  BY <1>1, TopFacts DEF Inv, TypeOK
<1>3. op' \in Ops /\ op'.at \notin {"load", "call"}
  BY <1>1, Operands
<1> HIDE DEF reads
<1> QED
  BY <1>1, <1>2, <1>3, ReadStep

LEMMA SelfDestructOutOfGasInv ==
  ASSUME Inv, SelfDestructOutOfGas
  PROVE  Inv' /\ Opens
<1> DEFINE reads == {Top, op.dst}
<1>1. /\ frames # <<>> /\ op.at = "load" /\ Touch(reads, {}, value)
      /\ UNCHANGED <<index, built, frames, created, doomed, stage>>
      /\ op' = Halting
  BY DEF SelfDestructOutOfGas, InFrame, txVars
<1>2. ~built /\ stage' \in {"before", "ran", "destroyed"} /\ reads \in SUBSET Account
  BY <1>1, TopFacts DEF Inv, TypeOK, Control
<1>3. op' \in Ops /\ op'.at \notin {"load", "call"}
  BY <1>1, Operands
<1> HIDE DEF reads
<1> QED
  BY <1>1, <1>2, <1>3, ReadStep

LEMMA CallInv ==
  ASSUME Inv, Call
  PROVE  Inv' /\ Opens
<1>1. frames # <<>> /\ op.at = "call"
  BY DEF Call, InFrame
<1>2. /\ op.dst \in Account /\ op.code \in Account /\ op.dst \in accessed
      /\ Top \in Account /\ Top \in accessed /\ ~built
      /\ value \in [Cell -> Value] /\ doomed \subseteq Account /\ created \subseteq Account
      /\ stage \in {"before", "ran", "destroyed"}
  BY <1>1, TopFacts DEF Inv, TypeOK, Control, Listed
<1>3. PICK to \in {op.dst, Top} :
        /\ \E t \in Transfers(value, Top, to) : Touch({op.code}, t.writes, t.new)
        /\ frames' = Append(frames, Frame(to, FALSE, value))
  BY Zenon DEF Call
<1>4. PICK t \in Transfers(value, Top, to) : Touch({op.code}, t.writes, t.new)
  BY <1>3, Zenon
<1>5. /\ t.writes \subseteq {Top, to} /\ t.new \in [Cell -> Value]
      /\ \A c \in Cell : t.new[c] # value[c] => RowOf(c) \in t.writes
  BY <1>2, TransferCells
<1> DEFINE f == Frame(to, FALSE, value)
           reads == {op.code}
           writes == t.writes
           new == t.new
<1>6. f \in Frames /\ f.to = to /\ f.saved = value /\ f.doomed = doomed
  BY <1>2 DEF Frame, Frames
<1>7. /\ Touch(reads, writes, new) /\ frames' = Append(frames, f)
      /\ reads = {op.code} /\ writes \subseteq {Top, to} /\ new \in [Cell -> Value]
      /\ \A c \in Cell : new[c] # value[c] => RowOf(c) \in writes
  BY <1>3, <1>4, <1>5, Zenon
<1> HIDE DEF f, reads, writes, new
<1>8. /\ reads \in SUBSET Account /\ writes \in SUBSET Account /\ f.to \in accessed \cup reads
      /\ \A c \in Cell : new[c] # f.saved[c] => RowOf(c) \in writes
  BY <1>2, <1>6, <1>7
<1>9. /\ op' \in Ops /\ op'.at = "run" /\ UNCHANGED <<index, built, doomed>>
      /\ created' = created /\ stage' = stage
  BY Operands DEF Call, txVars
<1>10. /\ created' \subseteq Account /\ (InTx => created \subseteq created')
       /\ \A s \in Slot : Owner[s] \in created' \ created => value[<<s, "value">>] = 0
       /\ stage' \in {"before", "ran", "destroyed"} /\ op.at # "halt"
  BY <1>1, <1>2, <1>9
<1>11. ~built /\ op.at # "halt" /\ Pushes(reads, writes, new, f)
  BY <1>2, <1>6, <1>7, <1>8, <1>10 DEF Pushes
<1>12. op' \in Ops /\ op'.at = "run" /\ UNCHANGED <<index, built, doomed>>
  BY <1>9
<1> QED
  BY <1>10, <1>11, <1>12, PushStep, Zenon

LEMMA CreateInv ==
  ASSUME Inv, NEW a \in Account, Create(a)
  PROVE  Inv' /\ Opens
<1>1. /\ frames # <<>> /\ op.at = "run" /\ UNCHANGED <<index, op, doomed, stage, built>>
  BY DEF Create, InFrame
<1>2. /\ Top \in Account /\ Top \in accessed /\ ~built /\ op \in Ops
      /\ value \in [Cell -> Value] /\ doomed \subseteq Account /\ created \subseteq Account
      /\ stage \in {"before", "ran", "destroyed"} /\ op' = op
  BY <1>1, TopFacts DEF Inv, TypeOK
<1>3. PICK n \in Value :
        \/ /\ LooksEmpty(a)
           /\ \E t \in Transfers(Put(Put(value, Top, "nonce", n), a, "nonce", 1), Top, a) :
                Touch({Top, a}, {Top, a} \cup t.writes, t.new)
           /\ frames' = Append(frames, Frame(a, TRUE, Put(value, Top, "nonce", n)))
           /\ created' = created \cup {a}
        \/ /\ Touch({Top, a}, {Top}, Put(value, Top, "nonce", n))
           /\ UNCHANGED <<frames, created>>
  BY Zenon DEF Create
<1> DEFINE bumped == Put(value, Top, "nonce", n)
           named == Put(bumped, a, "nonce", 1)
           reads == {Top, a}
<1>4. bumped \in [Cell -> Value] /\ \A c \in Cell : bumped[c] # value[c] => RowOf(c) = Top
  BY <1>2, PutCell
<1> HIDE DEF bumped
<1>5. named \in [Cell -> Value] /\ \A c \in Cell : named[c] # bumped[c] => RowOf(c) = a
  BY <1>4, PutCell, ConstantsAssumption
<1> HIDE DEF named
<1>6. CASE /\ LooksEmpty(a)
           /\ \E t \in Transfers(named, Top, a) : Touch(reads, {Top, a} \cup t.writes, t.new)
           /\ frames' = Append(frames, Frame(a, TRUE, bumped))
           /\ created' = created \cup {a}
  <2>1. PICK t \in Transfers(named, Top, a) : Touch(reads, {Top, a} \cup t.writes, t.new)
    BY <1>6, Zenon
  <2>2. /\ t.writes \subseteq {Top, a} /\ t.new \in [Cell -> Value]
        /\ \A c \in Cell : t.new[c] # named[c] => RowOf(c) \in t.writes
    BY <1>2, <1>5, TransferCells
  <2> DEFINE f == Frame(a, TRUE, bumped)
             writes == {Top, a} \cup t.writes
             new == t.new
  <2>3. f \in Frames /\ f.to = a /\ f.saved = bumped /\ f.doomed = doomed
    BY <1>2, <1>4 DEF Frame, Frames
  <2>4. /\ Touch(reads, writes, new) /\ frames' = Append(frames, f)
        /\ reads = {Top, a} /\ writes = {Top, a} \cup t.writes
        /\ new \in [Cell -> Value]
        /\ \A c \in Cell : new[c] # named[c] => RowOf(c) \in t.writes
    BY <1>6, <2>1, <2>2, Zenon
  <2> HIDE DEF f, reads, writes, new
  <2>5. /\ reads \in SUBSET Account /\ writes \in SUBSET Account
        /\ f.to \in accessed \cup reads
        /\ \A c \in Cell : new[c] # value[c] => RowOf(c) \in writes
        /\ \A c \in Cell : new[c] # f.saved[c] => RowOf(c) \in writes
    BY <1>2, <1>4, <1>5, <2>2, <2>3, <2>4
  <2>6. /\ created' \subseteq Account /\ (InTx => created \subseteq created')
        /\ \A s \in Slot : Owner[s] \in created' \ created => value[<<s, "value">>] = 0
    BY <1>2, <1>6 DEF LooksEmpty, SlotsOf
  <2>7. /\ op' \in Ops /\ op'.at = "run" /\ UNCHANGED <<index, built, doomed>>
        /\ op.at # "halt" /\ stage' \in {"before", "ran", "destroyed"}
    BY <1>1, <1>2
  <2>8. ~built /\ op.at # "halt" /\ Pushes(reads, writes, new, f)
    BY <1>2, <2>3, <2>4, <2>5, <2>7 DEF Pushes
  <2> QED
    BY <2>6, <2>7, <2>8, PushStep, Zenon
<1>7. CASE Touch(reads, {Top}, bumped) /\ UNCHANGED <<frames, created>>
  <2> DEFINE writes == {Top}
  <2>1. /\ reads \in SUBSET Row /\ writes \in SUBSET Row
        /\ \A s \in (reads \cup writes) \cap Slot : Owner[s] \in accessed
    BY <1>2, Operands
  <2>2. /\ Touch(reads, writes, bumped)
        /\ \A c \in Cell :
             bumped[c] # value[c] => RowOf(c) \in writes \/ period[RowOf(c)] = index
        /\ UNCHANGED <<index, built, frames, created>>
    BY <1>1, <1>4, <1>7
  <2>3. /\ doomed' \subseteq Account /\ (InTx => doomed' \subseteq created)
        /\ stage' \in {"before", "ran", "destroyed"}
        /\ op' \in Ops /\ (frames = <<>> => op' = Running) /\ op.at # "halt"
        /\ op'.at \in {"load", "call"} => op'.dst \in Account /\ op'.code \in Account
        /\ op'.at = "call" => op'.dst \in accessed \cup reads
    BY <1>1, <1>2 DEF Inv, Bypasses
  <2> HIDE DEF writes, reads
  <2> QED
    BY <1>2, <1>4, <2>1, <2>2, <2>3, QuietStep, Zenon
<1> QED
  BY <1>3, <1>6, <1>7, Zenon DEF bumped, named

LEMMA GetStorageInv ==
  ASSUME Inv, NEW s \in Slot, GetStorage(s)
  PROVE  Inv' /\ Opens
<1> DEFINE reads == {s}
           writes == {}
           new == value
<1>1. /\ frames # <<>> /\ op.at = "run" /\ Owner[s] = Top
      /\ Touch(reads, writes, new)
      /\ UNCHANGED <<index, built, frames, created>> /\ UNCHANGED <<op, doomed, stage>>
  BY DEF GetStorage, InFrame, txVars
<1>2. /\ Top \in accessed /\ ~built /\ op \in Ops /\ value \in [Cell -> Value]
      /\ doomed \subseteq Account /\ (InTx => doomed \subseteq created)
      /\ stage \in {"before", "ran", "destroyed"}
  BY <1>1, TopFacts DEF Inv, TypeOK, Bypasses
<1>3. /\ reads \in SUBSET Row /\ writes \in SUBSET Row
      /\ \A r \in (reads \cup writes) \cap Slot : Owner[r] \in accessed
  BY <1>1, <1>2 DEF Row
<1>4. /\ new \in [Cell -> Value]
      /\ \A c \in Cell : new[c] # value[c] => RowOf(c) \in writes \/ period[RowOf(c)] = index
  BY <1>2
<1>5. /\ doomed' \subseteq Account /\ (InTx => doomed' \subseteq created)
      /\ stage' \in {"before", "ran", "destroyed"}
      /\ op' \in Ops /\ (frames = <<>> => op' = Running) /\ op.at # "halt"
      /\ op'.at \in {"load", "call"} => op'.dst \in Account /\ op'.code \in Account
      /\ op'.at = "call" => op'.dst \in accessed \cup reads
  BY <1>1, <1>2
<1> HIDE DEF reads, writes, new
<1> QED
  BY <1>1, <1>2, <1>3, <1>4, <1>5, QuietStep, Zenon

LEMMA SetStorageInv ==
  ASSUME Inv, NEW s \in Slot, NEW x \in Value, SetStorage(s, x)
  PROVE  Inv' /\ Opens
<1> DEFINE reads == {s}
           writes == {s}
           new == Put(value, s, "value", x)
<1>1. /\ frames # <<>> /\ op.at = "run" /\ Owner[s] = Top
      /\ Touch(reads, writes, new)
      /\ UNCHANGED <<index, built, frames, created>> /\ UNCHANGED <<op, doomed, stage>>
  BY DEF SetStorage, InFrame, txVars
<1>2. /\ Top \in accessed /\ ~built /\ op \in Ops /\ value \in [Cell -> Value]
      /\ doomed \subseteq Account /\ (InTx => doomed \subseteq created)
      /\ stage \in {"before", "ran", "destroyed"}
  BY <1>1, TopFacts DEF Inv, TypeOK, Bypasses
<1>3. /\ reads \in SUBSET Row /\ writes \in SUBSET Row
      /\ \A r \in (reads \cup writes) \cap Slot : Owner[r] \in accessed
  BY <1>1, <1>2 DEF Row
<1>4. /\ new \in [Cell -> Value]
      /\ \A c \in Cell : new[c] # value[c] => RowOf(c) \in writes \/ period[RowOf(c)] = index
  BY <1>2, PutCell
<1>5. /\ doomed' \subseteq Account /\ (InTx => doomed' \subseteq created)
      /\ stage' \in {"before", "ran", "destroyed"}
      /\ op' \in Ops /\ (frames = <<>> => op' = Running) /\ op.at # "halt"
      /\ op'.at \in {"load", "call"} => op'.dst \in Account /\ op'.code \in Account
      /\ op'.at = "call" => op'.dst \in accessed \cup reads
  BY <1>1, <1>2
<1> HIDE DEF reads, writes, new
<1> QED
  BY <1>1, <1>2, <1>3, <1>4, <1>5, QuietStep, Zenon

LEMMA SelfDestructInv ==
  ASSUME Inv, SelfDestruct
  PROVE  Inv' /\ Opens
<1>1. /\ frames # <<>> /\ op.at = "load" /\ op' = Stopping
      /\ doomed' = doomed \cup ({Top} \cap created)
      /\ UNCHANGED <<index, built, frames, created>> /\ stage' = stage
  BY DEF SelfDestruct, InFrame
<1>2. /\ Top \in Account /\ op.dst \in Account /\ ~built /\ value \in [Cell -> Value]
      /\ doomed \subseteq Account /\ (InTx => doomed \subseteq created)
      /\ stage \in {"before", "ran", "destroyed"}
  BY <1>1, TopFacts DEF Inv, TypeOK, Bypasses, Control
<1>3. PICK x \in Value :
        IF op.dst = Top
          THEN Touch({Top}, {}, value)
          ELSE Touch({Top}, {Top, op.dst},
                     Put(Put(value, op.dst, "balance", x), Top, "balance", 0))
  BY Zenon DEF SelfDestruct
<1> DEFINE paid == Put(value, op.dst, "balance", x)
           moved == Put(paid, Top, "balance", 0)
<1>4. paid \in [Cell -> Value] /\ \A c \in Cell : paid[c] # value[c] => RowOf(c) = op.dst
  BY <1>2, PutCell
<1> HIDE DEF paid
<1>5. moved \in [Cell -> Value] /\ \A c \in Cell : moved[c] # paid[c] => RowOf(c) = Top
  BY <1>4, PutCell, ConstantsAssumption
<1>6. IF op.dst = Top THEN Touch({Top}, {}, value) ELSE Touch({Top}, {Top, op.dst}, moved)
  BY <1>3, Zenon DEF paid
<1> HIDE DEF moved
<1> DEFINE reads == {Top}
           writes == IF op.dst = Top THEN {} ELSE {Top, op.dst}
           new == IF op.dst = Top THEN value ELSE moved
<1>7. Touch(reads, writes, new)
  BY <1>6, Zenon
<1>8. /\ reads \in SUBSET Row /\ writes \in SUBSET Row
      /\ \A r \in (reads \cup writes) \cap Slot : Owner[r] \in accessed
  BY <1>2, Operands
<1>9. /\ new \in [Cell -> Value]
      /\ \A c \in Cell : new[c] # value[c] => RowOf(c) \in writes \/ period[RowOf(c)] = index
  BY <1>2, <1>4, <1>5
<1>10. /\ doomed' \subseteq Account /\ (InTx => doomed' \subseteq created)
       /\ stage' \in {"before", "ran", "destroyed"}
       /\ op' \in Ops /\ (frames = <<>> => op' = Running) /\ op.at # "halt"
       /\ op'.at \in {"load", "call"} => op'.dst \in Account /\ op'.code \in Account
       /\ op'.at = "call" => op'.dst \in accessed \cup reads
  BY <1>1, <1>2, Operands
<1> HIDE DEF reads, writes, new
<1> QED
  BY <1>1, <1>2, <1>7, <1>8, <1>9, <1>10, QuietStep, Zenon

\* The end of a frame, whichever rows it writes: those of the deployed code
\* or those its rollback restores.
LEMMA PopStep ==
  ASSUME Inv, frames # <<>>, NEW status \in Statuses,
         NEW writes \in SUBSET Account, writes \subseteq accessed,
         value' \in [Cell -> Value], Open(writes),
         accessed' = accessed \cup Paid(status) \cup writes,
         \A c \in Cell : value'[c] # value[c] => RowOf(c) \in writes \/ period[RowOf(c)] = index,
         doomed' \subseteq Account, InTx => doomed' \subseteq created,
         pending' = NoAccount, frames' = SubSeq(frames, 1, Depth - 1), op' = Running,
         UNCHANGED <<index, built>>, UNCHANGED <<created, stage, loaded>>
  PROVE  Inv' /\ Opens
<1>1. Account \subseteq Row /\ Account \cap Slot = {} /\ ~built
  BY ConstantsAssumption, TopFacts DEF Row
<1>2. Opens
  <2>1. TypeOK /\ writes \in SUBSET Row /\ writes \subseteq accessed' /\ accessed \subseteq accessed'
    BY <1>1 DEF Inv
  <2> QED
    BY <2>1, OpenStep
<1>3. Paid(status) \subseteq Account /\ Paid(status) \subseteq loaded
  <2>1. op.at = "halt" => status = "failure"
    BY DEF Statuses
  <2> QED
    BY <2>1 DEF Paid, Committed, Inv, TypeOK, Listed
<1>4. /\ accessed' \subseteq Row
      /\ \A s \in Slot : s \in accessed' => Owner[s] \in accessed'
      /\ accessed' \cap Account \subseteq loaded'
  BY <1>1, <1>3 DEF Inv, TypeOK, Listed
<1>5. /\ frames' \in Seq(Frames)
      /\ \A k \in 1 .. Len(frames') : k \in 1 .. Depth /\ frames'[k] = frames[k]
  <2>1. frames \in Seq(Frames) /\ Depth \in Nat /\ Depth = Len(frames) /\ Depth # 0
    BY TopFacts DEF Inv, TypeOK, Depth
  <2> QED
    BY <2>1
<1>6. op' \in Ops /\ op'.at = "run"
  BY Operands
<1>7. /\ loaded' \subseteq Account /\ created' \subseteq Account
      /\ stage' \in {"before", "ran", "destroyed"}
      /\ InTx => created \subseteq created' /\ doomed' \subseteq created'
      /\ created' \ created = {}
  BY DEF Inv, TypeOK
<1> QED
  BY <1>1, <1>2, <1>4, <1>5, <1>6, <1>7, StepInv

LEMMA EndFrameInv ==
  ASSUME Inv, NEW status \in {"success", "revert", "failure"}, EndFrame(status)
  PROVE  Inv' /\ Opens
<1> DEFINE f == frames[Depth]
<1>1. /\ frames # <<>> /\ status \in Statuses
      /\ pending' = NoAccount /\ frames' = SubSeq(frames, 1, Depth - 1) /\ op' = Running
      /\ UNCHANGED <<index, built>> /\ UNCHANGED <<created, stage, loaded>>
  BY DEF EndFrame
<1>2. /\ f \in Frames /\ f.to \in Account /\ f.to \in accessed /\ f.saved \in [Cell -> Value]
      /\ f.doomed \subseteq Account /\ (InTx => f.doomed \subseteq created)
      /\ WrittenSince(f.saved) /\ value \in [Cell -> Value]
      /\ doomed \subseteq Account /\ (InTx => doomed \subseteq created)
  BY <1>1, TopFacts DEF Inv, TypeOK, Bypasses, Top
<1>3. CASE /\ \E x \in Value :
                LET new == IF f.create THEN Put(value, f.to, "code", x) ELSE value
                    writes == IF f.create THEN {f.to} ELSE {}
                IN /\ accessed' = accessed \cup Paid(status) \cup writes
                   /\ Open(writes)
                   /\ value' = new
           /\ UNCHANGED doomed
  <2>1. PICK x \in Value :
          /\ accessed' = accessed \cup Paid(status) \cup (IF f.create THEN {f.to} ELSE {})
          /\ Open(IF f.create THEN {f.to} ELSE {})
          /\ value' = IF f.create THEN Put(value, f.to, "code", x) ELSE value
    BY <1>3, Zenon
  <2> DEFINE writes == IF f.create THEN {f.to} ELSE {}
  <2>2. /\ value' \in [Cell -> Value]
        /\ \A c \in Cell : value'[c] # value[c] => RowOf(c) \in writes \/ period[RowOf(c)] = index
    BY <1>2, <2>1, PutCell
  <2>3. writes \in SUBSET Account /\ writes \subseteq accessed
    BY <1>2
  <2>4. Open(writes) /\ accessed' = accessed \cup Paid(status) \cup writes
    BY <2>1, Zenon
  <2>5. doomed' \subseteq Account /\ (InTx => doomed' \subseteq created)
    BY <1>2, <1>3
  <2> HIDE DEF writes
  <2> QED
    BY <1>1, <2>2, <2>3, <2>4, <2>5, PopStep, Zenon
<1>4. CASE /\ accessed' = accessed \cup Paid(status) \cup Undone(f)
           /\ Open(Undone(f))
           /\ value' = f.saved
           /\ doomed' = f.doomed
  <2> DEFINE writes == Undone(f)
  <2>1. /\ value' \in [Cell -> Value]
        /\ \A c \in Cell : value'[c] # value[c] => RowOf(c) \in writes \/ period[RowOf(c)] = index
    BY <1>2, <1>4 DEF WrittenSince
  <2>2. writes \in SUBSET Account /\ writes \subseteq accessed
    <3>1. \A a \in writes : a \in Account /\ period[a] = index
      BY <1>2 DEF Undone, CellsOf, WrittenSince, Cell, RowOf
    <3> QED
      BY <3>1 DEF Inv, TypeOK, Records, NoPeriod, Row
  <2>3. Open(writes) /\ accessed' = accessed \cup Paid(status) \cup writes
    BY <1>4, Zenon
  <2>4. doomed' \subseteq Account /\ (InTx => doomed' \subseteq created)
    BY <1>2, <1>4
  <2> HIDE DEF writes
  <2> QED
    BY <1>1, <2>1, <2>2, <2>3, <2>4, PopStep, Zenon
<1> QED
  BY <1>3, <1>4, Zenon DEF EndFrame
=============================================================================
