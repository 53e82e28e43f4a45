-------------------------- MODULE BlockAccessList --------------------------
(***************************************************************************)
(* The EIP-7928 block access list as cpp-guest builds it while the block   *)
(* executes: which rows the block loaded, and, lazily, the changes of each *)
(* row.  A row keeps the index it was last written in (its open period)    *)
(* and its values when that period opened; the first write of a later      *)
(* index closes the old period and opens a new one.                        *)
(*                                                                         *)
(* The VM and the state database drive it through host callbacks.  What    *)
(* they compute (amounts, gas, code) is abstracted to a choice of values;  *)
(* what they load, write, pay for and undo, and in which order, is kept.   *)
(* A checkpoint is the snapshot it stands for: StateDBProofs!              *)
(* RollbackIsExact shows that the undo journal restores exactly that.      *)
(***************************************************************************)
EXTENDS Integers, Sequences

CONSTANTS
  Account,       \* the account rows
  Slot,          \* the storage rows
  Owner,         \* the account each storage row belongs to
  AccountField,  \* the fields of an account row: balance, nonce, code
  Value,         \* what a cell may hold: 0 is zero and empty
  MaxTx,         \* transactions in the block
  DepthLimit,    \* deepest frame the VM opens (1024 in the code)
  NoAccount      \* kNoBalPending, and an unused operand

ASSUME ConstantsAssumption ==
  /\ Account \cap Slot = {}
  /\ Owner \in [Slot -> Account]
  /\ {0, 1} \subseteq Value
  /\ MaxTx \in Nat
  /\ DepthLimit \in Nat
  /\ NoAccount \notin Account \cup Slot

VARIABLES
  value,         \* the state: [Cell -> Value]
  index,         \* BlockAccessList::index_
  accessed,      \* rows whose accessed flag is set (a slot's record exists iff it is)
  period,        \* the open period of each row, NoPeriod if none
  pre,           \* values of the cells of a row when its period opened
  changes,       \* the change lists
  pending,       \* bal_pending_: the last account accessed, not yet known paid
  frames,        \* the running frames, outermost first
  op,            \* the account opcode the VM is in the middle of
  created,       \* created_this_tx_idx_
  doomed,        \* pending_destruct_
  stage,         \* how far the transaction of this index has come
  built,         \* build_block_access_list_hash has run
  loaded         \* history: accounts read or written, or whose access was paid

balVars == <<accessed, period, pre, changes>>
vars == <<value, index, balVars, pending, frames, op, created, doomed, stage,
          built, loaded>>

Row == Account \cup Slot
Cell == (Account \X AccountField) \cup (Slot \X {"value"})
RowOf(c) == c[1]
NoPeriod == -1
Running == [at |-> "run", dst |-> NoAccount, code |-> NoAccount]
Halting == [Running EXCEPT !.at = "halt"]
Stopping == [Running EXCEPT !.at = "stop"]
Depth == Len(frames)
Top == frames[Depth].to
PostIndex == MaxTx + 1
Change == [index : 0 .. PostIndex, value : Value]
InTx == index \in 1 .. MaxTx

(***************************************************************************)
(* The access list itself.                                                 *)
(***************************************************************************)
(* Mutants of Closed: a net-zero period recorded; a change linked at the   *)
(* head of its list.                                                       *)
ClosedAlways(rows) ==
  [c \in Cell |->
     IF RowOf(c) \in rows /\ period[RowOf(c)] # NoPeriod
       THEN Append(changes[c], [index |-> period[RowOf(c)], value |-> value[c]])
       ELSE changes[c]]

ClosedAtHead(rows) ==
  [c \in Cell |->
     IF RowOf(c) \in rows /\ period[RowOf(c)] # NoPeriod /\ value[c] # pre[c]
       THEN <<[index |-> period[RowOf(c)], value |-> value[c]]>> \o changes[c]
       ELSE changes[c]]

(* close_slot / close_account: one change for each cell of the rows that   *)
(* differs from its period-start value.                                    *)
Closed(rows) ==
  [c \in Cell |->
     IF RowOf(c) \in rows /\ period[RowOf(c)] # NoPeriod /\ value[c] # pre[c]
       THEN Append(changes[c], [index |-> period[RowOf(c)], value |-> value[c]])
       ELSE changes[c]]

(* Mutant of Unopened: only the first write opens. *)
UnopenedOnce(rows) == {r \in rows : period[r] = NoPeriod}

(* open_slot / open_account, before the write: rows already written in     *)
(* this index keep their period.                                           *)
Unopened(rows) == {r \in rows : period[r] # index}

Open(rows) ==
  /\ changes' = Closed(Unopened(rows))
  /\ pre' = [c \in Cell |-> IF RowOf(c) \in Unopened(rows) THEN value[c] ELSE pre[c]]
  /\ period' = [r \in Row |-> IF r \in Unopened(rows) THEN index ELSE period[r]]

(* bal_commit_pending: another callback shows the last access was paid. *)
Committed == IF pending = NoAccount THEN {} ELSE {pending}

(* Mutant of Touch: a write does not list its row. *)
TouchWritesUnlisted(reads, writes, new) ==
  /\ accessed' = accessed \cup Committed \cup reads
  /\ loaded' = loaded \cup ((reads \cup writes) \cap Account)
  /\ pending' = NoAccount
  /\ Open(writes)
  /\ value' = new

(* A callback that loads the rows of reads and writes those of writes. *)
Touch(reads, writes, new) ==
  /\ accessed' = accessed \cup Committed \cup reads \cup writes
  /\ loaded' = loaded \cup ((reads \cup writes) \cap Account)
  /\ pending' = NoAccount
  /\ Open(writes)
  /\ value' = new

Put(v, r, f, x) == [c \in Cell |-> IF c = <<r, f>> THEN x ELSE v[c]]

(* transfer_value, from v: nothing without a value or to itself, else both *)
(* balances are written.                                                   *)
Transfers(v, from, to) ==
  {[writes |-> {}, new |-> v]} \cup
  IF from = to THEN {}
  ELSE {[writes |-> {from, to}, new |-> Put(Put(v, from, "balance", x), to, "balance", y)] :
          x, y \in Value}

Frame(to, create, saved) ==
  [to |-> to, create |-> create, saved |-> saved, doomed |-> doomed]

SlotsOf(a) == {s \in Slot : Owner[s] = a}
CellsOf(a) == {a} \X AccountField

(* The EIP-684 / EIP-7610 collision check; block-start storage that the    *)
(* table does not list can only add collisions (see Create).               *)
LooksEmpty(a) ==
  /\ \A f \in AccountField \ {"balance"} : value[<<a, f>>] = 0
  /\ \A s \in SlotsOf(a) : value[<<s, "value">>] = 0

-----------------------------------------------------------------------------
(***************************************************************************)
(* The block.                                                              *)
(***************************************************************************)
Init ==
  /\ value \in [Cell -> Value]
  /\ index = 0
  /\ accessed = {}
  /\ period = [r \in Row |-> NoPeriod]
  /\ pre = [c \in Cell |-> 0]
  /\ changes = [c \in Cell |-> <<>>]
  /\ pending = NoAccount
  /\ frames = <<>>
  /\ op = Running
  /\ created = {}
  /\ doomed = {}
  /\ stage = "before"
  /\ built = FALSE
  /\ loaded = {}

Outside == frames = <<>> /\ ~built

(* Mutant of SetIndex: one index too many. *)
SetIndexPastPost ==
  /\ Outside
  /\ index \in {0, PostIndex} \/ (InTx /\ stage = "destroyed")
  /\ index' = index + 1
  /\ created' = {}
  /\ doomed' = {}
  /\ stage' = "before"
  /\ UNCHANGED <<value, balVars, pending, frames, op, built, loaded>>

(* set_index at the start of a transaction, and after the last one. *)
SetIndex ==
  /\ Outside
  /\ index = 0 \/ (InTx /\ stage = "destroyed")
  /\ index' = index + 1
  /\ created' = {}
  /\ doomed' = {}
  /\ stage' = "before"
  /\ UNCHANGED <<value, balVars, pending, frames, op, built, loaded>>

(* A balance or nonce written outside any frame, never undone: upfront     *)
(* accounting and gas settlement of a transaction, the block reward and    *)
(* the withdrawals.                                                        *)
WriteAccount(a, f, x) ==
  /\ Outside
  /\ index > 0
  /\ stage # "destroyed"
  /\ Touch({}, {a}, Put(value, a, f, x))
  /\ UNCHANGED <<index, frames, op, created, doomed, stage, built>>

(* Mutant of SystemCall: the target is not loaded. *)
SystemCallUnlisted(a) ==
  /\ Outside
  /\ index \in {0, PostIndex}
  /\ Touch({}, {}, value)
  /\ frames' = <<Frame(a, FALSE, value)>>
  /\ created' = {}
  /\ UNCHANGED <<index, op, doomed, stage, built>>

(* system_call: the target is loaded even without code. *)
SystemCall(a) ==
  /\ Outside
  /\ index \in {0, PostIndex}
  /\ Touch({a}, {}, value)
  /\ frames' = <<Frame(a, FALSE, value)>>
  /\ created' = {}
  /\ UNCHANGED <<index, op, doomed, stage, built>>

(* execute_top_level_frame for a call of a: its code is read, and that of  *)
(* the delegate d it may resolve to.                                       *)
TopCall(sender, a, d) ==
  /\ Outside
  /\ InTx /\ stage = "before"
  /\ \E t \in Transfers(value, sender, a) : Touch({a, d}, t.writes, t.new)
  /\ frames' = <<Frame(a, FALSE, value)>>
  /\ stage' = "ran"
  /\ UNCHANGED <<index, op, created, doomed, built>>

(* The same when the delegate's access cannot be paid: the pending access  *)
(* is dropped and the transaction is an out-of-gas halt.                   *)
TopCallOutOfGas(a) ==
  /\ Outside
  /\ InTx /\ stage = "before"
  /\ Touch({a}, {}, value)
  /\ stage' = "ran"
  /\ UNCHANGED <<index, frames, op, created, doomed, built>>

(* execute_top_level_message for a create at a. *)
TopCreate(sender, a) ==
  /\ Outside
  /\ InTx /\ stage = "before"
  /\ sender # a
  /\ stage' = "ran"
  /\ \/ /\ LooksEmpty(a)
        /\ \E t \in Transfers(Put(value, a, "nonce", 1), sender, a) :
             Touch({a}, {a} \cup t.writes, t.new)
        /\ frames' = <<Frame(a, TRUE, value)>>
        /\ created' = created \cup {a}
     \/ /\ Touch({a}, {}, value)
        /\ UNCHANGED <<frames, created>>
  /\ UNCHANGED <<index, op, doomed, built>>

(* apply_pending_destructs: nonce and code go through the account writers; *)
(* a slot is opened only if it has a record, and cleared in any case.      *)
Wiped(c) ==
  \/ RowOf(c) \in doomed /\ c[2] # "balance"
  \/ RowOf(c) \in Slot /\ Owner[RowOf(c)] \in doomed

WipedSlots ==
  {s \in Slot : /\ Owner[s] \in doomed
                /\ value[<<s, "value">>] # 0
                /\ s \in accessed}

ApplyPendingDestructs ==
  /\ Outside
  /\ InTx /\ stage = "ran"
  /\ Touch({}, doomed \cup WipedSlots, [c \in Cell |-> IF Wiped(c) THEN 0 ELSE value[c]])
  /\ doomed' = {}
  /\ stage' = "destroyed"
  /\ UNCHANGED <<index, frames, op, created, built>>

(* build_block_access_list_hash: close what is still open. *)
BuildBlockAccessList ==
  /\ Outside
  /\ index = PostIndex
  /\ built' = TRUE
  /\ changes' = Closed(accessed)
  /\ period' = [r \in Row |-> IF r \in accessed THEN NoPeriod ELSE period[r]]
  /\ UNCHANGED <<value, index, accessed, pre, pending, frames, op, created,
                 doomed, stage, loaded>>

-----------------------------------------------------------------------------
(***************************************************************************)
(* Inside a frame: the host callbacks, in the order the VM makes them.     *)
(***************************************************************************)
InFrame(at) == frames # <<>> /\ op.at = at

txVars == <<index, created, doomed, stage, built>>

(* Mutant of Access: listed before it is paid. *)
AccessEagerly(a, opPaid) ==
  /\ accessed' = accessed \cup Committed \cup {a}
  /\ pending' = a
  /\ \/ op' = opPaid /\ loaded' = loaded \cup {a}
     \/ op' = Halting /\ UNCHANGED loaded
  /\ UNCHANGED <<value, period, pre, changes, frames, txVars>>

(* access_account: the account is pending until something shows that the   *)
(* VM paid for it.  The charge comes next; a frame that cannot pay halts.  *)
Access(a, opPaid) ==
  /\ accessed' = accessed \cup Committed
  /\ pending' = a
  /\ \/ op' = opPaid /\ loaded' = loaded \cup {a}
     \/ op' = Halting /\ UNCHANGED loaded
  /\ UNCHANGED <<value, period, pre, changes, frames, txVars>>

AccessAccount(a) ==
  /\ InFrame("run")
  /\ Access(a, [at |-> "load", dst |-> a, code |-> a])

(* The read of the account just paid for: it ends BALANCE and EXTCODE*,    *)
(* and in a call it is the copy_code that looks for a delegation.          *)
Load ==
  /\ InFrame("load")
  /\ Touch({op.dst}, {}, value)
  /\ op' \in {Running, [op EXCEPT !.at = "call"]}
  /\ UNCHANGED <<frames, txVars>>

(* The callee is delegated: the access of the delegate is charged too. *)
AccessDelegate(d) ==
  /\ InFrame("call")
  /\ op.code = op.dst
  /\ d # op.dst
  /\ Access(d, [op EXCEPT !.code = d])

(* ZiskStateDB::call.  CALL runs as the callee and may carry value;        *)
(* DELEGATECALL and CALLCODE run as the caller.  A call with value asked   *)
(* account_exists and get_balance first.                                   *)
Call ==
  /\ InFrame("call")
  /\ Depth <= DepthLimit
  /\ \E to \in {op.dst, Top} :
       /\ \E t \in Transfers(value, Top, to) : Touch({op.code}, t.writes, t.new)
       /\ frames' = Append(frames, Frame(to, FALSE, value))
  /\ op' = Running
  /\ UNCHANGED txVars

(* A call that fails lightly: the caller's balance is too low (get_balance *)
(* has been asked), or the frame is at the depth limit (nothing has).      *)
CallTooPoor ==
  /\ InFrame("call")
  /\ Touch({op.dst, Top}, {}, value)
  /\ op' = Running
  /\ UNCHANGED <<frames, txVars>>

CallTooDeep ==
  /\ InFrame("call")
  /\ Depth > DepthLimit
  /\ op' = Running
  /\ UNCHANGED <<value, balVars, pending, frames, loaded, txVars>>

(* The new-account charge of a call with value, after account_exists. *)
CallOutOfGas ==
  /\ InFrame("call")
  /\ Touch({op.dst}, {}, value)
  /\ op' = Halting
  /\ UNCHANGED <<frames, txVars>>

(* CREATE: get_nonce, access_account and account_exists of the new         *)
(* address, its state-gas charge, then call_create.  The nonce bump stays  *)
(* when the create fails.                                                  *)
Create(a) ==
  /\ InFrame("run")
  /\ Depth <= DepthLimit
  /\ a # Top
  /\ \E n \in Value \ {0} :
       LET bumped == Put(value, Top, "nonce", n)
       IN \/ /\ LooksEmpty(a)
             /\ \E t \in Transfers(Put(bumped, a, "nonce", 1), Top, a) :
                  Touch({Top, a}, {Top, a} \cup t.writes, t.new)
             /\ frames' = Append(frames, Frame(a, TRUE, bumped))
             /\ created' = created \cup {a}
          \/ /\ Touch({Top, a}, {Top}, bumped)
             /\ UNCHANGED <<frames, created>>
  /\ UNCHANGED <<index, op, doomed, stage, built>>

CreateOutOfGas(a) ==
  /\ InFrame("run")
  /\ a # Top
  /\ Touch({Top, a}, {}, value)
  /\ op' = Halting
  /\ UNCHANGED <<frames, txVars>>

(* SLOAD: access_storage, its charge, get_storage. *)
GetStorage(s) ==
  /\ InFrame("run")
  /\ Owner[s] = Top
  /\ Touch({s}, {}, value)
  /\ UNCHANGED <<frames, op, txVars>>

(* SSTORE: access_storage and set_storage; it is charged only afterwards. *)
SetStorage(s, x) ==
  /\ InFrame("run")
  /\ Owner[s] = Top
  /\ Touch({s}, {s}, Put(value, s, "value", x))
  /\ UNCHANGED <<frames, op, txVars>>

(* access_storage whose charge fails, or any callback that loads no row    *)
(* (logs, transient storage, transaction context, block hash).             *)
OtherCallback ==
  /\ InFrame("run")
  /\ Touch({}, {}, value)
  /\ op' \in {Running, Halting}
  /\ UNCHANGED <<frames, txVars>>

(* SELFDESTRUCT, its beneficiary paid for: get_balance of the account,     *)
(* maybe account_exists and its charge, then selfdestruct, which ends the  *)
(* frame.                                                                  *)
SelfDestruct ==
  /\ InFrame("load")
  /\ \E x \in Value :
       LET moved == Put(Put(value, op.dst, "balance", x), Top, "balance", 0)
       IN IF op.dst = Top
            THEN Touch({Top}, {}, value)
            ELSE Touch({Top}, {Top, op.dst}, moved)
  /\ doomed' = doomed \cup ({Top} \cap created)
  /\ op' = Stopping
  /\ UNCHANGED <<index, frames, created, stage, built>>

SelfDestructOutOfGas ==
  /\ InFrame("load")
  /\ Touch({Top, op.dst}, {}, value)
  /\ op' = Halting
  /\ UNCHANGED <<frames, txVars>>

(* run_frame returning, and what its caller does with the result.  A frame *)
(* that ends normally paid for its last access; one that halts may not     *)
(* have.  Any result but success is rolled back, through the account       *)
(* writers but past the slot hooks; a create that succeeds deploys its     *)
(* code unless the deposit fails.                                          *)
Undone(f) == {a \in Account : \E c \in CellsOf(a) : value[c] # f.saved[c]}

Statuses ==
  CASE op.at = "run"  -> {"success", "revert", "failure"}
    [] op.at = "halt" -> {"failure"}
    [] op.at = "stop" -> {"success"}
    [] OTHER          -> {}

(* Mutant of Paid: a halted frame commits its last access too. *)
PaidOnHalt(status) == Committed

Paid(status) == IF status = "failure" THEN {} ELSE Committed

EndFrame(status) ==
  /\ frames # <<>>
  /\ status \in Statuses
  /\ LET f == frames[Depth]
     IN \/ /\ status = "success"
           /\ \E x \in Value :
                LET new == IF f.create THEN Put(value, f.to, "code", x) ELSE value
                    writes == IF f.create THEN {f.to} ELSE {}
                IN /\ accessed' = accessed \cup Paid(status) \cup writes
                   /\ Open(writes)
                   /\ value' = new
           /\ UNCHANGED doomed
        \/ /\ status # "success" \/ f.create
           /\ accessed' = accessed \cup Paid(status) \cup Undone(f)
           /\ Open(Undone(f))
           /\ value' = f.saved
           /\ doomed' = f.doomed
  /\ pending' = NoAccount
  /\ frames' = SubSeq(frames, 1, Depth - 1)
  /\ op' = Running
  /\ UNCHANGED <<index, created, stage, built, loaded>>

-----------------------------------------------------------------------------
Next ==
  \/ SetIndex
  \/ \E a \in Account, f \in AccountField \ {"code"}, x \in Value : WriteAccount(a, f, x)
  \/ \E a \in Account : SystemCall(a) \/ TopCallOutOfGas(a)
  \/ \E sender, a, d \in Account : TopCall(sender, a, d)
  \/ \E sender, a \in Account : TopCreate(sender, a)
  \/ ApplyPendingDestructs
  \/ BuildBlockAccessList
  \/ \E a \in Account : AccessAccount(a) \/ AccessDelegate(a)
  \/ Load \/ Call \/ CallTooPoor \/ CallTooDeep \/ CallOutOfGas
  \/ \E a \in Account : Create(a) \/ CreateOutOfGas(a)
  \/ \E s \in Slot : GetStorage(s) \/ \E x \in Value : SetStorage(s, x)
  \/ OtherCallback
  \/ SelfDestruct \/ SelfDestructOutOfGas
  \/ \E status \in {"success", "revert", "failure"} : EndFrame(status)

Spec == Init /\ [][Next]_vars

-----------------------------------------------------------------------------
Frames ==
  [to : Account, create : BOOLEAN, saved : [Cell -> Value], doomed : SUBSET Account]

Ops ==
  [at : {"run", "load", "call", "halt", "stop"},
   dst : Account \cup {NoAccount}, code : Account \cup {NoAccount}]

(* Every variable stays in its set. *)
TypeOK ==
  /\ value \in [Cell -> Value]
  /\ index \in 0 .. PostIndex
  /\ accessed \subseteq Row
  /\ period \in [Row -> {NoPeriod} \cup 0 .. PostIndex]
  /\ pre \in [Cell -> Value]
  /\ changes \in [Cell -> Seq(Change)]
  /\ pending \in Account \cup {NoAccount}
  /\ frames \in Seq(Frames)
  /\ op \in Ops
  /\ created \subseteq Account
  /\ doomed \subseteq Account
  /\ stage \in {"before", "ran", "destroyed"}
  /\ built \in BOOLEAN
  /\ loaded \subseteq Account

(* The changes of a cell that the finished indices owe it: those recorded, *)
(* and the one its still open period will add when it is closed.           *)
Owed(c) ==
  {changes[c][k] : k \in DOMAIN changes[c]} \cup
  IF period[RowOf(c)] \notin {NoPeriod, index} /\ value[c] # pre[c]
    THEN {[index |-> period[RowOf(c)], value |-> value[c]]}
    ELSE {}

Eager == INSTANCE EagerAccessList WITH
  index <- IF built THEN index + 1 ELSE index,
  start <- [c \in Cell |-> IF period[RowOf(c)] = index THEN pre[c] ELSE value[c]],
  changes <- [c \in Cell |-> Owed(c)]

(* The lazy periods record what a walk of the whole state at the end of    *)
(* every index would: a write that is reverted, undone or repeated within  *)
(* an index nets out, and nothing that changed is missed, whichever of     *)
(* open_slot, open_account, the rollback and the destruct wrote it.        *)
LazyIsEager == Eager!Spec

(* A change list is encoded as it stands, so it must already be in order:  *)
(* one change per index, indices strictly increasing (push, encode).       *)
ChangesInOrder ==
  \A c \in Cell : \A i, j \in DOMAIN changes[c] :
    i < j => changes[c][i].index < changes[c][j].index

(* The final pass never finds a slot accessed without its account, nor an  *)
(* open period on a row it skips: build_block_access_list_hash halts on    *)
(* the first and would lose the change of the second.                      *)
ListedRowsAreWhole ==
  /\ \A s \in Slot : s \in accessed => Owner[s] \in accessed
  /\ \A r \in Row : period[r] # NoPeriod => r \in accessed

(* An account is in the list only if something read it, wrote it or paid   *)
(* for its access: an access whose charge failed does not list it.         *)
UnpaidNotListed == accessed \cap Account \subseteq loaded

(* An account whose access was paid is in the list when the frames are     *)
(* done: access_account says a paid charge "shows as a further host        *)
(* callback in the same frame or the frame ending normally".               *)
PaidIsListed == frames = <<>> => loaded \subseteq accessed
=============================================================================
