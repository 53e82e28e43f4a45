-------------------------- MODULE EagerAccessList --------------------------
(***************************************************************************)
(* What the block access list (EIP-7928) promises, as the header comment   *)
(* of block_access_list.hpp puts it: the post-value of each cell at every  *)
(* block access index where it differs from its value at the start of that *)
(* index.  This is the definition that walks the whole state at the end of *)
(* every index; the code (BlockAccessList) never does.                     *)
(***************************************************************************)
EXTENDS Integers

CONSTANTS
  Cell,          \* one field of an account row, or one storage slot
  Value

VARIABLES
  value,         \* current value of every cell
  index,         \* the block access index being executed
  start,         \* value of every cell when that index began
  changes        \* changes[c]: the post-values of c at the finished indices

vars == <<value, index, start, changes>>

Init ==
  /\ value \in [Cell -> Value]
  /\ index = 0
  /\ start = value
  /\ changes = [c \in Cell |-> {}]

(* Anything the block executes within one index: writes and reverts. *)
Execute ==
  /\ value' \in [Cell -> Value]
  /\ UNCHANGED <<index, start, changes>>

(* The cells that differ from the start of the index get one change each. *)
EndIndex ==
  /\ changes' = [c \in Cell |->
       IF value[c] # start[c]
         THEN changes[c] \cup {[index |-> index, value |-> value[c]]}
         ELSE changes[c]]
  /\ start' = value
  /\ index' = index + 1
  /\ UNCHANGED value

Next == Execute \/ EndIndex

Spec == Init /\ [][Next]_vars
=============================================================================
