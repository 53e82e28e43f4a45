----------------------------- MODULE MCStateDB -----------------------------
(***************************************************************************)
(* Instances of StateDB for TLC: a sender `eoa', a contract `app' with one *)
(* storage slot, a second address `new' that creations derive, and a       *)
(* precompile.                                                             *)
(***************************************************************************)
EXTENDS StateDB, FiniteSetsExt

CONSTANTS eoa, app, new, pre,  \* accounts
          slot,                \* the slot of app
          slot2,               \* a slot of new
          key,                 \* an address without a row
          c1                   \* a code hash

MCOwner == [s \in Slot |-> IF s = slot THEN app ELSE new]

Tables(balance, nonce, code, value) ==
  [balance |-> [a \in Acct |-> IF a \in DOMAIN balance THEN balance[a] ELSE 0],
   nonce |-> [a \in Acct |-> IF a \in DOMAIN nonce THEN nonce[a] ELSE 0],
   code |-> [a \in Acct |-> IF a \in DOMAIN code THEN code[a] ELSE EmptyCode],
   alast |-> [a \in Acct |-> 0],
   value |-> [s \in Slot |-> value[s]],
   slast |-> [s \in Slot |-> 0],
   wlast |-> [k \in WarmKey |-> 0],
   transient |-> [a \in Acct |-> Absent],
   pending |-> {}]

\* app is deployed, its slot holds 1; eoa has ether.
MCInitDB ==
  Tables([a \in {eoa, app} |-> IF a = eoa THEN 3 ELSE 1],
         [a \in {app} |-> 1], [a \in {app} |-> c1],
         [s \in Slot |-> IF s = slot THEN 1 ELSE 0])

Sum(f) == MapThenSumSet(LAMBDA a : f[a], DOMAIN f)
MCInitSupply == 4

NoAccess == [accts |-> {}, slots |-> {}, keys |-> {}]
NoAccessList == {NoAccess}
SlotAccessList ==
  {NoAccess, [accts |-> {app}, slots |-> Slot \cap {slot}, keys |-> WarmKey]}

\* Between transactions only these are read again: the next one resets or
\* overwrites the rest (journal, transient map, receipt, created set).
View ==
  IF phase = "idle"
  THEN <<stage, tx_counter, ResetTransient(db), tx_original, wiped, supply>>
  ELSE vars

\* Ether is neither made nor lost by calls, creations, self-destructions,
\* fees and rollbacks: the balances sum to the supply (before Amsterdam a
\* destroyed account's balance may burn, so to at most the supply).
EtherConserved ==
  LET total == Sum(db.balance)
  IN  /\ total <= supply
      /\ Amsterdam /\ phase # "rollback" => total = supply
=============================================================================
