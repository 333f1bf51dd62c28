----------------------------- MODULE RecordStore ------------------------------
(***************************************************************************)
(* What the storage of the records promises to those who call it: a record *)
(* that is saved is there at once and whole, or not at all; a deletion     *)
(* takes it away at once; a process that dies takes with it the saves that *)
(* are under way and nothing else.                                         *)
(***************************************************************************)
CONSTANTS Keys, Values, Clients, Missing

VARIABLES
  store,   \* what is read under each key, or Missing
  saving   \* the key and value that each client is saving, or none

vars == <<store, saving>>

Init ==
  /\ store = [k \in Keys |-> Missing]
  /\ saving = [c \in Clients |-> {}]

Ask(c, k, v) ==
  /\ saving[c] = {}
  /\ saving' = [saving EXCEPT ![c] = {<<k, v>>}]
  /\ UNCHANGED store

Save(c) ==
  /\ \E e \in saving[c] : store' = [store EXCEPT ![e[1]] = e[2]]
  /\ saving' = [saving EXCEPT ![c] = {}]

Fail(c) ==
  /\ saving[c] # {} /\ saving' = [saving EXCEPT ![c] = {}]
  /\ UNCHANGED store

Delete(k) ==
  /\ store[k] # Missing /\ store' = [store EXCEPT ![k] = Missing]
  /\ UNCHANGED saving

Die == saving' = [c \in Clients |-> {}] /\ UNCHANGED store

Next ==
  \/ \E c \in Clients : \/ \E k \in Keys, v \in Values : Ask(c, k, v)
                        \/ Save(c) \/ Fail(c)
  \/ \E k \in Keys : Delete(k)
  \/ Die

Spec == Init /\ [][Next]_vars
===============================================================================
