---------------------------- MODULE BatchPromise -----------------------------
(***************************************************************************)
(* What the streaming batch processor promises to the owner of a batch:    *)
(* across any number of runs, every domain is answered at least once       *)
(* before a run that nobody cancelled is over, and a restart skips only    *)
(* domains that were answered.  It promises nothing about how much of the  *)
(* progress survives: what a restart skips may shrink as well as grow.     *)
(***************************************************************************)
CONSTANT Domains

VARIABLES
  status,    \* "off", "on", "done" or "stopped" (cancelled)
  answered,  \* domains whose result has been put on a result channel
  skipped    \* domains a run started now would leave out

vars == <<status, answered, skipped>>

Init == status = "off" /\ answered = {} /\ skipped = {}

Start ==
  /\ status = "off"
  /\ status' = "on" \/ (Domains \subseteq answered /\ status' = "done")
  /\ UNCHANGED <<answered, skipped>>

Answer(d) ==
  /\ status = "on"
  /\ answered' = answered \cup {d}
  /\ UNCHANGED <<status, skipped>>

Persist ==
  /\ status # "off"
  /\ skipped' \in SUBSET answered
  /\ UNCHANGED <<status, answered>>

End ==
  /\ status = "on"
  /\ Domains \subseteq answered
  /\ status' = "done"
  /\ UNCHANGED <<answered, skipped>>

Stop ==
  /\ status = "on"
  /\ status' = "stopped"
  /\ UNCHANGED <<answered, skipped>>

Lose ==
  /\ status # "off"
  /\ status' = "off"
  /\ UNCHANGED <<answered, skipped>>

Next == Start \/ (\E d \in Domains : Answer(d)) \/ Persist \/ End \/ Stop \/ Lose

Spec == Init /\ [][Next]_vars
=============================================================================
