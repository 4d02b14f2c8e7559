------------------------------ MODULE WriteStore ------------------------------
(***************************************************************************)
(* What the write pool makes of its operations, without a word about       *)
(* statements and transactions: an operation takes effect as a whole, at   *)
(* most once, and not once it has been answered.  A success is only        *)
(* reported of an operation that took effect, or while the store is adrift:*)
(* what it takes then is gone.  It is adrift from a failure on until it is *)
(* mended by another.                                                      *)
(***************************************************************************)
CONSTANT Ops

VARIABLES
  stored,        \* operations whose effect is in the database
  outcome,       \* what the requester of each operation knows
  adrift         \* nothing is stored any more

wsVars == <<stored, outcome, adrift>>

Init ==
  /\ stored = {}
  /\ outcome = [o \in Ops |-> "new"]
  /\ adrift = FALSE

Perform(o) ==
  /\ ~adrift
  /\ outcome[o] = "new" /\ o \notin stored
  /\ stored' = stored \cup {o}
  /\ UNCHANGED <<outcome, adrift>>

Learn(o, what) ==
  /\ outcome[o] = "new"
  /\ outcome' = [outcome EXCEPT ![o] = what]
  /\ UNCHANGED stored

Acknowledge(o) == (o \in stored \/ adrift) /\ Learn(o, "ok") /\ UNCHANGED adrift

Refuse(o) == o \notin stored /\ Learn(o, "error") /\ UNCHANGED adrift

\* The requester is gone, or has no answer: the operation took effect or it did not.
Lose(o) == Learn(o, "lost") /\ adrift' = FALSE

Drift == adrift' = TRUE /\ UNCHANGED <<stored, outcome>>

Mend == adrift' = FALSE /\ UNCHANGED <<stored, outcome>>

Next ==
  \/ \E o \in Ops : Perform(o) \/ Acknowledge(o) \/ Refuse(o) \/ Lose(o)
  \/ Drift \/ Mend

Spec == Init /\ [][Next]_wsVars
===============================================================================
