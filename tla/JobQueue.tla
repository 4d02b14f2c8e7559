------------------------------- MODULE JobQueue -------------------------------
(***************************************************************************)
(* What a pool of database threads promises to its callers, without a      *)
(* word about threads: a database operation that was accepted is started   *)
(* in arrival order, started at most once, and finished only after it was  *)
(* started.  Once the pool is told to stop, started operations may be      *)
(* given up and the waiting ones are discarded.                            *)
(***************************************************************************)
EXTENDS Sequences

CONSTANT Ops                \* the database operations (struct jfs_db_op)

VARIABLES
  submitted,                \* operations handed to the pool so far
  pending,                  \* accepted and not started, in arrival order
  running,                  \* started and not finished
  finished,                 \* performed, result available
  stopping                  \* the pool is being destroyed

jqVars == <<submitted, pending, running, finished, stopping>>

Init ==
  /\ submitted = {}
  /\ pending = <<>>
  /\ running = {}
  /\ finished = {}
  /\ stopping = FALSE

\* An operation is handed over once, and is either queued or refused.
Submit(op) ==
  /\ op \notin submitted
  /\ submitted' = submitted \cup {op}
  /\ pending' \in {pending, Append(pending, op)}
  /\ UNCHANGED <<running, finished, stopping>>

\* First in, first out.
Begin ==
  /\ ~stopping
  /\ pending # <<>>
  /\ running' = running \cup {Head(pending)}
  /\ pending' = Tail(pending)
  /\ UNCHANGED <<submitted, finished, stopping>>

Finish(op) ==
  /\ op \in running
  /\ running' = running \ {op}
  /\ finished' = finished \cup {op}
  /\ UNCHANGED <<submitted, pending, stopping>>

\* jfs_pool_destroy: from now on nothing is started.
Stop ==
  /\ stopping' = TRUE
  /\ UNCHANGED <<submitted, pending, running, finished>>

\* A started operation may be cancelled, and the others are thrown away at the end.
GiveUp(op) ==
  /\ stopping
  /\ op \in running
  /\ running' = running \ {op}
  /\ UNCHANGED <<submitted, pending, finished, stopping>>

Discard ==
  /\ stopping
  /\ running = {}
  /\ pending' = <<>>
  /\ UNCHANGED <<submitted, running, finished, stopping>>

Next ==
  \/ \E op \in Ops : Submit(op) \/ Finish(op) \/ GiveUp(op)
  \/ Begin
  \/ Stop
  \/ Discard

Spec == Init /\ [][Next]_jqVars
===============================================================================
