---------------------------- MODULE WriteConnection ----------------------------
(***************************************************************************)
(* The connection of the write pool and jfs_query (sqlitedb.c), which runs *)
(* one write operation after the other on it: a single statement, or the   *)
(* transaction of several that unlink, rmdir and rename are made of.       *)
(*                                                                         *)
(* Any call into SQLite may fail, and the process may die at any time.     *)
(* SQLite is external: outside a transaction a statement is committed by   *)
(* itself; inside one it waits for the COMMIT; a connection that goes away *)
(* rolls its transaction back.                                             *)
(***************************************************************************)
EXTENDS Integers

CONSTANTS
  Ops,           \* write operations, each performed once
  Multi,         \* those of type jfs_multi_write_op
  Size,          \* num_queries
  NoOp

ASSUME WriteAssumption ==
  /\ Multi \subseteq Ops
  /\ Size \in [Ops -> Nat \ {0}]
  /\ \A o \in Ops \ Multi : Size[o] = 1
  /\ NoOp \notin Ops

VARIABLES
  committed,     \* statements <<op, i>> whose effect is in joinfs.db
  pending,       \* statements in the open transaction
  inTx,          \* the connection is in a transaction
  op,            \* the operation being performed
  next,          \* its next statement
  pc,            \* where jfs_query is
  rc,            \* what it will return
  result,        \* what the requester of each operation knows
  abandoned      \* history: operations that returned with their transaction open

vars == <<committed, pending, inTx, op, next, pc, rc, result, abandoned>>

Statements(o) == {<<o, i>> : i \in 1..Size[o]}

Init ==
  /\ committed = {} /\ pending = {}
  /\ inTx = FALSE
  /\ op = NoOp /\ next = 1
  /\ pc = "idle" /\ rc = "ok"
  /\ result = [o \in Ops |-> "new"]
  /\ abandoned = {}

-------------------------------------------------------------------------------
\* The worker takes an operation from its pool, which gives it one at a time.
Take(o) ==
  /\ pc = "idle"
  /\ result[o] = "new"
  /\ op' = o /\ next' = 1
  /\ pc' = IF o \in Multi THEN "begin" ELSE "statement"
  /\ UNCHANGED <<committed, pending, inTx, rc, result, abandoned>>

Answer(code) == pc' = "answer" /\ rc' = code

RollBack == inTx' = FALSE /\ pending' = {}

Begin_Unchecked ==                                               \* mutant
  /\ pc = "begin"
  /\ inTx' = TRUE
  /\ pc' = "statement"
  /\ UNCHANGED <<committed, pending, op, next, rc, result, abandoned>>

\* BEGIN TRANSACTION is refused within a transaction.
Begin ==
  /\ pc = "begin" /\ ~inTx
  /\ inTx' = TRUE
  /\ pc' = "statement"
  /\ UNCHANGED <<committed, pending, op, next, rc, result, abandoned>>

BeginFails ==
  /\ pc = "begin"
  /\ Answer("error")
  /\ UNCHANGED <<committed, pending, inTx, op, next, result, abandoned>>

-------------------------------------------------------------------------------
IsLast_OneMore == next > Size[op]                                \* mutant
IsLast == next = Size[op]

StatementRuns ==
  /\ pc = "statement"
  /\ IF inTx
       THEN pending' = pending \cup {<<op, next>>} /\ UNCHANGED committed
       ELSE committed' = committed \cup {<<op, next>>} /\ UNCHANGED pending
  /\ next' = next + 1
  /\ \/ op \notin Multi /\ Answer("ok")
     \/ /\ op \in Multi
        /\ pc' = IF IsLast THEN "commit" ELSE "statement"
        /\ UNCHANGED rc
  /\ UNCHANGED <<inTx, op, result, abandoned>>

\* jfs_query returns at once: a transaction stays open.
StatementUnprepared ==
  /\ pc = "statement"
  /\ Answer("error")
  /\ abandoned' = IF op \in Multi THEN abandoned \cup {op} ELSE abandoned
  /\ UNCHANGED <<committed, pending, inTx, op, next, result>>

StatementFails_Unrolled ==                                       \* mutant
  /\ pc = "statement"
  /\ Answer("error")
  /\ UNCHANGED <<committed, pending, inTx, op, next, result, abandoned>>

\* A transaction is rolled back, but what ROLLBACK TRANSACTION answers is not looked at:
\* it stays open if that fails.  A single statement rolls back the transaction it finds
\* itself in or not: INSERT OR ROLLBACK does for a constraint, and some errors do.
StatementFails ==
  /\ pc = "statement"
  /\ \/ RollBack /\ UNCHANGED abandoned
     \/ /\ UNCHANGED <<inTx, pending>>
        /\ abandoned' = IF op \in Multi THEN abandoned \cup {op} ELSE abandoned
  /\ Answer("error")
  /\ UNCHANGED <<committed, op, next, result>>

-------------------------------------------------------------------------------
Commit ==
  /\ pc = "commit"
  /\ committed' = committed \cup pending
  /\ RollBack                    \* the transaction ends, its statements are safe
  /\ Answer("ok")
  /\ UNCHANGED <<op, next, result, abandoned>>

\* SQLITE_BUSY leaves the transaction open; a full disk may end it.
CommitFails ==
  /\ pc = "commit"
  /\ \/ RollBack /\ UNCHANGED abandoned
     \/ UNCHANGED <<inTx, pending>> /\ abandoned' = abandoned \cup {op}
  /\ Answer("error")
  /\ UNCHANGED <<committed, op, next, result>>

\* The worker stores rc in the operation and wakes its requester.
Reply ==
  /\ pc = "answer"
  /\ result' = [result EXCEPT ![op] = rc]
  /\ pc' = "idle" /\ op' = NoOp
  /\ UNCHANGED <<committed, pending, inTx, next, rc, abandoned>>

\* The connection is closed by an unmount or by the death of the process, and
\* opened by the next mount.  Whoever waits for an operation learns nothing.
Reconnect ==
  /\ result' = IF op = NoOp THEN result ELSE [result EXCEPT ![op] = "lost"]
  /\ RollBack
  /\ pc' = "idle" /\ op' = NoOp
  /\ UNCHANGED <<committed, next, rc, abandoned>>

-------------------------------------------------------------------------------
Next ==
  \/ \E o \in Ops : Take(o)
  \/ Begin \/ BeginFails
  \/ StatementRuns \/ StatementUnprepared \/ StatementFails
  \/ Commit \/ CommitFails
  \/ Reply \/ Reconnect

Spec == Init /\ [][Next]_vars

-------------------------------------------------------------------------------
(* Properties.                                                                *)

\* Type invariant.
TypeOK ==
  /\ committed \subseteq UNION {Statements(o) : o \in Ops}
  /\ pending \subseteq UNION {Statements(o) : o \in Ops}
  /\ inTx \in BOOLEAN
  /\ op \in Ops \cup {NoOp}
  /\ op \in Ops => next \in 1..(Size[op] + 1)
  /\ pc \in {"idle", "begin", "statement", "commit", "answer"}
  /\ rc \in {"ok", "error"}
  /\ result \in [Ops -> {"new", "ok", "error", "lost"}]
  /\ abandoned \subseteq Multi

\* unlink, rmdir and rename change the database as a whole or not at all, whatever
\* fails, whenever the process dies, and whatever transaction was left open before.
AllOrNothing ==
  \A o \in Ops : committed \cap Statements(o) \in {{}, Statements(o)}

\* A write that returned an error is not in the database, and never gets there with
\* the transaction of another.
FailedLeavesNothing ==
  \A o \in Ops : result[o] = "error" => committed \cap Statements(o) = {}

\* A write that returned 0 is in the database.
Committed(o) == result[o] = "ok" => Statements(o) \subseteq committed

\* True as long as no transaction was left open.
DurableUntilAbandoned == abandoned = {} => \A o \in Ops : Committed(o)

\* jfs_destroy in joinfs.c: "let writes propogate".  Every write that was
\* acknowledged is in the database.
Durable == \A o \in Ops : Committed(o)

\* An open transaction that no operation is going to commit.
LeftOpen == inTx /\ (pc \in {"idle", "begin", "answer"} \/ (pc = "statement" /\ op \notin Multi))

WS == INSTANCE WriteStore WITH
        stored  <- {o \in Ops : Statements(o) \subseteq committed},
        outcome <- result,
        adrift  <- LeftOpen

\* To the requesters the connection is a WriteStore: an operation takes effect in one
\* step, at most once, before it is answered, and is only reported done when it was, or
\* while a transaction left open swallows it.
ImplementsWriteStore == WS!Spec
===============================================================================
