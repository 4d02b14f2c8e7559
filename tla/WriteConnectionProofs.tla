------------------------- MODULE WriteConnectionProofs -------------------------
(* Proofs about the write connection, for any operations of any size.         *)
EXTENDS WriteConnection, TLAPS

\* What jfs_query has and has not done where it is.
AtWork ==
  /\ pc = "idle" <=> op = NoOp
  /\ op \in Ops => result[op] = "new"
  /\ pc = "begin" => op \in Multi /\ next = 1
  /\ pc = "statement" => next <= Size[op]
  /\ pc = "commit" => op \in Multi /\ next = Size[op] + 1

\* A transaction in use holds the statements of its operation run so far and no
\* other: what somebody else left behind cannot be committed with them.
OwnTransaction ==
  /\ ~inTx => pending = {}
  /\ pc \in {"statement", "commit"} /\ op \in Multi =>
       inTx /\ pending = {<<op, i>> : i \in 1..(next - 1)}

Performed(o) == pc = "answer" /\ op = o /\ rc = "ok"

\* Only what was performed, or might have been, has an effect.
OnlyPerformed ==
  \A o \in Ops : committed \cap Statements(o) # {} =>
                   Performed(o) \/ result[o] \in {"ok", "lost"}

\* Until a transaction is left open, one is only open while an operation is in it.
Kept ==
  abandoned = {} =>
    /\ inTx => op \in Multi /\ pc \in {"statement", "commit"}
    /\ \A o \in Ops : Performed(o) \/ result[o] = "ok" => Statements(o) \subseteq committed

Inv == TypeOK /\ AtWork /\ OwnTransaction /\ OnlyPerformed /\ AllOrNothing /\ Kept

-------------------------------------------------------------------------------
(* Statements of different operations differ.                                 *)

\* A statement belongs to one operation.
LEMMA StatementOf ==
  ASSUME NEW o \in Ops, NEW p \in Ops, NEW i
  PROVE  <<p, i>> \in Statements(o) <=> p = o /\ i \in 1..Size[o]
  BY DEF Statements

\* All statements of an operation, run one after the other, are its statements.
LEMMA AllStatements ==
  ASSUME NEW o \in Ops
  PROVE  /\ {<<o, i>> : i \in 1..((Size[o] + 1) - 1)} = Statements(o)
         /\ Size[o] \in Nat \ {0}
         /\ Statements(o) # {}
         /\ o \notin Multi => Statements(o) = {<<o, 1>>}
  <1>1. Size[o] \in Nat \ {0}
    BY WriteAssumption
  <1>2. (Size[o] + 1) - 1 = Size[o]
    BY <1>1
  <1>3. <<o, 1>> \in Statements(o)
    BY <1>1 DEF Statements
  <1>4. ASSUME o \notin Multi PROVE Statements(o) = {<<o, 1>>}
    <2>1. Size[o] = 1
      BY <1>4, WriteAssumption
    <2>2. 1..Size[o] = {1}
      BY <2>1
    <2> QED BY <2>2 DEF Statements
  <1> QED BY <1>1, <1>2, <1>3, <1>4 DEF Statements

\* The database gains all the statements of one operation that had none there: every
\* operation is still there as a whole or not at all.
LEMMA WholeAdded ==
  ASSUME NEW o \in Ops, AllOrNothing, committed' = committed \cup Statements(o)
  PROVE  /\ AllOrNothing'
         /\ \A p \in Ops : p # o => committed' \cap Statements(p) = committed \cap Statements(p)
         /\ Statements(o) \subseteq committed'
  <1>1. \A p \in Ops : p # o => Statements(o) \cap Statements(p) = {}
    BY StatementOf DEF Statements
  <1>2. \A p \in Ops : p # o => committed' \cap Statements(p) = committed \cap Statements(p)
    BY <1>1
  <1>3. committed' \cap Statements(o) = Statements(o)
    OBVIOUS
  <1>4. AllOrNothing'
    BY <1>2, <1>3 DEF AllOrNothing, Statements
  <1> QED BY <1>2, <1>3, <1>4

-------------------------------------------------------------------------------
(* The invariant is inductive.                                                *)

LEMMA InvInit == Init => Inv
  <1> SUFFICES ASSUME Init PROVE Inv
    OBVIOUS
  <1> USE DEF Init
  <1>1. TypeOK
    BY WriteAssumption DEF TypeOK
  <1>2. AtWork
    BY WriteAssumption DEF AtWork
  <1>3. OwnTransaction /\ OnlyPerformed /\ AllOrNothing /\ Kept
    BY DEF OwnTransaction, OnlyPerformed, AllOrNothing, Kept, Performed
  <1> QED BY <1>1, <1>2, <1>3 DEF Inv

\* A step that leaves the database and the results alone keeps what is said of them,
\* if nobody stops having performed an operation.
LEMMA Unstored ==
  ASSUME Inv, UNCHANGED <<committed, result>>,
         \A o \in Ops : Performed(o) <=> Performed(o)'
  PROVE  OnlyPerformed' /\ AllOrNothing'
         /\ (abandoned = {} =>
               (\A o \in Ops : Performed(o) \/ result[o] = "ok" => Statements(o) \subseteq committed)')
  BY DEF Inv, OnlyPerformed, AllOrNothing, Kept, Statements

LEMMA InvTake == ASSUME Inv, NEW o \in Ops, Take(o) PROVE Inv'
  <1> USE DEF Take
  <1>1. TypeOK'
    BY AllStatements DEF Inv, TypeOK, Statements
  <1>2. AtWork'
    BY AllStatements, WriteAssumption DEF Inv, TypeOK, AtWork
  <1>3. OwnTransaction'
    BY DEF Inv, OwnTransaction
  <1>4. OnlyPerformed' /\ AllOrNothing'
        /\ (abandoned = {} =>
              (\A p \in Ops : Performed(p) \/ result[p] = "ok" => Statements(p) \subseteq committed)')
    BY Unstored DEF Performed
  <1>5. Kept'
    BY <1>4 DEF Inv, Kept
  <1> QED BY <1>1, <1>2, <1>3, <1>4, <1>5 DEF Inv

LEMMA InvBegin == ASSUME Inv, Begin \/ BeginFails PROVE Inv'
  <1> USE DEF Begin, BeginFails, Answer
  <1>1. TypeOK'
    BY DEF Inv, TypeOK, Statements
  <1>2. AtWork'
    BY WriteAssumption, AllStatements DEF Inv, TypeOK, AtWork
  <1>3. OwnTransaction'
    BY DEF Inv, AtWork, OwnTransaction
  <1>4. OnlyPerformed' /\ AllOrNothing'
        /\ (abandoned = {} =>
              (\A p \in Ops : Performed(p) \/ result[p] = "ok" => Statements(p) \subseteq committed)')
    BY Unstored DEF Performed
  <1>5. Kept'
    BY <1>4 DEF Inv, Kept, AtWork
  <1> QED BY <1>1, <1>2, <1>3, <1>4, <1>5 DEF Inv

\* An operation that fails: nothing is stored, and it has not performed anything.
LEMMA InvFails ==
  ASSUME Inv, StatementUnprepared \/ StatementFails \/ CommitFails
  PROVE  Inv'
  <1> USE DEF StatementUnprepared, StatementFails, CommitFails, Answer, RollBack
  <1>1. TypeOK'
    <2>1. op \in Multi => abandoned \cup {op} \subseteq Multi
      BY DEF Inv, TypeOK
    <2>2. abandoned' \subseteq Multi
      BY <2>1 DEF Inv, TypeOK, AtWork
    <2> QED BY <2>2 DEF Inv, TypeOK, Statements
  <1>2. AtWork'
    BY DEF Inv, AtWork
  <1>3. OwnTransaction'
    BY DEF Inv, OwnTransaction
  <1>4. OnlyPerformed' /\ AllOrNothing'
        /\ (abandoned = {} =>
              (\A p \in Ops : Performed(p) \/ result[p] = "ok" => Statements(p) \subseteq committed)')
    <2>1. \A p \in Ops : ~Performed(p) /\ ~Performed(p)'
      BY DEF Performed
    <2> QED BY <2>1, Unstored
  <1>5. Kept'
    <2>1. SUFFICES ASSUME abandoned' = {} PROVE ~inTx'
      BY <1>4 DEF Kept, Inv
    <2>2. abandoned = {} /\ op \in Ops
      BY <2>1 DEF Inv, AtWork, TypeOK
    <2>3. inTx => op \in Multi
      BY <2>2 DEF Inv, Kept
    <2> QED BY <2>1, <2>3
  <1> QED BY <1>1, <1>2, <1>3, <1>4, <1>5 DEF Inv

\* A statement in a transaction is remembered; a single one is in the database and
\* was the whole operation.
LEMMA InvRuns == ASSUME Inv, StatementRuns PROVE Inv'
  <1> USE DEF StatementRuns, Answer
  <1>0. /\ op \in Ops /\ Size[op] \in Nat \ {0} /\ next \in 1..Size[op]
        /\ result[op] = "new" /\ pc = "statement"
    BY AllStatements DEF Inv, TypeOK, AtWork
  <1>1. TypeOK'
    <2>1. <<op, next>> \in UNION {Statements(o) : o \in Ops}
      BY <1>0, StatementOf
    <2>2. next' \in 1..(Size[op] + 1)
      BY <1>0
    <2> QED BY <2>1, <2>2, <1>0 DEF Inv, TypeOK, Statements
  <1>2. AtWork'
    BY <1>0 DEF Inv, TypeOK, AtWork, IsLast
  <1>3. CASE op \in Multi
    <2>1. inTx /\ pending = {<<op, i>> : i \in 1..(next - 1)} /\ UNCHANGED committed
      BY <1>0, <1>3 DEF Inv, OwnTransaction
    <2>2. 1..(next' - 1) = (1..(next - 1)) \cup {next}
      BY <1>0
    <2>3. pending' = {<<op, i>> : i \in 1..(next' - 1)}
      BY <2>1, <2>2
    <2>4. OwnTransaction'
      BY <2>1, <2>3 DEF OwnTransaction
    <2>5. OnlyPerformed' /\ AllOrNothing'
          /\ (abandoned = {} =>
                (\A p \in Ops : Performed(p) \/ result[p] = "ok" => Statements(p) \subseteq committed)')
      <3>1. \A p \in Ops : ~Performed(p) /\ ~Performed(p)'
        BY <1>0, <1>3 DEF Performed
      <3> QED BY <3>1, <2>1, Unstored
    <2>6. Kept'
      BY <2>5, <1>3, <1>0 DEF Inv, Kept
    <2> QED BY <1>1, <1>2, <2>4, <2>5, <2>6 DEF Inv
  <1>4. CASE op \notin Multi /\ inTx
    <2>1. abandoned # {}
      BY <1>4 DEF Inv, Kept
    <2>2. OwnTransaction' /\ Kept'
      BY <1>4, <2>1 DEF OwnTransaction, Kept
    <2>3. AllOrNothing'
      BY <1>4 DEF Inv, AllOrNothing, Statements
    <2>4. \A p \in Ops : ~Performed(p)
      BY <1>0 DEF Performed
    <2>5. OnlyPerformed'
      BY <1>4, <2>4 DEF Inv, OnlyPerformed, Statements
    <2> QED BY <1>1, <1>2, <2>2, <2>3, <2>5 DEF Inv
  <1>5. CASE op \notin Multi /\ ~inTx
    <2>1. Statements(op) = {<<op, 1>>} /\ Size[op] = 1
      BY <1>0, <1>5, AllStatements, WriteAssumption
    <2>2. next = 1
      BY <2>1, <1>0
    <2>3. committed' = committed \cup Statements(op)
      BY <2>1, <2>2, <1>5
    <2>4. /\ AllOrNothing'
          /\ \A p \in Ops : p # op => committed' \cap Statements(p) = committed \cap Statements(p)
          /\ Statements(op) \subseteq committed'
      BY <2>3, <1>0, WholeAdded DEF Inv
    <2>5. OwnTransaction'
      BY <1>5 DEF Inv, OwnTransaction
    <2>6. \A p \in Ops : ~Performed(p) /\ (Performed(p)' <=> p = op)
      BY <1>0, <1>5 DEF Performed
    <2>7. OnlyPerformed'
      BY <2>4, <2>6 DEF Inv, OnlyPerformed
    <2>8. Kept'
      BY <2>3, <2>4, <2>6, <1>5 DEF Inv, Kept
    <2> QED BY <1>1, <1>2, <2>4, <2>5, <2>7, <2>8 DEF Inv
  <1> QED BY <1>3, <1>4, <1>5

\* COMMIT stores the statements of one operation, all of them and no other.
LEMMA InvCommit == ASSUME Inv, Commit PROVE Inv'
  <1> USE DEF Commit, Answer, RollBack
  <1>0. /\ op \in Multi /\ op \in Ops /\ next = Size[op] + 1
        /\ inTx /\ pending = {<<op, i>> : i \in 1..(next - 1)}
    BY WriteAssumption DEF Inv, AtWork, OwnTransaction
  <1>1. committed' = committed \cup Statements(op)
    BY <1>0, AllStatements
  <1>2. /\ AllOrNothing'
        /\ \A p \in Ops : p # op => committed' \cap Statements(p) = committed \cap Statements(p)
        /\ Statements(op) \subseteq committed'
    BY <1>1, <1>0, WholeAdded DEF Inv
  <1>3. TypeOK'
    BY <1>0 DEF Inv, TypeOK, Statements
  <1>4. AtWork' /\ OwnTransaction'
    BY <1>0 DEF Inv, AtWork, OwnTransaction
  <1>5. \A p \in Ops : ~Performed(p) /\ (Performed(p)' <=> p = op)
    BY <1>0 DEF Performed
  <1>6. OnlyPerformed'
    BY <1>2, <1>5 DEF Inv, OnlyPerformed
  <1>7. Kept'
    BY <1>1, <1>2, <1>5 DEF Inv, Kept
  <1> QED BY <1>2, <1>3, <1>4, <1>6, <1>7 DEF Inv

\* The result of an operation is what it performed.
LEMMA InvReply == ASSUME Inv, Reply \/ Reconnect PROVE Inv'
  <1> USE DEF Reply, Reconnect, RollBack
  <1>1. TypeOK'
    BY WriteAssumption DEF Inv, TypeOK, Statements
  <1>2. AtWork'
    BY WriteAssumption DEF Inv, TypeOK, AtWork
  <1>3. OwnTransaction'
    BY DEF Inv, OwnTransaction
  <1>4. AllOrNothing'
    BY DEF Inv, AllOrNothing, Statements
  <1>5. \A p \in Ops : ~Performed(p)'
    BY DEF Performed
  <1>6. \A p \in Ops : p # op => result'[p] = result[p]
    BY DEF Inv, TypeOK
  <1>7. OnlyPerformed'
    <2>1. ASSUME NEW p \in Ops, committed \cap Statements(p) # {}, p = op
          PROVE  result'[p] \in {"ok", "lost"}
      <3>1. result[p] = "new" /\ pc # "idle" /\ op # NoOp
        BY <2>1, WriteAssumption DEF Inv, AtWork
      <3>2. Performed(p)
        BY <2>1, <3>1 DEF Inv, OnlyPerformed
      <3> QED BY <2>1, <3>1, <3>2 DEF Inv, TypeOK, Performed
    <2>2. ASSUME NEW p \in Ops, committed \cap Statements(p) # {}, p # op
          PROVE  result'[p] \in {"ok", "lost"}
      BY <2>2, <1>6 DEF Inv, OnlyPerformed, Performed
    <2> QED BY <2>1, <2>2 DEF OnlyPerformed, Statements
  <1>8. Kept'
    <2>1. SUFFICES ASSUME abandoned' = {} PROVE Kept'
      BY DEF Kept
    <2>2. abandoned = {}
      BY <2>1
    <2>3. ~inTx'
      BY <2>2 DEF Inv, Kept
    <2>4. ASSUME NEW p \in Ops, result'[p] = "ok" PROVE Statements(p) \subseteq committed
      <3>1. CASE p = op
        <4>1. Performed(p)
          BY <2>4, <3>1, WriteAssumption DEF Inv, TypeOK, AtWork, Performed
        <4> QED BY <4>1, <2>2 DEF Inv, Kept
      <3>2. CASE p # op
        BY <3>2, <2>4, <1>6, <2>2 DEF Inv, Kept
      <3> QED BY <3>1, <3>2
    <2> QED BY <2>3, <2>4, <1>5 DEF Kept, Statements
  <1> QED BY <1>1, <1>2, <1>3, <1>4, <1>7, <1>8 DEF Inv

LEMMA InvStep == Inv /\ [Next]_vars => Inv'
  <1> SUFFICES ASSUME Inv, [Next]_vars PROVE Inv'
    OBVIOUS
  <1>1. CASE \E o \in Ops : Take(o)
    BY <1>1, InvTake
  <1>2. CASE Begin \/ BeginFails
    BY <1>2, InvBegin
  <1>3. CASE StatementRuns
    BY <1>3, InvRuns
  <1>4. CASE StatementUnprepared \/ StatementFails \/ CommitFails
    BY <1>4, InvFails
  <1>5. CASE Commit
    BY <1>5, InvCommit
  <1>6. CASE Reply \/ Reconnect
    BY <1>6, InvReply
  <1>7. CASE UNCHANGED vars
    BY <1>7 DEF vars, Inv, TypeOK, AtWork, OwnTransaction, OnlyPerformed, AllOrNothing,
                Kept, Performed, Statements
  <1> QED BY <1>1, <1>2, <1>3, <1>4, <1>5, <1>6, <1>7 DEF Next

\* The invariant says what the properties say.
LEMMA InvImplies ==
  Inv => TypeOK /\ AllOrNothing /\ FailedLeavesNothing /\ DurableUntilAbandoned
  <1> SUFFICES ASSUME Inv
               PROVE  TypeOK /\ AllOrNothing /\ FailedLeavesNothing /\ DurableUntilAbandoned
    OBVIOUS
  <1>1. FailedLeavesNothing
    <2>1. SUFFICES ASSUME NEW o \in Ops, result[o] = "error", committed \cap Statements(o) # {}
                   PROVE  FALSE
      BY DEF FailedLeavesNothing
    <2>2. Performed(o)
      BY <2>1 DEF Inv, OnlyPerformed
    <2> QED BY <2>1, <2>2 DEF Inv, AtWork, Performed
  <1>2. DurableUntilAbandoned
    BY DEF Inv, Kept, DurableUntilAbandoned, Committed
  <1> QED BY <1>1, <1>2 DEF Inv

-------------------------------------------------------------------------------
(* Theorems.                                                                  *)

\* Type correctness of the write connection.
THEOREM TypeCorrect == Spec => []TypeOK
  <1>1. Inv => TypeOK
    BY InvImplies
  <1> QED BY <1>1, InvInit, InvStep, PTL DEF Spec

\* Whatever fails and whenever the process dies, the transactions of unlink, rmdir and
\* rename are in the database as a whole or not at all.
THEOREM TransactionsAtomic == Spec => []AllOrNothing
  <1>1. Inv => AllOrNothing
    BY InvImplies
  <1> QED BY <1>1, InvInit, InvStep, PTL DEF Spec

\* A write that returned an error has no effect, then or later.
THEOREM FailuresHarmless == Spec => []FailedLeavesNothing
  <1>1. Inv => FailedLeavesNothing
    BY InvImplies
  <1> QED BY <1>1, InvInit, InvStep, PTL DEF Spec

\* As long as no transaction was left open, a write that returned 0 is in the database.
THEOREM AcknowledgedKept == Spec => []DurableUntilAbandoned
  <1>1. Inv => DurableUntilAbandoned
    BY InvImplies
  <1> QED BY <1>1, InvInit, InvStep, PTL DEF Spec

-------------------------------------------------------------------------------
(* The connection implements the WriteStore.                                  *)

\* A success about to be reported took effect, or a transaction swallows it.
Answered == pc = "answer" /\ rc = "ok" => inTx \/ Statements(op) \subseteq committed

\* An operation takes effect in one step: COMMIT, or its only statement outside a
\* transaction.  Nothing of it was there before, and it is not answered yet.
LEMMA TakesEffect ==
  ASSUME Inv, Commit \/ (StatementRuns /\ op \notin Multi /\ ~inTx)
  PROVE  /\ op \in Ops /\ result[op] = "new"
         /\ Statements(op) # {} /\ committed \cap Statements(op) = {}
         /\ committed' = committed \cup Statements(op)
  <1>1. op \in Ops /\ result[op] = "new" /\ pc \in {"statement", "commit"}
    BY WriteAssumption DEF Inv, TypeOK, AtWork, Commit, StatementRuns
  <1>2. Statements(op) # {} /\ committed \cap Statements(op) = {}
    BY <1>1, AllStatements DEF Inv, OnlyPerformed, Performed
  <1>3. CASE Commit
    <2>1. pending = {<<op, i>> : i \in 1..((Size[op] + 1) - 1)}
      BY <1>3 DEF Inv, AtWork, OwnTransaction, Commit
    <2> QED BY <2>1, <1>1, <1>2, <1>3, AllStatements DEF Commit
  <1>4. CASE StatementRuns /\ op \notin Multi /\ ~inTx
    <2>1. Statements(op) = {<<op, 1>>} /\ Size[op] = 1
      BY <1>1, <1>4, AllStatements, WriteAssumption
    <2>2. next = 1
      BY <2>1, <1>1, <1>4 DEF Inv, TypeOK, AtWork, StatementRuns
    <2> QED BY <2>1, <2>2, <1>1, <1>2, <1>4 DEF StatementRuns
  <1> QED BY <1>3, <1>4

\* An operation that takes effect joins the stored ones, and no other does.
LEMMA StoredAdded ==
  ASSUME NEW o \in Ops, committed' = committed \cup Statements(o)
  PROVE  {p \in Ops : Statements(p) \subseteq committed'}
           = {p \in Ops : Statements(p) \subseteq committed} \cup {o}
  <1>1. ASSUME NEW p \in Ops, p # o
        PROVE  Statements(p) \subseteq committed' <=> Statements(p) \subseteq committed
    <2>1. Statements(o) \cap Statements(p) = {}
      BY <1>1, StatementOf DEF Statements
    <2> QED BY <2>1
  <1>2. Statements(o) \subseteq committed'
    OBVIOUS
  <1> QED BY <1>1, <1>2

LEMMA AnsweredStep == Inv /\ Answered /\ [Next]_vars => Answered'
  <1> SUFFICES ASSUME Inv, Answered, [Next]_vars, pc' = "answer", rc' = "ok"
               PROVE  (inTx \/ Statements(op) \subseteq committed)'
    BY DEF Answered
  <1>1. CASE Commit \/ (StatementRuns /\ op \notin Multi /\ ~inTx)
    <2>1. op' = op /\ committed' = committed \cup Statements(op)
      BY <1>1, TakesEffect DEF Commit, StatementRuns
    <2> QED BY <2>1 DEF Statements
  <1>2. CASE StatementRuns /\ ~(op \notin Multi /\ ~inTx)
    BY <1>2 DEF StatementRuns, Answer, Inv, AtWork, OwnTransaction
  <1>3. CASE UNCHANGED vars
    BY <1>3 DEF vars, Answered, Statements
  <1>4. CASE \/ \E o \in Ops : Take(o)
             \/ Begin \/ BeginFails \/ StatementUnprepared \/ StatementFails
             \/ CommitFails \/ Reply \/ Reconnect
    BY <1>4 DEF Take, Begin, BeginFails, StatementUnprepared, StatementFails, CommitFails,
                Reply, Reconnect, Answer
  <1> QED BY <1>1, <1>2, <1>3, <1>4 DEF Next

\* Where the database and the results stay as they are, only a transaction can have been
\* left open or ended.
LEMMA OnlyDrifts ==
  ASSUME UNCHANGED <<committed, result>>
  PROVE  [WS!Next]_(WS!wsVars)
  <1>1. {p \in Ops : Statements(p) \subseteq committed'}
          = {p \in Ops : Statements(p) \subseteq committed}
    OBVIOUS
  <1>2. LeftOpen' \in BOOLEAN
    BY DEF LeftOpen
  <1>3. LeftOpen' = TRUE \/ LeftOpen' = FALSE
    BY <1>2
  <1>4. WS!Drift \/ WS!Mend
    BY <1>1, <1>3 DEF WS!Drift, WS!Mend, Statements
  <1> QED BY <1>4 DEF WS!Next

\* Every step of the connection is one of the store or none.
LEMMA StepImplements == Inv /\ Answered /\ [Next]_vars => [WS!Next]_(WS!wsVars)
  <1> SUFFICES ASSUME Inv, Answered, [Next]_vars PROVE [WS!Next]_(WS!wsVars)
    OBVIOUS
  <1>1. CASE Commit \/ (StatementRuns /\ op \notin Multi /\ ~inTx)
    <2>1. /\ op \in Ops /\ result[op] = "new" /\ UNCHANGED result
          /\ op \notin {p \in Ops : Statements(p) \subseteq committed}
          /\ {p \in Ops : Statements(p) \subseteq committed'}
               = {p \in Ops : Statements(p) \subseteq committed} \cup {op}
      BY <1>1, TakesEffect, StoredAdded DEF Commit, StatementRuns
    <2>2. ~LeftOpen /\ ~LeftOpen'
      BY <1>1 DEF Commit, StatementRuns, LeftOpen, RollBack, Answer
    <2>3. LeftOpen' = LeftOpen
      BY <1>1 DEF Commit, StatementRuns, LeftOpen, RollBack, Answer
    <2>4. WS!Perform(op)
      BY <2>1, <2>2, <2>3, Zenon DEF WS!Perform, Statements
    <2> QED BY <2>1, <2>4 DEF WS!Next
  <1>2. CASE Reply
    <2>1. op \in Ops /\ result[op] = "new" /\ pc = "answer" /\ result' = [result EXCEPT ![op] = rc]
      BY <1>2, WriteAssumption DEF Inv, TypeOK, AtWork, Reply
    <2>2. UNCHANGED committed /\ LeftOpen' = LeftOpen
      BY <1>2 DEF Reply, LeftOpen
    <2>3. CASE rc = "ok"
      <3>1. LeftOpen \/ op \in {p \in Ops : Statements(p) \subseteq committed}
        BY <2>1, <2>3 DEF Answered, LeftOpen
      <3>2. WS!Acknowledge(op)
        BY <2>1, <2>2, <2>3, <3>1 DEF WS!Acknowledge, WS!Learn, Statements
      <3> QED BY <2>1, <3>2 DEF WS!Next
    <2>4. CASE rc = "error"
      <3>1. committed \cap Statements(op) = {} /\ Statements(op) # {}
        BY <2>1, <2>4, AllStatements DEF Inv, OnlyPerformed, Performed
      <3>2. WS!Refuse(op)
        BY <2>1, <2>2, <2>4, <3>1 DEF WS!Refuse, WS!Learn, Statements
      <3> QED BY <2>1, <3>2 DEF WS!Next
    <2> QED BY <2>3, <2>4 DEF Inv, TypeOK
  <1>3. CASE Reconnect /\ op # NoOp
    <2>1. op \in Ops /\ result[op] = "new" /\ result' = [result EXCEPT ![op] = "lost"]
      BY <1>3 DEF Inv, TypeOK, AtWork, Reconnect
    <2>2. UNCHANGED committed /\ LeftOpen' = FALSE
      BY <1>3 DEF Reconnect, RollBack, LeftOpen
    <2>3. WS!Lose(op)
      BY <2>1, <2>2 DEF WS!Lose, WS!Learn, Statements
    <2> QED BY <2>1, <2>3 DEF WS!Next
  <1>4. CASE \/ Reconnect /\ op = NoOp
             \/ StatementRuns /\ ~(op \notin Multi /\ ~inTx)
             \/ \E o \in Ops : Take(o)
             \/ Begin \/ BeginFails \/ StatementUnprepared \/ StatementFails \/ CommitFails
             \/ UNCHANGED vars
    <2>1. UNCHANGED <<committed, result>>
      BY <1>4 DEF Reconnect, StatementRuns, Take, Begin, BeginFails, StatementUnprepared,
                  StatementFails, CommitFails, vars, Inv, AtWork, OwnTransaction
    <2> QED BY <2>1, OnlyDrifts
  <1> QED BY <1>1, <1>2, <1>3, <1>4 DEF Next

\* To its requesters the connection is a WriteStore, whatever operations it is given.
THEOREM ConnectionImplements == Spec => ImplementsWriteStore
  <1>1. Init => WS!Init
    <2>1. SUFFICES ASSUME Init PROVE WS!Init
      OBVIOUS
    <2>2. {o \in Ops : Statements(o) \subseteq committed} = {}
      BY <2>1, AllStatements DEF Init
    <2>3. ~LeftOpen
      BY <2>1 DEF Init, LeftOpen
    <2> QED BY <2>1, <2>2, <2>3 DEF Init, WS!Init
  <1>2. Init => Answered
    BY DEF Init, Answered
  <1> QED BY <1>1, <1>2, InvInit, InvStep, AnsweredStep, StepImplements, PTL
             DEF Spec, WS!Spec, ImplementsWriteStore
===============================================================================
