------------------------------ MODULE ThreadPool ------------------------------
(***************************************************************************)
(* The database thread pool (thr_pool.c) together with the two ends of a   *)
(* database operation: the request thread that queues it and waits for it  *)
(* (jfs_pool_queue, jfs_db_op_wait) and the main thread that drains and    *)
(* destroys the pool (jfs_pool_wait, jfs_pool_destroy).                    *)
(*                                                                         *)
(* A critical section of pool_mutex is one step.  A worker that sleeps in  *)
(* a condition wait leaves the mutex, and competes for it again when it is *)
(* woken.  The mutex of an operation is held from "perform" to the end of  *)
(* the query, so it is derived from the program counters.                  *)
(***************************************************************************)
EXTENDS Integers, Sequences, FiniteSets

CONSTANTS
  Workers,        \* identities of worker threads
  Ops,            \* database operations, each queued by a request of its own
  NoOp,           \* no operation in hand
  Minimum,        \* pool_minimum
  Maximum,        \* pool_maximum
  Faults          \* what may fail: "nomem", "create", "open"

\* jfs_pool_create refuses min > max and max < 1.  Identities of ended
\* threads are used again, so Maximum of them are enough.
ASSUME PoolAssumption ==
  /\ IsFiniteSet(Workers)
  /\ Minimum \in Nat
  /\ Maximum \in Nat \ {0}
  /\ Minimum <= Maximum
  /\ Maximum <= Cardinality(Workers)
  /\ NoOp \notin Ops
  /\ Faults \subseteq {"nomem", "create", "open"}

VARIABLES
  head,           \* pool_head .. pool_tail: the queued jobs
  active,         \* pool_active: workers that perform a job
  idle,           \* pool_idle
  nthreads,       \* pool_nthreads
  flags,          \* pool_flags, a subset of {"WAIT", "DESTROY"}
  pc,             \* where each worker is
  job,            \* the operation a worker has in hand
  cancelled,      \* workers with a pending pthread_cancel
  orphaned,       \* operations whose mutex died locked with their worker
  done,           \* db_op->done
  client,         \* where the request thread of each operation is
  main,           \* where the main thread is
  asleep          \* the main thread sleeps in a condition wait

vars == <<head, active, idle, nthreads, flags, pc, job, cancelled, orphaned,
          done, client, main, asleep>>

poolVars == <<head, active, idle, nthreads, flags>>
workerVars == <<pc, job, cancelled, orphaned>>
mainVars == <<main, asleep>>

Sleeping == {"wait", "timedwait"}
Counted  == Sleeping \cup {"woken", "timedout"}      \* counted in pool_idle
Busy     == {"taken", "perform", "cleanup", "unwind"} \* linked in pool_active
WorkerPC == {"none", "open", "failed"} \cup Counted \cup Busy

ClientPC == {"new", "queued", "waiting", "woken", "returned"}
MainPC   == {"run", "drain", "drained", "reap", "join", "free", "freed"}

Sleepers == {w \in Workers : pc[w] \in Sleeping}

Init ==
  /\ head = <<>>
  /\ active = {}
  /\ idle = 0
  /\ nthreads = 0
  /\ flags = {}
  /\ pc = [w \in Workers |-> "none"]
  /\ job = [w \in Workers |-> NoOp]
  /\ cancelled = {}
  /\ orphaned = {}
  /\ done = [op \in Ops |-> FALSE]
  /\ client = [op \in Ops |-> "new"]
  /\ main = "run"
  /\ asleep = FALSE

-------------------------------------------------------------------------------
(* The request threads.                                                       *)

\* Requests may still come while the pool is drained (the clients of jfs_pool_test
\* are not joined), but nobody uses a pool once it is being destroyed.
MayQueue == main \in {"run", "drain", "drained"}

\* The new job goes behind pool_tail.
Enqueue_Front(op) == <<op>> \o head                             \* mutant
Enqueue(op) == Append(head, op)

CreateWorker_Uncounted ==                                       \* mutant
  /\ UNCHANGED nthreads
  /\ \E w \in Workers : pc[w] = "none" /\ pc' = [pc EXCEPT ![w] = "open"]

\* create_worker, then ++pool_nthreads.
CreateWorker ==
  /\ nthreads' = nthreads + 1
  /\ \E w \in Workers :
       /\ pc[w] = "none"
       /\ pc' = [pc EXCEPT ![w] = "open"]

SignalWorker_Lost == UNCHANGED pc                              \* mutant

\* pthread_cond_signal(pool_workcv): one sleeper, if there is one.
SignalWorker ==
  IF Sleepers = {}
    THEN UNCHANGED pc
    ELSE \E w \in Sleepers : pc' = [pc EXCEPT ![w] = "woken"]

Queue(op) ==
  /\ client[op] = "new"
  /\ MayQueue
  /\ head' = Enqueue(op)
  /\ client' = [client EXCEPT ![op] = "queued"]
  /\ \/ /\ idle > 0
        /\ SignalWorker
        /\ UNCHANGED nthreads
     \/ /\ idle = 0
        /\ nthreads < Maximum
        /\ CreateWorker
     \/ /\ idle = 0
        /\ nthreads < Maximum => "create" \in Faults
        /\ UNCHANGED <<pc, nthreads>>
  /\ UNCHANGED <<active, idle, flags, job, cancelled, orphaned, done, main, asleep>>

\* No memory for the job.  Every caller of the pool drops the result of
\* jfs_pool_queue and goes on to wait for the operation.
QueueFails(op) ==
  /\ "nomem" \in Faults
  /\ client[op] = "new"
  /\ MayQueue
  /\ client' = [client EXCEPT ![op] = "queued"]
  /\ UNCHANGED <<poolVars, workerVars, done, mainVars>>

\* The mutex of an operation: a worker holds it during the query.
OpLocked(op) ==
  \/ op \in orphaned
  \/ \E w \in Workers : pc[w] = "perform" /\ job[w] = op

\* jfs_db_op_wait: one turn of its loop.
WaitOp(op) ==
  /\ client[op] \in {"queued", "woken"}
  /\ ~OpLocked(op)
  /\ client' = [client EXCEPT ![op] = IF done[op] THEN "returned" ELSE "waiting"]
  /\ UNCHANGED <<poolVars, workerVars, done, mainVars>>

-------------------------------------------------------------------------------
(* The worker threads.                                                        *)

\* What the main thread may be woken by: notify_waiters broadcasts waitcv,
\* worker_cleanup broadcasts busycv.
Broadcast(waitcv, busycv) ==
  /\ flags' = IF waitcv THEN flags \ {"WAIT"} ELSE flags
  /\ asleep' = /\ asleep
               /\ ~(waitcv /\ main \in {"drain", "reap"})
               /\ ~(busycv /\ main = "join")
  /\ UNCHANGED main

AllWorkDone_Linked(act) ==                                      \* mutant
  "WAIT" \in flags /\ head = <<>> /\ active = {}

\* notify_waiters, guarded by POOL_WAIT as at both of its calls.
AllWorkDone(act) == "WAIT" \in flags /\ head = <<>> /\ act = {}

LastLeaves_Early(n) == "DESTROY" \in flags /\ n = 1              \* mutant

\* The last worker of a pool that is being destroyed.
LastLeaves(n) == "DESTROY" \in flags /\ n = 0

SleepKind_Maximum == IF nthreads <= Maximum THEN "wait" ELSE "timedwait" \* mutant

\* Only a worker in excess of pool_minimum lingers.
SleepKind == IF nthreads <= Minimum THEN "wait" ELSE "timedwait"

(* Three things a worker does at the inner loop of worker_thread, where it     *)
(* holds pool_mutex: i workers are counted as idle, itself included, and act   *)
(* is the list of active workers.                                              *)
Sleep(w, i, act) ==
  /\ head = <<>>
  /\ "DESTROY" \notin flags
  /\ pc' = [pc EXCEPT ![w] = SleepKind]
  /\ idle' = i
  /\ active' = act
  /\ UNCHANGED <<head, job, nthreads, cancelled>>

TakeJob_Peek(w, i, act) ==                                      \* mutant
  /\ head # <<>>
  /\ "DESTROY" \notin flags
  /\ pc' = [pc EXCEPT ![w] = "taken"]
  /\ job' = [job EXCEPT ![w] = Head(head)]
  /\ idle' = i - 1
  /\ active' = act \cup {w}
  /\ UNCHANGED <<head, nthreads, cancelled>>

TakeJob(w, i, act) ==
  /\ head # <<>>
  /\ "DESTROY" \notin flags
  /\ pc' = [pc EXCEPT ![w] = "taken"]
  /\ job' = [job EXCEPT ![w] = Head(head)]
  /\ head' = Tail(head)
  /\ idle' = i - 1
  /\ active' = act \cup {w}
  /\ UNCHANGED <<nthreads, cancelled>>

Leave(w, i, act) ==
  /\ pc' = [pc EXCEPT ![w] = "none"]
  /\ idle' = i - 1
  /\ active' = act
  /\ nthreads' = nthreads - 1
  /\ cancelled' = cancelled \ {w}
  /\ UNCHANGED <<head, job>>

Dispatch(w, i, act) ==
  \/ Sleep(w, i, act)
  \/ TakeJob(w, i, act)
  \/ "DESTROY" \in flags /\ Leave(w, i, act)

EnterLoop_NotIdle(w) ==                                         \* mutant
  /\ pc[w] = "open"
  /\ Dispatch(w, idle, active)
  /\ Broadcast(AllWorkDone(active), LastLeaves(nthreads'))
  /\ UNCHANGED <<orphaned, done, client>>

\* jfs_open_db succeeded; the worker locks the pool and enters its main loop.
EnterLoop(w) ==
  /\ pc[w] = "open"
  /\ Dispatch(w, idle + 1, active)
  /\ Broadcast(AllWorkDone(active), LastLeaves(nthreads'))
  /\ UNCHANGED <<orphaned, done, client>>

\* jfs_open_db failed: the thread returns before worker_cleanup is pushed, and
\* stays counted in pool_nthreads.
OpenFails(w) ==
  /\ "open" \in Faults
  /\ pc[w] = "open"
  /\ pc' = [pc EXCEPT ![w] = "failed"]
  /\ UNCHANGED <<poolVars, job, cancelled, orphaned, done, client, mainVars>>

\* A woken worker tests the loop condition again.
Resume(w) ==
  /\ pc[w] = "woken"
  /\ Dispatch(w, idle, active)
  /\ Broadcast(FALSE, LastLeaves(nthreads'))
  /\ UNCHANGED <<orphaned, done, client>>

\* pool_linger seconds have passed: pthread_cond_timedwait gives up.
LingerExpires(w) ==
  /\ pc[w] = "timedwait"
  /\ pc' = [pc EXCEPT ![w] = "timedout"]
  /\ UNCHANGED <<poolVars, job, cancelled, orphaned, done, client, mainVars>>

\* After the timeout the worker has the mutex again: work that arrived in the
\* meantime is taken, an excess worker ends, any other one starts over.
TimedOut(w) ==
  /\ pc[w] = "timedout"
  /\ \/ /\ nthreads > Minimum \/ head # <<>> \/ "DESTROY" \in flags
        /\ \/ TakeJob(w, idle, active)
           \/ /\ head = <<>> \/ "DESTROY" \in flags
              /\ Leave(w, idle, active)
        /\ Broadcast(FALSE, LastLeaves(nthreads'))
     \/ /\ nthreads <= Minimum
        /\ Sleep(w, idle, active)
        /\ Broadcast(AllWorkDone(active), FALSE)
  /\ UNCHANGED <<orphaned, done, client>>

\* pthread_mutex_lock(&db_op->mut), then the query.
Perform(w) ==
  /\ pc[w] = "taken"
  /\ ~OpLocked(job[w])
  /\ pc' = [pc EXCEPT ![w] = "perform"]
  /\ UNCHANGED <<poolVars, job, cancelled, orphaned, done, client, mainVars>>

WakeClient_Lost(op) == client[op]                               \* mutant

\* pthread_cond_signal(&db_op->cond)
WakeClient(op) == IF client[op] = "waiting" THEN "woken" ELSE client[op]

\* The result is stored, the request thread is signalled, the mutex is free.
Complete(w) ==
  /\ pc[w] = "perform"
  /\ pc' = [pc EXCEPT ![w] = "cleanup"]
  /\ job' = [job EXCEPT ![w] = NoOp]
  /\ done' = [done EXCEPT ![job[w]] = TRUE]
  /\ client' = [client EXCEPT ![job[w]] = WakeClient(job[w])]
  /\ UNCHANGED <<poolVars, cancelled, orphaned, mainVars>>

\* job_cleanup, and without leaving the mutex the top of the main loop.
FinishJob(w) ==
  /\ pc[w] = "cleanup"
  /\ Dispatch(w, idle + 1, active \ {w})
  /\ Broadcast(AllWorkDone(active \ {w}), LastLeaves(nthreads'))
  /\ UNCHANGED <<orphaned, done, client>>

\* The cancellation is acted upon inside the query.  Nobody unlocks the mutex of
\* the operation and nobody sets its done flag.
CancelQuery(w) ==
  /\ pc[w] = "perform"
  /\ w \in cancelled
  /\ pc' = [pc EXCEPT ![w] = "unwind"]
  /\ job' = [job EXCEPT ![w] = NoOp]
  /\ orphaned' = orphaned \cup {job[w]}
  /\ UNCHANGED <<poolVars, cancelled, done, client, mainVars>>

\* The cleanup handlers of a cancelled worker: job_cleanup, worker_cleanup.
Unwind(w) ==
  /\ pc[w] = "unwind"
  /\ pc' = [pc EXCEPT ![w] = "none"]
  /\ active' = active \ {w}
  /\ nthreads' = nthreads - 1
  /\ cancelled' = cancelled \ {w}
  /\ Broadcast(AllWorkDone(active \ {w}), LastLeaves(nthreads - 1))
  /\ UNCHANGED <<head, idle, job, orphaned, done, client>>

-------------------------------------------------------------------------------
(* The main thread.                                                           *)

WorkLeft_Queued == head # <<>>                                  \* mutant

\* The loop condition of jfs_pool_wait.
WorkLeft == head # <<>> \/ active # {}

\* jfs_pool_wait: entered, or awake again.
PoolWait ==
  /\ main = "run" \/ (main = "drain" /\ ~asleep)
  /\ IF WorkLeft
       THEN /\ main' = "drain"
            /\ flags' = flags \cup {"WAIT"}
            /\ asleep' = TRUE
       ELSE /\ main' = "drained"
            /\ asleep' = FALSE
            /\ UNCHANGED flags
  /\ UNCHANGED <<head, active, idle, nthreads, workerVars, done, client>>

\* The two loops of jfs_pool_destroy, under flags f: wait until no worker is
\* active, then until there is no worker.
AwaitWorkers(f) ==
  IF active # {}
    THEN /\ main' = "reap"
         /\ flags' = f \cup {"WAIT"}
         /\ asleep' = TRUE
    ELSE /\ main' = IF nthreads # 0 THEN "join" ELSE "free"
         /\ flags' = f
         /\ asleep' = (nthreads # 0)

\* jfs_pool_destroy up to its first sleep: wake the idle workers, cancel the
\* active ones.
Destroy ==
  /\ main \in {"run", "drained"}
  /\ pc' = [w \in Workers |-> IF w \in Sleepers THEN "woken" ELSE pc[w]]
  /\ cancelled' = active
  /\ AwaitWorkers(flags \cup {"DESTROY"})
  /\ UNCHANGED <<head, active, idle, nthreads, job, orphaned, done, client>>

DestroyResume ==
  /\ ~asleep
  /\ \/ main = "reap" /\ AwaitWorkers(flags)
     \/ /\ main = "join"
        /\ main' = IF nthreads # 0 THEN "join" ELSE "free"
        /\ asleep' = (nthreads # 0)
        /\ UNCHANGED flags
  /\ UNCHANGED <<head, active, idle, nthreads, workerVars, done, client>>

\* The jobs that are left are freed, and so is the pool.
Free ==
  /\ main = "free"
  /\ main' = "freed"
  /\ head' = <<>>
  /\ UNCHANGED <<active, idle, nthreads, flags, workerVars, done, client, asleep>>

\* POSIX lets any condition wait return without a signal.
Spurious ==
  \/ /\ \E w \in Sleepers : pc' = [pc EXCEPT ![w] = "woken"]
     /\ UNCHANGED <<client, asleep>>
  \/ /\ \E op \in Ops :
          client[op] = "waiting" /\ client' = [client EXCEPT ![op] = "woken"]
     /\ UNCHANGED <<pc, asleep>>
  \/ /\ asleep
     /\ asleep' = FALSE
     /\ UNCHANGED <<pc, client>>

SpuriousWakeup ==
  /\ Spurious
  /\ UNCHANGED <<poolVars, job, cancelled, orphaned, done, main>>

-------------------------------------------------------------------------------
WorkerStep(w) ==
  \/ EnterLoop(w) \/ OpenFails(w) \/ Resume(w) \/ TimedOut(w)
  \/ Perform(w) \/ Complete(w) \/ FinishJob(w) \/ CancelQuery(w) \/ Unwind(w)

Next ==
  \/ \E op \in Ops : Queue(op) \/ QueueFails(op) \/ WaitOp(op)
  \/ \E w \in Workers : WorkerStep(w) \/ LingerExpires(w)
  \/ PoolWait \/ Destroy \/ DestroyResume \/ Free
  \/ SpuriousWakeup

Spec == Init /\ [][Next]_vars

\* Every thread runs on, the linger clock advances, and a thread that is inside
\* jfs_pool_wait or jfs_pool_destroy goes on.  Nobody has to queue an operation,
\* to start a wait or to stop the pool.  Waits do not go on waking up by themselves
\* for ever, which would restart the linger clock each time.
Fairness ==
  /\ \A w \in Workers : WF_vars(WorkerStep(w)) /\ WF_vars(LingerExpires(w))
  /\ \A op \in Ops : WF_vars(WaitOp(op))
  /\ WF_vars(main = "drain" /\ PoolWait)
  /\ WF_vars(DestroyResume \/ Free)
  /\ <>[][~SpuriousWakeup]_vars

FairSpec == Spec /\ Fairness

-------------------------------------------------------------------------------
(* Properties.                                                                *)

InHand == {job[w] : w \in Workers} \ {NoOp}
Queued == {head[i] : i \in 1..Len(head)}

\* Type invariant: the pool, its threads and its requests are always in one of
\* the situations thr_pool.c names.
TypeOK ==
  /\ head \in Seq(Ops)
  /\ active \subseteq Workers
  /\ idle \in Nat
  /\ nthreads \in Nat
  /\ flags \subseteq {"WAIT", "DESTROY"}
  /\ pc \in [Workers -> WorkerPC]
  /\ job \in [Workers -> Ops \cup {NoOp}]
  /\ cancelled \subseteq Workers
  /\ orphaned \subseteq Ops
  /\ done \in [Ops -> BOOLEAN]
  /\ client \in [Ops -> ClientPC]
  /\ main \in MainPC
  /\ asleep \in BOOLEAN

\* The threads there are: one whose connection did not open has returned.
Threads == {w \in Workers : pc[w] \notin {"none", "failed"}}

\* The counters the pool decides by agree with what its threads really do: pool_idle
\* and pool_active always, pool_nthreads ("current number of worker threads") until a
\* connection does not open.  The thread then returns and stays counted, so that then
\* pool_nthreads may be too large (pool_open_fails shows what comes of it); it is never
\* too small, and the pool never outgrows pool_maximum.
Accounting ==
  /\ active = {w \in Workers : pc[w] \in Busy}
  /\ idle = Cardinality({w \in Workers : pc[w] \in Counted})
  /\ (\A w \in Workers : pc[w] # "failed") => nthreads = Cardinality(Threads)
  /\ Cardinality(Threads) <= nthreads
  /\ nthreads <= Maximum

\* No operation is performed twice or by two workers: what is queued or in a
\* worker's hand is there once and has no result yet, so that a request never
\* returns while a worker may still write to its jfs_db_op.
ExactlyOnce ==
  /\ \A i, j \in 1..Len(head) : head[i] = head[j] => i = j
  /\ \A v, w \in Workers : job[v] = job[w] /\ job[v] # NoOp => v = w
  /\ Queued \cap InHand = {}
  /\ \A op \in Queued \cup InHand : ~done[op] /\ client[op] \notin {"new", "returned"}

\* jfs_pool_destroy frees the pool only when no thread is left that could touch
\* its mutex, its conditions or its job queue.
FreedSafe == main \in {"free", "freed"} => \A w \in Workers : pc[w] = "none"

\* A queued job always has somebody on the way to it: a worker that is starting,
\* awake or busy, and will look at pool_head before it sleeps or ends.  (While
\* threads can be created and connections opened.)
Coming == {"open", "woken", "timedout"} \cup Busy
NoStrandedJob ==
  head # <<>> /\ "DESTROY" \notin flags => \E w \in Workers : pc[w] \in Coming

\* A worker sleeps without a timeout only in a pool that is no larger than
\* pool_minimum, so that no thread in excess can sleep for ever.
UntimedFit == (\E w \in Workers : pc[w] = "wait") => nthreads <= Minimum

\* When jfs_pool_wait returns, every operation accepted before has its result
\* ("let writes propogate" before the write pool is destroyed).
DrainComplete ==
  [][main # "drained" /\ main' = "drained" =>
       \A op \in Ops : client'[op] # "new" => done'[op]]_vars

\* The pool implements the abstract job queue: first in first out, each operation
\* started once, nothing given up or discarded unless the pool is destroyed.
JQ == INSTANCE JobQueue WITH
        submitted <- {op \in Ops : client[op] # "new"},
        pending   <- head,
        running   <- InHand,
        finished  <- {op \in Ops : done[op]},
        stopping  <- "DESTROY" \in flags

ImplementsJobQueue == JQ!Spec

Stopping == "DESTROY" \in flags

\* Every accepted operation is performed and its request thread is woken, unless
\* the pool is destroyed first.
Served ==
  \A op \in Ops : op \in Queued ~> client[op] = "returned" \/ Stopping

\* jfs_pool_wait returns once no more requests come.
Drains == main = "drain" ~> main = "drained"

\* jfs_pool_destroy ends when no job is queued, whatever its workers are doing.
DestroyEnds == Stopping ~> main = "freed" \/ head # <<>>

\* Workers in excess of pool_minimum end after pool_linger without work.
Shrinks == <>[](nthreads <= Minimum)
===============================================================================
