--------------------------- MODULE ThreadPoolProofs ---------------------------
(***************************************************************************)
(* Proofs about the thread pool, for any number of workers and operations  *)
(* and any of the faults: first the counters and what rests on them; then  *)
(* the jobs, of which none is performed twice, none is owed by a drained   *)
(* pool or left without a worker, and that the pool is a JobQueue to its   *)
(* callers.                                                                *)
(***************************************************************************)
EXTENDS ThreadPool, FiniteSetTheorems, TLAPS

\* Workers whose program counter in f is in C.
At(f, C) == {w \in Workers : f[w] \in C}

Live == WorkerPC \ {"none"}

\* Moving one worker changes the number of workers at C by at most one.
LEMMA CountMove ==
  \A f \in [Workers -> WorkerPC], w \in Workers, v \in WorkerPC :
    \A C :
      /\ f[w] \in C => Cardinality(At(f, C)) > 0
      /\ Cardinality(At([f EXCEPT ![w] = v], C)) =
           (Cardinality(At(f, C)) + (IF v \in C THEN 1 ELSE 0))
                                  - (IF f[w] \in C THEN 1 ELSE 0)
<1> TAKE f \in [Workers -> WorkerPC], w \in Workers, v \in WorkerPC
<1> TAKE C
<1> DEFINE g == [f EXCEPT ![w] = v]
           n == Cardinality(At(f, C))
<1>1. IsFiniteSet(Workers)
  BY PoolAssumption
<1>2. At(f, C) \subseteq Workers /\ IsFiniteSet(At(f, C)) /\ n \in Nat
  BY <1>1, FS_Subset, FS_CardinalityType DEF At
<1>3. ASSUME v \in C, f[w] \notin C
      PROVE  Cardinality(At(g, C)) = n + 1
  <2>1. At(g, C) = At(f, C) \cup {w} /\ w \notin At(f, C)
    BY <1>3 DEF At
  <2> QED BY <2>1, <1>2, FS_AddElement
<1>4. ASSUME v \notin C, f[w] \in C
      PROVE  Cardinality(At(g, C)) = n - 1
  <2>1. At(g, C) = At(f, C) \ {w} /\ w \in At(f, C)
    BY <1>4 DEF At
  <2> QED BY <2>1, <1>2, FS_RemoveElement
<1>5. ASSUME v \in C <=> f[w] \in C
      PROVE  Cardinality(At(g, C)) = n
  <2>1. At(g, C) = At(f, C)
    BY <1>5 DEF At
  <2> QED BY <2>1
<1>6. f[w] \in C => n > 0
  <2>1. SUFFICES ASSUME f[w] \in C PROVE n # 0
    BY <1>2
  <2>2. w \in At(f, C)
    BY <2>1 DEF At
  <2> QED BY <2>2, <1>2, FS_EmptySet
<1>7. Cardinality(At(g, C)) =
        (n + (IF v \in C THEN 1 ELSE 0)) - (IF f[w] \in C THEN 1 ELSE 0)
  <2> HIDE DEF g, n
  <2> QED BY <1>2, <1>3, <1>4, <1>5
<1> QED BY <1>2, <1>6, <1>7

-------------------------------------------------------------------------------
(* The books: types, counters, and who has an operation in hand.              *)

HandsOK == \A w \in Workers : job[w] # NoOp <=> pc[w] \in {"taken", "perform"}

\* What pool_nthreads counts: the places given out.  A thread that returned because its
\* connection did not open keeps its own.
Places ==
  /\ active = {w \in Workers : pc[w] \in Busy}
  /\ idle = Cardinality({w \in Workers : pc[w] \in Counted})
  /\ nthreads = Cardinality({w \in Workers : pc[w] # "none"})
  /\ nthreads <= Maximum

Books == TypeOK /\ Places /\ HandsOK

\* What the move of one worker does to the counts of Places.
LEMMA MovePc ==
  ASSUME TypeOK, Places, NEW w \in Workers, NEW v \in WorkerPC,
         pc' = [pc EXCEPT ![w] = v]
  PROVE  /\ pc' \in [Workers -> WorkerPC]
         /\ Cardinality({x \in Workers : pc'[x] \in Counted}) =
              (idle + (IF v \in Counted THEN 1 ELSE 0))
                    - (IF pc[w] \in Counted THEN 1 ELSE 0)
         /\ Cardinality({x \in Workers : pc'[x] # "none"}) =
              (nthreads + (IF v # "none" THEN 1 ELSE 0))
                        - (IF pc[w] # "none" THEN 1 ELSE 0)
         /\ {x \in Workers : pc'[x] \in Busy} =
              (active \ {w}) \cup (IF v \in Busy THEN {w} ELSE {})
         /\ pc[w] \in Counted => idle > 0
         /\ pc[w] # "none" => nthreads > 0
<1>1. pc \in [Workers -> WorkerPC] /\ idle \in Nat /\ nthreads \in Nat
  BY DEF TypeOK
<1>2. /\ idle = Cardinality(At(pc, Counted))
      /\ nthreads = Cardinality(At(pc, Live))
      /\ active = At(pc, Busy)
  <2>1. At(pc, Live) = {x \in Workers : pc[x] # "none"}
    BY <1>1 DEF At, Live
  <2> QED BY <2>1 DEF Places, At
<1>3. pc' \in [Workers -> WorkerPC]
  BY <1>1
<1>4. /\ {x \in Workers : pc'[x] \in Counted} = At(pc', Counted)
      /\ {x \in Workers : pc'[x] # "none"} = At(pc', Live)
  BY <1>3 DEF At, Live
<1>5. v # "none" <=> v \in Live
  BY DEF Live
<1>6. pc[w] # "none" <=> pc[w] \in Live
  BY <1>1 DEF Live
<1>7. {x \in Workers : pc'[x] \in Busy} =
        (active \ {w}) \cup (IF v \in Busy THEN {w} ELSE {})
  BY <1>1, <1>2 DEF At
<1>8. /\ Cardinality(At(pc', Counted)) =
              (idle + (IF v \in Counted THEN 1 ELSE 0))
                    - (IF pc[w] \in Counted THEN 1 ELSE 0)
      /\ pc[w] \in Counted => idle > 0
  <2>1. /\ Cardinality(At([pc EXCEPT ![w] = v], Counted)) =
              (Cardinality(At(pc, Counted)) + (IF v \in Counted THEN 1 ELSE 0))
                    - (IF pc[w] \in Counted THEN 1 ELSE 0)
        /\ pc[w] \in Counted => Cardinality(At(pc, Counted)) > 0
    BY <1>1, CountMove DEF At
  <2> QED BY <2>1, <1>2
<1>9. /\ Cardinality(At(pc', Live)) =
              (nthreads + (IF v \in Live THEN 1 ELSE 0))
                        - (IF pc[w] \in Live THEN 1 ELSE 0)
      /\ pc[w] \in Live => nthreads > 0
  <2>1. /\ Cardinality(At([pc EXCEPT ![w] = v], Live)) =
              (Cardinality(At(pc, Live)) + (IF v \in Live THEN 1 ELSE 0))
                    - (IF pc[w] \in Live THEN 1 ELSE 0)
        /\ pc[w] \in Live => Cardinality(At(pc, Live)) > 0
    BY <1>1, CountMove DEF At
  <2> QED BY <2>1, <1>2
<1> QED BY <1>3, <1>4, <1>5, <1>6, <1>7, <1>8, <1>9

LEMMA BooksInit == Init => Books
<1> SUFFICES ASSUME Init PROVE Books
  OBVIOUS
<1>1. TypeOK
  <2>1. "none" \in WorkerPC /\ "new" \in ClientPC /\ "run" \in MainPC
    BY DEF WorkerPC, ClientPC, MainPC
  <2>2. head \in Seq(Ops) /\ active \subseteq Workers /\ flags \subseteq {"WAIT", "DESTROY"}
    BY DEF Init
  <2>3. pc \in [Workers -> WorkerPC] /\ job \in [Workers -> Ops \cup {NoOp}]
    BY <2>1 DEF Init
  <2>4. done \in [Ops -> BOOLEAN] /\ client \in [Ops -> ClientPC]
    BY <2>1 DEF Init
  <2> QED BY <2>1, <2>2, <2>3, <2>4 DEF Init, TypeOK
<1>2. /\ {w \in Workers : pc[w] \in Busy} = {}
      /\ {w \in Workers : pc[w] \in Counted} = {}
      /\ {w \in Workers : pc[w] # "none"} = {}
  BY DEF Init, Busy, Counted, Sleeping
<1>3. Cardinality({}) = 0 /\ 0 <= Maximum
  BY FS_EmptySet, PoolAssumption
<1>4. Places
  BY <1>2, <1>3 DEF Init, Places
<1>5. HandsOK
  BY DEF Init, HandsOK
<1> QED BY <1>1, <1>4, <1>5 DEF Books

\* MovePc, as the counters have to follow it.
LEMMA MoveCounted ==
  ASSUME TypeOK, Places, NEW w \in Workers, NEW v \in WorkerPC,
         pc' = [pc EXCEPT ![w] = v],
         idle' = (idle + (IF v \in Counted THEN 1 ELSE 0))
                       - (IF pc[w] \in Counted THEN 1 ELSE 0),
         nthreads' = (nthreads + (IF v # "none" THEN 1 ELSE 0))
                               - (IF pc[w] # "none" THEN 1 ELSE 0),
         active' = (active \ {w}) \cup (IF v \in Busy THEN {w} ELSE {}),
         nthreads' <= Maximum
  PROVE  /\ Places'
         /\ pc' \in [Workers -> WorkerPC]
         /\ active' \subseteq Workers
         /\ idle' \in Nat /\ nthreads' \in Nat
<1>1. /\ idle \in Nat /\ nthreads \in Nat /\ active \subseteq Workers
      /\ pc \in [Workers -> WorkerPC]
  BY DEF TypeOK
<1>2. /\ pc[w] \in Counted => idle > 0
      /\ pc[w] # "none" => nthreads > 0
      /\ pc' \in [Workers -> WorkerPC]
  BY MovePc
<1>3. active' = {x \in Workers : pc'[x] \in Busy}
  BY MovePc
<1>4. idle' = Cardinality({x \in Workers : pc'[x] \in Counted})
  BY MovePc
<1>5. nthreads' = Cardinality({x \in Workers : pc'[x] # "none"})
  BY MovePc
<1>6. idle' \in Nat /\ nthreads' \in Nat
  BY <1>1, <1>2
<1> QED BY <1>1, <1>2, <1>3, <1>4, <1>5, <1>6 DEF Places

\* The three things a worker may do at the inner loop: i is the idle count with
\* itself included, act the active workers without it.
LEMMA BooksDispatch ==
  ASSUME Books, NEW w \in Workers, NEW i, NEW act,
         pc[w] \in {"open", "woken", "timedout", "cleanup"},
         i = IF pc[w] \in Counted THEN idle ELSE idle + 1,
         act = active \ {w},
         Sleep(w, i, act) \/ TakeJob(w, i, act) \/ Leave(w, i, act),
         UNCHANGED <<orphaned, done, client, main>>,
         flags' \subseteq flags, asleep' \in BOOLEAN
  PROVE  Books'
<1>1. /\ pc \in [Workers -> WorkerPC] /\ TypeOK /\ Places /\ HandsOK
      /\ job[w] = NoOp /\ pc[w] # "none"
  BY DEF Books, TypeOK, HandsOK
<1>2. /\ "wait" \in Counted /\ "timedwait" \in Counted
      /\ "taken" \notin Counted /\ "none" \notin Counted
      /\ "wait" \notin Busy /\ "timedwait" \notin Busy
      /\ "taken" \in Busy /\ "none" \notin Busy
  BY DEF Counted, Sleeping, Busy
<1>3. {"wait", "timedwait", "taken", "none"} \subseteq WorkerPC
  BY DEF WorkerPC, Counted, Sleeping, Busy
<1>4. idle \in Nat /\ nthreads \in Nat /\ nthreads <= Maximum /\ Maximum \in Nat
  BY <1>1, PoolAssumption DEF TypeOK, Places
<1>5. CASE Sleep(w, i, act)
  <2>1. PICK v \in {"wait", "timedwait"} : pc' = [pc EXCEPT ![w] = v]
    BY <1>5 DEF Sleep, SleepKind
  <2>2. /\ idle' = i /\ active' = act
        /\ UNCHANGED <<head, job, nthreads, cancelled>>
    BY <1>5 DEF Sleep
  <2>3. /\ Places' /\ pc' \in [Workers -> WorkerPC]
        /\ active' \subseteq Workers /\ idle' \in Nat /\ nthreads' \in Nat
    <3>1. idle' = (idle + (IF v \in Counted THEN 1 ELSE 0))
                        - (IF pc[w] \in Counted THEN 1 ELSE 0)
      BY <1>2, <1>4, <2>1, <2>2
    <3>2. nthreads' = (nthreads + (IF v # "none" THEN 1 ELSE 0))
                                - (IF pc[w] # "none" THEN 1 ELSE 0)
      BY <1>1, <1>4, <2>1, <2>2
    <3>3. active' = (active \ {w}) \cup (IF v \in Busy THEN {w} ELSE {})
      BY <1>2, <2>1, <2>2
    <3>4. nthreads' <= Maximum /\ v \in WorkerPC
      BY <1>3, <1>4, <2>1, <2>2
    <3> QED BY <1>1, <2>1, <3>1, <3>2, <3>3, <3>4, MoveCounted
  <2>4. TypeOK'
    BY <1>1, <2>2, <2>3 DEF TypeOK
  <2>5. HandsOK'
    BY <1>1, <2>1, <2>2 DEF HandsOK
  <2> QED BY <2>3, <2>4, <2>5 DEF Books
<1>6. CASE TakeJob(w, i, act)
  <2>1. pc' = [pc EXCEPT ![w] = "taken"]
    BY <1>6 DEF TakeJob
  <2>2. /\ head # <<>> /\ head' = Tail(head)
        /\ job' = [job EXCEPT ![w] = Head(head)]
        /\ idle' = i - 1 /\ active' = act \cup {w}
        /\ UNCHANGED <<nthreads, cancelled>>
    BY <1>6 DEF TakeJob
  <2>3. Head(head) \in Ops /\ Tail(head) \in Seq(Ops)
    BY <1>1, <2>2 DEF TypeOK
  <2>4. /\ Places' /\ pc' \in [Workers -> WorkerPC]
        /\ active' \subseteq Workers /\ idle' \in Nat /\ nthreads' \in Nat
    <3>1. idle' = (idle + (IF "taken" \in Counted THEN 1 ELSE 0))
                        - (IF pc[w] \in Counted THEN 1 ELSE 0)
      BY <1>2, <1>4, <2>1, <2>2
    <3>2. nthreads' = (nthreads + (IF "taken" # "none" THEN 1 ELSE 0))
                                - (IF pc[w] # "none" THEN 1 ELSE 0)
      BY <1>1, <1>4, <2>1, <2>2
    <3>3. active' = (active \ {w}) \cup (IF "taken" \in Busy THEN {w} ELSE {})
      BY <1>2, <2>1, <2>2
    <3>4. nthreads' <= Maximum /\ "taken" \in WorkerPC
      BY <1>3, <1>4, <2>1, <2>2
    <3> QED BY <1>1, <2>1, <3>1, <3>2, <3>3, <3>4, MoveCounted
  <2>5. TypeOK'
    BY <1>1, <2>2, <2>3, <2>4 DEF TypeOK
  <2>6. HandsOK'
    BY <1>1, <2>1, <2>2, <2>3, PoolAssumption DEF HandsOK, TypeOK
  <2> QED BY <2>4, <2>5, <2>6 DEF Books
<1>7. CASE Leave(w, i, act)
  <2>1. pc' = [pc EXCEPT ![w] = "none"]
    BY <1>7 DEF Leave
  <2>2. /\ idle' = i - 1 /\ active' = act /\ nthreads' = nthreads - 1
        /\ cancelled' = cancelled \ {w}
        /\ UNCHANGED <<head, job>>
    BY <1>7 DEF Leave
  <2>3. /\ Places' /\ pc' \in [Workers -> WorkerPC]
        /\ active' \subseteq Workers /\ idle' \in Nat /\ nthreads' \in Nat
    <3>1. idle' = (idle + (IF "none" \in Counted THEN 1 ELSE 0))
                        - (IF pc[w] \in Counted THEN 1 ELSE 0)
      BY <1>2, <1>4, <2>1, <2>2
    <3>2. nthreads' = (nthreads + (IF "none" # "none" THEN 1 ELSE 0))
                                - (IF pc[w] # "none" THEN 1 ELSE 0)
      BY <1>1, <1>4, <2>1, <2>2
    <3>3. active' = (active \ {w}) \cup (IF "none" \in Busy THEN {w} ELSE {})
      BY <1>2, <2>1, <2>2
    <3>4. nthreads' <= Maximum /\ "none" \in WorkerPC
      BY <1>3, <1>4, <2>1, <2>2
    <3> QED BY <1>1, <2>1, <3>1, <3>2, <3>3, <3>4, MoveCounted
  <2>4. TypeOK'
    BY <1>1, <2>2, <2>3 DEF TypeOK
  <2>5. HandsOK'
    BY <1>1, <2>1, <2>2 DEF HandsOK
  <2> QED BY <2>3, <2>4, <2>5 DEF Books
<1> QED BY <1>5, <1>6, <1>7

LEMMA BroadcastEffect ==
  ASSUME TypeOK, NEW a, NEW b, Broadcast(a, b)
  PROVE  flags' \subseteq flags /\ asleep' \in BOOLEAN /\ main' = main
BY DEF Broadcast, TypeOK

\* Steps that leave the counters, the workers and their jobs alone.
LEMMA BooksKept ==
  ASSUME Books, UNCHANGED <<active, idle, nthreads, pc, job>>, TypeOK'
  PROVE  Books'
BY DEF Books, Places, HandsOK

\* Steps that move one worker and do not change whether it is busy or idle.
LEMMA BooksMoved ==
  ASSUME Books, NEW w \in Workers, NEW v \in WorkerPC, pc[w] # "none", v # "none",
         v \in Counted <=> pc[w] \in Counted, v \in Busy <=> pc[w] \in Busy,
         pc' = [pc EXCEPT ![w] = v],
         UNCHANGED <<active, idle, nthreads>>
  PROVE  Places' /\ pc' \in [Workers -> WorkerPC]
<1>1. TypeOK /\ Places /\ idle \in Nat /\ nthreads \in Nat /\ nthreads <= Maximum
  BY DEF Books, TypeOK, Places
<1>2. pc[w] \in Busy <=> w \in active
  BY <1>1 DEF Places
<1>3. active' = (active \ {w}) \cup (IF v \in Busy THEN {w} ELSE {})
  BY <1>2
<1>4. idle' = (idle + (IF v \in Counted THEN 1 ELSE 0))
                    - (IF pc[w] \in Counted THEN 1 ELSE 0)
  BY <1>1
<1>5. nthreads' = (nthreads + (IF v # "none" THEN 1 ELSE 0))
                            - (IF pc[w] # "none" THEN 1 ELSE 0)
  BY <1>1
<1> QED BY <1>1, <1>3, <1>4, <1>5, MoveCounted

LEMMA PcFacts ==
  /\ Counted = {"wait", "timedwait", "woken", "timedout"}
  /\ Busy = {"taken", "perform", "cleanup", "unwind"}
  /\ WorkerPC = {"none", "open", "failed", "wait", "timedwait", "woken", "timedout",
                 "taken", "perform", "cleanup", "unwind"}
BY DEF WorkerPC, Counted, Sleeping, Busy

LEMMA BooksQueue == ASSUME Books, NEW op \in Ops, Queue(op) PROVE Books'
<1>1. /\ TypeOK /\ Places /\ HandsOK
      /\ pc \in [Workers -> WorkerPC] /\ idle \in Nat /\ nthreads \in Nat
  BY DEF Books, TypeOK
<1>2. head' \in Seq(Ops) /\ client' \in [Ops -> ClientPC]
  BY <1>1 DEF Queue, Enqueue, TypeOK, ClientPC
<1>3. UNCHANGED <<active, idle, flags, job, cancelled, orphaned, done, main, asleep>>
  BY DEF Queue
<1>4. ASSUME SignalWorker, UNCHANGED nthreads PROVE Books'
  <2>1. CASE UNCHANGED pc
    BY <1>1, <1>2, <1>3, <1>4, <2>1, BooksKept DEF TypeOK
  <2>2. CASE \E w \in Sleepers : pc' = [pc EXCEPT ![w] = "woken"]
    <3>1. PICK w \in Sleepers : pc' = [pc EXCEPT ![w] = "woken"]
      BY <2>2
    <3>2. w \in Workers /\ pc[w] \in {"wait", "timedwait"}
      BY DEF Sleepers, Sleeping
    <3>3. Places' /\ pc' \in [Workers -> WorkerPC]
      BY <1>3, <1>4, <3>1, <3>2, PcFacts, BooksMoved
    <3>4. TypeOK'
      BY <1>1, <1>2, <1>3, <1>4, <3>3 DEF TypeOK
    <3>5. HandsOK'
      BY <1>1, <1>3, <3>1, <3>2 DEF HandsOK
    <3> QED BY <3>3, <3>4, <3>5 DEF Books
  <2> QED BY <1>4, <2>1, <2>2 DEF SignalWorker
<1>5. ASSUME CreateWorker, nthreads < Maximum PROVE Books'
  <2>1. PICK w \in Workers : pc[w] = "none" /\ pc' = [pc EXCEPT ![w] = "open"]
    BY <1>5 DEF CreateWorker
  <2>2. nthreads' = nthreads + 1 /\ nthreads' <= Maximum
    BY <1>1, <1>5, PoolAssumption DEF CreateWorker
  <2>3. /\ Places' /\ pc' \in [Workers -> WorkerPC]
        /\ active' \subseteq Workers /\ idle' \in Nat /\ nthreads' \in Nat
    <3>1. idle' = (idle + (IF "open" \in Counted THEN 1 ELSE 0))
                        - (IF pc[w] \in Counted THEN 1 ELSE 0)
      BY <1>1, <1>3, <2>1, PcFacts
    <3>2. nthreads' = (nthreads + (IF "open" # "none" THEN 1 ELSE 0))
                                - (IF pc[w] # "none" THEN 1 ELSE 0)
      BY <1>1, <2>1, <2>2
    <3>3. w \notin active
      BY <1>1, <2>1, PcFacts DEF Places
    <3>4. active' = (active \ {w}) \cup (IF "open" \in Busy THEN {w} ELSE {})
      BY <1>3, <3>3, PcFacts
    <3> QED BY <1>1, <2>1, <2>2, <3>1, <3>2, <3>4, PcFacts, MoveCounted
  <2>4. TypeOK'
    BY <1>1, <1>2, <1>3, <2>3 DEF TypeOK
  <2>5. HandsOK'
    BY <1>1, <1>3, <2>1 DEF HandsOK
  <2> QED BY <2>3, <2>4, <2>5 DEF Books
<1>6. ASSUME UNCHANGED <<pc, nthreads>> PROVE Books'
  BY <1>1, <1>2, <1>3, <1>6, BooksKept DEF TypeOK
<1> QED BY <1>4, <1>5, <1>6 DEF Queue

\* The steps of a worker that tests the loop condition of worker_thread.
LEMMA BooksLoop ==
  ASSUME Books, NEW w \in Workers,
         EnterLoop(w) \/ Resume(w) \/ TimedOut(w) \/ FinishJob(w)
  PROVE  Books'
<1>1. TypeOK /\ Places /\ active \subseteq Workers
  BY DEF Books, TypeOK
<1>2. pc[w] \in {"open", "woken", "timedout"} => active \ {w} = active
  BY <1>1, PcFacts DEF Places
<1>3. CASE EnterLoop(w)
  <2>1. /\ pc[w] = "open" /\ pc[w] \notin Counted
        /\ Dispatch(w, idle + 1, active)
        /\ Broadcast(AllWorkDone(active), LastLeaves(nthreads'))
        /\ UNCHANGED <<orphaned, done, client>>
    BY <1>3, PcFacts DEF EnterLoop
  <2>2. flags' \subseteq flags /\ asleep' \in BOOLEAN /\ main' = main
    BY <1>1, <2>1, BroadcastEffect
  <2> QED BY <1>2, <2>1, <2>2, BooksDispatch DEF Dispatch
<1>4. CASE Resume(w)
  <2>1. /\ pc[w] = "woken" /\ pc[w] \in Counted
        /\ Dispatch(w, idle, active)
        /\ Broadcast(FALSE, LastLeaves(nthreads'))
        /\ UNCHANGED <<orphaned, done, client>>
    BY <1>4, PcFacts DEF Resume
  <2>2. flags' \subseteq flags /\ asleep' \in BOOLEAN /\ main' = main
    BY <1>1, <2>1, BroadcastEffect
  <2> QED BY <1>2, <2>1, <2>2, BooksDispatch DEF Dispatch
<1>5. CASE TimedOut(w)
  <2>1. /\ pc[w] = "timedout" /\ pc[w] \in Counted
        /\ Sleep(w, idle, active) \/ TakeJob(w, idle, active) \/ Leave(w, idle, active)
        /\ \E a, b : Broadcast(a, b)
        /\ UNCHANGED <<orphaned, done, client>>
    BY <1>5, PcFacts DEF TimedOut
  <2>2. flags' \subseteq flags /\ asleep' \in BOOLEAN /\ main' = main
    BY <1>1, <2>1, BroadcastEffect
  <2> QED BY <1>2, <2>1, <2>2, BooksDispatch
<1>6. CASE FinishJob(w)
  <2>1. /\ pc[w] = "cleanup" /\ pc[w] \notin Counted
        /\ Dispatch(w, idle + 1, active \ {w})
        /\ Broadcast(AllWorkDone(active \ {w}), LastLeaves(nthreads'))
        /\ UNCHANGED <<orphaned, done, client>>
    BY <1>6, PcFacts DEF FinishJob
  <2>2. flags' \subseteq flags /\ asleep' \in BOOLEAN /\ main' = main
    BY <1>1, <2>1, BroadcastEffect
  <2> QED BY <2>1, <2>2, BooksDispatch DEF Dispatch
<1> QED BY <1>3, <1>4, <1>5, <1>6

\* The other steps of a worker.
LEMMA BooksWorker ==
  ASSUME Books, NEW w \in Workers,
         \/ OpenFails(w) \/ LingerExpires(w) \/ Perform(w)
         \/ Complete(w) \/ CancelQuery(w) \/ Unwind(w)
  PROVE  Books'
<1>1. /\ TypeOK /\ Places /\ HandsOK /\ active \subseteq Workers
      /\ pc \in [Workers -> WorkerPC] /\ idle \in Nat /\ nthreads \in Nat
  BY DEF Books, TypeOK
<1>2. CASE OpenFails(w) \/ LingerExpires(w) \/ Perform(w)
  <2>1. PICK v \in {"failed", "timedout", "perform"} :
          /\ pc' = [pc EXCEPT ![w] = v]
          /\ \/ v = "failed" /\ pc[w] = "open"
             \/ v = "timedout" /\ pc[w] = "timedwait"
             \/ v = "perform" /\ pc[w] = "taken"
          /\ UNCHANGED <<poolVars, job, cancelled, orphaned, done, client, mainVars>>
    BY <1>2 DEF OpenFails, LingerExpires, Perform
  <2>2. UNCHANGED <<head, active, idle, nthreads, flags, job, cancelled, orphaned,
                    done, client, main, asleep>>
    BY <2>1 DEF poolVars, mainVars
  <2>3. Places' /\ pc' \in [Workers -> WorkerPC]
    BY <2>1, <2>2, PcFacts, BooksMoved
  <2>4. TypeOK'
    BY <1>1, <2>2, <2>3 DEF TypeOK
  <2>5. HandsOK'
    BY <1>1, <2>1, <2>2 DEF HandsOK
  <2> QED BY <2>3, <2>4, <2>5 DEF Books
<1>3. CASE Complete(w) \/ CancelQuery(w)
  <2>1. PICK v \in {"cleanup", "unwind"} : pc' = [pc EXCEPT ![w] = v]
    BY <1>3 DEF Complete, CancelQuery
  <2>2. /\ pc[w] = "perform" /\ job' = [job EXCEPT ![w] = NoOp]
        /\ UNCHANGED <<head, active, idle, nthreads, flags, cancelled, main, asleep>>
    BY <1>3 DEF Complete, CancelQuery, poolVars, mainVars
  <2>3. Places' /\ pc' \in [Workers -> WorkerPC]
    BY <2>1, <2>2, PcFacts, BooksMoved
  <2>4. job[w] \in Ops
    BY <1>1, <2>2 DEF HandsOK, TypeOK
  <2>5. /\ orphaned' \subseteq Ops
        /\ done' \in [Ops -> BOOLEAN] /\ client' \in [Ops -> ClientPC]
    <3>1. CASE Complete(w)
      BY <1>1, <2>4, <3>1 DEF Complete, TypeOK, WakeClient, ClientPC
    <3>2. CASE CancelQuery(w)
      BY <1>1, <2>4, <3>2 DEF CancelQuery, TypeOK
    <3> QED BY <1>3, <3>1, <3>2
  <2>6. TypeOK'
    BY <1>1, <2>2, <2>3, <2>5 DEF TypeOK
  <2>7. HandsOK'
    BY <1>1, <2>1, <2>2 DEF HandsOK, TypeOK
  <2> QED BY <2>3, <2>6, <2>7 DEF Books
<1>4. CASE Unwind(w)
  <2>1. /\ pc[w] = "unwind" /\ pc' = [pc EXCEPT ![w] = "none"]
        /\ active' = active \ {w} /\ nthreads' = nthreads - 1
        /\ cancelled' = cancelled \ {w}
        /\ UNCHANGED <<head, idle, job, orphaned, done, client>>
    BY <1>4 DEF Unwind
  <2>2. flags' \subseteq flags /\ asleep' \in BOOLEAN /\ main' = main
    BY <1>1, <1>4, BroadcastEffect DEF Unwind
  <2>3. nthreads' <= Maximum
    BY <1>1, <2>1, PoolAssumption DEF Places
  <2>4. /\ Places' /\ pc' \in [Workers -> WorkerPC]
        /\ active' \subseteq Workers /\ idle' \in Nat /\ nthreads' \in Nat
    <3>1. idle' = (idle + (IF "none" \in Counted THEN 1 ELSE 0))
                        - (IF pc[w] \in Counted THEN 1 ELSE 0)
      BY <1>1, <2>1, PcFacts
    <3>2. nthreads' = (nthreads + (IF "none" # "none" THEN 1 ELSE 0))
                                - (IF pc[w] # "none" THEN 1 ELSE 0)
      BY <1>1, <2>1
    <3>3. active' = (active \ {w}) \cup (IF "none" \in Busy THEN {w} ELSE {})
      BY <2>1, PcFacts
    <3> QED BY <1>1, <2>1, <2>3, <3>1, <3>2, <3>3, PcFacts, MoveCounted
  <2>5. TypeOK'
    BY <1>1, <2>1, <2>2, <2>4 DEF TypeOK
  <2>6. HandsOK'
    BY <1>1, <2>1 DEF HandsOK
  <2> QED BY <2>4, <2>5, <2>6 DEF Books
<1> QED BY <1>2, <1>3, <1>4

\* The steps of the main thread.
LEMMA BooksMain ==
  ASSUME Books, PoolWait \/ Destroy \/ DestroyResume \/ Free
  PROVE  Books'
<1>1. /\ TypeOK /\ Places /\ HandsOK
      /\ pc \in [Workers -> WorkerPC] /\ idle \in Nat /\ nthreads \in Nat
  BY DEF Books, TypeOK
<1>2. CASE PoolWait
  BY <1>1, <1>2, BooksKept DEF PoolWait, TypeOK, MainPC, workerVars
<1>3. ASSUME NEW f, f \subseteq {"WAIT", "DESTROY"}, AwaitWorkers(f)
      PROVE  flags' \subseteq {"WAIT", "DESTROY"} /\ main' \in MainPC /\ asleep' \in BOOLEAN
  BY <1>1, <1>3 DEF AwaitWorkers, MainPC
<1>4. CASE Destroy
  <2>1. /\ pc' = [w \in Workers |-> IF w \in Sleepers THEN "woken" ELSE pc[w]]
        /\ cancelled' = active
        /\ AwaitWorkers(flags \cup {"DESTROY"})
        /\ UNCHANGED <<head, active, idle, nthreads, job, orphaned, done, client>>
    BY <1>4 DEF Destroy
  <2>2. \A w \in Workers :
          \/ pc'[w] = pc[w]
          \/ pc[w] \in {"wait", "timedwait"} /\ pc'[w] = "woken"
    BY <2>1 DEF Sleepers, Sleeping
  <2>3. pc' \in [Workers -> WorkerPC]
    BY <1>1, <2>1, PcFacts
  <2>4. /\ {w \in Workers : pc'[w] \in Busy} = {w \in Workers : pc[w] \in Busy}
        /\ {w \in Workers : pc'[w] \in Counted} = {w \in Workers : pc[w] \in Counted}
        /\ {w \in Workers : pc'[w] # "none"} = {w \in Workers : pc[w] # "none"}
    BY <2>2, PcFacts
  <2>5. Places'
    BY <1>1, <2>1, <2>4 DEF Places
  <2>6. TypeOK'
    BY <1>1, <1>3, <2>1, <2>3 DEF TypeOK
  <2>7. HandsOK'
    BY <1>1, <2>1, <2>2 DEF HandsOK
  <2> QED BY <2>5, <2>6, <2>7 DEF Books
<1>5. CASE DestroyResume
  <2>1. /\ flags' \subseteq {"WAIT", "DESTROY"} /\ main' \in MainPC
        /\ asleep' \in BOOLEAN
    BY <1>1, <1>3, <1>5 DEF DestroyResume, TypeOK, MainPC
  <2>2. UNCHANGED <<head, active, idle, nthreads, pc, job, cancelled, orphaned,
                    done, client>>
    BY <1>5 DEF DestroyResume, workerVars
  <2> QED BY <1>1, <2>1, <2>2, BooksKept DEF TypeOK
<1>6. CASE Free
  <2>1. head' = <<>> /\ head' \in Seq(Ops) /\ main' \in MainPC
    BY <1>6 DEF Free, MainPC
  <2> QED BY <1>1, <1>6, <2>1, BooksKept DEF Free, TypeOK, workerVars
<1> QED BY <1>2, <1>4, <1>5, <1>6

LEMMA BooksStep == Books /\ [Next]_vars => Books'
<1> SUFFICES ASSUME Books, [Next]_vars PROVE Books'
  OBVIOUS
<1>1. TypeOK
  BY DEF Books
<1>2. ASSUME NEW op \in Ops, QueueFails(op) \/ WaitOp(op) PROVE Books'
  <2>1. UNCHANGED <<poolVars, workerVars, done, mainVars>> /\ client' \in [Ops -> ClientPC]
    BY <1>1, <1>2 DEF QueueFails, WaitOp, TypeOK, ClientPC
  <2> QED BY <1>1, <2>1, BooksKept DEF TypeOK, poolVars, workerVars, mainVars
<1>3. ASSUME SpuriousWakeup PROVE Books'
  <2>1. UNCHANGED <<poolVars, job, cancelled, orphaned, done, main>>
    BY <1>3 DEF SpuriousWakeup
  <2>2. ASSUME NEW w \in Sleepers, pc' = [pc EXCEPT ![w] = "woken"],
               UNCHANGED <<client, asleep>>
        PROVE  Books'
    <3>1. w \in Workers /\ pc[w] \in {"wait", "timedwait"}
      BY DEF Sleepers, Sleeping
    <3>2. UNCHANGED <<head, active, idle, nthreads, flags>>
      BY <2>1 DEF poolVars
    <3>3. Places' /\ pc' \in [Workers -> WorkerPC]
      BY <2>2, <3>1, <3>2, PcFacts, BooksMoved
    <3>4. TypeOK'
      BY <1>1, <2>1, <2>2, <3>2, <3>3 DEF TypeOK
    <3>5. HandsOK'
      BY <2>1, <2>2, <3>1, <1>1 DEF Books, HandsOK, TypeOK
    <3> QED BY <3>3, <3>4, <3>5 DEF Books
  <2>3. ASSUME UNCHANGED pc, client' \in [Ops -> ClientPC], asleep' \in BOOLEAN
        PROVE  Books'
    BY <1>1, <2>1, <2>3, BooksKept DEF poolVars, TypeOK
  <2>4. /\ client \in [Ops -> ClientPC] /\ asleep \in BOOLEAN
        /\ "woken" \in ClientPC
    BY <1>1 DEF TypeOK, ClientPC
  <2> QED BY <1>3, <2>2, <2>3, <2>4 DEF SpuriousWakeup, Spurious
<1>4. CASE UNCHANGED vars
  BY <1>1, <1>4, BooksKept DEF vars, TypeOK
<1> QED
  BY <1>2, <1>3, <1>4, BooksQueue, BooksLoop, BooksWorker, BooksMain
     DEF Next, WorkerStep

\* Type correctness of the pool (thr_pool.c), for any size and any faults.
THEOREM TypeCorrect == Spec => []TypeOK
<1>1. Books => TypeOK
  BY DEF Books
<1> QED BY <1>1, BooksInit, BooksStep, PTL DEF Spec

\* The places are the threads as long as every connection opened, and no fewer ever.
LEMMA PlacesHeld == Books => Accounting
<1> SUFFICES ASSUME Books PROVE Accounting
  OBVIOUS
<1> DEFINE places == {w \in Workers : pc[w] # "none"}
<1>1. Places /\ IsFiniteSet(places) /\ Threads \subseteq places
  BY PoolAssumption, FS_Subset DEF Books, Threads
<1>2. Cardinality(Threads) <= Cardinality(places)
  BY <1>1, FS_Subset
<1>3. (\A w \in Workers : pc[w] # "failed") => Threads = places
  BY DEF Threads
<1> QED BY <1>1, <1>2, <1>3 DEF Places, Accounting

\* pool_idle and pool_active always agree with what the threads do, pool_nthreads until a
\* connection does not open; it never falls below their number nor exceeds pool_maximum.
THEOREM AccountingHolds == Spec => []Accounting
BY PlacesHeld, BooksInit, BooksStep, PTL DEF Spec

-------------------------------------------------------------------------------
(* The pool is freed when nobody is left, and nobody sleeps too long.         *)

\* With no thread counted there is no thread.
LEMMA NobodyLeft ==
  ASSUME Books, nthreads = 0, NEW w \in Workers
  PROVE  pc[w] = "none"
<1>1. TypeOK /\ Places /\ pc \in [Workers -> WorkerPC]
  BY DEF Books, TypeOK
<1>2. {x \in Workers : pc[x] # "none"} = {}
  <2>1. IsFiniteSet({x \in Workers : pc[x] # "none"})
    BY PoolAssumption, FS_Subset
  <2> QED BY <1>1, <2>1, FS_EmptySet DEF Places
<1> QED BY <1>2

\* A worker that takes a step is counted.
LEMMA WorkerCounted ==
  ASSUME Books, NEW w \in Workers, pc[w] # "none"
  PROVE  nthreads > 0
<1>1. nthreads \in Nat
  BY DEF Books, TypeOK
<1> QED BY <1>1, NobodyLeft

\* The pool is freed by the step that finds pool_nthreads = 0, and stays empty.
Emptied == main \in {"free", "freed"} => nthreads = 0

LEMMA EmptiedStep == Books /\ Emptied /\ [Next]_vars => Emptied'
<1> SUFFICES ASSUME Books, Emptied, [Next]_vars PROVE Emptied'
  OBVIOUS
<1>1. ASSUME NEW w \in Workers, WorkerStep(w) \/ LingerExpires(w) PROVE Emptied'
  <2>1. pc[w] # "none" /\ main' = main
    BY <1>1 DEF WorkerStep, EnterLoop, OpenFails, Resume, TimedOut, Perform, Complete,
       FinishJob, CancelQuery, Unwind, LingerExpires, Broadcast, mainVars
  <2> QED BY <2>1, WorkerCounted DEF Emptied
<1>2. ASSUME NEW op \in Ops, Queue(op) \/ QueueFails(op) \/ WaitOp(op) PROVE Emptied'
  BY <1>2 DEF Queue, QueueFails, WaitOp, MayQueue, mainVars, poolVars, Emptied
<1>3. ASSUME PoolWait \/ Destroy \/ DestroyResume \/ Free PROVE Emptied'
  BY <1>3 DEF PoolWait, Destroy, DestroyResume, Free, AwaitWorkers, Emptied
<1>4. ASSUME SpuriousWakeup \/ UNCHANGED vars PROVE Emptied'
  BY <1>4 DEF SpuriousWakeup, poolVars, vars, Emptied
<1> QED BY <1>1, <1>2, <1>3, <1>4 DEF Next

\* jfs_pool_destroy frees the pool only when every worker thread has ended.
THEOREM FreedSafely == Spec => []FreedSafe
<1>1. Init => Emptied
  BY DEF Init, Emptied
<1>2. Books /\ Emptied => FreedSafe
  BY NobodyLeft DEF Emptied, FreedSafe
<1> QED BY <1>1, <1>2, BooksInit, BooksStep, EmptiedStep, PTL DEF Spec

\* A worker that waits without a timeout is counted as idle.
LEMMA WaiterIdle ==
  ASSUME Books, NEW w \in Workers, pc[w] \in Counted
  PROVE  idle > 0
<1>1. TypeOK /\ Places /\ idle \in Nat
  BY DEF Books, TypeOK
<1>2. IsFiniteSet({x \in Workers : pc[x] \in Counted})
  BY PoolAssumption, FS_Subset
<1> QED BY <1>1, <1>2, FS_EmptySet DEF Places

LEMMA UntimedStep == Books /\ UntimedFit /\ [Next]_vars => UntimedFit'
<1> SUFFICES ASSUME Books, UntimedFit, [Next]_vars PROVE UntimedFit'
  OBVIOUS
<1>1. TypeOK /\ pc \in [Workers -> WorkerPC] /\ nthreads \in Nat /\ Minimum \in Nat
  BY PoolAssumption DEF Books, TypeOK
<1>2. ASSUME NEW w \in Workers, NEW i, NEW act, Dispatch(w, i, act) \/ Leave(w, i, act)
      PROVE  UntimedFit'
  <2>1. CASE Sleep(w, i, act)
    BY <1>1, <2>1 DEF Sleep, SleepKind, UntimedFit
  <2>2. CASE TakeJob(w, i, act)
    BY <1>1, <2>2 DEF TakeJob, UntimedFit
  <2>3. CASE Leave(w, i, act)
    BY <1>1, <2>3 DEF Leave, UntimedFit
  <2> QED BY <1>2, <2>1, <2>2, <2>3 DEF Dispatch
<1>3. ASSUME NEW w \in Workers, WorkerStep(w) \/ LingerExpires(w) PROVE UntimedFit'
  <2>1. CASE EnterLoop(w) \/ Resume(w) \/ TimedOut(w) \/ FinishJob(w)
    BY <1>2, <2>1 DEF EnterLoop, Resume, TimedOut, FinishJob, Dispatch
  <2>2. CASE \/ OpenFails(w) \/ LingerExpires(w) \/ Perform(w)
             \/ Complete(w) \/ CancelQuery(w)
    BY <1>1, <2>2 DEF OpenFails, LingerExpires, Perform, Complete, CancelQuery,
       poolVars, UntimedFit
  <2>3. CASE Unwind(w)
    BY <1>1, <2>3 DEF Unwind, UntimedFit
  <2> QED BY <1>3, <2>1, <2>2, <2>3 DEF WorkerStep
<1>4. ASSUME NEW op \in Ops, Queue(op) PROVE UntimedFit'
  <2>1. CASE SignalWorker /\ UNCHANGED nthreads
    BY <1>1, <2>1 DEF SignalWorker, UntimedFit
  <2>2. CASE idle = 0 /\ CreateWorker
    <3>1. \A w \in Workers : pc[w] # "wait"
      BY <2>2, WaiterIdle, PcFacts
    <3> QED BY <1>1, <2>2, <3>1 DEF CreateWorker, UntimedFit
  <2>3. CASE UNCHANGED <<pc, nthreads>>
    BY <2>3 DEF UntimedFit
  <2> QED BY <1>4, <2>1, <2>2, <2>3 DEF Queue
<1>5. ASSUME NEW op \in Ops, QueueFails(op) \/ WaitOp(op) PROVE UntimedFit'
  BY <1>5 DEF QueueFails, WaitOp, poolVars, workerVars, UntimedFit
<1>6. ASSUME PoolWait \/ DestroyResume \/ Free \/ UNCHANGED vars PROVE UntimedFit'
  BY <1>6 DEF PoolWait, DestroyResume, Free, workerVars, vars, UntimedFit
<1>7. ASSUME Destroy PROVE UntimedFit'
  BY <1>1, <1>7 DEF Destroy, Sleepers, Sleeping, UntimedFit
<1>8. ASSUME SpuriousWakeup PROVE UntimedFit'
  BY <1>1, <1>8 DEF SpuriousWakeup, Spurious, poolVars, UntimedFit
<1> QED BY <1>3, <1>4, <1>5, <1>6, <1>7, <1>8 DEF Next

\* No worker in excess of pool_minimum ever waits without the linger timeout.
THEOREM UntimedFits == Spec => []UntimedFit
<1>1. Init => UntimedFit
  BY DEF Init, UntimedFit
<1> QED BY <1>1, BooksInit, BooksStep, UntimedStep, PTL DEF Spec

-------------------------------------------------------------------------------
(* Only a pool that is being destroyed cancels.                               *)

StopAgrees ==
  /\ main \in {"run", "drain", "drained"} <=> ~Stopping
  /\ cancelled # {} => Stopping
  /\ \A w \in Workers : pc[w] = "unwind" => Stopping

\* Steps that neither begin to stop the pool nor unwind a worker.
LEMMA StopKept ==
  ASSUME StopAgrees, main' = main, Stopping' <=> Stopping, cancelled' \subseteq cancelled,
         \A w \in Workers : pc'[w] = "unwind" => pc[w] = "unwind"
  PROVE  StopAgrees'
BY DEF StopAgrees

LEMMA StopDispatch ==
  ASSUME Books, StopAgrees, NEW w \in Workers, NEW i, NEW act,
         Sleep(w, i, act) \/ TakeJob(w, i, act) \/ Leave(w, i, act),
         NEW a, NEW b, Broadcast(a, b)
  PROVE  StopAgrees'
<1>1. pc \in [Workers -> WorkerPC]
  BY DEF Books, TypeOK
<1>2. main' = main /\ (Stopping' <=> Stopping)
  BY DEF Broadcast, Stopping
<1>3. cancelled' \subseteq cancelled
  BY DEF Sleep, TakeJob, Leave
<1>4. \A v \in Workers : pc'[v] = "unwind" => pc[v] = "unwind"
  BY <1>1 DEF Sleep, SleepKind, TakeJob, Leave
<1> QED BY <1>2, <1>3, <1>4, StopKept

LEMMA StopStep == Books /\ StopAgrees /\ [Next]_vars => StopAgrees'
<1> SUFFICES ASSUME Books, StopAgrees, [Next]_vars PROVE StopAgrees'
  OBVIOUS
<1>1. /\ TypeOK /\ pc \in [Workers -> WorkerPC] /\ flags \subseteq {"WAIT", "DESTROY"}
      /\ main \in MainPC
  BY DEF Books, TypeOK
<1>2. ASSUME NEW w \in Workers, EnterLoop(w) \/ Resume(w) \/ TimedOut(w) \/ FinishJob(w)
      PROVE  StopAgrees'
  BY <1>2, StopDispatch DEF EnterLoop, Resume, TimedOut, FinishJob, Dispatch
<1>3. ASSUME NEW w \in Workers,
             OpenFails(w) \/ LingerExpires(w) \/ Perform(w) \/ Complete(w)
      PROVE  StopAgrees'
  BY <1>1, <1>3, StopKept DEF OpenFails, LingerExpires, Perform, Complete, poolVars, mainVars,
                              Stopping
<1>4. ASSUME NEW w \in Workers, CancelQuery(w) PROVE StopAgrees'
  <2>1. /\ Stopping /\ pc' = [pc EXCEPT ![w] = "unwind"]
        /\ UNCHANGED <<cancelled, flags, main>>
    BY <1>4 DEF CancelQuery, StopAgrees, poolVars, mainVars
  <2> QED BY <1>1, <2>1 DEF StopAgrees, Stopping
<1>5. ASSUME NEW w \in Workers, Unwind(w) PROVE StopAgrees'
  BY <1>1, <1>5, StopKept DEF Unwind, Broadcast, Stopping
<1>6. ASSUME NEW op \in Ops, Queue(op) PROVE StopAgrees'
  BY <1>1, <1>6, StopKept DEF Queue, SignalWorker, CreateWorker, Stopping
<1>7. ASSUME NEW op \in Ops, QueueFails(op) \/ WaitOp(op) PROVE StopAgrees'
  BY <1>7, StopKept DEF QueueFails, WaitOp, poolVars, workerVars, mainVars, Stopping
<1>8. CASE PoolWait \/ Free
  BY <1>8 DEF PoolWait, Free, workerVars, StopAgrees, Stopping
<1>9. CASE Destroy
  BY <1>1, <1>9 DEF Destroy, AwaitWorkers, StopAgrees, Stopping
<1>10. CASE DestroyResume
  BY <1>10 DEF DestroyResume, AwaitWorkers, workerVars, StopAgrees, Stopping
<1>11. CASE SpuriousWakeup
  BY <1>1, <1>11, StopKept DEF SpuriousWakeup, Spurious, poolVars, Stopping
<1>12. CASE UNCHANGED vars
  BY <1>12 DEF vars, StopAgrees, Stopping
<1> QED BY <1>2, <1>3, <1>4, <1>5, <1>6, <1>7, <1>8, <1>9, <1>10, <1>11, <1>12
        DEF Next, WorkerStep

-------------------------------------------------------------------------------
(* What a step may do to the jobs.                                            *)

\* Handed over, and queued or not.
Submits(op) ==
  /\ client[op] = "new" /\ client' = [client EXCEPT ![op] = "queued"]
  /\ head' = Append(head, op) \/ (head' = head /\ "nomem" \in Faults)
  /\ UNCHANGED <<job, done, Stopping>>

Takes(w) ==
  /\ head # <<>> /\ job[w] = NoOp /\ ~Stopping
  /\ job' = [job EXCEPT ![w] = Head(head)] /\ head' = Tail(head)
  /\ UNCHANGED <<client, done, Stopping>>

Completes(w) ==
  /\ job[w] \in Ops
  /\ job' = [job EXCEPT ![w] = NoOp]
  /\ done' = [done EXCEPT ![job[w]] = TRUE]
  /\ client' = [client EXCEPT ![job[w]] = WakeClient(job[w])]
  /\ UNCHANGED <<head, Stopping>>

Cancels(w) ==
  /\ job[w] \in Ops /\ Stopping
  /\ job' = [job EXCEPT ![w] = NoOp]
  /\ UNCHANGED <<head, done, client, Stopping>>

\* The request thread of an operation sleeps, wakes or returns.
Waits(op) ==
  /\ client[op] \in {"queued", "waiting", "woken"}
  /\ \/ client' = [client EXCEPT ![op] = "returned"] /\ done[op]
     \/ \E c \in {"waiting", "woken"} : client' = [client EXCEPT ![op] = c]
  /\ UNCHANGED <<head, job, done, Stopping>>

Discards ==
  /\ Stopping /\ head' = <<>> /\ \A w \in Workers : job[w] = NoOp
  /\ UNCHANGED <<job, done, client, Stopping>>

\* The jobs stay as they are, and at most the pool begins to stop.
Others == (Stopping => Stopping') /\ UNCHANGED <<head, job, done, client>>

Effect ==
  \/ \E op \in Ops : Submits(op) \/ Waits(op)
  \/ \E w \in Workers : Takes(w) \/ Completes(w) \/ Cancels(w)
  \/ Discards
  \/ Others

LEMMA EffectDispatch ==
  ASSUME Books, NEW w \in Workers, NEW i, NEW act, pc[w] \notin {"taken", "perform"},
         Sleep(w, i, act) \/ TakeJob(w, i, act) \/ Leave(w, i, act),
         TakeJob(w, i, act) => ~Stopping,
         NEW a, NEW b, Broadcast(a, b), UNCHANGED <<done, client>>
  PROVE  Effect
<1>1. job[w] = NoOp
  BY DEF Books, HandsOK
<1>2. Stopping' <=> Stopping
  BY DEF Broadcast, Stopping
<1>3. CASE TakeJob(w, i, act)
  <2>1. Takes(w)
    BY <1>1, <1>2, <1>3 DEF TakeJob, Takes, Stopping
  <2> QED BY <2>1 DEF Effect
<1>4. CASE Sleep(w, i, act) \/ Leave(w, i, act)
  <2>1. Others
    BY <1>2, <1>4 DEF Sleep, Leave, Others
  <2> QED BY <2>1 DEF Effect
<1> QED BY <1>3, <1>4

\* Every step of the pool has one of these effects.
LEMMA StepEffect == Books /\ StopAgrees /\ Emptied /\ [Next]_vars => Effect
<1> SUFFICES ASSUME Books, StopAgrees, Emptied, [Next]_vars PROVE Effect
  OBVIOUS
<1>1. TypeOK /\ HandsOK
  BY DEF Books
<1>2. ASSUME NEW w \in Workers, EnterLoop(w) \/ Resume(w) \/ TimedOut(w) \/ FinishJob(w)
      PROVE  Effect
  <2>1. pc[w] \notin {"taken", "perform"} /\ UNCHANGED <<done, client>>
    BY <1>2 DEF EnterLoop, Resume, TimedOut, FinishJob
  <2>2. /\ \E i, act : /\ Sleep(w, i, act) \/ TakeJob(w, i, act) \/ Leave(w, i, act)
                       /\ TakeJob(w, i, act) => ~Stopping
        /\ \E a, b : Broadcast(a, b)
    BY <1>2 DEF EnterLoop, Resume, TimedOut, FinishJob, Dispatch, TakeJob, Stopping
  <2> QED BY <2>1, <2>2, EffectDispatch
<1>3. ASSUME NEW w \in Workers, OpenFails(w) \/ LingerExpires(w) \/ Perform(w) PROVE Effect
  <2>1. Others
    BY <1>3 DEF OpenFails, LingerExpires, Perform, poolVars, Others, Stopping
  <2> QED BY <2>1 DEF Effect
<1>4. ASSUME NEW w \in Workers, Complete(w) PROVE Effect
  <2>1. job[w] \in Ops
    BY <1>1, <1>4 DEF Complete, HandsOK, TypeOK
  <2>2. Completes(w)
    BY <1>4, <2>1 DEF Complete, Completes, poolVars, Stopping
  <2> QED BY <2>2 DEF Effect
<1>5. ASSUME NEW w \in Workers, CancelQuery(w) PROVE Effect
  <2>1. job[w] \in Ops /\ Stopping
    BY <1>1, <1>5 DEF CancelQuery, HandsOK, TypeOK, StopAgrees
  <2>2. Cancels(w)
    BY <1>5, <2>1 DEF CancelQuery, Cancels, poolVars, Stopping
  <2> QED BY <2>2 DEF Effect
<1>6. ASSUME NEW w \in Workers, Unwind(w) PROVE Effect
  <2>1. Others
    BY <1>6 DEF Unwind, Broadcast, Others, Stopping
  <2> QED BY <2>1 DEF Effect
<1>7. ASSUME NEW op \in Ops, Queue(op) \/ QueueFails(op) PROVE Effect
  <2>1. CASE Queue(op)
    <3>1. head' = Append(head, op) /\ UNCHANGED <<flags, job, done>>
      BY <2>1 DEF Queue, Enqueue
    <3>2. client[op] = "new" /\ client' = [client EXCEPT ![op] = "queued"]
      BY <2>1 DEF Queue
    <3>3. Submits(op)
      BY <3>1, <3>2 DEF Submits, Stopping
    <3> QED BY <3>3 DEF Effect
  <2>2. CASE QueueFails(op)
    <3>1. Submits(op)
      BY <2>2 DEF QueueFails, Submits, poolVars, workerVars, Stopping
    <3> QED BY <3>1 DEF Effect
  <2> QED BY <1>7, <2>1, <2>2
<1>8. ASSUME NEW op \in Ops, WaitOp(op) PROVE Effect
  <2>1. Waits(op)
    BY <1>8 DEF WaitOp, Waits, poolVars, workerVars, Stopping
  <2> QED BY <2>1 DEF Effect
<1>9. CASE PoolWait \/ Destroy \/ DestroyResume
  <2>1. Others
    BY <1>9 DEF PoolWait, Destroy, DestroyResume, AwaitWorkers, workerVars, Others, Stopping
  <2> QED BY <2>1 DEF Effect
<1>10. CASE Free
  <2>1. \A w \in Workers : job[w] = NoOp
    <3>1. nthreads = 0
      BY <1>10 DEF Free, Emptied
    <3>2. \A w \in Workers : pc[w] = "none"
      BY <3>1, NobodyLeft
    <3> QED BY <1>1, <3>2 DEF HandsOK
  <2>2. Discards
    BY <1>10, <2>1 DEF Free, Discards, StopAgrees, workerVars, Stopping
  <2> QED BY <2>2 DEF Effect
<1>11. CASE SpuriousWakeup
  <2>1. UNCHANGED <<head, job, done, Stopping>>
    BY <1>11 DEF SpuriousWakeup, poolVars, Stopping
  <2>2. ASSUME UNCHANGED client PROVE Effect
    BY <2>1, <2>2 DEF Effect, Others
  <2>3. ASSUME NEW op \in Ops, client[op] = "waiting", client' = [client EXCEPT ![op] = "woken"]
        PROVE  Effect
    <3>1. Waits(op)
      BY <2>1, <2>3 DEF Waits
    <3> QED BY <3>1 DEF Effect
  <2> QED BY <1>11, <2>2, <2>3 DEF SpuriousWakeup, Spurious
<1>12. CASE UNCHANGED vars
  <2>1. Others
    BY <1>12 DEF vars, Others, Stopping
  <2> QED BY <2>1 DEF Effect
<1> QED BY <1>2, <1>3, <1>4, <1>5, <1>6, <1>7, <1>8, <1>9, <1>10, <1>11, <1>12
        DEF Next, WorkerStep

-------------------------------------------------------------------------------
(* No operation is performed twice.                                           *)

LEMMA QueuedAt ==
  ASSUME head \in Seq(Ops)
  PROVE  /\ \A i \in 1..Len(head) : head[i] \in Queued
         /\ \A op \in Queued : op \in Ops /\ \E i \in 1..Len(head) : head[i] = op
         /\ \A w \in Workers : job[w] # NoOp => job[w] \in InHand
         /\ \A op \in InHand : op # NoOp /\ \E w \in Workers : job[w] = op
BY DEF Queued, InHand

\* How the queue and the hands change.
LEMMA QueueGrows ==
  ASSUME head \in Seq(Ops), NEW op \in Ops, head' = Append(head, op)
  PROVE  Queued' = Queued \cup {op}
<1>1. /\ Len(head) \in Nat /\ Len(head') = Len(head) + 1
      /\ \A i \in 1..Len(head) : head'[i] = head[i]
      /\ head'[Len(head) + 1] = op
  OBVIOUS
<1> QED BY <1>1 DEF Queued

LEMMA QueueShrinks ==
  ASSUME head \in Seq(Ops), head # <<>>, head' = Tail(head)
  PROVE  /\ Queued = Queued' \cup {Head(head)}
         /\ Len(head') = Len(head) - 1
         /\ \A i \in 1..Len(head') : head'[i] = head[i + 1]
<1>1. /\ Len(head) \in Nat \ {0} /\ Len(head') = Len(head) - 1
      /\ \A i \in 1..Len(head') : head'[i] = head[i + 1]
      /\ Head(head) = head[1]
  OBVIOUS
<1>2. ASSUME NEW op \in Queued PROVE op \in Queued' \cup {Head(head)}
  <2>1. PICK i \in 1..Len(head) : op = head[i]
    BY DEF Queued
  <2>2. CASE i = 1
    BY <1>1, <2>1, <2>2
  <2>3. CASE i # 1
    <3>1. i - 1 \in 1..Len(head') /\ head'[i - 1] = op
      BY <1>1, <2>1, <2>3
    <3> QED BY <3>1 DEF Queued
  <2> QED BY <2>2, <2>3
<1>3. ASSUME NEW op \in Queued' \cup {Head(head)} PROVE op \in Queued
  <2>1. CASE op = Head(head)
    BY <1>1, <2>1 DEF Queued
  <2>2. CASE op \in Queued'
    <3>1. PICK i \in 1..Len(head') : op = head'[i]
      BY <2>2 DEF Queued
    <3>2. i + 1 \in 1..Len(head) /\ head[i + 1] = op
      BY <1>1, <3>1
    <3> QED BY <3>2 DEF Queued
  <2> QED BY <2>1, <2>2
<1> QED BY <1>1, <1>2, <1>3

\* With unique hands, the operation a worker lets go of is in no other's.
LEMMA HandOpens ==
  ASSUME job \in [Workers -> Ops \cup {NoOp}], NEW w \in Workers, job[w] \in Ops,
         \A v \in Workers : job[v] = job[w] => v = w,
         job' = [job EXCEPT ![w] = NoOp]
  PROVE  InHand' = InHand \ {job[w]}
BY PoolAssumption DEF InHand

LEMMA HandCloses ==
  ASSUME job \in [Workers -> Ops \cup {NoOp}], NEW w \in Workers, job[w] = NoOp,
         NEW op \in Ops, job' = [job EXCEPT ![w] = op]
  PROVE  InHand' = InHand \cup {op}
BY PoolAssumption DEF InHand

\* What no request has asked for yet has no result.
Fresh == \A op \in Ops : client[op] = "new" => ~done[op]

Unique == ExactlyOnce /\ Fresh

LEMMA UniqueStep == TypeOK /\ Unique /\ Effect => Unique'
<1> SUFFICES ASSUME TypeOK, Unique, Effect PROVE Unique'
  OBVIOUS
<1>1. /\ head \in Seq(Ops) /\ job \in [Workers -> Ops \cup {NoOp}]
      /\ done \in [Ops -> BOOLEAN] /\ client \in [Ops -> ClientPC]
      /\ ExactlyOnce /\ Fresh /\ Len(head) \in Nat
  BY DEF TypeOK, Unique
<1>2. Queued \subseteq Ops /\ InHand \subseteq Ops
  BY <1>1 DEF Queued, InHand
<1>3. ASSUME NEW op \in Ops, Submits(op) PROVE Unique'
  <2>1. /\ client[op] = "new" /\ client' = [client EXCEPT ![op] = "queued"]
        /\ UNCHANGED <<job, done>> /\ InHand' = InHand
    BY <1>3 DEF Submits, InHand
  <2>2. op \notin Queued \cup InHand /\ ~done[op]
    BY <1>1, <2>1 DEF ExactlyOnce, Fresh
  <2>3. \A x \in Ops : x # op => client'[x] = client[x]
    BY <1>1, <2>1
  <2>4. client'[op] = "queued"
    BY <1>1, <2>1
  <2>5. Fresh'
    BY <1>1, <2>1, <2>3, <2>4 DEF Fresh
  <2>6. CASE head' = head
    <3>1. Queued' = Queued
      BY <2>6 DEF Queued
    <3> QED BY <1>1, <1>2, <2>1, <2>2, <2>3, <2>5, <2>6, <3>1 DEF Unique, ExactlyOnce
  <2>7. CASE head' = Append(head, op)
    <3>1. Queued' = Queued \cup {op}
      BY <1>1, <2>7, QueueGrows
    <3>2. \A i, j \in 1..Len(head') : head'[i] = head'[j] => i = j
      <4>1. /\ Len(head') = Len(head) + 1
            /\ \A i \in 1..Len(head) : head'[i] = head[i] /\ head'[i] # op
            /\ head'[Len(head) + 1] = op
        BY <1>1, <2>2, <2>7, QueuedAt
      <4>2. \A i, j \in 1..Len(head) : head[i] = head[j] => i = j
        BY <1>1 DEF ExactlyOnce
      <4> QED BY <1>1, <4>1, <4>2
    <3>3. \A v, w \in Workers : job'[v] = job'[w] /\ job'[v] # NoOp => v = w
      BY <1>1, <2>1 DEF ExactlyOnce
    <3>4. Queued' \cap InHand' = {}
      BY <1>1, <2>1, <2>2, <3>1 DEF ExactlyOnce
    <3>5. \A x \in Queued' \cup InHand' : ~done'[x] /\ client'[x] \notin {"new", "returned"}
      BY <1>1, <1>2, <2>1, <2>2, <2>3, <2>4, <3>1 DEF ExactlyOnce
    <3> QED BY <2>5, <3>2, <3>3, <3>4, <3>5 DEF Unique, ExactlyOnce
  <2> QED BY <1>3, <2>6, <2>7 DEF Submits
<1>4. ASSUME NEW w \in Workers, Takes(w) PROVE Unique'
  <2>1. /\ head # <<>> /\ job[w] = NoOp /\ job' = [job EXCEPT ![w] = Head(head)]
        /\ head' = Tail(head) /\ UNCHANGED <<client, done>>
    BY <1>4 DEF Takes
  <2>2. Head(head) \in Ops /\ Head(head) = head[1] /\ Len(head) > 0
    BY <1>1, <2>1
  <2>3. /\ Queued = Queued' \cup {Head(head)}
        /\ Len(head') = Len(head) - 1
        /\ \A i \in 1..Len(head') : head'[i] = head[i + 1]
    BY <1>1, <2>1, QueueShrinks
  <2>4. InHand' = InHand \cup {Head(head)}
    BY <1>1, <2>1, <2>2, HandCloses
  <2>5. \A i, j \in 1..Len(head) : head[i] = head[j] => i = j
    BY <1>1 DEF ExactlyOnce
  <2>6. \A i, j \in 1..Len(head') : head'[i] = head'[j] => i = j
    <3> TAKE i, j \in 1..Len(head')
    <3>1. i + 1 \in 1..Len(head) /\ j + 1 \in 1..Len(head)
      BY <1>1, <2>3
    <3> QED BY <2>3, <2>5, <3>1
  <2>7. Head(head) \notin Queued'
    <3>1. SUFFICES ASSUME NEW i \in 1..Len(head'), head'[i] = Head(head) PROVE FALSE
      BY DEF Queued
    <3>2. i + 1 \in 1..Len(head) /\ 1 \in 1..Len(head)
      BY <1>1, <2>2, <2>3
    <3> QED BY <2>2, <2>3, <2>5, <3>1, <3>2
  <2>8. Head(head) \in Queued
    BY <2>3
  <2>9. \A v \in Workers : job[v] # Head(head)
    BY <1>1, <2>2, <2>8, QueuedAt, PoolAssumption DEF ExactlyOnce
  <2>10. \A v, x \in Workers : job'[v] = job'[x] /\ job'[v] # NoOp => v = x
    BY <1>1, <2>1, <2>9 DEF ExactlyOnce
  <2>11. Queued' \cap InHand' = {}
    BY <1>1, <2>3, <2>4, <2>7 DEF ExactlyOnce
  <2>12. \A x \in Queued' \cup InHand' : ~done'[x] /\ client'[x] \notin {"new", "returned"}
    BY <1>1, <2>1, <2>3, <2>4 DEF ExactlyOnce
  <2> QED BY <1>1, <2>1, <2>6, <2>10, <2>11, <2>12 DEF Unique, ExactlyOnce, Fresh
<1>5. ASSUME NEW w \in Workers, Completes(w) \/ Cancels(w) PROVE Unique'
  <2>1. job[w] \in Ops /\ job' = [job EXCEPT ![w] = NoOp] /\ head' = head /\ Queued' = Queued
    BY <1>5 DEF Completes, Cancels, Queued
  <2>2. \A v \in Workers : job[v] = job[w] => v = w
    BY <1>1, <2>1, PoolAssumption DEF ExactlyOnce
  <2>3. InHand' = InHand \ {job[w]}
    BY <1>1, <2>1, <2>2, HandOpens
  <2>4. job[w] \in InHand /\ job[w] \notin Queued
    BY <1>1, <2>1, QueuedAt, PoolAssumption DEF ExactlyOnce
  <2>5. client[job[w]] \notin {"new", "returned"}
    BY <1>1, <2>4 DEF ExactlyOnce
  <2>6. \A x \in Ops : x # job[w] => client'[x] = client[x] /\ done'[x] = done[x]
    BY <1>1, <1>5, <2>1 DEF Completes, Cancels
  <2>7. client'[job[w]] # "new"
    BY <1>1, <1>5, <2>1, <2>5 DEF Completes, Cancels, WakeClient
  <2>8. \A v, x \in Workers : job'[v] = job'[x] /\ job'[v] # NoOp => v = x
    BY <1>1, <2>1 DEF ExactlyOnce
  <2>9. Queued' \cap InHand' = {}
    BY <1>1, <2>1, <2>3 DEF ExactlyOnce
  <2>10. \A x \in Queued' \cup InHand' : ~done'[x] /\ client'[x] \notin {"new", "returned"}
    BY <1>1, <1>2, <2>1, <2>3, <2>4, <2>6 DEF ExactlyOnce
  <2>11. Fresh'
    BY <1>1, <2>6, <2>7 DEF Fresh
  <2> QED BY <1>1, <2>1, <2>8, <2>9, <2>10, <2>11 DEF Unique, ExactlyOnce
<1>6. ASSUME NEW op \in Ops, Waits(op) PROVE Unique'
  <2>1. UNCHANGED <<head, job, done>> /\ Queued' = Queued /\ InHand' = InHand
    BY <1>6 DEF Waits, Queued, InHand
  <2>2. PICK c \in {"waiting", "woken", "returned"} :
          client' = [client EXCEPT ![op] = c] /\ (c = "returned" => done[op])
    BY <1>6 DEF Waits
  <2>3. client[op] # "new"
    BY <1>6 DEF Waits
  <2>4. \A x \in Ops : /\ client'[x] = "new" <=> client[x] = "new"
                       /\ client'[x] = "returned" => client[x] = "returned" \/ done[x]
    BY <1>1, <2>2, <2>3
  <2> QED BY <1>1, <1>2, <2>1, <2>4 DEF Unique, ExactlyOnce, Fresh
<1>7. CASE Discards
  <2>1. /\ Queued' = {} /\ InHand' = InHand /\ InHand = {} /\ Len(head') = 0
        /\ UNCHANGED <<job, done, client>>
    BY <1>7 DEF Discards, Queued, InHand
  <2>2. \A i, j \in 1..Len(head') : head'[i] = head'[j] => i = j
    BY <2>1
  <2> QED BY <1>1, <2>1, <2>2 DEF Unique, ExactlyOnce, Fresh
<1>8. CASE Others
  <2>1. UNCHANGED <<head, job, done, client>> /\ Queued' = Queued /\ InHand' = InHand
    BY <1>8 DEF Others, Queued, InHand
  <2> QED BY <1>1, <2>1 DEF Unique, ExactlyOnce, Fresh
<1> QED BY <1>3, <1>4, <1>5, <1>6, <1>7, <1>8 DEF Effect

\* Everything that is true of the pool on the way to its jobs.
PoolInv == Books /\ StopAgrees /\ Emptied /\ Unique

LEMMA PoolInvInit == Init => PoolInv
<1> SUFFICES ASSUME Init PROVE PoolInv
  OBVIOUS
<1>1. Books
  BY BooksInit
<1>2. StopAgrees
  BY DEF Init, StopAgrees, Stopping
<1>3. Emptied
  BY DEF Init, Emptied
<1>4. Queued = {} /\ InHand = {} /\ Len(head) = 0
  BY DEF Init, Queued, InHand
<1>5. \A v \in Workers : job[v] = NoOp
  BY DEF Init
<1>6. Unique
  BY <1>4, <1>5 DEF Init, Unique, ExactlyOnce, Fresh
<1> QED BY <1>1, <1>2, <1>3, <1>6 DEF PoolInv

LEMMA PoolInvStep == PoolInv /\ [Next]_vars => PoolInv' /\ Effect
<1> SUFFICES ASSUME PoolInv, [Next]_vars PROVE PoolInv' /\ Effect
  OBVIOUS
<1>1. Books /\ StopAgrees /\ Emptied /\ Unique /\ TypeOK
  BY DEF PoolInv, Books
<1>2. Books' /\ StopAgrees' /\ Emptied' /\ Effect
  BY <1>1, BooksStep, StopStep, EmptiedStep, StepEffect
<1>3. Unique'
  BY <1>1, <1>2, UniqueStep
<1> QED BY <1>2, <1>3 DEF PoolInv

\* However requests, workers and the end of the pool interleave, no operation is in two
\* hands, and none whose request has returned is in any.
THEOREM PerformedOnce == Spec => []ExactlyOnce
<1>1. PoolInv => ExactlyOnce
  BY DEF PoolInv, Unique
<1> QED BY <1>1, PoolInvInit, PoolInvStep, PTL DEF Spec

-------------------------------------------------------------------------------
(* A drained pool has answered everything.                                    *)

\* What was asked for and has no result is queued or in a worker's hand, unless the pool
\* is being destroyed.
Owed ==
  \A op \in Ops : client[op] # "new" /\ ~done[op] => op \in Queued \cup InHand \/ Stopping

LEMMA OwedStep ==
  ASSUME "nomem" \notin Faults
  PROVE  PoolInv /\ Owed /\ [Next]_vars => Owed'
<1> SUFFICES ASSUME PoolInv, Owed, [Next]_vars, NEW op \in Ops,
                    client'[op] # "new", ~done'[op], ~Stopping'
             PROVE  op \in Queued' \cup InHand'
  BY DEF Owed
<1>1. /\ TypeOK /\ Effect /\ head \in Seq(Ops) /\ job \in [Workers -> Ops \cup {NoOp}]
      /\ done \in [Ops -> BOOLEAN] /\ client \in [Ops -> ClientPC] /\ ExactlyOnce
  BY PoolInvStep DEF PoolInv, Books, TypeOK, Unique
<1>2. ASSUME NEW x \in Ops, Submits(x) PROVE op \in Queued' \cup InHand'
  <2>1. head' = Append(head, x) /\ UNCHANGED <<job, done, Stopping>>
        /\ client' = [client EXCEPT ![x] = "queued"]
    BY <1>2 DEF Submits
  <2>2. Queued' = Queued \cup {x} /\ InHand' = InHand
    BY <1>1, <2>1, QueueGrows DEF InHand
  <2>3. op # x => client[op] # "new"
    BY <1>1, <2>1
  <2> QED BY <2>1, <2>2, <2>3 DEF Owed
<1>3. ASSUME NEW w \in Workers, Takes(w) PROVE op \in Queued' \cup InHand'
  <2>1. /\ head # <<>> /\ job[w] = NoOp /\ job' = [job EXCEPT ![w] = Head(head)]
        /\ head' = Tail(head) /\ UNCHANGED <<client, done, Stopping>>
    BY <1>3 DEF Takes
  <2>2. Head(head) \in Ops
    BY <1>1, <2>1
  <2>3. InHand' = InHand \cup {Head(head)} /\ Queued = Queued' \cup {Head(head)}
    BY <1>1, <2>1, <2>2, HandCloses, QueueShrinks
  <2> QED BY <2>1, <2>3 DEF Owed
<1>4. ASSUME NEW w \in Workers, Completes(w) PROVE op \in Queued' \cup InHand'
  <2>1. /\ job[w] \in Ops /\ job' = [job EXCEPT ![w] = NoOp] /\ Queued' = Queued
        /\ done' = [done EXCEPT ![job[w]] = TRUE] /\ (Stopping' <=> Stopping)
    BY <1>4 DEF Completes, Queued
  <2>2. op # job[w] /\ ~done[op] /\ client[op] # "new"
    BY <1>1, <1>4, <2>1 DEF Completes
  <2>3. op \in Queued \/ \E v \in Workers : job[v] = op /\ v # w
    BY <1>1, <2>1, <2>2, QueuedAt DEF Owed
  <2>4. \A v \in Workers : v # w => job'[v] = job[v]
    BY <1>1, <2>1
  <2> QED BY <2>1, <2>3, <2>4, PoolAssumption DEF InHand
<1>5. ASSUME NEW w \in Workers, Cancels(w) PROVE op \in Queued' \cup InHand'
  BY <1>5 DEF Cancels
<1>6. ASSUME NEW x \in Ops, Waits(x) PROVE op \in Queued' \cup InHand'
  <2>1. UNCHANGED <<head, job, done, Stopping>> /\ Queued' = Queued /\ InHand' = InHand
    BY <1>6 DEF Waits, Queued, InHand
  <2>2. client[op] # "new"
    BY <1>1, <1>6 DEF Waits
  <2> QED BY <2>1, <2>2 DEF Owed
<1>7. CASE Discards
  BY <1>7 DEF Discards
<1>8. CASE Others
  <2>1. UNCHANGED <<done, client>> /\ ~Stopping /\ Queued' = Queued /\ InHand' = InHand
    BY <1>8 DEF Others, Queued, InHand
  <2> QED BY <2>1 DEF Owed
<1> QED BY <1>1, <1>2, <1>3, <1>4, <1>5, <1>6, <1>7, <1>8 DEF Effect

\* With nothing queued and nobody active, nothing is owed.
LEMMA DrainStep ==
  ASSUME PoolInv, Owed, [Next]_vars, main # "drained", main' = "drained"
  PROVE  \A op \in Ops : client'[op] # "new" => done'[op]
<1>1. PoolWait /\ ~WorkLeft /\ ~Stopping
  <2>1. PoolWait /\ ~WorkLeft
    BY DEF Next, WorkerStep, EnterLoop, OpenFails, Resume, TimedOut, Perform, Complete,
       FinishJob, CancelQuery, Unwind, LingerExpires, Broadcast, mainVars, Queue, QueueFails,
       WaitOp, PoolWait, Destroy, DestroyResume, AwaitWorkers, Free, SpuriousWakeup, vars
  <2> QED BY <2>1 DEF PoolWait, PoolInv, StopAgrees
<1>2. UNCHANGED <<done, client>> /\ head = <<>> /\ active = {}
  BY <1>1 DEF PoolWait, WorkLeft
<1>3. Queued = {}
  BY <1>2 DEF Queued
<1>4. InHand = {}
  <2>1. \A w \in Workers : pc[w] \notin Busy
    BY <1>2 DEF PoolInv, Books, Places
  <2> QED BY <2>1, PcFacts DEF PoolInv, Books, HandsOK, InHand
<1> QED BY <1>1, <1>2, <1>3, <1>4 DEF Owed

\* When memory for the jobs does not run out, jfs_pool_wait returns only when every
\* operation handed over has its result: "let writes propogate".
THEOREM DrainsCompletely ==
  ASSUME "nomem" \notin Faults
  PROVE  Spec => DrainComplete
<1>1. Init => Owed
  BY DEF Init, Owed
<1>2. PoolInv /\ Owed /\ [Next]_vars
        => [main # "drained" /\ main' = "drained" =>
              \A op \in Ops : client'[op] # "new" => done'[op]]_vars
  BY DrainStep
<1>3. PoolInv /\ Owed /\ [Next]_vars => Owed'
  BY OwedStep
<1> QED BY <1>1, <1>2, <1>3, PoolInvInit, PoolInvStep, PTL DEF Spec, DrainComplete

-------------------------------------------------------------------------------
(* A queued job has somebody on the way to it.                                *)

NobodyFailed == \A w \in Workers : pc[w] # "failed"

Attended == NoStrandedJob /\ NobodyFailed

\* One worker moved to where it will look at the queue.
LEMMA OneComes ==
  ASSUME pc \in [Workers -> WorkerPC], NobodyFailed,
         NEW w \in Workers, NEW v \in Coming, pc' = [pc EXCEPT ![w] = v]
  PROVE  Attended'
<1>1. pc'[w] = v /\ v # "failed"
  BY PcFacts DEF Coming
<1> QED BY <1>1 DEF Attended, NoStrandedJob, NobodyFailed

LEMMA AttendedDispatch ==
  ASSUME PoolInv, Attended, NEW w \in Workers, NEW i, NEW act, NEW a, NEW b,
         Broadcast(a, b),
         \/ Sleep(w, i, act)
         \/ TakeJob(w, i, act)
         \/ Leave(w, i, act) /\ (head = <<>> \/ Stopping)
  PROVE  Attended'
<1>1. pc \in [Workers -> WorkerPC] /\ (Stopping' <=> Stopping)
  BY DEF PoolInv, Books, TypeOK, Broadcast, Stopping
<1>2. CASE TakeJob(w, i, act)
  BY <1>1, <1>2, OneComes, PcFacts DEF TakeJob, Attended, Coming
<1>3. CASE Sleep(w, i, act) \/ (Leave(w, i, act) /\ (head = <<>> \/ Stopping))
  <2>1. head' = head /\ (head = <<>> \/ Stopping)
    BY <1>3 DEF Sleep, Leave
  <2>2. \A v \in Workers : pc'[v] # "failed"
    BY <1>1, <1>3 DEF Sleep, SleepKind, Leave, Attended, NobodyFailed
  <2> QED BY <1>1, <2>1, <2>2 DEF Attended, NoStrandedJob, NobodyFailed, Stopping
<1> QED BY <1>2, <1>3

LEMMA AttendedQueue ==
  ASSUME "create" \notin Faults, PoolInv, Attended, NEW op \in Ops, Queue(op)
  PROVE  Attended'
<1>1. /\ pc \in [Workers -> WorkerPC] /\ idle \in Nat /\ nthreads \in Nat
      /\ Books /\ NobodyFailed
  BY DEF PoolInv, Books, TypeOK, Attended
<1>2. CASE idle > 0 /\ SignalWorker
  <2>1. CASE Sleepers = {}
    <3>1. {w \in Workers : pc[w] \in Counted} # {}
      BY <1>1, <1>2, FS_EmptySet DEF Books, Places
    <3>2. PICK w \in Workers : pc[w] \in {"woken", "timedout"}
      BY <2>1, <3>1 DEF Sleepers, Counted
    <3>3. pc'[w] \in Coming /\ pc' = pc
      BY <1>2, <2>1, <3>2 DEF SignalWorker, Coming
    <3> QED BY <1>1, <3>3 DEF Attended, NoStrandedJob, NobodyFailed
  <2>2. CASE Sleepers # {}
    <3>1. PICK w \in Workers : pc' = [pc EXCEPT ![w] = "woken"]
      BY <1>2, <2>2 DEF SignalWorker, Sleepers
    <3> QED BY <1>1, <3>1, OneComes DEF Coming
  <2> QED BY <2>1, <2>2
<1>3. CASE CreateWorker
  BY <1>1, <1>3, OneComes DEF CreateWorker, Coming
<1>4. CASE idle = 0 /\ ~(nthreads < Maximum) /\ UNCHANGED pc
  <2>1. nthreads > 0
    BY <1>1, <1>4, PoolAssumption
  <2>2. {w \in Workers : pc[w] # "none"} # {}
    BY <1>1, <2>1, FS_EmptySet DEF Books, Places
  <2>3. PICK w \in Workers : pc[w] # "none"
    BY <2>2
  <2>4. pc[w] \notin Counted
    BY <1>1, <1>4, WaiterIdle
  <2>5. pc'[w] \in Coming
    BY <1>1, <1>4, <2>3, <2>4, PcFacts DEF NobodyFailed, Coming
  <2> QED BY <1>1, <1>4, <2>5 DEF Attended, NoStrandedJob, NobodyFailed
<1> QED BY <1>2, <1>3, <1>4 DEF Queue

LEMMA AttendedStep ==
  ASSUME {"create", "open"} \cap Faults = {}
  PROVE  PoolInv /\ Attended /\ [Next]_vars => Attended'
<1> SUFFICES ASSUME PoolInv, Attended, [Next]_vars PROVE Attended'
  OBVIOUS
<1>1. /\ pc \in [Workers -> WorkerPC] /\ NobodyFailed
      /\ "create" \notin Faults /\ "open" \notin Faults
  BY DEF PoolInv, Books, TypeOK, Attended
<1>2. ASSUME NEW w \in Workers, EnterLoop(w) \/ Resume(w) \/ TimedOut(w) \/ FinishJob(w)
      PROVE  Attended'
  BY <1>2, AttendedDispatch DEF EnterLoop, Resume, TimedOut, FinishJob, Dispatch, Stopping
<1>3. ASSUME NEW w \in Workers,
             LingerExpires(w) \/ Perform(w) \/ Complete(w) \/ CancelQuery(w)
      PROVE  Attended'
  BY <1>1, <1>3, OneComes DEF LingerExpires, Perform, Complete, CancelQuery, Coming, Busy
<1>4. ASSUME NEW w \in Workers, Unwind(w) PROVE Attended'
  <2>1. Stopping'
    BY <1>4 DEF Unwind, Broadcast, PoolInv, StopAgrees, Stopping
  <2>2. \A v \in Workers : pc'[v] # "failed"
    BY <1>1, <1>4 DEF Unwind, NobodyFailed
  <2> QED BY <2>1, <2>2 DEF Attended, NoStrandedJob, NobodyFailed, Stopping
<1>5. ASSUME NEW op \in Ops, Queue(op) PROVE Attended'
  BY <1>1, <1>5, AttendedQueue
<1>6. ASSUME UNCHANGED pc, head' = head \/ head' = <<>>, Stopping => Stopping'
      PROVE  Attended'
  BY <1>6 DEF Attended, NoStrandedJob, NobodyFailed, Stopping
<1>7. ASSUME NEW op \in Ops, QueueFails(op) \/ WaitOp(op) PROVE Attended'
  BY <1>6, <1>7 DEF QueueFails, WaitOp, poolVars, workerVars, Stopping
<1>8. CASE PoolWait \/ DestroyResume \/ Free
  BY <1>6, <1>8 DEF PoolWait, DestroyResume, AwaitWorkers, Free, workerVars, Stopping
<1>9. CASE Destroy
  <2>1. Stopping' /\ \A v \in Workers : pc'[v] # "failed"
    BY <1>1, <1>9 DEF Destroy, AwaitWorkers, Stopping, NobodyFailed
  <2> QED BY <2>1 DEF Attended, NoStrandedJob, NobodyFailed, Stopping
<1>10. CASE SpuriousWakeup
  <2>1. ASSUME NEW w \in Sleepers, pc' = [pc EXCEPT ![w] = "woken"] PROVE Attended'
    BY <1>1, <2>1, OneComes DEF Sleepers, Coming
  <2>2. CASE UNCHANGED pc
    BY <1>6, <1>10, <2>2 DEF SpuriousWakeup, poolVars, Stopping
  <2> QED BY <1>10, <2>1, <2>2 DEF SpuriousWakeup, Spurious
<1>11. CASE UNCHANGED vars
  BY <1>6, <1>11 DEF vars, Stopping
<1>12. ASSUME NEW w \in Workers, OpenFails(w) PROVE FALSE
  BY <1>1, <1>12 DEF OpenFails
<1> QED BY <1>2, <1>3, <1>4, <1>5, <1>7, <1>8, <1>9, <1>10, <1>11, <1>12
        DEF Next, WorkerStep

\* As long as threads can be created and connections opened, no interleaving of signals,
\* timeouts and ending workers leaves a queued job with nobody who will look for it.
THEOREM JobsAttended ==
  ASSUME {"create", "open"} \cap Faults = {}
  PROVE  Spec => []NoStrandedJob
<1>1. Init => Attended
  BY DEF Init, Attended, NoStrandedJob, NobodyFailed
<1>2. Attended => NoStrandedJob
  BY DEF Attended
<1>3. PoolInv /\ Attended /\ [Next]_vars => Attended'
  BY AttendedStep
<1> QED BY <1>1, <1>2, <1>3, PoolInvInit, PoolInvStep, PTL DEF Spec

-------------------------------------------------------------------------------
(* The pool is a JobQueue.                                                    *)

\* Every effect of a step is a step of the queue, or none.
LEMMA EffectImplements ==
  ASSUME PoolInv, Effect, Stopping' \in BOOLEAN
  PROVE  [JQ!Next]_(JQ!jqVars)
<1> DEFINE submitted == {op \in Ops : client[op] # "new"}
           finished == {op \in Ops : done[op]}
<1>1. /\ TypeOK /\ head \in Seq(Ops) /\ job \in [Workers -> Ops \cup {NoOp}]
      /\ done \in [Ops -> BOOLEAN] /\ client \in [Ops -> ClientPC] /\ ExactlyOnce
  BY DEF PoolInv, Books, TypeOK, Unique
<1>2. ASSUME NEW op \in Ops, Submits(op) PROVE JQ!Next
  <2>1. /\ op \notin submitted /\ submitted' = submitted \cup {op}
        /\ head' = Append(head, op) \/ head' = head
        /\ InHand' = InHand /\ finished' = finished /\ UNCHANGED Stopping
    BY <1>1, <1>2 DEF Submits, InHand
  <2>2. JQ!Submit(op)
    BY <2>1 DEF JQ!Submit, Stopping
  <2> QED BY <2>2 DEF JQ!Next
<1>3. ASSUME NEW w \in Workers, Takes(w) PROVE JQ!Next
  <2>1. /\ ~Stopping /\ head # <<>> /\ head' = Tail(head)
        /\ InHand' = InHand \cup {Head(head)}
        /\ submitted' = submitted /\ finished' = finished /\ UNCHANGED Stopping
    <3>1. Head(head) \in Ops
      BY <1>1, <1>3 DEF Takes
    <3>2. InHand' = InHand \cup {Head(head)}
      BY <1>1, <1>3, <3>1, HandCloses DEF Takes
    <3> QED BY <1>3, <3>2 DEF Takes
  <2>2. JQ!Begin
    BY <2>1 DEF JQ!Begin, Stopping
  <2> QED BY <2>2 DEF JQ!Next
<1>4. ASSUME NEW w \in Workers, Completes(w) \/ Cancels(w) PROVE JQ!Next
  <2>0. PICK op \in Ops : op = job[w]
    BY <1>4 DEF Completes, Cancels
  <2>1. op \in InHand /\ InHand' = InHand \ {op}
    BY <1>1, <1>4, <2>0, HandOpens, QueuedAt, PoolAssumption DEF Completes, Cancels, ExactlyOnce
  <2>2. head' = head /\ UNCHANGED Stopping
    BY <1>4 DEF Completes, Cancels
  <2>3. submitted' = submitted
    <3>1. client[op] # "new" /\ WakeClient(op) # "new"
      BY <1>1, <2>1 DEF ExactlyOnce, WakeClient
    <3> QED BY <1>1, <1>4, <2>0, <3>1 DEF Completes, Cancels
  <2>4. CASE Completes(w)
    <3>1. finished' = finished \cup {op}
      BY <1>1, <2>0, <2>4 DEF Completes
    <3>2. JQ!Finish(op)
      BY <2>1, <2>2, <2>3, <3>1 DEF JQ!Finish, Stopping
    <3> QED BY <3>2 DEF JQ!Next
  <2>5. CASE Cancels(w)
    <3>1. finished' = finished /\ Stopping
      BY <2>5 DEF Cancels
    <3>2. JQ!GiveUp(op)
      BY <2>1, <2>2, <2>3, <3>1 DEF JQ!GiveUp, Stopping
    <3> QED BY <3>2 DEF JQ!Next
  <2> QED BY <1>4, <2>4, <2>5
<1>5. CASE Discards
  <2>1. /\ Stopping /\ InHand = {} /\ InHand' = {} /\ head' = <<>>
        /\ submitted' = submitted /\ finished' = finished /\ UNCHANGED Stopping
    BY <1>5 DEF Discards, InHand
  <2>2. JQ!Discard
    BY <2>1 DEF JQ!Discard, Stopping
  <2> QED BY <2>2 DEF JQ!Next
<1>6. CASE Others /\ Stopping' # Stopping
  <2>1. /\ Stopping' = TRUE /\ head' = head /\ InHand' = InHand
        /\ submitted' = submitted /\ finished' = finished
    <3>1. Stopping' /\ UNCHANGED <<head, job, done, client>>
      BY <1>6 DEF Others, Stopping
    <3>2. InHand' = InHand
      BY <3>1 DEF InHand
    <3> QED BY <3>1, <3>2
  <2>2. JQ!Stop
    BY <2>1 DEF JQ!Stop, Stopping
  <2> QED BY <2>2 DEF JQ!Next
<1>7. ASSUME submitted' = submitted, finished' = finished,
             UNCHANGED <<head, job, Stopping>>
      PROVE  UNCHANGED JQ!jqVars
  BY <1>7 DEF JQ!jqVars, InHand, Stopping
<1>8. ASSUME NEW op \in Ops, Waits(op) PROVE UNCHANGED JQ!jqVars
  <2>1. submitted' = submitted
    BY <1>1, <1>8 DEF Waits
  <2> QED BY <1>7, <1>8, <2>1 DEF Waits
<1>9. CASE Others /\ Stopping' = Stopping
  BY <1>7, <1>9 DEF Others
<1> QED BY <1>2, <1>3, <1>4, <1>5, <1>6, <1>8, <1>9 DEF Effect

\* To its callers the pool is a JobQueue: first in first out, each operation started once,
\* nothing given up or thrown away unless the pool is destroyed; whatever fails.
THEOREM PoolImplements == Spec => ImplementsJobQueue
<1>1. Init => JQ!Init
  <2>1. SUFFICES ASSUME Init PROVE JQ!Init
    OBVIOUS
  <2>2. /\ {op \in Ops : client[op] # "new"} = {} /\ {op \in Ops : done[op]} = {}
        /\ InHand = {}
    BY <2>1 DEF Init, InHand
  <2> QED BY <2>1, <2>2 DEF Init, JQ!Init
<1>2. PoolInv /\ [Next]_vars => [JQ!Next]_(JQ!jqVars)
  <2>1. Stopping' \in BOOLEAN
    BY DEF Stopping
  <2> QED BY <2>1, PoolInvStep, EffectImplements
<1> QED BY <1>1, <1>2, PoolInvInit, PoolInvStep, PTL DEF Spec, JQ!Spec, ImplementsJobQueue
===============================================================================
