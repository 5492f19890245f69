------------------------- MODULE ThreadPoolProofs -------------------------
(***************************************************************************)
(* Proofs about ThreadPool for every number of workers, clients and tasks. *)
(***************************************************************************)
EXTENDS ThreadPool, FiniteSetTheorems, SequenceTheorems, TLAPS

USE DEF Threads, WorkerPcs, ClientPcs, Outcomes
-----------------------------------------------------------------------------
(* Type correctness *)

\* The constructor starts every worker in its loop and leaves the queue empty.
LEMMA InitTyped == Init => TypeOK
<1> SUFFICES ASSUME Init PROVE TypeOK
  OBVIOUS
<1>1. /\ pc \in [Threads -> WorkerPcs \cup ClientPcs]
      /\ \A w \in Workers : pc[w] \in WorkerPcs
      /\ \A c \in Clients : pc[c] \in ClientPcs
  BY PoolAssumption DEF PoolAssumption, Init
<1>2. <<>> \in Seq(Tasks)
  OBVIOUS
<1> QED
  BY <1>1, <1>2 DEF Init, TypeOK

\* The state always has the shape the C++ declarations give it; in particular
\* only workers sleep, run or exit and only clients are idle.
THEOREM TypeCorrect == Spec => []TypeOK

<1>1. Init => TypeOK
  <2> SUFFICES ASSUME Init PROVE TypeOK
    OBVIOUS
  <2>1. /\ pc \in [Threads -> WorkerPcs \cup ClientPcs]
        /\ \A w \in Workers : pc[w] \in WorkerPcs
        /\ \A c \in Clients : pc[c] \in ClientPcs
    BY PoolAssumption DEF PoolAssumption, Init
  <2>2. <<>> \in Seq(Tasks)
    OBVIOUS
  <2> QED
    BY <2>1, <2>2 DEF Init, TypeOK
<1>2. TypeOK /\ [Next]_vars => TypeOK'
  <2> SUFFICES ASSUME TypeOK, [Next]_vars PROVE TypeOK'
    OBVIOUS
  <2> USE DEF TypeOK
  <2>1. ASSUME NEW t \in Threads, NEW j \in Tasks, Enqueue(t, j) PROVE TypeOK'
    BY <2>1 DEF Enqueue, Push, MayCall
  <2>2. ASSUME NEW t \in Threads, NEW j \in Tasks, EnqueueThrows(t, j) PROVE TypeOK'
    BY <2>2 DEF EnqueueThrows
  <2>3. ASSUME NEW t \in Threads, NotifyOne(t) PROVE TypeOK'
    BY <2>3, PoolAssumption DEF PoolAssumption, NotifyOne, AfterNotify, Sleepers
  <2>4. ASSUME NEW w \in Workers, WorkerSleep(w) PROVE TypeOK'
    BY <2>4 DEF WorkerSleep, Sleep
  <2>5. ASSUME NEW w \in Workers, WorkerTake(w) PROVE TypeOK'
    BY <2>5, HeadTailProperties DEF WorkerTake, Take
  <2>6. ASSUME NEW w \in Workers, WorkerExit(w) PROVE TypeOK'
    BY <2>6 DEF WorkerExit, Exit
  <2>7. ASSUME NEW w \in Workers, TaskReturns(w) PROVE TypeOK'
    BY <2>7 DEF TaskReturns, TaskEnds
  <2>8. ASSUME NEW w \in Workers, TaskThrows(w) PROVE TypeOK'
    BY <2>8 DEF TaskThrows, TaskEnds
  <2>9. ASSUME NEW w \in Workers, SpuriousWakeup(w) PROVE TypeOK'
    BY <2>9 DEF SpuriousWakeup
  <2>10. CASE StopPool
    BY <2>10 DEF StopPool
  <2>11. CASE NotifyAll
    BY <2>11 DEF NotifyAll, Wake, Sleepers
  <2>12. CASE JoinAll
    BY <2>12 DEF JoinAll
  <2>13. CASE Terminated \/ UNCHANGED vars
    BY <2>13 DEF Terminated, vars
  <2> QED
    BY <2>1, <2>2, <2>3, <2>4, <2>5, <2>6, <2>7, <2>8, <2>9, <2>10, <2>11,
       <2>12, <2>13 DEF Next, WorkerStep
<1> QED
  BY <1>1, <1>2, PTL DEF Spec
-----------------------------------------------------------------------------
(* Sequences *)

\* Moving the head of one sequence to the end of another does not change their
\* concatenation: what WorkerTake does to started and tasks_.
LEMMA MoveHead ==
  ASSUME NEW S, NEW s \in Seq(S), NEW q \in Seq(S), q # <<>>
  PROVE  Append(s, Head(q)) \o Tail(q) = s \o q
<1>1. /\ Append(s, Head(q)) \in Seq(S)
      /\ Tail(q) \in Seq(S)
      /\ Len(Tail(q)) = Len(q) - 1
      /\ \A i \in 1..Len(Tail(q)) : Tail(q)[i] = q[i + 1]
  BY HeadTailProperties
<1>2. /\ Append(s, Head(q)) \o Tail(q) \in Seq(S)
      /\ s \o q \in Seq(S)
      /\ Len(Append(s, Head(q)) \o Tail(q)) = Len(s \o q)
  BY <1>1, ConcatProperties, LenProperties
<1>3. \A i \in 1..Len(s \o q) : (Append(s, Head(q)) \o Tail(q))[i] = (s \o q)[i]
  BY <1>1, ConcatProperties, LenProperties
<1> QED
  BY <1>2, <1>3, SeqEqual

\* Appending to the second sequence appends to the concatenation.
LEMMA AppendConcat ==
  ASSUME NEW S, NEW s \in Seq(S), NEW q \in Seq(S), NEW e \in S
  PROVE  s \o Append(q, e) = Append(s \o q, e)
<1>1. Append(q, e) = q \o <<e>> /\ Append(s \o q, e) = (s \o q) \o <<e>>
  BY ConcatProperties
<1>2. <<e>> \in Seq(S)
  OBVIOUS
<1> QED
  BY <1>1, <1>2, ConcatAssociative

\* What a push does to the set of queued tasks.
LEMMA QueuedAfterAppend ==
  ASSUME NEW S, NEW q \in Seq(S), NEW e \in S,
         \A i, k \in 1..Len(q) : q[i] = q[k] => i = k,
         e \notin {q[i] : i \in 1..Len(q)}
  PROVE  LET r == Append(q, e)
         IN  /\ {r[i] : i \in 1..Len(r)} = {q[i] : i \in 1..Len(q)} \cup {e}
             /\ \A i, k \in 1..Len(r) : r[i] = r[k] => i = k
<1> DEFINE r == Append(q, e)
<1>1. /\ Len(q) \in Nat /\ Len(r) = Len(q) + 1
      /\ \A i \in 1..Len(q) : r[i] = q[i]
      /\ r[Len(q) + 1] = e
  BY LenProperties
<1> HIDE DEF r
<1>2. \A i \in 1..Len(r) : i \in 1..Len(q) \/ i = Len(q) + 1
  BY <1>1
<1>3. Len(q) + 1 \in 1..Len(r) /\ 1..Len(q) \subseteq 1..Len(r)
  BY <1>1
<1>4. \A i, k \in 1..Len(r) : r[i] = r[k] => i = k
  BY <1>1, <1>2
<1>5. {r[i] : i \in 1..Len(r)} = {q[i] : i \in 1..Len(q)} \cup {e}
  BY <1>1, <1>2, <1>3
<1> QED
  BY <1>4, <1>5 DEF r

\* What a pop does to the set of queued tasks.
LEMMA QueuedAfterTail ==
  ASSUME NEW S, NEW q \in Seq(S), q # <<>>,
         \A i, k \in 1..Len(q) : q[i] = q[k] => i = k
  PROVE  LET r == Tail(q)
         IN  /\ {r[i] : i \in 1..Len(r)} = {q[i] : i \in 1..Len(q)} \ {Head(q)}
             /\ Head(q) \in {q[i] : i \in 1..Len(q)}
             /\ \A i, k \in 1..Len(r) : r[i] = r[k] => i = k
<1> DEFINE r == Tail(q)
<1>1. /\ Len(q) \in Nat \ {0} /\ Len(r) = Len(q) - 1
      /\ \A i \in 1..Len(r) : r[i] = q[i + 1]
      /\ Head(q) = q[1]
  BY HeadTailProperties, EmptySeq
<1> HIDE DEF r
<1>2. \A i \in 1..Len(r) : i + 1 \in 1..Len(q) /\ i + 1 # 1
  BY <1>1
<1>3. \A i \in 1..Len(q) : i # 1 => i - 1 \in 1..Len(r) /\ r[i - 1] = q[i]
  BY <1>1
<1>4. 1 \in 1..Len(q)
  BY <1>1
<1>5. \A i, k \in 1..Len(r) : r[i] = r[k] => i = k
  BY <1>1, <1>2
<1>6. {r[i] : i \in 1..Len(r)} = {q[i] : i \in 1..Len(q)} \ {Head(q)}
  BY <1>1, <1>2, <1>3, <1>4
<1> QED
  BY <1>1, <1>4, <1>5, <1>6 DEF r
-----------------------------------------------------------------------------
(* The parts of the inductive invariant, one lemma each *)

\* No step disturbs the relation between is_stop_, the program counters, the
\* tasks in hand and the destructor.
LEMMA ControlStep ==
  ASSUME TypeOK, ControlInv, [Next]_vars PROVE ControlInv'
<1> USE DEF TypeOK, ControlInv, Running
<1>1. ASSUME NEW t \in Threads, NEW j \in Tasks, Enqueue(t, j) PROVE ControlInv'
  BY <1>1, PoolAssumption DEF PoolAssumption, Enqueue, Push, MayCall
<1>2. ASSUME NEW t \in Threads, NEW j \in Tasks, EnqueueThrows(t, j) PROVE ControlInv'
  BY <1>2 DEF EnqueueThrows
<1>3. ASSUME NEW t \in Threads, NotifyOne(t) PROVE ControlInv'
  BY <1>3, PoolAssumption DEF PoolAssumption, NotifyOne, AfterNotify, Sleepers
<1>4. ASSUME NEW w \in Workers, WorkerSleep(w) PROVE ControlInv'
  BY <1>4 DEF WorkerSleep, Sleep
<1>5. ASSUME NEW w \in Workers, WorkerTake(w) PROVE ControlInv'
  BY <1>5, PoolAssumption, HeadTailProperties DEF PoolAssumption, WorkerTake, Take
<1>6. ASSUME NEW w \in Workers, WorkerExit(w) PROVE ControlInv'
  BY <1>6 DEF WorkerExit, Exit
<1>7. ASSUME NEW w \in Workers, TaskReturns(w) PROVE ControlInv'
  BY <1>7, PoolAssumption DEF PoolAssumption, TaskReturns, TaskEnds
<1>8. ASSUME NEW w \in Workers, TaskThrows(w) PROVE ControlInv'
  BY <1>8 DEF TaskThrows, TaskEnds
<1>9. ASSUME NEW w \in Workers, SpuriousWakeup(w) PROVE ControlInv'
  BY <1>9 DEF SpuriousWakeup
<1>10. CASE StopPool
  BY <1>10 DEF StopPool
<1>11. CASE NotifyAll
  BY <1>11, PoolAssumption DEF PoolAssumption, NotifyAll, Wake, Sleepers
<1>12. CASE JoinAll
  BY <1>12 DEF JoinAll
<1>13. CASE Terminated \/ UNCHANGED vars
  BY <1>13 DEF Terminated, vars
<1> QED
  BY <1>1, <1>2, <1>3, <1>4, <1>5, <1>6, <1>7,
     <1>8, <1>9, <1>10, <1>11, <1>12, <1>13 DEF Next, WorkerStep

\* Every push and every pop keeps started \o tasks_ equal to what was accepted.
LEMMA OrderStep ==
  ASSUME TypeOK, StartOrder, [Next]_vars PROVE StartOrder'
<1> USE DEF TypeOK, StartOrder
<1>1. ASSUME NEW t \in Threads, NEW j \in Tasks, Enqueue(t, j) PROVE StartOrder'
  BY <1>1, AppendConcat DEF Enqueue, Push, MayCall
<1>2. ASSUME NEW t \in Threads, NEW j \in Tasks, EnqueueThrows(t, j) PROVE StartOrder'
  BY <1>2 DEF EnqueueThrows
<1>3. ASSUME NEW t \in Threads, NotifyOne(t) PROVE StartOrder'
  BY <1>3 DEF NotifyOne, AfterNotify, Sleepers
<1>4. ASSUME NEW w \in Workers, WorkerSleep(w) PROVE StartOrder'
  BY <1>4 DEF WorkerSleep, Sleep
<1>5. ASSUME NEW w \in Workers, WorkerTake(w) PROVE StartOrder'
  BY <1>5, MoveHead DEF WorkerTake, Take
<1>6. ASSUME NEW w \in Workers, WorkerExit(w) PROVE StartOrder'
  BY <1>6 DEF WorkerExit, Exit
<1>7. ASSUME NEW w \in Workers, TaskReturns(w) PROVE StartOrder'
  BY <1>7 DEF TaskReturns, TaskEnds
<1>8. ASSUME NEW w \in Workers, TaskThrows(w) PROVE StartOrder'
  BY <1>8 DEF TaskThrows, TaskEnds
<1>9. ASSUME NEW w \in Workers, SpuriousWakeup(w) PROVE StartOrder'
  BY <1>9 DEF SpuriousWakeup
<1>10. CASE StopPool
  BY <1>10 DEF StopPool
<1>11. CASE NotifyAll
  BY <1>11 DEF NotifyAll, Wake, Sleepers
<1>12. CASE JoinAll
  BY <1>12 DEF JoinAll
<1>13. CASE Terminated \/ UNCHANGED vars
  BY <1>13 DEF Terminated, vars
<1> QED
  BY <1>1, <1>2, <1>3, <1>4, <1>5, <1>6, <1>7,
     <1>8, <1>9, <1>10, <1>11, <1>12, <1>13 DEF Next, WorkerStep

\* After is_stop_ is set no worker goes to sleep, so notify_all() is enough.
LEMMA SleeperStep ==
  ASSUME TypeOK, ControlInv, NoSleeperAtJoin, [Next]_vars PROVE NoSleeperAtJoin'
<1> USE DEF TypeOK, NoSleeperAtJoin, Sleepers
<1>1. ASSUME NEW t \in Threads, NEW j \in Tasks, Enqueue(t, j) PROVE NoSleeperAtJoin'
  BY <1>1 DEF Enqueue, Push, MayCall
<1>2. ASSUME NEW t \in Threads, NEW j \in Tasks, EnqueueThrows(t, j) PROVE NoSleeperAtJoin'
  BY <1>2 DEF EnqueueThrows
<1>3. ASSUME NEW t \in Threads, NotifyOne(t) PROVE NoSleeperAtJoin'
  BY <1>3 DEF NotifyOne, AfterNotify, Sleepers
<1>4. ASSUME NEW w \in Workers, WorkerSleep(w) PROVE NoSleeperAtJoin'
  BY <1>4 DEF ControlInv, WorkerSleep, Sleep
<1>5. ASSUME NEW w \in Workers, WorkerTake(w) PROVE NoSleeperAtJoin'
  BY <1>5 DEF WorkerTake, Take
<1>6. ASSUME NEW w \in Workers, WorkerExit(w) PROVE NoSleeperAtJoin'
  BY <1>6 DEF WorkerExit, Exit
<1>7. ASSUME NEW w \in Workers, TaskReturns(w) PROVE NoSleeperAtJoin'
  BY <1>7 DEF TaskReturns, TaskEnds
<1>8. ASSUME NEW w \in Workers, TaskThrows(w) PROVE NoSleeperAtJoin'
  BY <1>8 DEF TaskThrows, TaskEnds
<1>9. ASSUME NEW w \in Workers, SpuriousWakeup(w) PROVE NoSleeperAtJoin'
  BY <1>9 DEF SpuriousWakeup
<1>10. CASE StopPool
  BY <1>10 DEF StopPool
<1>11. CASE NotifyAll
  BY <1>11 DEF NotifyAll, Wake, Sleepers
<1>12. CASE JoinAll
  BY <1>12 DEF JoinAll
<1>13. CASE Terminated \/ UNCHANGED vars
  BY <1>13 DEF Terminated, vars
<1> QED
  BY <1>1, <1>2, <1>3, <1>4, <1>5, <1>6, <1>7,
     <1>8, <1>9, <1>10, <1>11, <1>12, <1>13 DEF Next, WorkerStep

\* A step that moves no task and resolves no future keeps PendingIsOwned.
LEMMA OwnedFrame ==
  ASSUME PendingIsOwned, UNCHANGED <<tasks, cur>>, Running' = Running, Pending' = Pending
  PROVE  PendingIsOwned'
<1>1. Queued' = Queued /\ InHand' = InHand
  BY DEF Queued, InHand
<1> QED
  BY <1>1 DEF PendingIsOwned

\* A task enters tasks_ with its future pending, moves from tasks_ to one
\* worker, and leaves the worker when the future is resolved.
LEMMA OwnedStep ==
  ASSUME TypeOK, ControlInv, PendingIsOwned, [Next]_vars PROVE PendingIsOwned'
<1>1. ASSUME NEW t \in Threads, NEW j \in Tasks, Enqueue(t, j) PROVE PendingIsOwned'
  <2>1. Running' = Running /\ cur' = cur
    BY <1>1, PoolAssumption
    DEF PoolAssumption, Enqueue, Push, MayCall, Running, TypeOK
  <2>2. j \notin Pending /\ Pending' = Pending \cup {j}
    BY <1>1 DEF Enqueue, Push, Pending, TypeOK
  <2>3. /\ Queued' = Queued \cup {j}
        /\ \A i, k \in 1..Len(tasks') : tasks'[i] = tasks'[k] => i = k
    <3>1. j \notin Queued /\ tasks' = Append(tasks, j) /\ tasks \in Seq(Tasks)
      BY <1>1, <2>2 DEF Enqueue, Push, PendingIsOwned, TypeOK
    <3> QED
      BY <3>1, QueuedAfterAppend DEF Queued, PendingIsOwned
  <2>4. InHand' = InHand
    BY <2>1 DEF InHand
  <2> QED
    BY <2>1, <2>2, <2>3, <2>4 DEF PendingIsOwned
<1>2. ASSUME NEW t \in Threads, NEW j \in Tasks, EnqueueThrows(t, j)
      PROVE  PendingIsOwned'
  <2>1. UNCHANGED <<tasks, cur, pc>> /\ Running' = Running
    BY <1>2 DEF EnqueueThrows, Running
  <2>2. Pending' = Pending
    BY <1>2 DEF EnqueueThrows, Pending, TypeOK
  <2> QED
    BY <2>1, <2>2, OwnedFrame
<1>3. ASSUME NEW t \in Threads, NotifyOne(t) PROVE PendingIsOwned'
  <2>1. Running' = Running /\ UNCHANGED <<tasks, cur, future>>
    BY <1>3, PoolAssumption
    DEF PoolAssumption, NotifyOne, AfterNotify, Sleepers, Running, TypeOK
  <2> QED
    BY <2>1, OwnedFrame DEF Pending
<1>4. ASSUME NEW w \in Workers, WorkerSleep(w) PROVE PendingIsOwned'
  <2>1. Running' = Running /\ UNCHANGED <<tasks, cur, future>>
    BY <1>4 DEF WorkerSleep, Sleep, Running, TypeOK
  <2> QED
    BY <2>1, OwnedFrame DEF Pending
<1>5. ASSUME NEW w \in Workers, WorkerTake(w) PROVE PendingIsOwned'
  <2>1. Running' = Running \cup {w} /\ w \notin Running /\ Pending' = Pending
    BY <1>5 DEF WorkerTake, Take, Running, Pending, TypeOK
  <2>2. /\ Queued' = Queued \ {Head(tasks)}
        /\ Head(tasks) \in Queued
        /\ \A i, k \in 1..Len(tasks') : tasks'[i] = tasks'[k] => i = k
    <3>1. tasks # <<>> /\ tasks' = Tail(tasks) /\ tasks \in Seq(Tasks)
      BY <1>5 DEF WorkerTake, Take, TypeOK
    <3>2. \A i, k \in 1..Len(tasks) : tasks[i] = tasks[k] => i = k
      BY DEF PendingIsOwned
    <3> QED
      BY <3>1, <3>2, QueuedAfterTail DEF Queued
  <2>3. cur'[w] = Head(tasks) /\ \A v \in Running : cur'[v] = cur[v]
    BY <1>5, <2>1 DEF WorkerTake, Take, Running, TypeOK
  <2>4. InHand' = InHand \cup {Head(tasks)} /\ Head(tasks) \notin InHand
    BY <2>1, <2>2, <2>3 DEF InHand, PendingIsOwned
  <2>5. \A u, v \in Running' : cur'[u] = cur'[v] => u = v
    BY <2>1, <2>3, <2>4 DEF InHand, PendingIsOwned
  <2> QED
    BY <2>1, <2>2, <2>4, <2>5 DEF PendingIsOwned
<1>6. ASSUME NEW w \in Workers, WorkerExit(w) PROVE PendingIsOwned'
  <2>1. Running' = Running /\ UNCHANGED <<tasks, cur, future>>
    BY <1>6 DEF WorkerExit, Exit, Running, TypeOK
  <2> QED
    BY <2>1, OwnedFrame DEF Pending
<1>7. ASSUME NEW w \in Workers, NEW r \in {"value", "exception"}, TaskEnds(w, r)
      PROVE  PendingIsOwned'
  <2>1. w \in Running /\ Running' = Running \ {w} /\ tasks' = tasks
    BY <1>7 DEF TaskEnds, Running, TypeOK
  <2>2. \A v \in Running' : cur'[v] = cur[v]
    BY <1>7, <2>1 DEF TaskEnds, Running, TypeOK
  <2>3. \A v \in Running' : cur[v] # cur[w]
    BY <2>1 DEF PendingIsOwned
  <2>4. InHand' = InHand \ {cur[w]}
    BY <2>1, <2>2, <2>3 DEF InHand
  <2>5. cur[w] \in InHand /\ cur[w] \notin Queued /\ Queued' = Queued
    BY <2>1 DEF InHand, Queued, PendingIsOwned
  <2>6. Pending' = Pending \ {cur[w]}
    BY <1>7 DEF TaskEnds, Pending, TypeOK
  <2> QED
    BY <2>1, <2>2, <2>4, <2>5, <2>6 DEF PendingIsOwned
<1>8. ASSUME NEW w \in Workers, SpuriousWakeup(w) PROVE PendingIsOwned'
  <2>1. Running' = Running /\ UNCHANGED <<tasks, cur, future>>
    BY <1>8 DEF SpuriousWakeup, Running, TypeOK
  <2> QED
    BY <2>1, OwnedFrame DEF Pending
<1>9. CASE NotifyAll
  <2>1. Running' = Running /\ UNCHANGED <<tasks, cur, future>>
    BY <1>9, PoolAssumption
    DEF PoolAssumption, NotifyAll, Wake, Sleepers, Running, TypeOK
  <2> QED
    BY <2>1, OwnedFrame DEF Pending
<1>10. CASE StopPool \/ JoinAll \/ Terminated \/ UNCHANGED vars
  <2>1. UNCHANGED <<tasks, cur, pc, future>>
    BY <1>10 DEF StopPool, JoinAll, Terminated, vars
  <2> QED
    BY <2>1, OwnedFrame DEF Pending, Running
<1> QED
  BY <1>1, <1>2, <1>3, <1>4, <1>5, <1>6, <1>7, <1>8, <1>9, <1>10
  DEF Next, WorkerStep, TaskReturns, TaskThrows

\* The token count of NoLostWakeup: a push brings its own notifier, a
\* notification hands the notifier's token to a sleeper, a worker gives its
\* token up only for a task or in front of an empty queue.
LEMMA WakeupStep ==
  ASSUME TypeOK, ControlInv, NoLostWakeup, [Next]_vars PROVE NoLostWakeup'
<1> USE DEF TypeOK, ControlInv, NoLostWakeup
<1>a. IsFiniteSet(Tokens) /\ Cardinality(Tokens) \in Nat
  BY PoolAssumption, FS_Union, FS_Subset, FS_CardinalityType DEF PoolAssumption, Tokens
<1>b. \A t \in Threads :
         /\ IsFiniteSet(Tokens \ {t})
         /\ Cardinality(Tokens \cup {t}) =
               IF t \in Tokens THEN Cardinality(Tokens) ELSE Cardinality(Tokens) + 1
         /\ Cardinality(Tokens \ {t}) =
               IF t \in Tokens THEN Cardinality(Tokens) - 1 ELSE Cardinality(Tokens)
  BY <1>a, FS_AddElement, FS_RemoveElement
<1>1. ASSUME NEW t \in Threads, NEW j \in Tasks, Enqueue(t, j) PROVE NoLostWakeup'
  <2>1. Tokens' = Tokens \cup {t} /\ t \notin Tokens /\ Sleepers' = Sleepers
    BY <1>1, PoolAssumption DEF PoolAssumption, Enqueue, Push, MayCall, Tokens, Sleepers
  <2>2. Len(tasks') = Len(tasks) + 1 /\ Len(tasks) \in Nat
    BY <1>1, LenProperties DEF Enqueue, Push
  <2> QED
    BY <1>a, <1>b, <2>1, <2>2
<1>2. ASSUME NEW t \in Threads, NEW j \in Tasks, EnqueueThrows(t, j) PROVE NoLostWakeup'
  BY <1>2 DEF EnqueueThrows, Tokens, Sleepers
<1>3. ASSUME NEW t \in Threads, NotifyOne(t) PROVE NoLostWakeup'
  <2>1. CASE Sleepers = {}
    BY <1>3, <2>1 DEF NotifyOne, AfterNotify, Sleepers
  <2>2. ASSUME NEW w \in Sleepers,
               pc' = [pc EXCEPT ![t] = AfterNotify(t), ![w] = "loop"]
        PROVE  NoLostWakeup'
    <3>1. /\ Tokens' = (Tokens \ {t}) \cup {w}
          /\ t \in Tokens /\ w \notin Tokens /\ w \in Threads
      BY <1>3, <2>2, PoolAssumption
      DEF PoolAssumption, NotifyOne, AfterNotify, Sleepers, Tokens
    <3>2. Cardinality(Tokens \ {t}) = Cardinality(Tokens) - 1 /\ IsFiniteSet(Tokens \ {t})
      BY <1>b, <3>1
    <3>3. Cardinality((Tokens \ {t}) \cup {w}) = Cardinality(Tokens \ {t}) + 1
      BY <3>1, <3>2, FS_AddElement
    <3>4. Cardinality(Tokens') = Cardinality(Tokens)
      BY <1>a, <3>1, <3>2, <3>3
    <3>5. Len(tasks) <= Cardinality(Tokens) /\ tasks' = tasks
      BY <1>3, <2>2 DEF NotifyOne
    <3> QED
      BY <3>4, <3>5
  <2> QED
    BY <1>3, <2>1, <2>2 DEF NotifyOne
<1>4. ASSUME NEW w \in Workers, WorkerSleep(w) PROVE NoLostWakeup'
  <2>1. tasks' = <<>> /\ Tokens' = Tokens \ {w}
    BY <1>4 DEF WorkerSleep, Sleep, Tokens
  <2>2. Cardinality(Tokens') \in Nat
    BY <1>b, <2>1, FS_CardinalityType
  <2> QED
    BY <2>1, <2>2
<1>5. ASSUME NEW w \in Workers, WorkerTake(w) PROVE NoLostWakeup'
  <2>1. Tokens' = Tokens \ {w} /\ w \in Tokens /\ Sleepers' = Sleepers
    BY <1>5 DEF WorkerTake, Take, Tokens, Sleepers
  <2>2. Len(tasks') = Len(tasks) - 1 /\ Len(tasks) \in Nat
    BY <1>5, HeadTailProperties, LenProperties DEF WorkerTake, Take
  <2> QED
    <3>1. Cardinality(Tokens') = Cardinality(Tokens) - 1
      BY <1>b, <2>1
    <3> QED
      BY <1>a, <2>1, <2>2, <3>1
<1>6. ASSUME NEW w \in Workers, WorkerExit(w) PROVE NoLostWakeup'
  <2>1. tasks' = <<>> /\ Tokens' = Tokens \ {w}
    BY <1>6 DEF WorkerExit, Exit, Tokens
  <2>2. Cardinality(Tokens') \in Nat
    BY <1>b, <2>1, FS_CardinalityType
  <2> QED
    BY <2>1, <2>2
<1>7. ASSUME NEW w \in Workers, TaskReturns(w) PROVE NoLostWakeup'
  <2>1. Tokens' = Tokens \cup {w} /\ w \notin Tokens /\ Sleepers' \subseteq Sleepers
    BY <1>7 DEF TaskReturns, TaskEnds, Tokens, Sleepers
  <2>2. tasks' = tasks /\ Len(tasks) \in Nat
    BY <1>7, LenProperties DEF TaskReturns, TaskEnds
  <2> QED
    BY <1>a, <1>b, <2>1, <2>2
<1>8. ASSUME NEW w \in Workers, TaskThrows(w) PROVE NoLostWakeup'
  <2>1. Tokens' = Tokens \cup {w} /\ w \notin Tokens /\ Sleepers' \subseteq Sleepers
    BY <1>8 DEF TaskThrows, TaskEnds, Tokens, Sleepers
  <2>2. tasks' = tasks /\ Len(tasks) \in Nat
    BY <1>8, LenProperties DEF TaskThrows, TaskEnds
  <2> QED
    BY <1>a, <1>b, <2>1, <2>2
<1>9. ASSUME NEW w \in Workers, SpuriousWakeup(w) PROVE NoLostWakeup'
  <2>1. Tokens' = Tokens \cup {w} /\ w \notin Tokens /\ Sleepers' \subseteq Sleepers
    BY <1>9 DEF SpuriousWakeup, Tokens, Sleepers
  <2>2. tasks' = tasks /\ Len(tasks) \in Nat
    BY <1>9, LenProperties DEF SpuriousWakeup
  <2> QED
    BY <1>a, <1>b, <2>1, <2>2
<1>10. CASE StopPool
  BY <1>10 DEF StopPool, Tokens, Sleepers
<1>11. CASE NotifyAll
  BY <1>11 DEF NotifyAll, Wake, Sleepers
<1>12. CASE JoinAll
  BY <1>12 DEF JoinAll, Tokens, Sleepers
<1>13. CASE Terminated \/ UNCHANGED vars
  BY <1>13 DEF Terminated, vars, Tokens, Sleepers
<1> QED
  BY <1>1, <1>2, <1>3, <1>4, <1>5, <1>6, <1>7,
     <1>8, <1>9, <1>10, <1>11, <1>12, <1>13 DEF Next, WorkerStep
-----------------------------------------------------------------------------
(* The safety theorems *)

\* The conjunction of the lemmas above is an inductive invariant.
THEOREM PoolInvariant == Spec => []IInv
<1>1. Init => IInv
  <2> SUFFICES ASSUME Init, TypeOK PROVE IInv
    BY InitTyped DEF IInv
  <2>1. Running = {} /\ Sleepers = {} /\ Queued = {}
    BY DEF Init, Running, Sleepers, Queued, TypeOK
  <2>2. ControlInv
    BY <2>1, PoolAssumption DEF PoolAssumption, Init, ControlInv
  <2>3. StartOrder
    BY DEF Init, StartOrder
  <2>4. PendingIsOwned
    BY <2>1 DEF Init, PendingIsOwned, Pending, InHand
  <2> QED
    BY <2>1, <2>2, <2>3, <2>4 DEF IInv, NoLostWakeup, NoSleeperAtJoin
<1>2. IInv /\ TypeOK' /\ [Next]_vars => IInv'
  BY ControlStep, OrderStep, SleeperStep, OwnedStep, WakeupStep DEF IInv
<1> QED
  BY <1>1, <1>2, TypeCorrect, PTL DEF Spec

\* No worker sleeps while more tasks are queued than wake-ups are under way,
\* for any number of workers, clients and tasks.
THEOREM WakeupsAreNotLost == Spec => []NoLostWakeup
BY PoolInvariant, PTL DEF IInv

\* Tasks start in the order in which Enqueue accepted them, each once.
THEOREM TasksStartInOrder == Spec => []StartOrder
BY PoolInvariant, PTL DEF IInv

\* An accepted task is in tasks_ or in the hands of one worker until its
\* future is resolved.
THEOREM FuturesAreOwned == Spec => []PendingIsOwned
BY PoolInvariant, PTL DEF IInv

\* When ~ThreadPool() returns, every future that Enqueue handed out is resolved.
THEOREM DestructorDrains == Spec => []DrainedWhenGone
<1>1. IInv => DrainedWhenGone
  <2> SUFFICES ASSUME IInv, dtor = "gone"
               PROVE  tasks = <<>> /\ \A j \in Tasks : future[j] # "pending"
    BY DEF DrainedWhenGone
  <2>1. tasks = <<>> /\ Running = {}
    BY PoolAssumption DEF PoolAssumption, IInv, ControlInv, Running
  <2>2. Queued = {} /\ InHand = {}
    BY <2>1 DEF Queued, InHand
  <2> QED
    BY <2>1, <2>2 DEF IInv, PendingIsOwned, Pending
<1> QED
  BY <1>1, PoolInvariant, PTL
-----------------------------------------------------------------------------
(* Refinement *)

\* Every behaviour of the pool is, seen through its futures, a behaviour of
\* the abstract executor.
THEOREM PoolImplementsExecutor == Spec => ImplementsExecutor
<1>1. Init => Executor!Init
  BY DEF Init, Executor!Init
<1>2. IInv /\ [Next]_vars => [Executor!Next]_Executor!vars
  <2> SUFFICES ASSUME IInv, [Next]_vars PROVE [Executor!Next]_Executor!vars
    OBVIOUS
  <2> USE DEF Executor!vars
  <2>0. TypeOK /\ ControlInv
    BY DEF IInv
  <2>1. ASSUME NEW t \in Threads, NEW j \in Tasks, Enqueue(t, j)
        PROVE  Executor!Accept(j)
    <3>1. dtor # "gone" /\ ~is_stop
      BY <2>0, <2>1 DEF ControlInv, Enqueue
    <3> QED
      BY <2>1, <3>1 DEF Enqueue, Push, Executor!Accept
  <2>2. ASSUME NEW t \in Threads, NEW j \in Tasks, EnqueueThrows(t, j)
        PROVE  Executor!Reject(j)
    <3>1. dtor # "gone"
      BY <2>0, <2>2 DEF TypeOK, ControlInv, EnqueueThrows, MayCall
    <3> QED
      BY <2>2, <3>1 DEF EnqueueThrows, Executor!Reject
  <2>3. ASSUME NEW w \in Workers, WorkerTake(w) PROVE Executor!Start(w)
    BY <2>0, <2>3 DEF ControlInv, Running, WorkerTake, Take, Executor!Start
  <2>4. ASSUME NEW w \in Workers, NEW r \in {"value", "exception"}, TaskEnds(w, r)
        PROVE  Executor!Finish(w)
    BY <2>0, <2>4 DEF ControlInv, Running, TaskEnds, Executor!Finish
  <2>5. StopPool => Executor!Close
    BY <2>0 DEF StopPool, ControlInv, Executor!Close
  <2>6. ASSUME JoinAll PROVE Executor!Shut
    BY <2>0, <2>6, PoolAssumption
    DEF PoolAssumption, JoinAll, ControlInv, Running, Executor!Shut
  <2>7. ASSUME NEW t \in Threads, NotifyOne(t) PROVE UNCHANGED Executor!vars
    BY <2>7 DEF NotifyOne
  <2>8. ASSUME NEW w \in Workers,
               WorkerSleep(w) \/ WorkerExit(w) \/ SpuriousWakeup(w)
        PROVE  UNCHANGED Executor!vars
    BY <2>8 DEF WorkerSleep, Sleep, WorkerExit, Exit, SpuriousWakeup
  <2>9. CASE NotifyAll
    BY <2>9 DEF NotifyAll, Wake
  <2>10. CASE Terminated \/ UNCHANGED vars
    BY <2>10 DEF Terminated, vars
  <2> QED
    BY <2>1, <2>2, <2>3, <2>4, <2>5, <2>6, <2>7, <2>8, <2>9, <2>10
    DEF Next, WorkerStep, TaskReturns, TaskThrows, Executor!Next
<1> QED
  BY <1>1, <1>2, PoolInvariant, PTL DEF Spec, ImplementsExecutor, Executor!SafeSpec
=============================================================================
