---------------------------- MODULE ThreadPool ----------------------------
(***************************************************************************)
(* util::ThreadPool (CppProjects/thirdparty/util/threadpool.{h,cc}).       *)
(*                                                                         *)
(* Every critical section under queue_mutex_ is one action; the window     *)
(* between unlocking and condition_.notify_one() is a state of its own     *)
(* (pc = "notify").  The callers are client threads, whose calls end       *)
(* before the destructor starts (the object's lifetime), and the tasks     *)
(* themselves, which may call Enqueue from a worker at any time.           *)
(***************************************************************************)
EXTENDS Naturals, Sequences, FiniteSets

CONSTANTS Workers,    \* workers_
          Clients,    \* the threads that hold a reference to the pool
          Tasks,      \* one identifier per call of Enqueue
          NoTask

ASSUME PoolAssumption == /\ IsFiniteSet(Workers)
                         /\ Workers # {}
                         /\ IsFiniteSet(Clients)
                         /\ Workers \cap Clients = {}
                         /\ NoTask \notin Tasks

Threads == Workers \cup Clients

VARIABLES tasks,      \* tasks_
          is_stop,    \* is_stop_
          pc,         \* where each thread is
          cur,        \* the local variable task of each worker
          future,     \* the shared state of each packaged_task
          dtor,       \* progress of ~ThreadPool()
          submitted,  \* history: accepted tasks in order
          started     \* history: tasks in the order workers took them

vars == <<tasks, is_stop, pc, cur, future, dtor, submitted, started>>

WorkerPcs == {"loop", "wait", "run", "notify", "exited"}
ClientPcs == {"idle", "notify"}
Outcomes  == {"none", "rejected", "pending", "value", "exception"}

Sleepers == {w \in Workers : pc[w] = "wait"}
Running  == {w \in Workers : pc[w] \in {"run", "notify"}}
\* The unresolved tasks, the tasks in tasks_, and the tasks that workers have popped.
Pending  == {j \in Tasks : future[j] = "pending"}
Queued   == {tasks[i] : i \in 1..Len(tasks)}
InHand   == {cur[w] : w \in Running}
\* The threads on their way to a wake-up call or to the queue.
Tokens   == {t \in Threads : pc[t] \in {"notify", "loop"}}

TypeOK == /\ tasks \in Seq(Tasks)
          /\ is_stop \in BOOLEAN
          /\ pc \in [Threads -> WorkerPcs \cup ClientPcs]
          /\ \A w \in Workers : pc[w] \in WorkerPcs
          /\ \A c \in Clients : pc[c] \in ClientPcs
          /\ cur \in [Workers -> Tasks \cup {NoTask}]
          /\ future \in [Tasks -> Outcomes]
          /\ dtor \in {"alive", "notify", "join", "gone"}
          /\ submitted \in Seq(Tasks)
          /\ started \in Seq(Tasks)

Init == /\ tasks = <<>>
        /\ is_stop = FALSE
        /\ pc = [t \in Threads |-> IF t \in Workers THEN "loop" ELSE "idle"]
        /\ cur = [w \in Workers |-> NoTask]
        /\ future = [j \in Tasks |-> "none"]
        /\ dtor = "alive"
        /\ submitted = <<>>
        /\ started = <<>>
-----------------------------------------------------------------------------
(* Enqueue *)

\* A client between calls, or a task that runs on a worker.
MayCall(t) == \/ t \in Clients /\ pc[t] = "idle" /\ dtor = "alive"
              \/ t \in Workers /\ pc[t] = "run"

Push(t, j, next) ==
    /\ MayCall(t)
    /\ future[j] = "none"
    /\ tasks' = Append(tasks, j)
    /\ submitted' = Append(submitted, j)
    /\ future' = [future EXCEPT ![j] = "pending"]
    /\ pc' = [pc EXCEPT ![t] = next]
    /\ UNCHANGED <<is_stop, cur, dtor, started>>

EnqueueWithoutStopCheck(t, j) == Push(t, j, "notify")
EnqueueWithoutNotify(t, j) ==
    ~is_stop /\ Push(t, j, IF t \in Workers THEN "run" ELSE "idle")

Enqueue(t, j) == ~is_stop /\ Push(t, j, "notify")

\* "enqueue on stopped ThreadPool": the caller gets an exception, no future.
EnqueueThrows(t, j) ==
    /\ is_stop
    /\ MayCall(t)
    /\ future[j] = "none"
    /\ future' = [future EXCEPT ![j] = "rejected"]
    /\ UNCHANGED <<tasks, is_stop, pc, cur, dtor, submitted, started>>

AfterNotify(t) == IF t \in Workers THEN "run" ELSE "idle"

NotifyOne(t) ==
    /\ pc[t] = "notify"
    /\ \/ /\ Sleepers = {}
          /\ pc' = [pc EXCEPT ![t] = AfterNotify(t)]
       \/ \E w \in Sleepers :
             pc' = [pc EXCEPT ![t] = AfterNotify(t), ![w] = "loop"]
    /\ UNCHANGED <<tasks, is_stop, cur, future, dtor, submitted, started>>
-----------------------------------------------------------------------------
(* The worker loop *)

Sleep(w) == /\ pc[w] = "loop"
            /\ tasks = <<>>
            /\ pc' = [pc EXCEPT ![w] = "wait"]
            /\ UNCHANGED <<tasks, is_stop, cur, future, dtor, submitted, started>>

WorkerSleep(w) == ~is_stop /\ Sleep(w)

SpuriousWakeup(w) ==
    /\ pc[w] = "wait"
    /\ pc' = [pc EXCEPT ![w] = "loop"]
    /\ UNCHANGED <<tasks, is_stop, cur, future, dtor, submitted, started>>

Take(w, j, rest) ==
    /\ pc[w] = "loop"
    /\ cur' = [cur EXCEPT ![w] = j]
    /\ tasks' = rest
    /\ started' = Append(started, j)
    /\ pc' = [pc EXCEPT ![w] = "run"]
    /\ UNCHANGED <<is_stop, future, dtor, submitted>>

WorkerTakeNewest(w) ==
    tasks # <<>> /\ Take(w, tasks[Len(tasks)], SubSeq(tasks, 1, Len(tasks) - 1))

WorkerTake(w) == tasks # <<>> /\ Take(w, Head(tasks), Tail(tasks))

Exit(w) == /\ pc[w] = "loop"
           /\ is_stop
           /\ pc' = [pc EXCEPT ![w] = "exited"]
           /\ UNCHANGED <<tasks, is_stop, cur, future, dtor, submitted, started>>

WorkerExitWithoutDraining(w) == Exit(w)
WorkerExit(w) == tasks = <<>> /\ Exit(w)

\* task() returns: packaged_task stores the value or the exception.
TaskEnds(w, r) ==
    /\ pc[w] = "run"
    /\ future' = [future EXCEPT ![cur[w]] = r]
    /\ cur' = [cur EXCEPT ![w] = NoTask]
    /\ pc' = [pc EXCEPT ![w] = "loop"]
    /\ UNCHANGED <<tasks, is_stop, dtor, submitted, started>>

TaskReturns(w) == TaskEnds(w, "value")
TaskThrows(w)  == TaskEnds(w, "exception")
-----------------------------------------------------------------------------
(* ~ThreadPool() *)

StopPool == /\ dtor = "alive"
            /\ \A c \in Clients : pc[c] = "idle"
            /\ is_stop' = TRUE
            /\ dtor' = "notify"
            /\ UNCHANGED <<tasks, pc, cur, future, submitted, started>>

Wake(S) == /\ dtor = "notify"
           /\ pc' = [t \in Threads |-> IF t \in S THEN "loop" ELSE pc[t]]
           /\ dtor' = "join"
           /\ UNCHANGED <<tasks, is_stop, cur, future, submitted, started>>

NotifyOnlyOne == IF Sleepers = {} THEN Wake({}) ELSE \E w \in Sleepers : Wake({w})

NotifyAll == Wake(Sleepers)

JoinAll == /\ dtor = "join"
           /\ \A w \in Workers : pc[w] = "exited"
           /\ dtor' = "gone"
           /\ UNCHANGED <<tasks, is_stop, pc, cur, future, submitted, started>>

Terminated == dtor = "gone" /\ UNCHANGED vars
-----------------------------------------------------------------------------
WorkerStep(w) == \/ WorkerSleep(w) \/ WorkerTake(w) \/ WorkerExit(w)
                 \/ TaskReturns(w) \/ TaskThrows(w)

Next == \/ \E t \in Threads, j \in Tasks : Enqueue(t, j) \/ EnqueueThrows(t, j)
        \/ \E t \in Threads : NotifyOne(t)
        \/ \E w \in Workers : WorkerStep(w) \/ SpuriousWakeup(w)
        \/ StopPool \/ NotifyAll \/ JoinAll
        \/ Terminated

Spec == Init /\ [][Next]_vars

\* The OS runs every thread that can run, tasks terminate, and a destructor
\* that was entered goes on.  Nobody has to call Enqueue or the destructor.
Fairness == /\ \A w \in Workers : WF_vars(WorkerStep(w))
            /\ \A t \in Threads : WF_vars(NotifyOne(t))
            /\ WF_vars(NotifyAll \/ JoinAll)

FairSpec == Spec /\ Fairness
-----------------------------------------------------------------------------
(* Properties *)

\* Tasks are taken in the order they were accepted, none is dropped and none
\* is taken twice (tasks_ is filled and emptied under queue_mutex_ only).
StartOrder == started \o tasks = submitted

\* A future is unresolved exactly while its task is in tasks_ or in the hands
\* of one worker: an accepted task is never lost between the pop and the call,
\* and no two workers call the same packaged_task.
PendingIsOwned ==
    /\ Pending = Queued \cup InHand
    /\ Queued \cap InHand = {}
    /\ \A i, k \in 1..Len(tasks) : tasks[i] = tasks[k] => i = k
    /\ \A v, w \in Running : cur[v] = cur[w] => v = w

\* No lost wake-up: a worker only sleeps on condition_ while there are tasks
\* if, for each queued task, some thread is about to notify or to look at the
\* queue.  notify_one() outside the lock does not break this.
NoLostWakeup == Sleepers = {} \/ Len(tasks) <= Cardinality(Tokens)

\* The destructor never joins a worker that sleeps on condition_, although
\* is_stop_ is set and notify_all() is called in two separate steps.
NoSleeperAtJoin == dtor \in {"join", "gone"} => Sleepers = {}

\* When the destructor returns every accepted task has run: no std::future
\* handed out by Enqueue is left unresolved.
DrainedWhenGone == dtor = "gone" => /\ tasks = <<>>
                                    /\ \A j \in Tasks : future[j] # "pending"

\* How the control state hangs together: is_stop_ is set exactly when the
\* destructor was entered, a worker holds a task exactly while it runs one, a
\* worker only leaves its loop when the stopped queue is empty, and join()
\* returns when all have left.  With the properties above it is inductive.
ControlInv ==
    /\ is_stop <=> dtor # "alive"
    /\ \A w \in Workers : cur[w] # NoTask <=> w \in Running
    /\ \A w \in Workers : pc[w] = "exited" => is_stop /\ tasks = <<>>
    /\ dtor = "gone" => \A w \in Workers : pc[w] = "exited"

IInv == /\ TypeOK
        /\ ControlInv
        /\ StartOrder
        /\ PendingIsOwned
        /\ NoLostWakeup
        /\ NoSleeperAtJoin

\* The pool implements the abstract executor with one slot per worker.
Executor == INSTANCE TaskExecutor WITH
    Slots    <- Workers,
    pending  <- tasks,
    running  <- cur,
    outcome  <- future,
    phase    <- IF dtor = "gone" THEN "shut" ELSE IF is_stop THEN "closed" ELSE "open"

\* Every step of the pool is a step of the executor, or invisible to callers.
ImplementsExecutor == Executor!SafeSpec
\* ... and a task is not left pending while a worker has nothing to do.
ImplementsFairExecutor == Executor!Spec
=============================================================================
