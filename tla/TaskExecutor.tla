--------------------------- MODULE TaskExecutor ---------------------------
(***************************************************************************)
(* What util::ThreadPool promises to its callers, without its threads,     *)
(* mutex or condition variable: accepted tasks start in the order they     *)
(* were accepted, each slot runs one task at a time, every accepted task      *)
(* finishes once, and after Close nothing is accepted but everything       *)
(* accepted before is still run.                                           *)
(***************************************************************************)
EXTENDS Sequences

CONSTANTS Tasks,      \* the identifiers of the submitted callables
          Slots,      \* what runs tasks, one at a time each
          NoTask

VARIABLES pending,    \* accepted and not yet started, oldest first
          running,    \* the task of each slot, or NoTask
          outcome,    \* what the caller sees through the std::future
          phase       \* "open", "closed" (destructor entered), "shut"

vars == <<pending, running, outcome, phase>>

Outcomes == {"none", "rejected", "pending", "value", "exception"}

Init == /\ pending = <<>>
        /\ running = [s \in Slots |-> NoTask]
        /\ outcome = [j \in Tasks |-> "none"]
        /\ phase = "open"

Accept(j) == /\ phase = "open"
             /\ outcome[j] = "none"
             /\ pending' = Append(pending, j)
             /\ outcome' = [outcome EXCEPT ![j] = "pending"]
             /\ UNCHANGED <<running, phase>>

Reject(j) == /\ phase = "closed"
             /\ outcome[j] = "none"
             /\ outcome' = [outcome EXCEPT ![j] = "rejected"]
             /\ UNCHANGED <<pending, running, phase>>

Start(s) == /\ pending # <<>>
            /\ running[s] = NoTask
            /\ running' = [running EXCEPT ![s] = Head(pending)]
            /\ pending' = Tail(pending)
            /\ UNCHANGED <<outcome, phase>>

Finish(s) == /\ running[s] # NoTask
             /\ \E r \in {"value", "exception"} :
                   outcome' = [outcome EXCEPT ![running[s]] = r]
             /\ running' = [running EXCEPT ![s] = NoTask]
             /\ UNCHANGED <<pending, phase>>

Close == /\ phase = "open"
         /\ phase' = "closed"
         /\ UNCHANGED <<pending, running, outcome>>

Shut == /\ phase = "closed"
        /\ pending = <<>>
        /\ \A s \in Slots : running[s] = NoTask
        /\ phase' = "shut"
        /\ UNCHANGED <<pending, running, outcome>>

Next == \/ \E j \in Tasks : Accept(j) \/ Reject(j)
        \/ \E s \in Slots : Start(s) \/ Finish(s)
        \/ Close
        \/ Shut

SafeSpec == Init /\ [][Next]_vars

\* No slot stays idle in front of a pending task, started tasks finish, and a
\* closed and drained executor shuts down.
Spec == /\ SafeSpec
        /\ WF_vars(\E s \in Slots : Start(s))
        /\ \A s \in Slots : WF_vars(Finish(s))
        /\ WF_vars(Shut)
=============================================================================
