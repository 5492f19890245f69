---------------------- MODULE PeerConnectionsProofs ----------------------
(***************************************************************************)
(* Proofs about PeerConnections for any set of requests.                   *)
(***************************************************************************)
EXTENDS PeerConnections, TLAPS

\* Who closes a connection, and which ones on_shutdown has in its list.
Closer(c) ==
    /\ close[c] = "closing" => handler[c] = "closing" \/ coros[c] = "awaiting"
    /\ handler[c] = "closing" => close[c] # "open"
    /\ coros[c] \in {"awaiting", "done"} => close[c] # "open"

Listed(c) ==
    /\ app = "running" => coros[c] = "none"
    /\ app = "gathering" /\ c \in pcs \ late => coros[c] # "none"

Forgotten(c) ==
    \/ c \in pcs \cup late \/ conn[c] = "none"
    \/ close[c] = "closed" \/ handler[c] = "closing" \/ coros[c] = "awaiting"

PeerInv(c) == Closer(c) /\ Listed(c) /\ Forgotten(c)

IInv == TypeOK /\ \A c \in Requests : PeerInv(c)

USE DEF Moves
-----------------------------------------------------------------------------
\* The coroutines leave the set and the states of its members well formed.
LEMMA StepTyped == TypeOK /\ [Next]_vars => TypeOK'
<1> SUFFICES ASSUME TypeOK, [Next]_vars PROVE TypeOK'
  OBVIOUS
<1> USE DEF TypeOK
<1>1. ASSUME NEW c \in Requests, Request(c) \/ BadRequest(c) \/ Register(c) \/ Answer(c)
      PROVE  TypeOK'
  BY <1>1 DEF Request, BadRequest, Register, Answer
<1>2. ASSUME NEW c \in Requests, Connects(c) \/ Fails(c) \/ PeerLeaves(c)
      PROVE  TypeOK'
  BY <1>2 DEF Connects, Fails, PeerLeaves, StateChange
<1>3. ASSUME NEW c \in Requests, Handle(c) PROVE TypeOK'
  BY <1>3 DEF Handle, HandleOn, Closes
<1>4. ASSUME NEW c \in Requests, Closed(c) \/ Discard(c) PROVE TypeOK'
  BY <1>4 DEF Closed, Discard
<1>5. ASSUME NEW c \in Requests, ShutClose(c) \/ ShutCloseDone(c) PROVE TypeOK'
  BY <1>5 DEF ShutClose, ShutCloseDone, Closes
<1>6. CASE OnShutdown \/ GatherDone \/ Exit
  BY <1>6 DEF OnShutdown, GatherDone, GatherIf, Exit, peer
<1>7. CASE Terminated \/ UNCHANGED vars
  BY <1>7 DEF Terminated, vars, peer
<1> QED
  BY <1>1, <1>2, <1>3, <1>4, <1>5, <1>6, <1>7 DEF Next, Loop

\* Whatever happens to one connection c, each connection d stays with somebody
\* who closes it, in the list of on_shutdown, or closed before it is forgotten.
LEMMA StepOfPeer ==
  ASSUME IInv, [Next]_vars, NEW d \in Requests PROVE PeerInv(d)'
<1> USE DEF IInv, TypeOK, PeerInv, Closer, Listed, Forgotten
<1>1. ASSUME NEW c \in Requests, Request(c) \/ BadRequest(c) \/ Answer(c) PROVE PeerInv(d)'
  BY <1>1 DEF Request, BadRequest, Answer
<1>2. ASSUME NEW c \in Requests, Register(c) PROVE PeerInv(d)'
  BY <1>2 DEF Register
<1>3. ASSUME NEW c \in Requests, Connects(c) \/ Fails(c) \/ PeerLeaves(c)
      PROVE  PeerInv(d)'
  BY <1>3 DEF Connects, Fails, PeerLeaves, StateChange
<1>4. ASSUME NEW c \in Requests, Handle(c) PROVE PeerInv(d)'
  <2>1. CASE handler'[c] = "closing"
    BY <1>4, <2>1 DEF Handle, HandleOn, Closes
  <2>2. CASE handler'[c] = "idle"
    BY <1>4, <2>2 DEF Handle, HandleOn, Closes
  <2> QED
    BY <1>4, <2>1, <2>2 DEF Handle, HandleOn
<1>5. ASSUME NEW c \in Requests, Closed(c) \/ Discard(c) PROVE PeerInv(d)'
  BY <1>5 DEF Closed, Discard
<1>6. ASSUME NEW c \in Requests, ShutClose(c) PROVE PeerInv(d)'
  BY <1>6 DEF ShutClose, Closes
<1>7. ASSUME NEW c \in Requests, ShutCloseDone(c) PROVE PeerInv(d)'
  BY <1>7 DEF ShutCloseDone
<1>8. CASE OnShutdown
  BY <1>8 DEF OnShutdown
<1>9. CASE GatherDone
  <2>1. coros[d] \in {"none", "done"} /\ app = "gathering"
    BY <1>9 DEF GatherDone, GatherIf
  <2>2. d \in pcs \ late => close[d] = "closed" \/ handler[d] = "closing"
    BY <2>1
  <2> QED
    BY <1>9, <2>1, <2>2 DEF GatherDone, GatherIf, peer
<1>10. CASE Exit \/ Terminated \/ UNCHANGED vars
  BY <1>10 DEF Exit, Terminated, vars, peer
<1> QED
  BY <1>1, <1>2, <1>3, <1>4, <1>5, <1>6, <1>7, <1>8, <1>9, <1>10 DEF Next, Loop

\* In every reachable state a connection that is being closed has a coroutine
\* that waits for it, and the list of on_shutdown has all that were in pcs.
THEOREM PeerInvariant == Spec => []IInv
<1>1. Init => IInv
  BY DEF Init, IInv, TypeOK, PeerInv, Closer, Listed, Forgotten
<1>2. IInv /\ [Next]_vars => IInv'
  BY StepTyped, StepOfPeer DEF IInv
<1> QED
  BY <1>1, <1>2, PTL DEF Spec

\* No connection is forgotten while nobody closes it, for any number of offers,
\* except those made after on_shutdown took its list (aiortc_server.py:174-178).
THEOREM NoneForgottenOpen == Spec => []ForgottenIsClosed
<1>1. IInv => ForgottenIsClosed
  BY DEF IInv, PeerInv, Forgotten, ForgottenIsClosed
<1> QED
  BY <1>1, PeerInvariant, PTL
=============================================================================
