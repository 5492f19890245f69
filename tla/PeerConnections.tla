------------------------ MODULE PeerConnections ------------------------
(***************************************************************************)
(* The set pcs of aiortc_server.py, and who adds to it, closes and         *)
(* forgets its members: the coroutines of offer, of the handlers of        *)
(* "connectionstatechange" and of on_shutdown, which interleave at their   *)
(* awaits.  A connection is named by the request that makes it.  aiohttp   *)
(* and aiortc are external: a coroutine of theirs ends or raises, and a    *)
(* second close waits for the first or returns at once, as their versions  *)
(* do.                                                                     *)
(***************************************************************************)
CONSTANT Requests      \* the POSTs of /offer

VARIABLES pcs,         \* the connections the server knows
          offer,       \* each offer: "none", "json", "sdp", "done", "raised"
          conn,        \* connectionState: "none", "new", "connected", "failed", "closed"
          close,       \* pc.close: "open", "closing", "closed"
          handler,     \* on_connectionstatechange: "idle", "scheduled", "closing"
          coros,       \* on_shutdown: "none", "task", "awaiting", "done"
          app,         \* "running", "gathering", "cleared", "exited"
          late         \* history: the connections made once on_shutdown ran

peer == <<offer, conn, close, handler, coros>>
vars == <<pcs, peer, app, late>>

TypeOK == /\ pcs \subseteq Requests /\ late \subseteq Requests
          /\ offer \in [Requests -> {"none", "json", "sdp", "done", "raised"}]
          /\ conn \in [Requests -> {"none", "new", "connected", "failed", "closed"}]
          /\ close \in [Requests -> {"open", "closing", "closed"}]
          /\ handler \in [Requests -> {"idle", "scheduled", "closing"}]
          /\ coros \in [Requests -> {"none", "task", "awaiting", "done"}]
          /\ app \in {"running", "gathering", "cleared", "exited"}

Init == /\ pcs = {} /\ late = {} /\ app = "running"
        /\ offer = [c \in Requests |-> "none"] /\ conn = [c \in Requests |-> "none"]
        /\ close = [c \in Requests |-> "open"] /\ handler = [c \in Requests |-> "idle"]
        /\ coros = [c \in Requests |-> "none"]
-----------------------------------------------------------------------------
Moves(f, c, to) == app # "exited" /\ f' = [f EXCEPT ![c] = to]

\* A POST arrives, on a new connection or, until the process exits, an open one.
Request(c) == /\ offer[c] = "none" /\ Moves(offer, c, "json")
              /\ UNCHANGED <<pcs, conn, close, handler, coros, app, late>>

\* From `await request.json()` to the first await of the connection: a body
\* that is no offer raises before it is made, MediaPlayer after pcs.add.
BadRequest(c) == /\ offer[c] = "json" /\ Moves(offer, c, "raised")
                 /\ UNCHANGED <<pcs, conn, close, handler, coros, app, late>>

Register(c) == /\ offer[c] = "json"
               /\ \E next \in {"sdp", "raised"} : Moves(offer, c, next)
               /\ conn' = [conn EXCEPT ![c] = "new"]
               /\ pcs' = pcs \cup {c}
               /\ late' = IF app = "running" THEN late ELSE late \cup {c}
               /\ UNCHANGED <<close, handler, coros, app>>

\* The awaits from setRemoteDescription on: the response, or an exception.
Answer(c) == /\ offer[c] = "sdp"
             /\ \E next \in {"done", "raised"} : Moves(offer, c, next)
             /\ UNCHANGED <<pcs, conn, close, handler, coros, app, late>>

\* The connection changes its state, unless it is being closed: it connects
\* after setLocalDescription, fails, or ends when the peer leaves.
StateChange(c, from, to) ==
    /\ close[c] = "open" /\ conn[c] \in from
    /\ Moves(conn, c, to)
    /\ handler' = [handler EXCEPT ![c] = "scheduled"]
    /\ UNCHANGED <<pcs, offer, close, coros, app, late>>

Connects(c)   == offer[c] \in {"sdp", "done"} /\ StateChange(c, {"new"}, "connected")
Fails(c)      == offer[c] \in {"sdp", "done"} /\ StateChange(c, {"new", "connected"}, "failed")
PeerLeaves(c) == StateChange(c, {"connected"}, "closed")

\* pc.close(): begins to close, or finds that it was called before.
Closes(c) == close' = [close EXCEPT ![c] = IF @ = "open" THEN "closing" ELSE @]

\* The handler looks at the state when it runs, not when it was scheduled:
\* while on_shutdown closes the connection it is still "failed", or no more.
HandleOn(c, state) ==
    /\ handler[c] = "scheduled"
    /\ \/ /\ conn[c] = state /\ Moves(handler, c, "closing")
          /\ Closes(c) /\ UNCHANGED pcs
       \/ /\ conn[c] = state /\ close[c] = "closing" /\ Moves(handler, c, "idle")
          /\ pcs' = pcs \ {c} /\ UNCHANGED close
       \/ /\ conn[c] # state \/ close[c] = "closing"
          /\ Moves(handler, c, "idle") /\ UNCHANGED <<pcs, close>>
    /\ UNCHANGED <<offer, conn, coros, app, late>>

HandleClosed(c) == HandleOn(c, "closed")

Handle(c) == HandleOn(c, "failed")

\* The close has ended: aiortc sets the state.
Closed(c) == /\ close[c] = "closing" /\ Moves(close, c, "closed")
             /\ conn' = [conn EXCEPT ![c] = "closed"]
             /\ UNCHANGED <<pcs, offer, handler, coros, app, late>>

\* pcs.discard(pc), after `await pc.close()`.
Discard(c) == /\ handler[c] = "closing" /\ Moves(handler, c, "idle")
              /\ close[c] = "closed"
              /\ pcs' = pcs \ {c}
              /\ UNCHANGED <<offer, conn, close, coros, app, late>>
-----------------------------------------------------------------------------
(* on_shutdown *)

\* The list is built without an await, so pcs does not change under it.
OnShutdown == /\ app = "running" /\ app' = "gathering"
              /\ coros' = [c \in Requests |-> IF c \in pcs THEN "task" ELSE "none"]
              /\ UNCHANGED <<pcs, offer, conn, close, handler, late>>

ShutClose(c) ==
    /\ coros[c] = "task"
    /\ \/ close[c] # "closed" /\ Moves(coros, c, "awaiting")
       \/ close[c] # "open" /\ Moves(coros, c, "done")
    /\ Closes(c)
    /\ UNCHANGED <<pcs, offer, conn, handler, app, late>>

ShutCloseDone(c) == /\ coros[c] = "awaiting" /\ close[c] = "closed"
                    /\ Moves(coros, c, "done")
                    /\ UNCHANGED <<pcs, offer, conn, close, handler, app, late>>

GatherIf(ready) == /\ app = "gathering" /\ ready
                   /\ app' = "cleared" /\ pcs' = {}
                   /\ UNCHANGED <<peer, late>>

GatherUnawaited == GatherIf(TRUE)
GatherUntilEmpty == GatherIf(pcs = {})

GatherDone == GatherIf(\A c \in Requests : coros[c] \in {"none", "done"})

\* run_app ends the handlers that still run, and the process.
Exit == /\ app = "cleared" /\ app' = "exited"
        /\ UNCHANGED <<pcs, peer, late>>

Terminated == app = "exited" /\ UNCHANGED vars
-----------------------------------------------------------------------------
Loop(c) == Handle(c) \/ Closed(c) \/ Discard(c) \/ ShutClose(c) \/ ShutCloseDone(c)

Next == \/ \E c \in Requests : \/ Request(c) \/ BadRequest(c) \/ Register(c) \/ Answer(c)
                               \/ Connects(c) \/ Fails(c) \/ PeerLeaves(c)
                               \/ Loop(c)
        \/ OnShutdown \/ GatherDone \/ Exit
        \/ Terminated

Spec == Init /\ [][Next]_vars

\* The event loop runs every task that is ready, and closing ends.  Clients
\* need not finish what they send, and nobody need stop the server.
Fairness == /\ \A c \in Requests : WF_vars(Handle(c) \/ Discard(c)) /\ WF_vars(Closed(c))
                                   /\ WF_vars(ShutClose(c) \/ ShutCloseDone(c))
            /\ WF_vars(GatherDone) /\ WF_vars(Exit)

FairSpec == Spec /\ Fairness
-----------------------------------------------------------------------------
(* Properties *)

\* Types; and a connection the server forgets is closed, or somebody waits for
\* its close: what offers add and handlers discard while on_shutdown gathers
\* does not hide one from it.  An offer that is still in request.json() when
\* on_shutdown begins escapes: its connection is in no coroutine.
ForgottenIsClosed ==
    /\ TypeOK
    /\ \A c \in Requests \ (pcs \cup late) :
          conn[c] = "none" \/ close[c] = "closed" \/ handler[c] = "closing" \/ coros[c] = "awaiting"

\* A failed connection is closed and leaves pcs, also when it fails again or
\* the server closes it meanwhile.
FailedIsForgotten ==
    \A c \in Requests : (conn[c] = "failed") ~> \/ c \notin pcs /\ close[c] # "open"
                                             \/ app = "exited"

\* A server told to stop ends, whatever the handlers close at the same time.
ShutdownEnds == app = "gathering" ~> app = "exited"
-----------------------------------------------------------------------------
(* What a comment says *)

\* aiortc_server.py:209: on_shutdown closes the connections when the application is
\* shut down.  One that is made while it gathers is cleared unclosed.
ShutdownReleasesAll ==
    app = "exited" => \A c \in Requests : conn[c] = "none" \/ close[c] = "closed"
=============================================================================
