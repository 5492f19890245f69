------------------------ MODULE AppLifecycleProofs ------------------------
(***************************************************************************)
(* Proofs about AppLifecycle for any capacity of the logger's channel and  *)
(* any number of calls.                                                    *)
(***************************************************************************)
EXTENDS AppLifecycle, SequenceTheorems, TLAPS

\* main has not passed the switch over the commands.
Early == {"action", "flagError", "sayStop", "sayNoPid", "interrupt", "stopped", "fork"}

\* Whether a goroutine of the WaitGroup has yet to call Done.
Busy(g) == IF pc[g] \in {"off", "ended"} THEN 0 ELSE 1

\* The order in which the goroutines are started.
Started == /\ pc["main"] \in Early => pc["run"] = "off"
           /\ control = "" /\ pc["main"] \notin Early => pc["run"] # "off"
           /\ pc["run"] \in {"off", "start", "init", "spawn"} => pc["http"] = "off"
           /\ pc["run"] \in {"off", "start", "init", "spawn", "sayGrpc", "listen"} =>
                 pc["grpcStop"] = "off"

\* What wait has seen.
Waited == /\ pc["main"] = "sayForced" => forced
          /\ (control = "" /\ pc["main"] \in {"close", "await", "closed"} /\ ~forced) =>
                pc["run"] = "ended" /\ pc["http"] \in {"off", "ended"}

\* Why the servers are down.
HttpDown == /\ pc["httpWait"] \in {"send", "ended"} => httpClosed
            /\ pc["http"] \in {"send", "sayShutdown", "done", "ended"} =>
                  httpClosed \/ pc["httpListen"] = "ended"

GrpcDown == /\ pc["grpcStop"] \in {"off", "ctx", "sayTry", "stop"} => grpc \in {"new", "serving"}
            /\ pc["run"] \in {"sayPanic", "sendPanic"} => result["run"] = "err"
            /\ (pc["run"] \in {"sayQuit", "send", "sayEnd", "done", "ended"} /\ result["run"] = "nil") =>
                  grpc = "stopped"
            /\ grpc = "stopped" => inflight = 0

Counted == wg = Busy("run") + Busy("http")

CtlInv == Started /\ Waited /\ HttpDown /\ GrpcDown /\ Counted

IInv == TypeOK /\ CtlInv

USE DEF At, GoTo, Line
-----------------------------------------------------------------------------
(* Steps that move one goroutine and change nothing that the invariant is about *)

Quiet == UNCHANGED <<result, wg, httpClosed, grpc, inflight, forced, control>>

Local(g, here, next) == /\ pc[g] = here
                        /\ pc' \in {pc, [pc EXCEPT ![g] = next]}
                        /\ Quiet

\* The steps that say, wait or send leave alone what the control state is about.
LEMMA LocalSteps ==
  ASSUME NEW g \in Goroutines, NEW here, NEW next
  PROVE  /\ Say(g, here, next) => Local(g, here, next)
         /\ Step(g, here, next) /\ Alone => Local(g, here, next)
         /\ CloseLogger(g, here, next) => Local(g, here, next)
         /\ \A end : AwaitLogger(g, here, next, end) => Local(g, here, next)
         /\ \A err : SendErr(g, here, next, err) => Local(g, here, next)
BY DEF Local, Quiet, Say, Step, CloseLogger, AwaitLogger, SendErr, Alone, shared, server, ctl

\* The channel takes a line, or the writer one from it.
LEMMA SinkTyped ==
  ASSUME accepted \in Seq({Line}), written \in 0..Len(accepted),
         phase \in {"open", "closed", "flushed"},
         \/ Logger!Accept(Line) \/ Logger!WriteNext \/ Logger!Close \/ Logger!Flushed
         \/ UNCHANGED sink
  PROVE  /\ accepted' \in Seq({Line}) /\ written' \in 0..Len(accepted')
         /\ phase' \in {"open", "closed", "flushed"}
<1>1. CASE Logger!Accept(Line)
  <2>1. Append(accepted, Line) \in Seq({Line}) /\ Len(Append(accepted, Line)) = Len(accepted) + 1
    OBVIOUS
  <2> QED
    BY <1>1, <2>1 DEF Logger!Accept
<1>2. CASE ~Logger!Accept(Line)
  BY <1>2 DEF Logger!WriteNext, Logger!Close, Logger!Flushed, sink
<1> QED
  BY <1>1, <1>2
-----------------------------------------------------------------------------
(* The control state *)

\* Moves that need no reason: a goroutine goes from the second to the third.
LocalMoves == {<<"main", "action", "flagError">>, <<"main", "action", "fork">>,
               <<"main", "action", "stopped">>, <<"main", "action", "sayStop">>,
               <<"main", "action", "sayNoPid">>, <<"main", "sayStop", "interrupt">>,
               <<"main", "sayNoPid", "stopped">>, <<"main", "stopped", "fork">>,
               <<"main", "notify", "select">>, <<"main", "saySignal", "cancel">>,
               <<"main", "sayError", "cancel">>, <<"main", "close", "await">>,
               <<"main", "await", "closed">>, <<"main", "select", "saySignal">>,
               <<"main", "select", "sayError">>, <<"main", "select", "cancel">>,
               <<"main", "cancel", "wait">>, <<"main", "interrupt", "stopped">>, <<"run", "start", "init">>,
               <<"run", "init", "spawn">>, <<"run", "sayGrpc", "listen">>,
               <<"run", "sayQuit", "send">>, <<"run", "send", "sayEnd">>,
               <<"run", "sendPanic", "done">>, <<"run", "sayEnd", "done">>,
               <<"run", "sayPanic", "sendPanic">>, <<"run", "listen", "fatal">>,
               <<"run", "fatal", "fatalClose">>, <<"run", "fatalClose", "fatalAwait">>,
               <<"run", "fatalAwait", "fatalAwait">>, <<"grpcStop", "ctx", "sayTry">>,
               <<"grpcStop", "sayTry", "stop">>, <<"grpcStop", "sayDone", "ended">>,
               <<"http", "start", "spawn">>, <<"http", "sayShutdown", "done">>,
               <<"http", "send", "done">>, <<"httpListen", "listen", "serving">>,
               <<"httpListen", "listen", "ended">>, <<"httpListen", "serving", "ended">>}

\* A local step leaves every other goroutine where it is.
LEMMA Frame ==
  ASSUME TypeOK, NEW g \in Goroutines, NEW here, NEW next, Local(g, here, next)
  PROVE  /\ pc'[g] \in {here, next} /\ pc[g] = here
         /\ \A x \in Goroutines \ {g} : pc'[x] = pc[x]
         /\ Quiet
BY DEF TypeOK, Local

\* A goroutine that only moves disturbs none of it, if the move is one of these.
LEMMA LocalCtl ==
  ASSUME TypeOK, CtlInv, NEW g \in Goroutines, NEW here, NEW next,
         <<g, here, next>> \in LocalMoves, Local(g, here, next)
  PROVE  CtlInv'
<1> USE DEF CtlInv, Goroutines
<1>1. /\ pc'[g] \in {here, next} /\ pc[g] = here
      /\ \A x \in Goroutines \ {g} : pc'[x] = pc[x]
      /\ UNCHANGED <<result, wg, httpClosed, grpc, inflight, forced, control>>
  BY Frame DEF Quiet
<1>3. Started'
  <2>0. /\ pc'["main"] \in Early <=> pc["main"] \in Early
        /\ pc'["run"] = "off" <=> pc["run"] = "off"
    <3>1. CASE g = "main"
      <4>1. here \in Early <=> next \in Early
        BY <3>1 DEF Early, LocalMoves
      <4> QED
        BY <1>1, <3>1, <4>1
    <3>2. CASE g = "run"
      <4>1. here # "off" /\ next # "off"
        BY <3>2 DEF LocalMoves
      <4> QED
        BY <1>1, <3>2, <4>1
    <3> QED
      BY <1>1, <3>1, <3>2
  <2>1. (pc["main"] \in Early => pc["run"] = "off")'
    BY <1>1, <2>0 DEF Started
  <2>2. (control = "" /\ pc["main"] \notin Early => pc["run"] # "off")'
    BY <1>1, <2>0 DEF Started
  <2>3. (pc["run"] \in {"off", "start", "init", "spawn"} => pc["http"] = "off")'
    BY <1>1 DEF Started, LocalMoves
  <2>4. (pc["run"] \in {"off", "start", "init", "spawn", "sayGrpc", "listen"} =>
                 pc["grpcStop"] = "off")'
    BY <1>1 DEF Started, LocalMoves
  <2> QED
    BY <2>1, <2>2, <2>3, <2>4 DEF Started
<1>4. Waited'
  BY <1>1 DEF Waited, LocalMoves
<1>5. HttpDown'
  BY <1>1 DEF HttpDown, LocalMoves
<1>6. GrpcDown'
  BY <1>1 DEF GrpcDown, LocalMoves
<1>7. Counted'
  BY <1>1 DEF Counted, Busy, LocalMoves
<1> QED
  BY <1>3, <1>4, <1>5, <1>6, <1>7

\* So does a line logged on the way, also when the logger panics.
LEMMA SayCtl ==
  ASSUME TypeOK, CtlInv, NEW g \in Goroutines, NEW here, NEW next,
         <<g, here, next>> \in LocalMoves, Say(g, here, next)
  PROVE  CtlInv'
BY LocalCtl, LocalSteps

\* So does a step of a goroutine that changes only what is left aside here.
LEMMA StepCtl ==
  ASSUME TypeOK, CtlInv, NEW g \in Goroutines, NEW here, NEW next,
         <<g, here, next>> \in LocalMoves, Step(g, here, next), Quiet
  PROVE  CtlInv'
<1>1. Local(g, here, next)
  BY DEF Step, Local
<1> QED
  BY <1>1, LocalCtl

\* Nothing that the control state is about moves.
LEMMA StillCtl == TypeOK /\ CtlInv /\ UNCHANGED pc /\ Quiet => CtlInv'
<1> SUFFICES ASSUME TypeOK, CtlInv, UNCHANGED pc, Quiet PROVE CtlInv'
  OBVIOUS
<1> USE DEF CtlInv, Quiet
<1>1. Started'
  BY DEF Started
<1>2. Waited'
  BY DEF Waited
<1>3. HttpDown'
  BY DEF HttpDown
<1>4. GrpcDown'
  BY DEF GrpcDown
<1>5. Counted'
  BY DEF Counted, Busy
<1> QED
  BY <1>1, <1>2, <1>3, <1>4, <1>5

\* The commands stay among the states before the switch, or main closes.
LEMMA CommandCtl ==
  ASSUME TypeOK, CtlInv, BadFlags \/ FlagsFail \/ Dispatch \/ Interrupt \/ StopReturns \/ Fork
  PROVE  CtlInv'
<1> USE DEF Goroutines
<1>1. CASE BadFlags
  BY <1>1, SayCtl DEF BadFlags, LocalMoves
<1>2. CASE FlagsFail
  BY <1>2, StillCtl DEF FlagsFail, Quiet, Alone, shared, server, ctl
<1>3. CASE control = "help" /\ Step("main", "action", "close") /\ Alone
  <2>1. /\ pc["main"] = "action" /\ pc'["main"] = "close" /\ control = "help"
        /\ \A x \in Goroutines \ {"main"} : pc'[x] = pc[x]
        /\ UNCHANGED <<result, wg, httpClosed, grpc, inflight, forced, control>>
    BY <1>3 DEF Step, TypeOK, Alone, shared, server, ctl
  <2> QED
    BY <2>1 DEF CtlInv, Started, Waited, HttpDown, GrpcDown, Counted, Early, Busy
<1>4. CASE Dispatch /\ control # "help"
  <2>1. \E next \in {"fork", "stopped", "sayStop", "sayNoPid"} :
           Step("main", "action", next) /\ Alone
    BY <1>4 DEF Dispatch
  <2>2. Quiet
    BY <2>1 DEF Quiet, Alone, shared, server, ctl
  <2> QED
    BY <2>1, <2>2, StepCtl DEF LocalMoves
<1>5. CASE Interrupt
  <2>1. Step("main", "interrupt", "stopped") /\ Quiet
    BY <1>5 DEF Interrupt, Quiet, shared, server
  <2> QED
    BY <2>1, StepCtl DEF LocalMoves
<1>6. CASE StopReturns
  <2>1. /\ pc["main"] = "stopped" /\ pc'["main"] = IF control = "stop" THEN "close" ELSE "fork"
        /\ \A x \in Goroutines \ {"main"} : pc'[x] = pc[x]
        /\ UNCHANGED <<result, wg, httpClosed, grpc, inflight, forced, control>>
    BY <1>6 DEF StopReturns, Step, TypeOK, Alone, shared, server, ctl
  <2> QED
    BY <2>1 DEF CtlInv, Started, Waited, HttpDown, GrpcDown, Counted, Early, Busy
<1>7. CASE Fork /\ UNCHANGED pc
  BY <1>7, StillCtl DEF Fork, Child, Quiet, Alone, shared, server, ctl
<1>8. CASE Fork /\ Child
  <2>1. /\ pc["main"] = "fork" /\ pc'["main"] = "action"
        /\ \A x \in Goroutines \ {"main"} : pc'[x] = "off"
        /\ UNCHANGED <<result, wg, httpClosed, grpc, inflight, forced, control>>
    BY <1>8 DEF Fork, Child, server
  <2>2. pc["run"] = "off" /\ pc["http"] = "off" /\ pc["grpcStop"] = "off"
    BY <2>1 DEF CtlInv, Started, Early
  <2>3. wg' = Busy("run")' + Busy("http")'
    BY <2>1, <2>2 DEF CtlInv, Counted, Busy
  <2>4. Started' /\ Waited' /\ HttpDown'
    BY <2>1 DEF Started, Waited, HttpDown, Early
  <2>5. GrpcDown'
    BY <2>1, <2>2 DEF CtlInv, GrpcDown
  <2> QED
    BY <2>3, <2>4, <2>5 DEF CtlInv, Counted
<1>9. Dispatch /\ control = "help" => Step("main", "action", "close") /\ Alone
  BY DEF Dispatch, FindPid
<1>10. Fork => Child \/ UNCHANGED pc
  BY DEF Fork
<1> QED
  BY <1>1, <1>2, <1>3, <1>4, <1>5, <1>6, <1>7, <1>8, <1>9, <1>10

\* main leaves wait without force only when the WaitGroup is empty.
LEMMA MainCtl ==
  ASSUME TypeOK, CtlInv, MainStep \/ Timeout
  PROVE  CtlInv'
<1> USE DEF Goroutines
<1>1. CASE MainSpawns
  <2>1. /\ pc["main"] = "action" /\ pc'["main"] = "notify" /\ pc'["run"] = "start"
        /\ \A x \in Goroutines \ {"main", "run"} : pc'[x] = pc[x]
        /\ wg' = wg + 1
        /\ UNCHANGED <<result, httpClosed, grpc, inflight, forced, control>>
    BY <1>1 DEF MainSpawns, TypeOK, server, ctl
  <2>2. pc["run"] = "off" /\ pc["http"] = "off" /\ pc["grpcStop"] = "off"
    BY <2>1 DEF CtlInv, Started, Early
  <2> QED
    BY <2>1, <2>2 DEF CtlInv, Started, Waited, HttpDown, GrpcDown, Counted, Early, Busy, TypeOK
<1>2. CASE MainNotifies \/ TakeSignal \/ TakeError \/ Cancel
  <2>1. \E here, next : <<"main", here, next>> \in LocalMoves /\ Step("main", here, next) /\ Quiet
    BY <1>2 DEF MainNotifies, TakeSignal, TakeError, Cancel, Quiet, Alone, shared, server, ctl, LocalMoves
  <2> QED
    BY <2>1, StepCtl
<1>3. CASE WaitDone
  <2>1. /\ pc["main"] = "wait" /\ pc'["main"] = "close" /\ wg = 0
        /\ \A x \in Goroutines \ {"main"} : pc'[x] = pc[x]
        /\ UNCHANGED <<result, wg, httpClosed, grpc, inflight, forced, control>>
    BY <1>3 DEF WaitDone, Step, TypeOK, Alone, shared, server, ctl
  <2>2. pc["run"] \in {"off", "ended"} /\ pc["http"] \in {"off", "ended"}
    BY <2>1 DEF CtlInv, Counted, Busy
  <2> QED
    BY <2>1, <2>2 DEF CtlInv, Started, Waited, HttpDown, GrpcDown, Counted, Early, Busy
<1>4. CASE Timeout \/ Say("main", "sayForced", "close")
  <2>1. /\ \/ pc["main"] = "wait" /\ pc'["main"] = "sayForced"
           \/ pc["main"] = "sayForced" /\ pc'["main"] \in {"sayForced", "close"}
        /\ \A x \in Goroutines \ {"main"} : pc'[x] = pc[x]
        /\ forced' /\ UNCHANGED <<result, wg, httpClosed, grpc, inflight, control>>
    BY <1>4 DEF Timeout, Say, Step, TypeOK, Alone, shared, server, ctl, CtlInv, Waited
  <2> QED
    BY <2>1 DEF CtlInv, Started, Waited, HttpDown, GrpcDown, Counted, Early, Busy
<1>5. CASE MainReturns
  BY <1>5, StillCtl DEF MainReturns, Quiet, Alone, shared, server, ctl
<1>6. ASSUME \E here, next : /\ <<"main", here, next>> \in LocalMoves
                             /\ Say("main", here, next)
      PROVE  CtlInv'
  BY <1>6, SayCtl
<1>7. CASE CloseLogger("main", "close", "await") \/ AwaitLogger("main", "await", "closed", "running")
  <2>1. Local("main", "close", "await") \/ Local("main", "await", "closed")
    BY <1>7, LocalSteps
  <2> QED
    BY <2>1, LocalCtl DEF LocalMoves
<1> QED
  BY <1>1, <1>2, <1>3, <1>4, <1>5, <1>6, <1>7, CommandCtl DEF MainStep, LocalMoves

\* run starts the others in order, and its result tells why Serve returned.
LEMMA RunCtl ==
  ASSUME TypeOK, CtlInv, RunStep
  PROVE  CtlInv'
<1> USE DEF Goroutines
<1>1. CASE RunInit
  <2>1. CASE Step("run", "init", "spawn") /\ Alone
    <3>1. Quiet
      BY <2>1 DEF Quiet, Alone, shared, server, ctl
    <3> QED
      BY <2>1, <3>1, StepCtl DEF LocalMoves
  <2>2. CASE ~(Step("run", "init", "spawn") /\ Alone)
    <3>1. /\ pc["run"] = "init" /\ pc'["run"] \in {"send", "sayPanic"} /\ result'["run"] = "err"
          /\ \A x \in Goroutines \ {"run"} : pc'[x] = pc[x]
          /\ UNCHANGED <<wg, httpClosed, grpc, inflight, forced, control>>
      BY <1>1, <2>2 DEF RunInit, Fails, Step, TypeOK, shared, server, ctl
    <3> QED
      BY <3>1 DEF CtlInv, Started, Waited, HttpDown, GrpcDown, Counted, Early, Busy
  <2> QED
    BY <2>1, <2>2
<1>2. CASE RunSpawnsHttp
  <2>1. /\ pc["run"] = "spawn" /\ pc'["run"] = "sayGrpc" /\ pc'["http"] = "start"
        /\ \A x \in Goroutines \ {"run", "http"} : pc'[x] = pc[x]
        /\ wg' = wg + 1
        /\ UNCHANGED <<result, httpClosed, grpc, inflight, forced, control>>
    BY <1>2 DEF RunSpawnsHttp, SpawnHttp, TypeOK, server, ctl
  <2>2. pc["http"] = "off"
    BY <2>1 DEF CtlInv, Started
  <2>3. Counted'
    BY <2>1, <2>2 DEF CtlInv, Counted, Busy, TypeOK
  <2>4. Started' /\ Waited'
    BY <2>1, <2>2 DEF CtlInv, Started, Waited, Early
  <2>5. HttpDown' /\ GrpcDown'
    BY <2>1, <2>2 DEF CtlInv, HttpDown, GrpcDown
  <2> QED
    BY <2>3, <2>4, <2>5 DEF CtlInv
<1>3. CASE RunListen
  <2>1. CASE Step("run", "listen", "fatal") /\ Alone
    <3>1. Quiet
      BY <2>1 DEF Quiet, Alone, shared, server, ctl
    <3> QED
      BY <2>1, <3>1, StepCtl DEF LocalMoves
  <2>2. CASE ~(Step("run", "listen", "fatal") /\ Alone)
    <3>1. /\ pc["run"] = "listen" /\ pc'["run"] = "serve" /\ pc'["grpcStop"] = "ctx"
          /\ \A x \in Goroutines \ {"run", "grpcStop"} : pc'[x] = pc[x]
          /\ UNCHANGED <<result, wg, httpClosed, grpc, inflight, forced, control>>
      BY <1>3, <2>2 DEF RunListen, TypeOK, shared, server, ctl
    <3>2. pc["grpcStop"] = "off"
      BY <3>1 DEF CtlInv, Started
    <3> QED
      BY <3>1, <3>2 DEF CtlInv, Started, Waited, HttpDown, GrpcDown, Counted, Early, Busy
  <2> QED
    BY <2>1, <2>2
<1>4. CASE RunServes
  <2>1. /\ pc["run"] = "serve"
        /\ \/ /\ pc'["run"] = "serving" /\ grpc = "new" /\ grpc' = "serving" /\ result' = result
           \/ /\ pc'["run"] = "sayQuit" /\ grpc' = grpc /\ result'["run"] = "err"
        /\ \A x \in Goroutines \ {"run"} : pc'[x] = pc[x]
        /\ UNCHANGED <<wg, httpClosed, inflight, forced, control>>
    BY <1>4 DEF RunServes, TypeOK, shared, ctl
  <2> QED
    BY <2>1 DEF CtlInv, Started, Waited, HttpDown, GrpcDown, Counted, Early, Busy
<1>5. CASE ServeReturns
  <2>1. /\ pc["run"] = "serving" /\ pc'["run"] = "sayQuit"
        /\ grpc = "stopped" \/ result'["run"] = "err"
        /\ \A x \in Goroutines \ {"run"} : pc'[x] = pc[x]
        /\ UNCHANGED <<wg, httpClosed, grpc, inflight, forced, control>>
    BY <1>5 DEF ServeReturns, Fails, Step, TypeOK, shared, server, ctl
  <2> QED
    BY <2>1 DEF CtlInv, Started, Waited, HttpDown, GrpcDown, Counted, Early, Busy
<1>6. CASE Done("run")
  <2>1. /\ pc["run"] = "done" /\ pc'["run"] = "ended" /\ wg' = wg - 1
        /\ \A x \in Goroutines \ {"run"} : pc'[x] = pc[x]
        /\ UNCHANGED <<result, httpClosed, grpc, inflight, forced, control>>
    BY <1>6 DEF Done, Step, TypeOK, server, ctl
  <2>2. Counted'
    BY <2>1 DEF CtlInv, Counted, Busy, TypeOK
  <2>3. Started' /\ Waited'
    BY <2>1 DEF CtlInv, Started, Waited, Early
  <2>4. HttpDown' /\ GrpcDown'
    BY <2>1 DEF CtlInv, HttpDown, GrpcDown
  <2> QED
    BY <2>2, <2>3, <2>4 DEF CtlInv
<1>7. ASSUME \E here, next : /\ <<"run", here, next>> \in LocalMoves
                             /\ Say("run", here, next)
      PROVE  CtlInv'
  BY <1>7, SayCtl
<1>8. ASSUME \E here, next, err : /\ <<"run", here, next>> \in LocalMoves
                                  /\ SendErr("run", here, next, err)
      PROVE  CtlInv'
  BY <1>8, LocalSteps, LocalCtl
<1>9. CASE \/ CloseLogger("run", "fatalClose", "fatalAwait")
           \/ AwaitLogger("run", "fatalAwait", "fatalAwait", "exited")
  <2>1. Local("run", "fatalClose", "fatalAwait") \/ Local("run", "fatalAwait", "fatalAwait")
    BY <1>9, LocalSteps
  <2> QED
    BY <2>1, LocalCtl DEF LocalMoves
<1> QED
  BY <1>1, <1>2, <1>3, <1>4, <1>5, <1>6, <1>7, <1>8, <1>9 DEF RunStep, LocalMoves

\* The grpc server stops only on the way of grpcStop, and with no call in flight.
LEMMA GrpcCtl ==
  ASSUME TypeOK, CtlInv, GrpcStopStep \/ RpcStart \/ RpcEnd
  PROVE  CtlInv'
<1> USE DEF Goroutines
<1>1. CASE CtxCancelled("grpcStop", "sayTry")
  <2>1. Step("grpcStop", "ctx", "sayTry") /\ Quiet
    BY <1>1 DEF CtxCancelled, Quiet, Alone, shared, server, ctl
  <2> QED
    BY <2>1, StepCtl DEF LocalMoves
<1>2. CASE GracefulStop \/ GracefulStopDone
  <2>1. /\ \/ pc["grpcStop"] = "stop" /\ pc'["grpcStop"] = "stopping" /\ grpc' = "stopping"
           \/ /\ pc["grpcStop"] = "stopping" /\ pc'["grpcStop"] = "sayDone"
              /\ inflight = 0 /\ grpc' = "stopped"
        /\ \A x \in Goroutines \ {"grpcStop"} : pc'[x] = pc[x]
        /\ UNCHANGED <<result, wg, httpClosed, inflight, forced, control>>
    BY <1>2 DEF GracefulStop, GracefulStopDone, GrpcTo, Step, TypeOK, shared, ctl
  <2>2. Started' /\ Waited' /\ HttpDown'
    BY <2>1 DEF CtlInv, Started, Waited, HttpDown, Early
  <2>3. GrpcDown' /\ Counted'
    BY <2>1 DEF CtlInv, GrpcDown, Counted, Busy
  <2> QED
    BY <2>2, <2>3 DEF CtlInv
<1>3. CASE Say("grpcStop", "sayTry", "stop") \/ Say("grpcStop", "sayDone", "ended")
  BY <1>3, SayCtl DEF LocalMoves
<1>4. CASE RpcStart \/ RpcEnd
  <2>1. /\ grpc # "stopped"
        /\ UNCHANGED <<pc, result, wg, httpClosed, grpc, forced, control>>
    BY <1>4 DEF RpcStart, RpcEnd, RpcSays, CtlInv, GrpcDown, TypeOK, shared, ctl
  <2>2. Started' /\ Waited' /\ HttpDown'
    BY <2>1 DEF CtlInv, Started, Waited, HttpDown, Early
  <2>3. GrpcDown' /\ Counted'
    BY <2>1 DEF CtlInv, GrpcDown, Counted, Busy
  <2> QED
    BY <2>2, <2>3 DEF CtlInv
<1> QED
  BY <1>1, <1>2, <1>3, <1>4 DEF GrpcStopStep

\* Start of the metrics server returns when it was closed or does not listen.
LEMMA HttpCtl ==
  ASSUME TypeOK, CtlInv, HttpStep \/ HttpClose \/ HttpListens
  PROVE  CtlInv'
<1> USE DEF Goroutines
<1>1. CASE HttpSpawns
  <2>1. /\ pc["http"] = "spawn" /\ pc'["http"] = "recv" /\ pc'["httpWait"] = "ctx"
        /\ \A x \in Goroutines \ {"http", "httpWait", "httpListen"} : pc'[x] = pc[x]
        /\ UNCHANGED <<result, wg, httpClosed, grpc, inflight, forced, control>>
    BY <1>1 DEF HttpSpawns, TypeOK, Alone, shared, server, ctl
  <2>2. Started' /\ Waited' /\ HttpDown'
    BY <2>1 DEF CtlInv, Started, Waited, HttpDown, Early
  <2>3. GrpcDown' /\ Counted'
    BY <2>1 DEF CtlInv, GrpcDown, Counted, Busy
  <2> QED
    BY <2>2, <2>3 DEF CtlInv
<1>2. ASSUME NEW g \in {"httpWait", "httpListen"}, HttpReceives(g)
      PROVE  CtlInv'
  <2>1. /\ pc["http"] = "recv" /\ pc'["http"] \in {"send", "sayShutdown"}
        /\ pc[g] = "send" /\ pc'[g] = "ended"
        /\ \A x \in Goroutines \ {"http", g} : pc'[x] = pc[x]
        /\ result'["run"] = result["run"]
        /\ UNCHANGED <<wg, httpClosed, grpc, inflight, forced, control>>
    BY <1>2 DEF HttpReceives, HttpReceivesInto, TypeOK, shared, server, ctl
  <2>2. Started' /\ Waited'
    BY <2>1 DEF CtlInv, Started, Waited, Early
  <2>3. HttpDown'
    BY <2>1 DEF CtlInv, HttpDown
  <2>4. GrpcDown' /\ Counted'
    BY <2>1 DEF CtlInv, GrpcDown, Counted, Busy
  <2> QED
    BY <2>2, <2>3, <2>4 DEF CtlInv
<1>3. CASE Done("http")
  <2>1. /\ pc["http"] = "done" /\ pc'["http"] = "ended" /\ wg' = wg - 1
        /\ \A x \in Goroutines \ {"http"} : pc'[x] = pc[x]
        /\ UNCHANGED <<result, httpClosed, grpc, inflight, forced, control>>
    BY <1>3 DEF Done, Step, TypeOK, server, ctl
  <2>2. Counted'
    BY <2>1 DEF CtlInv, Counted, Busy, TypeOK
  <2>3. Started' /\ Waited'
    BY <2>1 DEF CtlInv, Started, Waited, Early
  <2>4. HttpDown' /\ GrpcDown'
    BY <2>1 DEF CtlInv, HttpDown, GrpcDown
  <2> QED
    BY <2>2, <2>3, <2>4 DEF CtlInv
<1>4. CASE Say("http", "start", "spawn") \/ Say("http", "sayShutdown", "done")
  BY <1>4, SayCtl DEF LocalMoves
<1>5. CASE SendErr("http", "send", "done", result["http"])
  <2>1. Local("http", "send", "done")
    BY <1>5, LocalSteps
  <2> QED
    BY <2>1, LocalCtl DEF LocalMoves
<1>6. CASE HttpClose
  <2>1. /\ pc["httpWait"] = "ctx" /\ pc'["httpWait"] = "send" /\ httpClosed'
        /\ \A x \in Goroutines \ {"httpWait"} : pc'[x] = pc[x]
        /\ result'["run"] = result["run"]
        /\ UNCHANGED <<wg, grpc, inflight, forced, control>>
    BY <1>6 DEF HttpClose, Step, TypeOK, shared, ctl
  <2>2. Started' /\ Waited' /\ HttpDown'
    BY <2>1 DEF CtlInv, Started, Waited, HttpDown, Early
  <2>3. GrpcDown' /\ Counted'
    BY <2>1 DEF CtlInv, GrpcDown, Counted, Busy
  <2> QED
    BY <2>2, <2>3 DEF CtlInv
<1>7. CASE HttpListens
  <2>1. CASE \E here, next : /\ <<"httpListen", here, next>> \in LocalMoves
                             /\ Step("httpListen", here, next) /\ Alone
    <3>1. Quiet
      BY <2>1 DEF Quiet, Alone, shared, server, ctl
    <3> QED
      BY <2>1, <3>1, StepCtl
  <2>2. CASE \E here \in {"listen", "serving"} :
                ~httpClosed /\ Fails("httpListen", here, "send", "err")
    <3>1. /\ pc["httpListen"] \in {"listen", "serving"} /\ ~httpClosed
          /\ \A x \in Goroutines \ {"httpListen"} : pc'[x] = pc[x]
          /\ result'["run"] = result["run"]
          /\ UNCHANGED <<wg, httpClosed, grpc, inflight, forced, control>>
      BY <2>2 DEF Fails, Step, TypeOK, shared, server, ctl
    <3>2. Started' /\ Waited' /\ HttpDown'
      BY <3>1 DEF CtlInv, Started, Waited, HttpDown, Early
    <3>3. GrpcDown' /\ Counted'
      BY <3>1 DEF CtlInv, GrpcDown, Counted, Busy
    <3> QED
      BY <3>2, <3>3 DEF CtlInv
  <2> QED
    BY <1>7, <2>1, <2>2 DEF HttpListens, LocalMoves
<1> QED
  BY <1>1, <1>2, <1>3, <1>4, <1>5, <1>6, <1>7 DEF HttpStep

\* No step of the process disturbs the control state.
LEMMA NextCtl == TypeOK /\ CtlInv /\ [Next]_vars => CtlInv'
<1> SUFFICES ASSUME TypeOK, CtlInv, [Next]_vars PROVE CtlInv'
  OBVIOUS
<1>1. CASE WriteLine \/ Signal \/ ServiceEnds \/ Terminated \/ UNCHANGED vars
  <2>1. UNCHANGED pc /\ Quiet
    BY <1>1 DEF WriteLine, Signal, ServiceEnds, Terminated, vars, Quiet, shared, server, ctl
  <2> QED
    BY <2>1, StillCtl
<1> QED
  BY <1>1, MainCtl, RunCtl, GrpcCtl, HttpCtl DEF Next
-----------------------------------------------------------------------------
(* Types *)

\* The types of all but the WaitGroup, which Counted gives, and the logger.
Typed == /\ pc \in [Goroutines -> Places]
         /\ result \in [Goroutines -> {"nil", "err"}]
         /\ errChan \in Seq({"nil", "err"}) /\ Len(errChan) <= 1
         /\ ctx \in BOOLEAN /\ httpClosed \in BOOLEAN /\ forced \in BOOLEAN
         /\ sig \in {"none", "pending", "taken"}
         /\ grpc \in {"new", "serving", "stopping", "stopped"}
         /\ rpcs \in 0..MaxRpcs /\ inflight \in 0..rpcs
         /\ proc \in {"running", "exited", "unclosed", "panicked", "killed"}
         /\ control \in Commands /\ pid_file \in PidFiles
         /\ daemon \in BOOLEAN /\ interrupted \in BOOLEAN

\* What Typed leaves of TypeOK.
LEMMA TypedParts ==
  TypeOK <=> /\ Typed /\ wg \in 0..2
             /\ accepted \in Seq({Line}) /\ written \in 0..Len(accepted)
             /\ phase \in {"open", "closed", "flushed"}
BY DEF TypeOK, Typed

\* A step that logs, closes or awaits the logger.
LEMMA LogTyped ==
  ASSUME Typed, NEW g \in Goroutines, NEW here, NEW next \in Places,
         \/ Say(g, here, next) \/ CloseLogger(g, here, next)
         \/ \E end \in {"running", "exited"} : AwaitLogger(g, here, next, end)
  PROVE  Typed'
BY DEF Typed, Say, CloseLogger, AwaitLogger, Alone, shared, server, ctl

\* A step of a goroutine alone.
LEMMA AloneTyped ==
  ASSUME Typed, NEW g \in Goroutines, NEW here, NEW next \in Places,
         Step(g, here, next) /\ Alone
  PROVE  Typed'
BY DEF Typed, Step, Alone, shared, server, ctl

\* errChan <- err, which found the channel empty.
LEMMA SendTyped ==
  ASSUME Typed, NEW g \in Goroutines, NEW here, NEW next \in Places, NEW err \in {"nil", "err"},
         SendErr(g, here, next, err)
  PROVE  Typed'
<1>1. <<err>> \in Seq({"nil", "err"}) /\ Len(<<err>>) = 1
  OBVIOUS
<1> QED
  BY <1>1 DEF Typed, SendErr, Step, server, ctl

\* The commands, main, run and the servers keep the types.
LEMMA CommandTyped ==
  ASSUME Typed, BadFlags \/ FlagsFail \/ Dispatch \/ Interrupt \/ StopReturns \/ Fork
  PROVE  Typed'
<1> USE DEF Places
<1>0. Goroutines = {"main", "run", "http", "httpWait", "httpListen", "grpcStop"}
  BY DEF Goroutines
<1>1. CASE BadFlags
  BY <1>1, <1>0, LogTyped DEF BadFlags
<1>2. CASE FlagsFail
  BY <1>2 DEF FlagsFail, Typed, Alone, shared, server, ctl
<1>3. CASE Dispatch
  BY <1>3, <1>0, AloneTyped DEF Dispatch
<1>4. CASE Interrupt
  BY <1>4 DEF Interrupt, Step, Typed, shared, server
<1>5. CASE StopReturns
  BY <1>5, <1>0, AloneTyped DEF StopReturns
<1>6. CASE Fork /\ Child
  BY <1>6 DEF Child, Typed, server
<1>7. CASE Fork /\ ~Child
  BY <1>7 DEF Fork, Typed, Alone, shared, server, ctl
<1> QED
  BY <1>1, <1>2, <1>3, <1>4, <1>5, <1>6, <1>7

\* The same of main.
LEMMA MainTyped ==
  ASSUME Typed, MainStep \/ Timeout
  PROVE  Typed'
<1> USE DEF Places
<1>0. Goroutines = {"main", "run", "http", "httpWait", "httpListen", "grpcStop"}
  BY DEF Goroutines
<1>1. CASE MainSpawns
  BY <1>1 DEF MainSpawns, Typed, server, ctl
<1>2. CASE MainNotifies \/ WaitDone
  BY <1>2, <1>0, AloneTyped DEF MainNotifies, WaitDone
<1>3. CASE TakeSignal \/ Cancel
  <2>1. pc' \in [Goroutines -> Places] /\ proc' = proc
    BY <1>3 DEF TakeSignal, Cancel, Step, Typed
  <2>2. UNCHANGED <<result, errChan, server, forced, ctl>>
    BY <1>3 DEF TakeSignal, Cancel
  <2>3. sig' \in {"none", "pending", "taken"} /\ ctx' \in BOOLEAN
    BY <1>3 DEF TakeSignal, Cancel, Typed
  <2> QED
    BY <2>1, <2>2, <2>3 DEF Typed, server, ctl
<1>4. CASE TakeError
  <2>1. <<>> \in Seq({"nil", "err"}) /\ Len(<<>>) = 0
    OBVIOUS
  <2>2. \E next \in {"sayError", "cancel"} : Step("main", "select", next)
    BY <1>4 DEF TakeError
  <2>3. pc' \in [Goroutines -> Places] /\ proc' = proc
    <3>1. PICK next \in {"sayError", "cancel"} : Step("main", "select", next)
      BY <2>2
    <3> QED
      BY <3>1 DEF Step, Typed
  <2>4. errChan' = <<>> /\ UNCHANGED <<result, ctx, sig, server, forced, ctl>>
    BY <1>4 DEF TakeError
  <2> QED
    BY <2>1, <2>3, <2>4 DEF Typed, server, ctl
<1>5. CASE MainReturns
  BY <1>5 DEF MainReturns, Typed, Alone, shared, server, ctl
<1>6. CASE Timeout
  BY <1>6 DEF Timeout, Step, Typed, shared, server, ctl
<1>7. ASSUME \E here, next \in Places : Say("main", here, next) \/ CloseLogger("main", here, next)
                                       \/ AwaitLogger("main", here, next, "running")
      PROVE  Typed'
  BY <1>7, <1>0, LogTyped
<1> QED
  BY <1>1, <1>2, <1>3, <1>4, <1>5, <1>6, <1>7, CommandTyped DEF MainStep

\* The same of run and of Fatal.
LEMMA RunTyped ==
  ASSUME Typed, RunStep
  PROVE  Typed'
<1> USE DEF Places
<1>0. Goroutines = {"main", "run", "http", "httpWait", "httpListen", "grpcStop"}
  BY DEF Goroutines
<1>1. CASE RunInit
  BY <1>1 DEF RunInit, Fails, Step, Typed, Alone, shared, server, ctl
<1>2. CASE RunSpawnsHttp
  BY <1>2 DEF RunSpawnsHttp, SpawnHttp, Typed, server, ctl
<1>3. CASE RunListen
  BY <1>3 DEF RunListen, Step, Typed, Alone, shared, server, ctl
<1>4. CASE RunServes
  BY <1>4 DEF RunServes, Typed, shared, ctl
<1>5. CASE ServeReturns
  BY <1>5 DEF ServeReturns, Fails, Step, Typed, shared, server, ctl
<1>6. CASE Done("run")
  BY <1>6 DEF Done, Step, Typed, server, ctl
<1>7. CASE SendErr("run", "send", "sayEnd", result["run"]) \/ SendErr("run", "sendPanic", "done", "err")
  <2>1. result["run"] \in {"nil", "err"}
    BY <1>0 DEF Typed
  <2> QED
    BY <1>7, <2>1, <1>0, SendTyped
<1>8. ASSUME \E here, next \in Places : Say("run", here, next) \/ CloseLogger("run", here, next)
                                       \/ AwaitLogger("run", here, next, "exited")
      PROVE  Typed'
  BY <1>8, <1>0, LogTyped
<1> QED
  BY <1>1, <1>2, <1>3, <1>4, <1>5, <1>6, <1>7, <1>8 DEF RunStep

\* The same of the servers and their calls.
LEMMA ServerTyped ==
  ASSUME Typed, GrpcStopStep \/ RpcStart \/ RpcEnd \/ HttpStep \/ HttpClose \/ HttpListens
  PROVE  Typed'
<1> USE DEF Places
<1>0. Goroutines = {"main", "run", "http", "httpWait", "httpListen", "grpcStop"}
  BY DEF Goroutines
<1>1. CASE CtxCancelled("grpcStop", "sayTry")
  BY <1>1, <1>0, AloneTyped DEF CtxCancelled
<1>2. CASE GracefulStop \/ GracefulStopDone
  BY <1>2 DEF GracefulStop, GracefulStopDone, GrpcTo, Step, Typed, shared, ctl
<1>3. CASE RpcStart
  BY <1>3, LifecycleAssumption DEF RpcStart, RpcSays, Typed, shared, ctl
<1>4. CASE RpcEnd
  BY <1>4, LifecycleAssumption DEF RpcEnd, RpcSays, Typed, shared, ctl
<1>5. CASE HttpSpawns
  BY <1>5 DEF HttpSpawns, Typed, Alone, shared, server, ctl
<1>6. ASSUME NEW g \in {"httpWait", "httpListen"}, HttpReceives(g) PROVE Typed'
  <2>1. result[g] \in {"nil", "err"}
    BY <1>0, <1>6 DEF Typed
  <2>2. \E next \in {"send", "sayShutdown"} : pc' = [pc EXCEPT !["http"] = next, ![g] = "ended"]
    BY <1>6 DEF HttpReceives, HttpReceivesInto
  <2>3. pc' \in [Goroutines -> Places] /\ result' \in [Goroutines -> {"nil", "err"}]
    BY <1>6, <2>1, <2>2 DEF HttpReceives, HttpReceivesInto, Typed
  <2> QED
    BY <1>6, <2>3 DEF HttpReceives, HttpReceivesInto, Typed, shared, server, ctl
<1>7. CASE Done("http")
  BY <1>7 DEF Done, Step, Typed, server, ctl
<1>8. CASE SendErr("http", "send", "done", result["http"])
  <2>1. result["http"] \in {"nil", "err"}
    BY <1>0 DEF Typed
  <2> QED
    BY <1>8, <2>1, <1>0, SendTyped
<1>9. CASE HttpClose
  BY <1>9 DEF HttpClose, Step, Typed, shared, ctl
<1>10. CASE HttpListens
  BY <1>10 DEF HttpListens, Fails, Step, Typed, Alone, shared, server, ctl
<1>11. CASE \/ Say("grpcStop", "sayTry", "stop") \/ Say("grpcStop", "sayDone", "ended")
            \/ Say("http", "start", "spawn") \/ Say("http", "sayShutdown", "done")
  BY <1>11, <1>0, LogTyped
<1> QED
  BY <1>1, <1>2, <1>3, <1>4, <1>5, <1>6, <1>7, <1>8, <1>9, <1>10, <1>11 DEF GrpcStopStep, HttpStep

\* What a step does to the logger.
LEMMA SinkSteps ==
  ASSUME [Next]_vars
  PROVE  \/ Logger!Accept(Line) \/ Logger!WriteNext \/ Logger!Close \/ Logger!Flushed
         \/ UNCHANGED sink
         \/ Child /\ pc["main"] = "fork"
<1> USE DEF Step, Alone
<1>1. ASSUME NEW g, NEW here, NEW next, NEW end,
             Say(g, here, next) \/ CloseLogger(g, here, next) \/ AwaitLogger(g, here, next, end)
      PROVE  Logger!Accept(Line) \/ Logger!Close \/ Logger!Flushed \/ UNCHANGED sink
  BY <1>1 DEF Say, Accepts, CloseLogger, AwaitLogger
<1>2. CASE MainStep \/ Timeout
  BY <1>1, <1>2 DEF MainStep, Timeout, BadFlags, FlagsFail, Dispatch, Interrupt, StopReturns, Fork,
     MainSpawns, MainNotifies, TakeSignal, TakeError, Cancel, WaitDone, MainReturns
<1>3. CASE RunStep
  BY <1>1, <1>3 DEF RunStep, RunInit, Fails, RunSpawnsHttp, SpawnHttp, RunListen, RunServes,
     ServeReturns, SendErr, Done
<1>4. CASE GrpcStopStep \/ RpcStart \/ RpcEnd
  BY <1>1, <1>4 DEF GrpcStopStep, CtxCancelled, GracefulStop, GracefulStopDone, GrpcTo,
     RpcStart, RpcEnd, RpcSays, Accepts
<1>5. CASE HttpStep \/ HttpClose \/ HttpListens
  BY <1>1, <1>5 DEF HttpStep, HttpSpawns, HttpReceives, HttpReceivesInto, SendErr, Done,
     HttpClose, HttpListens, Fails
<1>6. CASE WriteLine \/ Signal \/ ServiceEnds \/ Terminated \/ UNCHANGED vars
  BY <1>6 DEF WriteLine, Signal, ServiceEnds, Terminated, vars, sink
<1> QED
  BY <1>2, <1>3, <1>4, <1>5, <1>6 DEF Next

\* No step leaves the types, the count of the WaitGroup among them.
LEMMA NextTyped == TypeOK /\ CtlInv /\ [Next]_vars => TypeOK'
<1> SUFFICES ASSUME TypeOK, CtlInv, [Next]_vars PROVE TypeOK'
  OBVIOUS
<1>1. Typed'
  <2>1. CASE WriteLine \/ Signal \/ ServiceEnds \/ Terminated \/ UNCHANGED vars
    BY <2>1, TypedParts DEF Typed, WriteLine, Signal, ServiceEnds, Terminated, vars, shared, server,
       ctl, PidFiles
  <2> QED
    BY <2>1, TypedParts, MainTyped, RunTyped, ServerTyped DEF Next
<1>2. wg' \in 0..2
  <2>1. CtlInv'
    BY NextCtl
  <2> QED
    BY <2>1 DEF CtlInv, Counted, Busy
<1>3. /\ accepted' \in Seq({Line}) /\ written' \in 0..Len(accepted')
      /\ phase' \in {"open", "closed", "flushed"}
  <2>1. CASE Child
    <3>1. <<>> \in Seq({Line}) /\ Len(<<>>) = 0
      OBVIOUS
    <3> QED
      BY <2>1, <3>1 DEF Child, TypeOK
  <2> QED
    BY <2>1, SinkSteps, SinkTyped DEF TypeOK
<1> QED
  BY <1>1, <1>2, <1>3 DEF TypeOK, Typed
-----------------------------------------------------------------------------
\* Nothing runs yet, and the logger is open.
LEMMA InitInv == Init => IInv
<1> SUFFICES ASSUME Init PROVE IInv
  OBVIOUS
<1>1. <<>> \in Seq({"nil", "err"}) /\ <<>> \in Seq({Line}) /\ Len(<<>>) = 0
  OBVIOUS
<1>2. TypeOK
  <2>1. pc \in [Goroutines -> Places] /\ result \in [Goroutines -> {"nil", "err"}]
    BY DEF Init, Places
  <2>2. control \in Commands /\ pid_file \in PidFiles
    BY DEF Init, PidFiles
  <2>3. /\ rpcs \in 0..MaxRpcs /\ inflight \in 0..rpcs /\ wg \in 0..2
        /\ written \in 0..Len(accepted)
    <3>1. rpcs = 0 /\ inflight = 0 /\ wg = 0 /\ written = 0 /\ accepted = <<>>
      BY DEF Init, Logger!Init
    <3> QED
      BY <1>1, <3>1, LifecycleAssumption
  <2>4. /\ errChan = <<>> /\ ctx = FALSE /\ sig = "none" /\ httpClosed = FALSE /\ grpc = "new"
        /\ forced = FALSE /\ proc = "running" /\ daemon = FALSE /\ interrupted = FALSE
        /\ accepted = <<>> /\ phase = "open"
    BY DEF Init, Logger!Init
  <2>5. errChan \in Seq({"nil", "err"}) /\ Len(errChan) <= 1 /\ accepted \in Seq({Line})
    BY <1>1, <2>4
  <2>6. /\ ctx \in BOOLEAN /\ httpClosed \in BOOLEAN /\ forced \in BOOLEAN
        /\ daemon \in BOOLEAN /\ interrupted \in BOOLEAN
        /\ sig \in {"none", "pending", "taken"}
        /\ grpc \in {"new", "serving", "stopping", "stopped"}
        /\ proc \in {"running", "exited", "unclosed", "panicked", "killed"}
        /\ phase \in {"open", "closed", "flushed"}
    BY <2>4
  <2> QED
    BY <2>1, <2>2, <2>3, <2>5, <2>6 DEF TypeOK
<1>3. CtlInv
  <2>1. /\ pc["main"] = "action" /\ pc["run"] = "off" /\ pc["http"] = "off"
        /\ pc["httpWait"] = "off" /\ pc["grpcStop"] = "off"
        /\ wg = 0 /\ grpc = "new"
    BY DEF Init, Goroutines
  <2>2. Started /\ Waited /\ HttpDown
    BY <2>1 DEF Started, Waited, HttpDown, Early
  <2>3. GrpcDown /\ Counted
    BY <2>1 DEF GrpcDown, Counted, Busy
  <2> QED
    BY <2>2, <2>3 DEF CtlInv
<1> QED
  BY <1>2, <1>3 DEF IInv

\* The control state and the count of the WaitGroup satisfy IInv in every
\* reachable state of the process, for any capacity of recordChan and any number of Echo calls.
THEOREM LifecycleInvariant == Spec => []IInv
<1>1. IInv /\ [Next]_vars => IInv'
  BY NextTyped, NextCtl DEF IInv
<1> QED
  BY <1>1, InitInv, PTL DEF Spec

\* When wait returns without force both servers are down: nobody serves or
\* sends, and a Serve that returned nil left no Echo call behind.
THEOREM GracefulWaitIsQuiet == Spec => []QuietAfterGracefulWait
<1>1. IInv => QuietAfterGracefulWait
  <2> SUFFICES ASSUME IInv, control = "", pc["main"] \in {"close", "await", "closed"}, ~forced
               PROVE  /\ pc["run"] = "ended" /\ pc["http"] \in {"off", "ended"}
                      /\ pc["http"] = "ended" => httpClosed \/ pc["httpListen"] = "ended"
                      /\ result["run"] = "nil" => inflight = 0 /\ grpc = "stopped"
    BY DEF QuietAfterGracefulWait, IInv
  <2> QED
    BY DEF IInv, CtlInv, Waited, HttpDown, GrpcDown
<1> QED
  BY <1>1, LifecycleInvariant, PTL
=============================================================================
