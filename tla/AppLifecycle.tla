---------------------------- MODULE AppLifecycle ----------------------------
(***************************************************************************)
(* The life of the ums process: App.runFuncWrapper and App.wait (app.go),  *)
(* the -control commands (control.go, pid_file.go), run (server.go), the   *)
(* metrics server (http_server.go) and the grpc server                     *)
(* (grpcserver/server.go), one pc per goroutine.  Every call of the logger *)
(* is a step on an instance of LogSink, which AsyncLogger implements: a    *)
(* call after Close panics the process.  ForkExec makes the model follow   *)
(* the child, as the parent exits at once.                                 *)
(***************************************************************************)
EXTENDS Naturals, Sequences

CONSTANTS ChanCap,       \* capacity of the logger's recordChan, 1024 in the code
          MaxRpcs        \* bound: Echo calls served

ASSUME LifecycleAssumption == /\ ChanCap \in Nat \ {0}
                              /\ MaxRpcs \in Nat

\* main, App's run goroutine, httpserver.Start and its two goroutines, and
\* the goroutine of grpcserver.Start that waits for ctx.
Goroutines == {"main", "run", "http", "httpWait", "httpListen", "grpcStop"}

VARIABLES pc,          \* where each goroutine is
          result,      \* the error each returns, "nil" or "err"
          errChan,     \* App.errChan, capacity 1
          ctx,         \* whether ctx is cancelled
          wg,          \* App.wg
          sig,         \* the signal: "none", "pending", "taken"
          httpClosed,  \* whether http.Server.Close was called
          grpc,        \* the grpc server: "new", "serving", "stopping", "stopped"
          rpcs, inflight, \* Echo calls started, and not finished
          forced,      \* whether wait gave up
          proc,        \* "running", "exited", "unclosed" (an exit without logger.Close),
                       \* "panicked", "killed"
          control,     \* the command line: "" serves, "bad" has a flag that cli refuses,
                       \* "help" is -h, -i or no command known
          daemon,      \* whether DAEMON is set in the environment
          pid_file,    \* the pid file, and whether a process has the pid in it
          interrupted, \* history: whether the process in pid_file was sent SIGINT
          accepted, written, phase  \* the logger

sink   == <<accepted, written, phase>>
shared == <<errChan, ctx, wg, sig>>
server == <<httpClosed, grpc, rpcs, inflight>>
ctl    == <<control, daemon, pid_file, interrupted>>
vars   == <<pc, result, shared, server, forced, ctl, proc, sink>>

Commands == {"", "bad", "help", "start", "stop", "restart"}
PidFiles == {"none", "unreadable", "stale", "live"}

\* Where a goroutine can be: before a step of the code, "off" or "ended".
Places == {"off", "action", "flagError", "sayStop", "sayNoPid", "interrupt", "stopped", "fork",
           "notify", "select", "saySignal", "sayError", "cancel", "wait", "sayForced", "close",
           "await", "closed", "start", "init", "spawn", "sayGrpc", "listen", "serve", "serving",
           "sayQuit", "send", "sayEnd", "sayPanic", "sendPanic", "done", "ended", "fatal",
           "fatalClose", "fatalAwait", "ctx", "sayTry", "stop", "stopping", "sayDone", "recv",
           "sayShutdown"}

Line   == "line"
Logger == INSTANCE LogSink WITH Records <- {Line}

TypeOK == /\ pc \in [Goroutines -> Places]
          /\ result \in [Goroutines -> {"nil", "err"}]
          /\ errChan \in Seq({"nil", "err"}) /\ Len(errChan) <= 1
          /\ ctx \in BOOLEAN /\ httpClosed \in BOOLEAN /\ forced \in BOOLEAN
          /\ wg \in 0..2
          /\ sig \in {"none", "pending", "taken"}
          /\ grpc \in {"new", "serving", "stopping", "stopped"}
          /\ rpcs \in 0..MaxRpcs /\ inflight \in 0..rpcs
          /\ proc \in {"running", "exited", "unclosed", "panicked", "killed"}
          /\ control \in Commands /\ pid_file \in PidFiles
          /\ daemon \in BOOLEAN /\ interrupted \in BOOLEAN
          /\ accepted \in Seq({Line}) /\ written \in 0..Len(accepted)
          /\ phase \in {"open", "closed", "flushed"}

Init == /\ pc = [g \in Goroutines |-> IF g = "main" THEN "action" ELSE "off"]
        /\ result = [g \in Goroutines |-> "nil"]
        /\ errChan = <<>> /\ ctx = FALSE /\ wg = 0 /\ sig = "none"
        /\ httpClosed = FALSE /\ grpc = "new" /\ rpcs = 0 /\ inflight = 0
        /\ forced = FALSE /\ proc = "running"
        /\ control \in Commands /\ daemon = FALSE /\ interrupted = FALSE
        /\ pid_file \in IF control = "" THEN {"none"} ELSE PidFiles  \* nobody looks at it
        /\ Logger!Init
-----------------------------------------------------------------------------
(* Steps of a goroutine *)

At(g, here) == proc = "running" /\ pc[g] = here
GoTo(g, next) == pc' = [pc EXCEPT ![g] = next]
Alone == UNCHANGED <<result, shared, server, forced, ctl>>

\* recordChan <- r: waits while the channel is full.
Accepts == Len(accepted) - written < ChanCap /\ Logger!Accept(Line)

\* A step of g alone, and one that only logs a line.
Step(g, here, next) == At(g, here) /\ GoTo(g, next) /\ UNCHANGED <<proc, sink>>
Say(g, here, next) ==
    /\ At(g, here)
    /\ IF phase = "open" THEN /\ Accepts
                              /\ GoTo(g, next)
                              /\ UNCHANGED proc
                         ELSE proc' = "panicked" /\ UNCHANGED <<pc, sink>>
    /\ Alone

\* errChan <- err: blocks while a value nobody took is in the channel.
SendErr(g, here, next, err) ==
    /\ Step(g, here, next)
    /\ errChan = <<>> /\ errChan' = <<err>>
    /\ UNCHANGED <<result, ctx, wg, sig, server, forced, ctl>>

Done(g) == /\ Step(g, "done", "ended")
           /\ wg' = wg - 1
           /\ UNCHANGED <<result, errChan, ctx, sig, server, forced, ctl>>

\* logger.Close: close(recordChan), then wait until all is written and flushed.
CloseLogger(g, here, next) ==
    /\ At(g, here)
    /\ IF phase = "open" THEN Logger!Close /\ GoTo(g, next) /\ UNCHANGED proc
                         ELSE proc' = "panicked" /\ UNCHANGED <<pc, sink>>
    /\ Alone

AwaitLogger(g, here, next, end) ==
    /\ At(g, here)
    /\ Logger!Flushed
    /\ GoTo(g, next)
    /\ proc' = end
    /\ Alone
-----------------------------------------------------------------------------
(* runFuncWrapper and wait *)

MainSpawns ==
    /\ control = "" /\ At("main", "action")
    /\ pc' = [pc EXCEPT !["main"] = "notify", !["run"] = "start"]
    /\ wg' = wg + 1
    /\ UNCHANGED <<result, errChan, ctx, sig, server, forced, ctl, proc, sink>>

MainNotifies == Step("main", "notify", "select") /\ Alone

TakeSignal == /\ Step("main", "select", "saySignal")
              /\ sig = "pending" /\ sig' = "taken"
              /\ UNCHANGED <<result, errChan, ctx, wg, server, forced, ctl>>

TakeError == /\ errChan # <<>>
             /\ Step("main", "select", IF Head(errChan) = "err" THEN "sayError" ELSE "cancel")
             /\ errChan' = <<>>
             /\ UNCHANGED <<result, ctx, wg, sig, server, forced, ctl>>

CancelNothing == Step("main", "cancel", "wait") /\ Alone

Cancel == /\ Step("main", "cancel", "wait")
          /\ ctx' = TRUE
          /\ UNCHANGED <<result, errChan, wg, sig, server, forced, ctl>>

WaitDone == wg = 0 /\ Step("main", "wait", "close") /\ Alone

TimeoutNever == FALSE

Timeout == /\ Step("main", "wait", "sayForced")
           /\ forced' = TRUE
           /\ UNCHANGED <<result, shared, server, ctl>>

MainReturns == /\ At("main", "closed")
               /\ proc' = "exited"
               /\ UNCHANGED <<pc, sink>> /\ Alone

-----------------------------------------------------------------------------
(* The commands, on main before anything is started *)

\* findServicePid: signal 0 tells whether a process has the pid.
FindPid(next) == /\ control \in {"stop", "restart"} /\ ~daemon
                 /\ \/ pid_file = "live" /\ next = "sayStop"
                    \/ pid_file # "live" /\ next = "sayNoPid"

BadFlags == control = "bad" /\ Say("main", "action", "flagError")

\* StartService returns, without the Close that runFuncWrapper defers.
FlagsFail == /\ At("main", "flagError")
             /\ proc' = "unclosed"
             /\ UNCHANGED <<pc, sink>> /\ Alone

Dispatch == \/ control = "help" /\ Step("main", "action", "close") /\ Alone
            \/ control = "start" /\ Step("main", "action", "fork") /\ Alone
            \/ control \in {"stop", "restart"} /\ daemon
                  /\ Step("main", "action", "stopped") /\ Alone
            \/ \E next \in {"sayStop", "sayNoPid"} :
                  FindPid(next) /\ Step("main", "action", next) /\ Alone

InterruptNobody == Step("main", "interrupt", "stopped") /\ Alone

\* process.Signal(os.Interrupt), which fails when the process has just ended.
Interrupt == /\ Step("main", "interrupt", "stopped")
             /\ interrupted' = (pid_file = "live")
             /\ UNCHANGED <<result, shared, server, forced, control, daemon, pid_file>>

StopReturns == /\ Step("main", "stopped", IF control = "stop" THEN "close" ELSE "fork")
               /\ Alone

\* ForkExec with the same arguments and DAEMON set: the child begins anew.
Child == /\ daemon' = TRUE
         /\ pc' = [g \in Goroutines |-> IF g = "main" THEN "action" ELSE "off"]
         /\ sig' = "none" /\ accepted' = <<>> /\ written' = 0
         /\ UNCHANGED <<phase, result, errChan, ctx, wg, server, forced, proc,
                        control, pid_file, interrupted>>

\* controlStartHandler: os.Exit when there is a pid file, unless DAEMON is set,
\* and in the parent; the error of ForkExec is ignored.
Fork == /\ At("main", "fork")
        /\ \/ (daemon \/ pid_file = "none") /\ Child
           \/ proc' = "unclosed" /\ UNCHANGED <<pc, sink>> /\ Alone

\* The process in the pid file ends, and deletes the file or not.
ServiceEnds == /\ proc = "running" /\ pid_file = "live"
               /\ pid_file' \in {"stale", "none"}
               /\ UNCHANGED <<pc, result, shared, server, forced, proc, sink,
                              control, daemon, interrupted>>
-----------------------------------------------------------------------------
MainStep == \/ BadFlags \/ FlagsFail \/ Dispatch \/ Interrupt \/ StopReturns \/ Fork
            \/ Say("main", "sayStop", "interrupt") \/ Say("main", "sayNoPid", "stopped")
            \/ MainSpawns \/ MainNotifies \/ TakeSignal \/ TakeError \/ Cancel
            \/ Say("main", "saySignal", "cancel") \/ Say("main", "sayError", "cancel")
            \/ WaitDone \/ Say("main", "sayForced", "close")
            \/ CloseLogger("main", "close", "await")
            \/ AwaitLogger("main", "await", "closed", "running")
            \/ MainReturns

Notified == control = "" /\ pc["main"] \notin {"action", "notify"}

\* SIGINT, SIGTERM or SIGQUIT: fatal until signal.Notify was called.
Signal == /\ proc = "running" /\ sig = "none"
          /\ sig' = "pending"
          /\ proc' = IF Notified THEN proc ELSE "killed"
          /\ UNCHANGED <<pc, result, errChan, ctx, wg, server, forced, ctl, sink>>
-----------------------------------------------------------------------------
(* run, on the goroutine of runFuncWrapper, and grpcserver.Start *)

Fails(g, here, next, err) == /\ Step(g, here, next)
                             /\ result' = [result EXCEPT ![g] = err]
                             /\ UNCHANGED <<shared, server, forced, ctl>>

\* InitLogger registers the writers, returns an error, or panics (recovered above
\* run).
RunInit == \/ Step("run", "init", "spawn") /\ Alone
           \/ Fails("run", "init", "send", "err")
           \/ Fails("run", "init", "sayPanic", "err")

SpawnHttp(counted) ==
    /\ At("run", "spawn")
    /\ pc' = [pc EXCEPT !["run"] = "sayGrpc", !["http"] = "start"]
    /\ wg' = wg + counted
    /\ UNCHANGED <<result, errChan, ctx, sig, server, forced, ctl, proc, sink>>

RunSpawnsHttpUncounted == SpawnHttp(0)

RunSpawnsHttp == SpawnHttp(1)

RunListen == \/ /\ At("run", "listen")
                /\ pc' = [pc EXCEPT !["run"] = "serve", !["grpcStop"] = "ctx"]
                /\ UNCHANGED <<result, shared, server, forced, ctl, proc, sink>>
             \/ Step("run", "listen", "fatal") /\ Alone

\* Serve on a server that is already told to stop returns ErrServerStopped.
RunServes == /\ At("run", "serve")
             /\ IF grpc = "new" THEN GoTo("run", "serving") /\ grpc' = "serving" /\ UNCHANGED result
                ELSE /\ GoTo("run", "sayQuit") /\ UNCHANGED grpc
                     /\ result' = [result EXCEPT !["run"] = "err"]
             /\ UNCHANGED <<shared, httpClosed, rpcs, inflight, forced, ctl, proc, sink>>

\* Serve returns nil when GracefulStop is done, or an error of Accept.
ServeReturns == \/ grpc = "stopped" /\ Fails("run", "serving", "sayQuit", "nil")
                \/ grpc = "serving" /\ Fails("run", "serving", "sayQuit", "err")

RunStep == \/ Say("run", "start", "init") \/ RunInit
           \/ RunSpawnsHttp \/ Say("run", "sayGrpc", "listen") \/ RunListen
           \/ RunServes \/ ServeReturns \/ Say("run", "sayQuit", "send")
           \/ SendErr("run", "send", "sayEnd", result["run"]) \/ Say("run", "sayEnd", "done")
           \/ Say("run", "sayPanic", "sendPanic") \/ SendErr("run", "sendPanic", "done", "err")
           \/ Done("run")
           \/ Say("run", "fatal", "fatalClose")
           \/ CloseLogger("run", "fatalClose", "fatalAwait")
           \/ AwaitLogger("run", "fatalAwait", "fatalAwait", "exited")
-----------------------------------------------------------------------------
(* The goroutine that waits for ctx in grpcserver.Start, and Echo *)

CtxCancelled(g, next) == ctx /\ Step(g, "ctx", next) /\ Alone

GrpcTo(here, next, state) == /\ Step("grpcStop", here, next)
                             /\ grpc' = state
                             /\ UNCHANGED <<result, shared, httpClosed, rpcs, inflight, forced, ctl>>

\* GracefulStop: no new call is taken, the calls in flight are waited for.
GracefulStop     == GrpcTo("stop", "stopping", "stopping")
GracefulStopDone == inflight = 0 /\ GrpcTo("stopping", "sayDone", "stopped")

GrpcStopStep == \/ CtxCancelled("grpcStop", "sayTry") \/ Say("grpcStop", "sayTry", "stop")
                \/ GracefulStop \/ GracefulStopDone
                \/ Say("grpcStop", "sayDone", "ended")

\* Echo logs the request and the response.  HandlePanic calls recover, but not
\* from the deferred function itself: a panic of the logger is not recovered.
RpcSays(started, running) ==
    /\ proc = "running"
    /\ IF phase = "open" THEN /\ Accepts
                              /\ rpcs' = started /\ inflight' = running
                              /\ UNCHANGED proc
                         ELSE proc' = "panicked" /\ UNCHANGED <<rpcs, inflight, sink>>
    /\ UNCHANGED <<pc, result, shared, httpClosed, grpc, forced, ctl>>

RpcStart == grpc = "serving" /\ rpcs < MaxRpcs /\ RpcSays(rpcs + 1, inflight + 1)
RpcEnd   == inflight > 0 /\ RpcSays(rpcs, inflight - 1)
-----------------------------------------------------------------------------
(* httpserver.Start *)

HttpSpawns == /\ At("http", "spawn")
              /\ pc' = [pc EXCEPT !["http"] = "recv", !["httpWait"] = "ctx",
                                  !["httpListen"] = "listen"]
              /\ Alone /\ UNCHANGED <<proc, sink>>

\* errChan <- server.Close(), after ctx was cancelled.
HttpClose == /\ ctx
             /\ Step("httpWait", "ctx", "send")
             /\ httpClosed' = TRUE
             /\ \E err \in {"nil", "err"} : result' = [result EXCEPT !["httpWait"] = err]
             /\ UNCHANGED <<shared, grpc, rpcs, inflight, forced, ctl>>

\* ListenAndServe returns: ErrServerClosed, which is dropped, or another error.
HttpListens == \/ ~httpClosed /\ Step("httpListen", "listen", "serving") /\ Alone
               \/ \E here \in {"listen", "serving"} :
                     \/ httpClosed /\ Step("httpListen", here, "ended") /\ Alone
                     \/ ~httpClosed /\ Fails("httpListen", here, "send", "err")

\* return <-errChan: the unbuffered channel of Start takes one error.
HttpReceivesInto(g, onErr) ==
    /\ At("http", "recv") /\ pc[g] = "send"
    /\ pc' = [pc EXCEPT !["http"] = IF result[g] = "err" THEN onErr ELSE "sayShutdown",
                        ![g] = "ended"]
    /\ result' = [result EXCEPT !["http"] = result[g]]
    /\ UNCHANGED <<shared, server, forced, ctl, proc, sink>>

HttpReceivesSilently(g) == HttpReceivesInto(g, "done")

HttpReceives(g) == HttpReceivesInto(g, "send")

HttpStep == \/ Say("http", "start", "spawn") \/ HttpSpawns
            \/ HttpReceives("httpWait") \/ HttpReceives("httpListen")
            \/ SendErr("http", "send", "done", result["http"])
            \/ Say("http", "sayShutdown", "done")
            \/ Done("http")
-----------------------------------------------------------------------------
\* The goroutine of the logger takes a line, and writes it to the writers there are.
WriteLine == proc = "running" /\ Logger!WriteNext
                /\ UNCHANGED <<pc, result, shared, server, forced, ctl, proc>>

Terminated == proc # "running" /\ UNCHANGED vars

Next == \/ MainStep \/ Timeout \/ RunStep \/ GrpcStopStep \/ HttpStep \/ HttpClose \/ HttpListens
        \/ RpcStart \/ RpcEnd
        \/ WriteLine
        \/ Signal \/ ServiceEnds
        \/ Terminated

Spec == Init /\ [][Next]_vars

\* The Go scheduler runs every goroutine that can run and the logger writes.
\* Servers need not fail, calls and signals need not come or end.
Fairness == /\ WF_vars(MainStep) /\ WF_vars(RunStep /\ ~(pc["run"] = "serving" /\ grpc = "serving"))
            /\ WF_vars(GrpcStopStep) /\ WF_vars(HttpStep) /\ WF_vars(HttpClose)
            /\ WF_vars(WriteLine)

FairSpec == Spec /\ Fairness
-----------------------------------------------------------------------------
(* Properties *)

\* Types; and once wait returns without force, both servers are down: nobody serves or
\* sends any more, and calls only run on if Serve failed by itself.
QuietAfterGracefulWait ==
    /\ TypeOK
    /\ (control = "" /\ pc["main"] \in {"close", "await", "closed"} /\ ~forced) =>
          /\ pc["run"] = "ended" /\ pc["http"] \in {"off", "ended"}
          /\ pc["http"] = "ended" => httpClosed \/ pc["httpListen"] = "ended"
          /\ result["run"] = "nil" => inflight = 0 /\ grpc = "stopped"

\* "Make sure that all the asynchronous log is printed when the program exits"
\* (runFuncWrapper): what was taken out of recordChan before InitLogger is not.
ExitPrintsEverything == proc = "exited" /\ pc["run"] = "off" => written = 0

\* "Wait two seconds to exit gracefully, force the exit if that is not possible"
\* (wait): a process in which all of the WaitGroup ended in time does not panic.
GracefulExitIsClean ==
    proc = "panicked" => forced \/ pc["run"] \in {"fatalClose", "fatalAwait"}

\* A wrong flag, -h, -i, an unknown command and "stop" end, nothing is served, and a stop that
\* ends by itself has interrupted the service in the pid file, if that still runs.
StopCommandEnds ==
    control \in {"bad", "help", "stop"} ~>
        /\ proc # "running" /\ pc["run"] = "off"
        /\ proc = "exited" /\ control = "stop" /\ pid_file = "live" => interrupted

\* "start service [%s] successfully! service with pid [%d] will run as daemon"
\* (controlStartHandler): what was forked serves, unless it ends.
StartedServiceServes == daemon ~> pc["run"] # "off" \/ proc # "running"

TimerFires == WF_vars(Timeout)

\* A signal ends the process whatever hangs, a call in flight or a blocked
\* sender, because wait gives up after two seconds.
SignalEndsProcess == TimerFires => (sig = "pending" ~> proc # "running")

\* A server that cannot start or stops serving ends the process: its error
\* reaches main through both channels on the way.
FailureEndsProcess ==
    TimerFires => (pc["httpListen"] = "send" \/ result["run"] = "err" ~> proc # "running")

\* Before those two seconds are over, wait only hangs when a call stays in flight
\* or the one place in errChan, which nobody reads any more, is taken while
\* another goroutine of the WaitGroup reports its result.
GracefulUnlessStuck ==
    pc["main"] = "wait" ~> \/ pc["main"] # "wait" \/ proc # "running"
                           \/ inflight > 0
                           \/ errChan # <<>> /\ \E g \in {"run", "http"} :
                                 pc[g] \in {"send", "sendPanic"}
=============================================================================
