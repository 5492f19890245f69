---------------------------- MODULE AsyncLogger ----------------------------
(***************************************************************************)
(* The asynchronous logger of UserManagerSystem (pkg/util/logger):         *)
(* goroutines deliver Records through recordChan to one goroutine,         *)
(* boostrapLogWriter, that hands each to the registered writers;           *)
(* initLoggerWithConf registers the writers while others already log;      *)
(* Close, called by main or by Fatal, drains and flushes.                  *)
(*                                                                         *)
(* A Record is an object with an identity: it comes from recordPool, is    *)
(* filled by one goroutine, read by another and put back.  Reads of the    *)
(* unsynchronised fields writers and level see the value before or after   *)
(* the racing assignment.                                                  *)
(*                                                                         *)
(* That a record was written, or flushed, says that Write, or Flush, was   *)
(* called and did what it should: an error of either is printed to stderr  *)
(* and otherwise ignored.  FileRotation has writers whose calls fail.      *)
(***************************************************************************)
EXTENDS Naturals, Sequences, FiniteSets

CONSTANTS Goroutines,   \* the callers of the package
          Main,         \* the one whose deferred call is Close
          ChanCap,      \* capacity of recordChan, 1024 in the code
          MaxCalls,     \* bound: calls of the logging functions
          MsgLevels,    \* bound: the levels at which Debug...Error are called
          Confs         \* bound: the configuration files considered

ASSUME LoggerAssumption == /\ Main \in Goroutines
                           /\ IsFiniteSet(Goroutines)
                           /\ ChanCap \in Nat \ {0}
                           /\ MaxCalls \in Nat
                           /\ MsgLevels \subseteq Nat
                           /\ \A cf \in Confs : cf.fileLevel \in Nat

LogLevelDebug == 0
LogLevelInfo  == 1
LogLevelWarn  == 2
LogLevelFatal == 4

WriterNames == {"info", "wf", "console"}
Levels      == MsgLevels \cup {LogLevelFatal}
\* What the n-th call logs.
Records     == [n : 1..MaxCalls, level : Levels]
\* As many objects as calls: recordPool.New can always allocate one.
Objects     == 1..MaxCalls
NoObject    == 0

VARIABLES conf,         \* the parsed logger.json
          todo,         \* what initLoggerWithConf still has to do
          writers,      \* Logger.writers
          level,        \* Logger.level
          recordChan,   \* Logger.recordChan: queued objects
          closed,       \* whether recordChan is closed
          c,            \* tokens in Logger.c
          pool,         \* free objects in recordPool
          allocated,    \* objects made by recordPool.New
          rec,          \* the content of each object
          wpc,          \* boostrapLogWriter: where it is
          wfirst,       \* ... still handling the first record
          wrec,         \* ... the object it received
          wleft,        \* ... writers its range loop has not reached
          pc, obj,      \* each caller: where it is, the object it holds
          calls,        \* the calls so far
          log,          \* what each writer was given, oldest first
          flushed,      \* how much of it left the buffer
          proc,         \* "running", "panicked", "exited"
          accepted,     \* history: contents in the order of the channel sends
          ranged,       \* history: records whose range loop has started
          since         \* history: ranged when each writer was registered

logger == <<writers, level, recordChan, closed, c, pool, allocated, rec>>
writer == <<wpc, wfirst, wrec, wleft>>
caller == <<pc, obj, calls>>
output == <<log, flushed>>
vars   == <<conf, todo, logger, writer, caller, output, proc, accepted, ranged, since>>

RangeOf(s) == {s[i] : i \in 1..Len(s)}

CallerPcs == {"idle", "send", "sendFatal", "close", "closeFatal", "await",
              "awaitFatal", "closed"}

TypeOK == /\ conf \in Confs
          /\ todo \in Seq(WriterNames \cup {"level"})
          /\ writers \in Seq(WriterNames)
          /\ level \in Nat
          /\ recordChan \in Seq(Objects) /\ Len(recordChan) <= ChanCap
          /\ closed \in BOOLEAN
          /\ c \in 0..1
          /\ pool \subseteq 1..allocated
          /\ allocated \in Objects \cup {0}
          /\ rec \in [Objects -> Records \cup {<<>>}]
          /\ wpc \in {"select", "range", "write", "done"}
          /\ wfirst \in BOOLEAN
          /\ wrec \in Objects \cup {NoObject}
          /\ wleft \in Seq(WriterNames)
          /\ pc \in [Goroutines -> CallerPcs]
          /\ obj \in [Goroutines -> Objects \cup {NoObject}]
          /\ calls \in 0..MaxCalls
          /\ log \in [WriterNames -> Seq(Records)]
          /\ flushed \in [WriterNames -> Nat]
          /\ proc \in {"running", "panicked", "exited"}
          /\ accepted \in Seq(Records)
          /\ ranged \in Nat
          /\ since \in [WriterNames -> Nat]
-----------------------------------------------------------------------------
(* Configuration *)

\* conf: which paths and switches are set, and the two thresholds.
InitSteps == LET step(wanted, s) == IF wanted THEN <<s>> ELSE <<>>
             IN  step(conf.info, "info") \o step(conf.wf, "wf")
                 \o step(conf.console, "console") \o <<"level">>

Init == /\ conf \in Confs
        /\ todo = InitSteps
        /\ writers = <<>> /\ level = LogLevelDebug
        /\ recordChan = <<>> /\ closed = FALSE /\ c = 0
        /\ pool = {} /\ allocated = 0
        /\ rec = [o \in Objects |-> <<>>]
        /\ wpc = "select" /\ wfirst = TRUE /\ wrec = NoObject /\ wleft = <<>>
        /\ pc = [g \in Goroutines |-> "idle"]
        /\ obj = [g \in Goroutines |-> NoObject]
        /\ calls = 0
        /\ log = [w \in WriterNames |-> <<>>]
        /\ flushed = [w \in WriterNames |-> 0]
        /\ proc = "running"
        /\ accepted = <<>> /\ ranged = 0
        /\ since = [w \in WriterNames |-> 0]

\* Which levels a writer accepts: the floors and ceilings of config.go.
PassesWithGap(w, lv) ==
    CASE w = "info"    -> lv < (IF conf.wf THEN LogLevelInfo ELSE LogLevelFatal)
      [] w = "wf"      -> lv >= LogLevelWarn
      [] w = "console" -> lv >= conf.consoleLevel

Passes(w, lv) ==
    CASE w = "info"    -> lv <= (IF conf.wf THEN LogLevelInfo ELSE LogLevelFatal)
      [] w = "wf"      -> lv >= LogLevelWarn
      [] w = "console" -> lv >= conf.consoleLevel

RegisterWriter ==
    /\ proc = "running"
    /\ todo # <<>> /\ Head(todo) \in WriterNames
    /\ writers' = Append(writers, Head(todo))
    /\ since' = [since EXCEPT ![Head(todo)] = ranged]
    /\ todo' = Tail(todo)
    /\ UNCHANGED <<conf, level, recordChan, closed, c, pool, allocated, rec,
                   writer, caller, output, proc, accepted, ranged>>

SetLevel == /\ proc = "running"
            /\ todo # <<>> /\ Head(todo) = "level"
            /\ level' = conf.fileLevel
            /\ todo' = Tail(todo)
            /\ UNCHANGED <<conf, writers, recordChan, closed, c, pool, allocated, rec,
                           writer, caller, output, proc, accepted, ranged, since>>

\* A log file that cannot be opened (the panic is recovered by the caller of
\* InitLogger) or a level that is not in string2logLevel: the rest is skipped.
InitAborts == /\ proc = "running"
              /\ todo # <<>>
              /\ todo' = <<>>
              /\ UNCHANGED <<conf, logger, writer, caller, output, proc, accepted,
                             ranged, since>>
-----------------------------------------------------------------------------
(* Callers: Debug, Info, Warn, Error, Fatal *)

InBackground == UNCHANGED <<conf, todo, writers, level, c, log, flushed, ranged, since>>

\* recordPool.Get(): an object somebody put back, or a new one.
Got(o) == \/ o \in pool /\ pool' = pool \ {o} /\ UNCHANGED allocated
          \/ o = allocated + 1 /\ allocated' = o /\ UNCHANGED pool

\* deliverRecord2Writer up to the send: filtered by level, or an object is
\* taken and filled.
Deliver(g, lv, next) ==
    /\ proc = "running"
    /\ pc[g] = "idle"
    /\ calls < MaxCalls
    /\ calls' = calls + 1
    /\ \/ /\ lv < level
          /\ UNCHANGED <<pool, allocated, rec, pc, obj>>
       \/ /\ lv >= level
          /\ \E o \in Objects :
                /\ Got(o)
                /\ rec' = [rec EXCEPT ![o] = [n |-> calls', level |-> lv]]
                /\ obj' = [obj EXCEPT ![g] = o]
          /\ pc' = [pc EXCEPT ![g] = next]
    /\ InBackground
    /\ UNCHANGED <<recordChan, closed, writer, proc, accepted>>

Log(g, lv) == Deliver(g, lv, "send")
Fatal(g)   == Deliver(g, LogLevelFatal, "sendFatal")

\* recordChan <- r: blocks while the channel is full, panics when it is closed.
SendTo(g, q) ==
    /\ proc = "running"
    /\ pc[g] \in {"send", "sendFatal"}
    /\ \/ /\ ~closed
          /\ Len(recordChan) < ChanCap
          /\ recordChan' = q
          /\ accepted' = Append(accepted, rec[obj[g]])
          /\ obj' = [obj EXCEPT ![g] = NoObject]
          /\ pc' = [pc EXCEPT ![g] = IF @ = "send" THEN "idle" ELSE "closeFatal"]
          /\ UNCHANGED proc
       \/ /\ closed
          /\ proc' = "panicked"
          /\ UNCHANGED <<recordChan, accepted, obj, pc>>
    /\ InBackground
    /\ UNCHANGED <<closed, pool, allocated, rec, writer, calls>>

SendToFront(g) == SendTo(g, <<obj[g]>> \o recordChan)

Send(g) == SendTo(g, Append(recordChan, obj[g]))
-----------------------------------------------------------------------------
(* Close, called by Main's defer or by Fatal *)

CloseChan(g) ==
    /\ proc = "running"
    /\ \/ g = Main /\ pc[g] = "idle"
       \/ pc[g] = "closeFatal"
    /\ closed' = TRUE
    /\ IF closed THEN proc' = "panicked" /\ UNCHANGED pc
                 ELSE /\ pc' = [pc EXCEPT ![g] = IF @ = "idle" THEN "await" ELSE "awaitFatal"]
                      /\ UNCHANGED proc
    /\ InBackground
    /\ UNCHANGED <<recordChan, pool, allocated, rec, writer, obj, calls, accepted>>

Flushing(ws) == flushed' = [w \in WriterNames |->
                               IF w \in ws THEN Len(log[w]) ELSE flushed[w]]

Awaited(g, ws) ==
    /\ proc = "running"
    /\ pc[g] \in {"await", "awaitFatal"}
    /\ c = 1 /\ c' = 0
    /\ Flushing(ws)
    /\ IF pc[g] = "await"
       THEN pc' = [pc EXCEPT ![g] = "closed"] /\ UNCHANGED proc
       ELSE proc' = "exited" /\ UNCHANGED pc
    /\ UNCHANGED <<conf, todo, writers, level, recordChan, closed, pool, allocated, rec,
                   writer, obj, calls, log, accepted, ranged, since>>

AwaitDoneWithoutFlush(g) == Awaited(g, {})

AwaitDone(g) == Awaited(g, RangeOf(writers))

MainReturns == /\ proc = "running"
               /\ pc[Main] = "closed"
               /\ proc' = "exited"
               /\ UNCHANGED <<conf, todo, logger, writer, caller, output, accepted,
                              ranged, since>>
-----------------------------------------------------------------------------
(* boostrapLogWriter *)

Background == /\ proc = "running"
              /\ UNCHANGED <<conf, todo, writers, level, closed, allocated, rec, caller,
                             proc, accepted, since>>

RecvWhen(ready) ==
    /\ Background
    /\ wpc = "select" /\ ready
    /\ wrec' = Head(recordChan)
    /\ recordChan' = Tail(recordChan)
    /\ wpc' = "range"
    /\ UNCHANGED <<c, pool, wfirst, wleft, output, ranged>>

RecvOnceRegistered == RecvWhen(recordChan # <<>> /\ writers # <<>>)

Recv == RecvWhen(recordChan # <<>>)

ReturnWith(tokens) ==
    /\ Background
    /\ wpc = "select" /\ closed
    /\ c' = tokens
    /\ wpc' = "done"
    /\ UNCHANGED <<recordChan, pool, wfirst, wrec, wleft, output, ranged>>

RecvClosedSilently  == recordChan = <<>> /\ ReturnWith(0)
RecvClosedUndrained == ReturnWith(1)

RecvClosed == recordChan = <<>> /\ ReturnWith(1)

RangeOver(ws, free) ==
    /\ Background
    /\ wpc = "range"
    /\ wleft' = ws
    /\ ranged' = ranged + 1
    /\ wpc' = "write"
    /\ pool' = pool \cup free
    /\ UNCHANGED <<recordChan, c, wfirst, wrec, output>>

RangeSkippingFirst == RangeOver(IF wfirst THEN <<>> ELSE writers, {})
RangeRecycling     == RangeOver(writers, IF wfirst THEN {} ELSE {wrec})

\* for _, w := range logger.writers: the slice is read once.
RangeWriters == RangeOver(writers, {})

\* w.Write(r).  The console is not buffered; a full bufio buffer spills.
WriteOne ==
    /\ Background
    /\ wpc = "write" /\ wleft # <<>>
    /\ LET w == Head(wleft)
           grown == IF Passes(w, rec[wrec].level) THEN Append(log[w], rec[wrec]) ELSE log[w]
       IN  /\ log' = [log EXCEPT ![w] = grown]
           /\ \/ w # "console" /\ UNCHANGED flushed
              \/ flushed' = [flushed EXCEPT ![w] = Len(grown)]
    /\ wleft' = Tail(wleft)
    /\ UNCHANGED <<recordChan, c, pool, wpc, wfirst, wrec, ranged>>

\* recordPool.Put(r); the branch for the first record leaves that to the GC.
PutBack ==
    /\ Background
    /\ wpc = "write" /\ wleft = <<>>
    /\ pool' = IF wfirst THEN pool ELSE pool \cup {wrec}
    /\ wfirst' = FALSE
    /\ wrec' = NoObject
    /\ wpc' = "select"
    /\ UNCHANGED <<recordChan, c, wleft, output, ranged>>

\* flushTimer exists once the first record was handled.
Flush(ws) == /\ Background
             /\ wpc = "select" /\ ~wfirst
             /\ Flushing(ws)
             /\ UNCHANGED <<recordChan, c, pool, writer, log, ranged>>

FlushTickFirstWriter == Flush({writers[i] : i \in (1..Len(writers)) \cap {1}})

FlushTick == Flush(RangeOf(writers))
-----------------------------------------------------------------------------
Terminated == proc # "running" /\ UNCHANGED vars

WriterStep == Recv \/ RecvClosed \/ RangeWriters \/ WriteOne \/ PutBack

Next == \/ RegisterWriter \/ SetLevel \/ InitAborts
        \/ \E g \in Goroutines : \/ \E lv \in MsgLevels : Log(g, lv)
                                 \/ Fatal(g)
                                 \/ Send(g) \/ CloseChan(g) \/ AwaitDone(g)
        \/ MainReturns
        \/ WriterStep \/ FlushTick
        \/ Terminated

Spec == Init /\ [][Next]_vars

\* The Go scheduler runs every goroutine that can run.  A channel serves its
\* blocked senders first come, first served, and select picks a ready case at
\* random: both are strong fairness.  Nobody has to log or to close.
Fairness == /\ WF_vars(WriterStep)
            /\ SF_vars(FlushTick)
            /\ \A g \in Goroutines :
                  /\ SF_vars(Send(g))
                  /\ WF_vars(AwaitDone(g))
                  /\ WF_vars(pc[g] = "closeFatal" /\ CloseChan(g))

FairSpec == Spec /\ Fairness
-----------------------------------------------------------------------------
(* Properties *)

\* How many accepted records writer w has been through.
Seen(w) == IF w \in RangeOf(wleft) THEN ranged - 1 ELSE ranged

\* Which of the accepted records writer w had to be given so far.
Due(w) == {i \in (since[w] + 1)..Seen(w) : Passes(w, accepted[i].level)}

\* The items of l are those of acc at the places due, each once, in their order.
PicksInOrder(l, acc, due) ==
    \E place \in [1..Len(l) -> due] :
       /\ due = {place[k] : k \in 1..Len(l)}
       /\ \A k, m \in 1..Len(l) : k < m => place[k] < place[m]
       /\ \A k \in 1..Len(l) : l[k] = acc[place[k]]

\* Each writer was given, in the order of the channel and each once, exactly
\* the records of the levels it accepts whose range loop started after it was
\* registered, although it is registered while others log.
WriterLogs ==
    \A w \in WriterNames : IF w \in RangeOf(writers)
                           THEN PicksInOrder(log[w], accepted, Due(w))
                           ELSE log[w] = <<>>

\* When both log files are open a record goes to exactly one of them.
FilesPartitionTheLog ==
    ({"info", "wf"} \subseteq RangeOf(writers) /\ wleft = <<>>) =>
        \A i \in 1..ranged :
           (i > since["info"] /\ i > since["wf"]) =>
               (accepted[i] \in RangeOf(log["info"])) # (accepted[i] \in RangeOf(log["wf"]))

\* The objects in the hands of callers, in the channel, with the writer and
\* in the pool.
WithCallers == {obj[g] : g \in Goroutines} \ {NoObject}
InFlight    == RangeOf(recordChan) \cup ({wrec} \ {NoObject})

\* A Record has one owner at a time: nobody can be handed a Record from
\* recordPool that is still queued, being written, or being filled.
OneOwner ==
    /\ WithCallers \cap (InFlight \cup pool) = {}
    /\ InFlight \cap pool = {}
    /\ wrec \notin RangeOf(recordChan)
    /\ \A i, k \in 1..Len(recordChan) : recordChan[i] = recordChan[k] => i = k
    /\ \A g, h \in Goroutines : obj[g] = obj[h] /\ obj[g] # NoObject => g = h

\* Nothing is lost, duplicated, reordered or overwritten on the way: the queued
\* objects hold the latest accepted records, the writer's object the one before.
QueueHoldsAccepted ==
    LET done == Len(accepted) - Len(recordChan)
    IN  /\ done = ranged + (IF wpc = "range" THEN 1 ELSE 0)
        /\ \A i \in 1..Len(recordChan) : rec[recordChan[i]] = accepted[done + i]
        /\ wpc \in {"range", "write"} => done > 0 /\ rec[wrec] = accepted[done]

\* When Close has returned, every accepted record was given to the writers, and
\* each was told to flush what it was given.
ClosedMeansWritten ==
    (pc[Main] = "closed" \/ proc = "exited") =>
        /\ ranged = Len(accepted) /\ wleft = <<>>
        /\ \A w \in RangeOf(writers) : flushed[w] = Len(log[w])

\* Who holds an object, and what the writer goroutine has left to do.
HeldWhere ==
    /\ \A g \in Goroutines : pc[g] \in {"send", "sendFatal"} <=> obj[g] # NoObject
    /\ wpc \in {"range", "write"} <=> wrec # NoObject
    /\ wleft # <<>> => wpc = "write"
    /\ RangeOf(wleft) \subseteq RangeOf(writers)

\* Objects in use were made by recordPool.New and have been filled.
Filled == \A o \in WithCallers \cup InFlight : o \in 1..allocated /\ rec[o] \in Records

\* The writer goroutine only returns after Close, with nothing left in the
\* channel, and its token is taken once.
Drained ==
    /\ wpc = "done" => closed /\ recordChan = <<>>
    /\ c = 1 => wpc = "done"
    /\ \A g \in Goroutines : pc[g] \in {"await", "awaitFatal", "closed"} => closed
    /\ (pc[Main] = "closed" \/ proc = "exited") => wpc = "done" /\ c = 0

\* A writer is given nothing before it is registered.
UnregisteredIsEmpty ==
    \A w \in WriterNames \ RangeOf(writers) : log[w] = <<>> /\ flushed[w] = 0

\* Every writer is registered at most once and reached at most once by a range
\* loop, and wf.log is only opened when conf says so.
NoRepeat(s) == \A i, k \in 1..Len(s) : s[i] = s[k] => i = k

Registering ==
    /\ NoRepeat(todo) /\ NoRepeat(writers) /\ NoRepeat(wleft)
    /\ RangeOf(todo) \cap RangeOf(writers) = {}
    /\ "wf" \in RangeOf(todo) \cup RangeOf(writers) => conf.wf
    /\ \A w \in WriterNames : since[w] <= ranged
    /\ \A w \in RangeOf(wleft) : since[w] < ranged

\* The inductive invariant: what keeps the records whole from the call to the
\* writer, and what makes Close mean that all of them were written.
IInv == /\ TypeOK
        /\ HeldWhere
        /\ Filled
        /\ OneOwner
        /\ QueueHoldsAccepted
        /\ Drained
        /\ UnregisteredIsEmpty
        /\ ClosedMeansWritten
        /\ Registering

\* A caller that blocks on the full channel gets through, unless the process ends.
BlockedSenderProceeds ==
    \A g \in Goroutines : pc[g] = "send" ~> (pc[g] = "idle" \/ proc # "running")

\* Close returns, unless another Close or a late record makes the process panic.
CloseReturns == pc[Main] = "await" ~> (pc[Main] = "closed" \/ proc # "running")

\* What a writer was given leaves its buffer although nobody calls Close.
WrittenIsFlushed ==
    \A w \in WriterNames : \A k \in 1..MaxCalls :
        Len(log[w]) >= k ~> (flushed[w] >= k \/ proc # "running")

\* What the abstract sink sees: a record is written when the range loop over
\* the writers is through with it, and flushed when Close has returned.
written == ranged - (IF wleft # <<>> THEN 1 ELSE 0)
phase   == IF pc[Main] = "closed" \/ proc = "exited" THEN "flushed"
           ELSE IF closed THEN "closed" ELSE "open"

Sink == INSTANCE LogSink

\* The logger implements the abstract sink: accepted once, written once in
\* order, all written when Close returns.
ImplementsSink == Sink!Spec
=============================================================================
