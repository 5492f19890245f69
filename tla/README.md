# ToyBox in TLA+

ToyBox is a collection of small programs in Go, C++ and Python. This directory
holds TLA+ modules that model the parts of it that keep state and do more than
one thing at a time, the TLC configurations that check them, and proofs that
TLAPS checks. `PROJECT.json` maps every definition to the lines it stands for.

    tlc -config ThreadPool.cfg MCThreadPool.tla     # check one run
    tlapm ThreadPoolProofs.tla                      # check the proofs

## 1. Inventory

### Parts that are modelled

| Part (code) | State | Operations | Interacts with |
|---|---|---|---|
| `util::ThreadPool` (`CppProjects/thirdparty/util/threadpool.{h,cc}`) | task queue, stop flag, a mutex and a condition variable, worker threads | `Enqueue`, the worker loop, the destructor | `LogParserMgr` enqueues; tasks may enqueue |
| Logger (`GolangProjects/UserManagerSystem/pkg/util/logger/{logger,config,console_writer}.go`) | writers, level, channel of 1024 records, token channel, `recordPool` | `Debug`...`Error`, `Fatal`, `Close`, `InitLogger`, the goroutine `boostrapLogWriter` | every goroutine of the Go program |
| FileWriter (`pkg/util/logger/file_writer.go`) | open file, its buffer, the hour in its name, the list of renamed files | `Init`, `Write`, `Flush`, `Rotate` | called by `boostrapLogWriter`; the file system and the clock |
| App and servers (`pkg/util/app/app.go`, `pkg/server/**`) | `errChan`, a WaitGroup, a context, the grpc and http servers | start, serve, fail, signal, wait two seconds, close the logger | grpc, net/http, signals, the logger |
| Service control (`pkg/util/app/{control,pid_file}.go`, in part) | the command line, the variable DAEMON, the pid file | `start`, `stop`, `restart`, help | the service whose pid is in the file; runs on main of App, before anything is started |
| AiortcServer, AiortcWebcamServer (`PythonProjects`, in part) | the set `pcs` of peer connections | `offer`, `on_connectionstatechange`, `on_shutdown` | aiohttp and aiortc on one asyncio loop |
| TcpChat (`CppProjects/TcpChat`) | epoll set, table of clients, socket buffers | `Accept`, read and relay, `Stop`; `Connect`, `Send`, the receiving thread, `Disconnect` | server and clients over TCP |
| LogParser (`CppProjects/LogParser/log_parser/{log_parser,float_str}.cc`) | rows, types of columns, sorted index, metrics | `Parse`, `Calculate`, `Sort` | a file |
| LogParserMgr (`log_parser_mgr.cc`) | list of paths, list of parsers, parser per path, merged parser | `Parse`, four queries | a task per file on `ThreadPool` |

### Not modelled

| Part | Why |
|---|---|
| daemon part of service control (`writeServicePid`, `deletePidFile`, app.go:120-135) and the stdio redirector (`pkg/util/redirector.go`) | unreachable: `controlStartHandler` never returns, so no process gets past line 113 with the command start or restart (run `control_start`) |
| media of the two aiortc servers, their static pages | calls of aiortc, OpenCV and aiohttp, one after another |
| Netlink examples | a sequential sender and a sequential receiver with a counter each; order and loss are the kernel's |
| SocketChat | a UDP echo loop that keeps nothing between two datagrams |
| MiniDocker, PistacheDemo, AiortcWslCamServer | one system call or one library call after another |
| monitor, httphandler, panic handler, build info, `str_util` | stateless helpers; prometheus counters |
| ZhihuCrawl, MovieAnalysis, LogParser's main and scripts | sequential scripts |
| `thirdparty/{blade-build,gtest,gmock,coost,pistache,backtrace}`, `vendor/`, `*.pb.go` | third-party or generated |

The larger share of the repository by lines is vendored. ToyBox itself is some
eight thousand lines, most of them scripts, demos of one system call, generated
code and tests: the modules cover a small part of all lines, and nearly all of
those that keep state which several actors change.

### What is hard, and what must hold

* **Pool.** `notify_one` comes after the unlock and the destructor's `notify_all`
  may find workers asleep, awake or busy. Tasks must start once and in order,
  no queued task may wait behind a lost wake-up, the destructor must drain the
  queue and return.
* **Logger.** Writers are registered while other goroutines log; records are
  recycled; `Close` and `Fatal` close a channel that others send on. Each
  accepted record must reach each writer of its level once and in order, and be
  on disk when `Close` returns.
* **Rotation.** Five system calls, each of which may fail and be retried ten
  seconds later from where it stopped; restarts; other programs that delete
  files; a clock that is set back. Files read by name must give the records in
  order, and nothing disappears before it is overdue. A flush that fails, even
  once on an open file, is kept by `bufio.Writer`: it refuses all further records and
  every Rotate returns there, until the process is restarted.
* **Lifecycle.** Six goroutines, two error channels, one WaitGroup, one
  two-second limit. A signal or a failed server must end the process, a graceful
  end must leave nobody running.
* **Service control.** A command acts on a file somebody else wrote, about a
  process that may end at any moment. `stop` must end, and have interrupted the
  service if it runs; `start` must leave a service behind.
* **Peer connections.** Handlers discard what they closed, offers add and
  `on_shutdown` gathers over the same set, each across awaits. None may be
  forgotten unclosed, failed ones must go, the shutdown must end.
* **TcpChat.** One `read` per edge-triggered event, partial writes ignored, every
  error fatal. What a client sent must reach the others unchanged.
* **LogParser.** Integer width, ties, types that are guessed from one line,
  futures matched with files by position, a second `Parse` on old state.

The hazards are listed line by line in `PROJECT.json`.

## 2. Modules

| Module | Role |
|---|---|
| `TaskExecutor` | what a pool promises: accepted tasks start in order, each once; closed executors reject; a closed executor shuts when it is drained |
| `ThreadPool` | the pool, one action per critical section or blocking call; refines `TaskExecutor` |
| `ThreadPoolProofs` | its theorems |
| `LogSink` | what the logger promises: records are written in the order of acceptance, and all of them before `Close` returns |
| `AsyncLogger` | the logger; refines `LogSink` |
| `AsyncLoggerProofs` | its theorems |
| `FileRotation` | one FileWriter |
| `FileRotationProofs` | its theorems |
| `AppLifecycle` | the process that runs a command or the servers, with `LogSink` for its logger |
| `AppLifecycleProofs` | its theorems |
| `PeerConnections` | the set of connections of the aiortc servers across their awaits |
| `PeerConnectionsProofs` | its theorems |
| `TcpChat` | the server, its clients, and the TCP connections between them |
| `TcpChatProofs` | its theorems about who is known to the server and why it exits, and about what is relayed and printed |
| `LogParser` | pure operators: parsing, sorting, metrics and queries |
| `LogParserProofs` | lemmas about them: what each returns for any rows |
| `LogParserMgr` | `Parse` over a pool; uses `LogParser`, and `TaskExecutor` for the pool |
| `LogParserMgrProofs` | its theorems |
| `MC*` | values of constants for TLC |

A module's variables carry the names of the fields they model wherever TLA+
allows it. `pc`, `wpc` and `mpc` say where a thread is. Variables named in a
comment as history exist for the properties only; no action reads them in a
guard, except counters that bound the state space.

### ThreadPool

`Enqueue` is the critical section of lines 40-49 (it appends and then releases
the lock), `NotifyOne` the call after it. A worker that found the queue empty
goes to "wait" in the same step as it releases the lock (`WorkerSleep`), as a
condition variable does; `SpuriousWakeup` is allowed by the standard. `WorkerTake`
is the check and the pop under one lock. The task itself is `TaskReturns` or
`TaskThrows`; while it runs its worker may call `Enqueue`. `StopPool`,
`NotifyAll` and `JoinAll` are the destructor, entered when no client is inside a
call, which is what a caller of a C++ destructor must ensure.

### AsyncLogger

`Deliver` is `deliverRecord2Writer` up to the send: the level check, an object
from `recordPool`, its fields. `Send` blocks on a full channel and panics on a
closed one. `Recv`, `RangeWriters`, `WriteOne`, `PutBack` are one turn of
`boostrapLogWriter`: `RangeWriters` evaluates `logger.writers` once, as a Go range does, so
that a writer registered later misses this record. The first record is not put
back into the pool (`wfirst`), as in lines 96-105. `sync.Pool` may hand out any
object that is in it, or a new one. `InitSteps` is the order in which
`initLoggerWithConf` registers writers and sets the level; `InitAborts` is a file
that does not open or an unknown level, both recovered by the caller. Written and
flushed mean that `Write` and `Flush` of the writer were called: what they return goes
to stderr at most, and what a file makes of it is the subject of `FileRotation`.

### FileRotation

A record is its number and the hour it was written in; a file is the sequence
of its records. `Flush` is what `bufio.Writer` does on an open file, when asked or when
it is full; `FlushFails` leaves some of the records on the disk (none if no file is
open) and sets `sticky`, the error that `bufio.Writer` keeps: `Write` then drops its record,
with the file open or not. The actions for `FileWriter.Rotate` are its early returns: no
new hour (no action), `RotateStuck` (Flush fails now, or has failed before; or Rename
does because the file was closed and its name is gone), `RenameFails`, `CreateFails`,
and `Rotate` itself, with the removal that finds its file or not. `Restart` loses the
memory, `sticky` with it, and opens the file again for appending.

### AppLifecycle

Goroutines: main (`StartService`, `wait`), run (`RunFunc`, grpc `Serve`), grpcStop,
http (the metrics server), httpWait and httpListen. Every line logged is an
`Accept` of the sink, which blocks when the channel is full and panics after
`Close`. The value of a line is not kept. `Timeout` is the two-second limit: it
may fire at any time once main waits.

A process with a command line other than "" runs the command on main: `Dispatch`
is the switch of `runFuncWrapper`, `FindPid` is `findServicePid`, `Interrupt` and `Fork`
are the ends of `controlStopHandler` and `controlStartHandler`, `StopReturns` is what
follows the former (return for stop, one second and a start for restart). The
pid file may hold anything, since it lies in a directory of the user's choice
and nothing in this program writes it; `ServiceEnds` is its process going away
between two steps of the command. `ForkExec` ends the parent, so the model goes on
as the child, from `Init` with `daemon` set. An exit that
skips the deferred `Close` is "unclosed": `os.Exit` in `controlStartHandler`, and a
flag that cli refuses (`FlagsFail`), where `StartService` logs the error and returns
before `runFuncWrapper` is called.

### PeerConnections

A connection carries the name of the POST that makes it. Every action is what
one coroutine does between two awaits: `Register` is `offer` from the parsed body
to `setRemoteDescription`, `Handle` the handler up to `await pc.close()`, which ends
(`Discard`), or returns at once when another coroutine is closing already.
`ShutClose` are the coroutines in the list of `on_shutdown`, `GatherDone` its last
line. The two servers have the same three functions. What a close does, when a
connection fails, and whether aiohttp lets a request in or through while it
shuts down is external, and nondeterministic. A coroutine that raises is
"raised"; its connection stays where it is. Each event schedules a handler; the
ones that have not run yet are one, as all of them look at the state when they run.

### TcpChat

A message is numbered cells and a delimiter (part 0), so that a chunk of the
stream may cut it anywhere. `printed` is the screen of a client, one stream in
which a delimiter or `EndOfLine` ends a line: the receiving thread prints what one
read returned line by line, so `Split` ends the last line whether or not a
delimiter came (an empty line is two ends in a row). `ReadSize`, `BufferSize` and `SockBuf` are the 1024-byte
buffers of the code and the socket buffer of the kernel, scaled to 4 or 5 cells.
A read of the receiving thread that fills its buffer stores a zero behind it, which is
undefined. In `ReceiveOverruns` it falls into the buffer of `Send`, while the client sends:
the message is printed along with what was read, or it is found empty and not sent.
Where nothing is hit the read goes on as `Receive`, and a client that dies of it is one
that leaves.
`in_wait` is a thread inside `epoll_wait`: `LoopTest` reads `is_stop_` before it, so
a wait that was entered still returns its events (`EpollWait`) or times out
(`EpollTimeout`, one second) after `Stop`. `EpollWaitFails` and `AcceptFails` are the
exits of the server when `epoll_wait`, or accept, fcntl or epoll_ctl for a new
connection, returns an error; `Faults` names those that may.
`edge` holds the connections whose edge epoll has not reported, and new data or
the end of the connection raises it. A read that leaves data behind does not:
that is how edge triggering loses data. A client leaves with FIN, or with RST
when it has unread data.

### LogParser and LogParserMgr

A value is its type and its place in the order of that type; text is not
spelled out. `BadFloat` is a value that `strtof` accepts and `FloatStr` does not.
`MayLeave` is what `std::sort` guarantees: some order without inversions, any
order if the comparison is no strict weak order. `ToInt` converts every partial
sum to an int, which is less than `IntLimit` and not less than `-IntLimit`. The numbers
themselves have no width: those of a file are taken to be far from the ends of
int64. `Those` is a loop that appends the elements it keeps. `Merge` is the rest of
`LogParserMgr::Parse` after the futures: `Keep` is the loop over the results and the
two swaps, `ParseMerged` the constructor and the `Parse` of the merged parser; one that
fails is cleared but stays, with its columns and without metrics (`Unparsed`), and is
asked like any other.
`WellFormed`, `Describes` and `ReturnsExtremes` say what a parser and its answers should
be. Reading past the end of a row leads to mpc = "undefined", where the
model stops because C++ says nothing from there on.

## 3. Runs

| Run | Question | Bounds, and why they are enough |
|---|---|---|
| `pool` | all safety of the pool, refinement of the executor with its fairness, the destructor returns | 2 workers (one sleeps while one runs), 2 clients (two notifications outstanding), 3 tasks (one enqueues another while one is queued) |
| `logger_safety` | content, order, level filters and ownership of records, and what `Close` promises | 2 goroutines, a channel of 2, 3 calls: the channel fills, and a pooled object is reused while others are queued. Two configurations: both files; a file without console filter and a strict console |
| `logger_liveness` | blocked callers, `Close` and flushing make progress | 2 goroutines, a channel of 1, 2 calls |
| `rotation` | order, names, retention, nothing torn out, and the writer catches up | 4 hours, 3 records, one retained file, one restart, one clock change, one foreign removal; any write, rename or create fails (a removal fails when its file is gone) |
| `app` | who runs after `wait`, does a signal, a failure or a stop command end the process | one Echo call, a channel of 1; every command and every kind of pid file |
| `app_graceful_panic` (violation) | is an exit within the two seconds clean, as app.go:182 says? | no Echo call, a channel of 2 |
| `control_start` (violation) | does the service that `start` reports run, as control.go:29 says? | every command and pid file, no Echo call |
| `peers` | which connections may be forgotten, do failed ones and the server itself end | 2 offers: connections meet only in `pcs` and in `on_shutdown`, so one is closed while the other is made, fails or is discarded |
| `tcpchat` | what is relayed and printed, who is forgotten, why the server exits | 3 clients (a relay that fails half way), buffers of 5, 2 events per wait, 2 messages of 2 lengths: two short ones share a read, a long one is truncated; each system call of the server may fail |
| `tcpchat_liveness` | what was sent is relayed, who left is removed, `Stop` returns | 2 clients, buffers of 4, 1 event per wait, 3 messages, of which two fill a buffer and overrun it; each system call may fail |
| `tcpchat_blocked` (violation) | is no connection affected by another one that blocks, as the README says? | 2 clients, 3 short messages |
| `logparser` | metrics and sorted rows against their definitions, whenever nobody is in `Parse`; pairing of files and parsers; termination | 2 files of 6 kinds, 2 threads, 2 calls of `Parse`, 1 line appended, ints from -4 to 3 |

Where a run sets `CHECK_DEADLOCK FALSE` the program itself may stop: the file
writer when the bounded clock and records are used up, `LogParserMgr` after its
last call of `Parse`. `Terminated` in the other modules is the end of the process.

### What the passing runs say

* `IInv` (pool): the control state, the owner of every task and the wake-ups are
  consistent; `NoSleeperAtJoin` in it says no worker sleeps once the destructor
  has notified.
  `PendingIsOwned` in it, that a future is pending exactly while one worker or
  the queue holds its task.
* `StartOrder`, `NoLostWakeup`, `DrainedWhenGone`: first in, first out; a queued
  task has a thread on its way to it; the destructor leaves nothing.
* `ImplementsExecutor`, `ImplementsFairExecutor`: the latter says that accepted
  tasks run and that a destructor that was entered returns (`WF_vars(Shut)`).
* `IInv` (logger): an object of the pool has one owner and the owners hold what
  was logged. `WriterLogs`, `FilesPartitionTheLog`, `QueueHoldsAccepted`,
  `ClosedMeansWritten`, `ImplementsSink`: each writer gets exactly the accepted
  records of its levels since it was registered, in order; one file per record;
  all is written and flushed when `Close` returns, whoever called it.
* `BlockedSenderProceeds`, `CloseReturns`, `WrittenIsFlushed`.
* `FilesInOrder`, `NothingMissing`, `RetentionKept`,
  `OnlyOverdueDeleted`, `RotationCatchesUp`. Several hold only under a condition
  the property names, because the code fails without it: no restart
  (retention is forgotten), no clock set back (a file is overwritten), nobody
  else deletes files (removal then fails for ever), the new file could be created,
  no flush has failed (the writer then takes no more records and never rotates
  again). `NothingMissing` says what remains when one did: files and buffer have all
  records from some point on, without a gap, up to the last one taken before the failure.
* `QuietAfterGracefulWait` (with `TypeOK`: the WaitGroup never goes negative),
  `SignalEndsProcess`, `FailureEndsProcess`, `GracefulUnlessStuck`,
  `StopCommandEnds`.
* `ForgottenIsClosed`: what leaves `pcs` is closed or somebody waits for its close,
  except a connection whose offer was still in `request.json()` when `on_shutdown`
  began. `FailedIsForgotten`, `ShutdownEnds`.
* `RelayFaithful`, `LinesAreMessages`, `NobodyIsForgotten`, `ServerFailsForACause`,
  `SentIsRelayed`, `DepartedIsForgotten`, `StopReturns`. The causes are a call of the
  epoll loop that fails, a client that was reset, and a relay to a client that is gone
  or does not read. `LinesAreMessages` holds as long as no message was cut and no read
  filled a buffer. `SentIsRelayed` and `DepartedIsForgotten` hold only
  while reads keep up with what arrives: with more data than one read takes, the
  rest waits for the next edge.
* `MetricsDescribeColumn`, `SortReturnsExtremes`, `ParsersMatchPaths`,
  `MergedAgreesWithFiles`, `FuturesAreCollected`. Answers are checked whenever nobody is
  in `Parse`, after one that failed too. The metrics are the
  extremes, the median and the sum of a column of Int when it fits
  an int, although partial sums may not; the mean and sums of floats are not checked. A second `Parse`
  reads the files again but keeps the parsers of the first one for the same
  paths: pairs stay right, the content is that of the first call.

### What the violations show

1. `app_graceful_panic`: the goroutine that stops grpc is in no WaitGroup and logs
   after main closed the logger.
2. `control_start`: the child that `start` forks gets the same arguments, skips the
   check of the pid file because DAEMON is set, forks and exits; so does its child.
3. `tcpchat_blocked`: a write that would block ends the server.

### Configurations that are expected to fail

Each of these checks one property that the code, its comments or a README lead one to
expect, and TLC refutes it. They are kept for the one who changes that code, and are
not part of the runs of `PROJECT.json`.

| Configuration | Property | What is said, and what the counterexample shows |
|---|---|---|
| `FileRotationHistory.cfg` | `HistoryKnowsAll` | file_writer.go:23, the set of all renamed files: a restart begins with an empty one, so older files are never removed |
| `FileRotationOverdue.cfg` | `OverdueRemoved` | file_writer.go:134, overdue files are removed: when one is gone already the removal of all later ones is put off for ever |
| `FileRotationSetBack.cfg` | `KeptForHours` | file_writer.go:22, the hours a log is kept: after the clock was set back a second file takes the name of the first |
| `AppLifecycleLog.cfg` | `ExitPrintsEverything` | app.go:85, all is printed when the program exits: the goroutine runs from package init, and what it takes before `InitLogger` ("app start", app.go:156) reaches no writer |
| `PeerConnectionsShutdown.cfg` | `ShutdownReleasesAll` | aiortc_server.py:209, all connections are closed: an offer answered while `on_shutdown` gathers is cleared unclosed |
| `TcpChatEof.cfg` | `ClosedIsForgotten` | README of TcpChat, a client that closes is removed: not when its last data and the end come with one edge |
| `TcpChatShortWrite.cfg` | `ForwardedToOthers` | the same, what arrives is forwarded: of a chunk that does not fit the socket only the head is |
| `TcpChatPieces.cfg` | `StickyMessagesApart` | tcp_server.cc:188, tcp_client.cc:107, sticky messages are taken apart: a read that ends within one prints it as two lines |
| `LogParserSum.cfg` | `SumsAreRight` | README of LogParser, the sum of a column: it is added up in int |
| `LogParserSorted.cfg` | `SortsEveryColumn` | the same, rows sorted by a column: `FloatStr` cannot compare every value that makes a column one of floats |
| `LogParserShortRows.cfg` | `ShortRowsAreHarmless` | log_parser.cc:45, bad data is cleared to avoid a crash: a row shorter than the columns of the first file is read past its end |
| `LogParserCleared.cfg` | `ClearingIsHarmless` | the same: a cleared parser keeps its columns, and `Calculate` looks for their metrics in an empty vector |

Observed while modelling, and left without a configuration:

* `retain_hours` = -1 should switch rotation off (logger_config.proto:25); `Rotate`
  does not look at it, and removes the file it has just renamed.
* `FileWriterConfig.enable` is never read (config.go:43).
* An `Echo` call that is cut off by a forced exit may log on the closed channel;
  `HandlePanic` recovers nothing, since `defer` does not call it directly (echo.go:18).
* A restart stops the service and then refuses to start another one, because the
  pid file still exists, unless the old service deletes it within the second that
  main sleeps.
* aiortc_server.py: an offer that raises after `pcs.add` (a missing media file, a
  bad description) leaves its connection in `pcs` until the shutdown, as does a
  peer that leaves in the state "closed" (line 133 only looks for "failed").

## 4. Fairness

* Pool: weak fairness for each worker step and for the threads that notify and
  join: a C++ thread that is not blocked runs. Tasks end; nobody has to enqueue
  or to destroy the pool. A wake-up is not fair by itself: spurious wake-ups may
  never come.
* Logger: weak fairness of the writer goroutine, strong fairness of a blocked
  send (Go channels serve blocked senders in order) and of the flush timer
  (select picks a ready case at random, so a timer that is ready again and again
  is served). Nobody has to log or close, except `Fatal`, which goes on.
* Rotation: Rotate and Flush are called again and again (every ten seconds), and a
  rename or create that may fail does not fail for ever. A Flush may: once one has
  failed neither is enabled again.
* App: goroutines that can run do, the logger writes; a server need not fail, a
  call need not end. The timer's fairness is a premise of the two properties that
  need it.
* Commands of AppLifecycle: main goes on; the service in the pid file need not end.
* PeerConnections: the asyncio loop runs every coroutine that is ready, and a
  close ends. Nobody need finish a request, fail or stop the server.
* TcpChat: the epoll loop runs (`LoopTest`, `EpollWait`, `EpollTimeout`), the events of a
  batch are handled, the one of the listening socket by accepting or failing to. Strong
  fairness of reporting the event of one client: epoll rotates its list of ready
  descriptors, so `MaxEvents` starve none. Clients need not read, send or leave.
* LogParserMgr: the caller of `Parse` goes on, and the pool has the fairness of
  `TaskExecutor!Spec`, which the run `pool` shows of `ThreadPool`.

## 5. Proofs

`ThreadPoolProofs` assumes `PoolAssumption`: the sets of workers, clients and tasks
are finite, disjoint where they must be, and there is a worker. It proves for any
such sets: `TypeCorrect`; `PoolInvariant`, that `IInv` holds in every reachable
state; from it `WakeupsAreNotLost`, `TasksStartInOrder`, `FuturesAreOwned`,
`DestructorDrains`; and `PoolImplementsExecutor`, the refinement of
`TaskExecutor!SafeSpec` with the queue as the pending tasks, `cur` as the slots and
the destructor's progress as the phase.

`NoLostWakeup` is the heart of it. It counts: if a worker sleeps, there are no
more queued tasks than `Tokens`, the threads that are about to notify plus the
workers that are awake and will look. A push adds one of each, a notification
hands the token to a worker, and a worker that takes a task gives up one of
each. It is not inductive alone: it needs `ControlInv` (who can be where) and
finiteness of the sets. Each of the parts is preserved by every action in a lemma
of its own, with one step per action.

`AsyncLoggerProofs` assumes `LoggerAssumption`: main is one of finitely many
goroutines, `recordChan` has a capacity of at least one, the levels are numbers.
It proves, for any number of goroutines, calls and configurations and any
capacity: `LoggerInvariant`, that `IInv` holds in every reachable state;
`NothingLostInTheChannel` and `CloseDrains` from it; and `LoggerImplementsSink`,
the refinement of `LogSink`. `IInv` is about ownership: an object leaves
`recordPool` only when nobody holds it (`OneOwner`) and was filled before it is
queued (`Filled`), so filling one Record cannot touch one that is queued or being
written, and the queued objects still hold what was accepted
(`QueueHoldsAccepted`). `Drained` adds that the token `Close` waits for exists only
after the channel is empty and the writer goroutine is gone; together they give
`ClosedMeansWritten`. The type invariant is not inductive without them: a writer
is given `rec[wrec]`, which is a record only because the object was filled. In
the refinement a record is written when its range loop has no writer left, so the
step is `RangeWriters` when no writer is registered and the last `WriteOne` otherwise.

`WritersGetTheirRecords` and `FilesPartition` say what each writer was given.
`WriterLogs` states it as an increasing choice of places in the channel's order
(`PicksInOrder`): one for each record of the writer's levels whose range loop
started after the writer was registered. That this choice exists is preserved
because a range loop meets a writer at most once, and only one registered before
it started: `Registering` in `IInv`. The two files split the log because the levels
they accept do, in every configuration that registers both.

`FileRotationProofs` assumes `RotationAssumption`: `Retain` is an integer, the
bounds are naturals; any set of faults, writes to an open file included.
`RotationInvariant` is the inductive invariant; `LogFilesInOrder`, `DeletesOnlyOverdue`, `NothingLost` and `KeepsRetention`
follow from it. The heart is `Ordered`: while the clock was not set back the suffix
of the current file is never later than the hour, all names in use and all of
`history` are before the suffix, and `history` ascends. That is what makes the name
that Rotate gives later than all others, so that no file is overwritten and files
read by name give the records in order; a restart keeps it although it forgets
`history`. `Placed` (a record stands in no file of a later hour, every renamed file is in
`history`) needs that there was no restart, and `Complete` (the records still
there have no gap, go up to the last one unless a flush failed, and start with the first
while `history` is shorter than `Retain`) that nobody else deletes files and nothing was
restarted; `NothingLost` is that part. A flush that fails costs later records only,
because `sticky` outlasts it: a writer that dropped one record and took the next would
leave a gap. The record clause of `OnlyOverdueDeleted`
holds for `Retain` > 0 only, as it says: with 0 or less Rotate removes the file it has
just renamed.

`LogParserMgrProofs` assumes `MgrAssumption`: the files have different paths, what
they hold at first and what is appended are lines of values, there are finitely
many threads and at least one. It proves `MgrInvariant` and
`KeepsParsersWithPaths`, for any contents, any number of calls of `Parse` and any
lines appended meanwhile. `ParsersMatchPaths` speaks of the time between calls; the
invariant has to say what holds within one, when `log_parser_list` still has the
parsers of the earlier call in front (`EarlierKept`), futures, parsers and paths
are in step behind them (`InOwnPlaces`), and no task resolves two futures
(`RunOnce`). The code compresses three lists by the same results; that the earlier
parsers are at the places of the files, and were all parsed, is why a second
`Parse` keeps the pairs right.

`LogParserProofs` is about one parser and any rows. It assumes `IntAssumption`, that
an int has some positive limit. The loops of the model are recursive functions of
the place; `Recursion` proves, by well-founded induction on the place, that such a
function exists, and each loop then gets a lemma of its own: `KeptAt` (what `Those`
keeps, and in which order), `Flattened` and `FlatLength` (the rows of several files one
after the other), `Accumulated` (converting every partial sum to int gives the sum
modulo the width, hence the sum whenever it fits), `SumOfParts`. For the order,
`Ascending` goes from neighbours to all rows, `Halves` counts the rows on either side
of the median, and `Everywhere` finds each row in the order, since an injection of
finitely many rows into themselves leaves none out. `DescribesColumn` and `ReturnsRows`
put these together for any parser that is `WellFormed`.

`LogParserMgrProofs` then has to show that whoever is asked is `WellFormed`: that is
`Orderly`, which needs that a task that runs has a file, and that a line appended
to a file leaves it a file; and of the merged parser also after its own `Parse` failed,
when it has no rows. `CalculatesMetrics` and `SortsRows` follow.
`MergesFaithfully` needs `MergedFrom` as well: the merged parser is still the one made
of the parsers in the list, because these have finished and no task touches them
again. With equal names and types no row is dropped (`AllPass`), so the count, the
maximum and the sum of all rows come from those of the files; and a row that is
too short for the first file's types must come from a file with fewer columns.
`AnswersInvariant` is `IInv` with both.

`TcpChatProofs` assumes `ChatAssumption`: finitely many clients, positive sizes, and a
client buffer that holds a character and its terminator. It proves `ChatInvariant`,
`NobodyForgotten` and `FailsForACause`, for any set of system calls that may fail. A client that is connected is in the accept
queue or in the room (`Placed`), the event of the listening socket is handled only
while somebody waits (`Waiting`), and the server has read no more than was sent.

Its second half goes on from there. `RelaysFaithfully`: what a client got of the
others is in the order each of them sent it, and is exactly what the server read
of them since that client was accepted, whatever the sizes of reads, messages
and buffers, as long as no write to it was cut short and no read overran a buffer while
its client was sending. Its invariant is `StreamInv`:
unread bytes are the tail of what was sent (`Rest`), the text of a client is its
own and numbered in order (`Numbered`), nobody was accepted later than what is
still unread (`Joining`), and nothing is written to a client before it is accepted
(`Fresh`). `LinesStayMessages`: while no message was cut and no read filled a
client's buffer, every line a client prints is
one message. Streams of whole messages are closed under joining and under
cutting behind a delimiter; the proof follows them from `Send` through `up`, one
read, `down` and the client's read to the screen (`Uncut`).

`AppLifecycleProofs` assumes `LifecycleAssumption`: recordChan has a capacity of at
least one, the number of Echo calls is a number. It proves `LifecycleInvariant` and,
from it, `GracefulWaitIsQuiet`. `QuietAfterGracefulWait` says
nothing while main waits, so it is not inductive: `Counted` gives the WaitGroup its
meaning (one for each of run and the metrics server that was started and has not
called Done), so that `WaitDone`, which only looks at the counter, finds both ended;
`Started` is the order in which goroutines are started, without which the count
could be zero too early; `HttpDown` and `GrpcDown` say on which way each server got to its
end; `Waited` keeps what wait saw until the process exits. Most steps move one
goroutine and change nothing else of this: `LocalMoves` lists them, and `LocalCtl`
proves once that they preserve all of it.

`PeerConnectionsProofs` needs no assumption: it proves `PeerInvariant` and, from it,
`NoneForgottenOpen` for any set of requests. `ForgottenIsClosed` is not inductive: it
needs to know who will close a connection. `Closer` says that a close under way
has a coroutine, of a handler or of `on_shutdown`, waiting for it; `Listed` that while
`on_shutdown` gathers every connection in `pcs` is in its list, except those of `late`;
`Forgotten` is what follows for a connection that left `pcs`. `GatherDone` clears the
set only when each listed coroutine is done, so `Listed` and `Closer` give
`Forgotten` back.

Not proved: liveness and the fair refinement, which are out of the prover's
reach and stay with TLC. Every safety property of a passing run is a theorem.

## 6. Plan

Done in this order, the core first: ThreadPool and AsyncLogger with their proofs,
FileRotation, AppLifecycle, TcpChat, LogParser and LogParserMgr, then the commands
in AppLifecycle, and PeerConnections.

What could still be modelled is small: a composition of `AsyncLogger` with
`FileRotation`, in which flush and rotate ticks interleave with records on one
writer; the numbered messages of the Netlink benchmark.
Neither has been proved about; of what is modelled, only liveness is left to TLC.
