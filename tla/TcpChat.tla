------------------------------ MODULE TcpChat ------------------------------
(***************************************************************************)
(* The chat room of CppProjects/TcpChat: the epoll loop of TcpServer and   *)
(* the clients it relays between, each with its receiving thread.          *)
(*                                                                         *)
(* The server is one thread: each of its handlers is one action.  What the *)
(* kernel does with a connection (loopback TCP) is modelled from how the   *)
(* code uses it: a byte stream each way, bounded towards the client; an    *)
(* edge-triggered readiness event per arrival; FIN, and RST for a client   *)
(* that leaves with unread data or is written to after it left.            *)
(***************************************************************************)
EXTENDS Naturals, Sequences, FiniteSets, SequencesExt

CONSTANTS Clients,
          ReadSize,    \* kReadBufferSize of the server, 1024 in the code
          BufferSize,  \* kBufferSize of the client, 1024 in the code
          MaxEvents,   \* kMaxEpollEvents, 10 in the code
          SockBuf,     \* what the kernel holds on the way to one client
          Faults,      \* bound: the server's system calls that may fail
          BodyLens,    \* bound: the lengths of the messages
          MaxSends     \* bound: messages sent

Listen == "listen_sockfd_"
\* Those of the accept handler.
AcceptFaults == {"accept", "fcntl", "epoll_ctl"}

ASSUME ChatAssumption == /\ IsFiniteSet(Clients) /\ Listen \notin Clients
                         /\ {ReadSize, MaxEvents, SockBuf} \subseteq Nat \ {0}
                         /\ BufferSize \in Nat \ {0, 1}
                         /\ BodyLens \subseteq Nat \ {0}
                         /\ MaxSends \in Nat

VARIABLES link,      \* a client: "off", "on", or how it left
          backlog,   \* connections waiting for accept
          sock_fd_to_client_addr, \* the accepted ones
          edge,      \* clients with an event epoll has not reported yet
          batch,     \* events of epoll_events_ not handled yet
          in_wait,   \* the server's thread is in epoll_wait
          up,        \* sent by a client and not read by the server
          down,      \* on the way to a client
          printed,   \* what each client has printed; a delimiter ends a line
          is_stop,
          proc,      \* the server: "running", "exited", "failed"
          sends,     \* messages sent so far
          sent,      \* history: all that each client sent
          since,     \* history: what had been read of the others at accept
          torn,      \* history: clients to whom a write was cut short, or that
                     \* sent while a read of theirs overran the buffer
          whole      \* history: no message was cut in two, no read filled a buffer

wire    == <<link, backlog, edge, up, down>>
history == <<sends, sent, since, torn, whole>>
vars    == <<wire, sock_fd_to_client_addr, batch, in_wait, printed, is_stop, proc, history>>

Room == sock_fd_to_client_addr

\* A byte of the n-th message; part 0 is the delimiter.
Cells == [from : Clients, msg : 1..MaxSends, part : Nat]
NewLine(cell) == cell.part = 0
\* The end of a line that a client prints without having read a delimiter.
EndOfLine == [part |-> 0]

\* What the server has read of what c sent.
TakenOf(c) == Len(sent[c]) - Len(up[c])

TypeOK == /\ link \in [Clients -> {"off", "on", "fin", "finRst", "rst"}]
          /\ backlog \in Seq(Clients) /\ IsInjective(backlog)
          /\ Room \subseteq Clients \ Range(backlog)
          /\ edge \subseteq Room
          /\ batch \subseteq Room \cup {Listen} /\ Cardinality(batch) <= MaxEvents
          /\ in_wait \in BOOLEAN
          /\ up \in [Clients -> Seq(Cells)]
          /\ down \in [Clients -> Seq(Cells)]
          /\ \A c \in Clients : Len(down[c]) <= SockBuf
          /\ printed \in [Clients -> Seq(Cells \cup {EndOfLine})]
          /\ is_stop \in BOOLEAN
          /\ proc \in {"running", "exited", "failed"}
          /\ sends \in 0..MaxSends
          /\ sent \in [Clients -> Seq(Cells)]
          /\ since \in [Clients -> [Clients -> Nat]]
          /\ torn \subseteq Clients
          /\ whole \in BOOLEAN

Init == /\ link = [c \in Clients |-> "off"]
        /\ backlog = <<>> /\ Room = {} /\ edge = {} /\ batch = {}
        /\ in_wait = FALSE
        /\ up = [c \in Clients |-> <<>>] /\ down = [c \in Clients |-> <<>>]
        /\ printed = [c \in Clients |-> <<>>]
        /\ is_stop = FALSE /\ proc = "running"
        /\ sends = 0
        /\ sent = [c \in Clients |-> <<>>]
        /\ since = [c \in Clients |-> [d \in Clients |-> 0]]
        /\ torn = {} /\ whole = TRUE
-----------------------------------------------------------------------------
(* Clients *)

ServerIdle == UNCHANGED <<sock_fd_to_client_addr, batch, in_wait, is_stop, proc, since, torn>>

\* The kernel completes the handshake; accept comes later.
Connect(c) == /\ proc = "running" /\ link[c] = "off"
              /\ link' = [link EXCEPT ![c] = "on"]
              /\ backlog' = Append(backlog, c)
              /\ ServerIdle
              /\ UNCHANGED <<edge, up, down, printed, sends, sent, whole>>

\* snprintf keeps kBufferSize - 1 characters: a longer message loses its tail
\* and its delimiter.
Message(c, n, len) ==
    LET full == [i \in 1..(len + 1) |->
                    [from |-> c, msg |-> n, part |-> IF i <= len THEN i ELSE 0]]
    IN  IF len + 1 < BufferSize THEN full ELSE SubSeq(full, 1, BufferSize - 1)

Send(c, len) ==
    /\ proc = "running" /\ link[c] = "on" /\ sends < MaxSends
    /\ sends' = sends + 1
    /\ LET msg == Message(c, sends', len)
       IN  /\ up' = [up EXCEPT ![c] = @ \o msg]
           /\ sent' = [sent EXCEPT ![c] = @ \o msg]
           /\ whole' = (whole /\ NewLine(Last(msg)))
    /\ edge' = IF c \in Room THEN edge \cup {c} ELSE edge
    /\ ServerIdle
    /\ UNCHANGED <<link, backlog, down, printed>>

LinesUnsplit(s) == Append(SelectSeq(s, LAMBDA cell : ~NewLine(cell)), EndOfLine)

\* getline up to each delimiter and to the end of what was read, each part a line.
\* An empty part is not printed: several delimiters in a row end one line.
Split(s) == Append(s, EndOfLine)

\* c reads n bytes and prints them, and with them what stands behind them.
Printing(c, n, behind) ==
    /\ printed' = [printed EXCEPT ![c] = @ \o Split(SubSeq(down[c], 1, n) \o behind)]
    /\ down' = [down EXCEPT ![c] = SubSeq(@, n + 1, Len(@))]

\* One pass of the receiving thread; what is left of a line is not carried over.
Receive(c) ==
    /\ link[c] = "on" /\ down[c] # <<>>
    /\ LET n == IF Len(down[c]) < BufferSize THEN Len(down[c]) ELSE BufferSize
       IN  /\ Printing(c, n, <<>>)
           /\ whole' = (whole /\ n < BufferSize /\ NewLine(down[c][n]))
    /\ ServerIdle
    /\ UNCHANGED <<link, backlog, edge, up, sends, sent>>

\* After a read that fills the buffer, buffer[nbytes] = 0 is a write behind the
\* array.  If nothing is there the pass is as above, and if it kills the client
\* that leaves; but it may be Send's buffer.  Then a Send meanwhile overwrites the
\* zero and its message is printed too; or it finds its text empty and sends nothing.
ReceiveOverruns(c, len) ==
    /\ proc = "running" /\ link[c] = "on" /\ sends < MaxSends
    /\ Len(down[c]) >= BufferSize
    /\ sends' = sends + 1
    /\ LET msg == Message(c, sends', len)
       IN  \/ /\ Printing(c, BufferSize, msg)
              /\ up' = [up EXCEPT ![c] = @ \o msg]
              /\ sent' = [sent EXCEPT ![c] = @ \o msg]
              /\ edge' = IF c \in Room THEN edge \cup {c} ELSE edge
           \/ Printing(c, BufferSize, <<>>) /\ UNCHANGED <<up, sent, edge>>
    /\ torn' = torn \cup {c} /\ whole' = FALSE
    /\ UNCHANGED <<link, backlog, sock_fd_to_client_addr, batch, in_wait, is_stop, proc, since>>

\* Disconnect and return of main, or death: unread data makes it a reset.
Leave(c) ==
    /\ link[c] = "on"
    /\ link' = [link EXCEPT ![c] = IF down[c] = <<>> THEN "fin" ELSE "rst"]
    /\ down' = [down EXCEPT ![c] = <<>>]
    /\ edge' = IF c \in Room THEN edge \cup {c} ELSE edge
    /\ ServerIdle
    /\ UNCHANGED <<backlog, up, printed, sends, sent, whole>>
-----------------------------------------------------------------------------
(* The epoll loop *)

\* EPOLLIN for the listening socket is level-triggered.
Ready == edge \cup IF backlog # <<>> THEN {Listen} ELSE {}

ServerUnmoved == UNCHANGED <<link, backlog, up, down, sock_fd_to_client_addr, printed, is_stop,
                             history>>

\* The condition of the while loop.  Stop joins the thread, and main returns.
LoopTest ==
    /\ proc = "running" /\ ~in_wait /\ batch = {}
    /\ \/ ~is_stop /\ in_wait' = TRUE /\ UNCHANGED proc
       \/ is_stop /\ proc' = "exited" /\ UNCHANGED in_wait
    /\ UNCHANGED <<edge, batch>> /\ ServerUnmoved

\* epoll_wait returns events, which are handled even if is_stop_ was set meanwhile.
EpollWait ==
    /\ proc = "running" /\ in_wait /\ Ready # {}
    /\ in_wait' = FALSE
    /\ \E events \in SUBSET Ready :
          /\ Cardinality(events) = IF Cardinality(Ready) < MaxEvents THEN Cardinality(Ready) ELSE MaxEvents
          /\ batch' = events
          /\ edge' = edge \ events
    /\ UNCHANGED proc /\ ServerUnmoved

WaitForEver == FALSE /\ UNCHANGED vars

\* Or returns nothing after a second.
EpollTimeout ==
    /\ proc = "running" /\ in_wait /\ Ready = {}
    /\ in_wait' = FALSE
    /\ UNCHANGED <<edge, batch, proc>> /\ ServerUnmoved

\* Or fails, for instance when a signal interrupts it.
EpollWaitFails ==
    /\ proc = "running" /\ in_wait
    /\ "epoll_wait" \in Faults
    /\ proc' = "failed" /\ in_wait' = FALSE
    /\ UNCHANGED <<edge, batch>> /\ ServerUnmoved

Handling(source) == /\ proc = "running" /\ source \in batch
                    /\ batch' = batch \ {source}
                    /\ UNCHANGED in_wait

\* EPOLL_CTL_ADD reports what has already arrived.
Accept == /\ Handling(Listen)
          /\ LET c == Head(backlog)
             IN  /\ sock_fd_to_client_addr' = Room \cup {c}
                 /\ since' = [since EXCEPT ![c] = [d \in Clients |-> TakenOf(d)]]
                 /\ edge' = IF up[c] # <<>> \/ link[c] # "on" THEN edge \cup {c} ELSE edge
          /\ backlog' = Tail(backlog)
          /\ UNCHANGED <<link, up, down, printed, is_stop, proc, sends, sent, torn, whole>>

\* accept fails, or else one of the calls after the client is entered.
AcceptFails ==
    /\ Handling(Listen)
    /\ \/ "accept" \in Faults /\ UNCHANGED <<sock_fd_to_client_addr, backlog>>
       \/ /\ Faults \cap {"fcntl", "epoll_ctl"} # {}
          /\ sock_fd_to_client_addr' = Room \cup {Head(backlog)}
          /\ backlog' = Tail(backlog)
    /\ proc' = "failed"
    /\ UNCHANGED <<link, edge, up, down, printed, is_stop, history>>

\* Whether write to d succeeds: a full buffer is EAGAIN, a reset connection
\* EPIPE; a client that left in order takes one write, and answers with RST.
Writable(d) == \/ link[d] = "fin"
               \/ link[d] = "on" /\ Len(down[d]) < SockBuf

Fitting(d, chunk) == SubSeq(chunk, 1, IF Len(chunk) < SockBuf - Len(down[d]) THEN Len(chunk)
                                      ELSE SockBuf - Len(down[d]))

\* The writes of chunk to the clients in S; the count write returns is ignored.
WriteTo(S, chunk) ==
    LET live == {d \in S : link[d] = "on"}
        gone == S \ live
        short == {d \in live : Fitting(d, chunk) # chunk}
    IN  /\ down' = [d \in Clients |-> IF d \in live THEN down[d] \o Fitting(d, chunk) ELSE down[d]]
        /\ link' = [d \in Clients |-> IF d \in gone THEN "finRst" ELSE link[d]]
        /\ edge' = edge \cup gone
        /\ torn' = torn \cup short
        /\ whole' = (whole /\ short = {} /\ NewLine(Last(chunk)))

\* A write that fails ends the server after some of the others were served.
RelayTo(others, chunk) ==
    IF \A d \in others : Writable(d)
    THEN WriteTo(others, chunk) /\ UNCHANGED proc
    ELSE /\ \E S \in SUBSET {d \in others : Writable(d)} : WriteTo(S, chunk)
         /\ proc' = "failed"

\* read: at most n bytes, once per event.
ReadUpTo(c, n, others) ==
    /\ Handling(c)
    /\ up[c] # <<>>
    /\ LET size == IF Len(up[c]) < n THEN Len(up[c]) ELSE n
       IN  /\ RelayTo(others, SubSeq(up[c], 1, size))
           /\ up' = [up EXCEPT ![c] = SubSeq(@, size + 1, Len(@))]
    /\ UNCHANGED <<backlog, sock_fd_to_client_addr, printed, is_stop, sends, sent, since>>

RelayToAll(c)     == ReadUpTo(c, ReadSize, Room)
RelayOneByteLess(c) == ReadUpTo(c, ReadSize - 1, Room \ {c})

Relay(c) == ReadUpTo(c, ReadSize, Room \ {c})

NothingRead(c, left, state) ==
    /\ Handling(c)
    /\ up[c] = <<>>
    /\ sock_fd_to_client_addr' = Room \ left
    /\ edge' = edge \ left
    /\ proc' = state
    /\ UNCHANGED <<link, backlog, up, down, printed, is_stop, history>>

\* read = -1, EAGAIN; = 0: the descriptor is forgotten and closed, which also
\* drops its events; = -1, ECONNRESET.
ReadAgainForgets(c) == link[c] = "on" /\ NothingRead(c, {c}, proc)
ReadAgainFails(c)   == link[c] = "on" /\ NothingRead(c, {}, "failed")
ReadEofKeeps(c)     == link[c] \in {"fin", "finRst"} /\ NothingRead(c, {}, proc)

ReadAgain(c) == link[c] = "on" /\ NothingRead(c, {}, proc)
ReadEof(c)   == link[c] \in {"fin", "finRst"} /\ NothingRead(c, {c}, proc)
ReadFails(c) == link[c] = "rst" /\ NothingRead(c, {}, "failed")

Handle(c) == Relay(c) \/ ReadAgain(c) \/ ReadEof(c) \/ ReadFails(c)

Stop == /\ proc = "running" /\ ~is_stop
        /\ is_stop' = TRUE
        /\ UNCHANGED <<wire, sock_fd_to_client_addr, batch, in_wait, printed, proc, history>>

Terminated == proc # "running" /\ UNCHANGED vars
-----------------------------------------------------------------------------
Next == \/ \E c \in Clients : \/ Connect(c) \/ Receive(c) \/ Leave(c)
                              \/ \E len \in BodyLens : Send(c, len) \/ ReceiveOverruns(c, len)
                              \/ Handle(c)
        \/ LoopTest \/ EpollWait \/ EpollTimeout \/ EpollWaitFails
        \/ Accept \/ AcceptFails
        \/ Stop
        \/ Terminated

Spec == Init /\ [][Next]_vars

\* The server's thread runs, and epoll_wait takes events in the order in which
\* they came.  Clients and the main thread need not do anything.
FairSpec == /\ Spec
            /\ WF_vars(LoopTest) /\ WF_vars(EpollWait) /\ WF_vars(EpollTimeout)
            /\ WF_vars(Accept \/ AcceptFails)
            /\ \A c \in Clients : WF_vars(Handle(c)) /\ SF_vars(EpollWait /\ c \in batch')
-----------------------------------------------------------------------------
(* Properties *)

\* The text of s at the places i to j.
TextIn(s, i, j) == {s[k] : k \in {m \in i..j : ~NewLine(s[m])}}
TextOf(s) == TextIn(s, 1, Len(s))

\* The bytes of a client are numbered in the order in which it sends them.
Before(a, b) == a.msg < b.msg \/ (a.msg = b.msg /\ a.part < b.part)
InOrder(s) == \A j, k \in DOMAIN s :
    (/\ j < k /\ ~NewLine(s[j]) /\ ~NewLine(s[k])
     /\ s[j].from = s[k].from) => Before(s[j], s[k])

\* All that has been written to d since it was accepted.
Got(d) == printed[d] \o down[d]

\* Every client in the room gets, from each of the others, exactly what the
\* server has read of it since the client was accepted, in order and once, and
\* nothing of its own, unless a write to it was cut short.
RelayFaithful ==
    \A d \in Room \ torn : (link[d] = "on" /\ proc # "failed") =>
        /\ InOrder(Got(d))
        /\ TextOf(Got(d)) = UNION {TextIn(sent[c], since[d][c] + 1, TakenOf(c)) :
                                      c \in Clients \ {d}}

IsLine(s, i, j) == /\ i <= j /\ \A k \in i..j : ~NewLine(s[k])
                   /\ i = 1 \/ NewLine(s[i - 1])
                   /\ j = Len(s) \/ NewLine(s[j + 1])

\* The places i to j of s hold the text of one of the messages in all, from its
\* first byte on.
IsMessage(all, s, i, j) ==
    /\ \A k \in i..j : s[k].part = k - i + 1
    /\ {s[k] : k \in i..j} = {cell \in TextOf(all[s[i].from]) : cell.msg = s[i].msg}

\* As long as nothing was cut and no read filled the buffer, each line a client
\* prints is one message, although a read may return several at once.
LinesAreMessages ==
    whole => \A d \in Clients : \A i, j \in DOMAIN printed[d] :
                IsLine(printed[d], i, j) => IsMessage(sent, printed[d], i, j)

\* Whoever is connected waits for accept or is in the room: an event without
\* data (EAGAIN, after a read that was ahead of it) is not a departure.
NobodyIsForgotten ==
    /\ TypeOK
    /\ proc = "running" => \A c \in Clients :
          link[c] = "on" => c \in Room \cup Range(backlog)

\* It was reset, was written to after it left, or does not read.
Unreachable(d) == link[d] \in {"rst", "finRst"} \/ Len(down[d]) = SockBuf

\* The server only ends by itself in epoll_wait or for a new connection, where a
\* call fails; for an event of a client that left with unread data; or when it
\* has something to relay and another client cannot be written to.
ServerFailsForACause ==
    [][proc' = "failed" /\ proc # "failed" =>
          \/ in_wait /\ "epoll_wait" \in Faults
          \/ Listen \in batch \ batch' /\ Faults \cap AcceptFaults # {}
          \/ \E c \in Room \cap (batch \ batch') :
                \/ link[c] = "rst"
                \/ up[c] # <<>> /\ \E d \in Room \ {c} : Unreachable(d)]_vars

\* What a client sent is read and relayed without further input from it, as
\* long as it never outruns one read.
SentIsRelayed ==
    \A c \in Clients :
        [](Len(up[c]) <= ReadSize) =>
            (c \in Room /\ up[c] # <<>> ~> up[c] = <<>> \/ is_stop \/ proc # "running")

\* Stop returns, within a second, whoever goes on connecting and sending and
\* although nothing wakes epoll_wait when is_stop_ is set.
StopReturns == is_stop ~> proc # "running"

\* A client that leaves when all it sent has been read is forgotten and its
\* descriptor closed, although others are served and write to it meanwhile.
DepartedIsForgotten ==
    \A c \in Clients :
        c \in Room \cap (edge \cup batch) /\ up[c] = <<>> /\ link[c] = "fin"
            ~> c \notin Room \/ is_stop \/ proc # "running"
-----------------------------------------------------------------------------
(* What the README and the comments say *)

\* README: "processing of the other connections is not affected because some
\* connection is blocked": while nobody has left, the server goes on.
BlockedClientIsHarmless ==
    (\A c \in Clients : link[c] \in {"off", "on"}) => proc # "failed"

\* README: what comes over a connection is forwarded to the other clients.  The
\* count that write returns is ignored: of a chunk that does not fit the head is.
ForwardedToOthers ==
    \A d \in Room : (link[d] = "on" /\ proc # "failed") =>
        \A c \in Clients \ {d} : TextIn(sent[c], since[d][c] + 1, TakenOf(c)) \subseteq TextOf(Got(d))

\* tcp_server.cc:188, tcp_client.cc:107: messages that come together are taken
\* apart by the delimiter.  Not where a read ends within one.
StickyMessagesApart ==
    (torn = {} /\ \A len \in BodyLens : len + 1 < BufferSize) =>
        \A d \in Clients : \A i, j \in DOMAIN printed[d] :
            IsLine(printed[d], i, j) => IsMessage(sent, printed[d], i, j)

\* README: if a client closes the connection the server closes the socket and
\* takes it out of the epoll instance.  Not where data was read before the EOF.
ClosedIsForgotten ==
    \A c \in Clients :
        c \in Room /\ link[c] = "fin" ~> c \notin Room \/ is_stop \/ proc # "running"
=============================================================================
