--------------------------- MODULE TcpChatProofs ---------------------------
(***************************************************************************)
(* Proofs about TcpChat for any finite set of clients and any size of the  *)
(* reads, the socket buffers, the messages and epoll_events_: who is known *)
(* to the server and why it exits; and then what each client gets of the   *)
(* others, in order and once, and prints message by message as long as no  *)
(* message was cut and no read filled a client's buffer.                   *)
(***************************************************************************)
EXTENDS TcpChat, SequenceTheorems, FiniteSetTheorems, TLAPS

\* A client that never connected is nowhere, and one that is connected is known.
Placed(c) ==
    /\ link[c] = "off" => c \notin Room \cup Range(backlog)
    /\ proc = "running" /\ link[c] = "on" => c \in Room \cup Range(backlog)

\* The server reads no more than was sent.
Behind(c) == Len(up[c]) <= Len(sent[c])

\* The event of the listening socket is handled while somebody waits.
Waiting == Listen \in batch => backlog # <<>>

IInv == TypeOK /\ Waiting /\ \A c \in Clients : Placed(c) /\ Behind(c)
USE DEF Room
-----------------------------------------------------------------------------
(* Sequences *)

\* The first bytes and the rest of a stream.
LEMMA Pieces ==
  ASSUME NEW S, NEW s \in Seq(S), NEW n \in Nat
  PROVE  /\ Len(s) \in Nat
         /\ n <= Len(s) =>
              /\ SubSeq(s, 1, n) \in Seq(S) /\ Len(SubSeq(s, 1, n)) = n
              /\ SubSeq(s, n + 1, Len(s)) \in Seq(S)
              /\ Len(SubSeq(s, n + 1, Len(s))) = Len(s) - n
<1>1. Len(s) \in Nat
  BY LenProperties
<1>2. ASSUME n <= Len(s)
      PROVE  SubSeq(s, 1, n) \in Seq(S) /\ Len(SubSeq(s, 1, n)) = n
  <2>1. \A i \in 1..n : s[i] \in S
    BY <1>1, <1>2, ElementOfSeq
  <2> QED
    BY <2>1, SubSeqProperties
<1>3. ASSUME n <= Len(s)
      PROVE  /\ SubSeq(s, n + 1, Len(s)) \in Seq(S)
             /\ Len(SubSeq(s, n + 1, Len(s))) = Len(s) - n
  <2>1. \A i \in (n + 1)..Len(s) : s[i] \in S
    BY <1>1, <1>3, ElementOfSeq
  <2>2. /\ SubSeq(s, n + 1, Len(s)) \in Seq(S)
        /\ Len(SubSeq(s, n + 1, Len(s))) =
             IF n + 1 <= Len(s) THEN Len(s) - (n + 1) + 1 ELSE 0
    BY <1>1, <2>1, SubSeqProperties
  <2> QED
    BY <1>1, <1>3, <2>2
<1> QED
  BY <1>1, <1>2, <1>3

\* Streams are joined byte by byte.
LEMMA Joined ==
  ASSUME NEW S, NEW s \in Seq(S), NEW t \in Seq(S)
  PROVE  /\ s \o t \in Seq(S) /\ Len(s \o t) = Len(s) + Len(t)
         /\ Len(s) \in Nat /\ Len(t) \in Nat
BY ConcatProperties, LenProperties

\* What a client prints of one read.
Screen == Cells \cup {EndOfLine}

LEMMA Shown ==
  ASSUME NEW s \in Seq(Cells), NEW p \in Seq(Screen)
  PROVE  /\ s \in Seq(Screen) /\ Split(s) \in Seq(Screen) /\ Len(Split(s)) = Len(s) + 1
         /\ \A k \in 1..Len(s) : Split(s)[k] = s[k]
         /\ Split(s)[Len(s) + 1] = EndOfLine
         /\ p \o Split(s) \in Seq(Screen)
<1>1. s \in Seq(Screen) /\ EndOfLine \in Screen
  BY SeqMonotonic DEF Screen
<1>2. /\ Split(s) \in Seq(Screen) /\ Len(Split(s)) = Len(s) + 1
      /\ \A k \in 1..Len(s) : Split(s)[k] = s[k]
      /\ Split(s)[Len(s) + 1] = EndOfLine
  BY <1>1, AppendProperties DEF Split
<1> QED
  BY <1>1, <1>2, Joined

\* Who connects joins the end of the accept queue, once.
LEMMA JoinQueue ==
  ASSUME NEW S, NEW q \in Seq(S), NEW c \in S, IsInjective(q), c \notin Range(q)
  PROVE  /\ Append(q, c) \in Seq(S) /\ Append(q, c) # <<>>
         /\ IsInjective(Append(q, c))
         /\ Range(Append(q, c)) = Range(q) \cup {c}
<1> DEFINE r == Append(q, c)
<1>1. /\ r \in Seq(S) /\ r # <<>> /\ Len(q) \in Nat /\ Len(r) = Len(q) + 1
      /\ \A i \in 1..Len(q) : r[i] = q[i]
      /\ r[Len(q) + 1] = c
      /\ DOMAIN q = 1..Len(q) /\ DOMAIN r = 1..Len(r)
  BY AppendProperties, LenProperties
<1> HIDE DEF r
<1>2. /\ \A i \in DOMAIN r : i \in DOMAIN q \/ i = Len(q) + 1
      /\ DOMAIN q \subseteq DOMAIN r /\ Len(q) + 1 \in DOMAIN r
  BY <1>1
<1>3. IsInjective(r)
  BY <1>1, <1>2 DEF IsInjective, Range
<1>4. Range(r) = Range(q) \cup {c}
  BY <1>1, <1>2 DEF Range
<1> QED
  BY <1>1, <1>3, <1>4 DEF r

\* Who is accepted leaves the queue to the others.
LEMMA LeaveQueue ==
  ASSUME NEW S, NEW q \in Seq(S), q # <<>>, IsInjective(q)
  PROVE  /\ Head(q) \in S /\ Tail(q) \in Seq(S)
         /\ IsInjective(Tail(q))
         /\ Range(Tail(q)) = Range(q) \ {Head(q)}
         /\ Head(q) \in Range(q)
<1> DEFINE r == Tail(q)
<1>1. /\ Head(q) \in S /\ r \in Seq(S)
      /\ Len(q) \in Nat \ {0} /\ Len(r) = Len(q) - 1
      /\ \A i \in 1..Len(r) : r[i] = q[i + 1]
      /\ DOMAIN q = 1..Len(q) /\ DOMAIN r = 1..Len(r)
      /\ Head(q) = q[1]
  BY HeadTailProperties, LenProperties, EmptySeq
<1> HIDE DEF r
<1>2. /\ 1 \in DOMAIN q
      /\ \A i \in DOMAIN r : i + 1 \in DOMAIN q /\ i + 1 # 1 /\ r[i] = q[i + 1]
      /\ \A i \in DOMAIN q : i = 1 \/ (i - 1 \in DOMAIN r /\ r[i - 1] = q[i])
  BY <1>1
<1>3. IsInjective(r)
  <2>1. SUFFICES ASSUME NEW i \in DOMAIN r, NEW k \in DOMAIN r, r[i] = r[k] PROVE i = k
    BY DEF IsInjective
  <2>2. i + 1 = k + 1
    BY <1>2, <2>1 DEF IsInjective
  <2> QED
    BY <1>1, <2>2
<1>4. Range(r) \subseteq Range(q) \ {Head(q)}
  <2>1. SUFFICES ASSUME NEW i \in DOMAIN r PROVE r[i] \in Range(q) /\ r[i] # Head(q)
    BY DEF Range
  <2>2. q[i + 1] \in Range(q) /\ q[i + 1] # q[1]
    BY <1>2 DEF Range, IsInjective
  <2> QED
    BY <1>1, <1>2, <2>2
<1>5. Range(q) \ {Head(q)} \subseteq Range(r)
  BY <1>1, <1>2 DEF Range
<1> QED
  BY <1>1, <1>2, <1>3, <1>4, <1>5 DEF r, Range

\* What a client sends is a sequence of its cells.
LEMMA MessageTyped ==
  ASSUME NEW c \in Clients, NEW n \in 1..MaxSends, NEW len \in BodyLens
  PROVE  Message(c, n, len) \in Seq(Cells)
<1> DEFINE cell(i) == [from |-> c, msg |-> n, part |-> IF i <= len THEN i ELSE 0]
           full == [i \in 1..(len + 1) |-> cell(i)]
<1>1. len \in Nat /\ BufferSize - 1 \in Nat
  BY ChatAssumption
<1>2. \A i \in 1..(len + 1) : cell(i) \in Cells
  BY <1>1 DEF Cells
<1>3. full \in Seq(Cells) /\ Len(full) = len + 1
  <2>1. full \in [1..(len + 1) -> Cells] /\ len + 1 \in Nat
    BY <1>1, <1>2
  <2> HIDE DEF full
  <2> QED
    BY <2>1
<1> HIDE DEF full
<1>4. CASE len + 1 < BufferSize
  BY <1>3, <1>4 DEF Message, full
<1>5. CASE ~(len + 1 < BufferSize)
  <2>1. BufferSize - 1 <= Len(full)
    BY <1>1, <1>3, <1>5, ChatAssumption
  <2>2. SubSeq(full, 1, BufferSize - 1) \in Seq(Cells)
    BY <1>1, <1>3, <2>1, Pieces
  <2> QED
    BY <1>5, <2>2 DEF Message, full
<1> QED
  BY <1>4, <1>5

\* What a write puts on the way to a client fits, and is a piece of the chunk.
LEMMA FittingTyped ==
  ASSUME TypeOK, NEW d \in Clients, NEW chunk \in Seq(Cells)
  PROVE  /\ down[d] \o Fitting(d, chunk) \in Seq(Cells)
         /\ Len(down[d] \o Fitting(d, chunk)) <= SockBuf
<1> DEFINE k == IF Len(chunk) < SockBuf - Len(down[d]) THEN Len(chunk)
                ELSE SockBuf - Len(down[d])
<1>1. /\ down[d] \in Seq(Cells) /\ Len(down[d]) \in Nat /\ Len(down[d]) <= SockBuf
      /\ Len(chunk) \in Nat /\ SockBuf \in Nat
  BY ChatAssumption, LenProperties DEF TypeOK
<1>2. k \in Nat /\ k <= Len(chunk) /\ Len(down[d]) + k <= SockBuf
  <2> DEFINE room == SockBuf - Len(down[d])
             m == Len(chunk)
  <2>1. room \in Nat /\ m \in Nat /\ Len(down[d]) + room = SockBuf
    BY <1>1
  <2>2. k = IF m < room THEN m ELSE room
    OBVIOUS
  <2> HIDE DEF k, room, m
  <2>3. k \in Nat /\ k <= m /\ k <= room
    BY <2>1, <2>2
  <2> QED
    BY <1>1, <2>1, <2>3 DEF m
<1> HIDE DEF k
<1>3. SubSeq(chunk, 1, k) \in Seq(Cells) /\ Len(SubSeq(chunk, 1, k)) = k
  BY <1>2, Pieces
<1>4. Fitting(d, chunk) = SubSeq(chunk, 1, k)
  BY DEF Fitting, k
<1> QED
  BY <1>1, <1>2, <1>3, <1>4, Joined
-----------------------------------------------------------------------------
(* What the steps of the server do *)

\* A write to S reaches those that are there and provokes a reset from those
\* that left, and fails for a client that is not ready for it.
LEMMA WriteTyped ==
  ASSUME TypeOK, NEW S \in SUBSET Room, NEW chunk \in Seq(Cells), WriteTo(S, chunk)
  PROVE  /\ down' \in [Clients -> Seq(Cells)]
         /\ \A c \in Clients : Len(down'[c]) <= SockBuf
         /\ edge' \subseteq Room
         /\ torn' \subseteq Clients /\ whole' \in BOOLEAN
         /\ link' \in [Clients -> {"off", "on", "fin", "finRst", "rst"}]
         /\ \A c \in Clients : \/ link'[c] = link[c]
                               \/ (c \in S /\ link[c] # "on" /\ link'[c] = "finRst")
<1> DEFINE live == {d \in S : link[d] = "on"}
           gone == S \ live
           short == {d \in live : Fitting(d, chunk) # chunk}
<1>0. S \subseteq Clients
  BY DEF TypeOK
<1>1. /\ down' = [d \in Clients |-> IF d \in live THEN down[d] \o Fitting(d, chunk)
                                   ELSE down[d]]
      /\ link' = [d \in Clients |-> IF d \in gone THEN "finRst" ELSE link[d]]
      /\ edge' = edge \cup gone
      /\ torn' = torn \cup short
      /\ whole' = (whole /\ short = {} /\ NewLine(Last(chunk)))
  BY DEF WriteTo
<1>2. live \subseteq S /\ gone \subseteq S /\ short \subseteq S
  OBVIOUS
<1>3. gone = {d \in S : link[d] # "on"}
  OBVIOUS
<1> HIDE DEF live, gone, short
<1>4. /\ down' \in [Clients -> Seq(Cells)]
      /\ \A c \in Clients : Len(down'[c]) <= SockBuf
  BY <1>1, FittingTyped DEF TypeOK
<1>5. edge' \subseteq Room /\ torn' \subseteq Clients /\ whole' \in BOOLEAN
  BY <1>0, <1>1, <1>2 DEF TypeOK
<1>6. link' \in [Clients -> {"off", "on", "fin", "finRst", "rst"}]
  BY <1>1 DEF TypeOK
<1>7. \A c \in Clients : \/ link'[c] = link[c]
                        \/ (c \in S /\ link[c] # "on" /\ link'[c] = "finRst")
  BY <1>1, <1>3
<1> QED
  BY <1>4, <1>5, <1>6, <1>7

\* read takes the first bytes of what a client sent, and writes them to the
\* others; a failed write has a client that is not Writable.
LEMMA Relaying ==
  ASSUME TypeOK, NEW c \in Clients, Relay(c)
  PROVE  /\ Handling(c) /\ c \in Room
         /\ UNCHANGED <<backlog, Room, printed, is_stop, sends, sent, since>>
         /\ up' \in [Clients -> Seq(Cells)]
         /\ \A d \in Clients : Len(up'[d]) <= Len(up[d])
         /\ proc' = "failed" \/ proc' = proc
         /\ up[c] # <<>>
         /\ proc' # proc => \E d \in Room \ {c} : ~Writable(d)
         /\ \E S \in SUBSET Room, chunk \in Seq(Cells) : WriteTo(S, chunk)
<1> DEFINE size == IF Len(up[c]) < ReadSize THEN Len(up[c]) ELSE ReadSize
           chunk == SubSeq(up[c], 1, size)
<1>1. /\ Handling(c) /\ up[c] # <<>>
      /\ RelayTo(Room \ {c}, chunk)
      /\ up' = [up EXCEPT ![c] = SubSeq(@, size + 1, Len(@))]
      /\ UNCHANGED <<backlog, sock_fd_to_client_addr, printed, is_stop, sends, sent, since>>
  BY DEF Relay, ReadUpTo
<1>2. c \in Room
  BY <1>1, ChatAssumption DEF Handling, TypeOK
<1>3. /\ up[c] \in Seq(Cells) /\ Len(up[c]) \in Nat /\ size \in Nat /\ size <= Len(up[c])
      /\ up \in [Clients -> Seq(Cells)]
      /\ \A d \in Clients : Len(up[d]) \in Nat
  BY ChatAssumption, LenProperties DEF TypeOK
<1> HIDE DEF size
<1>4. /\ chunk \in Seq(Cells)
      /\ SubSeq(up[c], size + 1, Len(up[c])) \in Seq(Cells)
      /\ Len(SubSeq(up[c], size + 1, Len(up[c]))) = Len(up[c]) - size
  BY <1>3, Pieces
<1> HIDE DEF chunk
<1>5. up' \in [Clients -> Seq(Cells)] /\ \A d \in Clients : Len(up'[d]) <= Len(up[d])
  BY <1>1, <1>3, <1>4
<1>6. CASE \A d \in Room \ {c} : Writable(d)
  BY <1>1, <1>2, <1>4, <1>5, <1>6 DEF RelayTo, Room
<1>7. CASE ~ \A d \in Room \ {c} : Writable(d)
  BY <1>1, <1>2, <1>4, <1>5, <1>7 DEF RelayTo, Room
<1> QED
  BY <1>6, <1>7

\* At a read without data the server forgets the client or fails.
LEMMA Forgetting ==
  ASSUME TypeOK, NEW c \in Clients, ReadAgain(c) \/ ReadEof(c) \/ ReadFails(c)
  PROVE  /\ Handling(c) /\ c \in Room
         /\ UNCHANGED <<link, backlog, up, down, printed, is_stop, history>>
         /\ \E left \in SUBSET {c} :
               /\ Room' = Room \ left /\ edge' = edge \ left
               /\ left # {} => link[c] # "on" /\ link[c] # "off"
         /\ proc' \in {proc, "failed"}
         /\ proc' # proc => link[c] = "rst"
<1>1. Handling(c)
  BY DEF ReadAgain, ReadEof, ReadFails, NothingRead
<1>2. c \in Room
  BY <1>1, ChatAssumption DEF Handling, TypeOK
<1>3. CASE ReadAgain(c)
  BY <1>1, <1>2, <1>3 DEF ReadAgain, NothingRead
<1>4. CASE ReadEof(c)
  BY <1>1, <1>2, <1>4 DEF ReadEof, NothingRead
<1>5. CASE ReadFails(c)
  BY <1>1, <1>2, <1>5 DEF ReadFails, NothingRead
<1> QED
  BY <1>3, <1>4, <1>5

\* Handling an event takes it from the batch, which only loses members.
LEMMA BatchShrinks ==
  ASSUME NEW e, TypeOK
  PROVE  Cardinality(batch \ {e}) <= MaxEvents
<1>1. IsFiniteSet(Clients \cup {Listen})
  BY ChatAssumption, FS_AddElement
<1>2. batch \in SUBSET (Clients \cup {Listen})
  BY DEF TypeOK
<1>3. IsFiniteSet(batch)
  BY <1>1, <1>2, FS_Subset
<1>4. /\ Cardinality(batch) \in Nat
      /\ Cardinality(batch \ {e}) \in Nat
      /\ Cardinality(batch \ {e}) <= Cardinality(batch)
  BY <1>3, FS_RemoveElement, FS_CardinalityType, FS_Subset
<1> QED
  BY <1>4, ChatAssumption DEF TypeOK

\* epoll_wait reports some of what is ready, at most maxevents.
LEMMA Waking ==
  ASSUME TypeOK, EpollWait
  PROVE  /\ batch' \subseteq Ready /\ Cardinality(batch') <= MaxEvents
         /\ edge' \subseteq edge /\ in_wait' = FALSE
         /\ UNCHANGED <<link, backlog, up, down, Room, printed, is_stop, proc, history>>
<1>1. PICK events \in SUBSET Ready :
         /\ Cardinality(events) = IF Cardinality(Ready) < MaxEvents THEN Cardinality(Ready)
                                  ELSE MaxEvents
         /\ batch' = events
         /\ edge' = edge \ events
  BY DEF EpollWait
<1>2. Cardinality(Ready) \in Nat
  <2>1. IsFiniteSet(Clients \cup {Listen})
    BY ChatAssumption, FS_AddElement
  <2>2. Ready \in SUBSET (Clients \cup {Listen})
    BY DEF Ready, TypeOK
  <2> QED
    BY <2>1, <2>2, FS_Subset, FS_CardinalityType
<1>3. MaxEvents \in Nat
  BY ChatAssumption
<1>4. Cardinality(events) <= MaxEvents
  BY <1>1, <1>2, <1>3
<1> QED
  BY <1>1, <1>4 DEF EpollWait, ServerUnmoved
-----------------------------------------------------------------------------
(* The invariant *)

\* What is on the way to a client may only get shorter, but for a write.
LEMMA OnTheWay ==
  ASSUME TypeOK, NEW c \in Clients, NEW rest \in Seq(Cells), Len(rest) <= Len(down[c]),
         down' = [down EXCEPT ![c] = rest]
  PROVE  /\ down' \in [Clients -> Seq(Cells)]
         /\ \A d \in Clients : Len(down'[d]) <= SockBuf
<1>1. /\ down \in [Clients -> Seq(Cells)] /\ SockBuf \in Nat
      /\ \A d \in Clients : Len(down[d]) <= SockBuf
  BY ChatAssumption DEF TypeOK
<1>2. Len(rest) \in Nat /\ \A d \in Clients : Len(down[d]) \in Nat
  BY <1>1, LenProperties
<1>3. \A d \in Clients : down'[d] = IF d = c THEN rest ELSE down[d]
  BY <1>1
<1>4. \A d \in Clients : Len(down'[d]) <= SockBuf
  BY <1>1, <1>2, <1>3
<1> QED
  BY <1>1, <1>4

\* A read takes the first bytes of what is on the way to the client.
LEMMA PrintingTyped ==
  ASSUME TypeOK, NEW c \in Clients, NEW n \in 0..Len(down[c]), NEW behind \in Seq(Cells),
         Printing(c, n, behind)
  PROVE  /\ down' \in [Clients -> Seq(Cells)]
         /\ \A d \in Clients : Len(down'[d]) <= SockBuf
         /\ printed' \in [Clients -> Seq(Screen)]
         /\ \A d \in Clients \ {c} : printed'[d] = printed[d] /\ down'[d] = down[d]
<1>1. /\ down[c] \in Seq(Cells) /\ Len(down[c]) \in Nat /\ printed[c] \in Seq(Screen)
  BY LenProperties DEF TypeOK, Screen
<1>2. /\ down' = [down EXCEPT ![c] = SubSeq(down[c], n + 1, Len(down[c]))]
      /\ printed' = [printed EXCEPT ![c] = printed[c] \o Split(SubSeq(down[c], 1, n) \o behind)]
  BY DEF Printing
<1>3. n \in Nat /\ n <= Len(down[c])
  BY <1>1
<1>4. /\ SubSeq(down[c], n + 1, Len(down[c])) \in Seq(Cells)
      /\ Len(SubSeq(down[c], n + 1, Len(down[c]))) = Len(down[c]) - n
      /\ SubSeq(down[c], 1, n) \in Seq(Cells)
  BY <1>1, <1>3, Pieces
<1>5. Len(SubSeq(down[c], n + 1, Len(down[c]))) <= Len(down[c])
  BY <1>1, <1>3, <1>4
<1>6. SubSeq(down[c], 1, n) \o behind \in Seq(Cells)
  BY <1>4, Joined
<1>7. printed[c] \o Split(SubSeq(down[c], 1, n) \o behind) \in Seq(Screen)
  BY <1>1, <1>6, Shown
<1>8. /\ down' \in [Clients -> Seq(Cells)]
      /\ \A d \in Clients : Len(down'[d]) <= SockBuf
  BY <1>2, <1>4, <1>5, OnTheWay
<1>9. printed' \in [Clients -> Seq(Screen)]
  BY <1>2, <1>7 DEF TypeOK, Screen
<1> QED
  BY <1>2, <1>8, <1>9 DEF TypeOK

\* A pass of the receiving thread reads some of what is there, and prints just that.
LEMMA ReceiveIs ==
  ASSUME TypeOK, NEW c \in Clients, Receive(c)
  PROVE  \E n \in 1..Len(down[c]) :
            /\ Printing(c, n, <<>>)
            /\ printed' = [printed EXCEPT ![c] = printed[c] \o Split(SubSeq(down[c], 1, n))]
            /\ down' = [down EXCEPT ![c] = SubSeq(down[c], n + 1, Len(down[c]))]
            /\ whole' = (whole /\ n < BufferSize /\ NewLine(down[c][n]))
<1> DEFINE n == IF Len(down[c]) < BufferSize THEN Len(down[c]) ELSE BufferSize
<1>1. down[c] # <<>> /\ Printing(c, n, <<>>)
      /\ whole' = (whole /\ n < BufferSize /\ NewLine(down[c][n]))
  BY DEF Receive
<1>2. down[c] \in Seq(Cells) /\ Len(down[c]) \in Nat \ {0}
  BY <1>1, LenProperties, EmptySeq DEF TypeOK
<1>3. n \in 1..Len(down[c])
  BY <1>2, ChatAssumption
<1> HIDE DEF n
<1>4. SubSeq(down[c], 1, n) \in Seq(Cells)
  BY <1>2, <1>3, Pieces
<1>5. SubSeq(down[c], 1, n) \o <<>> = SubSeq(down[c], 1, n)
  BY <1>4, ConcatEmptySeq
<1> QED
  BY <1>1, <1>3, <1>5 DEF Printing

\* A read that overruns the buffer is a full one.
LEMMA OverrunIs ==
  ASSUME TypeOK, NEW c \in Clients, NEW len \in BodyLens, ReceiveOverruns(c, len)
  PROVE  /\ down[c] # <<>> /\ BufferSize \in 0..Len(down[c])
         /\ sends + 1 \in 1..MaxSends /\ sends' \in 0..MaxSends
         /\ \E behind \in {<<>>, Message(c, sends + 1, len)} :
               behind \in Seq(Cells) /\ Printing(c, BufferSize, behind)
<1>1. /\ Len(down[c]) >= BufferSize /\ sends' = sends + 1 /\ sends < MaxSends
      /\ \E behind \in {<<>>, Message(c, sends + 1, len)} : Printing(c, BufferSize, behind)
  BY DEF ReceiveOverruns
<1>2. /\ down[c] \in Seq(Cells) /\ Len(down[c]) \in Nat /\ BufferSize \in Nat \ {0, 1}
      /\ sends \in Nat /\ MaxSends \in Nat
  BY LenProperties, ChatAssumption DEF TypeOK
<1>3. BufferSize \in 0..Len(down[c]) /\ Len(down[c]) # 0
  BY <1>1, <1>2
<1>4. down[c] # <<>>
  BY <1>3, EmptySeq
<1>5. sends + 1 \in 1..MaxSends /\ sends' \in 0..MaxSends
  BY <1>1, <1>2
<1>6. <<>> \in Seq(Cells) /\ Message(c, sends + 1, len) \in Seq(Cells)
  BY <1>5, MessageTyped, EmptySeq
<1> QED
  BY <1>1, <1>3, <1>4, <1>5, <1>6

\* A message of c goes behind what c sent before.
Enters(c, msg) == /\ up' = [up EXCEPT ![c] = up[c] \o msg]
                  /\ sent' = [sent EXCEPT ![c] = sent[c] \o msg]

LEMMA SendTyped ==
  ASSUME TypeOK, NEW c \in Clients, NEW len \in BodyLens, sends + 1 \in 1..MaxSends,
         \A d \in Clients : Behind(d), Enters(c, Message(c, sends + 1, len))
  PROVE  /\ up' \in [Clients -> Seq(Cells)] /\ sent' \in [Clients -> Seq(Cells)]
         /\ \A d \in Clients : Behind(d)'
<1> DEFINE msg == Message(c, sends + 1, len)
<1>1. msg \in Seq(Cells)
  BY MessageTyped
<1>2. up' = [up EXCEPT ![c] = up[c] \o msg] /\ sent' = [sent EXCEPT ![c] = sent[c] \o msg]
  BY DEF Enters
<1> HIDE DEF msg
<1>3. /\ up[c] \o msg \in Seq(Cells) /\ Len(up[c] \o msg) = Len(up[c]) + Len(msg)
      /\ sent[c] \o msg \in Seq(Cells) /\ Len(sent[c] \o msg) = Len(sent[c]) + Len(msg)
      /\ Len(msg) \in Nat /\ Len(up[c]) \in Nat /\ Len(sent[c]) \in Nat
  BY <1>1, Joined DEF TypeOK
<1>4. up' \in [Clients -> Seq(Cells)] /\ sent' \in [Clients -> Seq(Cells)]
  BY <1>2, <1>3 DEF TypeOK
<1>5. ASSUME NEW d \in Clients PROVE Behind(d)'
  <2>1. CASE d = c
    <3>1. up'[c] = up[c] \o msg /\ sent'[c] = sent[c] \o msg
      BY <1>2 DEF TypeOK
    <3>2. Len(up[c]) <= Len(sent[c])
      BY DEF Behind
    <3> QED
      BY <1>3, <2>1, <3>1, <3>2 DEF Behind
  <2>2. CASE d # c
    BY <1>2, <2>2 DEF Behind, TypeOK
  <2> QED
    BY <2>1, <2>2
<1> QED
  BY <1>4, <1>5

\* The steps of a client leave the server's sets, and itself, well placed.
LEMMA ClientStep ==
  ASSUME IInv, NEW c \in Clients,
         \/ Connect(c) \/ Receive(c) \/ Leave(c)
         \/ \E len \in BodyLens : Send(c, len) \/ ReceiveOverruns(c, len)
  PROVE  IInv'
<1> USE DEF IInv, Placed, Behind, Waiting, ServerIdle
<1>0. /\ TypeOK /\ SockBuf \in Nat
      /\ \A d \in Clients : /\ Len(up[d]) \in Nat /\ Len(sent[d]) \in Nat
                            /\ Len(down[d]) \in Nat
  BY LenProperties, ChatAssumption DEF TypeOK
<1>1. CASE Connect(c)
  <2>1. /\ c \notin Range(backlog) /\ c \notin Room
    BY <1>1 DEF Connect
  <2>2. /\ backlog' \in Seq(Clients) /\ IsInjective(backlog') /\ backlog' # <<>>
        /\ Range(backlog') = Range(backlog) \cup {c}
    <3>1. backlog \in Seq(Clients) /\ IsInjective(backlog)
      BY <1>0 DEF TypeOK
    <3>2. backlog' = Append(backlog, c)
      BY <1>1 DEF Connect
    <3> QED
      BY <2>1, <3>1, <3>2, JoinQueue
  <2>3. /\ link' = [link EXCEPT ![c] = "on"]
        /\ UNCHANGED <<edge, up, down, sends, sent, whole, Room, batch, in_wait, printed,
                       is_stop, proc, since, torn>>
    BY <1>1 DEF Connect
  <2>4. TypeOK'
    BY <1>0, <2>1, <2>2, <2>3 DEF TypeOK
  <2>5. Waiting' /\ \A d \in Clients : Placed(d)' /\ Behind(d)'
    BY <1>0, <2>1, <2>2, <2>3 DEF TypeOK
  <2> QED
    BY <2>4, <2>5
<1>2. CASE Receive(c)
  <2>1. /\ whole' \in BOOLEAN
        /\ UNCHANGED <<link, backlog, edge, up, sends, sent, Room, batch, in_wait, is_stop, proc,
                       since, torn>>
    BY <1>2 DEF Receive, NewLine
  <2>2. PICK n \in 1..Len(down[c]) : Printing(c, n, <<>>)
    BY <1>0, <1>2, ReceiveIs
  <2>3. n \in 0..Len(down[c]) /\ <<>> \in Seq(Cells)
    BY <1>0, EmptySeq
  <2>4. /\ down' \in [Clients -> Seq(Cells)]
        /\ \A d \in Clients : Len(down'[d]) <= SockBuf
        /\ printed' \in [Clients -> Seq(Screen)]
    BY <1>0, <2>2, <2>3, PrintingTyped
  <2>5. TypeOK'
    BY <1>0, <2>1, <2>4 DEF TypeOK, Screen
  <2> QED
    BY <2>1, <2>5
<1>3. CASE Leave(c)
  <2>1. /\ link' = [link EXCEPT ![c] = IF down[c] = <<>> THEN "fin" ELSE "rst"]
        /\ down' = [down EXCEPT ![c] = <<>>]
        /\ edge' \subseteq edge \cup (Room \cap {c})
        /\ link[c] = "on"
        /\ UNCHANGED <<backlog, up, sends, sent, whole, Room, batch, in_wait, printed, is_stop,
                       proc, since, torn>>
    BY <1>3 DEF Leave
  <2>2. <<>> \in Seq(Cells) /\ Len(<<>>) = 0
    BY EmptySeq
  <2>3. /\ down' \in [Clients -> Seq(Cells)]
        /\ \A d \in Clients : Len(down'[d]) <= SockBuf
    <3> DEFINE none == <<>>
    <3>1. none \in Seq(Cells) /\ Len(none) <= Len(down[c]) /\ down' = [down EXCEPT ![c] = none]
      BY <1>0, <2>1, <2>2
    <3> HIDE DEF none
    <3> QED
      BY <1>0, <3>1, OnTheWay
  <2>4. TypeOK'
    BY <1>0, <2>1, <2>3 DEF TypeOK
  <2>5. Waiting' /\ \A d \in Clients : Placed(d)' /\ Behind(d)'
    BY <1>0, <2>1 DEF TypeOK
  <2> QED
    BY <2>4, <2>5
<1>4. ASSUME NEW len \in BodyLens, Send(c, len) PROVE IInv'
  <2> DEFINE msg == Message(c, sends + 1, len)
  <2>1. /\ up' = [up EXCEPT ![c] = @ \o msg] /\ sent' = [sent EXCEPT ![c] = @ \o msg]
        /\ sends' = sends + 1 /\ sends < MaxSends
        /\ whole' \in BOOLEAN
        /\ edge' \subseteq edge \cup (Room \cap {c})
        /\ UNCHANGED <<link, backlog, down, Room, batch, in_wait, printed, is_stop, proc, since,
                       torn>>
    BY <1>4 DEF Send, NewLine
  <2>2. sends + 1 \in 1..MaxSends /\ sends' \in 0..MaxSends
    BY <2>1, ChatAssumption DEF TypeOK
  <2>3. /\ up' \in [Clients -> Seq(Cells)] /\ sent' \in [Clients -> Seq(Cells)]
        /\ \A d \in Clients : Behind(d)'
    BY <1>0, <2>1, <2>2, SendTyped DEF Enters
  <2>4. TypeOK'
    BY <1>0, <2>1, <2>2, <2>3 DEF TypeOK
  <2> QED
    BY <2>1, <2>3, <2>4
<1>5. ASSUME NEW len \in BodyLens, ReceiveOverruns(c, len) PROVE IInv'
  <2> DEFINE msg == Message(c, sends + 1, len)
  <2>1. /\ edge' \subseteq edge \cup (Room \cap {c})
        /\ torn' = torn \cup {c} /\ whole' = FALSE
        /\ \/ up' = [up EXCEPT ![c] = @ \o msg] /\ sent' = [sent EXCEPT ![c] = @ \o msg]
           \/ UNCHANGED <<up, sent>>
        /\ UNCHANGED <<link, backlog, Room, batch, in_wait, is_stop, proc, since>>
    BY <1>5 DEF ReceiveOverruns
  <2>2. sends + 1 \in 1..MaxSends /\ sends' \in 0..MaxSends
    BY <1>0, <1>5, OverrunIs
  <2>3. /\ down' \in [Clients -> Seq(Cells)]
        /\ \A d \in Clients : Len(down'[d]) <= SockBuf
        /\ printed' \in [Clients -> Seq(Screen)]
    BY <1>0, <1>5, OverrunIs, PrintingTyped
  <2>4. /\ up' \in [Clients -> Seq(Cells)] /\ sent' \in [Clients -> Seq(Cells)]
        /\ \A d \in Clients : Behind(d)'
    <3>1. CASE up' = [up EXCEPT ![c] = @ \o msg] /\ sent' = [sent EXCEPT ![c] = @ \o msg]
      BY <1>0, <2>2, <3>1, SendTyped DEF Enters
    <3>2. CASE UNCHANGED <<up, sent>>
      BY <1>0, <3>2 DEF TypeOK
    <3> QED
      BY <2>1, <3>1, <3>2
  <2>5. TypeOK'
    BY <1>0, <2>1, <2>2, <2>3, <2>4 DEF TypeOK, Screen
  <2> QED
    BY <2>1, <2>4, <2>5
<1> QED
  BY <1>1, <1>2, <1>3, <1>4, <1>5

\* The steps of the epoll loop keep everybody in the room or in the queue.
LEMMA ServerStep ==
  ASSUME IInv,
         \/ \E c \in Clients : Handle(c)
         \/ LoopTest \/ EpollWait \/ EpollTimeout \/ EpollWaitFails
         \/ Accept \/ AcceptFails \/ Stop \/ UNCHANGED vars
  PROVE  IInv'
<1> USE DEF IInv, Placed, Behind, Waiting
<1>0. /\ TypeOK /\ \A d \in Clients : Len(up[d]) \in Nat /\ Len(sent[d]) \in Nat
  BY LenProperties DEF TypeOK
<1>1. ASSUME NEW c \in Clients, Relay(c) PROVE IInv'
  <2>1. PICK S \in SUBSET Room, chunk \in Seq(Cells) : WriteTo(S, chunk)
    BY <1>0, <1>1, Relaying
  <2>2. /\ proc' = "failed" \/ proc' = proc
        /\ up' \in [Clients -> Seq(Cells)]
        /\ \A d \in Clients : Len(up'[d]) <= Len(up[d])
        /\ UNCHANGED <<backlog, Room, printed, is_stop, sends, sent, since>>
        /\ Handling(c)
    BY <1>0, <1>1, Relaying
  <2>3. /\ down' \in [Clients -> Seq(Cells)]
        /\ \A d \in Clients : Len(down'[d]) <= SockBuf
        /\ edge' \subseteq Room
        /\ torn' \subseteq Clients /\ whole' \in BOOLEAN
        /\ link' \in [Clients -> {"off", "on", "fin", "finRst", "rst"}]
        /\ \A d \in Clients : \/ link'[d] = link[d]
                              \/ (d \in S /\ link[d] # "on" /\ link'[d] = "finRst")
    BY <1>0, <2>1, WriteTyped
  <2>4. /\ batch' = batch \ {c} /\ Cardinality(batch') <= MaxEvents /\ proc = "running"
        /\ in_wait' = in_wait
    BY <1>0, <2>2, BatchShrinks DEF Handling
  <2>5. TypeOK'
    BY <1>0, <2>2, <2>3, <2>4 DEF TypeOK
  <2>6. \A d \in Clients : Placed(d)'
    BY <1>0, <2>2, <2>3
  <2>7. \A d \in Clients : Behind(d)'
    <3>1. \A d \in Clients : Len(up'[d]) \in Nat
      BY <2>2, LenProperties
    <3>2. \A d \in Clients : /\ Len(up'[d]) <= Len(up[d]) /\ Len(up[d]) <= Len(sent[d])
                            /\ sent'[d] = sent[d]
      BY <2>2
    <3> QED
      BY <1>0, <3>1, <3>2
  <2> QED
    BY <2>2, <2>4, <2>5, <2>6, <2>7
<1>2. ASSUME NEW c \in Clients, ReadAgain(c) \/ ReadEof(c) \/ ReadFails(c) PROVE IInv'
  <2>1. /\ Handling(c)
        /\ UNCHANGED <<link, backlog, up, down, printed, is_stop, sends, sent, since, torn, whole>>
        /\ proc' \in {proc, "failed"}
    BY <1>0, <1>2, Forgetting DEF history
  <2>2. PICK left \in SUBSET {c} :
          /\ Room' = Room \ left /\ edge' = edge \ left
          /\ left # {} => link[c] # "on" /\ link[c] # "off"
    BY <1>0, <1>2, Forgetting
  <2>3. /\ batch' = batch \ {c} /\ Cardinality(batch') <= MaxEvents /\ proc = "running"
        /\ in_wait' = in_wait
    BY <1>0, <2>1, BatchShrinks DEF Handling
  <2>4. TypeOK'
    BY <1>0, <2>1, <2>2, <2>3, ChatAssumption DEF TypeOK
  <2>5. \A d \in Clients : Placed(d)'
    BY <1>0, <2>1, <2>2, <2>3
  <2> QED
    BY <2>1, <2>3, <2>4, <2>5
<1>3. CASE EpollWait
  <2>1. /\ batch' \subseteq Ready /\ Cardinality(batch') <= MaxEvents
        /\ edge' \subseteq edge /\ in_wait' = FALSE
        /\ UNCHANGED <<link, backlog, up, down, Room, printed, is_stop, proc, sends, sent, since,
                       torn, whole>>
    BY <1>0, <1>3, Waking DEF history
  <2>2. batch' \subseteq Room \cup {Listen} /\ (Listen \in batch' => backlog # <<>>)
    BY <1>0, <2>1, ChatAssumption DEF Ready, TypeOK
  <2>3. TypeOK'
    BY <1>0, <2>1, <2>2 DEF TypeOK
  <2> QED
    BY <2>1, <2>2, <2>3
<1>4. CASE Accept
  <2> DEFINE c == Head(backlog)
  <2>1. /\ Handling(Listen)
        /\ Room' = Room \cup {c} /\ backlog' = Tail(backlog)
        /\ since' = [since EXCEPT ![c] = [d \in Clients |-> TakenOf(d)]]
        /\ edge' \subseteq edge \cup {c}
        /\ UNCHANGED <<link, up, down, printed, is_stop, proc, sends, sent, torn, whole>>
    BY <1>4 DEF Accept
  <2>2. backlog # <<>>
    BY <2>1 DEF Handling
  <2>3. /\ c \in Clients /\ backlog' \in Seq(Clients) /\ IsInjective(backlog')
        /\ Range(backlog') = Range(backlog) \ {c} /\ c \in Range(backlog)
    BY <1>0, <2>1, <2>2, LeaveQueue DEF TypeOK
  <2> HIDE DEF c
  <2>4. /\ batch' = batch \ {Listen} /\ Cardinality(batch') <= MaxEvents
        /\ proc = "running" /\ in_wait' = in_wait
    BY <1>0, <2>1, BatchShrinks DEF Handling
  <2>5. since' \in [Clients -> [Clients -> Nat]]
    <3>1. \A d \in Clients : TakenOf(d) \in Nat
      BY <1>0 DEF TakenOf
    <3> QED
      BY <1>0, <2>1, <3>1 DEF TypeOK
  <2>6. TypeOK'
    BY <1>0, <2>1, <2>3, <2>4, <2>5 DEF TypeOK
  <2>7. \A d \in Clients : Placed(d)'
    BY <1>0, <2>1, <2>3
  <2> QED
    BY <2>1, <2>4, <2>6, <2>7
<1>5. CASE AcceptFails
  <2> DEFINE c == Head(backlog)
  <2>1. /\ Handling(Listen)
        /\ \/ UNCHANGED <<Room, backlog>>
           \/ Room' = Room \cup {c} /\ backlog' = Tail(backlog)
        /\ proc' = "failed"
        /\ UNCHANGED <<link, edge, up, down, printed, is_stop, sends, sent, since, torn, whole>>
    BY <1>5 DEF AcceptFails, history
  <2>2. backlog # <<>>
    BY <2>1 DEF Handling
  <2>3. /\ c \in Clients /\ Tail(backlog) \in Seq(Clients) /\ IsInjective(Tail(backlog))
        /\ Range(Tail(backlog)) = Range(backlog) \ {c} /\ c \in Range(backlog)
    BY <1>0, <2>2, LeaveQueue DEF TypeOK
  <2> HIDE DEF c
  <2>4. /\ batch' = batch \ {Listen} /\ Cardinality(batch') <= MaxEvents
        /\ in_wait' = in_wait
    BY <1>0, <2>1, BatchShrinks DEF Handling
  <2>5. /\ backlog' \in Seq(Clients) /\ IsInjective(backlog')
        /\ Room \subseteq Room' /\ Room' \subseteq Clients \ Range(backlog')
        /\ Room' \cup Range(backlog') = Room \cup Range(backlog)
    BY <1>0, <2>1, <2>3 DEF TypeOK
  <2>6. TypeOK'
    BY <1>0, <2>1, <2>4, <2>5 DEF TypeOK
  <2>7. \A d \in Clients : Placed(d)' /\ Behind(d)'
    BY <1>0, <2>1, <2>5
  <2>8. Waiting'
    BY <2>4
  <2> QED
    BY <2>6, <2>7, <2>8
<1>6. CASE Stop \/ LoopTest \/ EpollTimeout \/ EpollWaitFails
  <2>1. /\ UNCHANGED <<link, backlog, edge, up, down, Room, batch, printed, sends, sent, since,
                       torn, whole>>
        /\ in_wait' \in BOOLEAN
        /\ is_stop' \in BOOLEAN /\ proc' \in {"running", "exited", "failed"}
        /\ proc = "running"
    BY <1>0, <1>6 DEF Stop, LoopTest, EpollTimeout, EpollWaitFails, ServerUnmoved, wire, history,
       TypeOK
  <2> QED
    BY <1>0, <2>1 DEF TypeOK
<1>7. CASE UNCHANGED vars
  <2>1. UNCHANGED <<link, backlog, edge, up, down, Room, batch, in_wait, printed, is_stop, proc,
                    sends, sent, since, torn, whole>>
    BY <1>7 DEF vars, wire, history
  <2> QED
    BY <1>0, <2>1 DEF TypeOK
<1> QED
  BY <1>1, <1>2, <1>3, <1>4, <1>5, <1>6, <1>7 DEF Handle
-----------------------------------------------------------------------------
(* The theorems *)

\* Where each client is, and how many events, bytes and messages there are.
THEOREM ChatInvariant == Spec => []IInv
<1>1. ASSUME Init PROVE IInv
  <2>1. <<>> \in Seq(Clients) /\ <<>> \in Seq(Cells) /\ Len(<<>>) = 0 /\ DOMAIN <<>> = {}
    BY EmptySeq
  <2>2. IsInjective(backlog) /\ Range(backlog) = {}
    BY <1>1, <2>1 DEF Init, IsInjective, Range
  <2>3. Cardinality(batch) <= MaxEvents /\ SockBuf \in Nat
    BY <1>1, FS_EmptySet, ChatAssumption DEF Init
  <2>4. TypeOK
    <3>1. /\ link \in [Clients -> {"off", "on", "fin", "finRst", "rst"}]
          /\ backlog \in Seq(Clients)
          /\ up \in [Clients -> Seq(Cells)] /\ sent \in [Clients -> Seq(Cells)]
          /\ down \in [Clients -> Seq(Cells)]
      BY <1>1, <2>1 DEF Init
    <3>2. /\ \A c \in Clients : Len(down[c]) <= SockBuf
      BY <1>1, <2>1, <2>3 DEF Init
    <3>3. /\ sends \in 0..MaxSends /\ since \in [Clients -> [Clients -> Nat]]
      BY <1>1, ChatAssumption DEF Init
    <3>4. /\ Room = {} /\ edge = {} /\ batch = {} /\ torn = {}
          /\ is_stop = FALSE /\ in_wait = FALSE /\ proc = "running" /\ whole = TRUE
      BY <1>1 DEF Init
    <3>5. printed \in [Clients -> Seq(Cells \cup {EndOfLine})]
      BY <1>1, EmptySeq DEF Init
    <3> QED
      BY <2>2, <2>3, <3>1, <3>2, <3>3, <3>4, <3>5 DEF TypeOK
  <2>5. Waiting /\ \A c \in Clients : Placed(c) /\ Behind(c)
    BY <1>1, <2>1, <2>2 DEF Init, Waiting, Placed, Behind
  <2> QED
    BY <2>4, <2>5 DEF IInv
<1>2. IInv /\ [Next]_vars => IInv'
  BY ClientStep, ServerStep DEF Next, Terminated
<1> QED
  BY <1>1, <1>2, PTL DEF Spec

\* Whoever is connected waits for accept or is in the room, for any number of
\* clients and whichever events epoll_wait reports (tcp_server.cc:143-185).
THEOREM NobodyForgotten == Spec => []NobodyIsForgotten
<1>1. IInv => NobodyIsForgotten
  BY DEF IInv, Placed, NobodyIsForgotten
<1> QED
  BY <1>1, ChatInvariant, PTL

\* The server ends by itself only in epoll_wait or for a new connection, where a
\* call fails, for a client it reads that left with unread data, or because it
\* has something to relay to one that was reset, was written to after it left,
\* or does not read (tcp_server.cc:94-106, 147-167, 174-207).
THEOREM FailsForACause == Spec => ServerFailsForACause
<1> DEFINE Cause == \/ in_wait /\ "epoll_wait" \in Faults
                    \/ Listen \in batch \ batch' /\ Faults \cap AcceptFaults # {}
                    \/ \E c \in Room \cap (batch \ batch') :
                          \/ link[c] = "rst"
                          \/ up[c] # <<>> /\ \E d \in Room \ {c} : Unreachable(d)
<1>1. IInv /\ [Next]_vars => [proc' = "failed" /\ proc # "failed" => Cause]_vars
  <2> SUFFICES ASSUME IInv, Next, proc' = "failed", proc # "failed"
               PROVE  Cause
    BY DEF vars
  <2> HIDE DEF Cause
  <2>1. TypeOK
    BY DEF IInv
  <2>2. CASE EpollWaitFails
    BY <2>2 DEF EpollWaitFails, Cause
  <2>3. CASE AcceptFails
    <3>1. Listen \in batch \ batch'
      BY <2>3 DEF AcceptFails, Handling
    <3>2. Faults \cap AcceptFaults # {}
      BY <2>3 DEF AcceptFails, AcceptFaults
    <3> QED
      BY <3>1, <3>2 DEF Cause
  <2>4. ASSUME NEW c \in Clients, Relay(c) PROVE Cause
    <3>1. PICK d \in Room \ {c} : ~Writable(d)
      BY <2>1, <2>4, Relaying
    <3>2. d \in Clients /\ Len(down[d]) <= SockBuf /\ SockBuf \in Nat
          /\ Len(down[d]) \in Nat /\ link[d] \in {"on", "fin", "finRst", "rst"}
      BY <2>1, <3>1, LenProperties, ChatAssumption DEF TypeOK, IInv, Placed
    <3>3. Unreachable(d)
      BY <3>1, <3>2 DEF Writable, Unreachable
    <3>4. c \in Room \cap (batch \ batch') /\ up[c] # <<>>
      BY <2>1, <2>4, Relaying DEF Handling
    <3> QED
      BY <3>3, <3>4 DEF Cause
  <2>5. ASSUME NEW c \in Clients, ReadAgain(c) \/ ReadEof(c) \/ ReadFails(c) PROVE Cause
    <3>1. link[c] = "rst" /\ c \in Room \cap (batch \ batch')
      BY <2>1, <2>5, Forgetting DEF Handling
    <3> QED
      BY <3>1 DEF Cause
  <2>6. proc' = proc \/ proc' # "failed" \/ EpollWaitFails \/ AcceptFails
           \/ \E c \in Clients : Handle(c)
    BY DEF Next, Connect, Receive, ReceiveOverruns, Leave, Send, ServerIdle, LoopTest, EpollWait,
       EpollTimeout, Accept, Stop, Terminated, vars
  <2> QED
    BY <2>2, <2>3, <2>4, <2>5, <2>6 DEF Handle
<1> QED
  BY <1>1, ChatInvariant, PTL DEF Spec, ServerFailsForACause
-----------------------------------------------------------------------------
(* What is delivered *)

\* up[c] is what the server has not read yet of what c sent.
Rest(c) == \A k \in 1..Len(up[c]) : up[c][k] = sent[c][TakenOf(c) + k]

\* The text of c is its own, of messages sent so far, in order.
Numbered(c) == /\ InOrder(sent[c])
               /\ \A cell \in TextOf(sent[c]) : cell.from = c /\ cell.msg <= sends

\* Nobody was accepted after what the server has yet to read.
Joining(c) == \A d \in Clients : since[d][c] <= TakenOf(c)

\* Nothing is written to a client before it is accepted.
Fresh(c) == c \notin Room /\ link[c] \in {"off", "on"} => printed[c] = <<>> /\ down[c] = <<>>

Streams == \A c \in Clients : Rest(c) /\ Numbered(c) /\ Joining(c) /\ Fresh(c)

\* What the others have sent to d, as far as the server has read it.
Owed(d) == UNION {TextIn(sent[c], since[d][c] + 1, TakenOf(c)) : c \in Clients \ {d}}
-----------------------------------------------------------------------------
(* The text of a stream and its order *)

\* Where the bytes of two joined streams are.
LEMMA JoinedAt ==
  ASSUME NEW S, NEW s \in Seq(S), NEW t \in Seq(S)
  PROVE  /\ s \o t \in Seq(S) /\ Len(s) \in Nat /\ Len(t) \in Nat
         /\ Len(s \o t) = Len(s) + Len(t)
         /\ DOMAIN s = 1..Len(s) /\ DOMAIN t = 1..Len(t)
         /\ DOMAIN (s \o t) = 1..(Len(s) + Len(t))
         /\ \A k \in 1..Len(s) : (s \o t)[k] = s[k]
         /\ \A k \in 1..Len(t) : (s \o t)[Len(s) + k] = t[k]
<1>1. /\ s \o t \in Seq(S) /\ Len(s \o t) = Len(s) + Len(t)
      /\ Len(s) \in Nat /\ Len(t) \in Nat
      /\ DOMAIN s = 1..Len(s) /\ DOMAIN t = 1..Len(t)
      /\ \A k \in 1..Len(s) + Len(t) :
            (s \o t)[k] = IF k <= Len(s) THEN s[k] ELSE t[k - Len(s)]
  BY ConcatProperties, LenProperties
<1>2. DOMAIN (s \o t) = 1..(Len(s) + Len(t))
  BY <1>1, LenProperties
<1> DEFINE a == Len(s)
           b == Len(t)
<1>3. a \in Nat /\ b \in Nat
  BY <1>1
<1>4. ASSUME NEW k \in 1..a PROVE (s \o t)[k] = s[k]
  <2>1. k \in 1..(a + b) /\ k <= a
    BY <1>3
  <2> QED
    BY <1>1, <2>1
<1>5. ASSUME NEW k \in 1..b PROVE (s \o t)[a + k] = t[k]
  <2>1. a + k \in 1..(a + b) /\ ~(a + k <= a) /\ (a + k) - a = k
    BY <1>3
  <2> QED
    BY <1>1, <2>1
<1> QED
  BY <1>1, <1>2, <1>4, <1>5

LEMMA TextOfJoined ==
  ASSUME NEW S, NEW s \in Seq(S), NEW t \in Seq(S)
  PROVE  TextOf(s \o t) = TextOf(s) \cup TextOf(t)
<1> DEFINE a == Len(s)
           b == Len(t)
           u == s \o t
<1>1. /\ a \in Nat /\ b \in Nat /\ Len(u) = a + b
      /\ \A k \in 1..a : u[k] = s[k]
      /\ \A k \in 1..b : u[a + k] = t[k]
  BY JoinedAt
<1>2. /\ TextOf(s) = {s[k] : k \in {m \in 1..a : ~NewLine(s[m])}}
      /\ TextOf(t) = {t[k] : k \in {m \in 1..b : ~NewLine(t[m])}}
      /\ TextOf(u) = {u[k] : k \in {m \in 1..(a + b) : ~NewLine(u[m])}}
  BY <1>1 DEF TextOf, TextIn
<1> HIDE DEF a, b, u
<1>3. /\ \A k \in 1..a : k \in 1..(a + b)
      /\ \A k \in 1..b : a + k \in 1..(a + b)
      /\ \A k \in 1..(a + b) : k \in 1..a \/ (k - a \in 1..b /\ a + (k - a) = k)
  BY <1>1
<1>4. TextOf(s) \cup TextOf(t) \subseteq TextOf(u)
  BY <1>1, <1>2, <1>3
<1>5. TextOf(u) \subseteq TextOf(s) \cup TextOf(t)
  BY <1>1, <1>2, <1>3
<1> QED
  BY <1>4, <1>5 DEF u

\* All text of A comes before the text of B from the same client.
Precede(A, B) == \A a \in A, b \in B : a.from = b.from => Before(a, b)

LEMMA InOrderJoined ==
  ASSUME NEW S, NEW s \in Seq(S), NEW t \in Seq(S)
  PROVE  InOrder(s \o t) <=> InOrder(s) /\ InOrder(t) /\ Precede(TextOf(s), TextOf(t))
<1> DEFINE a == Len(s)
           b == Len(t)
           u == s \o t
<1>1. /\ a \in Nat /\ b \in Nat /\ Len(u) = a + b
      /\ DOMAIN s = 1..a /\ DOMAIN t = 1..b /\ DOMAIN u = 1..(a + b)
      /\ \A k \in 1..a : u[k] = s[k]
      /\ \A k \in 1..b : u[a + k] = t[k]
  BY JoinedAt
<1>2. /\ TextOf(s) = {s[k] : k \in {m \in 1..a : ~NewLine(s[m])}}
      /\ TextOf(t) = {t[k] : k \in {m \in 1..b : ~NewLine(t[m])}}
  BY <1>1 DEF TextOf, TextIn
<1> HIDE DEF a, b, u
<1>3. /\ \A k \in 1..a : k \in 1..(a + b)
      /\ \A k \in 1..b : a + k \in 1..(a + b)
      /\ \A k \in 1..(a + b) : k \in 1..a \/ (k - a \in 1..b /\ a + (k - a) = k)
      /\ \A j \in 1..a, k \in 1..b : j < a + k
      /\ \A j, k \in 1..b : j < k => a + j < a + k
  BY <1>1
<1>4. ASSUME InOrder(u)
      PROVE  InOrder(s) /\ InOrder(t) /\ Precede(TextOf(s), TextOf(t))
  <2>1. InOrder(s)
    BY <1>1, <1>3, <1>4 DEF InOrder
  <2>2. InOrder(t)
    <3>1. SUFFICES ASSUME NEW j \in 1..b, NEW k \in 1..b, j < k, ~NewLine(t[j]),
                          ~NewLine(t[k]), t[j].from = t[k].from
                   PROVE  Before(t[j], t[k])
      BY <1>1 DEF InOrder
    <3>2. u[a + j] = t[j] /\ u[a + k] = t[k] /\ a + j < a + k
          /\ a + j \in DOMAIN u /\ a + k \in DOMAIN u
      BY <1>1, <1>3, <3>1
    <3> QED
      BY <1>4, <3>1, <3>2 DEF InOrder
  <2>3. Precede(TextOf(s), TextOf(t))
    <3>1. SUFFICES ASSUME NEW j \in 1..a, NEW k \in 1..b, ~NewLine(s[j]),
                          ~NewLine(t[k]), s[j].from = t[k].from
                   PROVE  Before(s[j], t[k])
      BY <1>2 DEF Precede
    <3>2. u[j] = s[j] /\ u[a + k] = t[k] /\ j < a + k
          /\ j \in DOMAIN u /\ a + k \in DOMAIN u
      BY <1>1, <1>3, <3>1
    <3> QED
      BY <1>4, <3>1, <3>2 DEF InOrder
  <2> QED
    BY <2>1, <2>2, <2>3
<1>5. ASSUME InOrder(s), InOrder(t), Precede(TextOf(s), TextOf(t))
      PROVE  InOrder(u)
  <2>1. SUFFICES ASSUME NEW j \in 1..(a + b), NEW k \in 1..(a + b), j < k, ~NewLine(u[j]),
                        ~NewLine(u[k]), u[j].from = u[k].from
                 PROVE  Before(u[j], u[k])
    BY <1>1 DEF InOrder
  <2>2. CASE j \in 1..a /\ k \in 1..a
    BY <1>1, <1>5, <2>1, <2>2 DEF InOrder
  <2>3. CASE j \in 1..a /\ k \notin 1..a
    <3>1. u[j] = s[j] /\ k - a \in 1..b /\ u[k] = t[k - a]
      BY <1>1, <1>3, <2>3
    <3>2. s[j] \in TextOf(s) /\ t[k - a] \in TextOf(t)
      BY <1>2, <2>1, <2>3, <3>1
    <3> QED
      BY <1>5, <2>1, <3>1, <3>2 DEF Precede
  <2>4. CASE j \notin 1..a
    <3>1. k \notin 1..a /\ j - a < k - a
      BY <1>1, <2>1, <2>4
    <3>2. j - a \in 1..b /\ u[j] = t[j - a] /\ k - a \in 1..b /\ u[k] = t[k - a]
      BY <1>1, <1>3, <2>4, <3>1
    <3> QED
      BY <1>1, <1>5, <2>1, <3>1, <3>2 DEF InOrder
  <2> QED
    BY <2>2, <2>3, <2>4
<1> QED
  BY <1>4, <1>5 DEF u

LEMMA SplitText ==
  ASSUME NEW s \in Seq(Cells)
  PROVE  TextOf(Split(s)) = TextOf(s) /\ (InOrder(s) => InOrder(Split(s)))
<1> DEFINE a == Len(s)
           u == Split(s)
<1>1. /\ u \in Seq(Screen) /\ Len(u) = a + 1
      /\ \A k \in 1..a : u[k] = s[k]
      /\ u[a + 1] = EndOfLine
  <2>1. <<>> \in Seq(Screen)
    BY EmptySeq
  <2> QED
    BY <2>1, Shown
<1>2. a \in Nat /\ DOMAIN s = 1..a /\ DOMAIN u = 1..Len(u)
  BY <1>1, LenProperties
<1>3. NewLine(u[a + 1])
  BY <1>1 DEF NewLine, EndOfLine
<1>4. /\ TextOf(s) = {s[k] : k \in {m \in 1..a : ~NewLine(s[m])}}
      /\ TextOf(u) = {u[k] : k \in {m \in 1..Len(u) : ~NewLine(u[m])}}
  BY DEF TextOf, TextIn
<1> HIDE DEF a, u
<1>5. /\ \A k \in 1..a : k \in 1..Len(u)
      /\ \A k \in 1..Len(u) : k \in 1..a \/ k = a + 1
  BY <1>1, <1>2
<1>6. TextOf(u) = TextOf(s)
  BY <1>1, <1>3, <1>4, <1>5
<1>7. ASSUME InOrder(s) PROVE InOrder(u)
  BY <1>1, <1>2, <1>3, <1>5, <1>7 DEF InOrder
<1> QED
  BY <1>6, <1>7 DEF u

\* A stream is its first bytes and the rest.
LEMMA Rejoined ==
  ASSUME NEW S, NEW s \in Seq(S), NEW n \in 0..Len(s)
  PROVE  /\ SubSeq(s, 1, n) \in Seq(S) /\ SubSeq(s, n + 1, Len(s)) \in Seq(S)
         /\ Len(SubSeq(s, 1, n)) = n /\ Len(SubSeq(s, n + 1, Len(s))) = Len(s) - n
         /\ \A k \in 1..n : SubSeq(s, 1, n)[k] = s[k]
         /\ \A k \in 1..(Len(s) - n) : SubSeq(s, n + 1, Len(s))[k] = s[n + k]
         /\ SubSeq(s, 1, n) \o SubSeq(s, n + 1, Len(s)) = s
<1> DEFINE a == SubSeq(s, 1, n)
           b == SubSeq(s, n + 1, Len(s))
           m == Len(s)
<1>1. m \in Nat /\ n \in Nat /\ n <= m
  BY LenProperties
<1>2. a \in Seq(S) /\ b \in Seq(S) /\ Len(a) = n /\ Len(b) = m - n
  BY <1>1, Pieces
<1>3. \A k \in 1..n : a[k] = s[k]
  <2>1. \A k \in 1..n : s[k] \in S
    BY <1>1, ElementOfSeq
  <2>2. \A k \in 1..(n - 1 + 1) : a[k] = s[1 + k - 1]
    BY <1>1, <2>1, SubSeqProperties
  <2> QED
    BY <1>1, <2>2
<1>4. \A k \in 1..(m - n) : b[k] = s[n + k]
  <2>1. \A k \in (n + 1)..m : s[k] \in S
    BY <1>1, ElementOfSeq
  <2>2. \A k \in 1..(m - (n + 1) + 1) : b[k] = s[n + 1 + k - 1]
    BY <1>1, <2>1, SubSeqProperties
  <2>3. ASSUME NEW k \in 1..(m - n) PROVE b[k] = s[n + k]
    <3>1. k \in 1..(m - (n + 1) + 1) /\ n + 1 + k - 1 = n + k
      BY <1>1
    <3> QED
      BY <2>2, <3>1
  <2> QED
    BY <2>3
<1>5. a \o b = s
  <2>1. /\ a \o b \in Seq(S) /\ Len(a \o b) = m
        /\ \A k \in 1..n : (a \o b)[k] = a[k]
        /\ \A k \in 1..(m - n) : (a \o b)[n + k] = b[k]
    <3> HIDE DEF a, b
    <3>1. /\ a \o b \in Seq(S) /\ Len(a \o b) = Len(a) + Len(b)
          /\ \A k \in 1..Len(a) : (a \o b)[k] = a[k]
          /\ \A k \in 1..Len(b) : (a \o b)[Len(a) + k] = b[k]
      BY <1>2, JoinedAt
    <3>2. n + (m - n) = m
      BY <1>1
    <3> HIDE DEF m
    <3> QED
      BY <1>2, <3>1, <3>2
  <2> HIDE DEF a, b, m
  <2>2. ASSUME NEW k \in 1..m PROVE (a \o b)[k] = s[k]
    <3>1. k \in 1..n \/ (k - n \in 1..(m - n) /\ n + (k - n) = k)
      BY <1>1
    <3> QED
      BY <1>3, <1>4, <2>1, <3>1
  <2> QED
    BY <2>1, <2>2, SeqEqual DEF m
<1> QED
  BY <1>2, <1>3, <1>4, <1>5

\* Printing what was read keeps the text of a client and its order.
LEMMA PrintingKeeps ==
  ASSUME NEW p \in Seq(Screen), NEW s \in Seq(Cells), NEW n \in 0..Len(s)
  PROVE  LET shown == p \o Split(SubSeq(s, 1, n))
             rest  == SubSeq(s, n + 1, Len(s))
         IN  /\ TextOf(shown \o rest) = TextOf(p \o s)
             /\ InOrder(p \o s) => InOrder(shown \o rest)
<1> DEFINE read == SubSeq(s, 1, n)
           rest == SubSeq(s, n + 1, Len(s))
<1>1. read \in Seq(Cells) /\ rest \in Seq(Cells) /\ read \o rest = s
  BY Rejoined
<1> HIDE DEF read, rest
<1>2. /\ read \in Seq(Screen) /\ rest \in Seq(Screen) /\ Split(read) \in Seq(Screen)
      /\ p \o Split(read) \in Seq(Screen) /\ s \in Seq(Screen)
  BY <1>1, Shown
<1>3. /\ TextOf(s) = TextOf(read) \cup TextOf(rest)
      /\ InOrder(s) <=> InOrder(read) /\ InOrder(rest) /\ Precede(TextOf(read), TextOf(rest))
      /\ TextOf(p \o s) = TextOf(p) \cup TextOf(s)
      /\ InOrder(p \o s) <=> InOrder(p) /\ InOrder(s) /\ Precede(TextOf(p), TextOf(s))
  <2>1. /\ TextOf(read \o rest) = TextOf(read) \cup TextOf(rest)
        /\ InOrder(read \o rest) <=>
             InOrder(read) /\ InOrder(rest) /\ Precede(TextOf(read), TextOf(rest))
    BY <1>1, TextOfJoined, InOrderJoined
  <2>2. /\ TextOf(p \o s) = TextOf(p) \cup TextOf(s)
        /\ InOrder(p \o s) <=> InOrder(p) /\ InOrder(s) /\ Precede(TextOf(p), TextOf(s))
    BY <1>2, TextOfJoined, InOrderJoined
  <2> QED
    BY <1>1, <2>1, <2>2
<1>4. TextOf(Split(read)) = TextOf(read) /\ (InOrder(read) => InOrder(Split(read)))
  BY <1>1, SplitText
<1>5. /\ TextOf(p \o Split(read)) = TextOf(p) \cup TextOf(read)
      /\ InOrder(p \o Split(read)) <=>
           InOrder(p) /\ InOrder(Split(read)) /\ Precede(TextOf(p), TextOf(read))
  BY <1>2, <1>4, TextOfJoined, InOrderJoined
<1>6. /\ TextOf((p \o Split(read)) \o rest) = TextOf(p \o Split(read)) \cup TextOf(rest)
      /\ InOrder((p \o Split(read)) \o rest) <=>
           /\ InOrder(p \o Split(read)) /\ InOrder(rest)
           /\ Precede(TextOf(p \o Split(read)), TextOf(rest))
  BY <1>2, TextOfJoined, InOrderJoined
<1>7. TextOf((p \o Split(read)) \o rest) = TextOf(p \o s)
  BY <1>3, <1>5, <1>6
<1>8. ASSUME InOrder(p \o s) PROVE InOrder((p \o Split(read)) \o rest)
  <2>1. /\ Precede(TextOf(p), TextOf(read)) /\ Precede(TextOf(p), TextOf(rest))
        /\ Precede(TextOf(read), TextOf(rest))
    BY <1>3, <1>8 DEF Precede
  <2>2. Precede(TextOf(p \o Split(read)), TextOf(rest))
    BY <1>5, <2>1 DEF Precede
  <2> QED
    BY <1>3, <1>4, <1>5, <1>6, <1>8, <2>1, <2>2
<1> QED
  BY <1>7, <1>8 DEF read, rest
-----------------------------------------------------------------------------
(* What is sent, read and relayed *)

LEMMA SameText ==
  ASSUME NEW s, NEW t, NEW i \in Int, NEW j \in Int, \A k \in i..j : s[k] = t[k]
  PROVE  TextIn(s, i, j) = TextIn(t, i, j)
BY DEF TextIn

\* The bytes of a message.
LEMMA Spelled ==
  ASSUME NEW c \in Clients, NEW n \in 1..MaxSends, NEW len \in BodyLens
  PROVE  LET m == Message(c, n, len)
         IN  /\ m \in Seq(Cells)
             /\ Len(m) = IF len + 1 < BufferSize THEN len + 1 ELSE BufferSize - 1
             /\ Len(m) > 0 /\ Len(m) <= len + 1
             /\ \A k \in 1..Len(m) :
                   m[k] = [from |-> c, msg |-> n, part |-> IF k <= len THEN k ELSE 0]
<1> DEFINE cell(i) == [from |-> c, msg |-> n, part |-> IF i <= len THEN i ELSE 0]
           full == [i \in 1..(len + 1) |-> cell(i)]
           m == Message(c, n, len)
<1>1. len \in Nat \ {0} /\ BufferSize \in Nat \ {0, 1} /\ m \in Seq(Cells)
  BY ChatAssumption, MessageTyped
<1>2. m = IF len + 1 < BufferSize THEN full ELSE SubSeq(full, 1, BufferSize - 1)
  BY DEF Message
<1>3. full \in Seq(Cells) /\ Len(full) = len + 1 /\ \A k \in 1..(len + 1) : full[k] = cell(k)
  <2>1. \A i \in 1..(len + 1) : cell(i) \in Cells
    BY <1>1 DEF Cells
  <2>2. full \in [1..(len + 1) -> Cells] /\ len + 1 \in Nat
    BY <1>1, <2>1
  <2>3. \A k \in 1..(len + 1) : full[k] = cell(k)
    OBVIOUS
  <2> HIDE DEF full
  <2> QED
    BY <2>2, <2>3
<1> HIDE DEF full, m
<1>4. CASE len + 1 < BufferSize
  BY <1>1, <1>2, <1>3, <1>4 DEF m
<1>5. CASE ~(len + 1 < BufferSize)
  <2>1. BufferSize - 1 \in 0..Len(full) /\ BufferSize - 1 > 0 /\ BufferSize - 1 <= len + 1
    BY <1>1, <1>3, <1>5
  <2>2. m = SubSeq(full, 1, BufferSize - 1)
    BY <1>2, <1>5
  <2>3. /\ Len(m) = BufferSize - 1
        /\ \A k \in 1..(BufferSize - 1) : m[k] = full[k]
    BY <1>3, <2>1, <2>2, Rejoined
  <2>4. \A k \in 1..(BufferSize - 1) : k \in 1..(len + 1)
    BY <1>1, <2>1
  <2> QED
    BY <1>1, <1>3, <1>5, <2>1, <2>3, <2>4 DEF m
<1> QED
  BY <1>4, <1>5

\* The text of a message is new, and in order.
LEMMA MessageText ==
  ASSUME NEW c \in Clients, NEW n \in 1..MaxSends, NEW len \in BodyLens
  PROVE  LET m == Message(c, n, len)
         IN  /\ InOrder(m)
             /\ \A cell \in TextOf(m) : cell.from = c /\ cell.msg = n
<1> DEFINE m == Message(c, n, len)
<1>1. /\ m \in Seq(Cells) /\ len \in Nat
      /\ \A k \in 1..Len(m) :
            m[k] = [from |-> c, msg |-> n, part |-> IF k <= len THEN k ELSE 0]
  BY Spelled, ChatAssumption
<1>2. Len(m) \in Nat /\ DOMAIN m = 1..Len(m)
  BY <1>1, LenProperties
<1> HIDE DEF m
<1>3. \A k \in 1..Len(m) : /\ m[k].from = c /\ m[k].msg = n
                           /\ ~NewLine(m[k]) => m[k].part = k
  BY <1>1, <1>2 DEF NewLine
<1>4. InOrder(m)
  BY <1>2, <1>3 DEF InOrder, Before
<1>5. \A cell \in TextOf(m) : cell.from = c /\ cell.msg = n
  BY <1>3 DEF TextOf, TextIn
<1> QED
  BY <1>4, <1>5 DEF m

\* The bytes that are read next follow, in s, those that were read before.
LEMMA Passage ==
  ASSUME NEW s \in Seq(Cells), NEW a \in Nat, NEW chunk \in Seq(Cells),
         a + Len(chunk) <= Len(s), \A k \in 1..Len(chunk) : chunk[k] = s[a + k]
  PROVE  /\ InOrder(s) => InOrder(chunk)
         /\ \A m \in 0..a : /\ TextIn(s, m + 1, a + Len(chunk))
                                  = TextIn(s, m + 1, a) \cup TextOf(chunk)
                            /\ InOrder(s) => Precede(TextIn(s, m + 1, a), TextOf(chunk))
         /\ TextOf(chunk) \subseteq TextOf(s)
<1> DEFINE n == Len(chunk)
           l == Len(s)
<1>1. /\ n \in Nat /\ l \in Nat /\ a + n <= l
      /\ DOMAIN s = 1..l /\ DOMAIN chunk = 1..n
      /\ \A k \in 1..n : chunk[k] = s[a + k]
  BY LenProperties
<1>2. /\ TextOf(chunk) = {chunk[k] : k \in {i \in 1..n : ~NewLine(chunk[i])}}
      /\ TextOf(s) = {s[k] : k \in {i \in 1..l : ~NewLine(s[i])}}
  BY DEF TextOf, TextIn
<1> HIDE DEF n, l
<1>3. /\ \A k \in 1..n : a + k \in 1..l /\ a + k \in (a + 1)..(a + n)
      /\ \A k \in (a + 1)..(a + n) : k - a \in 1..n /\ a + (k - a) = k
      /\ \A j, k \in 1..n : j < k => a + j < a + k
  BY <1>1
<1>4. ASSUME InOrder(s) PROVE InOrder(chunk)
  <2>1. SUFFICES ASSUME NEW j \in 1..n, NEW k \in 1..n, j < k, ~NewLine(chunk[j]),
                        ~NewLine(chunk[k]), chunk[j].from = chunk[k].from
                 PROVE  Before(chunk[j], chunk[k])
    BY <1>1 DEF InOrder
  <2>2. chunk[j] = s[a + j] /\ chunk[k] = s[a + k] /\ a + j < a + k
        /\ a + j \in DOMAIN s /\ a + k \in DOMAIN s
    BY <1>1, <1>3, <2>1
  <2> QED
    BY <1>4, <2>1, <2>2 DEF InOrder
<1>5. ASSUME NEW m \in 0..a
      PROVE  TextIn(s, m + 1, a + n) = TextIn(s, m + 1, a) \cup TextOf(chunk)
  <2>1. /\ \A k \in (m + 1)..(a + n) : k \in (m + 1)..a \/ k \in (a + 1)..(a + n)
        /\ \A k \in (m + 1)..a : k \in (m + 1)..(a + n)
        /\ \A k \in (a + 1)..(a + n) : k \in (m + 1)..(a + n)
    BY <1>1, <1>5
  <2>2. TextIn(s, a + 1, a + n) = TextOf(chunk)
    BY <1>1, <1>2, <1>3 DEF TextIn
  <2>3. TextIn(s, m + 1, a + n) = TextIn(s, m + 1, a) \cup TextIn(s, a + 1, a + n)
    BY <2>1 DEF TextIn
  <2> QED
    BY <2>2, <2>3
<1>6. ASSUME NEW m \in 0..a, InOrder(s)
      PROVE  Precede(TextIn(s, m + 1, a), TextOf(chunk))
  <2>1. SUFFICES ASSUME NEW j \in (m + 1)..a, NEW k \in 1..n, ~NewLine(s[j]),
                        ~NewLine(chunk[k]), s[j].from = chunk[k].from
                 PROVE  Before(s[j], chunk[k])
    BY <1>2 DEF Precede, TextIn
  <2>2. chunk[k] = s[a + k] /\ j < a + k /\ j \in DOMAIN s /\ a + k \in DOMAIN s
    BY <1>1, <1>3, <1>6, <2>1
  <2> QED
    BY <1>6, <2>1, <2>2 DEF InOrder
<1>7. TextOf(chunk) \subseteq TextOf(s)
  BY <1>1, <1>2, <1>3
<1> QED
  BY <1>4, <1>5, <1>6, <1>7 DEF n, l
-----------------------------------------------------------------------------
(* Every step keeps what was relayed in step with what was read *)

StreamInv == Streams /\ RelayFaithful

LEMMA StreamsTyped ==
  ASSUME IInv
  PROVE  \A c \in Clients :
            /\ up[c] \in Seq(Cells) /\ sent[c] \in Seq(Cells) /\ down[c] \in Seq(Cells)
            /\ printed[c] \in Seq(Screen) /\ down[c] \in Seq(Screen)
            /\ Len(up[c]) \in Nat /\ Len(sent[c]) \in Nat /\ Len(up[c]) <= Len(sent[c])
            /\ TakenOf(c) \in Nat /\ TakenOf(c) + Len(up[c]) = Len(sent[c])
            /\ \A d \in Clients : since[d][c] \in Nat
<1> SUFFICES ASSUME NEW c \in Clients
             PROVE  /\ up[c] \in Seq(Cells) /\ sent[c] \in Seq(Cells) /\ down[c] \in Seq(Cells)
                    /\ printed[c] \in Seq(Screen) /\ down[c] \in Seq(Screen)
                    /\ Len(up[c]) \in Nat /\ Len(sent[c]) \in Nat /\ Len(up[c]) <= Len(sent[c])
                    /\ TakenOf(c) \in Nat /\ TakenOf(c) + Len(up[c]) = Len(sent[c])
                    /\ \A d \in Clients : since[d][c] \in Nat
  OBVIOUS
<1>1. /\ up[c] \in Seq(Cells) /\ sent[c] \in Seq(Cells) /\ down[c] \in Seq(Cells)
      /\ printed[c] \in Seq(Screen) /\ \A d \in Clients : since[d][c] \in Nat
  BY DEF IInv, TypeOK, Screen
<1>2. down[c] \in Seq(Screen)
  BY <1>1, Shown
<1>3. Len(up[c]) \in Nat /\ Len(sent[c]) \in Nat
  BY <1>1, LenProperties
<1>4. Len(up[c]) <= Len(sent[c])
  BY DEF IInv, Behind
<1> QED
  BY <1>1, <1>2, <1>3, <1>4 DEF TakenOf

\* Nothing more is owed while nothing is read.
LEMMA OwedSame ==
  ASSUME IInv, NEW d \in Clients,
         \A c \in Clients : /\ TakenOf(c)' = TakenOf(c) /\ since'[d][c] = since[d][c]
                            /\ \A k \in 1..TakenOf(c) : sent'[c][k] = sent[c][k]
  PROVE  Owed(d)' = Owed(d)
<1>1. ASSUME NEW c \in Clients
      PROVE  TextIn(sent'[c], since'[d][c] + 1, TakenOf(c)')
               = TextIn(sent[c], since[d][c] + 1, TakenOf(c))
  <2> DEFINE a == since[d][c]
             b == TakenOf(c)
  <2>1. a \in Nat /\ b \in Nat
    BY StreamsTyped
  <2>2. since'[d][c] = a /\ TakenOf(c)' = b /\ \A k \in 1..b : sent'[c][k] = sent[c][k]
    OBVIOUS
  <2> HIDE DEF a, b
  <2>3. \A k \in (a + 1)..b : sent'[c][k] = sent[c][k]
    BY <2>1, <2>2
  <2>4. TextIn(sent'[c], a + 1, b) = TextIn(sent[c], a + 1, b)
    BY <2>1, <2>3, SameText
  <2> QED
    BY <2>2, <2>4 DEF a, b
<1> QED
  BY <1>1 DEF Owed

LEMMA FaithfulMeans ==
  RelayFaithful <=>
    \A d \in Room \ torn : (link[d] = "on" /\ proc # "failed") =>
        InOrder(Got(d)) /\ TextOf(Got(d)) = Owed(d)
BY DEF RelayFaithful, Owed

\* Most steps move no bytes.
LEMMA NothingMoves ==
  ASSUME IInv, StreamInv,
         UNCHANGED <<up, sent, since, sends, printed, torn>>,
         Room' \subseteq Room, proc = "failed" => proc' = "failed",
         \A d \in Room' : link'[d] = "on" => link[d] = "on" /\ down'[d] = down[d],
         \A d \in Clients : (d \notin Room' /\ link'[d] \in {"off", "on"}) =>
            d \notin Room /\ link[d] \in {"off", "on"} /\ down'[d] = down[d]
  PROVE  StreamInv'
<1>1. \A c \in Clients : /\ TakenOf(c)' = TakenOf(c) /\ since'[c] = since[c]
                         /\ sent'[c] = sent[c]
  BY DEF TakenOf
<1>2. Streams'
  BY <1>1 DEF StreamInv, Streams, Rest, Numbered, Joining, Fresh
<1>3. RelayFaithful'
  <2>1. SUFFICES ASSUME NEW d \in Room' \ torn', link'[d] = "on", proc' # "failed"
                 PROVE  InOrder(Got(d)') /\ TextOf(Got(d)') = Owed(d)'
    BY DEF RelayFaithful, Owed
  <2>2. d \in Room \ torn /\ link[d] = "on" /\ proc # "failed" /\ d \in Clients
    BY <2>1 DEF IInv, TypeOK
  <2>3. Got(d)' = Got(d)
    BY <2>1 DEF Got
  <2>4. Owed(d)' = Owed(d)
    BY <1>1, <2>2, OwedSame
  <2> QED
    BY <2>2, <2>3, <2>4, FaithfulMeans DEF StreamInv
<1> QED
  BY <1>2, <1>3 DEF StreamInv

LEMMA CellsNumbered ==
  ASSUME IInv, NEW c \in Clients
  PROVE  /\ \A cell \in TextOf(sent[c]) : cell.msg \in Nat
         /\ \A k \in 1..Len(up[c]) : up[c][k].from \in Clients
         /\ \A k \in 1..Len(down[c]) : down[c][k].from \in Clients
         /\ \A k \in 1..Len(printed[c]) :
               ~NewLine(printed[c][k]) => printed[c][k].from \in Clients
<1>1. \A cell \in Cells : cell.msg \in Nat /\ cell.from \in Clients
  BY ChatAssumption DEF Cells
<1>2. /\ sent[c] \in Seq(Cells) /\ up[c] \in Seq(Cells) /\ down[c] \in Seq(Cells)
      /\ printed[c] \in Seq(Screen)
  BY StreamsTyped
<1>3. /\ \A k \in 1..Len(sent[c]) : sent[c][k] \in Cells
      /\ \A k \in 1..Len(up[c]) : up[c][k] \in Cells
      /\ \A k \in 1..Len(down[c]) : down[c][k] \in Cells
      /\ \A k \in 1..Len(printed[c]) : printed[c][k] \in Screen
  BY <1>2, ElementOfSeq
<1>4. \A cell \in Screen : NewLine(cell) \/ cell \in Cells
  BY DEF Screen, NewLine, EndOfLine
<1>5. \A cell \in TextOf(sent[c]) : cell.msg \in Nat
  BY <1>1, <1>3 DEF TextOf, TextIn
<1> QED
  BY <1>1, <1>3, <1>4, <1>5

\* A message is new, and behind all that its client sent before.
LEMMA Sending ==
  ASSUME IInv, StreamInv, NEW c \in Clients, NEW len \in BodyLens,
         Enters(c, Message(c, sends + 1, len)), sends' = sends + 1, sends < MaxSends
  PROVE  \A d \in Clients : /\ TakenOf(d)' = TakenOf(d)
                            /\ \A k \in 1..TakenOf(d) : sent'[d][k] = sent[d][k]
                            /\ Rest(d)' /\ Numbered(d)'
<1> DEFINE m == Message(c, sends + 1, len)
<1>1. /\ up' = [up EXCEPT ![c] = up[c] \o m] /\ sent' = [sent EXCEPT ![c] = sent[c] \o m]
      /\ sends' = sends + 1 /\ sends < MaxSends
  BY DEF Enters
<1>2. /\ m \in Seq(Cells) /\ InOrder(m)
      /\ \A cell \in TextOf(m) : cell.from = c /\ cell.msg = sends + 1
  <2>1. sends + 1 \in 1..MaxSends
    BY <1>1, ChatAssumption DEF IInv, TypeOK
  <2> QED
    BY <2>1, Spelled, MessageText
<1> HIDE DEF m
<1>3. /\ up[c] \in Seq(Cells) /\ sent[c] \in Seq(Cells) /\ sends \in Nat
      /\ up \in [Clients -> Seq(Cells)] /\ sent \in [Clients -> Seq(Cells)]
  BY ChatAssumption DEF IInv, TypeOK
<1>4. /\ up'[c] = up[c] \o m /\ sent'[c] = sent[c] \o m
      /\ \A d \in Clients \ {c} : up'[d] = up[d] /\ sent'[d] = sent[d]
  BY <1>1, <1>3
<1>5. /\ Len(up'[c]) = Len(up[c]) + Len(m) /\ Len(sent'[c]) = Len(sent[c]) + Len(m)
      /\ Len(m) \in Nat
      /\ \A k \in 1..Len(up[c]) : up'[c][k] = up[c][k]
      /\ \A k \in 1..Len(m) : up'[c][Len(up[c]) + k] = m[k]
      /\ \A k \in 1..Len(sent[c]) : sent'[c][k] = sent[c][k]
      /\ \A k \in 1..Len(m) : sent'[c][Len(sent[c]) + k] = m[k]
  BY <1>2, <1>3, <1>4, JoinedAt
<1>6. \A d \in Clients : /\ TakenOf(d)' = TakenOf(d)
                         /\ \A k \in 1..TakenOf(d) : sent'[d][k] = sent[d][k]
  <2>1. /\ Len(up[c]) \in Nat /\ Len(sent[c]) \in Nat /\ TakenOf(c) \in Nat
        /\ TakenOf(c) + Len(up[c]) = Len(sent[c])
    BY StreamsTyped
  <2>2. TakenOf(c)' = TakenOf(c)
    BY <1>5, <2>1 DEF TakenOf
  <2>3. \A k \in 1..TakenOf(c) : k \in 1..Len(sent[c])
    BY <2>1
  <2> QED
    BY <1>4, <1>5, <2>2, <2>3 DEF TakenOf
<1>7. Rest(c)'
  <2> DEFINE a == TakenOf(c)
             b == Len(up[c])
             l == Len(m)
  <2>1. a \in Nat /\ b \in Nat /\ l \in Nat /\ Len(sent[c]) = a + b /\ Len(up'[c]) = b + l
    BY <1>5, StreamsTyped
  <2>2. \A k \in 1..b : up[c][k] = sent[c][a + k]
    BY DEF StreamInv, Streams, Rest
  <2>3. /\ \A k \in 1..b : up'[c][k] = up[c][k]
        /\ \A k \in 1..l : up'[c][b + k] = m[k]
        /\ \A k \in 1..(a + b) : sent'[c][k] = sent[c][k]
        /\ \A k \in 1..l : sent'[c][a + b + k] = m[k]
    BY <1>5, <2>1
  <2>4. TakenOf(c)' = a
    BY <1>6
  <2> HIDE DEF a, b, l
  <2>5. ASSUME NEW k \in 1..(b + l) PROVE up'[c][k] = sent'[c][a + k]
    <3>1. CASE k \in 1..b
      <4>1. a + k \in 1..(a + b)
        BY <2>1, <3>1
      <4> QED
        BY <2>2, <2>3, <3>1, <4>1
    <3>2. CASE k \notin 1..b
      <4>1. k - b \in 1..l /\ b + (k - b) = k /\ a + b + (k - b) = a + k
        BY <2>1, <3>2
      <4> QED
        BY <2>3, <4>1
    <3> QED
      BY <3>1, <3>2
  <2> QED
    BY <2>1, <2>4, <2>5 DEF Rest
<1>8. Numbered(c)'
  <2>1. InOrder(sent[c]) /\ \A cell \in TextOf(sent[c]) : cell.from = c /\ cell.msg <= sends
    BY DEF StreamInv, Streams, Numbered
  <2>2. TextOf(sent'[c]) = TextOf(sent[c]) \cup TextOf(m)
    BY <1>2, <1>3, <1>4, TextOfJoined
  <2>3. TextOf(sent[c]) \subseteq Cells /\ \A cell \in Cells : cell.msg \in Nat
    <3>1. \A k \in 1..Len(sent[c]) : sent[c][k] \in Cells
      BY <1>3, ElementOfSeq
    <3> QED
      BY <3>1, ChatAssumption DEF TextOf, TextIn, Cells
  <2>4. Precede(TextOf(sent[c]), TextOf(m))
    BY <1>2, <1>3, <2>1, <2>3 DEF Precede, Before
  <2>5. InOrder(sent'[c])
    BY <1>2, <1>3, <1>4, <2>1, <2>4, InOrderJoined
  <2>6. \A cell \in TextOf(sent'[c]) : cell.from = c /\ cell.msg <= sends + 1
    BY <1>2, <1>3, <2>1, <2>2, <2>3
  <2> QED
    BY <1>1, <2>5, <2>6 DEF Numbered
<1>9. ASSUME NEW d \in Clients \ {c} PROVE Rest(d)' /\ Numbered(d)'
  <2>1. Rest(d) /\ Numbered(d)
    BY DEF StreamInv, Streams
  <2>2. Rest(d)'
    BY <1>4, <1>6, <2>1 DEF Rest
  <2>3. TextOf(sent[d]) \subseteq Cells /\ \A cell \in Cells : cell.msg \in Nat
    <3>1. \A k \in 1..Len(sent[d]) : sent[d][k] \in Cells
      BY <1>3, ElementOfSeq
    <3> QED
      BY <3>1, ChatAssumption DEF TextOf, TextIn, Cells
  <2>4. \A cell \in TextOf(sent[d]) : cell.msg <= sends + 1
    BY <1>3, <2>1, <2>3 DEF Numbered
  <2> QED
    BY <1>1, <1>4, <2>1, <2>2, <2>4 DEF Numbered
<1> QED
  BY <1>6, <1>7, <1>8, <1>9

\* What is sent is owed to nobody before it is read.
LEMMA StreamsSend ==
  ASSUME IInv, StreamInv, NEW c \in Clients, NEW len \in BodyLens, Send(c, len)
  PROVE  StreamInv'
<1>1. /\ Enters(c, Message(c, sends + 1, len))
      /\ sends' = sends + 1 /\ sends < MaxSends
      /\ UNCHANGED <<link, down, printed, Room, proc, since, torn>>
  BY DEF Send, ServerIdle, Enters
<1>2. \A d \in Clients : /\ TakenOf(d)' = TakenOf(d)
                         /\ \A k \in 1..TakenOf(d) : sent'[d][k] = sent[d][k]
                         /\ Rest(d)' /\ Numbered(d)'
  BY <1>1, Sending
<1>3. Streams'
  <2>1. \A d \in Clients : Joining(d)' /\ Fresh(d)'
    BY <1>1, <1>2 DEF StreamInv, Streams, Joining, Fresh
  <2> QED
    BY <1>2, <2>1 DEF Streams
<1>4. RelayFaithful'
  <2>1. SUFFICES ASSUME NEW d \in Room' \ torn', link'[d] = "on", proc' # "failed"
                 PROVE  InOrder(Got(d)') /\ TextOf(Got(d)') = Owed(d)'
    BY DEF RelayFaithful, Owed
  <2>2. d \in Room \ torn /\ link[d] = "on" /\ proc # "failed" /\ d \in Clients
    BY <1>1, <2>1 DEF IInv, TypeOK
  <2>3. Got(d)' = Got(d) /\ Owed(d)' = Owed(d)
    BY <1>1, <1>2, <2>2, OwedSame DEF Got
  <2> QED
    BY <2>2, <2>3, FaithfulMeans DEF StreamInv
<1> QED
  BY <1>3, <1>4 DEF StreamInv

\* The other clients get what they are owed even if one of them prints what stands
\* behind its buffer.
LEMMA StreamsOverruns ==
  ASSUME IInv, StreamInv, NEW c \in Clients, NEW len \in BodyLens, ReceiveOverruns(c, len)
  PROVE  StreamInv'
<1>1. /\ Enters(c, Message(c, sends + 1, len)) \/ UNCHANGED <<up, sent>>
      /\ sends' = sends + 1 /\ sends < MaxSends
      /\ torn' = torn \cup {c} /\ link[c] = "on"
      /\ UNCHANGED <<link, Room, proc, since>>
  BY DEF ReceiveOverruns, Enters
<1>2. TypeOK /\ down[c] # <<>>
  BY OverrunIs DEF IInv
<1>3. \A d \in Clients \ {c} : printed'[d] = printed[d] /\ down'[d] = down[d]
  BY <1>2, OverrunIs, PrintingTyped
<1>4. \A d \in Clients : /\ TakenOf(d)' = TakenOf(d)
                         /\ \A k \in 1..TakenOf(d) : sent'[d][k] = sent[d][k]
                         /\ Rest(d)' /\ Numbered(d)'
  <2>1. CASE UNCHANGED <<up, sent>>
    <3>1. \A d \in Clients : TakenOf(d)' = TakenOf(d) /\ sent'[d] = sent[d] /\ up'[d] = up[d]
      BY <2>1 DEF TakenOf
    <3>2. ASSUME NEW d \in Clients PROVE Rest(d)' /\ Numbered(d)'
      <4>1. Rest(d) /\ Numbered(d)
        BY DEF StreamInv, Streams
      <4>2. \A cell \in TextOf(sent[d]) : cell.msg \in Nat /\ cell.msg <= sends
        BY <4>1, CellsNumbered DEF Numbered
      <4>3. \A cell \in TextOf(sent[d]) : cell.msg <= sends + 1
        <5>1. sends \in Nat
          BY <1>2, ChatAssumption DEF TypeOK
        <5> QED
          BY <4>2, <5>1
      <4> QED
        BY <1>1, <3>1, <4>1, <4>3 DEF Rest, Numbered
    <3> QED
      BY <3>1, <3>2
  <2> QED
    BY <1>1, <2>1, Sending
<1>5. c \in Room
  BY <1>1, <1>2 DEF StreamInv, Streams, Fresh
<1>6. Streams'
  <2>1. \A d \in Clients : Joining(d)'
    BY <1>1, <1>4 DEF StreamInv, Streams, Joining
  <2>2. \A d \in Clients : Fresh(d)'
    BY <1>1, <1>3, <1>5 DEF StreamInv, Streams, Fresh
  <2> QED
    BY <1>4, <2>1, <2>2 DEF Streams
<1>7. RelayFaithful'
  <2>1. SUFFICES ASSUME NEW d \in Room' \ torn', link'[d] = "on", proc' # "failed"
                 PROVE  InOrder(Got(d)') /\ TextOf(Got(d)') = Owed(d)'
    BY DEF RelayFaithful, Owed
  <2>2. d \in Room \ torn /\ link[d] = "on" /\ proc # "failed" /\ d \in Clients \ {c}
    BY <1>1, <1>2, <2>1 DEF TypeOK
  <2>3. Got(d)' = Got(d)
    BY <1>3, <2>2 DEF Got
  <2>4. Owed(d)' = Owed(d)
    BY <1>1, <1>4, <2>2, OwedSame
  <2> QED
    BY <2>2, <2>3, <2>4, FaithfulMeans DEF StreamInv
<1> QED
  BY <1>6, <1>7 DEF StreamInv

\* Printing moves bytes from the way to a client to its screen.
LEMMA StreamsReceive ==
  ASSUME IInv, StreamInv, NEW c \in Clients, Receive(c)
  PROVE  StreamInv'
<1>0. PICK n \in 1..Len(down[c]) :
        /\ printed' = [printed EXCEPT ![c] = printed[c] \o Split(SubSeq(down[c], 1, n))]
        /\ down' = [down EXCEPT ![c] = SubSeq(down[c], n + 1, Len(down[c]))]
  BY ReceiveIs DEF IInv
<1>1. /\ link[c] = "on" /\ down[c] # <<>>
      /\ printed' = [printed EXCEPT ![c] = printed[c] \o Split(SubSeq(down[c], 1, n))]
      /\ down' = [down EXCEPT ![c] = SubSeq(down[c], n + 1, Len(down[c]))]
      /\ UNCHANGED <<link, up, sends, sent, Room, proc, since, torn>>
  BY <1>0 DEF Receive, ServerIdle
<1>2. n \in 0..Len(down[c]) /\ down[c] \in Seq(Cells) /\ printed[c] \in Seq(Screen)
  <2>1. down[c] \in Seq(Cells) /\ printed[c] \in Seq(Screen) /\ Len(down[c]) \in Nat
    BY StreamsTyped, LenProperties
  <2> QED
    BY <2>1
<1>3. /\ \A d \in Clients \ {c} : printed'[d] = printed[d] /\ down'[d] = down[d]
      /\ printed'[c] = printed[c] \o Split(SubSeq(down[c], 1, n))
      /\ down'[c] = SubSeq(down[c], n + 1, Len(down[c]))
  BY <1>1 DEF IInv, TypeOK
<1>4. \A d \in Clients : TakenOf(d)' = TakenOf(d)
  BY <1>1 DEF TakenOf
<1>5. c \in Room
  BY <1>1 DEF StreamInv, Streams, Fresh
<1>6. Streams'
  BY <1>1, <1>3, <1>4, <1>5 DEF StreamInv, Streams, Rest, Numbered, Joining, Fresh
<1>7. RelayFaithful'
  <2>1. SUFFICES ASSUME NEW d \in Room' \ torn', link'[d] = "on", proc' # "failed"
                 PROVE  InOrder(Got(d)') /\ TextOf(Got(d)') = Owed(d)'
    BY DEF RelayFaithful, Owed
  <2>2. d \in Room \ torn /\ link[d] = "on" /\ proc # "failed" /\ d \in Clients
    BY <1>1, <2>1 DEF IInv, TypeOK
  <2>3. Owed(d)' = Owed(d)
    BY <1>1, <1>4, <2>2, OwedSame
  <2>4. InOrder(Got(d)) /\ TextOf(Got(d)) = Owed(d)
    BY <2>2, FaithfulMeans DEF StreamInv
  <2>5. CASE d = c
    <3>1. /\ Got(c)' = (printed[c] \o Split(SubSeq(down[c], 1, n)))
                          \o SubSeq(down[c], n + 1, Len(down[c]))
          /\ Got(c) = printed[c] \o down[c]
      BY <1>3 DEF Got
    <3>2. TextOf(Got(c)') = TextOf(Got(c)) /\ (InOrder(Got(c)) => InOrder(Got(c)'))
      BY <1>2, <3>1, PrintingKeeps
    <3> QED
      BY <2>3, <2>4, <2>5, <3>2
  <2>6. CASE d # c
    <3>1. Got(d)' = Got(d)
      BY <1>3, <2>2, <2>6 DEF Got
    <3> QED
      BY <2>3, <2>4, <3>1
  <2> QED
    BY <2>5, <2>6
<1> QED
  BY <1>6, <1>7 DEF StreamInv

\* One read of c, and the writes of what was read to the clients in S.
RelayIs(c, n, chunk, S) ==
    /\ chunk = SubSeq(up[c], 1, n)
    /\ up' = [up EXCEPT ![c] = SubSeq(up[c], n + 1, Len(up[c]))]
    /\ S \subseteq Room \ {c}
    /\ proc' # "failed" => S = Room \ {c}
    /\ WriteTo(S, chunk)
    /\ UNCHANGED <<backlog, Room, printed, is_stop, sends, sent, since>>

LEMMA RelayStep ==
  ASSUME IInv, NEW c \in Clients, Relay(c)
  PROVE  /\ c \in Room /\ proc = "running"
         /\ \E n \in 1..Len(up[c]), S \in SUBSET Room : RelayIs(c, n, SubSeq(up[c], 1, n), S)
<1> DEFINE n == IF Len(up[c]) < ReadSize THEN Len(up[c]) ELSE ReadSize
           chunk == SubSeq(up[c], 1, n)
<1>1. /\ Handling(c) /\ up[c] # <<>>
      /\ RelayTo(Room \ {c}, chunk)
      /\ up' = [up EXCEPT ![c] = SubSeq(up[c], n + 1, Len(up[c]))]
      /\ UNCHANGED <<backlog, Room, printed, is_stop, sends, sent, since>>
  BY DEF Relay, ReadUpTo
<1>2. c \in Room /\ proc = "running"
  BY <1>1, ChatAssumption DEF Handling, TypeOK, IInv
<1>3. n \in 1..Len(up[c])
  <2>1. up[c] \in Seq(Cells) /\ Len(up[c]) \in Nat
    BY StreamsTyped
  <2>2. Len(up[c]) \in Nat \ {0}
    BY <1>1, <2>1, EmptySeq
  <2> QED
    BY <2>2, ChatAssumption
<1> HIDE DEF n
<1>4. \E S \in SUBSET (Room \ {c}) : /\ WriteTo(S, chunk)
                                     /\ proc' # "failed" => S = Room \ {c}
  <2> HIDE DEF chunk
  <2>1. CASE \A d \in Room \ {c} : Writable(d)
    BY <1>1, <2>1 DEF RelayTo
  <2>2. CASE ~ \A d \in Room \ {c} : Writable(d)
    BY <1>1, <2>2 DEF RelayTo
  <2> QED
    BY <2>1, <2>2
<1>5. PICK S \in SUBSET (Room \ {c}) : /\ WriteTo(S, chunk)
                                       /\ proc' # "failed" => S = Room \ {c}
  BY <1>4
<1>6. RelayIs(c, n, chunk, S) /\ S \in SUBSET Room
  BY <1>1, <1>5 DEF RelayIs
<1> QED
  BY <1>2, <1>3, <1>6

\* What the server reads of a client goes to all the others, behind what they
\* were given before.
LEMMA StreamsRelay ==
  ASSUME IInv, StreamInv, NEW c \in Clients, Relay(c)
  PROVE  StreamInv'
<1>1. c \in Room /\ proc = "running"
  BY RelayStep
<1>2. PICK n \in 1..Len(up[c]), others \in SUBSET Room : RelayIs(c, n, SubSeq(up[c], 1, n), others)
  BY RelayStep
<1> DEFINE chunk == SubSeq(up[c], 1, n)
           a == TakenOf(c)
<1>3. /\ up[c] \in Seq(Cells) /\ sent[c] \in Seq(Cells) /\ a \in Nat
      /\ Len(up[c]) \in Nat /\ a + Len(up[c]) = Len(sent[c])
      /\ up \in [Clients -> Seq(Cells)]
  BY StreamsTyped DEF IInv, TypeOK
<1>4. /\ chunk \in Seq(Cells) /\ Len(chunk) = n
      /\ \A k \in 1..n : chunk[k] = up[c][k]
      /\ Len(SubSeq(up[c], n + 1, Len(up[c]))) = Len(up[c]) - n
      /\ \A k \in 1..(Len(up[c]) - n) : SubSeq(up[c], n + 1, Len(up[c]))[k] = up[c][n + k]
  <2> DEFINE u == up[c]
  <2>1. u \in Seq(Cells) /\ n \in 0..Len(u)
    BY <1>3
  <2>2. chunk = SubSeq(u, 1, n)
    OBVIOUS
  <2> HIDE DEF chunk, u
  <2>3. chunk \in Seq(Cells) /\ Len(chunk) = n /\ \A k \in 1..n : chunk[k] = u[k]
    BY <2>1, <2>2, Rejoined
  <2>4. /\ Len(SubSeq(u, n + 1, Len(u))) = Len(u) - n
        /\ \A k \in 1..(Len(u) - n) : SubSeq(u, n + 1, Len(u))[k] = u[n + k]
    BY <2>1, Rejoined
  <2> QED
    BY <2>3, <2>4 DEF u
<1> HIDE DEF chunk, a
<1>5. /\ up' = [up EXCEPT ![c] = SubSeq(up[c], n + 1, Len(up[c]))]
      /\ others \subseteq Room \ {c} /\ (proc' # "failed" => others = Room \ {c})
      /\ WriteTo(others, chunk)
      /\ UNCHANGED <<Room, printed, sends, sent, since>>
  BY <1>2 DEF RelayIs, chunk
<1>6. /\ Len(up'[c]) = Len(up[c]) - n
      /\ \A k \in 1..(Len(up[c]) - n) : up'[c][k] = up[c][n + k]
      /\ \A d \in Clients \ {c} : up'[d] = up[d] /\ TakenOf(d)' = TakenOf(d)
  BY <1>3, <1>4, <1>5 DEF TakenOf
<1>7. TakenOf(c)' = a + n
  <2> DEFINE l == Len(up[c])
             left == Len(up'[c])
             all == Len(sent[c])
             taken == TakenOf(c)'
  <2>1. taken = all - left
    BY <1>5 DEF TakenOf
  <2>2. l \in Nat /\ left = l - n /\ all = a + l /\ a \in Nat /\ n \in Nat
    BY <1>3, <1>6
  <2> HIDE DEF l, left, all, taken
  <2>3. taken = a + n
    BY <2>1, <2>2
  <2> QED
    BY <2>3 DEF taken
<1>8. \A k \in 1..Len(up[c]) : up[c][k] = sent[c][a + k]
  BY DEF StreamInv, Streams, Rest, a
<1>9. /\ n \in Nat /\ a + n <= Len(sent[c])
      /\ \A k \in 1..n : chunk[k] = sent[c][a + k]
  <2> DEFINE u == up[c]
             t == sent[c]
             l == Len(up[c])
             all == Len(sent[c])
  <2>1. /\ l \in Nat /\ all = a + l /\ a \in Nat /\ n \in 1..l
        /\ \A k \in 1..n : chunk[k] = u[k]
        /\ \A k \in 1..l : u[k] = t[a + k]
    BY <1>3, <1>4, <1>8
  <2> HIDE DEF u, t, l, all
  <2>2. n \in Nat /\ a + n <= all /\ \A k \in 1..n : k \in 1..l
    BY <2>1
  <2>3. \A k \in 1..n : chunk[k] = t[a + k]
    BY <2>1, <2>2
  <2> QED
    BY <2>2, <2>3 DEF t, all
<1>10. /\ \A m \in 0..a : /\ TextIn(sent[c], m + 1, a + n)
                                = TextIn(sent[c], m + 1, a) \cup TextOf(chunk)
                          /\ Precede(TextIn(sent[c], m + 1, a), TextOf(chunk))
       /\ InOrder(chunk) /\ TextOf(chunk) \subseteq TextOf(sent[c])
  <2>1. InOrder(sent[c])
    BY DEF StreamInv, Streams, Numbered
  <2> DEFINE t == sent[c]
             size == Len(chunk)
  <2>2. /\ t \in Seq(Cells) /\ chunk \in Seq(Cells) /\ InOrder(t) /\ a \in Nat
        /\ a + size <= Len(t) /\ \A k \in 1..size : chunk[k] = t[a + k]
    BY <1>3, <1>4, <1>9, <2>1
  <2>3. size = n
    BY <1>4
  <2> HIDE DEF t
  <2>4. /\ InOrder(chunk) /\ TextOf(chunk) \subseteq TextOf(t)
        /\ \A m \in 0..a : /\ TextIn(t, m + 1, a + size)
                                = TextIn(t, m + 1, a) \cup TextOf(chunk)
                            /\ Precede(TextIn(t, m + 1, a), TextOf(chunk))
    BY <2>2, Passage
  <2> HIDE DEF size
  <2> QED
    BY <2>3, <2>4 DEF t
<1>11. \A d \in Clients : since[d][c] \in 0..a
  BY <1>3, StreamsTyped DEF StreamInv, Streams, Joining, a
<1>12. /\ \A d \in Clients : link'[d] = link[d] \/ (d \in Room /\ link'[d] = "finRst")
       /\ \A d \in Clients : d \notin others => down'[d] = down[d]
       /\ torn \subseteq torn'
       /\ \A d \in others : link[d] = "on" /\ d \notin torn' => down'[d] = down[d] \o chunk
  <2> DEFINE live == {d \in others : link[d] = "on"}
             gone == others \ live
             short == {d \in live : Fitting(d, chunk) # chunk}
  <2>1. /\ down' = [d \in Clients |-> IF d \in live THEN down[d] \o Fitting(d, chunk)
                                     ELSE down[d]]
        /\ link' = [d \in Clients |-> IF d \in gone THEN "finRst" ELSE link[d]]
        /\ torn' = torn \cup short
    BY <1>5 DEF WriteTo
  <2>2. others \subseteq Clients
    BY DEF IInv, TypeOK
  <2> QED
    BY <2>1, <2>2
<1>13. Streams'
  <2>1. Rest(c)'
    <3>1. \A k \in 1..(Len(up[c]) - n) : n + k \in 1..Len(up[c]) /\ a + (n + k) = (a + n) + k
      BY <1>3
    <3>2. \A k \in 1..(Len(up[c]) - n) : up'[c][k] = sent[c][(a + n) + k]
      BY <1>6, <1>8, <3>1
    <3> QED
      BY <1>5, <1>6, <1>7, <3>2 DEF Rest
  <2>2. \A d \in Clients \ {c} : Rest(d)'
    BY <1>5, <1>6 DEF StreamInv, Streams, Rest
  <2>3. \A d \in Clients : Numbered(d)'
    BY <1>5 DEF StreamInv, Streams, Numbered
  <2>4. Joining(c)'
    <3>1. \A d \in Clients : since[d][c] <= a + n
      BY <1>3, <1>11
    <3> QED
      BY <1>5, <1>7, <3>1 DEF Joining
  <2>5. \A d \in Clients \ {c} : Joining(d)'
    BY <1>5, <1>6 DEF StreamInv, Streams, Joining
  <2>6. \A d \in Clients : Fresh(d)'
    BY <1>5, <1>12 DEF StreamInv, Streams, Fresh
  <2> QED
    BY <2>1, <2>2, <2>3, <2>4, <2>5, <2>6 DEF Streams
<1>14. RelayFaithful'
  <2>1. SUFFICES ASSUME NEW d \in Room' \ torn', link'[d] = "on", proc' # "failed"
                 PROVE  InOrder(Got(d)') /\ TextOf(Got(d)') = Owed(d)'
    BY DEF RelayFaithful, Owed
  <2>2. d \in Room \ torn /\ link[d] = "on" /\ proc # "failed" /\ d \in Clients
        /\ printed'[d] = printed[d] /\ since' = since /\ sent' = sent
    BY <1>1, <1>5, <1>12, <2>1 DEF IInv, TypeOK
  <2>3. InOrder(Got(d)) /\ TextOf(Got(d)) = Owed(d)
    BY <2>2, FaithfulMeans DEF StreamInv
  <2>4. CASE d = c
    <3>1. Got(d)' = Got(d)
      BY <1>5, <1>12, <2>2, <2>4 DEF Got
    <3>2. Owed(d)' = Owed(d)
      BY <1>6, <2>2, <2>4 DEF Owed
    <3> QED
      BY <2>3, <3>1, <3>2
  <2>5. CASE d # c
    <3>1. down'[d] = down[d] \o chunk
      BY <1>5, <1>12, <2>1, <2>2, <2>5
    <3>2. printed[d] \in Seq(Screen) /\ down[d] \in Seq(Screen) /\ chunk \in Seq(Screen)
      BY <1>4, <2>2, StreamsTyped, Shown
    <3>3. Got(d)' = Got(d) \o chunk /\ Got(d) \in Seq(Screen)
      <4>1. Got(d)' = printed[d] \o (down[d] \o chunk) /\ Got(d) = printed[d] \o down[d]
        BY <2>2, <3>1 DEF Got
      <4>2. printed[d] \o (down[d] \o chunk) = (printed[d] \o down[d]) \o chunk
        <5> DEFINE p == printed[d]
                   q == down[d]
        <5>1. p \in Seq(Screen) /\ q \in Seq(Screen) /\ chunk \in Seq(Screen)
          BY <3>2
        <5> HIDE DEF p, q
        <5>2. (p \o q) \o chunk = p \o (q \o chunk)
          BY <5>1, ConcatAssociative
        <5> QED
          BY <5>2 DEF p, q
      <4>3. printed[d] \o down[d] \in Seq(Screen)
        BY <3>2, ConcatProperties
      <4> QED
        BY <4>1, <4>2, <4>3
    <3>4. Owed(d)' = Owed(d) \cup TextOf(chunk)
      <4> DEFINE T(e) == TextIn(sent[e], since[d][e] + 1, TakenOf(e))
                 Q(e) == TextIn(sent[e], since[d][e] + 1, TakenOf(e)')
      <4>1. Owed(d) = UNION {T(e) : e \in Clients \ {d}}
        BY DEF Owed
      <4>2. Owed(d)' = UNION {Q(e) : e \in Clients \ {d}}
        BY <2>2 DEF Owed
      <4>3. \A e \in Clients \ {c} : Q(e) = T(e)
        BY <1>6
      <4>4. Q(c) = T(c) \cup TextOf(chunk)
        BY <1>7, <1>10, <1>11, <2>2 DEF a
      <4> HIDE DEF T, Q
      <4> QED
        BY <2>5, <4>1, <4>2, <4>3, <4>4
    <3>5. Precede(TextOf(Got(d)), TextOf(chunk))
      <4>1. SUFFICES ASSUME NEW x \in Owed(d), NEW y \in TextOf(chunk), x.from = y.from
                     PROVE  Before(x, y)
        BY <2>3 DEF Precede
      <4>2. PICK e \in Clients \ {d} : x \in TextIn(sent[e], since[d][e] + 1, TakenOf(e))
        BY <4>1 DEF Owed
      <4>3. y.from = c
        BY <1>10, <4>1 DEF StreamInv, Streams, Numbered
      <4>4. x.from = e
        <5>1. since[d][e] \in Nat /\ TakenOf(e) \in Nat /\ TakenOf(e) <= Len(sent[e])
              /\ Len(sent[e]) \in Nat
          <6>1. /\ Len(up[e]) \in Nat /\ TakenOf(e) + Len(up[e]) = Len(sent[e])
                /\ TakenOf(e) \in Nat /\ Len(sent[e]) \in Nat /\ since[d][e] \in Nat
            BY <2>2, StreamsTyped
          <6> QED
            BY <6>1
        <5>2. \A k \in (since[d][e] + 1)..TakenOf(e) : k \in 1..Len(sent[e])
          BY <5>1
        <5>3. x \in TextOf(sent[e])
          BY <4>2, <5>2 DEF TextOf, TextIn
        <5> QED
          BY <5>3 DEF StreamInv, Streams, Numbered
      <4>5. x \in TextIn(sent[c], since[d][c] + 1, a)
        BY <4>1, <4>2, <4>3, <4>4 DEF a
      <4> QED
        BY <1>10, <1>11, <2>2, <4>1, <4>5 DEF Precede
    <3>6. TextOf(Got(d)') = TextOf(Got(d)) \cup TextOf(chunk)
      BY <3>2, <3>3, TextOfJoined
    <3>7. InOrder(Got(d)')
      BY <1>10, <2>3, <3>2, <3>3, <3>5, InOrderJoined
    <3> QED
      BY <2>3, <3>4, <3>6, <3>7
  <2> QED
    BY <2>4, <2>5
<1> QED
  BY <1>13, <1>14 DEF StreamInv

\* A client that is accepted has got nothing, and is owed nothing so far.
LEMMA StreamsAccept ==
  ASSUME IInv, StreamInv, Accept
  PROVE  StreamInv'
<1> DEFINE c == Head(backlog)
<1>1. /\ Room' = Room \cup {c}
      /\ since' = [since EXCEPT ![c] = [d \in Clients |-> TakenOf(d)]]
      /\ UNCHANGED <<link, up, down, printed, proc, sends, sent, torn>>
  BY DEF Accept
<1>2. c \in Clients /\ c \notin Room
  <2>1. backlog # <<>> /\ backlog \in Seq(Clients) /\ IsInjective(backlog)
        /\ Room \subseteq Clients \ Range(backlog)
    BY DEF IInv, Waiting, Accept, Handling, TypeOK
  <2>2. c \in Clients /\ c \in Range(backlog)
    BY <2>1, LeaveQueue
  <2> QED
    BY <2>1, <2>2
<1> HIDE DEF c
<1>3. /\ since' \in [Clients -> [Clients -> Nat]] /\ \A d \in Clients : since'[c][d] = TakenOf(d)
      /\ \A e \in Clients \ {c} : since'[e] = since[e]
  <2>1. since \in [Clients -> [Clients -> Nat]] /\ \A d \in Clients : TakenOf(d) \in Nat
    BY StreamsTyped DEF IInv, TypeOK
  <2> QED
    BY <1>1, <1>2, <2>1
<1>4. /\ \A d \in Clients : TakenOf(d)' = TakenOf(d) /\ sent'[d] = sent[d]
      /\ \A d \in Clients : TakenOf(d) \in Nat
  BY <1>1, StreamsTyped DEF TakenOf
<1>5. Streams'
  <2>1. \A d \in Clients : Rest(d)' /\ Numbered(d)' /\ Fresh(d)'
    BY <1>1, <1>4 DEF StreamInv, Streams, Rest, Numbered, Fresh
  <2>2. ASSUME NEW d \in Clients, NEW e \in Clients PROVE since'[e][d] <= TakenOf(d)'
    <3>1. CASE e = c
      BY <1>3, <1>4, <3>1
    <3>2. CASE e # c
      BY <1>3, <1>4, <3>2 DEF StreamInv, Streams, Joining
    <3> QED
      BY <3>1, <3>2
  <2> QED
    BY <2>1, <2>2 DEF Streams, Joining
<1>6. RelayFaithful'
  <2>1. SUFFICES ASSUME NEW d \in Room' \ torn', link'[d] = "on", proc' # "failed"
                 PROVE  InOrder(Got(d)') /\ TextOf(Got(d)') = Owed(d)'
    BY DEF RelayFaithful, Owed
  <2>2. d \in Clients /\ d \notin torn /\ link[d] = "on" /\ proc # "failed"
    BY <1>1, <1>2, <2>1 DEF IInv, TypeOK
  <2>3. CASE d = c
    <3>1. printed'[d] = <<>> /\ down'[d] = <<>>
      BY <1>1, <1>2, <2>2, <2>3 DEF StreamInv, Streams, Fresh
    <3>2. Got(d)' = <<>>
      <4>1. <<>> \o <<>> = <<>>
        BY EmptySeq
      <4> QED
        BY <3>1, <4>1 DEF Got
    <3>3. Len(<<>>) = 0 /\ DOMAIN <<>> = {}
      BY EmptySeq
    <3>4. InOrder(<<>>) /\ TextOf(<<>>) = {}
      <4>1. InOrder(<<>>)
        BY <3>3 DEF InOrder
      <4>2. \A m \in 1..0 : FALSE
        OBVIOUS
      <4> QED
        BY <3>3, <4>1, <4>2 DEF TextOf, TextIn
    <3>5. ASSUME NEW e \in Clients
          PROVE  TextIn(sent'[e], since'[c][e] + 1, TakenOf(e)') = {}
      <4> DEFINE t == TakenOf(e)
      <4>1. since'[c][e] = t /\ TakenOf(e)' = t /\ t \in Nat
        BY <1>3, <1>4
      <4> HIDE DEF t
      <4>2. \A m \in (t + 1)..t : FALSE
        BY <4>1
      <4> QED
        BY <4>1, <4>2 DEF TextIn
    <3>6. Owed(d)' = {}
      BY <2>3, <3>5 DEF Owed
    <3> QED
      BY <3>2, <3>4, <3>6
  <2>4. CASE d # c
    <3>1. d \in Room \ torn /\ Got(d)' = Got(d)
      BY <1>1, <2>1, <2>4 DEF Got
    <3>2. Owed(d)' = Owed(d)
      BY <1>3, <1>4, <2>2, <2>4, OwedSame
    <3> QED
      BY <2>2, <3>1, <3>2, FaithfulMeans DEF StreamInv
  <2> QED
    BY <2>3, <2>4
<1> QED
  BY <1>5, <1>6 DEF StreamInv

\* A server that failed owes nothing.
LEMMA StreamsAcceptFails ==
  ASSUME IInv, StreamInv, AcceptFails
  PROVE  StreamInv'
<1>1. /\ Room \subseteq Room' /\ proc' = "failed"
      /\ UNCHANGED <<link, up, down, printed, sends, sent, since, torn>>
  BY DEF AcceptFails, history
<1>2. \A d \in Clients : TakenOf(d)' = TakenOf(d)
  BY <1>1 DEF TakenOf
<1>3. Streams'
  BY <1>1, <1>2 DEF StreamInv, Streams, Rest, Numbered, Joining, Fresh
<1>4. RelayFaithful'
  BY <1>1 DEF RelayFaithful
<1> QED
  BY <1>3, <1>4 DEF StreamInv

\* The other steps move no bytes.
LEMMA StreamsRest ==
  ASSUME IInv, StreamInv,
         \/ \E c \in Clients : Connect(c) \/ Leave(c) \/ ReadAgain(c) \/ ReadEof(c) \/ ReadFails(c)
         \/ LoopTest \/ EpollWait \/ EpollTimeout \/ EpollWaitFails \/ Stop
         \/ UNCHANGED vars
  PROVE  StreamInv'
<1>0. TypeOK /\ Room \subseteq Clients
  BY DEF IInv, TypeOK
<1>1. ASSUME NEW c \in Clients, Connect(c) PROVE StreamInv'
  <2>1. /\ link[c] = "off" /\ link' = [link EXCEPT ![c] = "on"] /\ c \notin Room
        /\ UNCHANGED <<up, sent, since, sends, printed, torn, down, Room, proc>>
    BY <1>1 DEF Connect, ServerIdle, IInv, Placed
  <2>2. \A d \in Clients \ {c} : link'[d] = link[d]
    BY <1>0, <2>1 DEF TypeOK
  <2> QED
    BY <1>0, <2>1, <2>2, NothingMoves
<1>2. ASSUME NEW c \in Clients, Leave(c) PROVE StreamInv'
  <2>1. /\ link' = [link EXCEPT ![c] = IF down[c] = <<>> THEN "fin" ELSE "rst"]
        /\ down' = [down EXCEPT ![c] = <<>>]
        /\ UNCHANGED <<up, sent, since, sends, printed, torn, Room, proc>>
    BY <1>2 DEF Leave, ServerIdle
  <2>2. /\ \A d \in Clients \ {c} : link'[d] = link[d] /\ down'[d] = down[d]
        /\ link'[c] \notin {"off", "on"}
    BY <1>0, <2>1 DEF TypeOK
  <2> QED
    BY <1>0, <2>1, <2>2, NothingMoves
<1>3. ASSUME NEW c \in Clients, ReadAgain(c) \/ ReadEof(c) \/ ReadFails(c) PROVE StreamInv'
  <2>1. /\ UNCHANGED <<link, up, down, printed, sends, sent, since, torn>>
        /\ \E left \in SUBSET {c} : /\ Room' = Room \ left
                                    /\ left # {} => link[c] # "on" /\ link[c] # "off"
        /\ proc' \in {proc, "failed"}
    BY <1>0, <1>3, Forgetting DEF history
  <2>2. PICK left \in SUBSET {c} : /\ Room' = Room \ left
                                   /\ left # {} => link[c] # "on" /\ link[c] # "off"
    BY <2>1
  <2>3. \A d \in left : link[d] \notin {"off", "on"}
    BY <2>2
  <2> QED
    BY <1>0, <2>1, <2>2, <2>3, NothingMoves
<1>4. CASE \/ LoopTest \/ EpollWait \/ EpollTimeout \/ EpollWaitFails \/ Stop
           \/ UNCHANGED vars
  <2>1. /\ UNCHANGED <<link, up, down, printed, sends, sent, since, torn, Room>>
        /\ proc = "failed" => proc' = "failed"
    BY <1>4 DEF LoopTest, EpollWait, EpollTimeout, EpollWaitFails, ServerUnmoved, Stop, vars,
       wire, history
  <2> QED
    BY <1>0, <2>1, NothingMoves
<1> QED
  BY <1>1, <1>2, <1>3, <1>4

\* In every state, what a client got is what the others sent to it.
LEMMA StreamsHold == Spec => []StreamInv
<1>1. ASSUME Init PROVE StreamInv
  <2>1. Len(<<>>) = 0 /\ DOMAIN <<>> = {} /\ \A m \in 1..0 : FALSE
    BY EmptySeq
  <2>2. InOrder(<<>>) /\ TextOf(<<>>) = {}
    BY <2>1 DEF InOrder, TextOf, TextIn
  <2>3. \A c \in Clients : /\ sent[c] = <<>> /\ up[c] = <<>> /\ printed[c] = <<>> /\ down[c] = <<>>
                           /\ TakenOf(c) = 0
                           /\ \A d \in Clients : since[d][c] = 0
    BY <1>1, <2>1 DEF Init, TakenOf
  <2>4. Streams
    BY <2>1, <2>2, <2>3 DEF Streams, Rest, Numbered, Joining, Fresh
  <2>5. RelayFaithful
    BY <1>1 DEF Init, RelayFaithful
  <2> QED
    BY <2>4, <2>5 DEF StreamInv
<1>2. IInv /\ StreamInv /\ [Next]_vars => StreamInv'
  BY StreamsSend, StreamsReceive, StreamsOverruns, StreamsRelay, StreamsAccept,
     StreamsAcceptFails, StreamsRest
     DEF Next, Handle, Terminated
<1> QED
  BY <1>1, <1>2, ChatInvariant, PTL DEF Spec

\* Every client in the room gets from the others what the server has read of
\* them since it was accepted, in order and once, and nothing of its own, for
\* any number of clients and any sizes of the reads and of the buffers
\* (tcp_server.cc:168-215).
THEOREM RelaysFaithfully == Spec => []RelayFaithful
<1>1. StreamInv => RelayFaithful
  BY DEF StreamInv
<1> QED
  BY <1>1, StreamsHold, PTL
-----------------------------------------------------------------------------
(* Whole messages *)

\* The places i to j of s hold a message, with nothing else on its line.
Stands(all, s, i, j) == /\ i <= j /\ j < Len(s) /\ IsMessage(all, s, i, j)
                        /\ i = 1 \/ NewLine(s[i - 1])
                        /\ NewLine(s[j + 1])

\* All the text of s is in messages that stand alone.
Whole(all, s) == \A k \in 1..Len(s) : ~NewLine(s[k]) =>
                    \E i \in 1..k, j \in k..Len(s) : Stands(all, s, i, j)

\* No message is in two parts anywhere as long as nothing cut one.
Uncut == whole => \A c \in Clients : /\ Whole(sent, up[c]) /\ Whole(sent, down[c])
                                     /\ Whole(sent, printed[c])

\* A message is found where it was moved to.
LEMMA MessageMoved ==
  ASSUME NEW all, NEW s, NEW t, NEW o \in Int, NEW i \in Int, NEW j \in Int, i <= j,
         \A k \in i..j : t[o + k] = s[k], IsMessage(all, s, i, j)
  PROVE  IsMessage(all, t, o + i, o + j)
<1>1. /\ \A k \in (o + i)..(o + j) : k - o \in i..j /\ o + (k - o) = k
      /\ \A k \in i..j : o + k \in (o + i)..(o + j)
      /\ i \in i..j
  OBVIOUS
<1>2. /\ \A k \in i..j : s[k].part = k - i + 1
      /\ {s[k] : k \in i..j} = {cell \in TextOf(all[s[i].from]) : cell.msg = s[i].msg}
  BY DEF IsMessage
<1>3. ASSUME NEW k \in (o + i)..(o + j) PROVE t[k].part = k - (o + i) + 1
  <2>1. t[k] = s[k - o] /\ s[k - o].part = (k - o) - i + 1
    BY <1>1, <1>2
  <2> QED
    BY <2>1
<1>4. t[o + i] = s[i]
  BY <1>1
<1>5. {t[k] : k \in (o + i)..(o + j)} = {s[k] : k \in i..j}
  BY <1>1
<1> QED
  BY <1>2, <1>3, <1>4, <1>5 DEF IsMessage

LEMMA MessageIsText ==
  ASSUME NEW all, NEW s, NEW i \in Int, NEW j \in Int, IsMessage(all, s, i, j)
  PROVE  \A k \in i..j : ~NewLine(s[k])
BY DEF IsMessage, NewLine

\* Streams of whole messages end at a line's end, and may be joined.
LEMMA WholeJoined ==
  ASSUME NEW all, NEW S, NEW s \in Seq(S), NEW t \in Seq(S), Whole(all, s), Whole(all, t)
  PROVE  Whole(all, s \o t)
<1> DEFINE a == Len(s)
           b == Len(t)
           u == s \o t
<1>1. /\ a \in Nat /\ b \in Nat /\ Len(u) = a + b
      /\ \A k \in 1..a : u[k] = s[k]
      /\ \A k \in 1..b : u[a + k] = t[k]
  BY JoinedAt
<1>2. /\ \A k \in 1..a : ~NewLine(s[k]) => \E i \in 1..k, j \in k..a : Stands(all, s, i, j)
      /\ \A k \in 1..b : ~NewLine(t[k]) => \E i \in 1..k, j \in k..b : Stands(all, t, i, j)
  BY DEF Whole
<1>3. ASSUME NEW i, NEW j, Stands(all, s, i, j) PROVE j < a
  BY <1>3 DEF Stands
<1>4. ASSUME NEW i, NEW j, Stands(all, t, i, j) PROVE j < b
  BY <1>4 DEF Stands
<1> HIDE DEF a, b, u
<1>5. a = 0 \/ NewLine(u[a])
  <2>1. SUFFICES ASSUME a \in 1..a, ~NewLine(s[a]) PROVE FALSE
    BY <1>1
  <2>2. PICK i \in 1..a, j \in a..a : Stands(all, s, i, j)
    BY <1>2, <2>1
  <2> QED
    BY <1>1, <1>3, <2>2
<1>6. ASSUME NEW k \in 1..a, ~NewLine(u[k])
      PROVE  \E i \in 1..k, j \in k..(a + b) : Stands(all, u, i, j)
  <2>1. PICK i \in 1..k, j \in k..a : Stands(all, s, i, j)
    BY <1>1, <1>2, <1>6
  <2>2. /\ i <= j /\ j < a /\ IsMessage(all, s, i, j) /\ (i = 1 \/ NewLine(s[i - 1]))
        /\ NewLine(s[j + 1])
    BY <1>3, <2>1 DEF Stands
  <2>3. /\ i \in Int /\ j \in Int /\ 0 + i = i /\ 0 + j = j
        /\ \A m \in i..j : m \in 1..a /\ 0 + m = m
        /\ j + 1 \in 1..a /\ (i = 1 \/ i - 1 \in 1..a)
        /\ j \in k..(a + b) /\ j < a + b
    BY <1>1, <2>1, <2>2
  <2>4. \A m \in i..j : u[0 + m] = s[m]
    BY <1>1, <2>3
  <2>5. IsMessage(all, u, 0 + i, 0 + j)
    BY <2>2, <2>3, <2>4, MessageMoved
  <2>6. IsMessage(all, u, i, j)
    BY <2>3, <2>5
  <2>7. Stands(all, u, i, j)
    BY <1>1, <2>2, <2>3, <2>6 DEF Stands
  <2> QED
    BY <2>3, <2>7
<1>7. ASSUME NEW k \in 1..b, ~NewLine(u[a + k])
      PROVE  \E i \in 1..(a + k), j \in (a + k)..(a + b) : Stands(all, u, i, j)
  <2>1. PICK i \in 1..k, j \in k..b : Stands(all, t, i, j)
    BY <1>1, <1>2, <1>7
  <2>2. /\ i <= j /\ j < b /\ IsMessage(all, t, i, j) /\ (i = 1 \/ NewLine(t[i - 1]))
        /\ NewLine(t[j + 1])
    BY <1>4, <2>1 DEF Stands
  <2>3. /\ i \in Int /\ j \in Int /\ \A m \in i..j : m \in 1..b
        /\ j + 1 \in 1..b /\ (i = 1 \/ i - 1 \in 1..b)
        /\ a + i \in 1..(a + k) /\ a + j \in (a + k)..(a + b)
        /\ a + i <= a + j /\ a + j < a + b
        /\ (a + j) + 1 = a + (j + 1) /\ (a + i) - 1 = a + (i - 1)
        /\ i = 1 => (a + i) - 1 = a
        /\ (i = 1 /\ a = 0) => a + i = 1
    BY <1>1, <2>1, <2>2
  <2>4. IsMessage(all, u, a + i, a + j)
    <3>1. a \in Int /\ \A m \in i..j : u[a + m] = t[m]
      BY <1>1, <2>3
    <3>2. i \in Int /\ j \in Int /\ i <= j /\ IsMessage(all, t, i, j)
      BY <2>2, <2>3
    <3> QED
      BY <3>1, <3>2, MessageMoved
  <2>5. NewLine(u[(a + j) + 1])
    BY <1>1, <2>2, <2>3
  <2>6. a + i = 1 \/ NewLine(u[(a + i) - 1])
    BY <1>1, <1>5, <2>2, <2>3
  <2>7. Stands(all, u, a + i, a + j)
    BY <1>1, <2>3, <2>4, <2>5, <2>6 DEF Stands
  <2> QED
    BY <2>3, <2>7
<1>8. \A k \in 1..(a + b) : k \in 1..a \/ (k - a \in 1..b /\ a + (k - a) = k)
  BY <1>1
<1>9. ASSUME NEW k \in 1..(a + b), ~NewLine(u[k])
      PROVE  \E i \in 1..k, j \in k..(a + b) : Stands(all, u, i, j)
  <2>1. CASE k \in 1..a
    BY <1>6, <1>9, <2>1
  <2>2. CASE k \notin 1..a
    <3> DEFINE m == k - a
    <3>1. m \in 1..b /\ a + m = k
      BY <1>8, <2>2
    <3> HIDE DEF m
    <3> QED
      BY <1>7, <1>9, <3>1
  <2> QED
    BY <2>1, <2>2
<1>10. Whole(all, u)
  BY <1>1, <1>9 DEF Whole
<1> QED
  BY <1>10 DEF u

\* Cut behind a delimiter, a stream of whole messages is two such streams.
LEMMA WholePieces ==
  ASSUME NEW all, NEW S, NEW s \in Seq(S), NEW n \in 1..Len(s), NewLine(s[n]), Whole(all, s)
  PROVE  Whole(all, SubSeq(s, 1, n)) /\ Whole(all, SubSeq(s, n + 1, Len(s)))
<1> DEFINE l == Len(s)
           p == SubSeq(s, 1, n)
           q == SubSeq(s, n + 1, Len(s))
<1>1. /\ l \in Nat /\ n \in Nat /\ n \in 1..l
      /\ Len(p) = n /\ Len(q) = l - n
      /\ \A k \in 1..n : p[k] = s[k]
      /\ \A k \in 1..(l - n) : q[k] = s[n + k]
  <2>1. l \in Nat /\ n \in 0..l
    BY LenProperties
  <2> QED
    BY <2>1, Rejoined
<1>2. \A k \in 1..l : ~NewLine(s[k]) => \E i \in 1..k, j \in k..l : Stands(all, s, i, j)
  BY DEF Whole
<1>3. ASSUME NEW i \in Int, NEW j \in Int, Stands(all, s, i, j)
      PROVE  i <= j /\ j < l /\ ~(n \in i..j) /\ IsMessage(all, s, i, j)
             /\ (i = 1 \/ NewLine(s[i - 1])) /\ NewLine(s[j + 1])
  BY <1>3, MessageIsText DEF Stands
<1> HIDE DEF l, p, q
<1>4. ASSUME NEW k \in 1..n, ~NewLine(p[k])
      PROVE  \E i \in 1..k, j \in k..n : Stands(all, p, i, j)
  <2>1. k \in 1..l /\ ~NewLine(s[k])
    BY <1>1, <1>4
  <2>2. PICK i \in 1..k, j \in k..l : Stands(all, s, i, j)
    BY <1>2, <2>1
  <2>3. i \in Int /\ j \in Int
    BY <1>1, <2>2
  <2>4. /\ i <= j /\ j < l /\ ~(n \in i..j) /\ IsMessage(all, s, i, j)
        /\ i = 1 \/ NewLine(s[i - 1])
        /\ NewLine(s[j + 1])
    BY <1>3, <2>2, <2>3
  <2>5. /\ j < n /\ j \in k..n /\ 0 + i = i /\ 0 + j = j
        /\ \A m \in i..j : m \in 1..n /\ 0 + m = m
        /\ j + 1 \in 1..n /\ (i = 1 \/ i - 1 \in 1..n)
    BY <1>1, <2>2, <2>3, <2>4
  <2>6. IsMessage(all, p, 0 + i, 0 + j)
    <3>1. 0 \in Int /\ \A m \in i..j : p[0 + m] = s[m]
      BY <1>1, <2>5
    <3>2. i <= j /\ IsMessage(all, s, i, j)
      BY <2>4
    <3> QED
      BY <2>3, <3>1, <3>2, MessageMoved
  <2>7. Stands(all, p, i, j)
    BY <1>1, <2>4, <2>5, <2>6 DEF Stands
  <2> QED
    BY <2>5, <2>7
<1>5. ASSUME NEW k \in 1..(l - n), ~NewLine(q[k])
      PROVE  \E i \in 1..k, j \in k..(l - n) : Stands(all, q, i, j)
  <2>1. n + k \in 1..l /\ ~NewLine(s[n + k]) /\ k \in Int
    BY <1>1, <1>5
  <2>2. PICK i \in 1..(n + k), j \in (n + k)..l : Stands(all, s, i, j)
    BY <1>2, <2>1
  <2>3. i \in Int /\ j \in Int
    BY <1>1, <2>1, <2>2
  <2>4. /\ i <= j /\ j < l /\ ~(n \in i..j) /\ IsMessage(all, s, i, j)
        /\ i = 1 \/ NewLine(s[i - 1])
        /\ NewLine(s[j + 1])
    BY <1>3, <2>2, <2>3
  <2> DEFINE x == i - n
             y == j - n
  <2>5. /\ x \in Int /\ y \in Int /\ x \in 1..k /\ y \in k..(l - n) /\ x <= y /\ y < l - n
        /\ n + x = i /\ n + y = j /\ x = i - n /\ y = j - n
        /\ y + 1 \in 1..(l - n) /\ n + (y + 1) = j + 1
        /\ x = 1 \/ (x - 1 \in 1..(l - n) /\ n + (x - 1) = i - 1 /\ i # 1)
        /\ \A m \in i..j : m - n \in 1..(l - n) /\ n + (m - n) = m
    BY <1>1, <2>1, <2>2, <2>3, <2>4
  <2> DEFINE o == 0 - n
  <2>6. o \in Int /\ o + i = x /\ o + j = y /\ \A m \in i..j : o + m = m - n
    BY <1>1, <2>3
  <2> HIDE DEF x, y, o
  <2>7. IsMessage(all, q, x, y)
    <3>1. ASSUME NEW m \in i..j PROVE q[m - n] = s[m]
      <4> DEFINE r == m - n
      <4>1. r \in 1..(l - n) /\ n + r = m
        BY <2>5
      <4> HIDE DEF r
      <4>2. q[r] = s[n + r]
        BY <1>1, <4>1
      <4> QED
        BY <4>1, <4>2 DEF r
    <3>2. \A m \in i..j : q[o + m] = s[m]
      BY <2>6, <3>1
    <3>3. i <= j /\ IsMessage(all, s, i, j)
      BY <2>4
    <3>4. IsMessage(all, q, o + i, o + j)
      BY <2>3, <2>6, <3>2, <3>3, MessageMoved
    <3> QED
      BY <2>6, <3>4
  <2>8. NewLine(q[y + 1]) /\ (x = 1 \/ NewLine(q[x - 1]))
    <3>1. q[y + 1] = s[j + 1]
      BY <1>1, <2>5
    <3>2. x = 1 \/ (q[x - 1] = s[i - 1] /\ i # 1)
      BY <1>1, <2>5
    <3> QED
      BY <2>4, <3>1, <3>2
  <2>9. Stands(all, q, x, y)
    BY <1>1, <2>5, <2>7, <2>8 DEF Stands
  <2> QED
    BY <2>5, <2>9
<1>6. Whole(all, p) /\ Whole(all, q)
  BY <1>1, <1>4, <1>5 DEF Whole
<1> QED
  BY <1>6 DEF p, q

\* What a client prints of a stream of whole messages is one.
LEMMA WholeSplit ==
  ASSUME NEW all, NEW s \in Seq(Cells), Whole(all, s)
  PROVE  Whole(all, Split(s))
<1>1. s \in Seq(Screen) /\ EndOfLine \in Screen
  BY Shown DEF Screen
<1>2. <<EndOfLine>> \in Seq(Screen) /\ Split(s) = s \o <<EndOfLine>>
  BY <1>1, ConcatProperties DEF Split
<1>3. Len(<<EndOfLine>>) = 1 /\ NewLine(<<EndOfLine>>[1])
  BY DEF NewLine, EndOfLine
<1>4. Whole(all, <<EndOfLine>>)
  BY <1>3 DEF Whole
<1> QED
  BY <1>1, <1>2, <1>4, WholeJoined

\* Each line of whole messages is one of them.
LEMMA LineIsMessage ==
  ASSUME NEW all, NEW S, NEW s \in Seq(S), Whole(all, s),
         NEW i \in DOMAIN s, NEW j \in DOMAIN s, IsLine(s, i, j)
  PROVE  IsMessage(all, s, i, j)
<1> DEFINE l == Len(s)
<1>1. l \in Nat /\ i \in 1..l /\ j \in 1..l
  BY LenProperties
<1>2. /\ i <= j /\ \A k \in i..j : ~NewLine(s[k])
      /\ i = 1 \/ NewLine(s[i - 1])
      /\ j = l \/ NewLine(s[j + 1])
  BY DEF IsLine
<1>3. \A k \in 1..l : ~NewLine(s[k]) => \E x \in 1..k, y \in k..l : Stands(all, s, x, y)
  BY DEF Whole
<1>4. ASSUME NEW x \in Int, NEW y \in Int, Stands(all, s, x, y)
      PROVE  /\ y < l /\ IsMessage(all, s, x, y) /\ NewLine(s[y + 1])
             /\ \A k \in x..y : ~NewLine(s[k])
  BY <1>4, MessageIsText DEF Stands
<1> HIDE DEF l
<1>5. PICK x \in 1..i, y \in i..l : Stands(all, s, x, y)
  BY <1>1, <1>2, <1>3
<1>6. x \in Int /\ y \in Int /\ i \in Int /\ j \in Int
  BY <1>1, <1>5
<1>7. /\ y < l /\ IsMessage(all, s, x, y) /\ NewLine(s[y + 1])
      /\ \A k \in x..y : ~NewLine(s[k])
  BY <1>4, <1>5, <1>6
<1>8. x = i
  <2>1. SUFFICES ASSUME x < i PROVE FALSE
    BY <1>5, <1>6
  <2>2. i # 1 /\ i - 1 \in x..y
    BY <1>5, <1>6, <2>1
  <2> QED
    BY <1>2, <1>7, <2>2
<1>9. y = j
  <2>1. CASE y < j
    <3>1. y + 1 \in i..j
      BY <1>5, <1>6, <2>1
    <3> QED
      BY <1>2, <1>7, <3>1
  <2>2. CASE j < y
    <3>1. j # l /\ j + 1 \in x..y
      BY <1>1, <1>2, <1>5, <1>6, <1>7, <2>2
    <3> QED
      BY <1>2, <1>7, <3>1
  <2> QED
    BY <1>6, <2>1, <2>2
<1> QED
  BY <1>7, <1>8, <1>9
-----------------------------------------------------------------------------
(* Every step keeps messages whole as long as nothing cuts one *)

\* What was in messages sent before is still in them.
LEMMA StillWhole ==
  ASSUME NEW s, sends \in Nat, \A c \in Clients : Numbered(c),
         \A k \in 1..Len(s) : ~NewLine(s[k]) => s[k].from \in Clients,
         \A c \in Clients : /\ TextOf(sent[c]) \subseteq TextOf(sent'[c])
                            /\ \A cell \in TextOf(sent'[c]) \ TextOf(sent[c]) :
                                  cell.msg = sends + 1,
         \A c \in Clients : \A cell \in TextOf(sent[c]) : cell.msg \in Nat,
         Whole(sent, s)
  PROVE  Whole(sent', s)
<1>1. ASSUME NEW i, NEW j, Stands(sent, s, i, j), i \in 1..Len(s), i \in i..j
      PROVE  Stands(sent', s, i, j)
  <2>1. /\ \A k \in i..j : s[k].part = k - i + 1
        /\ {s[k] : k \in i..j} = {cell \in TextOf(sent[s[i].from]) : cell.msg = s[i].msg}
    BY <1>1 DEF Stands, IsMessage
  <2>2. ~NewLine(s[i])
    <3>1. i \in Int
      BY <1>1
    <3>2. s[i].part = i - i + 1
      BY <1>1, <2>1
    <3>3. i - i + 1 = 1
      BY <3>1
    <3> QED
      BY <3>2, <3>3 DEF NewLine
  <2> DEFINE c == s[i].from
             m == s[i].msg
  <2>3. c \in Clients
    BY <1>1, <2>2
  <2>4. s[i] \in TextOf(sent[c])
    BY <1>1, <2>1
  <2>5. m <= sends /\ m \in Nat
    BY <2>3, <2>4 DEF Numbered
  <2>6. /\ TextOf(sent[c]) \subseteq TextOf(sent'[c])
        /\ \A cell \in TextOf(sent'[c]) \ TextOf(sent[c]) : cell.msg = sends + 1
    BY <2>3
  <2> HIDE DEF c, m
  <2>7. \A cell : cell.msg = sends + 1 => cell.msg # m
    BY <2>5
  <2>8. {cell \in TextOf(sent'[c]) : cell.msg = m} = {cell \in TextOf(sent[c]) : cell.msg = m}
    BY <2>6, <2>7
  <2>9. IsMessage(sent', s, i, j)
    BY <2>1, <2>8 DEF IsMessage, c, m
  <2> QED
    BY <1>1, <2>9 DEF Stands
<1>2. SUFFICES ASSUME NEW k \in 1..Len(s), ~NewLine(s[k])
               PROVE  \E i \in 1..k, j \in k..Len(s) : Stands(sent', s, i, j)
  BY DEF Whole
<1>3. PICK i \in 1..k, j \in k..Len(s) : Stands(sent, s, i, j)
  BY <1>2 DEF Whole
<1>4. i \in 1..Len(s) /\ i \in i..j
  <2> DEFINE l == Len(s)
  <2>1. k \in 1..l /\ j \in k..l
    BY <1>2, <1>3
  <2> HIDE DEF l
  <2> QED
    BY <1>3, <2>1 DEF l
<1> QED
  BY <1>1, <1>3, <1>4

\* A message that snprintf did not cut is whole.
LEMMA MessageWhole ==
  ASSUME NEW all, NEW c \in Clients, NEW n \in 1..MaxSends, NEW len \in BodyLens,
         NewLine(Last(Message(c, n, len))),
         \A cell : (cell \in TextOf(all[c]) /\ cell.msg = n) <=> cell \in TextOf(Message(c, n, len))
  PROVE  Whole(all, Message(c, n, len))
<1> DEFINE m == Message(c, n, len)
           l == Len(m)
<1>1. /\ m \in Seq(Cells) /\ l \in Nat /\ len \in Nat \ {0} /\ 0 < l /\ l <= len + 1
      /\ \A k \in 1..l : m[k] = [from |-> c, msg |-> n, part |-> IF k <= len THEN k ELSE 0]
  <2>1. m \in Seq(Cells) /\ l \in Nat
    BY Spelled, LenProperties
  <2>2. /\ l > 0 /\ l <= len + 1
        /\ \A k \in 1..l : m[k] = [from |-> c, msg |-> n, part |-> IF k <= len THEN k ELSE 0]
    BY Spelled
  <2>3. len \in Nat \ {0}
    BY ChatAssumption
  <2> HIDE DEF m, l
  <2> QED
    BY <2>1, <2>2, <2>3
<1>2. NewLine(m[l])
  BY DEF Last
<1>3. TextOf(m) = {m[k] : k \in {i \in 1..l : ~NewLine(m[i])}}
  BY DEF TextOf, TextIn
<1>4. \A cell : (cell \in TextOf(all[c]) /\ cell.msg = n) <=> cell \in TextOf(m)
  OBVIOUS
<1> HIDE DEF m, l
<1>5. l = len + 1
  <2>1. SUFFICES ASSUME l <= len PROVE FALSE
    BY <1>1
  <2>2. l \in 1..l
    BY <1>1
  <2>3. m[l] = [from |-> c, msg |-> n, part |-> l]
    BY <1>1, <2>1, <2>2
  <2> QED
    BY <1>1, <1>2, <2>3 DEF NewLine
<1>6. \A k \in 1..len : /\ k \in 1..l /\ m[k].from = c /\ m[k].msg = n /\ m[k].part = k
                        /\ ~NewLine(m[k])
  <2>1. \A k \in 1..len : k \in 1..l /\ k <= len
    BY <1>1, <1>5
  <2>2. \A k \in 1..len : m[k] = [from |-> c, msg |-> n, part |-> k]
    BY <1>1, <2>1
  <2>3. \A k \in 1..len : k # 0
    BY <1>1
  <2>4. ASSUME NEW k \in 1..len PROVE m[k].from = c /\ m[k].msg = n /\ m[k].part = k
    <3>1. m[k] = [from |-> c, msg |-> n, part |-> k]
      BY <2>2
    <3> QED
      BY <3>1
  <2> QED
    BY <2>1, <2>3, <2>4 DEF NewLine
<1>7. TextOf(m) = {m[k] : k \in 1..len}
  <2>1. \A k \in 1..l : k \in 1..len \/ k = l
    BY <1>1, <1>5
  <2> QED
    BY <1>2, <1>3, <1>6, <2>1
<1>8. IsMessage(all, m, 1, len)
  <2>1. 1 \in 1..len /\ \A k \in 1..len : k - 1 + 1 = k
    BY <1>1
  <2>2. m[1].from = c /\ m[1].msg = n
    BY <1>6, <2>1
  <2>3. {m[k] : k \in 1..len} = {cell \in TextOf(all[c]) : cell.msg = n}
    BY <1>4, <1>7
  <2>4. \A k \in 1..len : m[k].part = k - 1 + 1
    BY <1>6, <2>1
  <2> QED
    BY <2>2, <2>3, <2>4 DEF IsMessage
<1>9. Stands(all, m, 1, len)
  <2>1. 1 <= len /\ len < l /\ len + 1 = l
    BY <1>1, <1>5
  <2> QED
    BY <1>2, <1>8, <2>1 DEF Stands, l
<1>10. ASSUME NEW k \in 1..l, ~NewLine(m[k])
       PROVE  \E i \in 1..k, j \in k..l : Stands(all, m, i, j)
  <2>1. k # l
    BY <1>2, <1>10
  <2>2. 1 \in 1..k /\ len \in k..l
    BY <1>1, <1>5, <1>10, <2>1
  <2> QED
    BY <1>9, <2>2
<1>11. Whole(all, m)
  BY <1>10 DEF Whole, l
<1> QED
  BY <1>11 DEF m

LEMMA UncutSend ==
  ASSUME IInv, StreamInv, Uncut, NEW c \in Clients, NEW len \in BodyLens, Send(c, len)
  PROVE  Uncut'
<1> DEFINE n == sends + 1
           m == Message(c, n, len)
<1>1. /\ up' = [up EXCEPT ![c] = up[c] \o m] /\ sent' = [sent EXCEPT ![c] = sent[c] \o m]
      /\ whole' = (whole /\ NewLine(Last(m))) /\ sends < MaxSends
      /\ UNCHANGED <<down, printed>>
  BY DEF Send, ServerIdle
<1>2. SUFFICES ASSUME whole'
               PROVE  \A d \in Clients : /\ Whole(sent', up'[d]) /\ Whole(sent', down'[d])
                                         /\ Whole(sent', printed'[d])
  BY DEF Uncut
<1>3. n \in 1..MaxSends /\ sends \in Nat
  BY <1>1, ChatAssumption DEF IInv, TypeOK
<1>4. /\ m \in Seq(Cells) /\ \A cell \in TextOf(m) : cell.from = c /\ cell.msg = n
  BY <1>3, Spelled, MessageText
<1>5. whole /\ NewLine(Last(m))
  BY <1>1, <1>2
<1> HIDE DEF m
<1>6. /\ up'[c] = up[c] \o m /\ sent'[c] = sent[c] \o m
      /\ \A d \in Clients \ {c} : up'[d] = up[d] /\ sent'[d] = sent[d]
      /\ up[c] \in Seq(Cells) /\ sent[c] \in Seq(Cells)
  BY <1>1, StreamsTyped DEF IInv, TypeOK
<1>7. TextOf(sent'[c]) = TextOf(sent[c]) \cup TextOf(m)
  BY <1>4, <1>6, TextOfJoined
<1>8. \A d \in Clients : /\ TextOf(sent[d]) \subseteq TextOf(sent'[d])
                        /\ \A cell \in TextOf(sent'[d]) \ TextOf(sent[d]) : cell.msg = n
  BY <1>4, <1>6, <1>7
<1>9. \A d \in Clients : Numbered(d) /\ \A cell \in TextOf(sent[d]) : cell.msg \in Nat
  BY CellsNumbered DEF StreamInv, Streams
<1>10. ASSUME NEW d \in Clients
       PROVE  /\ Whole(sent', up[d]) /\ Whole(sent', down[d]) /\ Whole(sent', printed[d])
  <2>1. Whole(sent, up[d]) /\ Whole(sent, down[d]) /\ Whole(sent, printed[d])
    BY <1>5 DEF Uncut
  <2>2. Whole(sent', up[d])
    BY <1>3, <1>8, <1>9, <2>1, CellsNumbered, StillWhole
  <2>3. Whole(sent', down[d])
    BY <1>3, <1>8, <1>9, <2>1, CellsNumbered, StillWhole
  <2>4. Whole(sent', printed[d])
    BY <1>3, <1>8, <1>9, <2>1, CellsNumbered, StillWhole
  <2> QED
    BY <2>2, <2>3, <2>4
<1>11. Whole(sent', m)
  <2>1. \A cell : (cell \in TextOf(sent'[c]) /\ cell.msg = n) <=> cell \in TextOf(m)
    <3>1. \A cell \in TextOf(sent[c]) : cell.msg # n
      BY <1>3, <1>9 DEF Numbered
    <3> QED
      BY <1>4, <1>7, <3>1
  <2> QED
    BY <1>3, <1>5, <2>1, MessageWhole DEF m
<1>12. Whole(sent', up'[c])
  BY <1>4, <1>6, <1>10, <1>11, WholeJoined
<1> QED
  BY <1>1, <1>6, <1>10, <1>12

LEMMA UncutReceive ==
  ASSUME IInv, Uncut, NEW c \in Clients, Receive(c)
  PROVE  Uncut'
<1>0. PICK n \in 1..Len(down[c]) :
        /\ printed' = [printed EXCEPT ![c] = printed[c] \o Split(SubSeq(down[c], 1, n))]
        /\ down' = [down EXCEPT ![c] = SubSeq(down[c], n + 1, Len(down[c]))]
        /\ whole' = (whole /\ n < BufferSize /\ NewLine(down[c][n]))
  BY ReceiveIs DEF IInv
<1>1. /\ printed' = [printed EXCEPT ![c] = printed[c] \o Split(SubSeq(down[c], 1, n))]
      /\ down' = [down EXCEPT ![c] = SubSeq(down[c], n + 1, Len(down[c]))]
      /\ whole' => whole /\ NewLine(down[c][n])
      /\ UNCHANGED <<up, sent>>
  BY <1>0 DEF Receive, ServerIdle
<1>2. n \in 1..Len(down[c]) /\ down[c] \in Seq(Cells) /\ printed[c] \in Seq(Screen)
  BY StreamsTyped
<1>3. SUFFICES ASSUME whole'
               PROVE  \A d \in Clients : /\ Whole(sent', up'[d]) /\ Whole(sent', down'[d])
                                         /\ Whole(sent', printed'[d])
  BY DEF Uncut
<1>4. /\ NewLine(down[c][n])
      /\ \A d \in Clients : /\ Whole(sent, up[d]) /\ Whole(sent, down[d])
                            /\ Whole(sent, printed[d])
  BY <1>1, <1>3 DEF Uncut
<1> DEFINE read == SubSeq(down[c], 1, n)
           rest == SubSeq(down[c], n + 1, Len(down[c]))
<1>5. Whole(sent, read) /\ Whole(sent, rest)
  BY <1>2, <1>4, WholePieces
<1>6. read \in Seq(Cells)
  <2>1. n \in 0..Len(down[c])
    BY <1>2
  <2> QED
    BY <1>2, <2>1, Rejoined
<1>7. /\ \A d \in Clients \ {c} : printed'[d] = printed[d] /\ down'[d] = down[d]
      /\ printed'[c] = printed[c] \o Split(read)
      /\ down'[c] = rest
  BY <1>1 DEF IInv, TypeOK
<1> HIDE DEF read, rest
<1>8. Whole(sent, printed'[c])
  <2>1. Split(read) \in Seq(Screen) /\ Whole(sent, Split(read))
    BY <1>2, <1>5, <1>6, Shown, WholeSplit
  <2> QED
    BY <1>2, <1>4, <1>7, <2>1, WholeJoined
<1> QED
  BY <1>1, <1>4, <1>5, <1>7, <1>8

LEMMA UncutRelay ==
  ASSUME IInv, Uncut, NEW c \in Clients, Relay(c)
  PROVE  Uncut'
<1>1. PICK n \in 1..Len(up[c]), others \in SUBSET Room : RelayIs(c, n, SubSeq(up[c], 1, n), others)
  BY RelayStep
<1> DEFINE chunk == SubSeq(up[c], 1, n)
           rest == SubSeq(up[c], n + 1, Len(up[c]))
           live == {d \in others : link[d] = "on"}
           short == {d \in live : Fitting(d, chunk) # chunk}
<1>2. /\ up' = [up EXCEPT ![c] = rest] /\ UNCHANGED <<printed, sent>>
      /\ down' = [d \in Clients |-> IF d \in live THEN down[d] \o Fitting(d, chunk)
                                    ELSE down[d]]
      /\ whole' = (whole /\ short = {} /\ NewLine(Last(chunk)))
  BY <1>1 DEF RelayIs, WriteTo
<1>3. SUFFICES ASSUME whole'
               PROVE  \A d \in Clients : /\ Whole(sent', up'[d]) /\ Whole(sent', down'[d])
                                         /\ Whole(sent', printed'[d])
  BY DEF Uncut
<1>4. \A d \in Clients : /\ Whole(sent, up[d]) /\ Whole(sent, down[d])
                         /\ Whole(sent, printed[d])
  BY <1>2, <1>3 DEF Uncut
<1>5. up[c] \in Seq(Cells) /\ n \in 0..Len(up[c])
  BY StreamsTyped
<1>6. /\ chunk \in Seq(Cells) /\ Len(chunk) = n /\ \A k \in 1..n : chunk[k] = up[c][k]
  BY <1>5, Rejoined
<1>7. NewLine(up[c][n])
  <2>1. n \in 1..n
    BY StreamsTyped
  <2>2. NewLine(chunk[Len(chunk)])
    BY <1>2, <1>3 DEF Last
  <2> HIDE DEF chunk
  <2> QED
    BY <1>6, <2>1, <2>2
<1>8. Whole(sent, chunk) /\ Whole(sent, rest)
  BY <1>4, <1>5, <1>7, WholePieces
<1>9. \A d \in live : Fitting(d, chunk) = chunk
  BY <1>2, <1>3
<1> HIDE DEF chunk, rest, live, short
<1>10. ASSUME NEW d \in Clients PROVE Whole(sent, down'[d])
  <2>1. CASE d \in live
    <3>1. down'[d] = down[d] \o chunk
      BY <1>2, <1>9, <2>1
    <3>2. down[d] \in Seq(Cells)
      BY StreamsTyped
    <3> QED
      BY <1>4, <1>6, <1>8, <3>1, <3>2, WholeJoined
  <2>2. CASE d \notin live
    BY <1>2, <1>4, <2>2
  <2> QED
    BY <2>1, <2>2
<1>11. ASSUME NEW d \in Clients PROVE Whole(sent, up'[d])
  <2>1. up'[d] = IF d = c THEN rest ELSE up[d]
    BY <1>2 DEF IInv, TypeOK
  <2> QED
    BY <1>4, <1>8, <2>1
<1> QED
  BY <1>2, <1>4, <1>10, <1>11

LEMMA UncutRest ==
  ASSUME IInv, Uncut,
         \/ \E c \in Clients : Connect(c) \/ Leave(c) \/ ReadAgain(c) \/ ReadEof(c) \/ ReadFails(c)
         \/ \E c \in Clients : \E len \in BodyLens : ReceiveOverruns(c, len)
         \/ LoopTest \/ EpollWait \/ EpollTimeout \/ EpollWaitFails
         \/ Accept \/ AcceptFails \/ Stop \/ UNCHANGED vars
  PROVE  Uncut'
<1>1. ASSUME UNCHANGED <<up, down, printed, sent, whole>> PROVE Uncut'
  BY <1>1 DEF Uncut
<1>2. ASSUME NEW c \in Clients, Connect(c) PROVE Uncut'
  BY <1>1, <1>2 DEF Connect
<1>3. ASSUME NEW c \in Clients, Leave(c) PROVE Uncut'
  <2>1. down' = [down EXCEPT ![c] = <<>>] /\ UNCHANGED <<up, printed, sent, whole>>
    BY <1>3 DEF Leave
  <2>2. Whole(sent, <<>>)
    <3>1. Len(<<>>) = 0 /\ \A k \in 1..0 : FALSE
      BY EmptySeq
    <3> QED
      BY <3>1 DEF Whole
  <2>3. \A d \in Clients : down'[d] = IF d = c THEN <<>> ELSE down[d]
    BY <2>1 DEF IInv, TypeOK
  <2> QED
    BY <2>1, <2>2, <2>3 DEF Uncut
<1>4. ASSUME NEW c \in Clients, ReadAgain(c) \/ ReadEof(c) \/ ReadFails(c) PROVE Uncut'
  <2>1. UNCHANGED <<up, down, printed, sent, whole>>
    BY <1>4, Forgetting DEF history, IInv
  <2> QED
    BY <1>1, <2>1
<1>5. CASE \/ LoopTest \/ EpollWait \/ EpollTimeout \/ EpollWaitFails
           \/ Accept \/ AcceptFails \/ Stop \/ UNCHANGED vars
  <2>1. UNCHANGED <<up, down, printed, sent, whole>>
    BY <1>5 DEF LoopTest, EpollWait, EpollTimeout, EpollWaitFails, ServerUnmoved, Accept,
       AcceptFails, Stop, vars, wire, history
  <2> QED
    BY <1>1, <2>1
<1>6. ASSUME NEW c \in Clients, NEW len \in BodyLens, ReceiveOverruns(c, len) PROVE Uncut'
  <2>1. whole' = FALSE
    BY <1>6 DEF ReceiveOverruns
  <2> QED
    BY <2>1 DEF Uncut
<1> QED
  BY <1>2, <1>3, <1>4, <1>5, <1>6

\* As long as nothing was cut and no read filled a client's buffer, each line
\* that a client prints is one message, although a read may return several, for
\* any sizes of the messages, the reads and the buffers (tcp_client.cc:92-114).
THEOREM LinesStayMessages == Spec => []LinesAreMessages
<1>1. ASSUME Init PROVE Uncut
  <2>1. Len(<<>>) = 0 /\ \A k \in 1..0 : FALSE
    BY EmptySeq
  <2>2. Whole(sent, <<>>)
    BY <2>1 DEF Whole
  <2> QED
    BY <1>1, <2>2 DEF Init, Uncut
<1>2. IInv /\ StreamInv /\ Uncut /\ [Next]_vars => Uncut'
  BY UncutSend, UncutReceive, UncutRelay, UncutRest DEF Next, Handle, Terminated
<1>3. IInv /\ Uncut => LinesAreMessages
  <2>1. SUFFICES ASSUME IInv, Uncut, whole, NEW d \in Clients, NEW i \in DOMAIN printed[d],
                        NEW j \in DOMAIN printed[d], IsLine(printed[d], i, j)
                 PROVE  IsMessage(sent, printed[d], i, j)
    BY DEF LinesAreMessages
  <2>2. printed[d] \in Seq(Screen) /\ Whole(sent, printed[d])
    BY <2>1, StreamsTyped DEF Uncut
  <2> QED
    BY <2>1, <2>2, LineIsMessage
<1> QED
  BY <1>1, <1>2, <1>3, StreamsHold, ChatInvariant, PTL DEF Spec
=============================================================================
