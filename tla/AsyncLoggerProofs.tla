------------------------ MODULE AsyncLoggerProofs ------------------------
(***************************************************************************)
(* Proofs about AsyncLogger for every number of goroutines, calls, levels  *)
(* and configurations, and every capacity of recordChan.                   *)
(***************************************************************************)
EXTENDS AsyncLogger, SequenceTheorems, TLAPS

USE DEF NoObject

\* Every step is one of these; Log and Fatal differ in what follows the send.
LEMMA StepCases ==
  ASSUME [Next]_vars
  PROVE  \/ RegisterWriter \/ SetLevel \/ InitAborts
         \/ \E g \in Goroutines :
               \/ \E lv \in Levels : \/ Deliver(g, lv, "send")
                                     \/ Deliver(g, lv, "sendFatal")
               \/ Send(g) \/ CloseChan(g) \/ AwaitDone(g)
         \/ MainReturns
         \/ Recv \/ RecvClosed \/ RangeWriters \/ WriteOne \/ PutBack \/ FlushTick
         \/ UNCHANGED vars
BY DEF Next, WriterStep, Terminated, Log, Fatal, Levels
-----------------------------------------------------------------------------
(* Sequences *)

\* A send adds one object to those in the channel, at the end.
LEMMA RangeAppend ==
  ASSUME NEW S, NEW q \in Seq(S), NEW e \in S
  PROVE  /\ RangeOf(Append(q, e)) = RangeOf(q) \cup {e}
         /\ Append(q, e) \in Seq(S)
         /\ Len(Append(q, e)) = Len(q) + 1
         /\ \A i \in 1..Len(q) : Append(q, e)[i] = q[i]
         /\ Append(q, e)[Len(q) + 1] = e
<1> DEFINE r == Append(q, e)
<1>1. /\ Len(q) \in Nat /\ Len(r) = Len(q) + 1 /\ r \in Seq(S)
      /\ \A i \in 1..Len(q) : r[i] = q[i]
      /\ r[Len(q) + 1] = e
  BY LenProperties
<1> HIDE DEF r
<1>2. \A i \in 1..Len(r) : i \in 1..Len(q) \/ i = Len(q) + 1
  BY <1>1
<1>3. Len(q) + 1 \in 1..Len(r) /\ 1..Len(q) \subseteq 1..Len(r)
  BY <1>1
<1>4. RangeOf(r) = RangeOf(q) \cup {e}
  BY <1>1, <1>2, <1>3 DEF RangeOf
<1> QED
  BY <1>1, <1>4 DEF r

\* A receive takes one occurrence of the head.
LEMMA RangeTail ==
  ASSUME NEW S, NEW q \in Seq(S), q # <<>>
  PROVE  /\ RangeOf(q) = RangeOf(Tail(q)) \cup {Head(q)}
         /\ Head(q) \in S /\ Head(q) = q[1]
         /\ Tail(q) \in Seq(S)
         /\ Len(q) \in Nat \ {0}
         /\ Len(Tail(q)) = Len(q) - 1
         /\ \A i \in 1..Len(Tail(q)) : i + 1 \in 1..Len(q) /\ Tail(q)[i] = q[i + 1]
<1> DEFINE r == Tail(q)
<1>1. /\ Head(q) \in S /\ Head(q) = q[1]
      /\ r \in Seq(S)
      /\ Len(q) \in Nat \ {0}
      /\ Len(r) = Len(q) - 1
      /\ \A i \in 1..Len(r) : r[i] = q[i + 1]
  BY HeadTailProperties, LenProperties, EmptySeq
<1> HIDE DEF r
<1>2. \A i \in 1..Len(r) : i + 1 \in 1..Len(q)
  BY <1>1
<1>3. \A i \in 1..Len(q) : i = 1 \/ (i - 1 \in 1..Len(r) /\ q[i] = r[i - 1])
  BY <1>1
<1>4. 1 \in 1..Len(q)
  BY <1>1
<1>5. RangeOf(r) \cup {Head(q)} \subseteq RangeOf(q)
  BY <1>1, <1>2, <1>4 DEF RangeOf
<1>6. RangeOf(q) \subseteq RangeOf(r) \cup {Head(q)}
  <2> SUFFICES ASSUME NEW i \in 1..Len(q) PROVE q[i] \in RangeOf(r) \cup {Head(q)}
    BY DEF RangeOf
  <2> QED
    BY <1>1, <1>3 DEF RangeOf
<1> QED
  BY <1>1, <1>2, <1>5, <1>6 DEF r

LEMMA RangeEmpty == RangeOf(<<>>) = {}
BY DEF RangeOf

\* A writer that is registered once stays registered once.
LEMMA NoRepeatAppend ==
  ASSUME NEW S, NEW q \in Seq(S), NEW e \in S, NoRepeat(q), e \notin RangeOf(q)
  PROVE  NoRepeat(Append(q, e))
<1> DEFINE r == Append(q, e)
<1>1. /\ Len(q) \in Nat /\ Len(r) = Len(q) + 1
      /\ \A i \in 1..Len(q) : r[i] = q[i]
      /\ r[Len(q) + 1] = e
  BY LenProperties, RangeAppend
<1> HIDE DEF r
<1>2. \A i \in 1..Len(q) : r[i] # e
  BY <1>1 DEF RangeOf
<1>3. \A i \in 1..Len(r) : i \in 1..Len(q) \/ i = Len(q) + 1
  BY <1>1
<1>4. NoRepeat(r)
  BY <1>1, <1>2, <1>3 DEF NoRepeat
<1> QED
  BY <1>4 DEF r

\* A range loop does not come back to the writer it has reached.
LEMMA NoRepeatTail ==
  ASSUME NEW S, NEW q \in Seq(S), q # <<>>, NoRepeat(q)
  PROVE  NoRepeat(Tail(q)) /\ Head(q) \notin RangeOf(Tail(q))
<1> DEFINE r == Tail(q)
<1>1. /\ Head(q) = q[1]
      /\ Len(q) \in Nat \ {0}
      /\ Len(r) = Len(q) - 1
      /\ \A i \in 1..Len(r) : i + 1 \in 1..Len(q) /\ r[i] = q[i + 1]
  BY RangeTail
<1> HIDE DEF r
<1>2. 1 \in 1..Len(q) /\ \A i, k \in 1..Len(r) : i + 1 # 1 /\ (i + 1 = k + 1 => i = k)
  BY <1>1
<1>3. NoRepeat(r)
  BY <1>1, <1>2 DEF NoRepeat
<1>4. Head(q) \notin RangeOf(r)
  BY <1>1, <1>2 DEF NoRepeat, RangeOf
<1> QED
  BY <1>3, <1>4 DEF r

\* Lists without repetition that have nothing in common make one without.
LEMMA RangeConcat ==
  ASSUME NEW S, NEW s \in Seq(S), NEW t \in Seq(S), NoRepeat(s), NoRepeat(t),
         RangeOf(s) \cap RangeOf(t) = {}
  PROVE  /\ s \o t \in Seq(S)
         /\ NoRepeat(s \o t)
         /\ RangeOf(s \o t) = RangeOf(s) \cup RangeOf(t)
<1> DEFINE r == s \o t
<1>1. /\ r \in Seq(S) /\ Len(s) \in Nat /\ Len(t) \in Nat /\ Len(r) = Len(s) + Len(t)
      /\ \A i \in 1..Len(s) + Len(t) :
            r[i] = IF i <= Len(s) THEN s[i] ELSE t[i - Len(s)]
  BY ConcatProperties, LenProperties
<1> HIDE DEF r
<1>2. \A i \in 1..Len(r) : \/ i \in 1..Len(s) /\ r[i] = s[i]
                           \/ i - Len(s) \in 1..Len(t) /\ r[i] = t[i - Len(s)]
  BY <1>1
<1>3. \A i \in 1..Len(s) : i \in 1..Len(r) /\ r[i] = s[i]
  BY <1>1
<1>4. \A i \in 1..Len(t) : i + Len(s) \in 1..Len(r) /\ r[i + Len(s)] = t[i]
  <2> SUFFICES ASSUME NEW i \in 1..Len(t)
               PROVE  i + Len(s) \in 1..Len(r) /\ r[i + Len(s)] = t[i]
    OBVIOUS
  <2>1. i + Len(s) \in 1..Len(s) + Len(t) /\ ~(i + Len(s) <= Len(s)) /\ (i + Len(s)) - Len(s) = i
    BY <1>1
  <2> QED
    BY <1>1, <2>1
<1>5. NoRepeat(r)
  <2> SUFFICES ASSUME NEW i \in 1..Len(r), NEW k \in 1..Len(r), r[i] = r[k]
               PROVE  i = k
    BY DEF NoRepeat
  <2>1. \A j \in 1..Len(s) : \A m \in 1..Len(t) : s[j] # t[m]
    BY DEF RangeOf
  <2>2. CASE i \in 1..Len(s) /\ k \in 1..Len(s) /\ r[i] = s[i] /\ r[k] = s[k]
    BY <2>2 DEF NoRepeat
  <2>3. CASE /\ i - Len(s) \in 1..Len(t) /\ r[i] = t[i - Len(s)]
             /\ k - Len(s) \in 1..Len(t) /\ r[k] = t[k - Len(s)]
    <3>1. i - Len(s) = k - Len(s)
      BY <2>3 DEF NoRepeat
    <3> QED
      BY <1>1, <3>1
  <2> QED
    BY <1>2, <2>1, <2>2, <2>3
<1>6. RangeOf(r) = RangeOf(s) \cup RangeOf(t)
  <2>1. RangeOf(r) \subseteq RangeOf(s) \cup RangeOf(t)
    BY <1>2 DEF RangeOf
  <2>2. RangeOf(s) \cup RangeOf(t) \subseteq RangeOf(r)
    BY <1>3, <1>4 DEF RangeOf
  <2> QED
    BY <2>1, <2>2
<1> QED
  BY <1>1, <1>5, <1>6 DEF r

LEMMA RangeTyped ==
  ASSUME NEW S, NEW q \in Seq(S)
  PROVE  RangeOf(q) \subseteq S /\ Len(q) \in Nat
BY LenProperties DEF RangeOf
-----------------------------------------------------------------------------
(* The initial state *)

LEMMA InitStepsTyped == conf \in Confs => InitSteps \in Seq(WriterNames \cup {"level"})
<1> DEFINE T == WriterNames \cup {"level"}
           step(wanted, s) == IF wanted THEN <<s>> ELSE <<>>
<1>1. {"info", "wf", "console", "level"} \subseteq T
  BY DEF WriterNames
<1>2. ASSUME NEW wanted, NEW s \in T PROVE step(wanted, s) \in Seq(T) /\ <<s>> \in Seq(T)
  <2> HIDE DEF T
  <2> QED
    OBVIOUS
<1>3. InitSteps = step(conf.info, "info") \o step(conf.wf, "wf")
                    \o step(conf.console, "console") \o <<"level">>
  BY DEF InitSteps
<1> HIDE DEF step, T
<1>4. InitSteps \in Seq(T)
  BY <1>1, <1>2, <1>3, ConcatProperties
<1> QED
  BY <1>4 DEF T

\* The configuration names each writer once, and wf only when it has one.
LEMMA InitStepsOnce ==
  conf \in Confs => NoRepeat(InitSteps) /\ ("wf" \in RangeOf(InitSteps) => conf.wf)
<1> DEFINE T == WriterNames \cup {"level"}
           step(wanted, s) == IF wanted THEN <<s>> ELSE <<>>
           a == step(conf.info, "info")
           b == step(conf.wf, "wf")
           d == step(conf.console, "console")
<1>1. {"info", "wf", "console", "level"} \subseteq T
  BY DEF WriterNames
<1>2. ASSUME NEW wanted, NEW s \in T
      PROVE  /\ step(wanted, s) \in Seq(T) /\ NoRepeat(step(wanted, s))
             /\ RangeOf(step(wanted, s)) = (IF wanted THEN {s} ELSE {})
             /\ <<s>> \in Seq(T) /\ NoRepeat(<<s>>) /\ RangeOf(<<s>>) = {s}
  <2>1. <<s>> \in Seq(T) /\ NoRepeat(<<s>>) /\ RangeOf(<<s>>) = {s}
    BY <1>2 DEF NoRepeat, RangeOf
  <2>2. <<>> \in Seq(T) /\ NoRepeat(<<>>) /\ RangeOf(<<>>) = {}
    BY DEF NoRepeat, RangeOf
  <2> QED
    BY <2>1, <2>2
<1>3. /\ a \in Seq(T) /\ NoRepeat(a) /\ RangeOf(a) \subseteq {"info"}
      /\ b \in Seq(T) /\ NoRepeat(b) /\ RangeOf(b) = (IF conf.wf THEN {"wf"} ELSE {})
      /\ d \in Seq(T) /\ NoRepeat(d) /\ RangeOf(d) \subseteq {"console"}
      /\ <<"level">> \in Seq(T) /\ NoRepeat(<<"level">>) /\ RangeOf(<<"level">>) = {"level"}
  <2> HIDE DEF step, T
  <2> QED
    BY <1>1, <1>2
<1>4. InitSteps = a \o b \o d \o <<"level">>
  BY DEF InitSteps
<1> HIDE DEF a, b, d, T
<1> DEFINE ab  == a \o b
           abd == ab \o d
<1>5. ab \in Seq(T) /\ NoRepeat(ab) /\ RangeOf(ab) = RangeOf(a) \cup RangeOf(b)
  <2>1. RangeOf(a) \cap RangeOf(b) = {}
    BY <1>3
  <2> QED
    BY <1>3, <2>1, RangeConcat
<1> HIDE DEF ab
<1>6. abd \in Seq(T) /\ NoRepeat(abd) /\ RangeOf(abd) = RangeOf(ab) \cup RangeOf(d)
  <2>1. RangeOf(ab) \cap RangeOf(d) = {}
    BY <1>3, <1>5
  <2> QED
    BY <1>3, <1>5, <2>1, RangeConcat
<1> HIDE DEF abd
<1>7. /\ NoRepeat(InitSteps)
      /\ RangeOf(InitSteps) = RangeOf(a) \cup RangeOf(b) \cup RangeOf(d) \cup {"level"}
  <2> DEFINE last == <<"level">>
  <2> SUFFICES /\ NoRepeat(abd \o last)
               /\ RangeOf(abd \o last) = RangeOf(abd) \cup RangeOf(last)
    BY <1>3, <1>4, <1>5, <1>6 DEF ab, abd
  <2>1. RangeOf(abd) \cap RangeOf(last) = {} /\ last \in Seq(T) /\ NoRepeat(last)
    BY <1>3, <1>5, <1>6
  <2> HIDE DEF last
  <2> QED
    BY <1>6, <2>1, RangeConcat
<1> QED
  BY <1>3, <1>7

LEMMA InitIInv == Init => IInv
<1> SUFFICES ASSUME Init PROVE IInv
  OBVIOUS
<1>1. TypeOK
  <2>1. /\ <<>> \in Seq(WriterNames) /\ <<>> \in Seq(Objects) /\ <<>> \in Seq(Records)
        /\ Len(<<>>) = 0
    OBVIOUS
  <2>2. /\ todo \in Seq(WriterNames \cup {"level"}) /\ level \in Nat
        /\ Len(recordChan) <= ChanCap
    BY <2>1, InitStepsTyped, LoggerAssumption DEF LoggerAssumption, Init, LogLevelDebug
  <2>3. /\ pc \in [Goroutines -> CallerPcs]
        /\ obj \in [Goroutines -> Objects \cup {NoObject}]
        /\ rec \in [Objects -> Records \cup {<<>>}]
    BY DEF Init, CallerPcs
  <2>4. calls \in 0..MaxCalls /\ c \in 0..1 /\ pool \subseteq 1..allocated
    BY LoggerAssumption DEF LoggerAssumption, Init
  <2> QED
    BY <2>1, <2>2, <2>3, <2>4 DEF Init, TypeOK
<1>2. HeldWhere /\ Filled /\ OneOwner /\ UnregisteredIsEmpty
  BY RangeEmpty DEF Init, HeldWhere, Filled, OneOwner, UnregisteredIsEmpty, WithCallers, InFlight
<1>3. QueueHoldsAccepted
  BY DEF Init, QueueHoldsAccepted
<1>4. Drained /\ ClosedMeansWritten
  BY LoggerAssumption DEF LoggerAssumption, Init, Drained, ClosedMeansWritten
<1>5. Registering
  <2>1. NoRepeat(<<>>)
    BY DEF NoRepeat
  <2> QED
    BY <2>1, RangeEmpty, InitStepsOnce DEF Init, Registering
<1> QED
  BY <1>1, <1>2, <1>3, <1>4, <1>5 DEF IInv
-----------------------------------------------------------------------------
(* What the actions that touch Records do to them *)

\* recordPool.Get() yields an object nobody holds, made at some time.
LEMMA GotIsFree ==
  ASSUME IInv, NEW o \in Objects, Got(o)
  PROVE  /\ o \in 1..allocated'
         /\ 1..allocated \subseteq 1..allocated'
         /\ allocated' \in Objects \cup {0}
         /\ o \notin WithCallers \cup InFlight
         /\ pool' \subseteq 1..allocated'
         /\ pool' = pool \ {o}
<1>1. /\ allocated \in Nat /\ o \in Nat \ {0}
      /\ pool \subseteq 1..allocated
      /\ allocated \in Objects \cup {0}
  BY LoggerAssumption DEF LoggerAssumption, IInv, TypeOK, Objects
<1>2. WithCallers \cup InFlight \subseteq 1..allocated
  BY DEF IInv, Filled
<1>3. CASE o \in pool /\ pool' = pool \ {o} /\ UNCHANGED allocated
  BY <1>1, <1>2, <1>3 DEF IInv, OneOwner
<1>4. CASE o = allocated + 1 /\ allocated' = o /\ UNCHANGED pool
  <2>1. o \notin 1..allocated /\ 1..allocated \subseteq 1..allocated' /\ o \in 1..allocated'
    BY <1>1, <1>4
  <2> QED
    BY <1>1, <1>2, <1>4, <2>1
<1> QED
  BY <1>3, <1>4 DEF Got

\* Taking an object and filling it gives the caller a Record of its own.
LEMMA DeliverStep ==
  ASSUME IInv, NEW g \in Goroutines, NEW lv \in Levels,
         NEW next \in {"send", "sendFatal"}, Deliver(g, lv, next)
  PROVE  \/ UNCHANGED <<pool, allocated, rec, pc, obj>>
         \/ \E o \in Objects :
               /\ o \in 1..allocated'
               /\ 1..allocated \subseteq 1..allocated'
               /\ allocated' \in Objects \cup {0}
               /\ o \notin WithCallers \cup InFlight
               /\ pool' \subseteq 1..allocated'
               /\ pool' = pool \ {o}
               /\ rec' = [rec EXCEPT ![o] = [n |-> calls', level |-> lv]]
               /\ rec'[o] \in Records
               /\ obj' = [obj EXCEPT ![g] = o]
               /\ pc' = [pc EXCEPT ![g] = next]
<1>1. [n |-> calls', level |-> lv] \in Records
  BY LoggerAssumption DEF LoggerAssumption, IInv, TypeOK, Deliver, Records
<1>2. ASSUME NEW o \in Objects, Got(o), lv >= level,
             rec' = [rec EXCEPT ![o] = [n |-> calls', level |-> lv]]
      PROVE  rec'[o] \in Records
  BY <1>1, <1>2 DEF IInv, TypeOK
<1> QED
  BY <1>2, GotIsFree DEF Deliver

\* What a goroutine sends was filled, and nobody else holds it.
LEMMA SentRecord ==
  ASSUME IInv, NEW g \in Goroutines, pc[g] \in {"send", "sendFatal"}
  PROVE  /\ obj[g] \in Objects /\ obj[g] # NoObject
         /\ rec[obj[g]] \in Records
         /\ obj[g] \in WithCallers
         /\ obj[g] \notin RangeOf(recordChan)
<1>1. obj[g] \in Objects /\ obj[g] # NoObject
  BY LoggerAssumption DEF LoggerAssumption, IInv, TypeOK, HeldWhere, Objects
<1>2. obj[g] \in WithCallers
  BY <1>1 DEF WithCallers
<1> QED
  BY <1>1, <1>2 DEF IInv, Filled, OneOwner, InFlight

\* What the writer goroutine works on was filled.
LEMMA WritersRecord ==
  ASSUME IInv, wpc \in {"range", "write"}
  PROVE  wrec \in Objects /\ wrec # NoObject /\ wrec \in InFlight /\ rec[wrec] \in Records
<1>1. wrec \in Objects /\ wrec # NoObject
  BY LoggerAssumption DEF LoggerAssumption, IInv, TypeOK, HeldWhere, Objects
<1> QED
  BY <1>1 DEF IInv, Filled, InFlight

\* The writer that boostrapLogWriter turns to is registered.
LEMMA NextWriter ==
  ASSUME IInv, wleft # <<>>
  PROVE  /\ Head(wleft) \in WriterNames
         /\ Head(wleft) \in RangeOf(writers)
         /\ Tail(wleft) \in Seq(WriterNames)
         /\ RangeOf(Tail(wleft)) \subseteq RangeOf(writers)
         /\ wpc = "write"
BY RangeTail DEF IInv, TypeOK, HeldWhere
-----------------------------------------------------------------------------
(* Every step preserves the inductive invariant, part by part *)

LEMMA TypeOKStep ==
  ASSUME IInv, [Next]_vars
  PROVE  TypeOK'
<1>0. TypeOK
  BY DEF IInv
<1>1. CASE RegisterWriter
  <2>1. /\ writers' \in Seq(WriterNames)
        /\ todo' \in Seq(WriterNames \cup {"level"})
    BY <1>0, <1>1, RangeTail, RangeAppend DEF RegisterWriter, TypeOK
  <2> QED
    BY <1>0, <1>1, <2>1 DEF RegisterWriter, TypeOK, writer, caller, output
<1>2. CASE SetLevel
  <2>1. /\ level' \in Nat
        /\ todo' \in Seq(WriterNames \cup {"level"})
    BY <1>0, <1>2, RangeTail, LoggerAssumption DEF LoggerAssumption, SetLevel, TypeOK
  <2> QED
    BY <1>0, <1>2, <2>1 DEF SetLevel, TypeOK, writer, caller, output
<1>3. CASE InitAborts
  BY <1>0, <1>3 DEF InitAborts, TypeOK, logger, writer, caller, output
<1>4. ASSUME NEW g \in Goroutines, NEW lv \in Levels,
             NEW next \in {"send", "sendFatal"}, Deliver(g, lv, next)
      PROVE  TypeOK'
  <2>1. calls' \in 0..MaxCalls
    BY <1>0, <1>4, LoggerAssumption DEF LoggerAssumption, Deliver, TypeOK
  <2>2. /\ pool' \subseteq 1..allocated' /\ allocated' \in Objects \cup {0}
        /\ rec' \in [Objects -> Records \cup {<<>>}]
        /\ pc' \in [Goroutines -> CallerPcs]
        /\ obj' \in [Goroutines -> Objects \cup {NoObject}]
    <3>1. CASE UNCHANGED <<pool, allocated, rec, pc, obj>>
      BY <1>0, <3>1 DEF TypeOK
    <3>2. ASSUME NEW o \in Objects,
                 /\ allocated' \in Objects \cup {0}
                 /\ pool' \subseteq 1..allocated'
                 /\ rec' = [rec EXCEPT ![o] = [n |-> calls', level |-> lv]]
                 /\ rec'[o] \in Records
                 /\ obj' = [obj EXCEPT ![g] = o]
                 /\ pc' = [pc EXCEPT ![g] = next]
          PROVE  <2>2!:
      BY <1>0, <3>2 DEF TypeOK, CallerPcs
    <3> QED
      BY <1>4, <3>1, <3>2, DeliverStep
  <2> QED
    BY <1>0, <1>4, <2>1, <2>2 DEF Deliver, InBackground, TypeOK, writer
<1>5. ASSUME NEW g \in Goroutines, Send(g)
      PROVE  TypeOK'
  <2>1. /\ recordChan' \in Seq(Objects) /\ Len(recordChan') <= ChanCap
        /\ accepted' \in Seq(Records)
    <3>1. pc[g] \in {"send", "sendFatal"}
      BY <1>5 DEF Send, SendTo
    <3>2. /\ Append(recordChan, obj[g]) \in Seq(Objects)
          /\ Len(Append(recordChan, obj[g])) = Len(recordChan) + 1
          /\ Append(accepted, rec[obj[g]]) \in Seq(Records)
          /\ Len(recordChan) \in Nat
      BY <1>0, <3>1, SentRecord, RangeAppend, RangeTyped DEF TypeOK
    <3>3. CASE Len(recordChan) < ChanCap /\ recordChan' = Append(recordChan, obj[g])
               /\ accepted' = Append(accepted, rec[obj[g]])
      BY <3>2, <3>3, LoggerAssumption DEF LoggerAssumption
    <3> QED
      BY <1>0, <1>5, <3>3 DEF Send, SendTo, TypeOK
  <2>2. /\ pc' \in [Goroutines -> CallerPcs]
        /\ obj' \in [Goroutines -> Objects \cup {NoObject}]
        /\ proc' \in {"running", "panicked", "exited"}
    BY <1>0, <1>5 DEF Send, SendTo, TypeOK, CallerPcs
  <2> QED
    BY <1>0, <1>5, <2>1, <2>2 DEF Send, SendTo, InBackground, TypeOK, writer
<1>6. ASSUME NEW g \in Goroutines, CloseChan(g)
      PROVE  TypeOK'
  <2>1. /\ pc' \in [Goroutines -> CallerPcs]
        /\ proc' \in {"running", "panicked", "exited"}
    BY <1>0, <1>6 DEF CloseChan, TypeOK, CallerPcs
  <2> QED
    BY <1>0, <1>6, <2>1 DEF CloseChan, InBackground, TypeOK, writer
<1>7. ASSUME NEW g \in Goroutines, AwaitDone(g)
      PROVE  TypeOK'
  <2>1. /\ pc' \in [Goroutines -> CallerPcs]
        /\ proc' \in {"running", "panicked", "exited"}
        /\ flushed' \in [WriterNames -> Nat]
        /\ c' \in 0..1
    <3>1. flushed' \in [WriterNames -> Nat]
      BY <1>0, <1>7, RangeTyped DEF AwaitDone, Awaited, Flushing, TypeOK
    <3>2. pc' \in [Goroutines -> CallerPcs]
      BY <1>0, <1>7 DEF AwaitDone, Awaited, TypeOK, CallerPcs
    <3>3. proc' \in {"running", "panicked", "exited"} /\ c' \in 0..1
      BY <1>7 DEF AwaitDone, Awaited
    <3> QED
      BY <3>1, <3>2, <3>3
  <2> QED
    BY <1>0, <1>7, <2>1 DEF AwaitDone, Awaited, TypeOK, writer
<1>8. CASE MainReturns
  BY <1>0, <1>8 DEF MainReturns, TypeOK, logger, writer, caller, output
<1>9. CASE Recv
  <2>1. /\ wrec' \in Objects /\ recordChan' \in Seq(Objects) /\ Len(recordChan') <= ChanCap
    BY <1>0, <1>9, RangeTail, LoggerAssumption DEF LoggerAssumption, Recv, RecvWhen, TypeOK
  <2> QED
    BY <1>0, <1>9, <2>1 DEF Recv, RecvWhen, Background, TypeOK, caller, output
<1>10. CASE RecvClosed
  BY <1>0, <1>10 DEF RecvClosed, ReturnWith, Background, TypeOK, caller, output
<1>11. CASE RangeWriters
  BY <1>0, <1>11 DEF RangeWriters, RangeOver, Background, TypeOK, caller, output
<1>12. CASE WriteOne
  <2>1. wleft' \in Seq(WriterNames)
    BY <1>12, NextWriter DEF WriteOne
  <2>2. log' \in [WriterNames -> Seq(Records)] /\ flushed' \in [WriterNames -> Nat]
    <3> DEFINE w == Head(wleft)
               grown == IF Passes(w, rec[wrec].level) THEN Append(log[w], rec[wrec])
                                                       ELSE log[w]
    <3>1. w \in WriterNames /\ rec[wrec] \in Records
      BY <1>12, NextWriter, WritersRecord DEF WriteOne
    <3>2. grown \in Seq(Records) /\ Len(grown) \in Nat
      <4>1. log[w] \in Seq(Records)
        BY <1>0, <3>1 DEF TypeOK
      <4> HIDE DEF w
      <4> QED
        BY <3>1, <4>1, RangeAppend, RangeTyped
    <3>3. /\ log' = [log EXCEPT ![w] = grown]
          /\ flushed' = flushed \/ flushed' = [flushed EXCEPT ![w] = Len(grown)]
      BY <1>12 DEF WriteOne
    <3> HIDE DEF w, grown
    <3> QED
      BY <1>0, <3>1, <3>2, <3>3 DEF TypeOK
  <2> QED
    BY <1>0, <1>12, <2>1, <2>2 DEF WriteOne, Background, TypeOK, caller, output
<1>13. CASE PutBack
  <2>1. pool' \subseteq 1..allocated
    BY <1>0, <1>13, WritersRecord DEF PutBack, IInv, Filled, TypeOK
  <2> QED
    BY <1>0, <1>13, <2>1 DEF PutBack, Background, TypeOK, caller, output
<1>14. CASE FlushTick
  <2>1. flushed' \in [WriterNames -> Nat]
    BY <1>0, <1>14, RangeTyped DEF FlushTick, Flush, Flushing, TypeOK
  <2> QED
    BY <1>0, <1>14, <2>1 DEF FlushTick, Flush, Background, TypeOK, caller, output, writer
<1>15. CASE UNCHANGED vars
  BY <1>0, <1>15 DEF vars, TypeOK, logger, writer, caller, output
<1> QED
  BY <1>1, <1>2, <1>3, <1>4, <1>5, <1>6, <1>7, <1>8, <1>9, <1>10, <1>11, <1>12,
     <1>13, <1>14, <1>15, StepCases

LEMMA HeldWhereStep ==
  ASSUME IInv, [Next]_vars
  PROVE  HeldWhere'
<1>0. TypeOK /\ HeldWhere
  BY DEF IInv
<1>1. CASE RegisterWriter
  <2>1. RangeOf(writers') = RangeOf(writers) \cup {Head(todo)}
    BY <1>0, <1>1, RangeAppend DEF RegisterWriter, TypeOK
  <2> QED
    BY <1>0, <1>1, <2>1 DEF RegisterWriter, HeldWhere, writer, caller
<1>2. CASE SetLevel \/ InitAborts \/ MainReturns \/ UNCHANGED vars
  BY <1>0, <1>2 DEF SetLevel, InitAborts, MainReturns, HeldWhere, vars, logger, writer, caller
<1>3. ASSUME NEW g \in Goroutines, NEW lv \in Levels,
             NEW next \in {"send", "sendFatal"}, Deliver(g, lv, next)
      PROVE  HeldWhere'
  <2>1. UNCHANGED <<writers, wpc, wrec, wleft>>
    BY <1>3 DEF Deliver, InBackground, writer
  <2>2. CASE UNCHANGED <<pc, obj>>
    BY <1>0, <2>1, <2>2 DEF HeldWhere
  <2>3. ASSUME NEW o \in Objects, pc' = [pc EXCEPT ![g] = next],
               obj' = [obj EXCEPT ![g] = o]
        PROVE  HeldWhere'
    <3>1. o # NoObject
      BY LoggerAssumption DEF LoggerAssumption, Objects
    <3> QED
      BY <1>0, <2>1, <2>3, <3>1 DEF TypeOK, HeldWhere
  <2> QED
    BY <1>3, <2>2, <2>3, DeliverStep
<1>4. ASSUME NEW g \in Goroutines, Send(g)
      PROVE  HeldWhere'
  BY <1>0, <1>4 DEF Send, SendTo, InBackground, TypeOK, HeldWhere, writer
<1>5. ASSUME NEW g \in Goroutines, CloseChan(g)
      PROVE  HeldWhere'
  BY <1>0, <1>5 DEF CloseChan, InBackground, TypeOK, HeldWhere, writer
<1>6. ASSUME NEW g \in Goroutines, AwaitDone(g)
      PROVE  HeldWhere'
  <2>1. /\ UNCHANGED <<writers, wpc, wrec, wleft, obj>>
        /\ pc[g] \in {"await", "awaitFatal"}
        /\ pc' = pc \/ pc' = [pc EXCEPT ![g] = "closed"]
    BY <1>6 DEF AwaitDone, Awaited, writer
  <2> QED
    BY <1>0, <2>1 DEF TypeOK, HeldWhere
<1>7. CASE Recv
  <2>1. wrec' \in Objects /\ wrec' # NoObject
    BY <1>0, <1>7, RangeTail, LoggerAssumption
       DEF LoggerAssumption, Recv, RecvWhen, TypeOK, Objects
  <2> QED
    BY <1>0, <1>7, <2>1 DEF Recv, RecvWhen, Background, HeldWhere, caller
<1>8. CASE RecvClosed
  BY <1>0, <1>8 DEF RecvClosed, ReturnWith, Background, HeldWhere, caller
<1>9. CASE RangeWriters
  BY <1>0, <1>9 DEF RangeWriters, RangeOver, Background, HeldWhere, caller
<1>10. CASE WriteOne
  <2>1. RangeOf(wleft') \subseteq RangeOf(writers)
    BY <1>10, NextWriter DEF WriteOne
  <2> QED
    BY <1>0, <1>10, <2>1 DEF WriteOne, Background, HeldWhere, caller
<1>11. CASE PutBack
  BY <1>0, <1>11 DEF PutBack, Background, HeldWhere, caller
<1>12. CASE FlushTick
  BY <1>0, <1>12 DEF FlushTick, Flush, Background, HeldWhere, writer, caller
<1> QED
  BY <1>1, <1>2, <1>3, <1>4, <1>5, <1>6, <1>7, <1>8, <1>9, <1>10, <1>11, <1>12,
     StepCases

\* The steps after which different objects are held, queued, written or free.
LEMMA ObjectSteps ==
  ASSUME IInv, [Next]_vars
  PROVE  \/ UNCHANGED <<obj, recordChan, wrec, pool, allocated, rec>>
         \/ \E g \in Goroutines : \E lv \in Levels : \E next \in {"send", "sendFatal"} :
               Deliver(g, lv, next)
         \/ \E g \in Goroutines : Send(g)
         \/ Recv \/ PutBack
<1>1. CASE RegisterWriter \/ SetLevel \/ InitAborts \/ MainReturns \/ UNCHANGED vars
  BY <1>1 DEF RegisterWriter, SetLevel, InitAborts, MainReturns, vars, logger, writer, caller
<1>2. ASSUME NEW g \in Goroutines, CloseChan(g) \/ AwaitDone(g)
      PROVE  UNCHANGED <<obj, recordChan, wrec, pool, allocated, rec>>
  BY <1>2 DEF CloseChan, AwaitDone, Awaited, writer
<1>3. CASE RecvClosed \/ RangeWriters \/ WriteOne \/ FlushTick
  BY <1>3 DEF RecvClosed, ReturnWith, RangeWriters, RangeOver, WriteOne, FlushTick, Flush,
     Background, caller, writer
<1> QED
  BY <1>1, <1>2, <1>3, StepCases

\* What a send does to the objects in hand and in flight.
LEMMA SendMoves ==
  ASSUME IInv, NEW g \in Goroutines, Send(g)
  PROVE  /\ UNCHANGED <<pool, allocated, rec, wrec>>
         /\ \/ UNCHANGED <<obj, recordChan>>
            \/ /\ recordChan' = Append(recordChan, obj[g])
               /\ RangeOf(recordChan') = RangeOf(recordChan) \cup {obj[g]}
               /\ obj' = [obj EXCEPT ![g] = NoObject]
<1>1. pc[g] \in {"send", "sendFatal"}
  BY DEF Send, SendTo
<1>2. RangeOf(Append(recordChan, obj[g])) = RangeOf(recordChan) \cup {obj[g]}
  BY <1>1, SentRecord, RangeAppend DEF IInv, TypeOK
<1> QED
  BY <1>2 DEF Send, SendTo, InBackground, writer

\* What a receive does to the objects in flight.
LEMMA RecvMoves ==
  ASSUME IInv, Recv
  PROVE  /\ UNCHANGED <<obj, pool, allocated, rec>>
         /\ wrec = NoObject
         /\ wrec' = Head(recordChan)
         /\ wrec' \in Objects /\ wrec' # NoObject
         /\ recordChan' = Tail(recordChan)
         /\ recordChan # <<>>
         /\ RangeOf(recordChan) = RangeOf(recordChan') \cup {wrec'}
<1>1. wrec = NoObject
  BY DEF Recv, RecvWhen, IInv, HeldWhere
<1>2. recordChan # <<>> /\ wrec' = Head(recordChan) /\ recordChan' = Tail(recordChan)
      /\ UNCHANGED <<obj, pool, allocated, rec>>
  BY DEF Recv, RecvWhen, Background, caller
<1>3. /\ RangeOf(recordChan) = RangeOf(recordChan') \cup {wrec'}
      /\ wrec' \in Objects
  BY <1>2, RangeTail DEF IInv, TypeOK
<1>4. wrec' # NoObject
  BY <1>3, LoggerAssumption DEF LoggerAssumption, Objects
<1> QED
  BY <1>1, <1>2, <1>3, <1>4

\* What putting a Record back does.
LEMMA PutBackMoves ==
  ASSUME IInv, PutBack
  PROVE  /\ UNCHANGED <<obj, recordChan, allocated, rec>>
         /\ wrec' = NoObject
         /\ wrec # NoObject
         /\ pool' = pool \/ pool' = pool \cup {wrec}
BY DEF PutBack, Background, caller, IInv, HeldWhere

LEMMA FilledStep ==
  ASSUME IInv, [Next]_vars
  PROVE  Filled'
<1>0. TypeOK /\ Filled
  BY DEF IInv
<1>1. CASE UNCHANGED <<obj, recordChan, wrec, pool, allocated, rec>>
  BY <1>0, <1>1 DEF Filled, WithCallers, InFlight
<1>2. ASSUME NEW g \in Goroutines, NEW lv \in Levels,
             NEW next \in {"send", "sendFatal"}, Deliver(g, lv, next)
      PROVE  Filled'
  <2>1. UNCHANGED <<recordChan, wrec>>
    BY <1>2 DEF Deliver, InBackground, writer
  <2>2. CASE UNCHANGED <<pool, allocated, rec, pc, obj>>
    BY <1>0, <2>1, <2>2 DEF Filled, WithCallers, InFlight
  <2>3. ASSUME NEW o \in Objects, o \in 1..allocated',
               1..allocated \subseteq 1..allocated',
               o \notin WithCallers \cup InFlight,
               rec' = [rec EXCEPT ![o] = [n |-> calls', level |-> lv]],
               rec'[o] \in Records, obj' = [obj EXCEPT ![g] = o]
        PROVE  Filled'
    <3>1. WithCallers' \subseteq WithCallers \cup {o} /\ InFlight' = InFlight
      BY <1>0, <2>1, <2>3 DEF TypeOK, WithCallers, InFlight
    <3>2. \A b \in WithCallers \cup InFlight : rec'[b] = rec[b]
      BY <1>0, <2>3 DEF TypeOK, Filled
    <3> QED
      BY <1>0, <2>3, <3>1, <3>2 DEF Filled
  <2> QED
    BY <1>2, <2>2, <2>3, DeliverStep
<1>3. ASSUME NEW g \in Goroutines, Send(g)
      PROVE  Filled'
  <2>1. obj[g] \in WithCallers
    BY <1>3, SentRecord DEF Send, SendTo
  <2>2. WithCallers' \cup InFlight' \subseteq WithCallers \cup InFlight
    BY <1>0, <1>3, <2>1, SendMoves DEF TypeOK, WithCallers, InFlight
  <2> QED
    BY <1>0, <1>3, <2>2, SendMoves DEF Filled
<1>4. CASE Recv
  <2>1. WithCallers' \cup InFlight' \subseteq WithCallers \cup InFlight
    BY <1>4, RecvMoves DEF WithCallers, InFlight
  <2> QED
    BY <1>0, <1>4, <2>1, RecvMoves DEF Filled
<1>5. CASE PutBack
  <2>1. WithCallers' \cup InFlight' \subseteq WithCallers \cup InFlight
    BY <1>5, PutBackMoves DEF WithCallers, InFlight
  <2> QED
    BY <1>0, <1>5, <2>1, PutBackMoves DEF Filled
<1> QED
  BY <1>1, <1>2, <1>3, <1>4, <1>5, ObjectSteps

LEMMA OneOwnerStep ==
  ASSUME IInv, [Next]_vars
  PROVE  OneOwner'
<1>0. TypeOK /\ OneOwner
  BY DEF IInv
<1>1. CASE UNCHANGED <<obj, recordChan, wrec, pool, allocated, rec>>
  BY <1>0, <1>1 DEF OneOwner, WithCallers, InFlight
<1>2. ASSUME NEW g \in Goroutines, NEW lv \in Levels,
             NEW next \in {"send", "sendFatal"}, Deliver(g, lv, next)
      PROVE  OneOwner'
  <2>1. UNCHANGED <<recordChan, wrec>> /\ InFlight' = InFlight
    BY <1>2 DEF Deliver, InBackground, writer, InFlight
  <2>2. CASE UNCHANGED <<pool, allocated, rec, pc, obj>>
    BY <1>0, <2>1, <2>2 DEF OneOwner, WithCallers, InFlight
  <2>3. ASSUME NEW o \in Objects, o \notin WithCallers \cup InFlight,
               pool' = pool \ {o}, obj' = [obj EXCEPT ![g] = o]
        PROVE  OneOwner'
    <3>1. WithCallers' \subseteq WithCallers \cup {o}
      BY <1>0, <2>3 DEF TypeOK, WithCallers
    <3>2. \A h \in Goroutines : obj[h] # NoObject => obj[h] # o
      BY <2>3 DEF WithCallers
    <3>3. \A h, k \in Goroutines : obj'[h] = obj'[k] /\ obj'[h] # NoObject => h = k
      BY <1>0, <2>3, <3>2, LoggerAssumption DEF LoggerAssumption, TypeOK, OneOwner, Objects
    <3>4. /\ WithCallers' \cap (InFlight' \cup pool') = {}
          /\ InFlight' \cap pool' = {}
      BY <1>0, <2>1, <2>3, <3>1 DEF OneOwner
    <3> QED
      BY <1>0, <2>1, <3>3, <3>4 DEF OneOwner
  <2> QED
    BY <1>2, <2>2, <2>3, DeliverStep
<1>3. ASSUME NEW g \in Goroutines, Send(g)
      PROVE  OneOwner'
  <2>0. /\ obj[g] \in Objects /\ obj[g] # NoObject /\ obj[g] \in WithCallers
        /\ obj[g] \notin RangeOf(recordChan) /\ obj[g] \notin InFlight \cup pool
    BY <1>0, <1>3, SentRecord DEF Send, SendTo, OneOwner
  <2>1. CASE UNCHANGED <<obj, recordChan>>
    BY <1>0, <1>3, <2>1, SendMoves DEF OneOwner, WithCallers, InFlight
  <2>2. CASE /\ recordChan' = Append(recordChan, obj[g])
             /\ RangeOf(recordChan') = RangeOf(recordChan) \cup {obj[g]}
             /\ obj' = [obj EXCEPT ![g] = NoObject]
    <3>1. UNCHANGED <<pool, wrec>> /\ wrec # obj[g]
      BY <1>3, <2>0, SendMoves DEF InFlight
    <3>2. WithCallers' = WithCallers \ {obj[g]}
      BY <1>0, <2>0, <2>2 DEF TypeOK, OneOwner, WithCallers
    <3>3. InFlight' = InFlight \cup {obj[g]}
      BY <2>2, <3>1 DEF InFlight
    <3>4. \A i, k \in 1..Len(recordChan') : recordChan'[i] = recordChan'[k] => i = k
      <4>1. /\ Len(recordChan) \in Nat /\ Len(recordChan') = Len(recordChan) + 1
            /\ \A i \in 1..Len(recordChan) : recordChan'[i] = recordChan[i]
            /\ recordChan'[Len(recordChan) + 1] = obj[g]
        BY <1>0, <2>0, <2>2, RangeAppend, RangeTyped DEF TypeOK
      <4>2. \A i \in 1..Len(recordChan) : recordChan[i] # obj[g]
        BY <2>0 DEF RangeOf
      <4>3. \A i \in 1..Len(recordChan') :
               i \in 1..Len(recordChan) \/ i = Len(recordChan) + 1
        BY <4>1
      <4> QED
        BY <1>0, <4>1, <4>2, <4>3 DEF OneOwner
    <3>5. \A h, k \in Goroutines : obj'[h] = obj'[k] /\ obj'[h] # NoObject => h = k
      BY <1>0, <2>2 DEF TypeOK, OneOwner
    <3>6. /\ WithCallers' \cap (InFlight' \cup pool') = {}
          /\ InFlight' \cap pool' = {}
          /\ wrec' \notin RangeOf(recordChan')
      BY <1>0, <2>0, <2>2, <3>1, <3>2, <3>3 DEF OneOwner
    <3> QED
      BY <3>4, <3>5, <3>6 DEF OneOwner
  <2> QED
    BY <1>3, <2>1, <2>2, SendMoves
<1>4. CASE Recv
  <2>1. /\ RangeOf(recordChan) = RangeOf(recordChan') \cup {wrec'}
        /\ WithCallers' = WithCallers /\ InFlight' = InFlight /\ pool' = pool
    BY <1>4, RecvMoves DEF WithCallers, InFlight
  <2>2. /\ Len(recordChan) \in Nat \ {0}
        /\ Len(recordChan') = Len(recordChan) - 1
        /\ wrec' = recordChan[1]
        /\ \A i \in 1..Len(recordChan') :
              i + 1 \in 1..Len(recordChan) /\ recordChan'[i] = recordChan[i + 1]
    BY <1>0, <1>4, RecvMoves, RangeTail DEF TypeOK
  <2>3. /\ \A i, k \in 1..Len(recordChan') : recordChan'[i] = recordChan'[k] => i = k
        /\ \A i \in 1..Len(recordChan') : recordChan'[i] # wrec'
    <3>1. \A i, k \in 1..Len(recordChan) : recordChan[i] = recordChan[k] => i = k
      BY <1>0 DEF OneOwner
    <3>2. 1 \in 1..Len(recordChan)
      BY <2>2
    <3>3. \A i, k \in 1..Len(recordChan') : i \in Nat /\ k \in Nat /\ i + 1 # 1
                                            /\ (i + 1 = k + 1 => i = k)
      OBVIOUS
    <3> QED
      BY <2>2, <3>1, <3>2, <3>3
  <2> QED
    BY <1>0, <1>4, <2>1, <2>3, RecvMoves DEF OneOwner, RangeOf
<1>5. CASE PutBack
  <2>1. /\ WithCallers' = WithCallers
        /\ InFlight' = InFlight \ {wrec}
        /\ wrec \in InFlight
    BY <1>0, <1>5, PutBackMoves DEF OneOwner, WithCallers, InFlight
  <2>2. NoObject \notin RangeOf(recordChan')
    BY <1>0, <1>5, PutBackMoves, RangeTyped, LoggerAssumption
       DEF LoggerAssumption, TypeOK, Objects
  <2> QED
    BY <1>0, <1>5, <2>1, <2>2, PutBackMoves DEF OneOwner
<1> QED
  BY <1>1, <1>2, <1>3, <1>4, <1>5, ObjectSteps

\* The record being written is one of the accepted ones.
LEMMA WrittenWasAccepted ==
  ASSUME IInv, wpc \in {"range", "write"}
  PROVE  Len(accepted) - Len(recordChan) > 0
BY DEF IInv, QueueHoldsAccepted

LEMMA QueueHoldsAcceptedStep ==
  ASSUME IInv, [Next]_vars
  PROVE  QueueHoldsAccepted'
<1>0. /\ TypeOK /\ HeldWhere /\ QueueHoldsAccepted
      /\ Len(recordChan) \in Nat /\ Len(accepted) \in Nat /\ ranged \in Nat
  BY RangeTyped DEF IInv, TypeOK
<1>1. CASE RegisterWriter \/ SetLevel \/ InitAborts \/ MainReturns \/ UNCHANGED vars
  BY <1>0, <1>1 DEF RegisterWriter, SetLevel, InitAborts, MainReturns, vars, logger,
     writer, caller, QueueHoldsAccepted
<1>2. ASSUME NEW g \in Goroutines, CloseChan(g) \/ AwaitDone(g)
      PROVE  QueueHoldsAccepted'
  BY <1>0, <1>2 DEF CloseChan, AwaitDone, Awaited, InBackground, writer, QueueHoldsAccepted
<1>3. CASE RecvClosed \/ WriteOne \/ FlushTick
  BY <1>0, <1>3 DEF RecvClosed, ReturnWith, WriteOne, FlushTick, Flush, Background, caller,
     writer, QueueHoldsAccepted
<1>4. ASSUME NEW g \in Goroutines, NEW lv \in Levels,
             NEW next \in {"send", "sendFatal"}, Deliver(g, lv, next)
      PROVE  QueueHoldsAccepted'
  <2>1. UNCHANGED <<recordChan, wrec, wpc, accepted, ranged>>
    BY <1>4 DEF Deliver, InBackground, writer
  <2>2. \A b \in InFlight : rec'[b] = rec[b]
    <3>1. ASSUME NEW o \in Objects, o \notin WithCallers \cup InFlight,
                 rec' = [rec EXCEPT ![o] = [n |-> calls', level |-> lv]]
          PROVE  \A b \in InFlight : rec'[b] = rec[b]
      BY <1>0, <3>1 DEF TypeOK
    <3> QED
      BY <1>4, <3>1, DeliverStep
  <2>3. /\ \A i \in 1..Len(recordChan) : recordChan[i] \in InFlight
        /\ wpc \in {"range", "write"} => wrec \in InFlight
    BY WritersRecord DEF InFlight, RangeOf
  <2> QED
    BY <1>0, <2>1, <2>2, <2>3 DEF QueueHoldsAccepted
<1>5. ASSUME NEW g \in Goroutines, Send(g)
      PROVE  QueueHoldsAccepted'
  <2>1. UNCHANGED <<rec, wrec, wpc, ranged>>
    BY <1>5 DEF Send, SendTo, InBackground, writer
  <2>2. CASE UNCHANGED <<recordChan, accepted>>
    BY <1>0, <2>1, <2>2 DEF QueueHoldsAccepted
  <2>3. CASE /\ recordChan' = Append(recordChan, obj[g])
             /\ accepted' = Append(accepted, rec[obj[g]])
    <3>1. obj[g] \in Objects /\ rec[obj[g]] \in Records
      BY <1>5, SentRecord DEF Send, SendTo
    <3>2. /\ Len(recordChan') = Len(recordChan) + 1
          /\ \A i \in 1..Len(recordChan) : recordChan'[i] = recordChan[i]
          /\ recordChan'[Len(recordChan) + 1] = obj[g]
      BY <1>0, <2>3, <3>1, RangeAppend DEF TypeOK
    <3>3. /\ Len(accepted') = Len(accepted) + 1
          /\ \A i \in 1..Len(accepted) : accepted'[i] = accepted[i]
          /\ accepted'[Len(accepted) + 1] = rec[obj[g]]
      BY <1>0, <2>3, <3>1, RangeAppend DEF TypeOK
    <3> DEFINE done == Len(accepted) - Len(recordChan)
    <3>4. /\ done \in Nat
          /\ done = ranged + (IF wpc = "range" THEN 1 ELSE 0)
          /\ Len(accepted') - Len(recordChan') = done
      BY <1>0, <3>2, <3>3 DEF QueueHoldsAccepted
    <3>5. \A i \in 1..Len(recordChan') : rec'[recordChan'[i]] = accepted'[done + i]
      <4>1. \A i \in 1..Len(recordChan') :
               \/ i \in 1..Len(recordChan) /\ done + i \in 1..Len(accepted)
               \/ i = Len(recordChan) + 1 /\ done + i = Len(accepted) + 1
        BY <1>0, <3>2, <3>4
      <4>2. \A i \in 1..Len(recordChan) : rec[recordChan[i]] = accepted[done + i]
        BY <1>0 DEF QueueHoldsAccepted
      <4> QED
        BY <2>1, <3>2, <3>3, <4>1, <4>2
    <3>6. wpc' \in {"range", "write"} => done > 0 /\ rec'[wrec'] = accepted'[done]
      <4> SUFFICES ASSUME wpc \in {"range", "write"}
                   PROVE  done > 0 /\ rec[wrec] = accepted'[done]
        BY <2>1
      <4>1. done > 0 /\ rec[wrec] = accepted[done]
        BY <1>0 DEF QueueHoldsAccepted
      <4>2. done \in 1..Len(accepted)
        BY <1>0, <3>4, WrittenWasAccepted
      <4> QED
        BY <3>3, <4>1, <4>2
    <3> QED
      BY <2>1, <3>4, <3>5, <3>6 DEF QueueHoldsAccepted
  <2> QED
    BY <1>5, <2>2, <2>3 DEF Send, SendTo
<1>6. CASE Recv
  <2>1. UNCHANGED <<rec, ranged, accepted>> /\ wpc = "select" /\ wpc' = "range"
    BY <1>6 DEF Recv, RecvWhen, Background, caller
  <2>2. /\ Len(recordChan) \in Nat \ {0}
        /\ Len(recordChan') = Len(recordChan) - 1
        /\ wrec' = recordChan[1]
        /\ \A i \in 1..Len(recordChan') :
              i + 1 \in 1..Len(recordChan) /\ recordChan'[i] = recordChan[i + 1]
    BY <1>0, <1>6, RecvMoves, RangeTail DEF TypeOK
  <2> DEFINE done == Len(accepted) - Len(recordChan)
  <2>3. /\ done = ranged
        /\ Len(accepted') - Len(recordChan') = done + 1
        /\ \A i \in 1..Len(recordChan) : rec[recordChan[i]] = accepted[done + i]
    BY <1>0, <2>1, <2>2 DEF QueueHoldsAccepted
  <2>4. \A i \in 1..Len(recordChan') : rec'[recordChan'[i]] = accepted'[(done + 1) + i]
    <3> SUFFICES ASSUME NEW i \in 1..Len(recordChan')
                 PROVE  rec[recordChan'[i]] = accepted[(done + 1) + i]
      BY <2>1
    <3>1. done + (i + 1) = (done + 1) + i
      BY <1>0, <2>3
    <3> QED
      BY <2>2, <2>3, <3>1
  <2>5. done + 1 > 0 /\ rec'[wrec'] = accepted'[done + 1]
    <3>1. 1 \in 1..Len(recordChan)
      BY <2>2
    <3> QED
      BY <1>0, <2>1, <2>2, <2>3, <3>1
  <2> QED
    BY <1>0, <2>1, <2>3, <2>4, <2>5 DEF QueueHoldsAccepted
<1>7. CASE RangeWriters
  BY <1>0, <1>7 DEF RangeWriters, RangeOver, Background, caller, QueueHoldsAccepted
<1>8. CASE PutBack
  BY <1>0, <1>8 DEF PutBack, Background, caller, QueueHoldsAccepted
<1> QED
  BY <1>1, <1>2, <1>3, <1>4, <1>5, <1>6, <1>7, <1>8, StepCases

LEMMA DrainedStep ==
  ASSUME IInv, [Next]_vars
  PROVE  Drained'
<1>0. TypeOK /\ Drained
  BY DEF IInv
<1>1. CASE RegisterWriter \/ SetLevel \/ InitAborts \/ UNCHANGED vars
  BY <1>0, <1>1 DEF RegisterWriter, SetLevel, InitAborts, vars, logger, writer, caller, Drained
<1>2. CASE MainReturns
  BY <1>0, <1>2 DEF MainReturns, logger, writer, caller, Drained
<1>3. ASSUME NEW g \in Goroutines, NEW lv \in Levels,
             NEW next \in {"send", "sendFatal"}, Deliver(g, lv, next)
      PROVE  Drained'
  <2>1. /\ UNCHANGED <<wpc, closed, recordChan, c, proc>>
        /\ pc[g] = "idle"
        /\ pc' = pc \/ pc' = [pc EXCEPT ![g] = next]
    BY <1>3 DEF Deliver, InBackground, writer
  <2> QED
    BY <1>0, <2>1, LoggerAssumption DEF LoggerAssumption, TypeOK, Drained
<1>4. ASSUME NEW g \in Goroutines, Send(g)
      PROVE  Drained'
  <2>1. /\ UNCHANGED <<wpc, closed, c>> /\ proc' # "exited" /\ proc = "running"
        /\ pc[g] \in {"send", "sendFatal"}
        /\ \/ ~closed /\ pc' = [pc EXCEPT ![g] = IF @ = "send" THEN "idle" ELSE "closeFatal"]
           \/ closed /\ pc' = pc /\ recordChan' = recordChan
    BY <1>4 DEF Send, SendTo, InBackground, writer
  <2> QED
    BY <1>0, <2>1, LoggerAssumption DEF LoggerAssumption, TypeOK, Drained
<1>5. ASSUME NEW g \in Goroutines, CloseChan(g)
      PROVE  Drained'
  <2>1. /\ UNCHANGED <<wpc, recordChan, c>> /\ proc' # "exited" /\ closed' = TRUE
        /\ \/ pc' = pc
           \/ pc' = [pc EXCEPT ![g] = IF @ = "idle" THEN "await" ELSE "awaitFatal"]
    BY <1>5 DEF CloseChan, InBackground, writer
  <2> QED
    BY <1>0, <2>1, LoggerAssumption DEF LoggerAssumption, TypeOK, Drained
<1>6. ASSUME NEW g \in Goroutines, AwaitDone(g)
      PROVE  Drained'
  <2>1. /\ UNCHANGED <<wpc, closed, recordChan>> /\ c = 1 /\ c' = 0
        /\ pc[g] \in {"await", "awaitFatal"}
        /\ pc' = pc \/ pc' = [pc EXCEPT ![g] = "closed"]
    BY <1>6 DEF AwaitDone, Awaited, writer
  <2> QED
    BY <1>0, <2>1, LoggerAssumption DEF LoggerAssumption, TypeOK, Drained
<1>7. CASE Recv
  BY <1>0, <1>7 DEF Recv, RecvWhen, Background, caller, Drained
<1>8. CASE RecvClosed
  BY <1>0, <1>8 DEF RecvClosed, ReturnWith, Background, caller, Drained
<1>9. CASE RangeWriters
  BY <1>0, <1>9 DEF RangeWriters, RangeOver, Background, caller, Drained
<1>10. CASE WriteOne
  BY <1>0, <1>10 DEF WriteOne, Background, caller, Drained
<1>11. CASE PutBack
  BY <1>0, <1>11 DEF PutBack, Background, caller, Drained
<1>12. CASE FlushTick
  BY <1>0, <1>12 DEF FlushTick, Flush, Background, writer, caller, Drained
<1> QED
  BY <1>1, <1>2, <1>3, <1>4, <1>5, <1>6, <1>7, <1>8, <1>9, <1>10, <1>11, <1>12,
     StepCases

LEMMA UnregisteredIsEmptyStep ==
  ASSUME IInv, [Next]_vars
  PROVE  UnregisteredIsEmpty'
<1>0. TypeOK /\ UnregisteredIsEmpty
  BY DEF IInv
<1>1. CASE RegisterWriter
  <2>1. RangeOf(writers) \subseteq RangeOf(writers')
    BY <1>0, <1>1, RangeAppend DEF RegisterWriter, TypeOK
  <2> QED
    BY <1>0, <1>1, <2>1 DEF RegisterWriter, output, UnregisteredIsEmpty
<1>2. CASE SetLevel \/ InitAborts \/ MainReturns \/ UNCHANGED vars
  BY <1>0, <1>2 DEF SetLevel, InitAborts, MainReturns, vars, logger, output, UnregisteredIsEmpty
<1>3. ASSUME NEW g \in Goroutines,
             \/ Send(g) \/ CloseChan(g)
             \/ \E lv \in Levels : Deliver(g, lv, "send") \/ Deliver(g, lv, "sendFatal")
      PROVE  UnregisteredIsEmpty'
  BY <1>0, <1>3 DEF Deliver, Send, SendTo, CloseChan, InBackground, UnregisteredIsEmpty
<1>4. ASSUME NEW g \in Goroutines, AwaitDone(g)
      PROVE  UnregisteredIsEmpty'
  BY <1>0, <1>4 DEF AwaitDone, Awaited, Flushing, UnregisteredIsEmpty
<1>5. CASE Recv \/ RecvClosed \/ RangeWriters \/ PutBack
  BY <1>0, <1>5 DEF Recv, RecvWhen, RecvClosed, ReturnWith, RangeWriters, RangeOver, PutBack,
     Background, output, UnregisteredIsEmpty
<1>6. CASE WriteOne
  <2> DEFINE w == Head(wleft)
  <2>1. /\ w \in RangeOf(writers) /\ w \in WriterNames
        /\ writers' = writers
        /\ \E l : log' = [log EXCEPT ![w] = l]
        /\ flushed' = flushed \/ \E k : flushed' = [flushed EXCEPT ![w] = k]
    BY <1>6, NextWriter DEF WriteOne, Background
  <2> HIDE DEF w
  <2> QED
    BY <1>0, <2>1 DEF TypeOK, UnregisteredIsEmpty
<1>7. CASE FlushTick
  BY <1>0, <1>7 DEF FlushTick, Flush, Background, Flushing, UnregisteredIsEmpty
<1> QED
  BY <1>1, <1>2, <1>3, <1>4, <1>5, <1>6, <1>7, StepCases

\* Once the token of boostrapLogWriter is taken nothing is written any more.
LEMMA ClosedMeansWrittenStep ==
  ASSUME IInv, [Next]_vars
  PROVE  ClosedMeansWritten'
<1>0. TypeOK /\ HeldWhere /\ Drained /\ ClosedMeansWritten /\ UnregisteredIsEmpty
  BY DEF IInv
<1>1. CASE RegisterWriter
  <2>1. /\ RangeOf(writers') = RangeOf(writers) \cup {Head(todo)}
        /\ Head(todo) \in WriterNames
    BY <1>0, <1>1, RangeAppend DEF RegisterWriter, TypeOK
  <2>2. flushed[Head(todo)] = Len(log[Head(todo)]) \/ Head(todo) \in RangeOf(writers)
    BY <1>0, <2>1 DEF UnregisteredIsEmpty
  <2> QED
    BY <1>0, <1>1, <2>1, <2>2 DEF RegisterWriter, writer, caller, output, ClosedMeansWritten
<1>2. CASE SetLevel \/ InitAborts \/ MainReturns \/ UNCHANGED vars
  BY <1>0, <1>2 DEF SetLevel, InitAborts, MainReturns, vars, logger, writer, caller,
     output, ClosedMeansWritten
<1>3. ASSUME NEW g \in Goroutines, NEW lv \in Levels,
             NEW next \in {"send", "sendFatal"}, Deliver(g, lv, next)
      PROVE  ClosedMeansWritten'
  <2>1. /\ UNCHANGED <<writers, wleft, log, flushed, ranged, accepted, proc>>
        /\ pc' = pc \/ pc' = [pc EXCEPT ![g] = next]
    BY <1>3 DEF Deliver, InBackground, writer
  <2> QED
    BY <1>0, <2>1, LoggerAssumption DEF LoggerAssumption, TypeOK, ClosedMeansWritten
<1>4. ASSUME NEW g \in Goroutines, Send(g)
      PROVE  ClosedMeansWritten'
  <2>1. /\ UNCHANGED <<writers, wleft, log, flushed, ranged>> /\ proc' # "exited"
        /\ \/ ~closed /\ pc' = [pc EXCEPT ![g] = IF @ = "send" THEN "idle" ELSE "closeFatal"]
           \/ closed /\ pc' = pc /\ accepted' = accepted
    BY <1>4 DEF Send, SendTo, InBackground, writer
  <2> QED
    BY <1>0, <2>1, LoggerAssumption DEF LoggerAssumption, TypeOK, Drained, ClosedMeansWritten
<1>5. ASSUME NEW g \in Goroutines, CloseChan(g)
      PROVE  ClosedMeansWritten'
  <2>1. /\ UNCHANGED <<writers, wleft, log, flushed, ranged, accepted>> /\ proc' # "exited"
        /\ \/ pc' = pc
           \/ pc' = [pc EXCEPT ![g] = IF @ = "idle" THEN "await" ELSE "awaitFatal"]
    BY <1>5 DEF CloseChan, InBackground, writer
  <2> QED
    BY <1>0, <2>1, LoggerAssumption DEF LoggerAssumption, TypeOK, ClosedMeansWritten
<1>6. ASSUME NEW g \in Goroutines, AwaitDone(g)
      PROVE  ClosedMeansWritten'
  <2>1. wpc = "done" /\ recordChan = <<>> /\ wleft = <<>>
    BY <1>0, <1>6 DEF AwaitDone, Awaited, Drained, HeldWhere
  <2>2. ranged = Len(accepted)
    <3>1. ranged = Len(accepted) - Len(recordChan) /\ Len(accepted) \in Nat
      BY <1>0, <2>1, RangeTyped DEF IInv, QueueHoldsAccepted, TypeOK
    <3> QED
      BY <2>1, <3>1
  <2>3. /\ UNCHANGED <<writers, wleft, log, ranged, accepted>>
        /\ \A w \in RangeOf(writers) : flushed'[w] = Len(log[w])
    BY <1>0, <1>6, RangeTyped DEF AwaitDone, Awaited, Flushing, writer, TypeOK
  <2> QED
    BY <2>1, <2>2, <2>3 DEF ClosedMeansWritten
<1>7. CASE Recv \/ RecvClosed \/ RangeWriters \/ WriteOne \/ PutBack \/ FlushTick
  <2>1. UNCHANGED <<pc, proc>> /\ proc = "running" /\ wpc # "done"
    BY <1>7, NextWriter DEF Recv, RecvWhen, RecvClosed, ReturnWith, RangeWriters, RangeOver,
       WriteOne, PutBack, FlushTick, Flush, Background, caller
  <2> QED
    BY <1>0, <2>1 DEF Drained, ClosedMeansWritten
<1> QED
  BY <1>1, <1>2, <1>3, <1>4, <1>5, <1>6, <1>7, StepCases

\* The steps that touch what Registering speaks of.
LEMMA RegisteringStep ==
  ASSUME IInv, [Next]_vars
  PROVE  Registering'
<1>0. TypeOK /\ HeldWhere /\ Registering
  BY DEF IInv
<1>1. CASE RegisterWriter
  <2> DEFINE w == Head(todo)
  <2>1. /\ w \in WriterNames /\ todo # <<>>
        /\ writers' = Append(writers, w) /\ todo' = Tail(todo)
        /\ since' = [since EXCEPT ![w] = ranged]
        /\ UNCHANGED <<conf, wleft, ranged>>
    BY <1>1 DEF RegisterWriter, writer
  <2>2. /\ RangeOf(todo) = RangeOf(todo') \cup {w}
        /\ NoRepeat(todo') /\ w \notin RangeOf(todo')
    BY <1>0, <2>1, RangeTail, NoRepeatTail DEF TypeOK, Registering
  <2> HIDE DEF w
  <2>3. w \notin RangeOf(writers)
    BY <1>0, <2>2 DEF Registering
  <2>4. NoRepeat(writers') /\ RangeOf(writers') = RangeOf(writers) \cup {w}
    BY <1>0, <2>1, <2>3, RangeAppend, NoRepeatAppend DEF TypeOK, Registering
  <2>5. /\ RangeOf(todo') \cap RangeOf(writers') = {}
        /\ "wf" \in RangeOf(todo') \cup RangeOf(writers') => conf.wf
    BY <1>0, <2>2, <2>4 DEF Registering
  <2>6. /\ \A v \in WriterNames : since'[v] <= ranged
        /\ \A v \in RangeOf(wleft) : since'[v] < ranged
    <3>1. w \notin RangeOf(wleft) /\ RangeOf(wleft) \subseteq WriterNames
      BY <1>0, <2>3, RangeTyped DEF TypeOK, HeldWhere
    <3>2. \A v \in WriterNames : since'[v] = IF v = w THEN ranged ELSE since[v]
      BY <1>0, <2>1 DEF TypeOK
    <3>3. ranged <= ranged
      BY <1>0 DEF TypeOK
    <3> QED
      BY <1>0, <3>1, <3>2, <3>3 DEF Registering
  <2> QED
    BY <1>0, <2>1, <2>2, <2>4, <2>5, <2>6 DEF Registering
<1>2. CASE SetLevel
  <2>1. /\ todo # <<>> /\ todo' = Tail(todo)
        /\ UNCHANGED <<conf, writers, wleft, since, ranged>>
    BY <1>2 DEF SetLevel, writer
  <2>2. RangeOf(todo') \subseteq RangeOf(todo) /\ NoRepeat(todo')
    BY <1>0, <2>1, RangeTail, NoRepeatTail DEF TypeOK, Registering
  <2> QED
    BY <1>0, <2>1, <2>2 DEF Registering
<1>3. CASE InitAborts
  <2>1. NoRepeat(<<>>)
    BY DEF NoRepeat
  <2> QED
    BY <1>0, <1>3, <2>1, RangeEmpty DEF InitAborts, logger, writer, Registering
<1>4. ASSUME NEW g \in Goroutines,
             \/ Send(g) \/ CloseChan(g) \/ AwaitDone(g)
             \/ \E lv \in Levels : Deliver(g, lv, "send") \/ Deliver(g, lv, "sendFatal")
      PROVE  Registering'
  <2>1. UNCHANGED <<conf, todo, writers, wleft, since, ranged>>
    BY <1>4 DEF Deliver, Send, SendTo, CloseChan, AwaitDone, Awaited, InBackground, writer
  <2> QED
    BY <1>0, <2>1 DEF Registering
<1>5. CASE Recv \/ RecvClosed \/ PutBack \/ FlushTick \/ MainReturns \/ UNCHANGED vars
  <2>1. UNCHANGED <<conf, todo, writers, wleft, since, ranged>>
    BY <1>5 DEF Recv, RecvWhen, RecvClosed, ReturnWith, PutBack, FlushTick, Flush, Background,
       MainReturns, vars, logger, writer
  <2> QED
    BY <1>0, <2>1 DEF Registering
<1>6. CASE RangeWriters
  <2>1. /\ UNCHANGED <<conf, todo, writers, since>>
        /\ wleft' = writers /\ ranged' = ranged + 1
    BY <1>6 DEF RangeWriters, RangeOver, Background
  <2>2. /\ \A v \in WriterNames : since[v] <= ranged + 1
        /\ \A v \in RangeOf(writers) : since[v] < ranged + 1
    <3>1. ranged \in Nat /\ \A v \in WriterNames : since[v] \in Nat /\ since[v] <= ranged
      BY <1>0 DEF TypeOK, Registering
    <3>2. RangeOf(writers) \subseteq WriterNames
      BY <1>0, RangeTyped DEF TypeOK
    <3> QED
      BY <3>1, <3>2
  <2> QED
    BY <1>0, <2>1, <2>2 DEF Registering
<1>7. CASE WriteOne
  <2>1. /\ UNCHANGED <<conf, todo, writers, since, ranged>>
        /\ wleft # <<>> /\ wleft' = Tail(wleft)
    BY <1>7 DEF WriteOne, Background
  <2>2. RangeOf(wleft') \subseteq RangeOf(wleft) /\ NoRepeat(wleft')
    BY <1>0, <2>1, RangeTail, NoRepeatTail DEF TypeOK, Registering
  <2> QED
    BY <1>0, <2>1, <2>2 DEF Registering
<1> QED
  BY <1>1, <1>2, <1>3, <1>4, <1>5, <1>6, <1>7, StepCases
-----------------------------------------------------------------------------
(* The theorems *)

\* A Record has one owner from recordPool.Get to recordPool.Put, the channel
\* holds what was accepted, and the writer goroutine returns drained: in every
\* reachable state.
THEOREM LoggerInvariant == Spec => []IInv
<1>1. IInv /\ [Next]_vars => IInv'
  BY TypeOKStep, HeldWhereStep, FilledStep, OneOwnerStep, QueueHoldsAcceptedStep,
     DrainedStep, UnregisteredIsEmptyStep, ClosedMeansWrittenStep, RegisteringStep DEF IInv
<1> QED
  BY InitIInv, <1>1, PTL DEF Spec

\* Nothing is lost, duplicated, reordered or overwritten between the send of a
\* record and its range loop.
THEOREM NothingLostInTheChannel == Spec => []QueueHoldsAccepted
<1>1. IInv => QueueHoldsAccepted
  BY DEF IInv
<1> QED
  BY LoggerInvariant, <1>1, PTL

\* When Close has returned, or Fatal has ended the process, every accepted
\* record was written and flushed.
THEOREM CloseDrains == Spec => []ClosedMeansWritten
<1>1. IInv => ClosedMeansWritten
  BY DEF IInv
<1> QED
  BY LoggerInvariant, <1>1, PTL
-----------------------------------------------------------------------------
(* What each writer was given *)

\* How far the writer goroutine is behind what was accepted.
LEMMA WrittenBound ==
  ASSUME IInv
  PROVE  /\ Len(accepted) \in Nat /\ ranged \in Nat
         /\ ranged <= Len(accepted)
         /\ wpc = "range" => ranged < Len(accepted) /\ wleft = <<>>
         /\ wleft # <<>> => ranged > 0
<1>1. Len(accepted) \in Nat /\ Len(recordChan) \in Nat /\ ranged \in Nat
  BY RangeTyped DEF IInv, TypeOK
<1> QED
  BY <1>1 DEF IInv, QueueHoldsAccepted, HeldWhere

\* A writer that was given nothing was given what was due: nothing.
LEMMA PicksNothing == \A acc : PicksInOrder(<<>>, acc, {})
<1> DEFINE none == <<>>
<1>1. Len(none) = 0 /\ none \in [1..Len(none) -> {}]
  OBVIOUS
<1>2. {none[k] : k \in 1..Len(none)} = {}
  BY <1>1
<1> QED
  BY <1>1, <1>2 DEF PicksInOrder

\* A writer that is given the next record it is due has been given them in order.
LEMMA PicksNext ==
  ASSUME NEW S, NEW l \in Seq(S), NEW acc, NEW due \in SUBSET Int, NEW n \in Int,
         PicksInOrder(l, acc, due), \A i \in due : i < n, acc[n] \in S
  PROVE  PicksInOrder(Append(l, acc[n]), acc, due \cup {n})
<1> DEFINE m == Len(l)
           r == Append(l, acc[n])
<1>1. /\ m \in Nat /\ Len(r) = m + 1
      /\ \A i \in 1..m : r[i] = l[i]
      /\ r[m + 1] = acc[n]
  BY LenProperties, RangeAppend
<1>2. PICK place \in [1..m -> due] :
         /\ due = {place[k] : k \in 1..m}
         /\ \A j, k \in 1..m : j < k => place[j] < place[k]
         /\ \A k \in 1..m : l[k] = acc[place[k]]
  BY DEF PicksInOrder
<1> HIDE DEF m, r
<1> DEFINE more == [k \in 1..m + 1 |-> IF k \in 1..m THEN place[k] ELSE n]
<1>3. /\ \A k \in 1..m : k \in 1..m + 1 /\ more[k] = place[k]
      /\ m + 1 \in 1..m + 1 /\ more[m + 1] = n
      /\ \A k \in 1..m + 1 : k \in 1..m \/ k = m + 1
  BY <1>1
<1>4. more \in [1..m + 1 -> due \cup {n}]
  BY <1>2
<1> HIDE DEF more
<1>5. due \cup {n} = {more[k] : k \in 1..m + 1}
  BY <1>2, <1>3
<1>6. ASSUME NEW j \in 1..m + 1, NEW k \in 1..m + 1, j < k
      PROVE  more[j] < more[k]
  <2>1. j \in 1..m
    BY <1>1, <1>6
  <2>2. CASE k \in 1..m
    BY <1>2, <1>3, <1>6, <2>1, <2>2
  <2>3. CASE k = m + 1
    BY <1>2, <1>3, <2>1, <2>3
  <2> QED
    BY <1>3, <2>2, <2>3
<1>7. \A k \in 1..m + 1 : r[k] = acc[more[k]]
  BY <1>1, <1>2, <1>3
<1>8. PicksInOrder(r, acc, due \cup {n})
  BY <1>1, <1>4, <1>5, <1>6, <1>7 DEF PicksInOrder
<1> QED
  BY <1>8 DEF r

\* What was picked stays picked when the channel accepts more.
LEMMA PicksSame ==
  ASSUME NEW l, NEW acc, NEW acc2, NEW due,
         PicksInOrder(l, acc, due), \A i \in due : acc2[i] = acc[i]
  PROVE  PicksInOrder(l, acc2, due)
BY DEF PicksInOrder

\* Due speaks of records that were accepted and whose range loop has started.
LEMMA DueIsRanged ==
  ASSUME IInv, NEW w \in WriterNames
  PROVE  /\ Seen(w) \in Int /\ since[w] \in Nat /\ Seen(w) <= ranged
         /\ Due(w) \subseteq 1..Seen(w)
         /\ Due(w) \subseteq 1..Len(accepted)
<1>1. /\ ranged \in Nat /\ since[w] \in Nat
      /\ Len(accepted) \in Nat /\ ranged <= Len(accepted)
  BY WrittenBound DEF IInv, TypeOK
<1>2. Seen(w) \in Int /\ Seen(w) <= ranged
  BY <1>1 DEF Seen
<1>3. \A i \in Due(w) : i \in 1..Seen(w) /\ i \in 1..Len(accepted)
  BY <1>1, <1>2 DEF Due
<1> QED
  BY <1>1, <1>2, <1>3

\* A step that gives w nothing, nor makes it due anything, keeps what it was given.
LEMMA KeepsLog ==
  ASSUME IInv, WriterLogs, NEW w \in WriterNames, w \in RangeOf(writers),
         conf' = conf, log'[w] = log[w], since'[w] = since[w], Seen(w)' = Seen(w),
         \A i \in 1..Len(accepted) : accepted'[i] = accepted[i]
  PROVE  PicksInOrder(log[w], accepted, Due(w))'
<1>1. PicksInOrder(log[w], accepted, Due(w))
  BY DEF WriterLogs
<1>2. /\ since[w] \in Nat /\ Seen(w) \in Int
      /\ \A i \in (since[w] + 1)..Seen(w) : accepted'[i] = accepted[i]
  <2>1. /\ ranged \in Nat /\ Len(accepted) \in Nat /\ ranged <= Len(accepted)
        /\ Seen(w) \in Int /\ since[w] \in Nat /\ Seen(w) <= ranged
    BY WrittenBound, DueIsRanged
  <2> QED
    BY <2>1
<1>3. \A i \in (since[w] + 1)..Seen(w) :
         Passes(w, accepted[i].level)' = Passes(w, accepted[i].level)
  BY <1>2 DEF Passes
<1>4. Due(w)' = Due(w)
  BY <1>3 DEF Due
<1>5. \A i \in Due(w) : accepted'[i] = accepted[i]
  BY <1>2 DEF Due
<1>6. PicksInOrder(log[w], accepted', Due(w))
  BY <1>1, <1>5, PicksSame
<1> QED
  BY <1>4, <1>6

\* Only these steps register a writer, or give one something, or make it due one.
LEMMA WriterLogsStep ==
  ASSUME IInv, IInv', WriterLogs, [Next]_vars
  PROVE  WriterLogs'
<1>0. /\ TypeOK /\ HeldWhere /\ Registering
      /\ ranged \in Nat /\ Len(accepted) \in Nat
      /\ RangeOf(writers) \subseteq WriterNames
  BY WrittenBound, RangeTyped DEF IInv, TypeOK
<1>1. ASSUME UNCHANGED <<conf, writers, log, wleft, ranged, since>>,
             \A i \in 1..Len(accepted) : accepted'[i] = accepted[i]
      PROVE  WriterLogs'
  <2>1. \A w \in WriterNames : Seen(w)' = Seen(w) /\ since'[w] = since[w]
    BY <1>1 DEF Seen
  <2> SUFFICES ASSUME NEW w \in WriterNames
               PROVE  IF w \in RangeOf(writers)
                      THEN PicksInOrder(log[w], accepted, Due(w))'
                      ELSE log[w] = <<>>
    BY <1>1 DEF WriterLogs
  <2> QED
    BY <1>1, <2>1, KeepsLog DEF WriterLogs
<1>2. CASE RegisterWriter
  <2> SUFFICES ASSUME NEW v \in WriterNames, v = Head(todo)
               PROVE  WriterLogs'
    BY <1>2 DEF RegisterWriter
  <2>1. /\ todo # <<>>
        /\ writers' = Append(writers, v)
        /\ since' = [since EXCEPT ![v] = ranged]
        /\ UNCHANGED <<conf, log, wleft, ranged, accepted>>
    BY <1>2 DEF RegisterWriter, writer, output
  <2>2. v \in RangeOf(todo)
    BY <1>0, <2>1, RangeTail DEF TypeOK
  <2>3. RangeOf(writers') = RangeOf(writers) \cup {v} /\ v \notin RangeOf(writers)
    BY <1>0, <2>1, <2>2, RangeAppend DEF TypeOK, Registering
  <2>4. \A w \in WriterNames : since'[w] = IF w = v THEN ranged ELSE since[w]
    BY <1>0, <2>1 DEF TypeOK
  <2>5. \A w \in WriterNames : Seen(w)' = Seen(w)
    BY <2>1 DEF Seen
  <2>6. PicksInOrder(log[v], accepted, Due(v))'
    <3>1. log[v] = <<>> /\ v \notin RangeOf(wleft)
      BY <1>0, <2>1, <2>3 DEF WriterLogs, HeldWhere
    <3>2. Due(v)' = {}
      <4>1. since'[v] = ranged /\ Seen(v)' = ranged
        BY <2>1, <2>4, <2>5, <3>1 DEF Seen
      <4>2. (ranged + 1)..ranged = {}
        BY <1>0
      <4> QED
        BY <4>1, <4>2 DEF Due
    <3> QED
      BY <2>1, <3>1, <3>2, PicksNothing
  <2> SUFFICES ASSUME NEW w \in WriterNames
               PROVE  IF w \in RangeOf(writers')
                      THEN PicksInOrder(log[w], accepted, Due(w))'
                      ELSE log[w] = <<>>
    BY <2>1 DEF WriterLogs
  <2>7. CASE w \in RangeOf(writers)
    BY <2>1, <2>3, <2>4, <2>5, <2>7, KeepsLog
  <2> QED
    BY <2>3, <2>6, <2>7 DEF WriterLogs
<1>3. CASE SetLevel \/ InitAborts \/ MainReturns \/ UNCHANGED vars
  BY <1>1, <1>3 DEF SetLevel, InitAborts, MainReturns, vars, logger, writer, output
<1>4. ASSUME NEW g \in Goroutines,
             \/ CloseChan(g) \/ AwaitDone(g)
             \/ \E lv \in Levels : Deliver(g, lv, "send") \/ Deliver(g, lv, "sendFatal")
      PROVE  WriterLogs'
  BY <1>1, <1>4 DEF Deliver, CloseChan, AwaitDone, Awaited, InBackground, writer
<1>5. ASSUME NEW g \in Goroutines, Send(g)
      PROVE  WriterLogs'
  <2>1. rec[obj[g]] \in Records
    BY <1>5, SentRecord DEF Send, SendTo
  <2>2. \A i \in 1..Len(accepted) : Append(accepted, rec[obj[g]])[i] = accepted[i]
    BY <1>0, <2>1, RangeAppend DEF TypeOK
  <2>3. accepted' = Append(accepted, rec[obj[g]]) \/ accepted' = accepted
    BY <1>5 DEF Send, SendTo
  <2> QED
    BY <1>1, <1>5, <2>2, <2>3 DEF Send, SendTo, InBackground, writer
<1>6. CASE Recv \/ RecvClosed \/ PutBack \/ FlushTick
  BY <1>1, <1>6 DEF Recv, RecvWhen, RecvClosed, ReturnWith, PutBack, FlushTick, Flush,
     Background, writer, output
<1>7. CASE RangeWriters
  <2>1. /\ UNCHANGED <<conf, writers, since, accepted, log>>
        /\ wpc = "range" /\ wleft' = writers /\ ranged' = ranged + 1
    BY <1>7 DEF RangeWriters, RangeOver, Background, output
  <2>2. wleft = <<>>
    BY <1>0, <2>1 DEF HeldWhere
  <2>3. \A w \in RangeOf(writers) : Seen(w)' = Seen(w)
    <3>1. ranged' - 1 = ranged
      BY <1>0, <2>1
    <3> QED
      BY <2>1, <2>2, <3>1, RangeEmpty DEF Seen
  <2> SUFFICES ASSUME NEW w \in WriterNames
               PROVE  IF w \in RangeOf(writers)
                      THEN PicksInOrder(log[w], accepted, Due(w))'
                      ELSE log[w] = <<>>
    BY <2>1 DEF WriterLogs
  <2> QED
    BY <2>1, <2>3, KeepsLog DEF WriterLogs
<1>8. CASE WriteOne
  <2> SUFFICES ASSUME NEW v \in WriterNames, v = Head(wleft)
               PROVE  WriterLogs'
    BY <1>8, NextWriter DEF WriteOne
  <2> DEFINE passes == Passes(v, rec[wrec].level)
  <2>1. /\ UNCHANGED <<conf, writers, since, accepted, ranged>>
        /\ wpc = "write" /\ wleft # <<>> /\ wleft' = Tail(wleft)
        /\ log' = [log EXCEPT ![v] = IF passes THEN Append(log[v], rec[wrec]) ELSE log[v]]
    BY <1>8 DEF WriteOne, Background
  <2>2. v \in RangeOf(writers)
    BY <2>1, NextWriter
  <2>3. /\ RangeOf(wleft) = RangeOf(wleft') \cup {v}
        /\ v \notin RangeOf(wleft')
    BY <1>0, <2>1, RangeTail, NoRepeatTail DEF TypeOK, Registering
  <2> HIDE DEF passes
  <2>4. /\ rec[wrec] = accepted[ranged] /\ ranged > 0
        /\ ranged \in 1..Len(accepted) /\ accepted[ranged] \in Records
    <3>1. /\ ranged = Len(accepted) - Len(recordChan)
          /\ rec[wrec] = accepted[Len(accepted) - Len(recordChan)]
          /\ Len(accepted) - Len(recordChan) > 0
      BY <2>1, RangeTyped DEF IInv, TypeOK, QueueHoldsAccepted
    <3> QED
      BY <1>0, <2>1, <3>1, WritersRecord, WrittenBound
  <2>5. since[v] \in Nat /\ since[v] < ranged
    BY <1>0, <2>2, <2>3 DEF TypeOK, Registering
  <2>6. Seen(v) = ranged - 1 /\ Seen(v)' = ranged
    BY <2>1, <2>3 DEF Seen
  <2>7. PicksInOrder(log[v], accepted, Due(v))
    BY <2>2 DEF WriterLogs
  <2>8. Due(v)' = IF passes THEN Due(v) \cup {ranged} ELSE Due(v)
    <3>1. (since[v] + 1)..ranged = ((since[v] + 1)..(ranged - 1)) \cup {ranged}
      BY <1>0, <2>5
    <3>2. \A i \in (since[v] + 1)..ranged :
             Passes(v, accepted[i].level)' <=> Passes(v, accepted[i].level)
      BY <2>1 DEF Passes
    <3>3. Due(v)' = {i \in (since[v] + 1)..ranged : Passes(v, accepted[i].level)}
      BY <2>1, <2>6, <3>2 DEF Due
    <3>4. Due(v) = {i \in (since[v] + 1)..(ranged - 1) : Passes(v, accepted[i].level)}
      BY <2>6 DEF Due
    <3>5. passes <=> Passes(v, accepted[ranged].level)
      BY <2>4 DEF passes
    <3> QED
      BY <3>1, <3>3, <3>4, <3>5
  <2>9. PicksInOrder(log[v], accepted, Due(v))'
    <3>1. CASE passes
      <4>1. \A i \in Due(v) : i \in Int /\ i < ranged
        BY <1>0, <2>2, <2>6, DueIsRanged
      <4>2. log[v] \in Seq(Records)
        BY <1>0, <2>2 DEF TypeOK
      <4>3. PicksInOrder(Append(log[v], accepted[ranged]), accepted, Due(v) \cup {ranged})
        <5> DEFINE due == Due(v)
        <5>1. due \in SUBSET Int /\ ranged \in Int /\ \A i \in due : i < ranged
          BY <1>0, <4>1
        <5> HIDE DEF due
        <5>2. PicksInOrder(Append(log[v], accepted[ranged]), accepted, due \cup {ranged})
          BY <2>4, <2>7, <4>2, <5>1, PicksNext DEF due
        <5> QED
          BY <5>2 DEF due
      <4>4. log'[v] = Append(log[v], accepted[ranged])
        BY <1>0, <2>1, <2>2, <2>4, <3>1 DEF TypeOK
      <4> QED
        BY <2>1, <2>8, <3>1, <4>3, <4>4
    <3>2. CASE ~passes
      <4>1. log'[v] = log[v]
        BY <1>0, <2>1, <2>2, <3>2 DEF TypeOK
      <4> QED
        BY <2>1, <2>7, <2>8, <3>2, <4>1
    <3> QED
      BY <3>1, <3>2
  <2>10. \A w \in WriterNames \ {v} : log'[w] = log[w] /\ Seen(w)' = Seen(w)
    <3>1. \A w \in WriterNames \ {v} : w \in RangeOf(wleft') <=> w \in RangeOf(wleft)
      BY <2>3
    <3> QED
      BY <1>0, <2>1, <3>1 DEF TypeOK, Seen
  <2> SUFFICES ASSUME NEW w \in WriterNames, w # v
               PROVE  IF w \in RangeOf(writers)
                      THEN PicksInOrder(log[w], accepted, Due(w))'
                      ELSE log'[w] = <<>>
    BY <2>1, <2>2, <2>9 DEF WriterLogs
  <2> QED
    BY <2>1, <2>10, KeepsLog DEF WriterLogs
<1> QED
  BY <1>2, <1>3, <1>4, <1>5, <1>6, <1>7, <1>8, StepCases

\* Every writer was given exactly the records it accepts that were ranged over
\* since it was registered, in the order of the channel and each once.
THEOREM WritersGetTheirRecords == Spec => []WriterLogs
<1>1. Init => WriterLogs
  BY RangeEmpty DEF Init, WriterLogs
<1>2. IInv /\ IInv' /\ WriterLogs /\ [Next]_vars => WriterLogs'
  BY WriterLogsStep
<1> QED
  BY LoggerInvariant, <1>1, <1>2, PTL DEF Spec

\* Between two range loops a record that was ranged over since w was registered
\* is in w's log exactly when w accepts its level.
LEMMA GivenIfPasses ==
  ASSUME IInv, WriterLogs, wleft = <<>>, NEW w \in RangeOf(writers),
         NEW i \in 1..ranged, i > since[w]
  PROVE  accepted[i] \in RangeOf(log[w]) <=> Passes(w, accepted[i].level)
<1>1. w \in WriterNames /\ since[w] \in Nat /\ ranged \in Nat /\ Seen(w) = ranged
  BY RangeTyped, RangeEmpty DEF IInv, TypeOK, Seen
<1>2. PICK place \in [1..Len(log[w]) -> Due(w)] :
         /\ Due(w) = {place[k] : k \in 1..Len(log[w])}
         /\ \A k \in 1..Len(log[w]) : log[w][k] = accepted[place[k]]
  BY <1>1 DEF WriterLogs, PicksInOrder
<1>3. i \in Due(w) <=> Passes(w, accepted[i].level)
  BY <1>1 DEF Due
<1>4. ASSUME i \in Due(w) PROVE accepted[i] \in RangeOf(log[w])
  BY <1>2, <1>4 DEF RangeOf
<1>5. ASSUME accepted[i] \in RangeOf(log[w]) PROVE Passes(w, accepted[i].level)
  <2>1. PICK k \in 1..Len(log[w]) : accepted[i] = log[w][k]
    BY <1>5 DEF RangeOf
  <2>2. accepted[i] = accepted[place[k]] /\ place[k] \in Due(w)
    BY <1>2, <2>1
  <2> QED
    BY <2>2 DEF Due
<1> QED
  BY <1>3, <1>4, <1>5

\* When both files are open a record goes to exactly one of them: the ceiling
\* of the one is just below the floor of the other.
THEOREM FilesPartition == Spec => []FilesPartitionTheLog
<1>1. ASSUME IInv, WriterLogs PROVE FilesPartitionTheLog
  <2> SUFFICES ASSUME "info" \in RangeOf(writers), "wf" \in RangeOf(writers), wleft = <<>>,
                      NEW i \in 1..ranged, i > since["info"], i > since["wf"]
               PROVE  (accepted[i] \in RangeOf(log["info"]))
                        # (accepted[i] \in RangeOf(log["wf"]))
    BY DEF FilesPartitionTheLog
  <2>1. conf.wf
    BY <1>1 DEF IInv, Registering
  <2>2. accepted[i].level \in Nat
    <3>1. accepted \in Seq(Records) /\ i \in 1..Len(accepted)
      BY <1>1, WrittenBound DEF IInv, TypeOK
    <3>2. accepted[i] \in Records
      BY <3>1, ElementOfSeq
    <3>3. accepted[i].level \in Levels
      BY <3>2 DEF Records
    <3>4. Levels \subseteq Nat
      BY LoggerAssumption DEF LoggerAssumption, Levels, LogLevelFatal
    <3> QED
      BY <3>3, <3>4
  <2>3. accepted[i] \in RangeOf(log["info"]) <=> accepted[i].level <= LogLevelInfo
    BY <1>1, <2>1, GivenIfPasses DEF Passes
  <2>4. accepted[i] \in RangeOf(log["wf"]) <=> accepted[i].level >= LogLevelWarn
    BY <1>1, GivenIfPasses DEF Passes
  <2>5. (accepted[i].level <= LogLevelInfo) <=> ~(accepted[i].level >= LogLevelWarn)
    BY <2>2 DEF LogLevelInfo, LogLevelWarn
  <2>6. /\ (accepted[i] \in RangeOf(log["info"])) \in BOOLEAN
        /\ (accepted[i] \in RangeOf(log["wf"])) \in BOOLEAN
    OBVIOUS
  <2> QED
    BY <2>3, <2>4, <2>5, <2>6, Zenon
<1> QED
  BY LoggerInvariant, WritersGetTheirRecords, <1>1, PTL
-----------------------------------------------------------------------------
(* The logger implements LogSink *)

\* Steps that neither accept a record, nor finish writing one, nor close.
LEMMA Stutters ==
  ASSUME UNCHANGED accepted, written' = written, phase' = phase
  PROVE  UNCHANGED Sink!vars
BY DEF Sink!vars, written, phase

\* The sink is open exactly until the channel is closed.
LEMMA PhaseOf ==
  ASSUME IInv
  PROVE  /\ ~closed => phase = "open"
         /\ closed => phase \in {"closed", "flushed"}
         /\ c = 1 => phase = "closed"
BY DEF IInv, Drained, phase

LEMMA SinkStep ==
  ASSUME IInv, [Next]_vars
  PROVE  [Sink!Next]_Sink!vars
<1>0. TypeOK /\ HeldWhere
  BY DEF IInv
<1>1. CASE RegisterWriter \/ SetLevel \/ InitAborts \/ UNCHANGED vars
  BY <1>1, Stutters DEF RegisterWriter, SetLevel, InitAborts, vars, logger, writer,
     caller, written, phase
<1>2. CASE MainReturns
  BY <1>2, Stutters DEF MainReturns, logger, writer, caller, written, phase
<1>3. ASSUME NEW g \in Goroutines, NEW lv \in Levels,
             NEW next \in {"send", "sendFatal"}, Deliver(g, lv, next)
      PROVE  UNCHANGED Sink!vars
  <2>1. /\ UNCHANGED <<wleft, ranged, accepted, proc, closed>>
        /\ pc' = pc \/ pc' = [pc EXCEPT ![g] = next]
    BY <1>3 DEF Deliver, InBackground, writer
  <2>2. pc'[Main] = "closed" <=> pc[Main] = "closed"
    BY <1>0, <1>3, <2>1, LoggerAssumption DEF LoggerAssumption, TypeOK, Deliver
  <2> QED
    BY <2>1, <2>2, Stutters DEF written, phase
<1>4. ASSUME NEW g \in Goroutines, Send(g)
      PROVE  [Sink!Next]_Sink!vars
  <2>1. /\ UNCHANGED <<wleft, ranged, closed>> /\ proc = "running"
        /\ pc[g] \in {"send", "sendFatal"}
    BY <1>4 DEF Send, SendTo, InBackground, writer
  <2>2. CASE /\ ~closed /\ proc' = proc
             /\ accepted' = Append(accepted, rec[obj[g]])
             /\ pc' = [pc EXCEPT ![g] = IF @ = "send" THEN "idle" ELSE "closeFatal"]
    <3>1. rec[obj[g]] \in Records
      BY <2>1, SentRecord
    <3>2. phase = "open"
      BY <2>2, PhaseOf
    <3>3. pc'[Main] = "closed" <=> pc[Main] = "closed"
      BY <1>0, <2>1, <2>2, LoggerAssumption DEF LoggerAssumption, TypeOK
    <3>4. phase' = phase /\ written' = written
      BY <2>1, <2>2, <3>3 DEF phase, written
    <3>5. Sink!Accept(rec[obj[g]])
      BY <2>2, <3>2, <3>4 DEF Sink!Accept, written, phase
    <3> QED
      BY <3>1, <3>5 DEF Sink!Next
  <2>3. CASE proc' = "panicked" /\ UNCHANGED <<accepted, pc>>
    BY <2>1, <2>3, Stutters DEF written, phase
  <2> QED
    BY <1>4, <2>2, <2>3 DEF Send, SendTo
<1>5. ASSUME NEW g \in Goroutines, CloseChan(g)
      PROVE  [Sink!Next]_Sink!vars
  <2>1. /\ UNCHANGED <<wleft, ranged, accepted>> /\ proc = "running" /\ proc' # "exited"
        /\ closed'
    BY <1>5 DEF CloseChan, InBackground, writer
  <2>2. CASE closed /\ pc' = pc
    BY <2>1, <2>2, Stutters DEF written, phase
  <2>3. CASE ~closed /\ pc' = [pc EXCEPT ![g] = IF @ = "idle" THEN "await" ELSE "awaitFatal"]
    <3>1. phase = "open"
      BY <2>3, PhaseOf
    <3>2. pc'[Main] # "closed"
      BY <1>0, <2>1, <2>3, <3>1, LoggerAssumption DEF LoggerAssumption, TypeOK, phase
    <3>3. phase' = "closed" /\ written' = written
      BY <2>1, <3>2 DEF phase, written
    <3>4. Sink!Close
      BY <2>1, <3>1, <3>3 DEF Sink!Close, written, phase
    <3> QED
      BY <3>4 DEF Sink!Next
  <2> QED
    BY <1>5, <2>2, <2>3 DEF CloseChan
<1>6. ASSUME NEW g \in Goroutines, AwaitDone(g)
      PROVE  [Sink!Next]_Sink!vars
  <2>1. /\ UNCHANGED <<wleft, ranged, accepted, closed>> /\ c = 1
        /\ pc' = pc \/ pc' = [pc EXCEPT ![g] = "closed"]
    BY <1>6 DEF AwaitDone, Awaited, writer
  <2>2. phase = "closed" /\ phase' \in {"closed", "flushed"}
    BY <2>1, PhaseOf DEF phase
  <2>3. wleft = <<>> /\ ranged = Len(accepted)
    <3>1. wpc = "done" /\ recordChan = <<>>
      BY <2>1 DEF IInv, Drained
    <3>2. ranged = Len(accepted) - Len(recordChan) /\ Len(accepted) \in Nat
      BY <3>1, RangeTyped DEF IInv, QueueHoldsAccepted, TypeOK
    <3> QED
      BY <1>0, <3>1, <3>2 DEF HeldWhere
  <2>4. written = Len(accepted) /\ written' = written
    BY <2>1, <2>3, WrittenBound DEF written
  <2>5. CASE phase' = "flushed"
    <3>1. Sink!Flushed
      BY <2>1, <2>2, <2>4, <2>5 DEF Sink!Flushed, written, phase
    <3> QED
      BY <3>1 DEF Sink!Next
  <2>6. CASE phase' = phase
    BY <2>1, <2>4, <2>6, Stutters
  <2> QED
    BY <2>2, <2>5, <2>6
<1>7. CASE Recv \/ RecvClosed \/ PutBack \/ FlushTick
  <2>1. UNCHANGED <<wleft, ranged, accepted, closed, proc, pc>>
    BY <1>7 DEF Recv, RecvWhen, RecvClosed, ReturnWith, PutBack, FlushTick, Flush, Background,
       writer, caller
  <2> QED
    BY <2>1, Stutters DEF written, phase
<1>8. CASE RangeWriters
  <2>1. /\ UNCHANGED <<accepted, closed, proc, pc>> /\ wpc = "range"
        /\ ranged' = ranged + 1
    BY <1>8 DEF RangeWriters, RangeOver, Background, caller
  <2>2. phase' = phase
    BY <2>1 DEF phase
  <2>3. written = ranged /\ written < Len(accepted)
    BY <2>1, WrittenBound DEF written
  <2>4. CASE wleft' # <<>>
    <3>1. written' = written
      BY <2>1, <2>3, <2>4, WrittenBound DEF written
    <3> QED
      BY <2>1, <2>2, <3>1, Stutters
  <2>5. CASE wleft' = <<>>
    <3>1. written' = written + 1
      BY <2>1, <2>3, <2>5, WrittenBound DEF written
    <3>2. Sink!WriteNext
      BY <2>1, <2>2, <2>3, <3>1 DEF Sink!WriteNext, written, phase
    <3> QED
      BY <3>2 DEF Sink!Next
  <2> QED
    BY <2>4, <2>5
<1>9. CASE WriteOne
  <2>1. /\ UNCHANGED <<accepted, closed, proc, pc, ranged>> /\ wleft # <<>>
    BY <1>9 DEF WriteOne, Background, caller
  <2>2. phase' = phase
    BY <2>1 DEF phase
  <2>3. written = ranged - 1 /\ written < Len(accepted)
    BY <2>1, WrittenBound DEF written
  <2>4. CASE wleft' # <<>>
    <3>1. written' = written
      BY <2>1, <2>3, <2>4 DEF written
    <3> QED
      BY <2>1, <2>2, <3>1, Stutters
  <2>5. CASE wleft' = <<>>
    <3>1. written' = written + 1
      BY <2>1, <2>3, <2>5, WrittenBound DEF written
    <3>2. Sink!WriteNext
      BY <2>1, <2>2, <2>3, <3>1 DEF Sink!WriteNext, written, phase
    <3> QED
      BY <3>2 DEF Sink!Next
  <2> QED
    BY <2>4, <2>5
<1> QED
  BY <1>1, <1>2, <1>3, <1>4, <1>5, <1>6, <1>7, <1>8, <1>9, StepCases DEF Sink!vars

LEMMA SinkInit == Init => Sink!Init
BY LoggerAssumption DEF LoggerAssumption, Init, Sink!Init, written, phase

\* The goroutines, the channel, recordPool and the writers implement the
\* abstract sink: a record is accepted once, written once and in order, and
\* Close returns only when all of them are written.
THEOREM LoggerImplementsSink == Spec => ImplementsSink
BY SinkInit, SinkStep, LoggerInvariant, PTL DEF Spec, ImplementsSink, Sink!Spec
=============================================================================
