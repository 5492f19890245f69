------------------------ MODULE FileRotationProofs ------------------------
(***************************************************************************)
(* Proofs about FileRotation for every retention, set of faults and bound. *)
(***************************************************************************)
EXTENDS FileRotation, SequenceTheorems, FiniteSetTheorems,
        FunctionTheorems, WellFoundedInduction, TLAPS

\* The records that are not lost, and their numbers.
Held   == OnDisk \cup RecordsOf(buf)
Kept   == {r.n : r \in Held}

\* No record has a number that was not given out.
Counted == \A r \in Held : r.n <= count

Ascending(s) == \A i, k \in 1..Len(s) : i < k => s[i] < s[k]

\* The names given so far are hours before the one the current file will get,
\* and historyFileSuffix has them in order.
NamesInOrder ==
    /\ suffix <= hour
    /\ \A h \in DOMAIN rotated : h < suffix
    /\ Ascending(history) /\ \A i \in 1..Len(history) : history[i] < suffix

\* The records of one set were written before those of another.
Precedes(A, B) == \A a \in A, b \in B : a.n < b.n

\* Each file is in the order of writing, and what the buffer adds to the last.
EachInOrder == InOrder(Current) /\ \A h \in DOMAIN rotated : InOrder(rotated[h])

\* What stands in the files and the buffer, in the order of writing.
ContentInOrder ==
    /\ \A h, k \in DOMAIN rotated :
          h < k => Precedes(RecordsOf(rotated[h]), RecordsOf(rotated[k]))
    /\ \A h \in DOMAIN rotated : Precedes(RecordsOf(rotated[h]), RecordsOf(Current))

\* No record stands in a file of an hour after its own.
InItsHour ==
    /\ \A h \in DOMAIN rotated : \A r \in RecordsOf(rotated[h]) : h <= r.at
    /\ \A r \in RecordsOf(Current) : suffix <= r.at

\* Every renamed file is in the history.
Known == DOMAIN rotated \subseteq RecordsOf(history)

\* While files are open there are more than Retain names only when the file
\* that has to go is gone.
Retained == Len(history) > Retain /\ open => Head(history) \notin DOMAIN rotated

\* Nothing is missing after some number up to the last, which is that of the last
\* record if no flush failed, nor, while no file was overdue, before.
UpTo(numbers, last) == \E first \in 1..(last + 1) : numbers = first..last

Complete ==
    \E last \in 0..count :
       /\ ~sticky => last = count
       /\ UpTo(Kept, last)
       /\ Len(history) < Retain => Kept = 1..last

Ordered == setBacks = 0 => NamesInOrder /\ ContentInOrder

Placed == restarts = 0 /\ setBacks = 0 => InItsHour /\ Known

Whole == restarts = 0 /\ setBacks = 0 /\ cleanups = 0 => Complete

IInv == /\ TypeOK /\ Counted /\ EachInOrder
        /\ Ordered /\ Placed
        /\ restarts = 0 /\ setBacks = 0 /\ "remove" \notin Faults => Retained
        /\ Whole
-----------------------------------------------------------------------------
(* Sequences of records, and files by name *)

\* A sequence put after another adds its records to those of the other.
LEMMA RecordsOfConcat ==
  ASSUME NEW s \in Seq(Records), NEW t \in Seq(Records)
  PROVE  /\ s \o t \in Seq(Records)
         /\ RecordsOf(s \o t) = RecordsOf(s) \cup RecordsOf(t)
<1> DEFINE st == s \o t
<1>1. /\ st \in Seq(Records)
      /\ Len(st) = Len(s) + Len(t)
      /\ \A i \in 1..(Len(s) + Len(t)) :
            st[i] = IF i <= Len(s) THEN s[i] ELSE t[i - Len(s)]
  BY ConcatProperties
<1>2. Len(s) \in Nat /\ Len(t) \in Nat
  BY LenProperties
<1> HIDE DEF st
<1>3. \A i \in 1..Len(s) : i \in 1..Len(st) /\ st[i] = s[i]
  BY <1>1, <1>2
<1>4. \A i \in 1..Len(t) : i + Len(s) \in 1..Len(st) /\ st[i + Len(s)] = t[i]
  BY <1>1, <1>2
<1>5. \A i \in 1..Len(st) : \/ i \in 1..Len(s) /\ st[i] = s[i]
                            \/ i - Len(s) \in 1..Len(t) /\ st[i] = t[i - Len(s)]
  BY <1>1, <1>2
<1>6. RecordsOf(s) \subseteq RecordsOf(st) /\ RecordsOf(t) \subseteq RecordsOf(st)
  BY <1>3, <1>4 DEF RecordsOf
<1>7. ASSUME NEW r \in RecordsOf(st) PROVE r \in RecordsOf(s) \cup RecordsOf(t)
  <2>1. PICK i \in 1..Len(st) : r = st[i]
    BY DEF RecordsOf
  <2> QED
    BY <1>5, <2>1 DEF RecordsOf
<1> QED
  BY <1>1, <1>6, <1>7 DEF st

\* What is appended becomes a member, and the last one.
LEMMA MembersOfAppend ==
  ASSUME NEW S, NEW s \in Seq(S), NEW e \in S
  PROVE  /\ Append(s, e) \in Seq(S) /\ Append(s, e) # <<>>
         /\ Len(s) \in Nat /\ Len(Append(s, e)) = Len(s) + 1
         /\ \A i \in 1..Len(s) : Append(s, e)[i] = s[i]
         /\ Append(s, e)[Len(s) + 1] = e
         /\ RecordsOf(Append(s, e)) = RecordsOf(s) \cup {e}
<1> DEFINE r == Append(s, e)
<1>1. /\ Len(s) \in Nat /\ Len(r) = Len(s) + 1 /\ r \in Seq(S)
      /\ r # <<>>
      /\ \A i \in 1..Len(s) : r[i] = s[i]
      /\ r[Len(s) + 1] = e
  BY AppendProperties, LenProperties
<1> HIDE DEF r
<1>2. /\ \A i \in 1..Len(r) : i \in 1..Len(s) \/ i = Len(s) + 1
      /\ Len(s) + 1 \in 1..Len(r) /\ 1..Len(s) \subseteq 1..Len(r)
  BY <1>1
<1>3. RecordsOf(r) = RecordsOf(s) \cup {e}
  BY <1>1, <1>2 DEF RecordsOf
<1> QED
  BY <1>1, <1>3 DEF r

\* Removing the first leaves the others in their order.
LEMMA MembersOfTail ==
  ASSUME NEW S, NEW s \in Seq(S), s # <<>>
  PROVE  /\ Tail(s) \in Seq(S)
         /\ Len(s) \in Nat \ {0} /\ Len(Tail(s)) = Len(s) - 1
         /\ Head(s) = s[1] /\ Head(s) \in S
         /\ \A i \in 1..(Len(s) - 1) : Tail(s)[i] = s[i + 1]
         /\ RecordsOf(s) = {Head(s)} \cup RecordsOf(Tail(s))
<1> DEFINE r == Tail(s)
<1>1. /\ r \in Seq(S)
      /\ Len(r) = Len(s) - 1 /\ Len(s) \in Nat \ {0}
      /\ Head(s) = s[1] /\ Head(s) \in S
      /\ \A i \in 1..(Len(s) - 1) : r[i] = s[i + 1]
  BY HeadTailProperties, EmptySeq
<1> HIDE DEF r
<1>2. \A i \in 1..Len(s) : i = 1 \/ (i - 1 \in 1..Len(r) /\ r[i - 1] = s[i])
  BY <1>1
<1>3. 1 \in 1..Len(s) /\ \A i \in 1..Len(r) : i + 1 \in 1..Len(s) /\ r[i] = s[i + 1]
  BY <1>1
<1>4. {Head(s)} \cup RecordsOf(r) \subseteq RecordsOf(s)
  BY <1>1, <1>3 DEF RecordsOf
<1>5. ASSUME NEW x \in RecordsOf(s) PROVE x \in {Head(s)} \cup RecordsOf(r)
  <2>1. PICK i \in 1..Len(s) : x = s[i]
    BY DEF RecordsOf
  <2> QED
    BY <1>1, <1>2, <2>1 DEF RecordsOf
<1> QED
  BY <1>1, <1>4, <1>5 DEF r

\* An empty file or buffer has no record.
LEMMA RecordsOfEmpty ==
  /\ \A S : <<>> \in Seq(S)
  /\ Len(<<>>) = 0
  /\ RecordsOf(<<>>) = {}
BY DEF RecordsOf

\* A renamed file joins the others under its name.
LEMMA Renaming ==
  ASSUME NEW f, NEW s, NEW c
  PROVE  /\ DOMAIN Adding(f, s, c) = DOMAIN f \cup {s}
         /\ Adding(f, s, c)[s] = c
         /\ \A h \in DOMAIN f \ {s} : Adding(f, s, c)[h] = f[h]
BY DEF Adding

\* The numbers order the records the way Before compares sequences.
LEMMA BeforeIsPrecedes ==
  ASSUME NEW s, NEW t
  PROVE  Before(s, t) <=> Precedes(RecordsOf(s), RecordsOf(t))
BY DEF Before, Precedes, RecordsOf

\* Records are what the sequences hold.
LEMMA RecordsOfType ==
  ASSUME TypeOK
  PROVE  /\ RecordsOf(live) \subseteq Records
         /\ RecordsOf(buf) \subseteq Records
         /\ \A h \in DOMAIN rotated : RecordsOf(rotated[h]) \subseteq Records
         /\ RecordsOf(history) \subseteq Hours
BY ElementOfSeq DEF TypeOK, RecordsOf

\* The current file is what is in it and what is still in the buffer.
LEMMA RecordsOfCurrent ==
  ASSUME TypeOK
  PROVE  /\ Current \in Seq(Records)
         /\ RecordsOf(Current) = RecordsOf(live) \cup RecordsOf(buf)
BY RecordsOfConcat DEF TypeOK, Current

\* A flush that stops half-way leaves the rest behind what it wrote.
LEMMA HalfFlushed ==
  ASSUME NEW s \in Seq(Records), NEW t \in Seq(Records), NEW n \in 0..(Len(t) - 1)
  PROVE  LET put == SubSeq(t, 1, n)  rest == SubSeq(t, n + 1, Len(t))
         IN  /\ put \in Seq(Records) /\ rest \in Seq(Records)
             /\ s \o put \in Seq(Records)
             /\ (s \o put) \o rest = s \o t
             /\ RecordsOf(s) \subseteq RecordsOf(s \o put)
<1> DEFINE put == SubSeq(t, 1, n)
           rest == SubSeq(t, n + 1, Len(t))
<1>1. Len(t) \in Nat /\ n \in Nat /\ n < Len(t) /\ \A i \in 1..Len(t) : t[i] \in Records
  BY LenProperties, ElementOfSeq
<1>2. put \in Seq(Records)
  <2>1. \A i \in 1..n : t[i] \in Records
    BY <1>1
  <2> QED
    BY <1>1, <2>1, SubSeqProperties
<1>3. rest \in Seq(Records)
  <2>1. n + 1 \in Int /\ \A i \in (n + 1)..Len(t) : t[i] \in Records
    BY <1>1
  <2> QED
    BY <1>1, <2>1, SubSeqProperties
<1>4. put \o rest = t
  <2>1. 1 \in 1..(Len(t) + 1) /\ n \in (1 - 1)..Len(t) /\ Len(t) \in n..Len(t)
    BY <1>1
  <2>2. put \o rest = SubSeq(t, 1, Len(t))
    BY <2>1, ConcatAdjacentSubSeq
  <2> QED
    BY <2>2, SubSeqFull
<1> HIDE DEF put, rest
<1>5. (s \o put) \o rest = s \o t
  <2>1. (s \o put) \o rest = s \o (put \o rest)
    BY <1>2, <1>3, ConcatAssociative
  <2> QED
    BY <1>4, <2>1
<1> QED
  BY <1>2, <1>3, <1>5, RecordsOfConcat DEF put, rest

\* A later record behind a file that is in order keeps it in order.
LEMMA InOrderAppend ==
  ASSUME NEW s \in Seq(Records), InOrder(s), NEW e \in Records,
         \A r \in RecordsOf(s) : r.n < e.n
  PROVE  InOrder(Append(s, e))
<1> DEFINE r == Append(s, e)
<1>1. /\ Len(s) \in Nat /\ Len(r) = Len(s) + 1
      /\ \A i \in 1..Len(s) : r[i] = s[i]
      /\ r[Len(s) + 1] = e
  BY MembersOfAppend
<1>2. \A i \in 1..Len(s) : s[i].n < e.n
  BY DEF RecordsOf
<1> HIDE DEF r
<1>3. ASSUME NEW i \in 1..Len(r), NEW k \in 1..Len(r), i < k PROVE r[i].n < r[k].n
  <2>1. i \in 1..Len(s)
    BY <1>1, <1>3
  <2>2. CASE k = Len(s) + 1
    BY <1>1, <1>2, <2>1, <2>2
  <2>3. CASE k \in 1..Len(s)
    BY <1>1, <1>3, <2>1, <2>3 DEF InOrder
  <2> QED
    BY <1>1, <2>2, <2>3
<1> QED
  BY <1>3 DEF InOrder, r
-----------------------------------------------------------------------------
(* Types *)

\* A new file of the old hour joins files of records.
LEMMA RenamedTyped ==
  ASSUME TypeOK
  PROVE  /\ DOMAIN Renamed = DOMAIN rotated \cup {suffix}
         /\ DOMAIN Renamed \subseteq Hours
         /\ \A h \in DOMAIN Renamed : Renamed[h] \in Seq(Records)
         /\ Renamed[suffix] = Current
         /\ \A h \in DOMAIN rotated \ {suffix} : Renamed[h] = rotated[h]
<1>1. /\ live \o buf \in Seq(Records)
      /\ RecordsOf(live \o buf) = RecordsOf(live) \cup RecordsOf(buf)
  BY RecordsOfConcat DEF TypeOK
<1> DEFINE c == live \o buf
<1> HIDE DEF c
<1>2. /\ DOMAIN Adding(rotated, suffix, c) = DOMAIN rotated \cup {suffix}
      /\ Adding(rotated, suffix, c)[suffix] = c
      /\ \A h \in DOMAIN rotated \ {suffix} : Adding(rotated, suffix, c)[h] = rotated[h]
  BY DEF Adding
<1> QED
  BY <1>1, <1>2 DEF TypeOK, Renamed, Current, c

\* Each operation of the writer, and the world, keeps the types.
LEMMA StepTyped == TypeOK /\ [Next]_vars => TypeOK'
<1> SUFFICES ASSUME TypeOK, [Next]_vars PROVE TypeOK'
  OBVIOUS
<1> USE RotationAssumption DEF TypeOK
<1>0. /\ Append(history, suffix) \in Seq(Hours)
      /\ Append(history, suffix) # <<>>
      /\ Len(Append(history, suffix)) = Len(history) + 1
      /\ Len(history) \in Nat
  BY MembersOfAppend
<1>1. CASE Write
  <2>1. count + 1 \in 1..MaxRecords /\ [n |-> count + 1, at |-> hour] \in Records
    BY <1>1 DEF Write, Records
  <2>2. buf' \in Seq(Records)
    BY <1>1, <2>1, MembersOfAppend DEF Write
  <2> QED
    BY <1>1, <2>1, <2>2 DEF Write, world, disk
<1>2. CASE Flush
  BY <1>2, RecordsOfConcat, RecordsOfEmpty DEF Flush, world
<1>2a. ASSUME FlushFails PROVE TypeOK'
  <2>1. PICK n \in 0..(Len(buf) - 1) : /\ live' = live \o SubSeq(buf, 1, n)
                                      /\ buf' = SubSeq(buf, n + 1, Len(buf))
    BY <1>2a DEF FlushFails
  <2>2. live' \in Seq(Records) /\ buf' \in Seq(Records)
    BY <2>1, HalfFlushed
  <2> QED
    BY <1>2a, <2>2 DEF FlushFails, world
<1>3. CASE Rotate
  <2> DEFINE files == Renamed
             hist == Append(history, suffix)
  <2>1. /\ DOMAIN files \subseteq Hours
        /\ \A h \in DOMAIN files : files[h] \in Seq(Records)
    BY <1>0, RenamedTyped DEF TypeOK
  <2>2. hist \in Seq(Hours) /\ hist # <<>> /\ Tail(hist) \in Seq(Hours)
    BY <1>0, MembersOfTail
  <2>3. /\ suffix' = hour /\ live' = <<>> /\ buf' = <<>>
        /\ UNCHANGED <<world, open, sticky, count>>
    BY <1>3 DEF Rotate, RotateTo
  <2>4. rotated' = files \/ rotated' = Deleting(files, Head(hist))
    BY <1>3 DEF Rotate, RotateTo, Renamed
  <2>5. history' = hist \/ history' = Tail(hist)
    BY <1>3 DEF Rotate, RotateTo
  <2> HIDE DEF files, hist
  <2>6. /\ DOMAIN rotated' \subseteq Hours
        /\ \A h \in DOMAIN rotated' : rotated'[h] \in Seq(Records)
    BY <2>1, <2>4 DEF Deleting
  <2> QED
    BY <2>2, <2>3, <2>5, <2>6, RecordsOfEmpty DEF world
<1>4. CASE RotateStuck
  BY <1>2a, <1>4 DEF RotateStuck, vars, world, memory, disk
<1>5. CASE RenameFails
  BY <1>5, RecordsOfConcat, RecordsOfEmpty DEF RenameFails, RenameFailsWith, world
<1>6. CASE CreateFails
  <2>1. /\ DOMAIN Renamed \subseteq Hours
        /\ \A h \in DOMAIN Renamed : Renamed[h] \in Seq(Records)
    BY RenamedTyped DEF TypeOK
  <2> QED
    BY <1>0, <1>6, <2>1, RecordsOfEmpty DEF CreateFails, world
<1>7. CASE HourPasses \/ ClockSetBack
  <2>1. /\ UNCHANGED <<restarts, cleanups, memory, disk, count>>
        /\ hour' \in Hours /\ setBacks' \in 0..MaxSetBacks
    BY <1>7 DEF HourPasses, ClockSetBack, Hours
  <2> QED
    BY <2>1 DEF memory, disk
<1>8. CASE Restart
  <2>1. /\ UNCHANGED <<hour, setBacks, cleanups, live, rotated, count>>
        /\ suffix' = hour /\ history' = <<>> /\ buf' = <<>>
        /\ open' = TRUE /\ sticky' = FALSE
        /\ restarts' = restarts + 1 /\ restarts < MaxRestarts
    BY <1>8 DEF Restart, disk
  <2>2. restarts' \in 0..MaxRestarts
    BY <2>1
  <2> QED
    BY <2>1, <2>2, RecordsOfEmpty
<1>9. ASSUME NEW h \in Hours, Cleanup(h) PROVE TypeOK'
  BY <1>9 DEF Cleanup, Deleting, memory
<1>10. CASE UNCHANGED vars
  BY <1>10 DEF vars, world, memory, disk
<1> QED
  BY <1>1, <1>2, <1>2a, <1>3, <1>4, <1>5, <1>6, <1>7, <1>8, <1>9, <1>10 DEF Next
-----------------------------------------------------------------------------
(* What the steps do to the files *)

\* A flush, and a Rotate that renames nothing, moves records towards the disk.
LEMMA MovingRecords ==
  ASSUME TypeOK, Flush \/ FlushFails \/ RotateStuck \/ RenameFails
  PROVE  /\ UNCHANGED <<world, suffix, history, open, rotated, count>>
         /\ Current' = Current
         /\ RecordsOf(live) \subseteq RecordsOf(live')
         /\ sticky => sticky'
<1>1. /\ live \o buf \in Seq(Records)
      /\ RecordsOf(live) \subseteq RecordsOf(live \o buf)
      /\ (live \o buf) \o <<>> = live \o buf
  BY RecordsOfConcat, ConcatEmptySeq DEF TypeOK
<1>2. CASE Flush
  BY <1>1, <1>2 DEF Flush, Current
<1>3. CASE FlushFails
  <2>1. PICK n \in 0..(Len(buf) - 1) : /\ live' = live \o SubSeq(buf, 1, n)
                                      /\ buf' = SubSeq(buf, n + 1, Len(buf))
    BY <1>3 DEF FlushFails
  <2>2. Current' = Current /\ RecordsOf(live) \subseteq RecordsOf(live')
    BY <2>1, HalfFlushed DEF Current, TypeOK
  <2> QED
    BY <1>3, <2>2 DEF FlushFails
<1>4. CASE RenameFails
  BY <1>1, <1>4 DEF RenameFails, RenameFailsWith, Current
<1>5. CASE UNCHANGED vars
  BY <1>5 DEF vars, world, memory, disk, Current
<1> QED
  BY <1>2, <1>3, <1>4, <1>5 DEF RotateStuck

\* A Rotate that renames the file starts an empty one of the new hour, and of
\* the other files loses at most the oldest it knows.
LEMMA NewFile ==
  ASSUME TypeOK, Rotate \/ CreateFails
  PROVE  LET hist == Append(history, suffix)
         IN  /\ hour # suffix /\ open /\ suffix' = hour
             /\ UNCHANGED <<world, sticky, count>>
             /\ live' = <<>> /\ Current' = <<>>
             /\ DOMAIN rotated' \subseteq DOMAIN rotated \cup {suffix}
             /\ suffix \in DOMAIN rotated' => rotated'[suffix] = Current
             /\ \A h \in DOMAIN rotated' \ {suffix} : rotated'[h] = rotated[h]
             /\ \A h \in DOMAIN rotated' : rotated'[h] = Renamed[h]
             /\ \/ /\ history' = hist
                   /\ DOMAIN rotated' = DOMAIN rotated \cup {suffix}
                   /\ CreateFails \/ Len(hist) <= Retain
                         \/ Head(hist) \notin DOMAIN rotated \cup {suffix}
                         \/ "remove" \in Faults
                \/ /\ Len(hist) > Retain
                   /\ history' = Tail(hist)
                   /\ Head(hist) \in DOMAIN rotated \cup {suffix}
                   /\ DOMAIN rotated' = (DOMAIN rotated \cup {suffix}) \ {Head(hist)}
             /\ open' = open \/ (CreateFails /\ ~open')
<1> DEFINE hist == Append(history, suffix)
<1>1. /\ DOMAIN Renamed = DOMAIN rotated \cup {suffix}
      /\ Renamed[suffix] = Current
      /\ \A h \in DOMAIN rotated \ {suffix} : Renamed[h] = rotated[h]
  BY RenamedTyped
<1>2. /\ hour # suffix /\ open /\ suffix' = hour
      /\ UNCHANGED <<world, sticky, count>>
      /\ live' = <<>> /\ Current' = <<>>
  <2>1. <<>> \o <<>> = <<>>
    BY ConcatEmptySeq, RecordsOfEmpty
  <2> QED
    BY <2>1 DEF Rotate, RotateTo, CreateFails, Due, Current
<1>3. /\ \/ /\ history' = hist /\ rotated' = Renamed
            /\ CreateFails \/ Len(hist) <= Retain
                  \/ Head(hist) \notin DOMAIN Renamed \/ "remove" \in Faults
         \/ /\ Len(hist) > Retain
            /\ history' = Tail(hist) /\ Head(hist) \in DOMAIN Renamed
            /\ rotated' = Deleting(Renamed, Head(hist))
      /\ open' = open \/ (CreateFails /\ ~open')
  BY DEF Rotate, RotateTo, CreateFails, Renamed
<1> HIDE DEF hist
<1>4. ASSUME NEW o
      PROVE  /\ DOMAIN Deleting(Renamed, o) = DOMAIN Renamed \ {o}
             /\ \A h \in DOMAIN Renamed \ {o} : Deleting(Renamed, o)[h] = Renamed[h]
  BY DEF Deleting
<1>5. /\ DOMAIN rotated' \subseteq DOMAIN Renamed
      /\ \A h \in DOMAIN rotated' : rotated'[h] = Renamed[h]
  BY <1>3, <1>4
<1>6. /\ \/ /\ history' = hist
            /\ DOMAIN rotated' = DOMAIN Renamed
            /\ CreateFails \/ Len(hist) <= Retain
                  \/ Head(hist) \notin DOMAIN Renamed \/ "remove" \in Faults
         \/ /\ Len(hist) > Retain
            /\ history' = Tail(hist) /\ Head(hist) \in DOMAIN Renamed
            /\ DOMAIN rotated' = DOMAIN Renamed \ {Head(hist)}
  BY <1>3, <1>4
<1> QED
  BY <1>1, <1>2, <1>3, <1>5, <1>6, RecordsOfEmpty DEF hist

\* A record that is written gets the next number and the present hour.
LEMMA NewRecord ==
  ASSUME TypeOK, Write
  PROVE  LET new == [n |-> count + 1, at |-> hour]
         IN  /\ UNCHANGED <<world, suffix, history, open, sticky, disk>>
             /\ count' = count + 1 /\ new \in Records
             /\ sticky => Current' = Current
             /\ ~sticky => /\ Current' = Append(Current, new)
                           /\ RecordsOf(Current') = RecordsOf(Current) \cup {new}
<1> DEFINE new == [n |-> count + 1, at |-> hour]
<1>1. count + 1 \in 1..MaxRecords
  BY RotationAssumption DEF TypeOK, Write
<1>2. new \in Records
  BY <1>1 DEF TypeOK, Records
<1>3. /\ UNCHANGED <<world, suffix, history, open, sticky, disk>>
      /\ count' = count + 1
      /\ sticky => buf' = buf
      /\ ~sticky => buf' = Append(buf, new)
  BY DEF Write
<1> HIDE DEF new
<1>4. live \o Append(buf, new) = Append(live \o buf, new)
  <2>1. live \in Seq(Records) /\ buf \in Seq(Records) /\ live \o buf \in Seq(Records)
    BY RecordsOfConcat DEF TypeOK
  <2>2. <<new>> \in Seq(Records)
    BY <1>2
  <2>3. live \o (buf \o <<new>>) = (live \o buf) \o <<new>>
    BY <2>1, <2>2, ConcatAssociative
  <2> QED
    BY <1>2, <2>1, <2>3, AppendIsConcat
<1>5. ~sticky => Current' = Append(Current, new)
  BY <1>3, <1>4 DEF Current, disk
<1>6. RecordsOf(Append(Current, new)) = RecordsOf(Current) \cup {new}
  BY <1>2, RecordsOfCurrent, MembersOfAppend
<1> QED
  BY <1>2, <1>3, <1>5, <1>6 DEF Current, disk, new

\* The end of the process loses what was in the buffer and what it remembers.
LEMMA Restarting ==
  ASSUME TypeOK, Restart
  PROVE  /\ UNCHANGED <<hour, setBacks, cleanups, live, rotated, count>>
         /\ restarts' # 0
         /\ suffix' = hour /\ history' = <<>>
         /\ open' /\ ~sticky' /\ Current' = live
<1>1. /\ UNCHANGED <<hour, setBacks, cleanups, live, rotated, count>>
      /\ restarts' = restarts + 1
      /\ suffix' = hour /\ history' = <<>>
      /\ open' /\ ~sticky' /\ buf' = <<>>
  BY DEF Restart, disk
<1>2. restarts' # 0
  BY <1>1 DEF TypeOK
<1>3. Current' = live
  BY <1>1, ConcatEmptySeq DEF TypeOK, Current
<1> QED
  BY <1>1, <1>2, <1>3

\* A file deleted from outside takes its records along.
LEMMA CleaningUp ==
  ASSUME TypeOK, NEW h \in Hours, Cleanup(h)
  PROVE  /\ UNCHANGED <<hour, restarts, setBacks, memory, live, count>>
         /\ Current' = Current
         /\ cleanups' # cleanups /\ cleanups' # 0
         /\ DOMAIN rotated' = DOMAIN rotated \ {h}
         /\ \A k \in DOMAIN rotated' : rotated'[k] = rotated[k]
<1>1. /\ UNCHANGED <<hour, restarts, setBacks, memory, live, count>>
      /\ cleanups' = cleanups + 1
      /\ rotated' = Deleting(rotated, h)
  BY DEF Cleanup
<1>2. cleanups' # cleanups /\ cleanups' # 0
  BY <1>1 DEF TypeOK
<1> QED
  BY <1>1, <1>2 DEF Deleting, Current, memory
-----------------------------------------------------------------------------
(* Numbers and order *)

\* A record is held in the current file, or for it, or in a renamed file.
LEMMA HeldWhere ==
  /\ TypeOK => \A r : r \in Held <=> \/ r \in RecordsOf(Current)
                                    \/ \E h \in DOMAIN rotated : r \in RecordsOf(rotated[h])
  /\ TypeOK' => \A r : r \in Held' <=> \/ r \in RecordsOf(Current')
                                      \/ \E h \in DOMAIN rotated' : r \in RecordsOf(rotated'[h])
  /\ TypeOK => Held \subseteq Records
<1>1. /\ \A r : r \in Held <=> \/ r \in RecordsOf(live) \/ r \in RecordsOf(buf)
                              \/ \E h \in DOMAIN rotated : r \in RecordsOf(rotated[h])
      /\ \A r : r \in Held' <=> \/ r \in RecordsOf(live') \/ r \in RecordsOf(buf')
                               \/ \E h \in DOMAIN rotated' : r \in RecordsOf(rotated'[h])
  BY DEF Held, OnDisk
<1>2. TypeOK => RecordsOf(Current) = RecordsOf(live) \cup RecordsOf(buf)
  BY RecordsOfCurrent
<1>3. TypeOK' => RecordsOf(Current') = RecordsOf(live') \cup RecordsOf(buf')
  BY RecordsOfConcat DEF TypeOK, Current
<1>4. TypeOK => Held \subseteq Records
  BY <1>1, RecordsOfType
<1> QED
  BY <1>1, <1>2, <1>3, <1>4

\* Where the current file and the renamed ones stay, so do the records.
LEMMA HeldStays ==
  ASSUME TypeOK, TypeOK', Current' = Current, rotated' = rotated
  PROVE  Held' = Held
BY HeldWhere

\* Only Write adds a record, with the number it gives out.
LEMMA StepCounted ==
  ASSUME TypeOK, Counted, [Next]_vars PROVE Counted'
<1> DEFINE new == [n |-> count + 1, at |-> hour]
<1>0. TypeOK'
  BY StepTyped
<1>1. CASE Write
  <2>1. ASSUME NEW r \in Held' PROVE r \in Held \cup {new}
    BY <1>0, <1>1, <2>1, NewRecord, HeldWhere DEF disk
  <2> SUFFICES ASSUME NEW r \in Held' PROVE r.n <= count'
    BY DEF Counted
  <2>2. count \in Nat /\ count' = count + 1
    BY <1>1, NewRecord DEF TypeOK
  <2>3. CASE r = new
    BY <2>2, <2>3
  <2>4. CASE r \in Held
    BY <2>2, <2>4, HeldWhere DEF Counted, Records
  <2> QED
    BY <2>1, <2>3, <2>4
<1>2. CASE Flush \/ FlushFails \/ RotateStuck \/ RenameFails
  BY <1>0, <1>2, MovingRecords, HeldStays DEF Counted
<1>3. CASE Rotate \/ CreateFails
  <2>1. ASSUME NEW r \in Held' PROVE r \in Held
    BY <1>0, <1>3, <2>1, NewFile, HeldWhere, RecordsOfEmpty
  <2> QED
    BY <1>3, <2>1, NewFile DEF Counted
<1>4. CASE HourPasses \/ ClockSetBack \/ UNCHANGED vars
  <2>1. UNCHANGED <<memory, disk, count>>
    BY <1>4 DEF HourPasses, ClockSetBack, vars
  <2> QED
    BY <2>1 DEF memory, disk, Counted, Held, OnDisk
<1>5. CASE Restart
  <2>1. ASSUME NEW r \in Held' PROVE r \in Held
    BY <1>0, <1>5, <2>1, Restarting, HeldWhere, RecordsOfCurrent
  <2> QED
    BY <1>5, <2>1, Restarting DEF Counted
<1>6. ASSUME NEW h \in Hours, Cleanup(h) PROVE Counted'
  <2>1. ASSUME NEW r \in Held' PROVE r \in Held
    BY <1>0, <1>6, <2>1, CleaningUp, HeldWhere
  <2> QED
    BY <1>6, <2>1, CleaningUp DEF Counted
<1> QED
  BY <1>1, <1>2, <1>3, <1>4, <1>5, <1>6 DEF Next

\* Every step keeps each file in the order of writing, whatever the clock shows.
LEMMA StepInOrder ==
  ASSUME TypeOK, Counted, [Next]_vars, EachInOrder PROVE EachInOrder'
<1> USE DEF EachInOrder
<1>1. CASE Write
  <2> DEFINE new == [n |-> count + 1, at |-> hour]
  <2>1. rotated' = rotated
    BY <1>1, NewRecord DEF disk
  <2>2. CASE sticky
    BY <1>1, <2>1, <2>2, NewRecord
  <2>3. CASE ~sticky
    <3>1. Current' = Append(Current, new) /\ new \in Records /\ new.n = count + 1
      BY <1>1, <2>3, NewRecord
    <3>2. ASSUME NEW r \in RecordsOf(Current) PROVE r.n < count + 1
      <4>1. r.n \in Int /\ r.n <= count
        BY HeldWhere DEF Counted, Records
      <4> QED
        BY <4>1 DEF TypeOK
    <3> HIDE DEF new
    <3>3. InOrder(Append(Current, new))
      BY <3>1, <3>2, InOrderAppend, RecordsOfCurrent
    <3> QED
      BY <2>1, <3>1, <3>3
  <2> QED
    BY <2>2, <2>3
<1>2. CASE Flush \/ FlushFails \/ RotateStuck \/ RenameFails
  BY <1>2, MovingRecords
<1>3. CASE Rotate \/ CreateFails
  <2>1. InOrder(<<>>)
    BY RecordsOfEmpty DEF InOrder
  <2>2. /\ Current' = <<>>
        /\ DOMAIN rotated' \subseteq DOMAIN rotated \cup {suffix}
        /\ suffix \in DOMAIN rotated' => rotated'[suffix] = Current
        /\ \A h \in DOMAIN rotated' \ {suffix} : rotated'[h] = rotated[h]
    BY <1>3, NewFile
  <2> QED
    BY <2>1, <2>2
<1>4. CASE HourPasses \/ ClockSetBack \/ UNCHANGED vars
  BY <1>4 DEF HourPasses, ClockSetBack, vars, memory, disk, Current
<1>5. CASE Restart
  <2>1. Current' = live /\ rotated' = rotated
    BY <1>5, Restarting
  <2>2. InOrder(live)
    <3>1. /\ Len(live) \in Nat /\ Len(buf) \in Nat
          /\ Len(Current) = Len(live) + Len(buf)
          /\ \A i \in 1..Len(live) : Current[i] = live[i]
      <4>1. live \in Seq(Records) /\ buf \in Seq(Records)
        BY DEF TypeOK
      <4> QED
        BY <4>1, ConcatProperties, LenProperties DEF Current
    <3> QED
      BY <3>1 DEF InOrder
  <2> QED
    BY <2>1, <2>2
<1>6. ASSUME NEW h \in Hours, Cleanup(h) PROVE EachInOrder'
  BY <1>6, CleaningUp
<1> QED
  BY <1>1, <1>2, <1>3, <1>4, <1>5, <1>6 DEF Next

\* historyFileSuffix stays in order when a later name is appended, and when the
\* first is removed.
LEMMA AscendingHistory ==
  ASSUME TypeOK, NamesInOrder
  PROVE  LET hist == Append(history, suffix)
         IN  /\ hist \in Seq(Hours) /\ Len(hist) = Len(history) + 1 /\ Len(history) \in Nat
             /\ Ascending(hist) /\ \A i \in 1..Len(hist) : hist[i] <= suffix
             /\ Ascending(Tail(hist)) /\ \A i \in 1..Len(Tail(hist)) : Tail(hist)[i] <= suffix
<1> DEFINE hist == Append(history, suffix)
           rest == Tail(hist)
<1>1. /\ hist \in Seq(Hours) /\ hist # <<>>
      /\ Len(history) \in Nat /\ Len(hist) = Len(history) + 1
      /\ \A i \in 1..Len(history) : hist[i] = history[i]
      /\ hist[Len(history) + 1] = suffix
  BY MembersOfAppend DEF TypeOK
<1> HIDE DEF hist
<1>2. /\ rest \in Seq(Hours) /\ Len(rest) = Len(hist) - 1
      /\ \A i \in 1..(Len(hist) - 1) : rest[i] = hist[i + 1]
  BY <1>1, MembersOfTail
<1> HIDE DEF rest
<1>3. suffix \in Int /\ \A i \in 1..Len(history) : history[i] \in Int
  <2>1. history \in Seq(Hours) /\ suffix \in Hours
    BY DEF TypeOK
  <2>2. \A i \in 1..Len(history) : history[i] \in Hours
    BY <2>1, ElementOfSeq
  <2> QED
    BY <2>1, <2>2 DEF Hours
<1>4. Ascending(hist) /\ \A i \in 1..Len(hist) : hist[i] <= suffix
  BY <1>1, <1>3 DEF NamesInOrder, Ascending
<1>5. Ascending(rest) /\ \A i \in 1..Len(rest) : rest[i] <= suffix
  BY <1>1, <1>2, <1>4 DEF Ascending
<1> QED
  BY <1>1, <1>4, <1>5 DEF hist, rest

\* While the clock is not set back every name is later than those before it.
LEMMA StepNames ==
  ASSUME TypeOK, [Next]_vars, NamesInOrder, setBacks = 0, setBacks' = 0
  PROVE  NamesInOrder'
<1> USE DEF NamesInOrder
<1>1. CASE Write \/ Flush \/ FlushFails \/ RotateStuck \/ RenameFails
  BY <1>1, NewRecord, MovingRecords DEF world, disk
<1>2. CASE Rotate \/ CreateFails
  <2>1. /\ suffix' = hour /\ hour' = hour /\ suffix < hour
        /\ DOMAIN rotated' \subseteq DOMAIN rotated \cup {suffix}
    BY <1>2, NewFile DEF world, TypeOK, Hours
  <2>2. history' = Append(history, suffix) \/ history' = Tail(Append(history, suffix))
    BY <1>2, NewFile
  <2>3. Ascending(history') /\ \A i \in 1..Len(history') : history'[i] <= suffix
    BY <2>2, AscendingHistory
  <2>4. \A i \in 1..Len(history') : history'[i] \in Hours
    BY StepTyped, ElementOfSeq DEF TypeOK
  <2>5. \A i \in 1..Len(history') : history'[i] < suffix'
    BY <2>1, <2>3, <2>4 DEF TypeOK, Hours
  <2>6. \A h \in DOMAIN rotated' : h < suffix'
    BY <2>1 DEF TypeOK, Hours
  <2> QED
    BY <2>1, <2>3, <2>5, <2>6 DEF TypeOK, Hours
<1>3. CASE HourPasses
  BY <1>3 DEF HourPasses, memory, disk, TypeOK, Hours
<1>4. CASE ClockSetBack
  BY <1>4 DEF ClockSetBack, TypeOK
<1>5. CASE Restart
  <2>1. /\ hour' = hour /\ suffix' = hour /\ rotated' = rotated /\ history' = <<>>
    BY <1>5, Restarting
  <2> QED
    BY <2>1, RecordsOfEmpty DEF TypeOK, Hours, Ascending
<1>6. ASSUME NEW h \in Hours, Cleanup(h) PROVE NamesInOrder'
  BY <1>6, CleaningUp DEF memory
<1>7. CASE UNCHANGED vars
  BY <1>7 DEF vars, world, memory, disk
<1> QED
  BY <1>1, <1>2, <1>3, <1>4, <1>5, <1>6, <1>7 DEF Next

\* Every step keeps the contents in the order of writing.
LEMMA StepContent ==
  ASSUME TypeOK, Counted, [Next]_vars, NamesInOrder, ContentInOrder,
         setBacks = 0, setBacks' = 0
  PROVE  ContentInOrder'
<1> USE DEF ContentInOrder, Precedes
<1>1. CASE Write
  <2>1. CASE sticky
    BY <1>1, <2>1, NewRecord DEF disk
  <2>2. CASE ~sticky
    <3> DEFINE new == [n |-> count + 1, at |-> hour]
    <3>1. \A r \in Held : r.n < new.n
      <4>1. \A r \in Held : r.n \in Int /\ r.n <= count
        BY HeldWhere DEF Counted, Records
      <4>2. count \in Int /\ new.n = count + 1
        BY DEF TypeOK
      <4> HIDE DEF new
      <4> QED
        BY <4>1, <4>2
    <3>2. rotated' = rotated /\ RecordsOf(Current') = RecordsOf(Current) \cup {new}
      BY <1>1, <2>2, NewRecord DEF disk
    <3> HIDE DEF new
    <3> QED
      BY <3>1, <3>2, HeldWhere
  <2> QED
    BY <2>1, <2>2
<1>2. CASE Flush \/ FlushFails \/ RotateStuck \/ RenameFails
  BY <1>2, MovingRecords
<1>3. CASE Rotate \/ CreateFails
  <2>1. /\ RecordsOf(Current') = {}
        /\ DOMAIN rotated' \subseteq DOMAIN rotated \cup {suffix}
        /\ suffix \in DOMAIN rotated' => rotated'[suffix] = Current
        /\ \A h \in DOMAIN rotated' \ {suffix} : rotated'[h] = rotated[h]
    BY <1>3, NewFile, RecordsOfEmpty
  <2>2. suffix \in Int /\ \A h \in DOMAIN rotated : h < suffix /\ h \in Int
    BY DEF NamesInOrder, TypeOK, Hours
  <2>3. ASSUME NEW h \in DOMAIN rotated', NEW k \in DOMAIN rotated', h < k
        PROVE  Precedes(RecordsOf(rotated'[h]), RecordsOf(rotated'[k]))
    <3>1. h # suffix
      BY <2>1, <2>2, <2>3
    <3>2. CASE k = suffix
      BY <2>1, <3>1, <3>2
    <3>3. CASE k # suffix
      BY <2>1, <2>3, <3>1, <3>3
    <3> QED
      BY <3>2, <3>3
  <2> QED
    BY <2>1, <2>3
<1>4. CASE HourPasses \/ ClockSetBack \/ UNCHANGED vars
  BY <1>4 DEF HourPasses, ClockSetBack, vars, memory, disk, Current
<1>5. CASE Restart
  BY <1>5, Restarting, RecordsOfCurrent
<1>6. ASSUME NEW h \in Hours, Cleanup(h) PROVE ContentInOrder'
  BY <1>6, CleaningUp DEF memory
<1> QED
  BY <1>1, <1>2, <1>3, <1>4, <1>5, <1>6 DEF Next

\* Without a restart a record is in a file of its hour or an earlier one, and
\* Rotate puts the file it renames into the history.
LEMMA StepPlaced ==
  ASSUME TypeOK, [Next]_vars, NamesInOrder, InItsHour, Known,
         setBacks = 0, setBacks' = 0, restarts' = 0
  PROVE  InItsHour' /\ Known'
<1> USE DEF InItsHour, Known
<1>1. CASE Write
  <2>1. suffix <= hour
    BY DEF NamesInOrder
  <2> QED
    BY <1>1, <2>1, NewRecord DEF disk
<1>2. CASE Flush \/ FlushFails \/ RotateStuck \/ RenameFails
  BY <1>2, MovingRecords
<1>3. CASE Rotate \/ CreateFails
  <2> DEFINE hist == Append(history, suffix)
  <2>1. /\ RecordsOf(Current') = {}
        /\ DOMAIN rotated' \subseteq DOMAIN rotated \cup {suffix}
        /\ suffix \in DOMAIN rotated' => rotated'[suffix] = Current
        /\ \A h \in DOMAIN rotated' \ {suffix} : rotated'[h] = rotated[h]
    BY <1>3, NewFile, RecordsOfEmpty
  <2>2. InItsHour'
    BY <2>1
  <2>3. \/ history' = hist
        \/ history' = Tail(hist) /\ Head(hist) \notin DOMAIN rotated'
    BY <1>3, NewFile
  <2>4. /\ RecordsOf(hist) = RecordsOf(history) \cup {suffix}
        /\ hist \in Seq(Hours) /\ hist # <<>>
    BY MembersOfAppend DEF TypeOK
  <2> HIDE DEF hist
  <2>5. RecordsOf(hist) = {Head(hist)} \cup RecordsOf(Tail(hist))
    BY <2>4, MembersOfTail
  <2>6. Known'
    BY <2>1, <2>3, <2>4, <2>5
  <2> QED
    BY <2>2, <2>6
<1>4. CASE HourPasses \/ ClockSetBack \/ UNCHANGED vars
  BY <1>4 DEF HourPasses, ClockSetBack, vars, memory, disk, Current
<1>5. CASE Restart
  BY <1>5, Restarting, RecordsOfCurrent
<1>6. ASSUME NEW h \in Hours, Cleanup(h) PROVE InItsHour' /\ Known'
  BY <1>6, CleaningUp DEF memory
<1> QED
  BY <1>1, <1>2, <1>3, <1>4, <1>5, <1>6 DEF Next
-----------------------------------------------------------------------------
(* What Rotate deletes *)

\* The first name in the history is before every other one.
LEMMA OldestFirst ==
  ASSUME TypeOK, NamesInOrder
  PROVE  LET hist == Append(history, suffix)
         IN  /\ Head(hist) = IF history = <<>> THEN suffix ELSE Head(history)
             /\ Head(hist) \in Hours
             /\ \A h \in RecordsOf(hist) : Head(hist) <= h
             /\ \A h \in RecordsOf(Tail(hist)) : Head(hist) < h
             /\ RecordsOf(hist) = RecordsOf(history) \cup {suffix}
             /\ RecordsOf(hist) = {Head(hist)} \cup RecordsOf(Tail(hist))
             /\ Tail(hist) \in Seq(Hours)
             /\ Len(Tail(hist)) = Len(history)
<1> DEFINE hist == Append(history, suffix)
<1>1. /\ hist \in Seq(Hours) /\ hist # <<>> /\ Len(hist) = Len(history) + 1
      /\ Len(history) \in Nat
      /\ RecordsOf(hist) = RecordsOf(history) \cup {suffix}
  BY MembersOfAppend DEF TypeOK
<1>2. Ascending(hist)
  BY AscendingHistory
<1>3. Head(hist) = IF history = <<>> THEN suffix ELSE Head(history)
  BY HeadTailAppend DEF TypeOK
<1> HIDE DEF hist
<1>4. /\ Tail(hist) \in Seq(Hours) /\ Len(Tail(hist)) = Len(hist) - 1
      /\ Head(hist) = hist[1] /\ Head(hist) \in Hours
      /\ \A i \in 1..(Len(hist) - 1) : Tail(hist)[i] = hist[i + 1]
      /\ RecordsOf(hist) = {Head(hist)} \cup RecordsOf(Tail(hist))
  BY <1>1, MembersOfTail
<1>5. ASSUME NEW h \in RecordsOf(Tail(hist)) PROVE Head(hist) < h
  <2>1. PICK i \in 1..(Len(hist) - 1) : h = hist[i + 1]
    BY <1>4 DEF RecordsOf
  <2>2. 1 \in 1..Len(hist) /\ i + 1 \in 1..Len(hist) /\ 1 < i + 1
    BY <1>1, <2>1
  <2> QED
    BY <1>2, <1>4, <2>1, <2>2 DEF Ascending
<1>6. \A h \in RecordsOf(hist) : Head(hist) <= h
  <2>1. RecordsOf(hist) \subseteq Hours
    BY <1>1, ElementOfSeq DEF RecordsOf
  <2> QED
    BY <1>4, <1>5, <2>1 DEF Hours
<1> QED
  BY <1>1, <1>3, <1>4, <1>5, <1>6 DEF hist

\* While files can be created and removed, too many names means that the first
\* is one nobody will find.
LEMMA StepRetained ==
  ASSUME TypeOK, [Next]_vars, NamesInOrder, Known, Retained, "remove" \notin Faults,
         setBacks = 0, setBacks' = 0, restarts' = 0
  PROVE  Retained'
<1> USE DEF Retained
<1>1. CASE Write \/ Flush \/ FlushFails \/ RotateStuck \/ RenameFails
  BY <1>1, NewRecord, MovingRecords DEF disk
<1>2. CASE CreateFails
  BY <1>2 DEF CreateFails
<1>3. CASE Rotate
  <2> DEFINE hist == Append(history, suffix)
  <2>1. open
    BY <1>3, NewFile
  <2>2. CASE /\ history' = hist
             /\ DOMAIN rotated' = DOMAIN rotated \cup {suffix}
             /\ \/ Len(hist) <= Retain
                \/ Head(hist) \notin DOMAIN rotated \cup {suffix}
    <3>1. Len(hist) \in Nat
      BY AscendingHistory
    <3> HIDE DEF hist
    <3> QED
      BY <2>2, <3>1, RotationAssumption
  <2>3. CASE /\ history' = Tail(hist)
             /\ Head(hist) \in DOMAIN rotated \cup {suffix}
             /\ DOMAIN rotated' = (DOMAIN rotated \cup {suffix}) \ {Head(hist)}
    <3>1. CASE history = <<>>
      <4>1. DOMAIN rotated = {} /\ Head(hist) = suffix
        BY <3>1, OldestFirst, RecordsOfEmpty DEF Known
      <4> QED
        BY <2>3, <4>1
    <3>2. CASE history # <<>>
      <4>1. Len(history') = Len(history) /\ Head(hist) = Head(history)
        BY <2>3, <3>2, OldestFirst
      <4>2. Head(history) < suffix /\ suffix \in Int
        <5>1. Head(history) = history[1] /\ 1 \in 1..Len(history)
          BY <3>2, MembersOfTail DEF TypeOK
        <5> QED
          BY <5>1 DEF NamesInOrder, TypeOK, Hours
      <4>3. Head(history) \in DOMAIN rotated
        BY <2>3, <4>1, <4>2
      <4> QED
        BY <2>1, <4>1, <4>3
    <3> QED
      BY <3>1, <3>2
  <2>4. ~CreateFails
    BY <1>3 DEF Rotate, RotateTo, CreateFails
  <2> QED
    BY <1>3, <2>2, <2>3, NewFile, <2>4
<1>4. CASE HourPasses \/ ClockSetBack \/ UNCHANGED vars
  BY <1>4 DEF HourPasses, ClockSetBack, vars, memory, disk
<1>5. CASE Restart
  BY <1>5, Restarting
<1>6. ASSUME NEW h \in Hours, Cleanup(h) PROVE Retained'
  BY <1>6, CleaningUp DEF memory
<1> QED
  BY <1>1, <1>2, <1>3, <1>4, <1>5, <1>6 DEF Next

\* No file goes while fewer than Retain later names are known, and no record
\* without its file.
LEMMA StepDeletes ==
  ASSUME TypeOK, [Next]_vars, Ordered, setBacks = 0, cleanups' = cleanups
  PROVE  /\ \A h \in DOMAIN rotated \ DOMAIN rotated' :
               Cardinality({k \in RecordsOf(history') : k > h}) >= Retain
         /\ Retain > 0 => \A r \in OnDisk \ OnDisk' :
               \E h \in DOMAIN rotated \ DOMAIN rotated' : r \in RecordsOf(rotated[h])
<1> USE DEF OnDisk
<1>1. CASE Write \/ Flush \/ FlushFails \/ RotateStuck \/ RenameFails
  BY <1>1, NewRecord, MovingRecords DEF disk
<1>2. CASE Rotate \/ CreateFails
  <2> DEFINE hist == Append(history, suffix)
             o == Head(hist)
             later == {k \in RecordsOf(Tail(hist)) : k > o}
  <2>0. NamesInOrder
    BY DEF Ordered
  <2>1. CASE DOMAIN rotated' = DOMAIN rotated \cup {suffix}
    <3>1. /\ RecordsOf(live) \subseteq RecordsOf(rotated'[suffix])
          /\ \A h \in DOMAIN rotated \ {suffix} : rotated'[h] = rotated[h]
      BY <1>2, <2>1, NewFile, RecordsOfCurrent
    <3>2. suffix \notin DOMAIN rotated
      BY <2>0 DEF NamesInOrder, TypeOK, Hours
    <3>3. OnDisk \subseteq OnDisk'
      BY <2>1, <3>1, <3>2
    <3>4. DOMAIN rotated \ DOMAIN rotated' = {}
      BY <2>1
    <3> QED
      BY <3>3, <3>4
  <2>2. CASE /\ Len(hist) > Retain
             /\ history' = Tail(hist)
             /\ DOMAIN rotated' = (DOMAIN rotated \cup {suffix}) \ {o}
    <3>1. /\ Tail(hist) \in Seq(Hours) /\ Len(Tail(hist)) = Len(history)
          /\ Len(hist) = Len(history) + 1 /\ Len(history) \in Nat
          /\ \A k \in RecordsOf(Tail(hist)) : o < k /\ k \in Int
          /\ o \in Int
          /\ Ascending(Tail(hist))
      <4>1. RecordsOf(Tail(hist)) \subseteq Hours
        BY <2>0, OldestFirst, ElementOfSeq DEF RecordsOf
      <4>2. o \in Hours /\ \A k \in RecordsOf(Tail(hist)) : o < k
        BY <2>0, OldestFirst
      <4>3. o \in Int /\ \A k \in RecordsOf(Tail(hist)) : k \in Int
        BY <4>1, <4>2 DEF Hours
      <4> QED
        BY <2>0, <4>2, <4>3, OldestFirst, AscendingHistory
    <3>2. IsFiniteSet(later)
      <4>1. IsFiniteSet(0..MaxHour)
        BY RotationAssumption, FS_Interval
      <4>2. later \in SUBSET (0..MaxHour)
        BY <3>1, ElementOfSeq DEF RecordsOf, Hours
      <4> QED
        BY <4>1, <4>2, FS_Subset
    <3>3. Len(history) <= Cardinality(later)
      <4> DEFINE n == Len(history)
                 f == [i \in 1..n |-> Tail(hist)[i]]
      <4>1. f \in [1..n -> later]
        BY <3>1 DEF RecordsOf
      <4>2. \A i, j \in 1..n : i # j => f[i] # f[j]
        <5>1. SUFFICES ASSUME NEW i \in 1..n, NEW j \in 1..n, i < j PROVE f[i] # f[j]
          OBVIOUS
        <5>2. f[i] < f[j] /\ f[i] \in Int /\ f[j] \in Int
          BY <3>1, <5>1 DEF Ascending, RecordsOf
        <5> QED
          BY <5>2
      <4>3. f \in Injection(1..n, later)
        BY <4>1, <4>2 DEF Injection, IsInjective
      <4>4. n \in Nat
        BY <3>1
      <4> HIDE DEF f, n, later
      <4>5. Cardinality(1..n) <= Cardinality(later)
        BY <3>2, <4>3, FS_Injection
      <4>6. Cardinality(1..n) = n
        BY <4>4, FS_Interval
      <4> QED
        BY <4>5, <4>6 DEF n
    <3>4. Cardinality(later) \in Nat
      BY <3>2, FS_CardinalityType
    <3>5. Cardinality(later) >= Retain
      <4> HIDE DEF later, hist
      <4> QED
        BY <2>2, <3>1, <3>3, <3>4, RotationAssumption
    <3>6. Retain > 0 => o # suffix
      <4>1. Retain > 0 => Len(history) # 0
        <5> HIDE DEF hist
        <5> QED
          BY <2>2, <3>1, RotationAssumption
      <4>2. Len(history) # 0 => history # <<>>
        BY RecordsOfEmpty
      <4>3. history # <<>> => Head(history) < suffix /\ suffix \in Int
        <5>1. history # <<>> => Head(history) = history[1] /\ 1 \in 1..Len(history)
          BY MembersOfTail DEF TypeOK
        <5> QED
          BY <2>0, <5>1 DEF NamesInOrder, TypeOK, Hours
      <4>4. history # <<>> => o = Head(history)
        BY <2>0, OldestFirst
      <4> QED
        BY <4>1, <4>2, <4>3, <4>4
    <3>7. ASSUME Retain > 0, NEW r \in OnDisk \ OnDisk'
          PROVE  \E h \in DOMAIN rotated \ DOMAIN rotated' : r \in RecordsOf(rotated[h])
      <4>1. /\ suffix \in DOMAIN rotated' =>
                   RecordsOf(live) \subseteq RecordsOf(rotated'[suffix])
            /\ \A h \in DOMAIN rotated' \ {suffix} : rotated'[h] = rotated[h]
        BY <1>2, NewFile, RecordsOfCurrent
      <4>2. suffix \in DOMAIN rotated'
        BY <2>2, <3>6, <3>7
      <4>3. r \notin RecordsOf(live)
        BY <3>7, <4>1, <4>2
      <4>4. PICK h \in DOMAIN rotated : r \in RecordsOf(rotated[h])
        BY <3>7, <4>3
      <4>5. h # suffix
        BY <2>0, <4>4 DEF NamesInOrder, TypeOK, Hours
      <4>6. h \notin DOMAIN rotated'
        BY <3>7, <4>1, <4>4, <4>5
      <4> QED
        BY <4>4, <4>6
    <3>8. \A h \in DOMAIN rotated \ DOMAIN rotated' : h = o
      BY <2>2
    <3> HIDE DEF o, hist
    <3>9. \A h \in DOMAIN rotated \ DOMAIN rotated' :
             {k \in RecordsOf(history') : k > h} = later
      BY <2>2, <3>8
    <3> QED
      BY <3>5, <3>7, <3>9
  <2> QED
    BY <1>2, <2>1, <2>2, NewFile
<1>3. CASE HourPasses \/ ClockSetBack \/ UNCHANGED vars
  BY <1>3 DEF HourPasses, ClockSetBack, vars, memory, disk
<1>4. CASE Restart
  BY <1>4, Restarting
<1>5. ASSUME NEW h \in Hours, Cleanup(h) PROVE FALSE
  BY <1>5, CleaningUp
<1> QED
  BY <1>1, <1>2, <1>3, <1>4, <1>5 DEF Next
-----------------------------------------------------------------------------
(* Nothing is lost *)

\* A set of numbers has a least one.
LEMMA LeastNumber ==
  ASSUME NEW T \in SUBSET Nat, T # {}
  PROVE  \E m \in T : \A n \in T : m <= n
<1> DEFINE R == {ss \in Nat \X Nat : ss[1] < ss[2]}
<1>1. IsWellFoundedOn(R, Nat)
  BY NatLessThanWellFounded DEF OpToRel
<1> HIDE DEF R
<1>2. PICK m \in T : \A n \in T : ~ (<<n, m>> \in R)
  BY <1>1, WFMin
<1>3. \A n \in T : ~ (n < m)
  BY <1>2 DEF R
<1> QED
  BY <1>3

\* What is left of an interval without its smallest elements is an interval.
LEMMA RestOfInterval ==
  ASSUME NEW c \in Nat, NEW f \in 1..(c + 1),
         NEW A \in SUBSET (f..c), NEW B \in SUBSET (f..c),
         \A n \in f..c : n \in A \/ n \in B,
         \A a \in A, b \in B : a < b
  PROVE  UpTo(B, c)
<1> USE DEF UpTo
<1>1. CASE B = {}
  <2>1. c + 1 \in 1..(c + 1) /\ (c + 1)..c = {}
    OBVIOUS
  <2> QED
    BY <1>1, <2>1
<1>2. CASE B # {}
  <2>1. B \subseteq f..c /\ B \in SUBSET Nat
    OBVIOUS
  <2>2. PICK g \in B : \A b \in B : g <= b
    BY <1>2, <2>1, LeastNumber
  <2>3. g \in f..c /\ g \in 1..(c + 1)
    BY <2>1
  <2>4. ASSUME NEW x \in g..c PROVE x \in B
    <3>1. x \in f..c
      BY <2>3
    <3>2. x \notin A
      BY <2>3
    <3> QED
      BY <3>1, <3>2
  <2>5. B \subseteq g..c
    BY <2>1, <2>2
  <2> QED
    BY <2>3, <2>4, <2>5
<1> QED
  BY <1>1, <1>2

\* The file Rotate renames fits behind the ones that were renamed before.
LEMMA RenamedInOrder ==
  ASSUME TypeOK, NamesInOrder, ContentInOrder,
         NEW h \in DOMAIN Renamed, NEW k \in DOMAIN Renamed, h < k
  PROVE  Precedes(RecordsOf(Renamed[h]), RecordsOf(Renamed[k]))
<1> USE DEF ContentInOrder, Precedes
<1>1. /\ DOMAIN Renamed = DOMAIN rotated \cup {suffix}
      /\ Renamed[suffix] = Current
      /\ \A j \in DOMAIN rotated \ {suffix} : Renamed[j] = rotated[j]
  BY RenamedTyped
<1>2. suffix \in Int /\ \A j \in DOMAIN rotated : j < suffix /\ j \in Int
  BY DEF NamesInOrder, TypeOK, Hours
<1>3. h # suffix
  BY <1>1, <1>2
<1>4. CASE k = suffix
  BY <1>1, <1>3, <1>4
<1>5. CASE k # suffix
  BY <1>1, <1>3, <1>5
<1> QED
  BY <1>4, <1>5

\* What Rotate leaves of the records is their end, and all of them unless a
\* file is deleted.
LEMMA RotateHolds ==
  ASSUME TypeOK, Rotate \/ CreateFails, NamesInOrder, ContentInOrder, Known
  PROVE  \/ Held' = Held /\ Len(history') = Len(history) + 1
         \/ /\ Len(history') = Len(history) /\ Len(history) >= Retain
            /\ \E A \in SUBSET Held : A \cup Held' = Held /\ Precedes(A, Held')
<1> DEFINE hist == Append(history, suffix)
           o == Head(hist)
<1>1. /\ DOMAIN Renamed = DOMAIN rotated \cup {suffix}
      /\ Renamed[suffix] = Current
      /\ \A j \in DOMAIN rotated \ {suffix} : Renamed[j] = rotated[j]
  BY RenamedTyped
<1>2. suffix \notin DOMAIN rotated
  BY DEF NamesInOrder, TypeOK, Hours
<1>3. \A r : r \in Held <=> \E h \in DOMAIN Renamed : r \in RecordsOf(Renamed[h])
  BY <1>1, <1>2, HeldWhere
<1>4. \A r : r \in Held' <=> \E h \in DOMAIN rotated' : r \in RecordsOf(Renamed[h])
  <2>1. TypeOK'
    BY StepTyped DEF Next
  <2> QED
    BY <2>1, HeldWhere, NewFile, RecordsOfEmpty
<1>5. Len(history) \in Nat /\ Len(hist) = Len(history) + 1
  BY AscendingHistory
<1>6. CASE history' = hist /\ DOMAIN rotated' = DOMAIN rotated \cup {suffix}
  <2>1. Held' = Held
    BY <1>1, <1>3, <1>4, <1>6
  <2> QED
    BY <1>5, <1>6, <2>1
<1>7. CASE /\ Len(hist) > Retain /\ history' = Tail(hist)
           /\ DOMAIN rotated' = (DOMAIN rotated \cup {suffix}) \ {o}
           /\ o \in DOMAIN rotated \cup {suffix}
  <2> DEFINE A == RecordsOf(Renamed[o])
  <2>1. Len(history') = Len(history) /\ Len(history) >= Retain
    BY <1>5, <1>7, OldestFirst, RotationAssumption
  <2>2. A \in SUBSET Held /\ A \cup Held' = Held
    BY <1>1, <1>3, <1>4, <1>7
  <2>3. ASSUME NEW h \in DOMAIN rotated' PROVE o < h
    <3>1. h \in RecordsOf(hist) /\ h # o
      BY <1>7, OldestFirst DEF Known
    <3> QED
      BY <3>1, OldestFirst
  <2>4. Precedes(A, Held')
    BY <1>1, <1>4, <1>7, <2>3, RenamedInOrder DEF Precedes
  <2> QED
    BY <2>1, <2>2, <2>4
<1> QED
  BY <1>6, <1>7, NewFile

\* No step but a crash, or somebody else, loses a record other than the oldest
\* ones; and only where a flush failed are later ones missing.
LEMMA StepWhole ==
  ASSUME TypeOK, [Next]_vars, Ordered, Placed, Counted, Whole
  PROVE  Whole'
<1> SUFFICES ASSUME restarts' = 0, setBacks' = 0, cleanups' = 0
             PROVE  Complete'
  BY DEF Whole
<1>0. /\ TypeOK' /\ count \in Nat /\ count' \in Nat /\ Len(history) \in Nat
      /\ restarts \in Nat /\ setBacks \in Nat /\ cleanups \in Nat
  BY StepTyped, LenProperties DEF TypeOK
<1>1. ASSUME restarts = 0, setBacks = 0, cleanups = 0 PROVE Complete
  BY <1>1 DEF Whole
<1>2. CASE Write
  <2>1. /\ restarts = 0 /\ setBacks = 0 /\ cleanups = 0
        /\ history' = history /\ sticky' = sticky /\ count' = count + 1
        /\ rotated' = rotated
    BY <1>2, NewRecord DEF world, disk
  <2>2. PICK last \in 0..count : /\ ~sticky => last = count
                                 /\ UpTo(Kept, last)
                                 /\ Len(history) < Retain => Kept = 1..last
    BY <1>1, <2>1 DEF Complete
  <2>3. CASE sticky
    <3>1. Kept' = Kept
      BY <1>0, <1>2, <2>1, <2>3, NewRecord, HeldStays DEF Kept
    <3>2. last \in 0..count'
      BY <1>0, <2>1
    <3> QED
      BY <2>1, <2>2, <2>3, <3>1, <3>2 DEF Complete
  <2>4. CASE ~sticky
    <3> DEFINE new == [n |-> count + 1, at |-> hour]
    <3>1. ASSUME NEW r PROVE r \in Held' <=> r \in Held \/ r = new
      BY <1>0, <1>2, <2>1, <2>4, NewRecord, HeldWhere
    <3>2. Kept' = Kept \cup {count + 1}
      <4>1. new.n = count + 1
        OBVIOUS
      <4> HIDE DEF new
      <4> QED
        BY <3>1, <4>1 DEF Kept
    <3>3. PICK first \in 1..(count + 1) : Kept = first..count
      BY <2>2, <2>4 DEF UpTo
    <3>4. Kept' = first..count' /\ first \in 1..(count' + 1) /\ count' \in 0..count'
      BY <1>0, <2>1, <3>2, <3>3
    <3>5. Len(history') < Retain => Kept' = 1..count'
      BY <1>0, <2>1, <2>2, <2>4, <3>2
    <3> QED
      BY <3>4, <3>5 DEF Complete, UpTo
  <2> QED
    BY <2>3, <2>4
<1>3. CASE Flush \/ FlushFails \/ RotateStuck \/ RenameFails
  <2>1. /\ restarts = 0 /\ setBacks = 0 /\ cleanups = 0
        /\ history' = history /\ count' = count /\ (~sticky' => ~sticky)
    BY <1>3, MovingRecords DEF world
  <2>2. Held' = Held
    BY <1>0, <1>3, MovingRecords, HeldStays
  <2> QED
    BY <1>1, <2>1, <2>2 DEF Complete, Kept
<1>4. CASE Rotate \/ CreateFails
  <2>1. /\ restarts = 0 /\ setBacks = 0 /\ cleanups = 0
        /\ count' = count /\ sticky' = sticky
    BY <1>4, NewFile DEF world
  <2>2. PICK last \in 0..count : /\ ~sticky => last = count
                                 /\ UpTo(Kept, last)
                                 /\ Len(history) < Retain => Kept = 1..last
    BY <1>1, <2>1 DEF Complete
  <2>3. NamesInOrder /\ ContentInOrder /\ Known
    BY <2>1 DEF Ordered, Placed
  <2>4. CASE Held' = Held /\ Len(history') = Len(history) + 1
    <3>1. Kept' = Kept /\ (Len(history') < Retain => Len(history) < Retain)
      BY <1>0, <2>4, RotationAssumption DEF Kept
    <3> QED
      BY <2>1, <2>2, <3>1 DEF Complete
  <2>5. CASE /\ Len(history') = Len(history) /\ Len(history) >= Retain
             /\ \E A \in SUBSET Held : A \cup Held' = Held /\ Precedes(A, Held')
    <3>1. PICK A \in SUBSET Held : A \cup Held' = Held /\ Precedes(A, Held')
      BY <2>5
    <3> DEFINE B == {r.n : r \in A}
    <3>2. /\ B \cup Kept' = Kept
          /\ \A a \in B, b \in Kept' : a < b
      BY <3>1 DEF Kept, Precedes
    <3>3. PICK first \in 1..(last + 1) : Kept = first..last
      BY <2>2 DEF UpTo
    <3>4. /\ B \in SUBSET (first..last) /\ Kept' \in SUBSET (first..last)
          /\ \A n \in first..last : n \in B \/ n \in Kept'
      BY <3>2, <3>3
    <3>5. UpTo(Kept', last)
      <4>1. last \in Nat
        BY <1>0
      <4> QED
        BY <3>2, <3>4, <4>1, RestOfInterval
    <3>6. ~ (Len(history') < Retain)
      BY <1>0, <2>5, RotationAssumption
    <3> QED
      BY <2>1, <2>2, <3>5, <3>6 DEF Complete
  <2> QED
    BY <1>4, <2>3, <2>4, <2>5, RotateHolds
<1>5. CASE HourPasses \/ UNCHANGED vars
  <2>1. UNCHANGED <<restarts, setBacks, cleanups, suffix, history, open, sticky, buf,
                    live, rotated, count>>
    BY <1>5 DEF HourPasses, vars, world, memory, disk
  <2>2. Kept' = Kept
    BY <2>1 DEF Kept, Held, OnDisk
  <2> QED
    BY <1>1, <2>1, <2>2 DEF Complete
<1>6. CASE ClockSetBack
  BY <1>0, <1>6 DEF ClockSetBack
<1>7. CASE Restart
  BY <1>7, Restarting
<1>8. ASSUME NEW h \in Hours, Cleanup(h) PROVE FALSE
  BY <1>8, CleaningUp
<1> QED
  BY <1>2, <1>3, <1>4, <1>5, <1>6, <1>7, <1>8 DEF Next
-----------------------------------------------------------------------------
(* The theorems *)

\* The names, the order and the numbers of the records in the files, the history
\* and the buffer, whichever of Flush, Rename, Close, OpenFile and Remove fail,
\* half-way or for good, and whenever the process dies (file_writer.go:52-145).
THEOREM RotationInvariant == Spec => []IInv
<1>1. ASSUME Init PROVE IInv
  <2>1. Current = <<>> /\ RecordsOf(Current) = {} /\ DOMAIN rotated = {}
    <3>1. <<>> \o <<>> = <<>>
      BY ConcatEmptySeq, RecordsOfEmpty
    <3> QED
      BY <1>1, <3>1, RecordsOfEmpty DEF Init, Current
  <2>2. TypeOK
    <3>1. DOMAIN rotated \subseteq Hours /\ \A h \in DOMAIN rotated : rotated[h] \in Seq(Records)
      BY <2>1
    <3>2. /\ hour \in Hours /\ suffix \in Hours /\ count \in 0..MaxRecords
          /\ restarts \in 0..MaxRestarts /\ setBacks \in 0..MaxSetBacks
          /\ cleanups \in 0..MaxCleanups
      BY <1>1, RotationAssumption DEF Init, Hours
    <3>3. history \in Seq(Hours) /\ buf \in Seq(Records) /\ live \in Seq(Records)
      BY <1>1, RecordsOfEmpty DEF Init
    <3>4. open \in BOOLEAN /\ sticky \in BOOLEAN
      BY <1>1 DEF Init
    <3> QED
      BY <3>1, <3>2, <3>3, <3>4 DEF TypeOK
  <2>3. Held = {} /\ Kept = {}
    BY <2>1, <2>2, HeldWhere DEF Kept
  <2>4. Counted /\ EachInOrder
    BY <2>1, <2>3, RecordsOfEmpty DEF Counted, EachInOrder, InOrder
  <2>5. NamesInOrder /\ ContentInOrder
    BY <1>1, <2>1, RecordsOfEmpty DEF Init, NamesInOrder, Ascending, ContentInOrder, Precedes
  <2>6. InItsHour /\ Known /\ Retained
    BY <2>1 DEF InItsHour, Known, Retained
  <2>7. Complete
    <3>1. count = 0 /\ 1..0 = {} /\ 1 \in 1..(0 + 1) /\ 0 \in 0..count
      BY <1>1 DEF Init
    <3> QED
      BY <2>3, <3>1 DEF Complete, UpTo
  <2> QED
    BY <2>2, <2>4, <2>5, <2>6, <2>7 DEF IInv, Ordered, Placed, Whole
<1>2. ASSUME IInv, [Next]_vars PROVE IInv'
  <2> USE DEF IInv
  <2>1. TypeOK'
    BY <1>2, StepTyped
  <2>2. Counted' /\ EachInOrder'
    BY <1>2, StepCounted, StepInOrder
  <2>3. ASSUME setBacks' = 0 PROVE setBacks = 0
    BY <1>2, <2>3 DEF Next, vars, world, TypeOK, Write, Flush, FlushFails, Rotate, RotateTo, RotateStuck,
       RenameFails, RenameFailsWith, CreateFails, HourPasses, ClockSetBack, Restart, Cleanup
  <2>4. ASSUME restarts' = 0 PROVE restarts = 0
    BY <1>2, <2>4 DEF Next, vars, world, TypeOK, Write, Flush, FlushFails, Rotate, RotateTo, RotateStuck,
       RenameFails, RenameFailsWith, CreateFails, HourPasses, ClockSetBack, Restart, Cleanup
  <2>5. Ordered'
    BY <1>2, <2>3, StepNames, StepContent DEF Ordered
  <2>6. Placed'
    BY <1>2, <2>3, <2>4, StepPlaced DEF Ordered, Placed
  <2>7. restarts' = 0 /\ setBacks' = 0 /\ "remove" \notin Faults => Retained'
    BY <1>2, <2>3, <2>4, StepRetained DEF Ordered, Placed
  <2>8. Whole'
    BY <1>2, StepWhole
  <2> QED
    BY <2>1, <2>2, <2>5, <2>6, <2>7, <2>8
<1> QED
  BY <1>1, <1>2, PTL DEF Spec

\* Every file has its records in the order they were written; read in the order of
\* their names the files do, and no record stands in a file of a later hour
\* (file_writer.go:93-145).
THEOREM LogFilesInOrder == Spec => []FilesInOrder
<1>1. ASSUME IInv PROVE FilesInOrder
  <2>1. TypeOK /\ EachInOrder
    BY <1>1 DEF IInv
  <2>2. ASSUME setBacks = 0
        PROVE  /\ \A h, k \in DOMAIN rotated : h < k => Before(rotated[h], rotated[k])
               /\ \A h \in DOMAIN rotated : Before(rotated[h], Current)
    BY <1>1, <2>2, BeforeIsPrecedes DEF IInv, Ordered, ContentInOrder
  <2>3. ASSUME restarts = 0, setBacks = 0
        PROVE  /\ \A h \in DOMAIN rotated : \A r \in RecordsOf(rotated[h]) : h <= r.at
               /\ \A r \in RecordsOf(Current) : suffix <= r.at
    BY <1>1, <2>3 DEF IInv, Placed, InItsHour
  <2> QED
    BY <2>1, <2>2, <2>3 DEF FilesInOrder, EachInOrder
<1> QED
  BY <1>1, RotationInvariant, PTL

\* No Rotate removes a file before retain_hours later ones exist, nor a record
\* otherwise (file_writer.go:134-142).
THEOREM DeletesOnlyOverdue == Spec => OnlyOverdueDeleted
<1>1. IInv /\ [Next]_vars =>
        [(setBacks = 0 /\ cleanups' = cleanups) =>
          /\ \A h \in DOMAIN rotated \ DOMAIN rotated' :
                Cardinality({k \in RecordsOf(history') : k > h}) >= Retain
          /\ Retain > 0 => \A r \in OnDisk \ OnDisk' :
                \E h \in DOMAIN rotated \ DOMAIN rotated' : r \in RecordsOf(rotated[h])]_vars
  BY StepDeletes DEF IInv
<1> QED
  BY <1>1, RotationInvariant, PTL DEF Spec, OnlyOverdueDeleted

\* Whichever step fails, the files and the buffer have all records from some point
\* on, from the first until a file was overdue, up to the last one there is or the
\* last before a flush failed (file_writer.go:61, 89-91, 111-142).
THEOREM NothingLost == Spec => []NothingMissing
<1>1. IInv => NothingMissing
  BY DEF IInv, Whole, Complete, UpTo, NothingMissing, Kept, Held
<1> QED
  BY <1>1, RotationInvariant, PTL

\* A process that was not restarted knows every renamed file, and keeps too many
\* only when the one to delete is gone (file_writer.go:134-142).
THEOREM KeepsRetention == Spec => []RetentionKept
<1>1. IInv => RetentionKept
  BY DEF IInv, Placed, Known, Retained, RetentionKept
<1> QED
  BY <1>1, RotationInvariant, PTL
=============================================================================
