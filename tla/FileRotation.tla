---------------------------- MODULE FileRotation ----------------------------
(***************************************************************************)
(* One FileWriter of the logger (pkg/util/logger/file_writer.go): records  *)
(* pass through a bufio.Writer into the file fileName, which is renamed to *)
(* fileName.<hour> when the hour changes; the history of renamed files is  *)
(* kept in memory and the oldest is removed when it gets too long.         *)
(*                                                                         *)
(* Init, Write, Flush and Rotate are all called by the writer goroutine    *)
(* (or after it ended), so each is one action; a crash within Rotate       *)
(* leaves the disk as one of its failures does.  A record of which a write *)
(* that failed left only a part in the file counts as not written.         *)
(***************************************************************************)
EXTENDS Integers, Sequences, FiniteSets

CONSTANTS Retain,        \* retain_hours
          Faults,        \* bound: the system calls that may fail
          MaxHour,       \* bound: hours that pass
          MaxRecords,    \* bound: records written
          MaxRestarts,   \* bound: restarts of the process
          MaxSetBacks,   \* bound: times the local clock is set back an hour
          MaxCleanups    \* bound: renamed files that somebody else deletes

ASSUME RotationAssumption == /\ Retain \in Int
                             /\ MaxHour \in Nat /\ MaxRecords \in Nat
                             /\ MaxRestarts \in Nat /\ MaxSetBacks \in Nat
                             /\ MaxCleanups \in Nat

Hours   == 0..MaxHour
\* The n-th record, written in hour "at".
Records == [n : 1..MaxRecords, at : Hours]

VARIABLES hour,      \* the local time
          suffix,    \* currentFileSuffix
          history,   \* historyFileSuffix
          open,      \* whether fa.file is open, on the file named fileName
          sticky,    \* the error bufio.Writer keeps
          buf,       \* what bufio.Writer holds
          live,      \* content of fileName
          rotated,   \* content of the files fileName.<hour> that exist
          count,     \* records written so far
          restarts, setBacks, cleanups

memory == <<suffix, history, open, sticky, buf>>
disk   == <<live, rotated>>
world  == <<hour, restarts, setBacks, cleanups>>
vars   == <<world, memory, disk, count>>

TypeOK == /\ hour \in Hours /\ suffix \in Hours
          /\ history \in Seq(Hours)
          /\ open \in BOOLEAN /\ sticky \in BOOLEAN
          /\ buf \in Seq(Records)
          /\ live \in Seq(Records)
          /\ DOMAIN rotated \subseteq Hours
          /\ \A h \in DOMAIN rotated : rotated[h] \in Seq(Records)
          /\ count \in 0..MaxRecords
          /\ restarts \in 0..MaxRestarts
          /\ setBacks \in 0..MaxSetBacks
          /\ cleanups \in 0..MaxCleanups

Init == /\ hour = 0 /\ suffix = 0
        /\ history = <<>>
        /\ open = TRUE /\ sticky = FALSE
        /\ buf = <<>> /\ live = <<>>
        /\ rotated = <<>>
        /\ count = 0
        /\ restarts = 0 /\ setBacks = 0 /\ cleanups = 0
-----------------------------------------------------------------------------
(* Write and Flush *)

\* A buffer that has failed to flush refuses the record.
Write == /\ count < MaxRecords
         /\ count' = count + 1
         /\ buf' = IF sticky THEN buf ELSE Append(buf, [n |-> count', at |-> hour])
         /\ UNCHANGED <<world, suffix, history, open, sticky, disk>>

\* Also what a full buffer does by itself.
Flush == /\ buf # <<>> /\ ~sticky
         /\ open
         /\ live' = live \o buf
         /\ buf' = <<>>
         /\ UNCHANGED <<world, suffix, history, open, sticky, rotated, count>>

\* The file was closed, or the disk is full: what was not written stays in the
\* buffer, and bufio.Writer returns this error from now on.
FlushFails == /\ buf # <<>> /\ ~sticky
              /\ \E n \in 0..(Len(buf) - 1) :
                    /\ IF open THEN "write" \in Faults ELSE n = 0
                    /\ live' = live \o SubSeq(buf, 1, n)
                    /\ buf' = SubSeq(buf, n + 1, Len(buf))
              /\ sticky' = TRUE
              /\ UNCHANGED <<world, suffix, history, open, rotated, count>>
-----------------------------------------------------------------------------
(* Rotate *)

Due == hour # suffix

\* Rotate returns where Flush fails, now or for good; or, once the file was
\* closed and its name is gone, where Rename does.
RotateStuck == /\ Due
               /\ \/ FlushFails
                  \/ sticky /\ UNCHANGED vars
                  \/ ~open /\ buf = <<>> /\ UNCHANGED vars

\* os.Rename fails: the buffer was flushed, the rest is left for the next tick.
RenameFailsWith(bufLeft) ==
    /\ Due /\ open /\ ~sticky
    /\ "rename" \in Faults
    /\ live' = live \o buf
    /\ buf' = bufLeft
    /\ UNCHANGED <<world, suffix, history, open, sticky, rotated, count>>

RenameFailsKeepingBuffer == RenameFailsWith(buf)

RenameFails == RenameFailsWith(<<>>)

\* A file of that name is replaced.
Adding(files, h, content) ==
    [k \in DOMAIN files \cup {h} |-> IF k = h THEN content ELSE files[k]]

Renamed == Adding(rotated, suffix, live \o buf)

\* file.Close or CrateFile fails: no file is open any more.
CreateFails == /\ Due /\ open /\ ~sticky
               /\ "create" \in Faults
               /\ rotated' = Renamed
               /\ history' = Append(history, suffix)
               /\ suffix' = hour
               /\ open' = FALSE
               /\ live' = <<>> /\ buf' = <<>>
               /\ UNCHANGED <<world, sticky, count>>

Deleting(files, h) == [k \in DOMAIN files \ {h} |-> files[k]]

\* The rename to the old hour's name, the new file, and the removal of the
\* oldest of the renamed files if there are more than "most" of them.
\* os.Remove of a file that is gone, or that fails, leaves historyFileSuffix.
RotateTo(content, most) ==
    /\ Due /\ open /\ ~sticky
    /\ LET files == Adding(rotated, suffix, content)
           hist == Append(history, suffix)
           oldest == Head(hist)
       IN  \/ /\ Len(hist) <= most
              /\ rotated' = files /\ history' = hist
           \/ /\ Len(hist) > most
              /\ oldest \in DOMAIN files
              /\ rotated' = Deleting(files, oldest)
              /\ history' = Tail(hist)
           \/ /\ Len(hist) > most
              /\ oldest \notin DOMAIN files \/ "remove" \in Faults
              /\ rotated' = files /\ history' = hist
    /\ suffix' = hour
    /\ live' = <<>> /\ buf' = <<>>
    /\ UNCHANGED <<world, open, sticky, count>>

RotateWithoutFlush == RotateTo(live, Retain)
RotateOffByOne     == RotateTo(live \o buf, Retain - 1)
RotateNeverDeletes == RotateTo(live \o buf, MaxHour)
RotateNextHourOnly == hour = suffix + 1 /\ RotateTo(live \o buf, Retain)

Rotate == RotateTo(live \o buf, Retain)
-----------------------------------------------------------------------------
(* The world: time, restarts, other programs *)

HourPasses == /\ hour < MaxHour
              /\ hour' = hour + 1
              /\ UNCHANGED <<restarts, setBacks, cleanups, memory, disk, count>>

\* The end of summer time, a correction, another time zone.
ClockSetBack == /\ setBacks < MaxSetBacks
                /\ hour > 0
                /\ hour' = hour - 1
                /\ setBacks' = setBacks + 1
                /\ UNCHANGED <<restarts, cleanups, memory, disk, count>>

\* The process dies at any point and Init opens the file again (O_APPEND).
Restart == /\ restarts < MaxRestarts
           /\ restarts' = restarts + 1
           /\ suffix' = hour
           /\ history' = <<>>
           /\ open' = TRUE /\ sticky' = FALSE
           /\ buf' = <<>>
           /\ UNCHANGED <<hour, setBacks, cleanups, disk, count>>

Cleanup(h) == /\ cleanups < MaxCleanups
              /\ h \in DOMAIN rotated
              /\ rotated' = Deleting(rotated, h)
              /\ cleanups' = cleanups + 1
              /\ UNCHANGED <<hour, restarts, setBacks, memory, live, count>>

Next == \/ Write \/ Flush \/ FlushFails
        \/ Rotate \/ RotateStuck \/ RenameFails \/ CreateFails
        \/ HourPasses \/ ClockSetBack \/ Restart
        \/ \E h \in Hours : Cleanup(h)

Spec == Init /\ [][Next]_vars

\* rotateTimer and flushTimer fire for ever, and a system call that may fail
\* does not fail for ever.
FairSpec == Spec /\ WF_vars(Flush) /\ SF_vars(Rotate)
-----------------------------------------------------------------------------
(* Properties *)

RecordsOf(s) == {s[i] : i \in 1..Len(s)}
OnDisk == RecordsOf(live) \cup UNION {RecordsOf(rotated[h]) : h \in DOMAIN rotated}

\* Every record of one sequence was written before every record of another.
Before(s, t) == \A i \in 1..Len(s), k \in 1..Len(t) : s[i].n < t[k].n

\* A sequence has its records in the order they were written, each once.
InOrder(s) == \A i, k \in 1..Len(s) : i < k => s[i].n < s[k].n

\* What the current file has, and what will follow it there.
Current == live \o buf

\* Each file, and the current one with the buffer behind it, has its records in
\* the order they were written and none twice, whatever fails.  Read in the
\* order of their names the files give them in that order too, through failed
\* renames and flushes, restarts and missed hours.  And without restarts a record
\* stands in a file of its hour or, when the tick that rotates came late, of an
\* earlier one: never of a later hour.
FilesInOrder ==
    /\ TypeOK
    /\ InOrder(Current) /\ \A h \in DOMAIN rotated : InOrder(rotated[h])
    /\ setBacks = 0 =>
          /\ \A h, k \in DOMAIN rotated : h < k => Before(rotated[h], rotated[k])
          /\ \A h \in DOMAIN rotated : Before(rotated[h], Current)
    /\ restarts = 0 /\ setBacks = 0 =>
          /\ \A h \in DOMAIN rotated : \A r \in RecordsOf(rotated[h]) : h <= r.at
          /\ \A r \in RecordsOf(Current) : suffix <= r.at

\* Rotate, whatever fails in it, makes no file disappear before the Retain
\* files after it were made, and no record that is not in such a file (which
\* with retain_hours 0 is the one it has just renamed).
OnlyOverdueDeleted ==
    [][(setBacks = 0 /\ cleanups' = cleanups) =>
          /\ \A h \in DOMAIN rotated \ DOMAIN rotated' :
                Cardinality({k \in RecordsOf(history') : k > h}) >= Retain
          /\ Retain > 0 => \A r \in OnDisk \ OnDisk' :
                \E h \in DOMAIN rotated \ DOMAIN rotated' : r \in RecordsOf(rotated[h])]_vars

\* Nothing is torn out on the way to the disk, whichever step fails: the files and
\* the buffer have all records from some point on, and from the first one until
\* a file was overdue.  They go up to the last record there is, unless a flush
\* failed, after which the writer takes no more.
NothingMissing ==
    (restarts = 0 /\ setBacks = 0 /\ cleanups = 0) =>
        LET kept == {r.n : r \in OnDisk \cup RecordsOf(buf)}
        IN  \E last \in 0..count :
               /\ ~sticky => last = count
               /\ \E first \in 1..(last + 1) : kept = first..last
               /\ Len(history) < Retain => kept = 1..last

\* A process that was not restarted knows every renamed file there is, and
\* keeps more than Retain of them only when the one it has to delete is gone.
RetentionKept ==
    (restarts = 0 /\ setBacks = 0 /\ "remove" \notin Faults) =>
        /\ DOMAIN rotated \subseteq RecordsOf(history)
        /\ Len(history) > Retain /\ open => Head(history) \notin DOMAIN rotated

\* While files can be created and written the log is rotated on time: once the
\* hour has changed the writer moves on to a file of the new hour and its buffer
\* gets to the disk, through late ticks, failed renames, restarts and cleanups.
\* (After one failed flush every Rotate returns before the rename.)
RotationCatchesUp == [](open /\ ~sticky) => (Due ~> (~Due /\ buf = <<>>))
-----------------------------------------------------------------------------
(* What the comments say *)

\* file_writer.go:23: historyFileSuffix is the set of all suffixes of history
\* files there are.  Init does not look for those of an earlier process.
HistoryKnowsAll == DOMAIN rotated \subseteq RecordsOf(history)

\* file_writer.go:134: if there are more history files than RetainHours the overdue
\* ones are removed.  os.Remove of one that is gone makes Rotate return, each hour.
OverdueRemoved == (restarts = 0 /\ setBacks = 0) => Cardinality(DOMAIN rotated) <= Retain

\* file_writer.go:22: retainHours is the number of hours the log is kept.  After the
\* local time was set back (the hours that passed are those it shows and the ones
\* it lost) a name comes twice and the second file replaces the first.
KeptForHours ==
    [][(cleanups' = cleanups) =>
          \A r \in OnDisk \ OnDisk' : r.at + Retain <= hour + setBacks]_vars
=============================================================================
