------------------------ MODULE LogParserMgrProofs ------------------------
(***************************************************************************)
(* Proofs about LogParserMgr for every list of files, every content they   *)
(* may have or get, any number of calls of Parse and of threads.           *)
(***************************************************************************)
EXTENDS LogParserMgr, LogParserProofs

USE DEF NoParser

\* Every step is one of these.
LEMMA StepCases ==
  ASSUME [Next]_vars
  PROVE  \/ CallParse \/ EnqueueNext \/ EnqueueDone \/ GetFuture \/ GetDone \/ Merge
         \/ \E s \in Slots : TaskStarts(s) \/ TaskEnds(s)
         \/ \E f \in Range(Files) : FileGrows(f)
         \/ UNCHANGED vars
BY DEF Next, Collect

\* emplace_back adds one element, at the end.
LEMMA Appended ==
  ASSUME NEW S, NEW q \in Seq(S), NEW e \in S
  PROVE  /\ Append(q, e) \in Seq(S)
         /\ Len(q) \in Nat
         /\ Len(Append(q, e)) = Len(q) + 1
         /\ \A i \in 1..Len(q) : Append(q, e)[i] = q[i]
         /\ Append(q, e)[Len(q) + 1] = e
         /\ DOMAIN q = 1..Len(q) /\ DOMAIN Append(q, e) = 1..(Len(q) + 1)
BY LenProperties, AppendProperties

\* A thread of the pool takes the first task and leaves the others in order.
LEMMA Taken ==
  ASSUME NEW S, NEW q \in Seq(S), q # <<>>
  PROVE  /\ Head(q) \in S /\ Head(q) = q[1] /\ Len(q) \in Nat \ {0}
         /\ Tail(q) \in Seq(S)
         /\ Len(Tail(q)) = Len(q) - 1
         /\ DOMAIN q = 1..Len(q) /\ DOMAIN Tail(q) = 1..Len(Tail(q))
         /\ \A i \in 1..Len(Tail(q)) : i + 1 \in 1..Len(q) /\ Tail(q)[i] = q[i + 1]
<1> DEFINE r == Tail(q)
<1>1. /\ Head(q) \in S /\ Head(q) = q[1]
      /\ r \in Seq(S)
      /\ Len(q) \in Nat \ {0}
      /\ Len(r) = Len(q) - 1
      /\ \A i \in 1..Len(r) : r[i] = q[i + 1]
  BY HeadTailProperties, LenProperties, EmptySeq
<1>2. DOMAIN q = 1..Len(q) /\ DOMAIN r = 1..Len(r)
  BY <1>1, LenProperties
<1> HIDE DEF r
<1>3. \A i \in 1..Len(r) : i + 1 \in 1..Len(q)
  BY <1>1
<1> QED
  BY <1>1, <1>2, <1>3 DEF r

\* What a list holds is what it may hold.
LEMMA SeqFacts ==
  ASSUME NEW S, NEW q \in Seq(S)
  PROVE  /\ Len(q) \in Nat /\ DOMAIN q = 1..Len(q)
         /\ \A i \in 1..Len(q) : q[i] \in S
         /\ Range(q) \subseteq S
BY LenProperties, ElementOfSeq DEF Range

\* What the lists, the tasks and the files look like, piece by piece.
LEMMA Typed ==
  ASSUME IInv
  PROVE  /\ Len(Files) \in Nat
         /\ Len(log_file_path_list) \in Nat /\ Len(log_parser_list) \in Nat
         /\ Len(file_path) \in Nat /\ Len(futures) \in Nat /\ Len(parse_res_list) \in Nat
         /\ DOMAIN file_path = 1..Len(file_path)
         /\ DOMAIN log_file_path_list = 1..Len(log_file_path_list)
         /\ \A i \in 1..Len(log_file_path_list) : log_file_path_list[i] \in Range(Files)
         /\ \A i \in 1..Len(log_parser_list) : log_parser_list[i] \in 1..Len(file_path)
         /\ \A i \in 1..Len(futures) : futures[i] \in Parsers
         /\ parses \in Nat /\ MaxParses \in Nat /\ parses <= MaxParses
<1>1. /\ Files \in Seq(Range(Files)) /\ MaxParses \in Nat
      /\ log_file_path_list \in Seq(Range(Files))
      /\ log_parser_list \in Seq(DOMAIN file_path)
      /\ file_path \in Seq(Range(Files))
      /\ futures \in Seq(Parsers) /\ parse_res_list \in Seq(BOOLEAN)
      /\ parses \in 0..MaxParses
  BY MgrAssumption DEF MgrAssumption, IInv, TypeOK
<1>2. parses \in Nat /\ parses <= MaxParses
  BY <1>1
<1>3. DOMAIN file_path = 1..Len(file_path)
  BY <1>1, SeqFacts
<1> QED
  BY <1>1, <1>2, <1>3, SeqFacts

\* There is room for one more parser while a file is left.
LEMMA RoomLeft ==
  ASSUME IInv, mpc = "enqueue", Len(futures) < Len(log_file_path_list)
  PROVE  /\ Len(file_path) + 1 \in Parsers
         /\ Len(file_path) + 1 <= MaxParses * Len(Files)
         /\ log_file_path_list[Len(futures) + 1] \in Range(Files)
<1> DEFINE n == Len(Files)
           p == Len(file_path)
           a == Len(log_file_path_list)
           b == Len(futures)
<1>1. /\ n \in Nat /\ p \in Nat /\ a \in Nat /\ b \in Nat
      /\ parses \in Nat /\ MaxParses \in Nat /\ parses <= MaxParses
  BY Typed
<1>2. p + (a - b) <= parses * n /\ b < a
  BY DEF IInv, Room, Collecting
<1> HIDE DEF n, p, a, b
<1>3. parses * n <= MaxParses * n /\ parses * n \in Nat /\ MaxParses * n \in Nat
  BY <1>1
<1>4. p + 1 <= parses * n
  BY <1>1, <1>2, <1>3
<1>5. p + 1 <= MaxParses * n /\ p + 1 \in 1..(MaxParses * n)
  BY <1>1, <1>3, <1>4
<1>6. b + 1 \in 1..a
  BY <1>1, <1>2
<1>7. log_file_path_list[b + 1] \in Range(Files)
  BY <1>6, Typed DEF a
<1> QED
  BY <1>5, <1>7 DEF Parsers, n, p, b

\* What one turn of the first loop of Parse does, with the parser j it makes.
NewParserIs(j) ==
    /\ j = Len(file_path) + 1
    /\ mpc = "enqueue" /\ Len(futures) < Len(log_file_path_list)
    /\ file_path' = Append(file_path, log_file_path_list[Len(futures) + 1])
    /\ log_parser_list' = Append(log_parser_list, j)
    /\ futures' = Append(futures, j)
    /\ outcome[j] = "none" /\ outcome' = [outcome EXCEPT ![j] = "pending"]
    /\ pending' = Append(pending, j)
    /\ UNCHANGED <<running, phase>>
    /\ UNCHANGED <<world, log_file_path_list, merged_log_parser, log_name2log_parser,
                   parser, parse_res_list, mpc, parses, returned>>

LEMMA NewParserStep ==
  ASSUME IInv, EnqueueNext
  PROVE  \E j \in Parsers : NewParserIs(j)
BY RoomLeft DEF EnqueueNext, NewParser, Pool!Accept, NewParserIs

\* ... and to the sequences it extends.
LEMMA NewParserLists ==
  ASSUME IInv, NEW j \in Parsers, NewParserIs(j)
  PROVE  /\ file_path' \in Seq(Range(Files)) /\ Len(file_path') = Len(file_path) + 1
         /\ DOMAIN file_path' = 1..(Len(file_path) + 1)
         /\ \A i \in 1..Len(file_path) : file_path'[i] = file_path[i]
         /\ file_path'[j] = log_file_path_list[Len(futures) + 1]
         /\ log_parser_list' \in Seq(DOMAIN file_path')
         /\ Len(log_parser_list') = Len(log_parser_list) + 1
         /\ \A i \in 1..Len(log_parser_list) : log_parser_list'[i] = log_parser_list[i]
         /\ log_parser_list'[Len(log_parser_list) + 1] = j
         /\ futures' \in Seq(Parsers) /\ Len(futures') = Len(futures) + 1
         /\ \A i \in 1..Len(futures) : futures'[i] = futures[i]
         /\ futures'[Len(futures) + 1] = j
<1>1. /\ file_path \in Seq(Range(Files)) /\ log_parser_list \in Seq(DOMAIN file_path)
      /\ futures \in Seq(Parsers)
  BY DEF IInv, TypeOK
<1>2. /\ file_path' \in Seq(Range(Files)) /\ Len(file_path') = Len(file_path) + 1
      /\ DOMAIN file_path' = 1..(Len(file_path) + 1)
      /\ DOMAIN file_path = 1..Len(file_path) /\ Len(file_path) \in Nat
      /\ \A i \in 1..Len(file_path) : file_path'[i] = file_path[i]
      /\ file_path'[j] = log_file_path_list[Len(futures) + 1]
  BY <1>1, RoomLeft, Appended DEF NewParserIs
<1>3. DOMAIN file_path \subseteq DOMAIN file_path' /\ j \in DOMAIN file_path'
  BY <1>2 DEF NewParserIs
<1> DEFINE D == DOMAIN file_path'
<1>4. log_parser_list \in Seq(D) /\ j \in D
  BY <1>1, <1>3, SeqMonotonic
<1> HIDE DEF D
<1>5. /\ log_parser_list' \in Seq(D)
      /\ Len(log_parser_list') = Len(log_parser_list) + 1
      /\ \A i \in 1..Len(log_parser_list) : log_parser_list'[i] = log_parser_list[i]
      /\ log_parser_list'[Len(log_parser_list) + 1] = j
  BY <1>4, Appended DEF NewParserIs
<1>6. /\ futures' \in Seq(Parsers) /\ Len(futures') = Len(futures) + 1
      /\ \A i \in 1..Len(futures) : futures'[i] = futures[i]
      /\ futures'[Len(futures) + 1] = j
  BY <1>1, Appended DEF NewParserIs
<1> QED
  BY <1>2, <1>5, <1>6 DEF D

\* What the last loop of Parse keeps of the lists: the places good.
MergeIs(n, good) ==
    /\ n <= Len(log_file_path_list)
    /\ \A i, k \in 1..n : i < k => good[i] < good[k]
    /\ \A k \in 1..n : parse_res_list[good[k]]
    /\ log_file_path_list' = [k \in 1..n |-> log_file_path_list[good[k]]]
    /\ log_parser_list' = [k \in 1..n |-> log_parser_list[good[k]]]
    /\ DOMAIN log_name2log_parser'
          = Range(log_file_path_list') \cup DOMAIN log_name2log_parser
    /\ \A f \in Range(log_file_path_list') :
          log_name2log_parser'[f]
             = log_parser_list'[CHOOSE k \in 1..n : log_file_path_list'[k] = f]

\* Behind every path there is a parser.
LEMMA Enough ==
  ASSUME IInv, mpc = "merge"
  PROVE  \A i \in 1..Len(log_file_path_list) : i \in 1..Len(log_parser_list)
<1>1. /\ Earlier = 0 \/ Earlier = Len(log_file_path_list)
      /\ Earlier = Len(log_parser_list) - Len(futures)
      /\ Len(futures) = Len(log_file_path_list)
  BY DEF IInv, EarlierKept, InOwnPlaces, Earlier, Collecting
<1>2. Len(log_file_path_list) <= Len(log_parser_list)
  BY <1>1, Typed
<1> QED
  BY <1>2, Typed

\* What is kept of a list, as a function of the places.
LEMMA KeptIs ==
  ASSUME NEW S, NEW s \in Seq(S), NEW ok \in SUBSET (1..Len(s)),
         NEW m \in Nat, NEW place, Lists(place, m, ok)
  PROVE  Those(s, ok) = [j \in 1..m |-> s[place[j]]] /\ Len(Those(s, ok)) = m
<1> DEFINE t == Those(s, ok)
<1>1. t \in Seq(S) /\ Len(t) = m /\ \A j \in 1..m : t[j] = s[place[j]]
  BY KeptAt
<1> HIDE DEF t
<1>2. t = [j \in 1..Len(t) |-> t[j]]
  BY <1>1, LenProperties
<1> QED
  BY <1>1, <1>2 DEF t

LEMMA MergeStep ==
  ASSUME IInv, Merge
  PROVE  /\ mpc = "merge" /\ mpc' \in {"idle", "undefined"} /\ returned' \in BOOLEAN
         /\ UNCHANGED <<world, file_path, parser, local, parses, pool>>
         /\ \E n \in Nat : \E good \in [1..n -> 1..Len(log_file_path_list)] : MergeIs(n, good)
<1> DEFINE ok == {i \in 1..Len(log_file_path_list) : parse_res_list[i]}
           paths == Those(log_file_path_list, ok)
           list  == Those(log_parser_list, ok)
           all   == AllRows(list)
<1>1. /\ mpc = "merge" /\ Keep(paths, list) /\ ParseMerged(parser[list[1]].content, all)
      /\ UNCHANGED <<world, file_path, parser, local, parses, pool>>
  BY DEF Merge
<1>2. Len(log_file_path_list) \in Nat
  BY Typed
<1>3. ok \in SUBSET (1..Len(log_file_path_list)) /\ \A i \in ok : parse_res_list[i]
  OBVIOUS
<1>4. ok \in SUBSET (1..Len(log_parser_list))
  BY <1>1, Enough
<1> HIDE DEF ok
<1>5. PICK n \in Nat : \E good : Lists(good, n, ok)
  BY <1>2, <1>3, Listed
<1>6. PICK good : Lists(good, n, ok)
  BY <1>5
<1>7. /\ paths = [k \in 1..n |-> log_file_path_list[good[k]]] /\ Len(paths) = n
      /\ list = [k \in 1..n |-> log_parser_list[good[k]]] /\ Len(list) = n
  <2>1. log_file_path_list \in Seq(Range(Files)) /\ log_parser_list \in Seq(DOMAIN file_path)
    BY DEF IInv, TypeOK
  <2>2. paths = [k \in 1..n |-> log_file_path_list[good[k]]] /\ Len(paths) = n
    BY <1>3, <1>6, <2>1, KeptIs
  <2>3. list = [k \in 1..n |-> log_parser_list[good[k]]] /\ Len(list) = n
    BY <1>4, <1>6, <2>1, KeptIs
  <2> QED
    BY <2>2, <2>3
<1>8. /\ mpc' \in {"idle", "undefined"}
      /\ returned' = TRUE \/ returned' = FALSE \/ returned' = returned
  <2> HIDE DEF all, list
  <2> QED
    BY <1>1 DEF ParseMerged, Returns
<1>9. returned' \in BOOLEAN
  BY <1>8 DEF IInv, TypeOK
<1> HIDE DEF paths, list, all
<1>10. /\ log_file_path_list' = paths /\ log_parser_list' = list
      /\ log_name2log_parser' =
            [f \in Range(paths) \cup DOMAIN log_name2log_parser |->
               IF f \in Range(paths) THEN list[CHOOSE k \in 1..Len(list) : paths[k] = f]
               ELSE log_name2log_parser[f]]
  BY <1>1 DEF Keep
<1>11. /\ DOMAIN log_name2log_parser'
               = Range(log_file_path_list') \cup DOMAIN log_name2log_parser
       /\ \A f \in Range(log_file_path_list') :
             log_name2log_parser'[f]
                = log_parser_list'[CHOOSE k \in 1..n : log_file_path_list'[k] = f]
  <2>1. Len(list) = n
    BY <1>7
  <2> QED
    BY <1>10, <2>1
<1>12. /\ good \in [1..n -> 1..Len(log_file_path_list)]
       /\ \A k \in 1..n : parse_res_list[good[k]]
       /\ \A i, k \in 1..n : i < k => good[i] < good[k]
  BY <1>3, <1>6 DEF Lists
<1>13. n <= Len(log_file_path_list)
  <2> DEFINE T == {k \in 0..n : k = 0 \/ k <= good[k]}
  <2>1. 0 \in T
    OBVIOUS
  <2>2. ASSUME NEW k \in 1..n, k - 1 \in T PROVE k \in T
    <3>1. CASE k = 1
      BY <1>12, <3>1
    <3>2. CASE k # 1
      <4>1. k - 1 \in 1..n /\ k - 1 < k /\ k - 1 <= good[k - 1]
        BY <2>2, <3>2
      <4>2. good[k - 1] < good[k] /\ good[k - 1] \in Int /\ good[k] \in Int
        BY <1>12, <4>1
      <4> QED
        BY <4>1, <4>2
    <3> QED
      BY <3>1, <3>2
  <2> HIDE DEF T
  <2>3. \A k \in 0..n : k \in T
    BY <2>1, <2>2, Upward
  <2>4. n = 0 \/ n <= good[n]
    BY <2>3 DEF T
  <2> QED
    BY <1>2, <1>12, <2>4
<1>14. MergeIs(n, good)
  BY <1>7, <1>10, <1>11, <1>12, <1>13 DEF MergeIs
<1> QED
  BY <1>1, <1>8, <1>9, <1>12, <1>14

\* The lists and the map after that loop.
LEMMA MergeLists ==
  ASSUME IInv, Merge, NEW n \in Nat, NEW good \in [1..n -> 1..Len(log_file_path_list)],
         MergeIs(n, good)
  PROVE  /\ log_file_path_list' \in Seq(Range(Files)) /\ Len(log_file_path_list') = n
         /\ log_parser_list' \in Seq(DOMAIN file_path) /\ Len(log_parser_list') = n
         /\ DOMAIN log_name2log_parser' \subseteq Range(Files)
         /\ IsInjective(log_file_path_list')
         /\ \A k \in 1..n :
               /\ log_file_path_list'[k] = log_file_path_list[good[k]]
               /\ log_parser_list'[k] = log_parser_list[good[k]]
               /\ log_file_path_list'[k] \in DOMAIN log_name2log_parser'
               /\ log_name2log_parser'[log_file_path_list'[k]] = log_parser_list'[k]
<1>1. /\ \A i \in 1..Len(log_file_path_list) : log_file_path_list[i] \in Range(Files)
      /\ \A i \in 1..Len(log_parser_list) : log_parser_list[i] \in DOMAIN file_path
      /\ DOMAIN log_file_path_list = 1..Len(log_file_path_list)
  BY Typed
<1>3. \A i \in 1..Len(log_file_path_list) : i \in 1..Len(log_parser_list)
  BY MergeStep, Enough
<1>4. /\ DOMAIN log_file_path_list' = 1..n /\ DOMAIN log_parser_list' = 1..n
      /\ \A k \in 1..n : /\ good[k] \in 1..Len(log_file_path_list)
                         /\ log_file_path_list'[k] = log_file_path_list[good[k]]
                         /\ log_parser_list'[k] = log_parser_list[good[k]]
  BY DEF MergeIs
<1>5. /\ log_file_path_list' \in [1..n -> Range(Files)]
      /\ log_parser_list' \in [1..n -> DOMAIN file_path]
  BY <1>1, <1>3 DEF MergeIs
<1>6. /\ log_file_path_list' \in Seq(Range(Files)) /\ Len(log_file_path_list') = n
      /\ log_parser_list' \in Seq(DOMAIN file_path) /\ Len(log_parser_list') = n
  BY <1>5, LenProperties
<1>7. \A i, k \in 1..n : log_file_path_list'[i] = log_file_path_list'[k] => i = k
  <2> SUFFICES ASSUME NEW i \in 1..n, NEW k \in 1..n,
                      log_file_path_list'[i] = log_file_path_list'[k]
               PROVE  i = k
    OBVIOUS
  <2>1. \A a, b \in 1..Len(log_file_path_list) :
           log_file_path_list[a] = log_file_path_list[b] => a = b
    BY <1>1 DEF IInv, IsInjective
  <2>2. good[i] = good[k]
    BY <1>4, <2>1
  <2>3. good[i] \in Nat /\ ~(good[i] < good[k]) /\ ~(good[k] < good[i])
    BY <1>4, <2>2
  <2>4. ~(i < k) /\ ~(k < i)
    BY <2>3 DEF MergeIs
  <2> QED
    BY <2>4
<1>8. IsInjective(log_file_path_list')
  BY <1>4, <1>7 DEF IsInjective
<1>9. Range(log_file_path_list') \subseteq Range(Files)
      /\ \A k \in 1..n : log_file_path_list'[k] \in Range(log_file_path_list')
  BY <1>4, <1>5 DEF Range
<1>10. DOMAIN log_name2log_parser' \subseteq Range(Files)
  BY <1>9 DEF MergeIs, IInv, TypeOK
<1>11. ASSUME NEW k \in 1..n
       PROVE  /\ log_file_path_list'[k] \in DOMAIN log_name2log_parser'
              /\ log_name2log_parser'[log_file_path_list'[k]] = log_parser_list'[k]
  <2>1. (CHOOSE m \in 1..n : log_file_path_list'[m] = log_file_path_list'[k]) = k
    BY <1>7
  <2>2. log_name2log_parser'[log_file_path_list'[k]] =
           log_parser_list'[CHOOSE m \in 1..n : log_file_path_list'[m] = log_file_path_list'[k]]
    BY <1>9 DEF MergeIs
  <2>3. log_file_path_list'[k] \in DOMAIN log_name2log_parser'
    BY <1>9 DEF MergeIs
  <2> QED
    BY <2>1, <2>2, <2>3
<1> QED
  BY <1>4, <1>6, <1>8, <1>10, <1>11

\* A finished parser is never parsed again, and no other task touches it.
LEMMA FinishedKept ==
  ASSUME IInv, NEW s \in Slots, TaskEnds(s), NEW j, outcome[j] = "value"
  PROVE  parser'[j] = parser[j] /\ outcome'[j] = "value" /\ Parsed(j)' = Parsed(j)
<1>1. outcome[running[s]] = "pending"
  BY DEF TaskEnds, Pool!Finish, IInv, RunOnce
<1>2. j # running[s]
  BY <1>1
<1>3. /\ DOMAIN outcome = Parsers /\ DOMAIN parser = Parsers
      /\ \E r : outcome' = [outcome EXCEPT ![running[s]] = r]
      /\ \E p : parser' = [parser EXCEPT ![running[s]] = p]
  BY DEF TaskEnds, Pool!Finish, IInv, TypeOK
<1>4. outcome'[j] = outcome[j] /\ parser'[j] = parser[j]
  BY <1>2, <1>3
<1> QED
  BY <1>4 DEF Parsed

\* The steps that leave the lists, the tasks and the parsers of Parse alone.
LEMMA Elsewhere ==
  ASSUME \/ UNCHANGED vars
         \/ \E f \in Range(Files) : FileGrows(f)
  PROVE  UNCHANGED <<kept, file_path, parser, local, mpc, parses, returned, pool>>
BY DEF vars, FileGrows
-----------------------------------------------------------------------------
(* Every step preserves the inductive invariant, part by part *)

LEMMA TypeOKStep ==
  ASSUME IInv, [Next]_vars
  PROVE  TypeOK'
<1>0. TypeOK
  BY DEF IInv
<1>1. CASE CallParse
  <2>1. /\ <<>> \in Seq(Parsers) /\ <<>> \in Seq(BOOLEAN) /\ Len(<<>>) = 0
    OBVIOUS
  <2>2. parses' \in 0..MaxParses
    BY <1>1, Typed DEF CallParse
  <2>3. Len(log_file_path_list) \in Nat
    BY Typed
  <2> QED
    BY <1>0, <1>1, <2>1, <2>2, <2>3 DEF CallParse, TypeOK, world, kept, pool
<1>2. CASE EnqueueNext
  <2>1. PICK j \in Parsers : NewParserIs(j)
    BY <1>2, NewParserStep
  <2>2. /\ outcome' \in [Parsers -> Pool!Outcomes] /\ pending' \in Seq(Parsers)
        /\ running' \in [Slots -> Parsers \cup {NoParser}]
    BY <1>0, <2>1, Appended DEF NewParserIs, Pool!Outcomes, TypeOK
  <2>3. /\ Len(file_path') <= MaxParses * Len(Files)
        /\ Len(parse_res_list) <= Len(futures')
        /\ Len(futures') <= Len(log_file_path_list)
    <3>1. Len(parse_res_list) <= Len(futures) /\ Len(futures) < Len(log_file_path_list)
      BY <1>0, <2>1 DEF NewParserIs, TypeOK
    <3> QED
      BY <2>1, <3>1, RoomLeft, NewParserLists, Typed DEF NewParserIs
  <2> QED
    BY <1>0, <2>1, <2>2, <2>3, NewParserLists DEF NewParserIs, TypeOK, world
<1>3. CASE EnqueueDone \/ GetDone
  BY <1>0, <1>3 DEF EnqueueDone, GetDone, TypeOK, world, kept, local, pool
<1>4. CASE GetFuture
  <2> DEFINE j == futures[Len(parse_res_list) + 1]
  <2>1. Parsed(j) \in BOOLEAN
    BY DEF Parsed
  <2>2. /\ Len(parse_res_list) < Len(futures)
        /\ parse_res_list' = Append(parse_res_list, Parsed(j)) /\ mpc' = "get"
        /\ UNCHANGED <<world, kept, file_path, parser, futures, parses, returned, pool>>
    BY <1>4 DEF GetFuture, Got, Waiting
  <2> HIDE DEF j
  <2>3. /\ parse_res_list' \in Seq(BOOLEAN)
        /\ Len(parse_res_list') <= Len(futures)
    <3>1. parse_res_list \in Seq(BOOLEAN)
      BY <1>0 DEF TypeOK
    <3>2. parse_res_list' \in Seq(BOOLEAN) /\ Len(parse_res_list') = Len(parse_res_list) + 1
      BY <2>1, <2>2, <3>1, Appended
    <3> QED
      BY <2>2, <3>2, Typed
  <2> QED
    BY <1>0, <1>4, <2>2, <2>3 DEF GetFuture, Waiting, TypeOK, world, kept, pool
<1>5. CASE Merge
  <2>1. PICK n \in Nat : \E good \in [1..n -> 1..Len(log_file_path_list)] : MergeIs(n, good)
    BY <1>5, MergeStep
  <2>2. PICK good \in [1..n -> 1..Len(log_file_path_list)] : MergeIs(n, good)
    BY <2>1
  <2>3. /\ log_file_path_list' \in Seq(Range(Files))
        /\ log_parser_list' \in Seq(DOMAIN file_path)
        /\ DOMAIN log_name2log_parser' \subseteq Range(Files)
    BY <1>0, <1>5, <2>2, MergeLists
  <2>4. mpc' \in {"idle", "undefined"} /\ Len(parse_res_list) <= Len(futures)
    BY <1>0, <1>5, MergeStep DEF TypeOK
  <2> QED
    BY <1>0, <1>5, <2>3, <2>4, MergeStep DEF TypeOK, world, local, pool
<1>6. ASSUME NEW s \in Slots, TaskStarts(s)
      PROVE  TypeOK'
  <2>1. /\ pending' \in Seq(Parsers) /\ running' \in [Slots -> Parsers \cup {NoParser}]
        /\ outcome' = outcome
    BY <1>0, <1>6, Taken DEF TaskStarts, Pool!Start, TypeOK
  <2> QED
    BY <1>0, <1>6, <2>1 DEF TaskStarts, TypeOK, world, kept, local
<1>7. ASSUME NEW s \in Slots, TaskEnds(s)
      PROVE  TypeOK'
  <2>1. /\ outcome' \in [Parsers -> Pool!Outcomes] /\ DOMAIN parser' = Parsers
        /\ pending' \in Seq(Parsers) /\ running' \in [Slots -> Parsers \cup {NoParser}]
    BY <1>0, <1>7 DEF TaskEnds, Pool!Finish, Pool!Outcomes, TypeOK
  <2> QED
    BY <1>0, <1>7, <2>1 DEF TaskEnds, TypeOK, world, kept, local
<1>8. ASSUME NEW f \in Range(Files), FileGrows(f)
      PROVE  TypeOK'
  <2>1. writes' \in 0..MaxWrites
    BY <1>0, <1>8, MgrAssumption DEF MgrAssumption, FileGrows, TypeOK
  <2>2. PICK line \in NewLines : disk' = [disk EXCEPT ![f].lines = Append(@, line)]
    BY <1>8 DEF FileGrows
  <2>3. disk' \in [Range(Files) -> Tables]
    <3> DEFINE t == disk[f]
               more == Append(t.lines, line)
               u == [t EXCEPT !.lines = more]
    <3>1. t \in [names : Seq(STRING), lines : Seq(Rows)] /\ line \in Rows
      BY <1>0, MgrAssumption DEF MgrAssumption, TypeOK, Tables
    <3> HIDE DEF t
    <3>2. more \in Seq(Rows)
      BY <3>1, AppendProperties
    <3> HIDE DEF more
    <3>3. u \in Tables
      BY <3>1, <3>2 DEF Tables
    <3> HIDE DEF u
    <3>4. disk' = [disk EXCEPT ![f] = u]
      BY <2>2 DEF u, more, t
    <3> QED
      BY <1>0, <3>3, <3>4 DEF TypeOK
  <2> QED
    BY <1>0, <1>8, <2>1, <2>3 DEF FileGrows, TypeOK, kept, local, pool
<1>9. CASE UNCHANGED vars
  BY <1>0, <1>9 DEF vars, TypeOK, world, kept, local, pool
<1> QED
  BY <1>1, <1>2, <1>3, <1>4, <1>5, <1>6, <1>7, <1>8, <1>9, StepCases

LEMMA PathsOnceStep ==
  ASSUME IInv, [Next]_vars
  PROVE  IsInjective(log_file_path_list')
<1>1. CASE Merge
  <2>1. PICK n \in Nat : \E good \in [1..n -> 1..Len(log_file_path_list)] : MergeIs(n, good)
    BY <1>1, MergeStep
  <2> QED
    BY <1>1, <2>1, MergeLists
<1>2. CASE ~Merge
  <2>1. log_file_path_list' = log_file_path_list
    BY <1>2, StepCases DEF CallParse, EnqueueNext, NewParser, EnqueueDone, GetFuture, Got, GetDone,
       TaskStarts, TaskEnds, FileGrows, vars, kept
  <2> QED
    BY <2>1 DEF IInv
<1> QED
  BY <1>1, <1>2

\* Neither accepting a task for a new parser nor finishing one changes what was
\* kept of the parsers before.
LEMMA KeptStays ==
  ASSUME IInv, NEW n \in Nat, n <= Len(log_parser_list), Kept(n),
         UNCHANGED <<log_file_path_list, log_name2log_parser>>,
         \A k \in 1..n : log_parser_list'[k] = log_parser_list[k],
         \A j \in 1..Len(file_path) : file_path'[j] = file_path[j],
         \A j \in 1..Len(file_path) : outcome[j] = "value" =>
            Parsed(j)' = Parsed(j) /\ outcome'[j] = "value"
  PROVE  Kept(n)'
<1>1. ASSUME NEW k \in 1..n
      PROVE  /\ row_cnt(parser'[log_parser_list'[k]].content) > 0
             /\ outcome'[log_parser_list'[k]] = "value"
             /\ file_path'[log_parser_list'[k]] = log_file_path_list[k]
             /\ log_file_path_list[k] \in DOMAIN log_name2log_parser
             /\ log_name2log_parser[log_file_path_list[k]] = log_parser_list'[k]
  <2>1. PICK j \in 1..Len(file_path) : j = log_parser_list[k]
    BY Typed
  <2>2. log_parser_list'[k] = j
    BY <2>1
  <2>3. /\ Parsed(j) /\ outcome[j] = "value" /\ file_path[j] = log_file_path_list[k]
        /\ log_file_path_list[k] \in DOMAIN log_name2log_parser
        /\ log_name2log_parser[log_file_path_list[k]] = j
    BY <2>1 DEF Kept
  <2>4. Parsed(j)' /\ outcome'[j] = "value" /\ file_path'[j] = file_path[j]
    BY <2>1, <2>3
  <2> QED
    BY <2>2, <2>3, <2>4 DEF Parsed
<1> QED
  BY <1>1 DEF Kept, Parsed

\* The steps that only move mpc, or the results, within one call of Parse.
LEMMA SameLists ==
  ASSUME IInv, UNCHANGED <<kept, file_path, futures, parses>>, Collecting' = Collecting,
         mpc' # "undefined", mpc # "undefined",
         \A j \in 1..Len(file_path) : outcome[j] = "value" =>
            Parsed(j)' = Parsed(j) /\ outcome'[j] = "value"
  PROVE  EarlierKept' /\ Earlier' = Earlier
<1>1. Earlier' = Earlier
  BY DEF Earlier, kept
<1>2. /\ Kept(Earlier) /\ Earlier \in Nat /\ Earlier <= Len(log_parser_list)
  <2>1. Earlier \in Nat
    BY Typed DEF IInv, EarlierKept
  <2> QED
    BY <2>1, Typed DEF IInv, EarlierKept, Earlier
<1> DEFINE e == Earlier
<1>3. PICK n \in Nat : n = Earlier
  BY <1>2
<1>4. Kept(n)'
  BY <1>2, <1>3, KeptStays DEF kept
<1>5. Kept(Earlier)'
  BY <1>1, <1>3, <1>4 DEF Kept
<1> QED
  BY <1>1, <1>5 DEF IInv, EarlierKept, kept

\* What the loop over the results takes from the lists was parsed, from the path
\* at the same place, in this call or in an earlier one.
LEMMA GoodOnesMatch ==
  ASSUME IInv, mpc = "merge", NEW i \in 1..Len(log_file_path_list), parse_res_list[i]
  PROVE  /\ Parsed(log_parser_list[i])
         /\ outcome[log_parser_list[i]] = "value"
         /\ file_path[log_parser_list[i]] = log_file_path_list[i]
<1>1. /\ Collecting /\ EarlierKept /\ InOwnPlaces
      /\ Len(futures) = Len(log_file_path_list) /\ Len(parse_res_list) = Len(futures)
  BY DEF IInv, InOwnPlaces, Collecting
<1>2. CASE Earlier = 0
  <2>1. log_parser_list[i] = futures[i]
    BY <1>1, <1>2 DEF InOwnPlaces
  <2> QED
    BY <1>1, <2>1 DEF InOwnPlaces
<1>3. CASE Earlier = Len(log_file_path_list)
  BY <1>1, <1>3 DEF EarlierKept, Kept
<1> QED
  BY <1>1, <1>2, <1>3 DEF EarlierKept

LEMMA EarlierKeptStep ==
  ASSUME IInv, [Next]_vars
  PROVE  EarlierKept'
<1>0. /\ TypeOK /\ EarlierKept
      /\ mpc # "undefined" => Earlier \in Nat /\ Earlier <= Len(log_parser_list)
  <2>1. mpc # "undefined" => Earlier \in Nat
    BY Typed DEF IInv, EarlierKept
  <2>2. Earlier <= Len(log_parser_list)
    BY Typed DEF Earlier
  <2> QED
    BY <2>1, <2>2 DEF IInv
<1>1. CASE CallParse
  <2>1. /\ mpc = "idle" /\ mpc' = "enqueue" /\ parses' = parses + 1 /\ futures' = <<>>
        /\ UNCHANGED <<log_parser_list, log_file_path_list, log_name2log_parser, file_path,
                       parser, outcome>>
    BY <1>1 DEF CallParse, kept, pool
  <2>2. ~Collecting /\ Collecting'
    BY <2>1 DEF Collecting
  <2>3. Earlier' = Earlier
    BY <2>1, <2>2, Typed DEF Earlier
  <2>4. Kept(Earlier)'
    BY <1>0, <2>1, <2>3 DEF EarlierKept, Kept, Parsed
  <2>5. parses' > 0 /\ (parses' = 1 <=> parses = 0) /\ parses' # 0
    BY <2>1, Typed
  <2> QED
    BY <1>0, <2>1, <2>2, <2>3, <2>4, <2>5 DEF EarlierKept
<1>2. CASE EnqueueNext
  <2>1. PICK j \in Parsers : NewParserIs(j)
    BY <1>2, NewParserStep
  <2>2. Collecting /\ Collecting' /\ mpc # "undefined"
    BY <2>1 DEF NewParserIs, Collecting
  <2>3. Earlier' = Earlier
    <3>1. Len(log_parser_list') = Len(log_parser_list) + 1 /\ Len(futures') = Len(futures) + 1
      BY <2>1, NewParserLists
    <3> QED
      BY <2>2, <3>1, Typed DEF Earlier
  <2>4. PICK n \in Nat : n = Earlier
    BY <1>0, <2>2
  <2>5. Kept(n)'
    <3>1. n <= Len(log_parser_list) /\ Kept(n)
      BY <1>0, <2>2, <2>4 DEF EarlierKept
    <3>2. \A k \in 1..n : k \in 1..Len(log_parser_list)
      BY <3>1, Typed
    <3>3. \A i \in 1..Len(file_path) : outcome[i] = "value" =>
             Parsed(i)' = Parsed(i) /\ outcome'[i] = "value"
      BY <1>0, <2>1 DEF NewParserIs, TypeOK, Parsed
    <3> QED
      BY <2>1, <3>1, <3>2, <3>3, KeptStays, NewParserLists DEF NewParserIs
  <2>6. Kept(Earlier)'
    BY <2>3, <2>4, <2>5 DEF Kept
  <2> QED
    BY <1>0, <2>1, <2>2, <2>3, <2>6 DEF NewParserIs, EarlierKept
<1>3. CASE EnqueueDone \/ GetFuture \/ GetDone
  <2>1. /\ UNCHANGED <<kept, file_path, parser, futures, parses, pool>>
        /\ Collecting' = Collecting /\ mpc' # "undefined" /\ mpc # "undefined"
    BY <1>3 DEF EnqueueDone, GetFuture, Waiting, Got, GetDone, Collecting, local
  <2> QED
    BY <2>1, SameLists DEF Parsed, pool
<1>4. CASE Merge
  <2>1. PICK n \in Nat : \E good \in [1..n -> 1..Len(log_file_path_list)] : MergeIs(n, good)
    BY <1>4, MergeStep
  <2>2. PICK good \in [1..n -> 1..Len(log_file_path_list)] : MergeIs(n, good)
    BY <2>1
  <2> SUFFICES ASSUME mpc' = "idle"
               PROVE  EarlierKept'
    BY <1>4, MergeStep DEF EarlierKept
  <2>3. ~Collecting' /\ Collecting /\ mpc = "merge" /\ parses' = parses /\ parses > 0
    BY <1>0, <1>4, MergeStep DEF Collecting, EarlierKept
  <2>4. Len(log_parser_list') = n /\ Len(log_file_path_list') = n
    BY <1>4, <2>2, MergeLists
  <2>5. Earlier' = n
    BY <2>3, <2>4 DEF Earlier
  <2>6. Kept(n)'
    <3> SUFFICES ASSUME NEW k \in 1..n
                 PROVE  /\ row_cnt(parser'[log_parser_list'[k]].content) > 0
                        /\ outcome'[log_parser_list'[k]] = "value"
                        /\ file_path'[log_parser_list'[k]] = log_file_path_list'[k]
                        /\ log_file_path_list'[k] \in DOMAIN log_name2log_parser'
                        /\ log_name2log_parser'[log_file_path_list'[k]] = log_parser_list'[k]
      BY DEF Kept, Parsed
    <3>1. good[k] \in 1..Len(log_file_path_list) /\ parse_res_list[good[k]]
      BY <2>2 DEF MergeIs
    <3>2. /\ Parsed(log_parser_list[good[k]])
          /\ outcome[log_parser_list[good[k]]] = "value"
          /\ file_path[log_parser_list[good[k]]] = log_file_path_list[good[k]]
      BY <1>4, <3>1, MergeStep, GoodOnesMatch
    <3>3. UNCHANGED <<file_path, parser, outcome>>
      BY <1>4, MergeStep DEF pool
    <3> QED
      BY <1>4, <2>2, <3>2, <3>3, MergeLists DEF Parsed
  <2>7. Kept(Earlier)'
    BY <2>5, <2>6 DEF Kept
  <2> QED
    BY <2>3, <2>4, <2>5, <2>7, Typed DEF EarlierKept
<1>5. ASSUME NEW s \in Slots, TaskStarts(s)
      PROVE  EarlierKept'
  <2>1. /\ UNCHANGED <<kept, file_path, parser, futures, parses, mpc, outcome>>
    BY <1>5 DEF TaskStarts, Pool!Start, local
  <2> QED
    BY <2>1, SameLists DEF Parsed, Collecting, EarlierKept
<1>6. ASSUME NEW s \in Slots, TaskEnds(s)
      PROVE  EarlierKept'
  <2>1. /\ UNCHANGED <<kept, file_path, futures, parses, mpc>>
    BY <1>6 DEF TaskEnds, local
  <2> QED
    BY <1>6, <2>1, SameLists, FinishedKept DEF Collecting, EarlierKept
<1>7. CASE UNCHANGED vars \/ \E f \in Range(Files) : FileGrows(f)
  <2>1. /\ UNCHANGED <<kept, file_path, parser, futures, parses, mpc, outcome>>
    BY <1>7, Elsewhere DEF local, pool
  <2> QED
    BY <2>1, SameLists DEF Parsed, Collecting, EarlierKept
<1> QED
  BY <1>1, <1>2, <1>3, <1>4, <1>5, <1>6, <1>7, StepCases

LEMMA InOwnPlacesStep ==
  ASSUME IInv, [Next]_vars
  PROVE  InOwnPlaces'
<1>0. TypeOK /\ InOwnPlaces
  BY DEF IInv
<1>1. CASE CallParse
  <2>1. /\ mpc' = "enqueue" /\ futures' = <<>> /\ parse_res_list' = <<>>
    BY <1>1 DEF CallParse
  <2>2. \A i \in 1..Len(<<>>) : FALSE
    OBVIOUS
  <2> QED
    BY <2>1, <2>2 DEF InOwnPlaces
<1>2. CASE EnqueueNext
  <2>1. PICK j \in Parsers : NewParserIs(j)
    BY <1>2, NewParserStep
  <2>2. Collecting /\ Collecting' /\ mpc = "enqueue" /\ mpc' = "enqueue"
    BY <2>1 DEF NewParserIs, Collecting
  <2>3. Earlier' = Earlier /\ Earlier = Len(log_parser_list) - Len(futures)
    <3>1. Len(log_parser_list') = Len(log_parser_list) + 1 /\ Len(futures') = Len(futures) + 1
      BY <2>1, NewParserLists
    <3> QED
      BY <2>2, <3>1, Typed DEF Earlier
  <2>4. ASSUME NEW i \in 1..Len(futures')
        PROVE  /\ futures'[i] \in DOMAIN file_path'
               /\ file_path'[futures'[i]] = log_file_path_list'[i]
               /\ log_parser_list'[Earlier' + i] = futures'[i]
    <3>1. CASE i \in 1..Len(futures)
      <4>1. futures[i] \in 1..Len(file_path) /\ file_path[futures[i]] = log_file_path_list[i]
            /\ log_parser_list[Earlier + i] = futures[i]
        BY <1>0, <2>2, <3>1, Typed DEF InOwnPlaces
      <4>2. Earlier + i \in 1..Len(log_parser_list)
        <5>1. Earlier \in Nat
          BY <2>2, Typed DEF IInv, EarlierKept
        <5> QED
          BY <2>3, <3>1, <5>1, Typed
      <4>3. PICK f \in 1..Len(file_path) : f = futures[i]
        BY <4>1
      <4>4. futures'[i] = f /\ log_parser_list'[Earlier + i] = f
        <5>1. futures'[i] = futures[i]
          BY <2>1, <3>1, NewParserLists
        <5>2. log_parser_list'[Earlier + i] = log_parser_list[Earlier + i]
          BY <2>1, <4>2, NewParserLists
        <5> QED
          BY <4>1, <4>3, <5>1, <5>2
      <4>5. f \in DOMAIN file_path' /\ file_path'[f] = file_path[f]
        <5>1. DOMAIN file_path' = 1..(Len(file_path) + 1) /\ file_path'[f] = file_path[f]
          BY <2>1, NewParserLists
        <5>2. Len(file_path) \in Nat
          BY Typed
        <5> QED
          BY <5>1, <5>2
      <4>6. log_file_path_list' = log_file_path_list
        BY <2>1 DEF NewParserIs
      <4> QED
        BY <2>3, <4>1, <4>3, <4>4, <4>5, <4>6
    <3>2. CASE i = Len(futures) + 1
      <4>1. Earlier + i = Len(log_parser_list) + 1
        BY <2>3, <3>2, Typed
      <4>2. futures'[i] = j /\ log_parser_list'[Earlier + i] = j
        BY <2>1, <3>2, <4>1, NewParserLists
      <4>3. j \in DOMAIN file_path' /\ file_path'[j] = log_file_path_list[i]
        <5>1. j = Len(file_path) + 1 /\ Len(file_path) \in Nat
          BY <2>1, Typed DEF NewParserIs
        <5>2. DOMAIN file_path' = 1..(Len(file_path) + 1)
              /\ file_path'[j] = log_file_path_list[Len(futures) + 1]
          BY <2>1, NewParserLists
        <5> QED
          BY <3>2, <5>1, <5>2
      <4>4. log_file_path_list' = log_file_path_list
        BY <2>1 DEF NewParserIs
      <4> QED
        BY <2>3, <4>2, <4>3, <4>4
    <3>3. Len(futures') = Len(futures) + 1
      BY <2>1, NewParserLists
    <3>4. i \in 1..Len(futures) \/ i = Len(futures) + 1
      <4>1. Len(futures) \in Nat
        BY Typed
      <4> QED
        BY <3>3, <4>1
    <3> QED
      BY <3>1, <3>2, <3>4
  <2>5. ASSUME NEW i \in 1..Len(parse_res_list'), parse_res_list'[i]
        PROVE  row_cnt(parser'[futures'[i]].content) > 0 /\ outcome'[futures'[i]] = "value"
    <3>1. Len(parse_res_list) <= Len(futures)
      BY <1>0, <2>2 DEF TypeOK
    <3>2. i \in 1..Len(parse_res_list) /\ i \in 1..Len(futures) /\ parse_res_list[i]
      BY <2>1, <2>5, <3>1, Typed DEF NewParserIs
    <3>3. Parsed(futures[i]) /\ outcome[futures[i]] = "value" /\ futures[i] \in Parsers
      BY <1>0, <2>2, <3>2, Typed DEF InOwnPlaces
    <3>4. futures'[i] = futures[i] /\ outcome'[futures[i]] = "value" /\ parser' = parser
      BY <1>0, <2>1, <3>2, <3>3, NewParserLists DEF NewParserIs, TypeOK
    <3> QED
      BY <3>3, <3>4 DEF Parsed
  <2> QED
    BY <2>2, <2>4, <2>5 DEF InOwnPlaces, Parsed
<1>3. CASE EnqueueDone
  <2>1. /\ UNCHANGED <<kept, file_path, parser, futures, parse_res_list, parses, outcome>>
        /\ Len(futures) = Len(log_file_path_list) /\ mpc = "enqueue" /\ mpc' = "get"
    BY <1>3 DEF EnqueueDone, pool, local
  <2> QED
    BY <1>0, <2>1 DEF InOwnPlaces, Collecting, Earlier, Parsed, kept
<1>4. CASE GetDone
  <2>1. /\ UNCHANGED <<kept, file_path, parser, futures, parse_res_list, parses, outcome>>
        /\ Len(parse_res_list) = Len(futures) /\ mpc = "get" /\ mpc' = "merge"
    BY <1>4 DEF GetDone, pool, local
  <2> QED
    BY <1>0, <2>1 DEF InOwnPlaces, Collecting, Earlier, Parsed, kept
<1>5. CASE GetFuture
  <2> DEFINE j == futures[Len(parse_res_list) + 1]
  <2>1. /\ UNCHANGED <<kept, file_path, parser, futures, outcome>>
        /\ parse_res_list' = Append(parse_res_list, Parsed(j))
        /\ outcome[j] = "value" /\ mpc = "get" /\ mpc' = "get"
    BY <1>5 DEF GetFuture, Got, Waiting, pool
  <2>2. /\ Len(parse_res_list) \in Nat /\ Len(parse_res_list') = Len(parse_res_list) + 1
        /\ \A i \in 1..Len(parse_res_list) : parse_res_list'[i] = parse_res_list[i]
        /\ parse_res_list'[Len(parse_res_list) + 1] = Parsed(j)
    <3>1. Parsed(j) \in BOOLEAN /\ parse_res_list \in Seq(BOOLEAN)
      BY <1>0 DEF Parsed, TypeOK
    <3> HIDE DEF j
    <3> QED
      BY <2>1, <3>1, Appended
  <2>3. ASSUME NEW i \in 1..Len(parse_res_list'), parse_res_list'[i]
        PROVE  Parsed(futures[i]) /\ outcome[futures[i]] = "value"
    <3>1. CASE i \in 1..Len(parse_res_list)
      BY <1>0, <2>1, <2>2, <2>3, <3>1 DEF InOwnPlaces, Collecting
    <3>2. CASE i = Len(parse_res_list) + 1
      BY <2>1, <2>2, <2>3, <3>2
    <3> QED
      BY <2>2, <3>1, <3>2
  <2> QED
    BY <1>0, <2>1, <2>3 DEF InOwnPlaces, Collecting, Earlier, Parsed, kept
<1>6. CASE Merge
  BY <1>6, MergeStep DEF InOwnPlaces, Collecting
<1>7. ASSUME NEW s \in Slots, TaskStarts(s)
      PROVE  InOwnPlaces'
  <2>1. UNCHANGED <<kept, file_path, parser, futures, parse_res_list, mpc, outcome>>
    BY <1>7 DEF TaskStarts, Pool!Start, local
  <2> QED
    BY <1>0, <2>1 DEF InOwnPlaces, Collecting, Earlier, Parsed, kept
<1>8. ASSUME NEW s \in Slots, TaskEnds(s)
      PROVE  InOwnPlaces'
  <2>1. UNCHANGED <<kept, file_path, futures, parse_res_list, mpc>>
    BY <1>8 DEF TaskEnds, local
  <2>2. ASSUME Collecting, NEW i \in 1..Len(parse_res_list), parse_res_list[i]
        PROVE  row_cnt(parser'[futures[i]].content) > 0 /\ outcome'[futures[i]] = "value"
    BY <1>0, <1>8, <2>2, FinishedKept DEF InOwnPlaces, Parsed
  <2> QED
    BY <1>0, <2>1, <2>2 DEF InOwnPlaces, Collecting, Earlier, Parsed, kept
<1>9. CASE UNCHANGED vars \/ \E f \in Range(Files) : FileGrows(f)
  <2>1. UNCHANGED <<kept, file_path, parser, futures, parse_res_list, mpc, outcome>>
    BY <1>9, Elsewhere DEF local, pool
  <2> QED
    BY <1>0, <2>1 DEF InOwnPlaces, Collecting, Earlier, Parsed, kept
<1> QED
  BY <1>1, <1>2, <1>3, <1>4, <1>5, <1>6, <1>7, <1>8, <1>9, StepCases

LEMMA RunOnceStep ==
  ASSUME IInv, [Next]_vars
  PROVE  RunOnce'
<1>0. /\ TypeOK /\ RunOnce /\ pending \in Seq(Parsers)
      /\ running \in [Slots -> Parsers \cup {NoParser}]
  BY DEF IInv, TypeOK
<1>1. CASE EnqueueNext
  <2>1. PICK j \in Parsers : NewParserIs(j)
    BY <1>1, NewParserStep
  <2>2. /\ Len(pending) \in Nat /\ Len(pending') = Len(pending) + 1
        /\ DOMAIN pending = 1..Len(pending) /\ DOMAIN pending' = 1..(Len(pending) + 1)
        /\ \A i \in 1..Len(pending) : pending'[i] = pending[i]
        /\ pending'[Len(pending) + 1] = j
    BY <1>0, <2>1, Appended DEF NewParserIs
  <2>3. /\ outcome'[j] = "pending" /\ outcome[j] = "none" /\ running' = running
        /\ \A m : m # j => outcome'[m] = outcome[m]
    BY <1>0, <2>1 DEF NewParserIs, TypeOK
  <2>4. \A i \in 1..Len(pending) : pending[i] # j /\ outcome[pending[i]] = "pending"
    BY <1>0, <2>3 DEF RunOnce
  <2>5. \A i \in 1..Len(pending') : i \in 1..Len(pending) \/ i = Len(pending) + 1
    BY <2>2
  <2>6. /\ \A i \in 1..Len(pending') : outcome'[pending'[i]] = "pending"
        /\ \A i, k \in 1..Len(pending') : pending'[i] = pending'[k] => i = k
    BY <1>0, <2>2, <2>3, <2>4, <2>5 DEF RunOnce
  <2>7. Range(pending') = Range(pending) \cup {j}
    BY <2>2, <2>5 DEF Range
  <2>8. \A s \in Slots : running[s] # NoParser =>
           /\ outcome[running[s]] = "pending" /\ running[s] # j
           /\ running[s] \notin Range(pending')
    BY <1>0, <2>3, <2>7 DEF RunOnce
  <2> QED
    BY <1>0, <2>3, <2>6, <2>8 DEF RunOnce
<1>2. ASSUME NEW s \in Slots, TaskStarts(s)
      PROVE  RunOnce'
  <2>1. /\ pending # <<>> /\ running[s] = NoParser
        /\ running' = [running EXCEPT ![s] = Head(pending)]
        /\ pending' = Tail(pending) /\ outcome' = outcome
    BY <1>2 DEF TaskStarts, Pool!Start
  <2> DEFINE j == Head(pending)
  <2>2. /\ j \in Parsers /\ j = pending[1] /\ Len(pending) \in Nat \ {0}
        /\ Len(pending') = Len(pending) - 1
        /\ DOMAIN pending = 1..Len(pending) /\ DOMAIN pending' = 1..Len(pending')
        /\ \A i \in 1..Len(pending') : i + 1 \in 1..Len(pending) /\ pending'[i] = pending[i + 1]
    BY <1>0, <2>1, Taken
  <2> HIDE DEF j
  <2>3. 1 \in 1..Len(pending) /\ \A i, k \in 1..Len(pending') : i + 1 # 1 /\ (i + 1 = k + 1 => i = k)
    BY <2>2
  <2>4. /\ \A i \in 1..Len(pending') : outcome[pending'[i]] = "pending" /\ pending'[i] # j
        /\ \A i, k \in 1..Len(pending') : pending'[i] = pending'[k] => i = k
        /\ outcome[j] = "pending"
    BY <1>0, <2>2, <2>3 DEF RunOnce
  <2>5. j \in Range(pending) /\ j \notin Range(pending') /\ Range(pending') \subseteq Range(pending)
    <3>1. j \in Range(pending)
      BY <2>2, <2>3 DEF Range
    <3>2. \A i \in 1..Len(pending') : pending'[i] \in Range(pending)
      BY <2>2 DEF Range
    <3>3. Range(pending') \subseteq Range(pending) /\ j \notin Range(pending')
      BY <2>2, <2>4, <3>2 DEF Range
    <3> QED
      BY <3>1, <3>3
  <2>6. \A t \in Slots : running'[t] = IF t = s THEN j ELSE running[t]
    BY <1>0, <2>1 DEF j
  <2>7. ASSUME NEW t \in Slots, running'[t] # NoParser
        PROVE  /\ outcome[running'[t]] = "pending" /\ running'[t] \notin Range(pending')
               /\ \A u \in Slots : running'[u] = running'[t] => u = t
    BY <1>0, <2>4, <2>5, <2>6, <2>7 DEF RunOnce
  <2> QED
    BY <2>1, <2>4, <2>7 DEF RunOnce
<1>3. ASSUME NEW s \in Slots, TaskEnds(s)
      PROVE  RunOnce'
  <2>1. /\ running[s] # NoParser /\ \E r : outcome' = [outcome EXCEPT ![running[s]] = r]
        /\ running' = [running EXCEPT ![s] = NoParser] /\ pending' = pending
    BY <1>3 DEF TaskEnds, Pool!Finish
  <2>2. /\ \A t \in Slots : running'[t] = IF t = s THEN NoParser ELSE running[t]
        /\ \A m : m # running[s] => outcome'[m] = outcome[m]
    BY <1>0, <2>1 DEF TypeOK
  <2>3. \A i \in 1..Len(pending) : pending[i] # running[s]
    <3>1. DOMAIN pending = 1..Len(pending)
      BY <1>0, LenProperties
    <3>2. running[s] \notin Range(pending)
      BY <1>0, <2>1 DEF RunOnce
    <3> QED
      BY <3>1, <3>2 DEF Range
  <2>4. \A i \in 1..Len(pending) : outcome'[pending[i]] = "pending"
    BY <1>0, <2>2, <2>3 DEF RunOnce
  <2>5. ASSUME NEW t \in Slots, running'[t] # NoParser
        PROVE  /\ outcome'[running'[t]] = "pending" /\ running'[t] \notin Range(pending)
               /\ \A u \in Slots : running'[u] = running'[t] => u = t
    <3>1. t # s /\ running'[t] = running[t] /\ running[t] # running[s]
      BY <1>0, <2>2, <2>5 DEF RunOnce
    <3> QED
      BY <1>0, <2>2, <2>5, <3>1 DEF RunOnce
  <2> QED
    BY <1>0, <2>1, <2>4, <2>5 DEF RunOnce
<1>4. CASE \/ CallParse \/ EnqueueDone \/ GetFuture \/ GetDone \/ Merge
           \/ UNCHANGED vars \/ \E f \in Range(Files) : FileGrows(f)
  <2>1. UNCHANGED <<pending, running, outcome>>
    BY <1>4, MergeStep, Elsewhere DEF CallParse, EnqueueDone, GetFuture, Got, GetDone, pool
  <2> QED
    BY <1>0, <2>1 DEF RunOnce
<1> QED
  BY <1>1, <1>2, <1>3, <1>4, StepCases

LEMMA RoomStep ==
  ASSUME IInv, [Next]_vars
  PROVE  Room'
<1>0. /\ Room
      /\ Len(Files) \in Nat /\ Len(log_file_path_list) \in Nat /\ Len(futures) \in Nat
      /\ Len(file_path) \in Nat /\ parses \in Nat
  BY Typed DEF IInv
<1>1. CASE CallParse
  <2>1. /\ UNCHANGED <<file_path, log_file_path_list>> /\ futures' = <<>>
        /\ parses' = parses + 1 /\ ~Collecting /\ Collecting'
    BY <1>1 DEF CallParse, kept, Collecting
  <2>2. Len(file_path) <= parses * Len(Files) /\ Len(log_file_path_list) <= Len(Files)
    BY <1>0, <2>1 DEF Room
  <2>3. (parses + 1) * Len(Files) = parses * Len(Files) + Len(Files)
    <3> DEFINE n == Len(Files)
    <3> HIDE DEF n
    <3>1. n \in Nat => (parses + 1) * n = parses * n + n
      BY <1>0
    <3> QED
      BY <1>0, <3>1 DEF n
  <2>4. parses * Len(Files) \in Nat
    BY <1>0
  <2> QED
    BY <1>0, <2>1, <2>2, <2>3, <2>4 DEF Room
<1>2. CASE EnqueueNext
  <2>1. PICK j \in Parsers : NewParserIs(j)
    BY <1>2, NewParserStep
  <2>2. /\ UNCHANGED <<log_file_path_list, parses>> /\ Collecting /\ Collecting'
        /\ Len(file_path') = Len(file_path) + 1 /\ Len(futures') = Len(futures) + 1
    BY <2>1, NewParserLists DEF NewParserIs, Collecting
  <2>3. parses * Len(Files) \in Nat
    BY <1>0
  <2> QED
    BY <1>0, <2>2, <2>3 DEF Room
<1>3. CASE EnqueueDone \/ GetFuture \/ GetDone
  <2>1. /\ UNCHANGED <<file_path, log_file_path_list, futures, parses>>
        /\ Collecting' = Collecting
    BY <1>3 DEF EnqueueDone, GetFuture, Waiting, Got, GetDone, Collecting, kept, local
  <2> QED
    BY <1>0, <2>1 DEF Room
<1>4. CASE Merge
  <2>1. PICK n \in Nat : \E good \in [1..n -> 1..Len(log_file_path_list)] : MergeIs(n, good)
    BY <1>4, MergeStep
  <2>2. Len(log_file_path_list') <= Len(log_file_path_list)
    BY <1>4, <2>1, MergeLists DEF MergeIs
  <2>3. /\ UNCHANGED <<file_path, parses>> /\ Collecting /\ ~Collecting'
        /\ Len(futures) = Len(log_file_path_list)
    BY <1>4, MergeStep DEF Collecting, IInv, InOwnPlaces
  <2>4. parses * Len(Files) \in Nat /\ Len(log_file_path_list') \in Nat
    BY <1>0, <1>4, <2>1, MergeLists
  <2> QED
    BY <1>0, <2>2, <2>3, <2>4 DEF Room
<1>5. ASSUME NEW s \in Slots, TaskStarts(s) \/ TaskEnds(s)
      PROVE  Room'
  <2>1. UNCHANGED <<file_path, log_file_path_list, futures, parses, mpc>>
    BY <1>5 DEF TaskStarts, TaskEnds, kept, local
  <2> QED
    BY <1>0, <2>1 DEF Room, Collecting
<1>6. CASE UNCHANGED vars \/ \E f \in Range(Files) : FileGrows(f)
  <2>1. UNCHANGED <<file_path, log_file_path_list, futures, parses, mpc>>
    BY <1>6, Elsewhere DEF kept, local
  <2> QED
    BY <1>0, <2>1 DEF Room, Collecting
<1> QED
  BY <1>1, <1>2, <1>3, <1>4, <1>5, <1>6, StepCases

LEMMA InitIInv == Init => IInv
<1> SUFFICES ASSUME Init PROVE IInv
  OBVIOUS
<1>1. /\ <<>> \in Seq(Parsers) /\ <<>> \in Seq(BOOLEAN) /\ <<>> \in Seq(Range(Files))
      /\ <<>> \in Seq(DOMAIN file_path) /\ Len(<<>>) = 0
  OBVIOUS
<1>2. Len(Files) \in Nat /\ MaxParses * Len(Files) \in Nat
  BY MgrAssumption, LenProperties DEF MgrAssumption
<1>3. TypeOK
  <2>1. /\ log_file_path_list \in Seq(Range(Files)) /\ disk \in [Range(Files) -> Tables]
        /\ writes \in 0..MaxWrites /\ parses \in 0..MaxParses
        /\ DOMAIN log_name2log_parser \subseteq Range(Files)
    BY MgrAssumption DEF MgrAssumption, Init
  <2>2. /\ pending \in Seq(Parsers) /\ running \in [Slots -> Parsers \cup {NoParser}]
        /\ outcome \in [Parsers -> Pool!Outcomes]
    BY <1>1 DEF Init, Pool!Init, Pool!Outcomes
  <2>3. /\ log_parser_list \in Seq(DOMAIN file_path) /\ file_path \in Seq(Range(Files))
        /\ Len(file_path) <= MaxParses * Len(Files)
        /\ futures \in Seq(Parsers) /\ parse_res_list \in Seq(BOOLEAN)
    BY <1>1, <1>2 DEF Init
  <2>4. /\ DOMAIN parser = Parsers /\ mpc = "idle" /\ returned \in BOOLEAN
    BY DEF Init
  <2> QED
    BY <2>1, <2>2, <2>3, <2>4 DEF TypeOK
<1>4. EarlierKept /\ InOwnPlaces /\ Room
  BY <1>1, <1>2 DEF Init, EarlierKept, InOwnPlaces, Room, Collecting, Earlier, Kept
<1>5. RunOnce
  BY <1>1 DEF Init, Pool!Init, RunOnce
<1> QED
  BY <1>3, <1>4, <1>5, MgrAssumption DEF MgrAssumption, Init, IInv
-----------------------------------------------------------------------------
(* Who is asked, and of what rows: Orderly and MergedFrom *)

\* What one parser holds.
LEMMA ParserFacts ==
  ASSUME Orderly, NEW j \in Parsers, NEW p, p = parser[j].content
  PROVE  /\ p.names \in Seq(STRING) /\ p.types \in Seq(DataType) /\ Len(p.types) = Len(p.names)
         /\ p.rows \in Seq(Rows)
         /\ \A k \in 1..Len(p.rows) : Schema(p.rows[k]) = p.types
         /\ Len(p.types) \in Nat /\ Len(p.rows) \in Nat
<1>1. Rectangular(p) /\ Uniform(p)
  BY DEF Orderly, WellFormed
<1>2. p.types \in Seq(DataType) /\ p.rows \in Seq(Rows)
  BY <1>1 DEF Rectangular
<1>3. Len(p.types) \in Nat /\ Len(p.rows) \in Nat
  BY <1>2, LenProperties
<1> QED
  BY <1>1, <1>3 DEF Rectangular, Uniform, row_cnt

\* All rows of a list of parsers are theirs.
LEMMA Together ==
  ASSUME Orderly, NEW list \in Seq(Parsers),
         NEW ss, ss = [k \in 1..Len(list) |-> parser[list[k]].content.rows]
  PROVE  /\ ss \in Seq(Seq(Rows)) /\ Len(ss) = Len(list) /\ Len(list) \in Nat
         /\ \A k \in 1..Len(list) : list[k] \in Parsers /\ ss[k] = parser[list[k]].content.rows
         /\ AllRows(list) = FlattenSeq(ss)
         /\ AllRows(list) \in Seq(Rows)
<1>1. Len(list) \in Nat /\ \A k \in 1..Len(list) : list[k] \in Parsers
  BY SeqFacts
<1>2. \A k \in 1..Len(list) : parser[list[k]].content.rows \in Seq(Rows)
  BY <1>1, ParserFacts
<1>3. ss \in [1..Len(list) -> Seq(Rows)]
  BY <1>2
<1>4. ss \in Seq(Seq(Rows)) /\ Len(ss) = Len(list)
  BY <1>1, <1>3, LenProperties
<1>5. AllRows(list) = FlattenSeq(ss)
  BY DEF AllRows
<1>6. FlattenSeq(ss) \in Seq(Rows)
  BY <1>4, Flattened
<1> QED
  BY <1>1, <1>4, <1>5, <1>6

\* ... and each of them has the types of its parser.
LEMMA RowsOfParsers ==
  ASSUME Orderly, NEW list \in Seq(Parsers)
  PROVE  \A r \in 1..Len(AllRows(list)) : \E k \in 1..Len(list) :
            \E p \in 1..Len(parser[list[k]].content.rows) :
               /\ AllRows(list)[r] = parser[list[k]].content.rows[p]
               /\ Schema(AllRows(list)[r]) = parser[list[k]].content.types
               /\ AllRows(list)[r] \in Rows
<1> DEFINE ss == [k \in 1..Len(list) |-> parser[list[k]].content.rows]
<1>1. /\ ss \in Seq(Seq(Rows)) /\ Len(ss) = Len(list)
      /\ \A k \in 1..Len(list) : list[k] \in Parsers /\ ss[k] = parser[list[k]].content.rows
      /\ AllRows(list) = FlattenSeq(ss) /\ AllRows(list) \in Seq(Rows)
  BY Together
<1> HIDE DEF ss
<1> DEFINE all == AllRows(list)
<1>2. \A r \in 1..Len(all) : \E k \in 1..Len(list) : \E p \in 1..Len(ss[k]) : all[r] = ss[k][p]
  <2>1. ss \in Seq(Seq(Rows)) /\ Len(ss) = Len(list) /\ all = FlattenSeq(ss)
    BY <1>1
  <2>2. \A r \in 1..Len(FlattenSeq(ss)) :
           \E k \in 1..Len(ss) : \E p \in 1..Len(ss[k]) : FlattenSeq(ss)[r] = ss[k][p]
    BY ONLY <2>1, Flattened, Zenon
  <2> HIDE DEF all
  <2> QED
    BY ONLY <2>1, <2>2, Zenon
<1>3. \A r \in 1..Len(all) : all[r] \in Rows
  BY <1>1, SeqFacts
<1> HIDE DEF all
<1> SUFFICES ASSUME NEW r \in 1..Len(all)
             PROVE  \E k \in 1..Len(list) : \E p \in 1..Len(parser[list[k]].content.rows) :
                       /\ all[r] = parser[list[k]].content.rows[p]
                       /\ Schema(all[r]) = parser[list[k]].content.types
                       /\ all[r] \in Rows
  BY DEF all
<1>4. PICK k \in 1..Len(list) : \E p \in 1..Len(ss[k]) : all[r] = ss[k][p]
  BY <1>2
<1>5. PICK p \in 1..Len(ss[k]) : all[r] = ss[k][p]
  BY <1>4
<1>6. Schema(parser[list[k]].content.rows[p]) = parser[list[k]].content.types
  BY <1>1, <1>5, ParserFacts
<1>7. ss[k] = parser[list[k]].content.rows
  BY <1>1
<1> QED
  BY <1>3, <1>5, <1>6, <1>7

\* ... and none of the rows of the parsers is lost.
LEMMA NoRowLost ==
  ASSUME Orderly, NEW list \in Seq(Parsers)
  PROVE  \A k \in 1..Len(list) : \A p \in 1..Len(parser[list[k]].content.rows) :
            \E r \in 1..Len(AllRows(list)) : AllRows(list)[r] = parser[list[k]].content.rows[p]
<1> DEFINE ss == [k \in 1..Len(list) |-> parser[list[k]].content.rows]
<1>1. /\ ss \in Seq(Seq(Rows)) /\ Len(ss) = Len(list) /\ AllRows(list) = FlattenSeq(ss)
      /\ \A k \in 1..Len(list) : ss[k] = parser[list[k]].content.rows
  BY Together
<1> HIDE DEF ss
<1>2. \A k \in 1..Len(ss) : \A p \in 1..Len(ss[k]) :
         \E r \in 1..Len(FlattenSeq(ss)) : FlattenSeq(ss)[r] = ss[k][p]
  <2>1. ss \in Seq(Seq(Rows))
    BY <1>1
  <2> QED
    BY ONLY <2>1, Flattened, Zenon
<1> SUFFICES ASSUME NEW k \in 1..Len(list), NEW p \in 1..Len(parser[list[k]].content.rows)
             PROVE  \E r \in 1..Len(AllRows(list)) :
                       AllRows(list)[r] = parser[list[k]].content.rows[p]
  OBVIOUS
<1>3. k \in 1..Len(ss) /\ p \in 1..Len(ss[k]) /\ ss[k] = parser[list[k]].content.rows
  BY <1>1
<1>4. PICK r \in 1..Len(FlattenSeq(ss)) : FlattenSeq(ss)[r] = ss[k][p]
  BY <1>2, <1>3
<1> QED
  BY <1>1, <1>3, <1>4

\* What the rest of Parse makes of the rows that were kept.
LEMMA MergeMakes ==
  ASSUME Merge, NEW list, list = log_parser_list',
         NEW first, first = parser[list[1]].content,
         NEW all, all = AllRows(list)
  PROVE  \/ /\ mpc' = "undefined" /\ UNCHANGED merged_log_parser
            /\ all # <<>> /\ \E r \in 1..Len(all) : ReadsPastEnd(all[r], first.types)
         \/ mpc' = "idle" /\ ~returned' /\ UNCHANGED merged_log_parser
         \/ mpc' = "idle" /\ ~returned' /\ all # <<>> /\ merged_log_parser' = Unparsed(first)
         \/ /\ mpc' = "idle" /\ all # <<>>
            /\ ParseRawContent(first.names, first.types, all) # Rejected
            /\ merged_log_parser' \in SortContent(ParseRawContent(first.names, first.types, all))
<1> DEFINE ok == {i \in 1..Len(log_file_path_list) : parse_res_list[i]}
           chosen == Those(log_parser_list, ok)
<1>1. /\ Keep(Those(log_file_path_list, ok), chosen)
      /\ ParseMerged(parser[chosen[1]].content, AllRows(chosen))
  BY DEF Merge
<1>2. list = chosen
  BY <1>1 DEF Keep
<1> HIDE DEF chosen
<1>3. ParseMerged(first, all)
  BY <1>1, <1>2
<1> QED
  BY <1>3 DEF ParseMerged, Returns

\* Every parser made so far is one of those there is room for.
LEMMA TasksHaveFiles ==
  ASSUME IInv
  PROVE  DOMAIN file_path \subseteq Parsers
<1>1. /\ DOMAIN file_path = 1..Len(file_path) /\ Len(file_path) \in Nat
      /\ Len(file_path) <= MaxParses * Len(Files)
      /\ MaxParses \in Nat /\ Len(Files) \in Nat
  BY Typed DEF IInv, TypeOK
<1>2. MaxParses * Len(Files) \in Nat
  BY <1>1
<1> QED
  BY <1>1, <1>2 DEF Parsers

\* The parsers that are kept have finished, so that no task changes them.
LEMMA KeptFinished ==
  ASSUME IInv, Merge
  PROVE  /\ log_parser_list' \in Seq(Parsers)
         /\ \A k \in 1..Len(log_parser_list') : outcome[log_parser_list'[k]] = "value"
<1>1. PICK n \in Nat : \E good \in [1..n -> 1..Len(log_file_path_list)] : MergeIs(n, good)
  BY MergeStep
<1>2. PICK good \in [1..n -> 1..Len(log_file_path_list)] : MergeIs(n, good)
  BY <1>1
<1>3. /\ log_parser_list' \in Seq(DOMAIN file_path) /\ Len(log_parser_list') = n
      /\ \A k \in 1..n : log_parser_list'[k] = log_parser_list[good[k]]
  BY <1>2, MergeLists
<1>4. DOMAIN file_path \subseteq Parsers
  BY TasksHaveFiles
<1>5. log_parser_list' \in Seq(Parsers)
  BY <1>3, <1>4, SeqMonotonic
<1>6. ASSUME NEW k \in 1..n PROVE outcome[log_parser_list'[k]] = "value"
  <2>1. parse_res_list[good[k]] /\ good[k] \in 1..Len(log_file_path_list)
    BY <1>2 DEF MergeIs
  <2>2. outcome[log_parser_list[good[k]]] = "value"
    BY <2>1, MergeStep, GoodOnesMatch
  <2> QED
    BY <1>3, <2>2
<1> QED
  BY <1>3, <1>5, <1>6

\* Rows to merge are the rows of some parser.
LEMMA SomeParser ==
  ASSUME Orderly, NEW list \in Seq(Parsers), AllRows(list) # <<>>
  PROVE  1 \in 1..Len(list) /\ list[1] \in Parsers
<1>1. AllRows(list) \in Seq(Rows) /\ Len(list) \in Nat
      /\ \A k \in 1..Len(list) : list[k] \in Parsers
  BY Together
<1>2. 1 \in 1..Len(AllRows(list))
  BY <1>1, LenProperties, EmptySeq
<1>3. \E k \in 1..Len(list) : TRUE
  BY <1>2, RowsOfParsers
<1> QED
  BY <1>1, <1>3

LEMMA NoneFits == WellFormed(None) /\ Uniform(None.content)
<1>1. None.content = Rejected /\ None.order = <<>> /\ Len(Rejected.types) = 0
  BY DEF None, Rejected, Content
<1>2. \A S : <<>> \in [1..0 -> S]
  OBVIOUS
<1> QED
  BY <1>1, <1>2, RejectedRows DEF WellFormed

\* So does a merged parser that could not parse.
LEMMA UnparsedFits ==
  ASSUME NEW p, p.names \in Seq(STRING), p.types \in Seq(DataType),
         Len(p.types) = Len(p.names)
  PROVE  WellFormed(Unparsed(p))
<1> DEFINE s == Unparsed(p)
           n == Len(p.types)
<1>1. /\ s.content.names = p.names /\ s.content.types = p.types
      /\ s.content.rows = <<>> /\ s.order = [i \in 1..n |-> <<>>]
  BY DEF Unparsed, Content
<1>2. row_cnt(s.content) = 0 /\ <<>> \in Seq(Rows)
  BY <1>1 DEF row_cnt
<1> HIDE DEF s, n
<1>3. Rectangular(s.content)
  BY <1>1, <1>2 DEF Rectangular
<1>4. <<>> \in Injection(1..0, 1..0)
  <2>1. <<>> \in [1..0 -> 1..0]
    OBVIOUS
  <2> QED
    BY <2>1 DEF Injection, IsInjective
<1>5. s.order \in [1..n -> Injection(1..0, 1..0)]
  BY <1>1, <1>4
<1>6. \A i : MayLeave(s.content, i, s.order[i])
  BY <1>2 DEF MayLeave
<1> QED
  BY <1>1, <1>2, <1>3, <1>5, <1>6 DEF WellFormed, s, n

\* A parser that has read its file fits.
LEMMA ReadFits ==
  ASSUME NEW file \in Tables, NEW p, p = ParseRawContentFromFile(file),
         NEW s \in (IF p = Rejected THEN {None} ELSE SortContent(p))
  PROVE  WellFormed(s) /\ Uniform(s.content)
<1>1. Rectangular(p) /\ Uniform(p)
  BY FileRows
<1>2. CASE p = Rejected
  BY <1>2, NoneFits
<1>3. CASE p # Rejected
  BY <1>1, <1>3, SortedRows
<1> QED
  BY <1>2, <1>3

LEMMA OrderlyStep ==
  ASSUME IInv, Orderly, [Next]_vars
  PROVE  Orderly'
<1>0. TypeOK
  BY DEF IInv
<1>1. CASE EnqueueNext
  <2>1. PICK j \in Parsers : NewParserIs(j)
    BY <1>1, NewParserStep
  <2>2. /\ Len(file_path') = Len(file_path) + 1 /\ j = Len(file_path) + 1
        /\ Len(file_path) \in Nat
    BY <2>1, NewParserLists, Typed DEF NewParserIs
  <2>3. /\ \A m : m # j => outcome'[m] = outcome[m]
        /\ UNCHANGED <<parser, merged_log_parser, log_name2log_parser>>
    BY <1>0, <2>1 DEF NewParserIs, TypeOK
  <2>4. ASSUME NEW m \in Parsers, outcome'[m] # "none" PROVE m <= Len(file_path')
    <3>1. CASE m = j
      BY <2>2, <3>1
    <3>2. CASE m # j
      <4>1. m <= Len(file_path)
        BY <2>3, <2>4, <3>2 DEF Orderly
      <4>2. m \in Int
        BY DEF Parsers
      <4> QED
        BY <2>2, <4>1, <4>2
    <3> QED
      BY <3>1, <3>2
  <2> QED
    BY <2>3, <2>4 DEF Orderly
<1>2. CASE Merge
  <2> DEFINE list  == log_parser_list'
             first == parser[list[1]].content
             all   == AllRows(list)
  <2>1. list \in Seq(Parsers)
    BY <1>2, KeptFinished
  <2>2. WellFormed(merged_log_parser')
    <3>1. CASE UNCHANGED merged_log_parser
      BY <3>1 DEF Orderly
    <3>3. CASE all # <<>> /\ merged_log_parser' = Unparsed(first)
      <4>1. list[1] \in Parsers
        BY <2>1, <3>3, SomeParser
      <4>2. /\ first.names \in Seq(STRING) /\ first.types \in Seq(DataType)
            /\ Len(first.types) = Len(first.names)
        BY <4>1, ParserFacts
      <4> HIDE DEF first, all
      <4> QED
        BY <3>3, <4>2, UnparsedFits
    <3>2. CASE /\ all # <<>>
               /\ merged_log_parser' \in SortContent(ParseRawContent(first.names, first.types, all))
      <4>1. list[1] \in Parsers /\ all \in Seq(Rows)
        BY <2>1, <3>2, SomeParser, Together
      <4>2. /\ first.names \in Seq(STRING) /\ first.types \in Seq(DataType)
            /\ Len(first.types) = Len(first.names)
        BY <4>1, ParserFacts
      <4> HIDE DEF first, all
      <4>3. Rectangular(ParseRawContent(first.names, first.types, all))
        BY <4>1, <4>2, MergedRows
      <4> QED
        BY <3>2, <4>3, SortedRows
    <3> HIDE DEF first, all
    <3> QED
      BY <1>2, <3>1, <3>2, <3>3, MergeMakes DEF first, all
  <2>3. \A f \in DOMAIN log_name2log_parser' : log_name2log_parser'[f] \in Parsers
    <3> DEFINE ok == {i \in 1..Len(log_file_path_list) : parse_res_list[i]}
               paths  == Those(log_file_path_list, ok)
               chosen == Those(log_parser_list, ok)
    <3>1. Keep(paths, chosen)
      BY <1>2 DEF Merge
    <3> HIDE DEF paths, chosen
    <3>2. PICK n \in Nat : \E good \in [1..n -> 1..Len(log_file_path_list)] : MergeIs(n, good)
      BY <1>2, MergeStep
    <3>3. /\ log_file_path_list' \in Seq(Range(Files)) /\ Len(log_file_path_list') = n
          /\ Len(log_parser_list') = n
          /\ \A k \in 1..n : log_name2log_parser'[log_file_path_list'[k]] = log_parser_list'[k]
      BY <1>2, <3>2, MergeLists
    <3>4. \A k \in 1..n : log_parser_list'[k] \in Parsers
      BY <2>1, <3>3, SeqFacts
    <3>5. DOMAIN log_file_path_list' = 1..n
      BY <3>3, SeqFacts
    <3>6. \A f \in Range(log_file_path_list') : log_name2log_parser'[f] \in Parsers
      BY <3>3, <3>4, <3>5 DEF Range
    <3>7. ASSUME NEW f \in DOMAIN log_name2log_parser', f \notin Range(log_file_path_list')
          PROVE  log_name2log_parser'[f] \in Parsers
      <4>1. /\ f \in DOMAIN log_name2log_parser
            /\ log_name2log_parser'[f] = log_name2log_parser[f]
        BY <3>1, <3>7 DEF Keep
      <4> QED
        BY <4>1 DEF Orderly
    <3> QED
      BY <3>6, <3>7
  <2>4. UNCHANGED <<parser, outcome, file_path>>
    BY <1>2, MergeStep DEF pool
  <2> QED
    BY <2>2, <2>3, <2>4 DEF Orderly
<1>3. ASSUME NEW s \in Slots, TaskEnds(s)
      PROVE  Orderly'
  <2> DEFINE j == running[s]
  <2>1. /\ j # NoParser /\ \E r : outcome' = [outcome EXCEPT ![j] = r]
        /\ UNCHANGED <<file_path, merged_log_parser, log_name2log_parser>>
    BY <1>3 DEF TaskEnds, Pool!Finish, kept
  <2>2. j \in Parsers /\ outcome[j] = "pending"
    BY <1>0, <2>1 DEF TypeOK, IInv, RunOnce
  <2>3. disk[file_path[j]] \in Tables
    <3>1. j \in 1..Len(file_path)
      <4>1. j <= Len(file_path)
        BY <2>2 DEF Orderly
      <4>2. j \in Nat /\ 1 <= j
        BY <2>2, MgrAssumption, Typed DEF Parsers
      <4> QED
        BY <4>1, <4>2, Typed
    <3>2. file_path[j] \in Range(Files)
      BY <1>0, <3>1, SeqFacts DEF TypeOK
    <3> QED
      BY <1>0, <3>2 DEF TypeOK
  <2>4. PICK sorted : /\ WellFormed(sorted) /\ Uniform(sorted.content)
                      /\ parser' = [parser EXCEPT ![j] = sorted]
    <3> DEFINE p == ParseRawContentFromFile(disk[file_path[j]])
    <3>1. PICK sorted \in (IF p = Rejected THEN {None} ELSE SortContent(p)) :
             parser' = [parser EXCEPT ![j] = sorted]
      BY <1>3 DEF TaskEnds
    <3> HIDE DEF j
    <3>2. WellFormed(sorted) /\ Uniform(sorted.content)
      BY <2>3, <3>1, ReadFits
    <3> QED
      BY <3>1, <3>2
  <2> HIDE DEF j
  <2>5. \A m \in Parsers : WellFormed(parser'[m]) /\ Uniform(parser'[m].content)
    <3>1. \A m \in Parsers : parser'[m] = IF m = j THEN sorted ELSE parser[m]
      BY <1>0, <2>4 DEF TypeOK
    <3> SUFFICES ASSUME NEW m \in Parsers
                 PROVE  WellFormed(parser'[m]) /\ Uniform(parser'[m].content)
      OBVIOUS
    <3>2. CASE m = j
      BY <2>4, <3>1, <3>2
    <3>3. CASE m # j
      BY <3>1, <3>3 DEF Orderly
    <3> QED
      BY <3>2, <3>3
  <2>6. \A m \in Parsers : outcome'[m] # "none" => outcome[m] # "none"
    BY <1>0, <2>1, <2>2 DEF TypeOK
  <2> QED
    BY <2>1, <2>5, <2>6 DEF Orderly
<1>4. CASE \/ CallParse \/ EnqueueDone \/ GetFuture \/ GetDone
           \/ \E s \in Slots : TaskStarts(s)
           \/ UNCHANGED vars \/ \E f \in Range(Files) : FileGrows(f)
  <2>1. UNCHANGED <<parser, outcome, file_path, merged_log_parser, log_name2log_parser>>
    BY <1>4, Elsewhere DEF CallParse, EnqueueDone, GetFuture, Got, GetDone, TaskStarts,
       Pool!Start, pool, kept
  <2> QED
    BY <2>1 DEF Orderly
<1> QED
  BY <1>1, <1>2, <1>3, <1>4, StepCases

\* The parsers of log_parser_list have finished once Parse has returned.
LEMMA ListFinished ==
  ASSUME IInv, MergedFrom, Answering \/ mpc = "undefined"
  PROVE  \A k \in 1..Len(log_parser_list) : outcome[log_parser_list[k]] = "value"
<1>1. CASE mpc = "undefined"
  BY <1>1 DEF MergedFrom
<1>2. CASE Answering
  <2>1. mpc = "idle" /\ ~Collecting
    BY <1>2 DEF Answering, Collecting
  <2>2. Kept(Earlier) /\ Earlier = Len(log_parser_list)
    BY <2>1, Typed DEF IInv, EarlierKept, Earlier
  <2> QED
    BY <2>2 DEF Kept
<1> QED
  BY <1>1, <1>2

\* Why merging may read past a row, and what it makes otherwise.
LEMMA MergedFromMerge ==
  ASSUME IInv, Orderly, Merge
  PROVE  MergedFrom'
<1> DEFINE list  == log_parser_list'
           first == parser[list[1]].content
           all   == AllRows(list)
           p     == ParseRawContent(first.names, first.types, all)
<1>1. /\ list \in Seq(Parsers) /\ parser' = parser /\ outcome' = outcome
      /\ \A k \in 1..Len(list) : outcome[list[k]] = "value"
  BY KeptFinished, MergeStep DEF pool
<1>2. AllRows(log_parser_list)' = all
  BY <1>1 DEF AllRows
<1>3. ASSUME all # <<>>, NEW r \in 1..Len(all), ReadsPastEnd(all[r], first.types)
      PROVE  \E j, k \in Range(list) : Len(parser[j].content.types) # Len(parser[k].content.types)
  <2>1. 1 \in 1..Len(list) /\ list[1] \in Parsers
    BY <1>1, <1>3, SomeParser
  <2>2. PICK k \in 1..Len(list) :
           Schema(all[r]) = parser[list[k]].content.types /\ all[r] \in Rows
    BY <1>1, <1>3, RowsOfParsers
  <2>3. first.types \in Seq(DataType) /\ Len(first.types) \in Nat
    BY <2>1, ParserFacts
  <2> HIDE DEF first, all
  <2>4. Len(all[r]) < Len(first.types) /\ Len(Schema(all[r])) = Len(all[r]) /\ Len(all[r]) \in Nat
    BY <1>3, <2>2, <2>3, ShorterRow, SchemaFacts
  <2>5. Len(parser[list[k]].content.types) # Len(first.types)
    BY <2>2, <2>3, <2>4
  <2>6. list[k] \in Range(list) /\ list[1] \in Range(list)
    BY <1>1, <2>1, <2>2, LenProperties DEF Range
  <2> QED
    BY <2>5, <2>6 DEF first
<1>4. \/ mpc' = "undefined" /\ all # <<>> /\ \E r \in 1..Len(all) : ReadsPastEnd(all[r], first.types)
      \/ mpc' = "idle" /\ ~returned'
      \/ mpc' = "idle" /\ all # <<>> /\ p # Rejected /\ merged_log_parser' \in SortContent(p)
  BY MergeMakes
<1>5. parser'[log_parser_list'[1]].content = first
  BY <1>1
<1> HIDE DEF all, first
<1>6. ASSUME mpc' = "undefined"
      PROVE  \E j, k \in Range(list) : Len(parser[j].content.types) # Len(parser[k].content.types)
  BY <1>3, <1>4, <1>6
<1>7. ASSUME Answering'
      PROVE  all # <<>> /\ p # Rejected /\ merged_log_parser' \in SortContent(p)
  BY <1>4, <1>7 DEF Answering
<1> HIDE DEF list
<1> QED
  BY <1>1, <1>2, <1>5, <1>6, <1>7 DEF MergedFrom, list

LEMMA MergedFromStep ==
  ASSUME IInv, Orderly, MergedFrom, [Next]_vars
  PROVE  MergedFrom'
<1>1. CASE Merge
  BY <1>1, MergedFromMerge
<1>2. ASSUME NEW s \in Slots, TaskEnds(s)
      PROVE  MergedFrom'
  <2>1. UNCHANGED <<log_parser_list, merged_log_parser, mpc, returned>>
    BY <1>2 DEF TaskEnds, kept
  <2> DEFINE n == Len(log_parser_list)
  <2>2. /\ DOMAIN log_parser_list = 1..n /\ n \in Nat
        /\ log_parser_list \in Seq(DOMAIN file_path)
    BY LenProperties DEF IInv, TypeOK
  <2>3. ASSUME Answering \/ mpc = "undefined"
        PROVE  \A k \in 1..n : /\ parser'[log_parser_list[k]] = parser[log_parser_list[k]]
                               /\ outcome'[log_parser_list[k]] = "value"
    BY <1>2, <2>3, FinishedKept, ListFinished
  <2>4. ASSUME mpc = "undefined"
        PROVE  /\ \A k \in 1..n : outcome'[log_parser_list[k]] = "value"
               /\ \E j, k \in Range(log_parser_list) :
                     Len(parser'[j].content.types) # Len(parser'[k].content.types)
    <3>1. \A j \in Range(log_parser_list) : parser'[j] = parser[j]
      BY <2>2, <2>3, <2>4 DEF Range
    <3>2. PICK j \in Range(log_parser_list), k \in Range(log_parser_list) :
             Len(parser[j].content.types) # Len(parser[k].content.types)
      BY <2>4 DEF MergedFrom
    <3>3. parser'[j] = parser[j] /\ parser'[k] = parser[k]
      BY <3>1
    <3> QED
      BY <2>3, <2>4, <3>2, <3>3
  <2>5. ASSUME Answering
        PROVE  /\ AllRows(log_parser_list)' = AllRows(log_parser_list)
               /\ parser'[log_parser_list[1]] = parser[log_parser_list[1]]
    <3>1. [k \in 1..n |-> parser'[log_parser_list[k]].content.rows]
             = [k \in 1..n |-> parser[log_parser_list[k]].content.rows]
      BY <2>3, <2>5
    <3>2. AllRows(log_parser_list)' = AllRows(log_parser_list)
      BY <2>1, <3>1 DEF AllRows
    <3>3. log_parser_list \in Seq(Parsers)
      <4>1. DOMAIN file_path \subseteq Parsers
        BY TasksHaveFiles
      <4> QED
        BY <2>2, <4>1, SeqMonotonic
    <3>4. AllRows(log_parser_list) # <<>>
      BY <2>5 DEF MergedFrom
    <3>5. 1 \in 1..n
      BY <3>3, <3>4, SomeParser
    <3> QED
      BY <2>3, <2>5, <3>2, <3>5
  <2> HIDE DEF n
  <2>6. mpc' = "undefined" => mpc = "undefined"
    BY <2>1
  <2>7. Answering' => Answering
    BY <2>1 DEF Answering
  <2>8. Answering =>
          LET first == parser[log_parser_list[1]].content
              all   == AllRows(log_parser_list)
              p     == ParseRawContent(first.names, first.types, all)
          IN  all # <<>> /\ p # Rejected /\ merged_log_parser \in SortContent(p)
    BY DEF MergedFrom
  <2>9. Answering' => MergedFrom'
    BY <2>1, <2>5, <2>7, <2>8 DEF MergedFrom, Answering
  <2>10. mpc' = "undefined" => MergedFrom'
    BY <2>1, <2>4, <2>6 DEF MergedFrom, Answering, n
  <2> QED
    BY <2>9, <2>10 DEF MergedFrom
<1>3. CASE CallParse \/ EnqueueNext \/ EnqueueDone \/ GetFuture \/ GetDone
  <2>1. mpc' \in {"enqueue", "get", "merge"}
    BY <1>3 DEF CallParse, EnqueueNext, NewParser, EnqueueDone, GetFuture, Got, GetDone
  <2> QED
    BY <2>1 DEF MergedFrom, Answering
<1>4. CASE \/ \E s \in Slots : TaskStarts(s)
           \/ UNCHANGED vars \/ \E f \in Range(Files) : FileGrows(f)
  <2>1. UNCHANGED <<parser, outcome, log_parser_list, merged_log_parser, mpc, returned>>
    BY <1>4, Elsewhere DEF TaskStarts, Pool!Start, pool, kept
  <2> QED
    BY <2>1 DEF MergedFrom, Answering, AllRows
<1> QED
  BY <1>1, <1>2, <1>3, <1>4, StepCases
-----------------------------------------------------------------------------
(* What the merged parser answers, when the files have the same columns *)

SameColumns == \A j, k \in Range(log_parser_list) :
                  /\ parser[j].content.types = parser[k].content.types
                  /\ parser[j].content.names = parser[k].content.names

\* The merged parser holds all rows, under the names and types of each file.
LEMMA MergedIs ==
  ASSUME AnswersInv, Answering, SameColumns,
         NEW list, list = log_parser_list,
         NEW first, first = parser[list[1]].content,
         NEW m, m = merged_log_parser
  PROVE  /\ list \in Seq(Parsers) /\ Len(list) \in Nat
         /\ WellFormed(m)
         /\ m.content = Content(first.names, first.types, AllRows(list))
         /\ AllRows(list) \in Seq(Rows) /\ AllRows(list) # <<>>
         /\ \A k \in 1..Len(list) :
               /\ list[k] \in Parsers /\ WellFormed(parser[list[k]])
               /\ parser[list[k]].content.names = first.names
               /\ parser[list[k]].content.types = first.types
               /\ row_cnt(parser[list[k]].content) > 0
<1> DEFINE all == AllRows(list)
           p   == ParseRawContent(first.names, first.types, all)
<1>1. IInv /\ Orderly /\ MergedFrom
  BY DEF AnswersInv
<1>2. list \in Seq(Parsers)
  <2>1. DOMAIN file_path \subseteq Parsers /\ list \in Seq(DOMAIN file_path)
    BY <1>1, TasksHaveFiles DEF IInv, TypeOK
  <2> QED
    BY <2>1, SeqMonotonic
<1>3. all # <<>> /\ p # Rejected /\ m \in SortContent(p)
  BY <1>1 DEF MergedFrom
<1>4. 1 \in 1..Len(list) /\ list[1] \in Parsers
  BY <1>1, <1>2, <1>3, SomeParser
<1>5. /\ all \in Seq(Rows) /\ Len(list) \in Nat /\ DOMAIN list = 1..Len(list)
      /\ \A k \in 1..Len(list) : list[k] \in Parsers
  BY <1>1, <1>2, Together, SeqFacts
<1>6. /\ first.names \in Seq(STRING) /\ first.types \in Seq(DataType)
      /\ Len(first.types) = Len(first.names)
  BY <1>1, <1>4, ParserFacts
<1>7. \A k \in 1..Len(list) : /\ parser[list[k]].content.names = first.names
                              /\ parser[list[k]].content.types = first.types
  <2>1. \A k \in 1..Len(list) : list[k] \in Range(list)
    BY <1>5 DEF Range
  <2> QED
    BY <1>4, <2>1 DEF SameColumns
<1>8. \A k \in 1..Len(list) : row_cnt(parser[list[k]].content) > 0
  <2>1. mpc = "idle" /\ ~Collecting
    BY DEF Answering, Collecting
  <2>2. Kept(Earlier) /\ Earlier = Len(log_parser_list)
    BY <1>1, <2>1, Typed DEF IInv, EarlierKept, Earlier
  <2> QED
    BY <2>2 DEF Kept, Parsed
<1>9. \A r \in 1..Len(all) : Schema(all[r]) = first.types
  BY <1>1, <1>2, <1>7, RowsOfParsers
<1> HIDE DEF all
<1>10. IsInjective(first.names)
  BY <1>3 DEF ParseRawContent, Fitting
<1>11. p = Content(first.names, first.types, all)
  BY <1>5, <1>6, <1>9, <1>10, AllPass
<1>12. Rectangular(p)
  BY <1>5, <1>6, MergedRows
<1> HIDE DEF p
<1>13. WellFormed(m) /\ m.content = p
  BY <1>3, <1>12, SortedRows
<1>14. \A k \in 1..Len(list) : WellFormed(parser[list[k]])
  BY <1>1, <1>5 DEF Orderly
<1> QED
  BY <1>2, <1>3, <1>5, <1>7, <1>8, <1>11, <1>13, <1>14 DEF all

\* Parsers with the same names have the same columns, at the same places.
LEMMA SamePlace ==
  ASSUME NEW s, NEW t, s.content.names = t.content.names, NEW col
  PROVE  Columns(s) = Columns(t) /\ ColIdx(s, col) = ColIdx(t, col)
BY DEF Columns, ColIdx

\* The maximum is one of the values of the column, and no less than any.
LEMMA MaximumIs ==
  ASSUME NEW s, WellFormed(s), NEW col \in Columns(s), Regular(s, col),
         row_cnt(s.content) > 0, NEW i, i = ColIdx(s, col),
         NEW R, R = s.content.rows
  PROVE  /\ \E k \in 1..Len(R) : Calculate(s, col, "max").v = R[k][i].v
         /\ \A k \in 1..Len(R) : R[k][i].v <= Calculate(s, col, "max").v
         /\ \A k \in 1..Len(R) : R[k][i] \in Values
<1> DEFINE n == row_cnt(s.content)
           min == Calculate(s, col, "min")
           max == Calculate(s, col, "max")
           vs == ValuesOf(s, col)
<1>1. /\ n \in Nat /\ s.order[i] \in [1..n -> 1..n] /\ n = Len(R)
      /\ vs = [k \in 1..n |-> R[k][i].v] /\ Len(vs) = n
      /\ \A k \in 1..n : R[k][i] \in Values
  <2>1. n = Len(R)
    BY DEF row_cnt
  <2> HIDE DEF n
  <2>2. n = row_cnt(s.content)
    BY DEF n
  <2>3. /\ n \in Nat /\ s.order[i] \in [1..n -> 1..n] /\ Len(vs) = n
        /\ \A k \in 1..n : s.content.rows[k][i] \in Values
    BY <2>2, ColumnFacts
  <2>4. vs = [k \in 1..n |-> s.content.rows[k][i].v]
    BY <2>2, ColumnFacts
  <2> QED
    BY <2>1, <2>3, <2>4
<1>2. max = R[s.order[i][n]][i] /\ min = R[s.order[i][1]][i]
  BY Calculated
<1>3. n \in 1..n /\ s.order[i][n] \in 1..n /\ s.order[i][1] \in 1..n
  BY <1>1
<1>4. \A k \in 1..Len(vs) : vs[k] \in min.v .. max.v
  BY DescribesColumn DEF Describes
<1> HIDE DEF min, max, n, vs
<1>5. min.v \in Int /\ max.v \in Int
  BY <1>1, <1>2, <1>3 DEF Values
<1>6. \A k \in 1..n : R[k][i].v \in Int /\ R[k][i].v = vs[k]
  BY <1>1 DEF Values
<1>7. ASSUME NEW k \in 1..n PROVE R[k][i].v <= max.v
  <2>1. vs[k] \in min.v .. max.v /\ R[k][i].v = vs[k]
    <3>1. n = Len(vs)
      BY <1>1
    <3> QED
      BY <1>4, <1>6, <3>1
  <2> QED
    BY <1>5, <2>1
<1> QED
  BY <1>1, <1>2, <1>3, <1>7 DEF max

\* The merged parser counts the rows of all files.
LEMMA CountOfAll ==
  ASSUME AnswersInv, Answering, SameColumns
  PROVE  row_cnt(merged_log_parser.content) =
            SumOf([k \in 1..Len(log_parser_list) |->
                      row_cnt(parser[log_parser_list[k]].content)])
<1> DEFINE list  == log_parser_list
           first == parser[list[1]].content
           ss    == [k \in 1..Len(list) |-> parser[list[k]].content.rows]
<1>1. /\ list \in Seq(Parsers)
      /\ merged_log_parser.content = Content(first.names, first.types, AllRows(list))
  BY MergedIs
<1>2. row_cnt(merged_log_parser.content) = Len(AllRows(list))
  BY <1>1 DEF row_cnt, Content
<1>3. /\ ss \in Seq(Seq(Rows)) /\ Len(ss) = Len(list) /\ AllRows(list) = FlattenSeq(ss)
  BY <1>1, Together DEF AnswersInv
<1> HIDE DEF ss
<1>4. Len(FlattenSeq(ss)) = SumOf([k \in 1..Len(ss) |-> Len(ss[k])])
  BY <1>3, FlatLength
<1>5. [k \in 1..Len(ss) |-> Len(ss[k])]
         = [k \in 1..Len(list) |-> row_cnt(parser[list[k]].content)]
  BY <1>3 DEF ss, row_cnt
<1> QED
  BY <1>2, <1>3, <1>4, <1>5

\* The maximum of all files is that of one of them and no less than any.
LEMMA MaximumOfAll ==
  ASSUME AnswersInv, Answering, SameColumns,
         NEW m, m = merged_log_parser, NEW col \in Columns(m), Regular(m, col),
         NEW singles, singles = {parser[j] : j \in Range(log_parser_list)}
  PROVE  /\ \E s \in singles : Calculate(m, col, "max").v = Calculate(s, col, "max").v
         /\ \A s \in singles : Calculate(m, col, "max").v >= Calculate(s, col, "max").v
<1> DEFINE list  == log_parser_list
           first == parser[list[1]].content
           all   == AllRows(list)
           i     == ColIdx(m, col)
           One(k) == parser[list[k]]
           rows(k) == One(k).content.rows
           max   == Calculate(m, col, "max").v
           maxOf(k) == Calculate(One(k), col, "max").v
<1>1. /\ list \in Seq(Parsers) /\ Len(list) \in Nat /\ WellFormed(m)
      /\ m.content = Content(first.names, first.types, all)
      /\ all \in Seq(Rows) /\ all # <<>>
      /\ \A k \in 1..Len(list) : /\ list[k] \in Parsers /\ WellFormed(One(k))
                                 /\ One(k).content.names = first.names
                                 /\ row_cnt(One(k).content) > 0
  BY MergedIs
<1>2. m.content.names = first.names /\ m.content.rows = all /\ row_cnt(m.content) = Len(all)
  BY <1>1 DEF Content, row_cnt
<1>3. Len(all) > 0 /\ Len(all) \in Nat
  BY <1>1, LenProperties, EmptySeq
<1>4. \A r \in 1..Len(all) : all[r][i].type # "BadFloat"
  BY <1>2 DEF Regular
<1>5. /\ \E r \in 1..Len(all) : max = all[r][i].v
      /\ \A r \in 1..Len(all) : all[r][i].v <= max
      /\ \A r \in 1..Len(all) : all[r][i] \in Values
  BY <1>1, <1>2, <1>3, MaximumIs
<1>6. /\ \A r \in 1..Len(all) : \E k \in 1..Len(list) : \E p \in 1..Len(rows(k)) :
            all[r] = rows(k)[p]
      /\ \A k \in 1..Len(list) : \A p \in 1..Len(rows(k)) :
            \E r \in 1..Len(all) : all[r] = rows(k)[p]
  <2>1. Orderly
    BY DEF AnswersInv
  <2>2. \A r \in 1..Len(all) : \E k \in 1..Len(list) : \E p \in 1..Len(rows(k)) :
           all[r] = rows(k)[p]
    BY <1>1, <2>1, RowsOfParsers
  <2> QED
    BY <1>1, <2>1, <2>2, NoRowLost
<1>7. ASSUME NEW k \in 1..Len(list)
      PROVE  /\ \E p \in 1..Len(rows(k)) : maxOf(k) = rows(k)[p][i].v
             /\ \A p \in 1..Len(rows(k)) : rows(k)[p][i].v <= maxOf(k)
  <2>1. col \in Columns(One(k)) /\ i = ColIdx(One(k), col)
    <3>1. One(k).content.names = m.content.names
      BY <1>1, <1>2
    <3> HIDE DEF One
    <3> QED
      BY <3>1, SamePlace
  <2> HIDE DEF i
  <2>2. Regular(One(k), col)
    <3>1. ASSUME NEW p \in 1..Len(rows(k)) PROVE rows(k)[p][i].type # "BadFloat"
      <4>1. PICK r \in 1..Len(all) : all[r] = rows(k)[p]
        BY <1>6
      <4> HIDE DEF rows, all
      <4> QED
        BY <1>4, <4>1
    <3> QED
      BY <2>1, <3>1 DEF Regular, row_cnt
  <2>3. WellFormed(One(k)) /\ row_cnt(One(k).content) > 0
    BY <1>1
  <2> HIDE DEF One
  <2> QED
    BY <2>1, <2>2, <2>3, MaximumIs
<1>8. \A k \in 1..Len(list) : One(k) \in singles
  <2>1. \A k \in 1..Len(list) : list[k] \in Range(list)
    BY <1>1, SeqFacts DEF Range
  <2> QED
    BY <2>1
<1>9. \A s \in singles : \E k \in 1..Len(list) : s = One(k)
  <2>1. DOMAIN list = 1..Len(list)
    BY <1>1, SeqFacts
  <2> QED
    BY <2>1 DEF Range
<1> HIDE DEF i, all, rows, max, maxOf
<1>10. ASSUME NEW k \in 1..Len(list) PROVE maxOf(k) <= max /\ maxOf(k) \in Int
  <2>1. PICK p \in 1..Len(rows(k)) : maxOf(k) = rows(k)[p][i].v
    BY <1>7
  <2>2. PICK r \in 1..Len(all) : all[r] = rows(k)[p]
    BY <1>6
  <2> QED
    BY <1>5, <2>1, <2>2 DEF Values
<1>11. PICK k \in 1..Len(list) : max <= maxOf(k) /\ max \in Int
  <2>1. PICK r \in 1..Len(all) : max = all[r][i].v
    BY <1>5
  <2>2. PICK k \in 1..Len(list) : \E p \in 1..Len(rows(k)) : all[r] = rows(k)[p]
    BY <1>6
  <2>3. max <= maxOf(k)
    BY <1>7, <2>1, <2>2
  <2>4. max \in Int
    BY <1>5, <2>1 DEF Values
  <2> QED
    BY <2>3, <2>4
<1>12. max = maxOf(k)
  BY <1>10, <1>11
<1>13. \A x \in 1..Len(list) : max >= maxOf(x)
  BY <1>10, <1>11
<1> HIDE DEF list, One
<1>14. /\ \E s \in singles : max = Calculate(s, col, "max").v
       /\ \A s \in singles : max >= Calculate(s, col, "max").v
  BY <1>8, <1>9, <1>12, <1>13 DEF maxOf
<1> QED
  BY <1>14 DEF max

\* The sum over all files is that of the sums of the files, in 32 bits.
LEMMA SumOverAll ==
  ASSUME AnswersInv, Answering, SameColumns,
         NEW m, m = merged_log_parser, NEW col \in Columns(m), Calculates(m, col, "sum")
  PROVE  Calculate(m, col, "sum") =
            ToInt(SumOf([k \in 1..Len(log_parser_list) |->
                            Calculate(parser[log_parser_list[k]], col, "sum")]))
<1> DEFINE list  == log_parser_list
           first == parser[list[1]].content
           all   == AllRows(list)
           i     == ColIdx(m, col)
           One(k) == parser[list[k]]
           n     == Len(list)
           ss    == [k \in 1..n |-> One(k).content.rows]
           ns    == [k \in 1..n |-> SumOf(Column(ss[k], i))]
<1>1. /\ list \in Seq(Parsers) /\ n \in Nat /\ WellFormed(m)
      /\ m.content = Content(first.names, first.types, all)
      /\ \A k \in 1..n : /\ list[k] \in Parsers /\ WellFormed(One(k))
                         /\ One(k).content.names = first.names
                         /\ One(k).content.types = first.types
  BY MergedIs
<1>2. /\ m.content.names = first.names /\ m.content.rows = all
      /\ m.content.types = first.types
  BY <1>1 DEF Content
<1>3. /\ ss \in Seq(Seq(Rows)) /\ Len(ss) = n /\ all = FlattenSeq(ss)
      /\ \A k \in 1..n : ss[k] = One(k).content.rows
  BY <1>1, Together DEF AnswersInv
<1>4. ASSUME NEW k \in 1..n PROVE col \in Columns(One(k)) /\ ColIdx(One(k), col) = i
  <2>1. One(k).content.names = m.content.names
    BY <1>1, <1>2
  <2> HIDE DEF One
  <2> QED
    BY <2>1, SamePlace
<1>5. first.types[i] = "Int"
  <2>1. m.content.types[i] = "Int"
    BY <1>1, Calculated
  <2> QED
    BY <1>2, <2>1
<1> HIDE DEF i, all, ss, n
<1>6. \A k \in 1..n : \A p \in 1..Len(ss[k]) : ss[k][p][i] \in Values
  <2> SUFFICES ASSUME NEW k \in 1..n
               PROVE  \A p \in 1..Len(ss[k]) : ss[k][p][i] \in Values
    OBVIOUS
  <2>1. \A p \in 1..row_cnt(One(k).content) : One(k).content.rows[p][i] \in Values
    BY <1>1, <1>4, ColumnFacts
  <2> QED
    BY <1>3, <2>1 DEF row_cnt
<1>7. /\ SumOf(Column(all, i)) = SumOf(ns)
      /\ \A k \in 1..n : Column(ss[k], i) \in Seq(Int)
  BY <1>3, <1>6, SumOfParts
<1>8. \A k \in 1..n : /\ Accumulate(Column(ss[k], i)) = ToInt(SumOf(Column(ss[k], i)))
                      /\ SumOf(Column(ss[k], i)) \in Int
  BY <1>7, Accumulated
<1>9. ns \in [1..n -> Int] /\ \A k \in 1..n : ns[k] = SumOf(Column(ss[k], i))
  BY <1>8
<1>10. ns \in Seq(Int) /\ Len(ns) = n
  BY <1>1, <1>9, LenProperties
<1> HIDE DEF ns
<1>11. ASSUME NEW k \in 1..n PROVE Calculate(One(k), col, "sum") = ToInt(ns[k])
  <2>1. /\ WellFormed(One(k)) /\ col \in Columns(One(k)) /\ ColIdx(One(k), col) = i
        /\ One(k).content.types[i] = "Int" /\ One(k).content.rows = ss[k]
    BY <1>1, <1>3, <1>4, <1>5
  <2> HIDE DEF One
  <2>2. Calculate(One(k), col, "sum") = Accumulate(ValuesOf(One(k), col))
    BY <2>1, Calculated
  <2>3. ValuesOf(One(k), col) = Column(ss[k], i)
    BY <2>1 DEF ValuesOf
  <2> QED
    BY <1>8, <1>9, <2>2, <2>3
<1>12. [k \in 1..n |-> Calculate(One(k), col, "sum")] = [k \in 1..n |-> ToInt(ns[k])]
  BY <1>11
<1>13. Calculate(m, col, "sum") = ToInt(SumOf(ns))
  <2>1. Calculate(m, col, "sum") = Accumulate(ValuesOf(m, col))
    <3>1. m.content.types[ColIdx(m, col)] = "Int"
      BY <1>2, <1>5 DEF i
    <3> QED
      BY <1>1, <3>1, Calculated
  <2>4. ValuesOf(m, col) \in Seq(Int)
    BY <1>1, ColumnFacts
  <2>2. ValuesOf(m, col) = Column(all, i)
    BY <1>2 DEF ValuesOf, i
  <2>3. Accumulate(ValuesOf(m, col)) = ToInt(SumOf(ValuesOf(m, col)))
    BY <2>4, Accumulated
  <2> QED
    BY <1>7, <2>1, <2>2, <2>3
<1>14. ToInt(SumOf([k \in 1..n |-> ToInt(ns[k])])) = ToInt(SumOf(ns))
  BY <1>10, SumOfInts
<1>15. Calculate(m, col, "sum") = ToInt(SumOf([k \in 1..n |-> Calculate(One(k), col, "sum")]))
  BY <1>12, <1>13, <1>14
<1> QED
  BY <1>15 DEF n
-----------------------------------------------------------------------------
(* The theorems *)

LEMMA IInvStep == IInv /\ [Next]_vars => IInv'
BY TypeOKStep, PathsOnceStep, EarlierKeptStep, InOwnPlacesStep, RunOnceStep, RoomStep DEF IInv

\* log_parser_list, the futures, their results and the paths stay in step in
\* every reachable state, whatever the order in which the tasks run.
THEOREM MgrInvariant == Spec => []IInv
BY InitIInv, IInvStep, PTL DEF Spec

\* What Parse keeps are parsers that found rows, next to the paths they read,
\* also when it is called again while the parsers of the last call are kept.
THEOREM KeepsParsersWithPaths == Spec => []ParsersMatchPaths
<1>1. IInv => ParsersMatchPaths
  <2> SUFFICES ASSUME IInv PROVE ParsersMatchPaths
    OBVIOUS
  <2>1. TypeOK
    BY DEF IInv
  <2>2. ASSUME mpc = "idle", parses > 0
        PROVE  /\ Len(log_parser_list) = Len(log_file_path_list)
               /\ Kept(Len(log_parser_list))
    <3>1. ~Collecting /\ parses # 0
      BY <2>2, Typed DEF Collecting
    <3> QED
      BY <2>2, <3>1, Typed DEF IInv, EarlierKept, Earlier
  <2> QED
    BY <2>1, <2>2 DEF ParsersMatchPaths, Kept
<1> QED
  BY MgrInvariant, <1>1, PTL

LEMMA InitAnswers == Init => AnswersInv
<1> SUFFICES ASSUME Init PROVE AnswersInv
  OBVIOUS
<1>1. Orderly
  BY NoneFits DEF Init, Orderly, Pool!Init
<1>2. MergedFrom
  BY DEF Init, MergedFrom, Answering
<1> QED
  BY <1>1, <1>2, InitIInv DEF AnswersInv

\* In every reachable state whoever is asked has an order for each column, and
\* the merged parser is made of the rows of the parsers that are kept.
THEOREM AnswersInvariant == Spec => []AnswersInv
<1>1. AnswersInv /\ [Next]_vars => AnswersInv'
  BY IInvStep, OrderlyStep, MergedFromStep DEF AnswersInv
<1> QED
  BY InitAnswers, <1>1, PTL DEF Spec

\* The parsers a caller can ask are well formed.
LEMMA AskedFit ==
  ASSUME AnswersInv, NEW s \in Asked
  PROVE  WellFormed(s)
BY DEF AnswersInv, Orderly, Asked, Range

\* Calculate answers with the metrics of the column, whoever is asked.
THEOREM CalculatesMetrics == Spec => []MetricsDescribeColumn
<1>1. AnswersInv => MetricsDescribeColumn
  BY AskedFit, DescribesColumn DEF MetricsDescribeColumn
<1> QED
  BY AnswersInvariant, <1>1, PTL

\* Sort returns the extreme rows, each once and in order, whoever is asked.
THEOREM SortsRows == Spec => []SortReturnsExtremes
<1>1. AnswersInv => SortReturnsExtremes
  <2> SUFFICES ASSUME AnswersInv, NEW s \in Asked, NEW col \in Columns(s),
                      NEW limit \in -1..(row_cnt(s.content) + 1), NEW is_asc \in BOOLEAN
               PROVE  ReturnsExtremes(s, col, limit, is_asc)
    BY DEF SortReturnsExtremes
  <2>1. limit \in Int
    OBVIOUS
  <2> QED
    BY <2>1, AskedFit, ReturnsRows
<1> QED
  BY AnswersInvariant, <1>1, PTL

\* The answers for all files follow from those for the single files.
THEOREM MergesFaithfully == Spec => []MergedAgreesWithFiles
<1>1. AnswersInv => MergedAgreesWithFiles
  <2> SUFFICES ASSUME AnswersInv PROVE MergedAgreesWithFiles
    OBVIOUS
  <2>1. mpc = "undefined" => \E j, k \in Range(log_parser_list) :
           Len(parser[j].content.types) # Len(parser[k].content.types)
    BY DEF AnswersInv, MergedFrom
  <2>2. ASSUME Answering, SameColumns
        PROVE  LET m == merged_log_parser
                   singles == {parser[j] : j \in Range(log_parser_list)}
               IN  \A col \in Columns(m) :
                      /\ Regular(m, col) =>
                            /\ \E s \in singles : Calculate(m, col, "max").v = Calculate(s, col, "max").v
                            /\ \A s \in singles : Calculate(m, col, "max").v >= Calculate(s, col, "max").v
                      /\ Calculates(m, col, "sum") =>
                            Calculate(m, col, "sum") =
                               ToInt(SumOf([k \in 1..Len(log_parser_list) |->
                                               Calculate(parser[log_parser_list[k]], col, "sum")]))
    BY <2>2, MaximumOfAll, SumOverAll
  <2> QED
    BY <2>1, <2>2, CountOfAll DEF MergedAgreesWithFiles, SameColumns
<1> QED
  BY AnswersInvariant, <1>1, PTL
=============================================================================
