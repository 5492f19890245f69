--------------------------- MODULE LogParserMgr ---------------------------
(***************************************************************************)
(* log_parser::LogParserMgr: Parse hands one parser per file to the thread *)
(* pool, collects the futures in the order of the files, keeps what could  *)
(* be parsed and merges it.  The pool is the abstract TaskExecutor, which  *)
(* ThreadPool implements.  Other programs write to the files meanwhile,    *)
(* and Parse may be called again.                                          *)
(***************************************************************************)
EXTENDS LogParser

CONSTANTS Files,       \* log_file_path_list_ of the constructor
          Contents,    \* bound: what a file may hold at first
          NewLines,    \* bound: lines that are appended to a file
          MaxParses,   \* bound: calls of Parse
          MaxWrites,   \* bound: lines appended
          Slots        \* the threads of parse_threadpool_

ASSUME MgrAssumption == /\ Files \in Seq(Range(Files)) /\ IsInjective(Files)
                        /\ Contents \subseteq Tables /\ NewLines \subseteq Rows
                        /\ IsFiniteSet(Slots) /\ Slots # {}
                        /\ MaxParses \in Nat /\ MaxWrites \in Nat

NoParser == 0
\* One parser, and one task, for each file in each call of Parse.
Parsers == 1..(MaxParses * Len(Files))

VARIABLES disk,               \* the content of each file
          writes,
          log_file_path_list,
          log_parser_list,    \* the parsers in the order of the files
          file_path,          \* of each parser made so far
          parser,             \* what each has parsed
          futures,            \* parse_future_list
          parse_res_list,
          merged_log_parser,
          log_name2log_parser,
          mpc,                \* "idle", "enqueue", "get", "merge", "undefined"
          parses, returned,   \* calls of Parse and what the last one returned
          pending, running, outcome, phase    \* the pool

pool  == <<pending, running, outcome, phase>>
world == <<disk, writes>>
local == <<futures, parse_res_list>>
kept  == <<log_file_path_list, log_parser_list, merged_log_parser, log_name2log_parser>>
vars  == <<world, kept, file_path, parser, local, mpc, parses, returned, pool>>

Pool == INSTANCE TaskExecutor WITH Tasks <- Parsers, NoTask <- NoParser

None == [content |-> Rejected, order |-> <<>>]
Parsed(j) == row_cnt(parser[j].content) > 0

TypeOK == /\ disk \in [Range(Files) -> Tables] /\ writes \in 0..MaxWrites
          /\ log_file_path_list \in Seq(Range(Files))
          /\ log_parser_list \in Seq(DOMAIN file_path)
          /\ file_path \in Seq(Range(Files)) /\ Len(file_path) <= MaxParses * Len(Files)
          /\ DOMAIN parser = Parsers
          /\ futures \in Seq(Parsers) /\ parse_res_list \in Seq(BOOLEAN)
          /\ mpc # "idle" => Len(parse_res_list) <= Len(futures)
          /\ mpc \in {"enqueue", "get", "merge"} => Len(futures) <= Len(log_file_path_list)
          /\ DOMAIN log_name2log_parser \subseteq Range(Files)
          /\ mpc \in {"idle", "enqueue", "get", "merge", "undefined"}
          /\ parses \in 0..MaxParses /\ returned \in BOOLEAN
          /\ pending \in Seq(Parsers)
          /\ running \in [Slots -> Parsers \cup {NoParser}]
          /\ outcome \in [Parsers -> Pool!Outcomes]

Init == /\ disk \in [Range(Files) -> Contents] /\ writes = 0
        /\ log_file_path_list = Files /\ log_parser_list = <<>>
        /\ file_path = <<>> /\ parser = [j \in Parsers |-> None]
        /\ futures = <<>> /\ parse_res_list = <<>>
        /\ merged_log_parser = None /\ log_name2log_parser = <<>>
        /\ mpc = "idle" /\ parses = 0 /\ returned = FALSE
        /\ Pool!Init
-----------------------------------------------------------------------------
(* Parse, in the calling thread *)

CallParse ==
    /\ mpc = "idle" /\ parses < MaxParses
    /\ parses' = parses + 1
    /\ futures' = <<>> /\ parse_res_list' = <<>>
    /\ mpc' = "enqueue"
    /\ UNCHANGED <<world, kept, file_path, parser, returned, pool>>

\* log_parser_list_ still holds the parsers of an earlier call.
NewParser(submit) ==
    /\ mpc = "enqueue" /\ Len(futures) < Len(log_file_path_list)
    /\ LET j == Len(file_path) + 1
       IN  /\ file_path' = Append(file_path, log_file_path_list[Len(futures) + 1])
           /\ log_parser_list' = Append(log_parser_list, j)
           /\ futures' = Append(futures, j)
    /\ submit
    /\ UNCHANGED <<world, log_file_path_list, merged_log_parser, log_name2log_parser, parser,
                   parse_res_list, mpc, parses, returned>>

EnqueueNextDeferred == NewParser(UNCHANGED pool)

EnqueueNext == NewParser(Pool!Accept(Len(file_path) + 1))

EnqueueDone == /\ mpc = "enqueue" /\ Len(futures) = Len(log_file_path_list)
               /\ mpc' = "get"
               /\ UNCHANGED <<world, kept, file_path, parser, local, parses, returned, pool>>

Got(j, next) == /\ mpc = "get"
                /\ outcome[j] = "value"
                /\ parse_res_list' = Append(parse_res_list, Parsed(j))
                /\ mpc' = next
                /\ UNCHANGED <<world, kept, file_path, parser, futures, parses, returned, pool>>

Waiting == mpc = "get" /\ Len(parse_res_list) < Len(futures)

\* The first future that is ready, instead of the next.
GetAnyFuture == /\ Waiting
                /\ \E j \in Range(futures) : Got(j, "get")

\* future.get() blocks until the task has run.
GetFuture == /\ Waiting
             /\ Got(futures[Len(parse_res_list) + 1], "get")

GetDone == /\ mpc = "get" /\ Len(parse_res_list) = Len(futures)
           /\ mpc' = "merge"
           /\ UNCHANGED <<world, kept, file_path, parser, local, parses, returned, pool>>

Returns(res) == mpc' = "idle" /\ returned' = res

\* log_file_path_list_ and log_parser_list_ become what is kept of them.
Keep(paths, list) ==
    /\ log_file_path_list' = paths
    /\ log_parser_list' = list
    /\ log_name2log_parser' =
          [f \in Range(paths) \cup DOMAIN log_name2log_parser |->
              IF f \in Range(paths) THEN list[CHOOSE k \in 1..Len(list) : paths[k] = f]
              ELSE log_name2log_parser[f]]

\* The rows of the parsers of a list, one after the other.
AllRows(list) == FlattenSeq([k \in 1..Len(list) |-> parser[list[k]].content.rows])

\* What a merged parser is whose Parse fails: it stays, and knows its columns, but
\* has neither rows nor metrics.
Unparsed(p) == [content |-> Content(p.names, p.types, <<>>),
                order   |-> [i \in 1..Len(p.types) |-> <<>>]]

\* The merged parser gets the names and the types of the first one and all rows.
ParseMerged(first, all) ==
    LET merged  == ParseRawContent(first.names, first.types, all)
        pastEnd == /\ IsInjective(first.names)
                   /\ \E r \in 1..Len(all) : ReadsPastEnd(all[r], first.types)
    IN  \/ /\ all = <<>>
           /\ Returns(FALSE) /\ UNCHANGED merged_log_parser
        \/ /\ all # <<>> /\ pastEnd
           /\ mpc' = "undefined" /\ UNCHANGED <<returned, merged_log_parser>>
        \/ /\ all # <<>> /\ ~pastEnd /\ merged = Rejected
           /\ Returns(FALSE) /\ merged_log_parser' = Unparsed(first)
        \/ /\ all # <<>> /\ ~pastEnd /\ merged # Rejected
           /\ Returns(TRUE) /\ merged_log_parser' \in SortContent(merged)

\* The rest of Parse: from the loop over the results.  Kept are the paths and
\* the parsers whose results are true.
Merge ==
    /\ mpc = "merge"
    /\ LET ok == {i \in 1..Len(log_file_path_list) : parse_res_list[i]}
       IN  \E paths \in {Those(log_file_path_list, ok)}, list \in {Those(log_parser_list, ok)} :
              /\ Keep(paths, list)
              /\ \E all \in {AllRows(list)} :
                    ParseMerged(parser[list[1]].content, all)
    /\ UNCHANGED <<world, file_path, parser, local, parses, pool>>
-----------------------------------------------------------------------------
(* The pool and the other programs *)

TaskStarts(s) == /\ Pool!Start(s)
                 /\ UNCHANGED <<world, kept, file_path, parser, local, mpc, parses, returned>>

\* The task parses its file; no rows is a failure.
TaskEnds(s) ==
    /\ Pool!Finish(s) /\ outcome'[running[s]] = "value"
    /\ LET j == running[s]
       IN  \E p \in {ParseRawContentFromFile(disk[file_path[j]])} :
           \E sorted \in (IF p = Rejected THEN {None} ELSE SortContent(p)) :
              parser' = [parser EXCEPT ![j] = sorted]
    /\ UNCHANGED <<world, kept, file_path, local, mpc, parses, returned>>

FileGrows(f) == /\ writes < MaxWrites
                /\ writes' = writes + 1
                /\ \E line \in NewLines : disk' = [disk EXCEPT ![f].lines = Append(@, line)]
                /\ UNCHANGED <<kept, file_path, parser, local, mpc, parses, returned, pool>>

Collect == EnqueueNext \/ EnqueueDone \/ GetFuture \/ GetDone

Next == \/ CallParse \/ Collect \/ Merge
        \/ \E s \in Slots : TaskStarts(s) \/ TaskEnds(s)
        \/ \E f \in Range(Files) : FileGrows(f)

Spec == Init /\ [][Next]_vars

\* The calling thread goes on while it can; the fairness of the pool is that of
\* TaskExecutor!Spec.
FairSpec == /\ Spec
            /\ WF_vars(Collect)
            /\ WF_vars(\E s \in Slots : TaskStarts(s))
            /\ \A s \in Slots : WF_vars(TaskEnds(s))
-----------------------------------------------------------------------------
(* Properties *)

Answering == mpc = "idle" /\ returned
\* The parsers a caller can ask: the merged one and those of single files.
Asked == {merged_log_parser} \cup {parser[j] : j \in Range(log_name2log_parser)}

\* Calculate: whoever is asked answers with the extremes, the median and the sum
\* of the column, after a Parse that failed too, unless the parser has no rows:
\* it then has no metrics.  The sum is that of Int columns, and only if it fits;
\* mean is not checked.
MetricsDescribeColumn ==
    mpc = "idle" => \A s \in Asked : row_cnt(s.content) > 0 =>
        \A col \in Columns(s) : Regular(s, col) => Describes(s, col)

\* "sorted in ascending and descending order" (README.md): whoever is asked
\* returns the extreme rows of the column, for any limit, after a Parse that failed too.
SortReturnsExtremes ==
    mpc = "idle" => \A s \in Asked : \A col \in Columns(s) :
        \A limit \in -1..(row_cnt(s.content) + 1), is_asc \in BOOLEAN :
           ReturnsExtremes(s, col, limit, is_asc)

\* The futures are matched with their own files: what Parse keeps are parsers
\* that found rows, next to the paths they read, and they answer for them.
ParsersMatchPaths ==
    /\ TypeOK
    /\ mpc = "idle" /\ parses > 0 =>
          /\ Len(log_parser_list) = Len(log_file_path_list)
          /\ \A k \in 1..Len(log_parser_list) :
                /\ Parsed(log_parser_list[k])
                /\ file_path[log_parser_list[k]] = log_file_path_list[k]
                /\ log_name2log_parser[log_file_path_list[k]] = log_parser_list[k]

\* What the parsers at the places 1..n of log_parser_list are after a merge.
Kept(n) == \A k \in 1..n : LET j == log_parser_list[k]
                               f == log_file_path_list[k]
                           IN  /\ Parsed(j) /\ outcome[j] = "value"
                               /\ file_path[j] = f
                               /\ f \in DOMAIN log_name2log_parser
                               /\ log_name2log_parser[f] = j

\* While Parse runs, log_parser_list holds the parsers of the last call, or
\* none, and then those of this call, as the futures do.
Collecting == mpc \in {"enqueue", "get", "merge"}
Earlier    == Len(log_parser_list) - (IF Collecting THEN Len(futures) ELSE 0)

EarlierKept == mpc # "undefined" =>
    /\ Collecting => parses > 0
    /\ Earlier = IF parses = 0 \/ (Collecting /\ parses = 1) THEN 0 ELSE Len(log_file_path_list)
    /\ Kept(Earlier)

\* Each future is that of the file at its place, and of the parser at its place
\* behind the earlier ones; what get() returned of it still holds.
InOwnPlaces == Collecting =>
    /\ mpc # "enqueue" => Len(futures) = Len(log_file_path_list)
    /\ mpc = "merge" => Len(parse_res_list) = Len(futures)
    /\ \A i \in 1..Len(futures) :
          /\ futures[i] \in DOMAIN file_path
          /\ file_path[futures[i]] = log_file_path_list[i]
          /\ log_parser_list[Earlier + i] = futures[i]
    /\ \A i \in 1..Len(parse_res_list) :
          parse_res_list[i] => Parsed(futures[i]) /\ outcome[futures[i]] = "value"

\* A task is queued or runs once, and only until its future is resolved.
RunOnce ==
    /\ \A i \in 1..Len(pending) : outcome[pending[i]] = "pending"
    /\ \A i, k \in 1..Len(pending) : pending[i] = pending[k] => i = k
    /\ \A s \in Slots : running[s] # NoParser =>
          /\ outcome[running[s]] = "pending" /\ running[s] \notin Range(pending)
          /\ \A t \in Slots : running[t] = running[s] => t = s

\* There is a parser and a task for every file in every call.
Room == LET toMake == IF Collecting THEN Len(log_file_path_list) - Len(futures) ELSE 0
        IN  /\ Len(file_path) + toMake <= parses * Len(Files)
            /\ Len(log_file_path_list) <= Len(Files)

\* The inductive invariant: what keeps the lists in step although Parse is
\* called again while log_parser_list still holds the parsers of the last call.
IInv == /\ TypeOK
        /\ IsInjective(log_file_path_list)
        /\ EarlierKept
        /\ InOwnPlaces
        /\ RunOnce
        /\ Room

\* Whoever may be asked has an order of its rows for every column, and its rows
\* have values for all columns; a task has a file.
Orderly ==
    /\ \A j \in Parsers : /\ WellFormed(parser[j]) /\ Uniform(parser[j].content)
                          /\ outcome[j] # "none" => j <= Len(file_path)
    /\ WellFormed(merged_log_parser)
    /\ \A f \in DOMAIN log_name2log_parser : log_name2log_parser[f] \in Parsers

\* The merged parser is what the constructor makes of the rows of all files that
\* were kept, although one file may be read again in a later call of Parse.
MergedFrom ==
    /\ mpc = "undefined" =>
          /\ \A k \in 1..Len(log_parser_list) : outcome[log_parser_list[k]] = "value"
          /\ \E j, k \in Range(log_parser_list) :
                Len(parser[j].content.types) # Len(parser[k].content.types)
    /\ Answering =>
          LET first == parser[log_parser_list[1]].content
              all   == AllRows(log_parser_list)
              p     == ParseRawContent(first.names, first.types, all)
          IN  all # <<>> /\ p # Rejected /\ merged_log_parser \in SortContent(p)

\* The inductive invariant behind the answers.
AnswersInv == IInv /\ Orderly /\ MergedFrom

\* The answers for all files follow from those for the single files when these
\* have the same columns: no row is lost, counted twice or taken from elsewhere.
\* And merging reads past a row only if files have different numbers of columns.
MergedAgreesWithFiles ==
    /\ mpc = "undefined" => \E j, k \in Range(log_parser_list) :
          Len(parser[j].content.types) # Len(parser[k].content.types)
    /\ (Answering /\ \A j, k \in Range(log_parser_list) :
                        /\ parser[j].content.types = parser[k].content.types
                        /\ parser[j].content.names = parser[k].content.names) =>
        LET m == merged_log_parser
            singles == {parser[j] : j \in Range(log_parser_list)}
        IN  /\ row_cnt(m.content) =
                  SumOf([k \in 1..Len(log_parser_list) |->
                            row_cnt(parser[log_parser_list[k]].content)])
            /\ \A col \in Columns(m) :
                  /\ Regular(m, col) =>
                        /\ \E s \in singles : Calculate(m, col, "max").v = Calculate(s, col, "max").v
                        /\ \A s \in singles : Calculate(m, col, "max").v >= Calculate(s, col, "max").v
                  /\ Calculates(m, col, "sum") =>
                        Calculate(m, col, "sum") =
                           ToInt(SumOf([k \in 1..Len(log_parser_list) |->
                                           Calculate(parser[log_parser_list[k]], col, "sum")]))

\* Parse does not wait for ever: every future it waits for is resolved.
FuturesAreCollected == mpc = "enqueue" ~> mpc = "merge"
-----------------------------------------------------------------------------
(* What the README and a message say *)

\* README: the sum of a column can be had.  std::accumulate with the int 0 adds up
\* in int, although the values are of 64 bits.
SumsAreRight ==
    mpc = "idle" => \A s \in Asked : row_cnt(s.content) > 0 =>
        \A col \in Columns(s) : Calculates(s, col, "sum") =>
           Calculate(s, col, "sum") = SumOf(ValuesOf(s, col))

\* README: the rows sorted by a column.  FloatStr cannot compare each value that
\* makes a column one of floats.
SortsEveryColumn ==
    mpc = "idle" => \A s \in Asked : \A col \in Columns(s) :
        LET res == Sort(s, col, -1, TRUE)
        IN  \A j, k \in 1..Len(res) : j < k => res[j][ColIdx(s, col)].v <= res[k][ColIdx(s, col)].v

\* log_parser.cc:45: invalid initial data is cleared to avoid a crash.  Rows that
\* are shorter than the columns of the first file are not noticed.
ShortRowsAreHarmless == mpc # "undefined"

\* The same message: once it is cleared the parser still has its columns, and
\* Calculate looks for the metrics of one in an empty vector.
ClearingIsHarmless ==
    mpc = "idle" => \A s \in Asked : Columns(s) # {} => row_cnt(s.content) > 0
=============================================================================
