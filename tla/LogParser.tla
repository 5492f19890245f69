----------------------------- MODULE LogParser -----------------------------
(***************************************************************************)
(* One log_parser::LogParser (CppProjects/LogParser/log_parser): what it   *)
(* keeps of a file or of merged rows, the order it sorts each column into, *)
(* and the answers of Calculate and Sort.                                  *)
(*                                                                         *)
(* A value is a record [type, v]: v stands for the number, or for the      *)
(* place of the text in its order.  The type is what ParseColumnDataType   *)
(* finds, except "BadFloat": a Float in the eyes of strtof ("1e5", "nan")  *)
(* that FloatStr does not accept.                                          *)
(***************************************************************************)
EXTENDS Integers, Sequences, FiniteSets, Functions, SequencesExt

CONSTANT IntLimit    \* an int is less than it and no less than -IntLimit, 2^31 in the code

ASSUME IntAssumption == IntLimit \in Nat \ {0}

DataType == {"Int", "Float", "String", "Telephone", "Date", "Timestamp"}
Values == [type : DataType \cup {"BadFloat"}, v : Int]
Rows   == Seq(Values)
\* A file: the first line, and the others.
Tables == [names : Seq(STRING), lines : Seq(Rows)]

Metrics == {"sum", "max", "min", "mean", "median"}

\* What a loop keeps of a sequence that appends the elements at the places ok.

Those(s, ok) ==
    LET kept[k \in 0..Len(s)] == IF k = 0 THEN <<>>
                                 ELSE IF k \in ok THEN Append(kept[k - 1], s[k])
                                 ELSE kept[k - 1]
    IN  kept[Len(s)]

ParseColumnDataType(val) == IF val.type = "BadFloat" THEN "Float" ELSE val.type
Schema(row) == [i \in 1..Len(row) |-> ParseColumnDataType(row[i])]

\* FloatStr::operator< calls an invalid value less than none and greater than none.
Less(a, b) == "BadFloat" \notin {a.type, b.type} /\ a.v < b.v

\* names, the data types of the columns, and the rows that were kept.
Content(names, types, rows) == [names |-> names, types |-> types, rows |-> rows]
Rejected == Content(<<>>, <<>>, <<>>)
row_cnt(p) == Len(p.rows)

\* Lines with another number of values than the first line are dropped, the
\* first one left gives the data types, those of other types are dropped.
ParseRawContentFromFile(file) ==
    LET wide  == Those(file.lines, {k \in DOMAIN file.lines :
                                      Len(file.lines[k]) = Len(file.names)})
        types == Schema(wide[1])
    IN  IF wide = <<>> THEN Rejected
        ELSE Content(file.names, types, Those(wide, {k \in DOMAIN wide : Schema(wide[k]) = types}))

\* Whether the loop over the columns reads past the end of a row: all the
\* values there are have the expected types.
ReadsPastEnd(row, types) == IsStrictPrefix(Schema(row), types)

Fitting(names, types, rows) ==
    IF ~IsInjective(names) THEN Rejected
    ELSE Content(names, types, Those(rows, {k \in DOMAIN rows : IsPrefix(types, Schema(rows[k]))}))

ParseRawContentFromSecond(names, types, rows) ==
    Fitting(names, types, IF Len(rows) > 1 THEN Tail(rows) ELSE rows)

\* Rows with more values than columns pass.
ParseRawContent(names, types, rows) == Fitting(names, types, rows)

\* Whether std::sort may leave the rows in this order of column i: without a
\* strict weak order, in any.
MayLeave(p, i, order) ==
    \/ \A k \in 2..row_cnt(p) : ~Less(p.rows[order[k]][i], p.rows[order[k - 1]][i])
    \/ \E r \in 1..row_cnt(p) : p.rows[r][i].type = "BadFloat"

\* A parser is its content and its sorted_content_by_col_.
SortContent(p) ==
    {s \in [content : {p}, order : [1..Len(p.types) -> Injection(1..row_cnt(p), 1..row_cnt(p))]] :
        \A i \in DOMAIN s.order : MayLeave(s.content, i, s.order[i])}

\* col_name2col_idx_: of equal names the last.
Columns(s) == Range(s.content.names)
ColIdx(s, col) == CHOOSE i \in 1..Len(s.content.names) :
                     /\ s.content.names[i] = col
                     /\ \A k \in 1..Len(s.content.names) : s.content.names[k] = col => k <= i

At(s, i, k) == s.content.rows[s.order[i][k]][i]

ToInt(n) == ((n + IntLimit) % (2 * IntLimit)) - IntLimit

\* The values of column i, in the order of the file.
Column(rows, i) == [k \in 1..Len(rows) |-> rows[k][i].v]

AccumulateFromFirst(vs) ==
    LET acc[k \in 0..Len(vs)] == IF k = 0 THEN vs[1] ELSE ToInt(acc[k - 1] + vs[k])
    IN  acc[Len(vs)]

\* std::accumulate with the int 0: every partial sum is converted to int.
Accumulate(vs) ==
    LET acc[k \in 0..Len(vs)] == IF k = 0 THEN 0 ELSE ToInt(acc[k - 1] + vs[k])
    IN  acc[Len(vs)]

\* Sums of Float columns are left out: their rounding is not modelled.
StoreMetrics(s, i) ==
    LET n   == row_cnt(s.content)
        sum == Accumulate(Column(s.content.rows, i))
    IN  [m \in IF s.content.types[i] = "Int" THEN Metrics ELSE Metrics \ {"sum", "mean"} |->
            CASE m = "min"    -> At(s, i, 1)
              [] m = "max"    -> At(s, i, n)
              [] m = "median" -> At(s, i, (n \div 2) + 1)
              [] m = "sum"    -> sum
              [] m = "mean"   -> <<sum, n>>]

\* What Calculate returns, and the value it then finds.
Calculates(s, col, metric) == col \in Columns(s) /\ metric \in DOMAIN StoreMetrics(s, ColIdx(s, col))
Calculate(s, col, metric) == StoreMetrics(s, ColIdx(s, col))[metric]

\* limit is converted to size_t: a negative one is larger than any row_cnt_.
SortFrom(s, col, limit, start, step) ==
    LET n == row_cnt(s.content)
        rows == IF limit \in 0..n THEN limit ELSE n
    IN  [k \in 1..rows |-> s.content.rows[s.order[ColIdx(s, col)][start + step * (k - 1)]]]

SortFromFront(s, col, limit, is_asc) ==
    LET n == row_cnt(s.content)
        asc == SortFrom(s, col, limit, 1, 1)
    IN  IF is_asc THEN asc ELSE Reverse(asc)

Sort(s, col, limit, is_asc) == IF is_asc THEN SortFrom(s, col, limit, 1, 1)
                               ELSE SortFrom(s, col, limit, row_cnt(s.content), -1)
-----------------------------------------------------------------------------
(* What the answers should be *)

\* Each row that is kept has a value for every column.
Rectangular(p) ==
    /\ p.names \in Seq(STRING) /\ p.types \in Seq(DataType) /\ Len(p.types) = Len(p.names)
    /\ p.rows \in Seq(Rows) /\ \A k \in 1..row_cnt(p) : Len(p.types) <= Len(p.rows[k])

\* There is an order of the rows for every column, in which none is twice.
WellFormed(s) ==
    /\ Rectangular(s.content)
    /\ s.order \in [1..Len(s.content.types) ->
                       Injection(1..row_cnt(s.content), 1..row_cnt(s.content))]
    /\ \A i \in 1..Len(s.content.types) : MayLeave(s.content, i, s.order[i])

\* The rows have the types of the columns and no more values.
Uniform(p) == \A k \in 1..row_cnt(p) : Schema(p.rows[k]) = p.types

Regular(s, col) == \A k \in 1..row_cnt(s.content) :
                      s.content.rows[k][ColIdx(s, col)].type # "BadFloat"
ValuesOf(s, col) == Column(s.content.rows, ColIdx(s, col))

\* The sum of numbers, of any size.
SumOf(ns) == LET sum[k \in 0..Len(ns)] == IF k = 0 THEN 0 ELSE sum[k - 1] + ns[k]
             IN  sum[Len(ns)]

\* The first and last of the order are the extremes, half of the rows are on
\* either side of the median, and the sum is right whenever it fits, although
\* partial sums may not.
Describes(s, col) ==
    LET vs == ValuesOf(s, col)
        n == Len(vs)
        median == Calculate(s, col, "median").v
    IN  /\ \A k \in 1..n : vs[k] \in Calculate(s, col, "min").v .. Calculate(s, col, "max").v
        /\ Cardinality({k \in 1..n : vs[k] <= median}) * 2 >= n
        /\ Cardinality({k \in 1..n : vs[k] >= median}) * 2 >= n
        /\ (Calculates(s, col, "sum") /\ SumOf(vs) \in -IntLimit..(IntLimit - 1)) =>
              Calculate(s, col, "sum") = SumOf(vs)

\* Sort returns as many rows as there are up to limit, each once, in order, and
\* none that is left out should come before one of them; a negative limit means
\* all rows.  With values FloatStr cannot compare there is no order, but still
\* each row once.
ReturnsExtremes(s, col, limit, is_asc) ==
    LET n == row_cnt(s.content)
        res == Sort(s, col, limit, is_asc)
        i == ColIdx(s, col)
        inOrder(a, b) == IF is_asc THEN a[i].v <= b[i].v ELSE a[i].v >= b[i].v
        times(r, rows) == Cardinality({k \in 1..Len(rows) : rows[k] = r})
    IN  /\ Len(res) = IF limit \in 0..n THEN limit ELSE n
        /\ \A r \in Range(res) : times(r, res) <= times(r, s.content.rows)
        /\ Regular(s, col) =>
              /\ \A j, k \in 1..Len(res) : j < k => inOrder(res[j], res[k])
              /\ \A r \in Range(s.content.rows) :
                    times(r, res) < times(r, s.content.rows) =>
                       \A k \in 1..Len(res) : inOrder(res[k], r)
=============================================================================
