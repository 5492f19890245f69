-------------------------- MODULE MCLogParserMgr --------------------------
(* Instances of LogParserMgr for TLC: what the files hold. *)
EXTENDS LogParserMgr

I(n) == [type |-> "Int", v |-> n]
S(n) == [type |-> "String", v |-> n]
B(n) == [type |-> "BadFloat", v |-> n]

Table(names, lines) == [names |-> names, lines |-> lines]

\* Two Int columns; one with a line of other types and one that is too short;
\* fewer columns; an irregular Float column; equal names; no rows.
MCContents == {Table(<<"a", "b">>, <<<<I(3), I(1)>>, <<I(-4), I(2)>>>>),
               Table(<<"a", "b">>, <<<<I(3), I(2)>>, <<S(1), S(1)>>, <<I(1)>>>>),
               Table(<<"a">>, <<<<I(2)>>>>),
               Table(<<"b">>, <<<<B(2)>>, <<S(1)>>, <<B(1)>>>>),
               Table(<<"a", "a">>, <<<<I(2), I(1)>>>>),
               Table(<<>>, <<>>)}

MCNewLines == {<<I(3)>>, <<S(1), S(2)>>}
MCFiles    == <<"f1", "f2">>
=============================================================================
