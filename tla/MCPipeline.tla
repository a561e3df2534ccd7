------------------------------- MODULE MCPipeline -------------------------------
(***************************************************************************)
(* Instances of Pipeline for TLC.                                          *)
(***************************************************************************)
EXTENDS Pipeline

MCFiles == {"s", "i", "r", "m", "x", "y"}

MCChars ==
    {"f", "e", "l", "t", "z", "p", "x", "g", "!", ";", "nl", "cr", "?", "H", "D", "F", "L", "R", "E",
     "k", "a", "b", "q", "&", ":", "/", "c", ".", "DEFINE"} \cup {"0", "1", "2", "3", "4", "5", "6", "7", "8", "9"}

MCValues == ("z" :> <<"0", "0", "5", "0">>) @@ ("p" :> <<"&", "0">>)

\* e has the longest line that fits, l one that does not.
MCCode ==
    ("f" :> <<<<"L", "0">>, <<"R">>>>)
    @@ ("e" :> <<<<"L", "0">>, <<"k", "2", "3", "4", "5", "6", "7", "8", "9">>, <<"R", "1">>>>)
    @@ ("l" :> <<<<"L", "0">>, <<"k", "2", "3", "4", "5", "6", "7", "8", "9", "9">>, <<"R">>>>)
    @@ ("t" :> <<<<"L", "0">>, <<"k", "1", "q", "4", "5">>, <<"R">>, <<"L", "1">>, <<"R">>>>)

MCLiteral == "t" :> [label |-> "q", values |-> <<"7", "0">>]

MCSources ==
    {<<>>, <<"f", "z">>, <<"z", "e">>, <<"p", "t">>, <<"l">>,
     <<"f", "z", "p", "x">>, <<"f", "g">>, <<"f", "!">>}

MCCwd == <<"/", "c">>
MCPaths == {<<"r">>, <<".", "", "i">>, <<"/", "c", ".", "i">>}

\* A header and up to three lines, without the last newline; the third may end an
\* item.
HandLines == {<<"D", "z">>, <<"z", "2">>, <<"F", "f">>, <<"L", "0">>, <<"R">>, <<"E">>, <<"cr">>, <<"?">>}
MCHandWritten ==
    {<<>>, <<"?", "nl">>, <<"cr", "nl", "H">>}
    \cup {Front(FlattenSeq([i \in 1..Len(ls) |-> Append(ls[i], "nl")])) :
            ls \in {<<<<"H", "cr">>>> \o t : t \in
                     {u \in SeqOf(HandLines, 3) : Len(u) = 3 => u[3] \in {<<"R">>, <<"E">>, <<"?">>}}}}

MCMaxFaults == [build |-> 1, m1 |-> 1, client |-> 1]

MCClientFiles == {"x", "y"}
MCClientTexts == {<<"a">>}
=============================================================================
