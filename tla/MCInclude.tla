-------------------------------- MODULE MCInclude --------------------------------
(***************************************************************************)
(* Small instance of IncludeWalk: a file and a header, which either may    *)
(* include under two names (the header also itself), every conditional.    *)
(***************************************************************************)
EXTENDS IncludeWalk

MCFiles == {"a", "b"}
MCPaths == {"b", "./b", "gone"}
MCResolve == [p \in MCPaths |-> IF p = "gone" THEN Missing ELSE "b"]
MCMacros == {"M"}
MCDefines == [m \in MCMacros |-> Undef]
MCLines == {Define("M", "1"), Define("M", "b"), Define(NoName, "1"), UndefLine("M"),
            Ifdef(NoName), Ifdef("M"), Ifndef("M"), IfLine("M"), Elif("M"), Else, Endif,
            Include("b"), Include("./b"), Include("gone"), IncludeOf("M"),
            PragmaOnce, ErrorLine, Text}

\* Include guards, nesting and #elif chains in longer files.
GuardLines == {Define("M", "1"), Ifndef("M"), Elif("M"), Else, Endif, Include("b")}

\* An input file of up to 3 lines of any kind with a header of up to 2, or files
\* of MaxLines lines of the second set.
Small == Len(text["a"]) <= 3 /\ Len(text["b"]) <= 2
OneFamily == Small \/ \A f \in Files : \A i \in DOMAIN text[f] : text[f][i] \in GuardLines

MCNext == Next /\ OneFamily'
MCSpec == Init /\ [][MCNext]_vars /\ WF_vars(MCNext)
===================================================================================
