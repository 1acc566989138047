------------------------------ MODULE MCShell ------------------------------
(***************************************************************************)
(* Three terminals.  Six keys are typed at one of them alone, and some     *)
(* sessions at two or three of them at once: a file is removed, a line     *)
(* corrected, the directory changed and listed, a line filled to its end.  *)
(***************************************************************************)
EXTENDS Shell

Session(a, b, c) == [s \in Shells |-> CASE s = "sh0" -> a [] s = "sh1" -> b [] s = "sh2" -> c]

Removal == <<"r", " ", "-", "r", " ", "r", "NL">>
Correct == <<"d", "r", "BS", " ", "d", "NL">>
Change == <<"d", " ", "d", "NL">>
List == <<"l", "NL">>
Fill == <<"d", "d", "d", "d", "d", "d">>
Again == <<"UP", "r", " ", "d", "NL">>

MCInputs ==
    {Session(keys, <<>>, <<>>) : keys \in [1 .. 6 -> {"r", "-", " ", "NL", "BS"}]}
    \cup {Session(Removal, List, <<>>), Session(Again, List, <<>>), Session(Correct, List, <<>>),
          Session(List, Change \o List, <<>>), Session(List \o List, List, <<>>),
          Session(Fill, <<"d">>, <<"d">>)}

MCDirs == {<<"d">>}
=============================================================================
