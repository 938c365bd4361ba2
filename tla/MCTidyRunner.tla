---------------------------- MODULE MCTidyRunner ----------------------------
(***************************************************************************)
(* A database with one file twice, by its absolute path and relative to    *)
(* its directory, one file the filter leaves out, and two more; and one    *)
(* whose absolute names are not normalised.                                *)
(***************************************************************************)
EXTENDS TidyRunner

Abs(parts) == [abs |-> TRUE, parts |-> parts]
Rel(parts) == [abs |-> FALSE, parts |-> parts]
Entry(file, directory) == [file |-> file, directory |-> Abs(directory)]

Full == <<Entry(Abs(<<"src", "a">>), <<"build">>),
          Entry(Rel(<<"..", "src", "a">>), <<"build">>),
          Entry(Rel(<<"b">>), <<"src">>),
          Entry(Rel(<<"..", "..", "src", "c">>), <<"build">>),
          Entry(Rel(<<"d">>), <<"build">>)>>

Detour == Abs(<<"build", "..", "src", "a">>)

MCDatabases == {Full, SubSeq(Full, 1, 2), <<>>, <<Full[1], Entry(Detour, <<"build">>)>>}
MCMatching  == {Abs(<<"src", f>>) : f \in {"a", "b", "c"}} \cup {Detour}
=============================================================================
