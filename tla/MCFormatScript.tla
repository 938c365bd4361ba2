--------------------------- MODULE MCFormatScript ---------------------------
(***************************************************************************)
(* A tree of two directories below a root, with source files and one file  *)
(* that is none; patterns for a directory, a file, and everything below;   *)
(* arguments that are nothing, a file, a directory, or overlap.            *)
(***************************************************************************)
EXTENDS FormatScript

\* The default, one more than the processors; one job in the main process; and -j -1, which
\* no pool takes.
MCJobOptions == {-1, 0, 1}

R == <<"r">>
D == <<"r", "d">>
E == <<"r", "d", "e">>

MCDirs  == {R, D, E}
MCPlain == {Append(R, "c"), Append(D, "c"), Append(E, "c"), Append(D, "txt")}

Line(kind, paths) == [kind |-> kind, paths |-> paths]
One  == {Append(D, "c")}
Deep == {E, Append(E, "c")}

MCIgnoreFiles == {<<>>, <<Line("comment", {D}), Line("pattern", One)>>,
                  <<Line("blank", {}), Line("pattern", Deep)>>}
MCExcludes  == {<<>>, <<{D}>>, <<One, {Append(R, "c")}>>}
MCArguments == {<<>>, <<R>>, <<E>>, <<Append(D, "txt")>>, <<R, D>>, <<Append(R, "c"), E>>}
=============================================================================
