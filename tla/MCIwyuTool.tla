----------------------------- MODULE MCIwyuTool -----------------------------
(***************************************************************************)
(* Files /a/b and /a/bx, where one path begins with the other although     *)
(* neither is inside the other, and /c; entries with and without their     *)
(* parts; selections that are empty, overlap, or are not on disk.          *)
(*                                                                         *)
(* The texts that the script reads are calls without a state of its own:   *)
(* they are followed once, beside a script that has ended, instead of with *)
(* every schedule of the processes.                                        *)
(***************************************************************************)
EXTENDS IwyuTool, IwyuText

A  == <<"/", "a">>
AB == <<"/", "a", "/", "b">>
AX == <<"/", "a", "/", "b", "x">>
C  == <<"/", "c">>

Good(file, abs, alone, command) ==
  [file |-> file, abs |-> abs, joined |-> AB, alone |-> alone, has_directory |-> TRUE,
   has_command |-> TRUE, command |-> command]

Relative == Good(<<"b">>, FALSE, C, <<"ccache", "cc", "-c">>)
Absolute == Good(AX, TRUE, AX, <<"cl.exe", "-c">>)
Lone     == [Good(C, TRUE, C, <<"cc">>) EXCEPT !.has_directory = FALSE]
Wrapped  == Good(C, TRUE, C, <<"ccache">>)
Empty    == [Good(C, TRUE, C, <<>>) EXCEPT !.has_command = FALSE]
Other    == Good(C, TRUE, C, <<"cc", "-g">>)

MCDatabases  == {<<>>, <<Relative, Absolute, Other>>, <<Other, Absolute, Other, Relative>>,
                 <<Absolute, Lone>>, <<Relative, Wrapped>>, <<Empty>>}
MCSelections == {<<>>, <<A>>, <<AB>>, <<AB, A>>, <<<<"/">>>>, <<A, C>>, <<<<"/", "b">>>>}
MCOnDisk     == {A, AB, AX, C, <<"/">>}
MCExtra      == <<"-Xiwyu">>

\* -j may also give no process, or a negative number of them; a signal gives a negative code.
MCJobs  == {-1, 0, 1, 2, 3}
MCCodes == {-9, 0, 2}

MCInit == ToolInit /\ TextInit

Quiet == phase = "ended" /\ database = <<>> /\ selection = <<>> /\ options = <<1, 0>>

MCNext ==
  \/ ToolNext /\ UNCHANGED <<splitter, formatter>>
  \/ Quiet /\ TextNext /\ UNCHANGED <<vars, tool>>

MCSpec ==
  /\ MCInit /\ [][MCNext]_<<vars, tool, splitter, formatter>>
  /\ WF_<<vars, tool>>(Script) /\ WF_<<vars, tool>>(ProcessEnds)
=============================================================================
