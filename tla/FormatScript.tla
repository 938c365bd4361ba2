---------------------------- MODULE FormatScript ----------------------------
(***************************************************************************)
(* tools/run-clang-format.py as a whole: FormatFiles lists the files that  *)
(* FormatRunner then formats, in the same process, so that the pool is as  *)
(* large as what the arguments, the patterns and the tree make it.         *)
(***************************************************************************)
EXTENDS FormatRunner

CONSTANTS Plain, Dirs, Extensions, IgnoreFiles, Excludes, Arguments

VARIABLES files, recursive, exclude, next, todo, out

Listing == INSTANCE FormatFiles

ASSUME ListingAssumption == Listing!Tree /\ Listing!ArgumentLists

list == <<files, recursive, exclude, next, todo, out>>
-----------------------------------------------------------------------------
ScriptInit == Init /\ Listing!Init

\* list_files, between the version check and the pool.
ListFiles ==
  /\ main = "listing" /\ ~Listing!Done
  /\ Listing!Next
  /\ UNCHANGED vars

\* As many files as list_files has returned.
Count ==
  /\ Listing!Done
  /\ List /\ n' = Len(out)
  /\ UNCHANGED list

\* The ignore file is read before the walk begins.
IgnoreFails ==
  /\ next = 1 /\ todo = <<>>
  /\ ListFails
  /\ UNCHANGED list

Format ==
  /\ CheckVersion \/ Handle \/ StopIteration \/ Return \/ \E j \in Jobs : Job(j)
  /\ UNCHANGED list

Stderr == (\E j \in Jobs : Noise(j) \/ Block(j)) /\ UNCHANGED list

ScriptNext == ListFiles \/ Count \/ IgnoreFails \/ Format \/ Stderr

\* As for FormatRunner; the walk is finite and runs to its end.
ScriptSpec ==
  ScriptInit /\ [][ScriptNext]_<<vars, list>> /\ WF_<<vars, list>>(ListFiles \/ Count \/ Format)
-----------------------------------------------------------------------------
\* What is formatted, and how many times, is what FormatFiles says of it.
ListsExactly == Listing!ListsExactly
=============================================================================
