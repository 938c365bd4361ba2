--------------------------- MODULE ClangFormatter ---------------------------
(***************************************************************************)
(* clang_formatter of tools/iwyu_tool.py: the output of include-what-you-  *)
(* use becomes diagnostics in the style of a compiler.                     *)
(*                                                                         *)
(* A line is what the regular expressions tell apart: the heads of the     *)
(* sections with their file, the end mark, a blank line, and text, which   *)
(* has a comment ("text // why"), a comment with line numbers              *)
(* ("- text  // lines 3-4"), or none.                                      *)
(***************************************************************************)
EXTENDS Naturals, Sequences, FiniteSets

CONSTANTS Names,      \* the files that sections are about
          MaxLines    \* bound: the longest output

VARIABLES output,     \* the lines read so far
          state,      \* [section, file]
          formatted,
          raised      \* an exception has ended the call

vars == <<output, state, formatted, raised>>

Nowhere == "nowhere"
General == [section |-> "general", file |-> Nowhere]
Heads   == {"add", "remove", "list"}
Texts   == {"plain", "comment", "lines"}
Lines   == [kind : Heads \cup {"correct"}, file : Names]
             \cup [kind : Texts \cup {"end", "blank"}, file : {Nowhere}]
-----------------------------------------------------------------------------
Init == output = <<>> /\ state = General /\ formatted = <<>> /\ raised = FALSE

Read(line) ==
  /\ ~raised /\ Len(output) < MaxLines
  /\ output' = Append(output, line)

\* "(file has correct #includes/fwd-decls)": a note; the section stays as it is.
Correct(line) ==
  /\ Read(line) /\ line.kind = "correct"
  /\ formatted' = Append(formatted, [is |-> "note", file |-> line.file])
  /\ UNCHANGED <<state, raised>>

Head_KeepsFile(line) ==
  /\ Read(line) /\ line.kind \in Heads
  /\ state' = [section |-> line.kind,
               file    |-> IF state.section = "general" THEN line.file ELSE state.file]
  /\ UNCHANGED <<formatted, raised>>

\* "file should add these lines:", "... remove these lines:", "The full include-list for ..."
Section(line) ==
  /\ Read(line) /\ line.kind \in Heads
  /\ state' = [section |-> line.kind, file |-> line.file]
  /\ UNCHANGED <<formatted, raised>>

End(line) ==
  /\ Read(line) /\ line.kind = "end"
  /\ state' = General
  /\ UNCHANGED <<formatted, raised>>

Blank(line) ==
  /\ Read(line) /\ line.kind = "blank"
  /\ UNCHANGED <<state, formatted, raised>>

\* Text outside of a section is copied; in the full list it is dropped.
Copy(line) ==
  /\ Read(line) /\ line.kind \in Texts
  /\ state.section \in {"general", "list"}
  /\ formatted' = IF state.section = "list" THEN formatted
                  ELSE Append(formatted, [is |-> "text", file |-> Nowhere])
  /\ UNCHANGED <<state, raised>>

Added(line) ==
  /\ Read(line) /\ line.kind \in Texts
  /\ state.section = "add"
  /\ formatted' = Append(formatted, [is |-> IF line.kind = "plain" THEN "add" ELSE "add_reason",
                                     file |-> state.file])
  /\ UNCHANGED <<state, raised>>

\* A superfluous line, which has its numbers in a comment. Without one the number would be
\* 1, but the text is then taken from a match that there is not.
Removed(line) ==
  /\ Read(line) /\ line.kind \in Texts
  /\ state.section = "remove"
  /\ IF line.kind = "lines"
     THEN /\ formatted' = Append(formatted, [is |-> "superfluous", file |-> state.file])
          /\ UNCHANGED raised
     ELSE raised' = TRUE /\ UNCHANGED formatted
  /\ UNCHANGED state

Next ==
  \E line \in Lines :
    Correct(line) \/ Section(line) \/ End(line) \/ Blank(line) \/ Copy(line) \/ Added(line)
      \/ Removed(line)

Spec == Init /\ [][Next]_vars
-----------------------------------------------------------------------------
\* The head or end mark that line i is under, if there is one.
Opens(i) == output[i].kind \in Heads \cup {"end"}
Under(i) == {k \in 1..i - 1 : Opens(k) /\ \A m \in k + 1..i - 1 : ~Opens(m)}

\* How often the output has a diagnostic of this kind, and how often it should: once for
\* each text under a head of that section which names that file.
Reported(is, file) ==
  Cardinality({j \in DOMAIN formatted : formatted[j].is \in is /\ formatted[j].file = file})
Expected(section, file) ==
  Cardinality({i \in DOMAIN output :
                 /\ output[i].kind \in Texts
                 /\ \E k \in Under(i) : output[k] = [kind |-> section, file |-> file]})

\* Every line to add and to remove is reported for the file whose section it is in, and no
\* other line is, whatever sections, end marks and notes come between.
ReportsEachSection ==
  ~raised => \A f \in Names :
    /\ Reported({"add", "add_reason"}, f) = Expected("add", f)
    /\ Reported({"superfluous"}, f) = Expected("remove", f)
=============================================================================
