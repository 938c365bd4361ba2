----------------------------- MODULE LintReport -----------------------------
(***************************************************************************)
(* What a lint of several files promises, without processes, pipes or      *)
(* pools (the docstring of tools/run-clang-format.py): every file is       *)
(* reported once, in any order; the exit code is the worst of the reports. *)
(* An unexpected error ends the lint before all files were reported; when  *)
(* one worker lints alone, so does any error, which the comments in the    *)
(* code do not say; a report that cannot be written aborts it.             *)
(***************************************************************************)
EXTENDS Naturals

CONSTANT Lists   \* the sets of files there may be to lint
VARIABLES files, alone, reported, code, state

vars == <<files, alone, reported, code, state>>

SUCCESS == 0
DIFF    == 1
TROUBLE == 2

Verdicts == {"clean", "diff", "error", "unexpected"}

Worse(c, verdict) ==
  IF verdict = "clean" THEN c
  ELSE IF verdict # "diff" THEN TROUBLE
  ELSE IF c = SUCCESS THEN DIFF ELSE c

Init == files = {} /\ alone = FALSE /\ reported = {} /\ code = SUCCESS /\ state = "idle"

Begin ==
  /\ state = "idle"
  /\ files' \in Lists /\ alone' \in BOOLEAN
  /\ state' = "linting"
  /\ UNCHANGED <<reported, code>>

\* The one worker has met an error.
Broken == alone /\ code = TROUBLE

Report(f, verdict) ==
  /\ state = "linting" /\ ~Broken
  /\ f \in files \ reported
  /\ reported' = reported \cup {f}
  /\ code' = Worse(code, verdict)
  /\ state' = IF verdict = "unexpected" THEN "ending" ELSE state
  /\ UNCHANGED <<files, alone>>

Finish ==
  /\ state = "linting" /\ (reported = files \/ Broken)
  /\ state' = "ending"
  /\ UNCHANGED <<files, alone, reported, code>>

Abort ==
  /\ state = "linting" /\ reported # files
  /\ state' = "aborted" /\ code' = DIFF
  /\ UNCHANGED <<files, alone, reported>>

Return ==
  /\ state = "ending"
  /\ state' = "returned"
  /\ UNCHANGED <<files, alone, reported, code>>

\* Nothing could be linted: no files, no formatter, or a failure before the first file.
Refuse ==
  /\ state = "idle"
  /\ state' = "refused"
  /\ code' \in {SUCCESS, DIFF, TROUBLE}
  /\ UNCHANGED <<files, alone, reported>>

Next ==
  \/ Begin \/ Finish \/ Abort \/ Return \/ Refuse
  \/ \E f \in files, verdict \in Verdicts : Report(f, verdict)

Spec == Init /\ [][Next]_vars
=============================================================================
