------------------------------ MODULE WinSplit ------------------------------
(***************************************************************************)
(* win_split of tools/iwyu_tool.py: the command line of a compilation      *)
(* database entry is split into arguments on Windows, a character at a     *)
(* time, against the rules that its comments quote from MSDN.              *)
(***************************************************************************)
EXTENDS Naturals, Sequences, FiniteSets, Subsequence

CONSTANTS Letters,     \* the characters that mean themselves
          MaxLength    \* bound: the longest command line

VARIABLES cmdline,     \* what was read so far
          in_quotes, backslashes, arg,
          args,        \* what was yielded so far
          done

vars == <<cmdline, in_quotes, backslashes, arg, args, done>>

Backslash == "\\"
Mark      == "\""
Space     == " "
-----------------------------------------------------------------------------
Buffered(k) == [i \in 1..k |-> Backslash]

Init ==
  /\ cmdline = <<>> /\ in_quotes = FALSE /\ backslashes = 0
  /\ arg = <<>> /\ args = <<>> /\ done = FALSE

Read(c) ==
  /\ ~done /\ Len(cmdline) < MaxLength
  /\ cmdline' = Append(cmdline, c)
  /\ UNCHANGED done

Buffer ==
  /\ Read(Backslash)
  /\ backslashes' = backslashes + 1
  /\ UNCHANGED <<in_quotes, arg, args>>

Quote_KeepsBuffer ==
  /\ Read(Mark)
  /\ arg' = arg \o Buffered(backslashes \div 2) \o (IF backslashes % 2 = 1 THEN <<Mark>> ELSE <<>>)
  /\ in_quotes' = (in_quotes # (backslashes % 2 = 0))
  /\ UNCHANGED <<backslashes, args>>

\* Half of the backslashes; the mark itself if their number was odd, a change of state if
\* it was even.
Quote ==
  /\ Read(Mark)
  /\ arg' = arg \o Buffered(backslashes \div 2) \o (IF backslashes % 2 = 1 THEN <<Mark>> ELSE <<>>)
  /\ in_quotes' = (in_quotes # (backslashes % 2 = 0))
  /\ backslashes' = 0
  /\ UNCHANGED args

\* Outside of quotes a space ends the argument, unless that is empty.
Separate ==
  /\ Read(Space) /\ ~in_quotes
  /\ LET whole == arg \o Buffered(backslashes)
     IN  args' = IF whole = <<>> THEN args ELSE Append(args, whole)
  /\ arg' = <<>> /\ backslashes' = 0
  /\ UNCHANGED in_quotes

Add(c) ==
  /\ Read(c) /\ c \notin {Backslash, Mark} /\ (c # Space \/ in_quotes)
  /\ arg' = Append(arg \o Buffered(backslashes), c)
  /\ backslashes' = 0
  /\ UNCHANGED <<in_quotes, args>>

\* After the last character: the buffered backslashes are added if there is an argument.
EndOfLine ==
  /\ ~done
  /\ done' = TRUE
  /\ args' = IF arg = <<>> THEN args ELSE Append(args, arg \o Buffered(backslashes))
  /\ UNCHANGED <<cmdline, in_quotes, backslashes, arg>>

Next == Buffer \/ Quote \/ Separate \/ EndOfLine \/ \E c \in Letters \cup {Space} : Add(c)
Spec == Init /\ [][Next]_vars
-----------------------------------------------------------------------------
(***************************************************************************)
(* The rules, without a state: what each place of a line means.            *)
(***************************************************************************)
\* Only backslashes from i to j.
Run(line, i, j) == \A k \in i .. j : line[k] = Backslash

\* The number of backslashes right before place i.
Leading(line, i) ==
  CHOOSE k \in 0 .. i - 1 :
    Run(line, i - k, i - 1) /\ (k = i - 1 \/ line[i - k - 1] # Backslash)

Delimits(line, i)  == line[i] = Mark /\ Leading(line, i) % 2 = 0
Quoted(line, i)    == Cardinality({k \in 1 .. i - 1 : Delimits(line, k)}) % 2 = 1
Separates(line, i) == line[i] = Space /\ ~Quoted(line, i)

\* A backslash stays unless it belongs to a run before a mark and is in its second half.
Stays(line, i) ==
  IF line[i] = Mark THEN ~Delimits(line, i)
  ELSE line[i] = Backslash =>
    \A j \in DOMAIN line : j > i /\ line[j] = Mark /\ Run(line, i, j - 1) =>
      2 * (Leading(line, i) + 1) <= Leading(line, j)

\* What stays before place k and after the last separator before it.
Piece(line, k) ==
  Pick(line, {i \in 1 .. k - 1 : Stays(line, i) /\ \A j \in i .. k - 1 : ~Separates(line, j)})

\* The arguments: the pieces before some places, but for those that are empty.
Arguments(line, ends) ==
  Pick([k \in 1 .. Len(line) + 1 |-> Piece(line, k)], {k \in ends : Piece(line, k) # <<>>})

Separators(line) == {k \in DOMAIN line : Separates(line, k)}

\* The last piece is a run of backslashes and nothing else (but empty quotes).
OnlyBackslashes(line) ==
  LET run == Leading(line, Len(line) + 1)
  IN  run > 0 /\ Len(Piece(line, Len(line) + 1)) = run

\* The arguments are those of the rules, in their order, at the end of the line and, but
\* for the one being read, at any character before. Nothing is claimed of the end of a line
\* whose last argument is made of backslashes alone: the comment at iwyu_tool.py:162-164
\* has them interpreted literally, the test of line 194 loses them.
SplitsLikeMsdn ==
  IF ~done THEN args = Arguments(cmdline, Separators(cmdline))
  ELSE ~OnlyBackslashes(cmdline) =>
         args = Arguments(cmdline, Separators(cmdline) \cup {Len(cmdline) + 1})
=============================================================================
