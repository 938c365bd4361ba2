------------------------------ MODULE IwyuText ------------------------------
(***************************************************************************)
(* The two texts tools/iwyu_tool.py reads a piece at a time: a command     *)
(* line before include-what-you-use is started, WinSplit, and its output   *)
(* afterwards, ClangFormatter. Every entry of the database goes through    *)
(* both, the one before the other and with nothing shared but the order.   *)
(***************************************************************************)
EXTENDS Naturals, Sequences

CONSTANTS Letters, MaxLength, Names, MaxLines

VARIABLES cmdline, in_quotes, backslashes, arg, args, done
VARIABLES output, state, formatted, raised

Splitter  == INSTANCE WinSplit
Formatter == INSTANCE ClangFormatter

splitter  == <<cmdline, in_quotes, backslashes, arg, args, done>>
formatter == <<output, state, formatted, raised>>
-----------------------------------------------------------------------------
TextInit == Splitter!Init /\ Formatter!Init

Split ==
  /\ output = <<>>
  /\ Splitter!Next
  /\ UNCHANGED formatter

\* What was split does not matter here, so it is forgotten but for one short line.
Format ==
  /\ done /\ cmdline = <<>>
  /\ Formatter!Next
  /\ UNCHANGED splitter

TextNext == Split \/ Format
TextSpec == TextInit /\ [][TextNext]_<<splitter, formatter>>
-----------------------------------------------------------------------------
\* The arguments of a command line are those of the rules that the comments quote.
SplitsLikeMsdn == Splitter!SplitsLikeMsdn

\* Each diagnostic names the file whose section it is in.
ReportsEachSection == Formatter!ReportsEachSection
=============================================================================
