---------------------------- MODULE IwyuExecute -----------------------------
(***************************************************************************)
(* execute of tools/iwyu_tool.py: processes are started as far as the      *)
(* number of jobs and the load of the machine allow, polled, and their     *)
(* output printed as they end.                                             *)
(*                                                                         *)
(* Loads are in halves of one, so that int() has something to cut off.     *)
(* External: the load, when a process ends and with which code (negative   *)
(* when a signal killed it), a program or a directory that is not there,   *)
(* an output that cannot be decoded or formatted.                          *)
(***************************************************************************)
EXTENDS Integers, Sequences, FiniteSets

CONSTANTS JobOptions,       \* the numbers that -j may give
          LoadOptions,      \* the limits that -l may give, in halves; 0 is none
          Loads,            \* the load averages the machine may show, in halves
          Codes             \* the exit codes of a process

ASSUME ExecuteAssumption ==
  /\ JobOptions \subseteq Int /\ LoadOptions \subseteq Nat
  /\ Loads \subseteq Nat /\ Codes \subseteq Int

VARIABLES jobs, max_load_average,
          main,         \* where execute is
          invocations,  \* not started yet
          started,      \* those that were, in order; a process is its place in it
          pending,      \* the processes that were started and not collected
          running,      \* those that have not ended
          alive,        \* of the pending, those that were polled and had not ended
          complete,     \* and those that had
          code,         \* what each has ended with
          printed,      \* history: how often the output of each was printed
          exit_code

options == <<jobs, max_load_average>>
procs   == <<started, running, code>>
polls   == <<alive, complete>>
vars    == <<options, main, invocations, procs, pending, polls, printed, exit_code>>
-----------------------------------------------------------------------------
Smaller(a, b) == IF a < b THEN a ELSE b
Larger(a, b)  == IF a < b THEN b ELSE a

\* s[:k] and s[k:] of Python, where a negative k counts from the end.
Cut(s, k)  == IF k < 0 THEN Larger(Len(s) + k, 0) ELSE Smaller(k, Len(s))
UpTo(s, k) == SubSeq(s, 1, Cut(s, k))

From_Next(s, k) == SubSeq(s, Cut(s, k + 1) + 1, Len(s))
From(s, k) == SubSeq(s, Cut(s, k) + 1, Len(s))

Init ==
  /\ jobs \in JobOptions /\ max_load_average \in LoadOptions
  /\ main = "idle"
  /\ invocations = <<>> /\ started = <<>>
  /\ pending = {} /\ running = {} /\ alive = {} /\ complete = {}
  /\ code = <<>> /\ printed = <<>> /\ exit_code = 0

Begin(commands) ==
  /\ main = "idle"
  /\ main' = IF jobs = 1 THEN "one" ELSE "collect"
  /\ invocations' = commands
  /\ UNCHANGED <<options, procs, pending, polls, printed, exit_code>>

\* The numbers of the next n processes.
Following(n) == (Len(started) + 1) .. (Len(started) + n)

\* Process.start for the commands of invocations[:k]; invocations[k:] are left.
Start(k) ==
  LET first == UpTo(invocations, k)
  IN  /\ started' = started \o first
      /\ pending' = pending \cup Following(Len(first))
      /\ running' = running \cup Following(Len(first))
      /\ code'    = code \o [i \in DOMAIN first |-> 0]
      /\ printed' = printed \o [i \in DOMAIN first |-> 0]
      /\ invocations' = From(invocations, k)

\* Those of ps are printed.
Show(ps) == printed' = [p \in DOMAIN printed |-> IF p \in ps THEN printed[p] + 1 ELSE printed[p]]

\* Faulty variant: the code of the process that is collected last counts.
Report_Last(ps) ==
  /\ Show(ps)
  /\ IF ps = {} THEN UNCHANGED exit_code ELSE exit_code' \in {code[p] : p \in ps}

\* The outputs are printed, and the codes go into a maximum, which a negative one leaves
\* as it is.
Report(ps) ==
  /\ Show(ps)
  /\ exit_code' \in {exit_code} \cup {code[p] : p \in ps}
  /\ exit_code' >= exit_code /\ \A p \in ps : exit_code' >= code[p]

\* A process ends.
End(p) ==
  /\ p \in running
  /\ running' = running \ {p}
  /\ \E c \in Codes : code' = [code EXCEPT ![p] = c]
  /\ UNCHANGED <<options, main, invocations, started, pending, polls, printed, exit_code>>
-----------------------------------------------------------------------------
\* One job: start it, wait for its end, print.
StartOne ==
  /\ main = "one" /\ invocations # <<>> /\ pending = {}
  /\ Start(1)
  /\ UNCHANGED <<options, main, polls, exit_code>>

FinishOne ==
  /\ main = "one" /\ pending # {} /\ pending \cap running = {}
  /\ Report(pending)
  /\ pending' = {}
  /\ UNCHANGED <<options, main, invocations, procs, polls>>

\* Several jobs: the processes are polled in their order, and may end in between.
Unpolled == pending \ (alive \cup complete)

Poll ==
  /\ main = "collect"
  /\ \E p \in Unpolled :
       /\ \A q \in Unpolled : p <= q
       /\ IF p \in running THEN alive' = alive \cup {p} /\ UNCHANGED complete
          ELSE complete' = complete \cup {p} /\ UNCHANGED alive
  /\ UNCHANGED <<options, main, invocations, procs, pending, printed, exit_code>>

\* Exactly those found complete are printed.
Collect ==
  /\ main = "collect" /\ (invocations # <<>> \/ pending # {}) /\ Unpolled = {}
  /\ Report(complete) /\ pending' = pending \ complete
  /\ alive' = {} /\ complete' = {}
  /\ main' = "schedule"
  /\ UNCHANGED <<options, invocations, procs>>

Capacity_NoMinimum(l) ==
  LET room == jobs - Cardinality(pending)
      left == Larger(max_load_average - l, 0)
  IN  IF max_load_average > 0 /\ left < 2 * room THEN left \div 2 ELSE room

\* The room there is, cut by the load, but one at least if nothing is running.
Capacity(l) ==
  LET room == jobs - Cardinality(pending)
      left == Larger(max_load_average - l, 0)
  IN  IF max_load_average = 0 \/ left >= 2 * room THEN room
      ELSE IF left \div 2 = 0 /\ pending = {} THEN 1
      ELSE left \div 2

Schedule ==
  /\ main = "schedule"
  /\ \E l \in Loads : Start(Capacity(l))
  /\ main' = "collect"
  /\ UNCHANGED <<options, polls, exit_code>>

\* Popen raises at one of the commands: those before it run, nothing catches it, and the
\* processes in flight are left alone.
StartRaises ==
  /\ \/ main = "one" /\ invocations # <<>> /\ pending = {} /\ Start(0)
     \/ main = "schedule" /\ \E l \in Loads :
          \E n \in 0 .. (Len(UpTo(invocations, Capacity(l))) - 1) : Start(n)
  /\ main' = "crashed"
  /\ UNCHANGED <<options, polls, exit_code>>

\* The output of p cannot be decoded or formatted: those before it were printed.
PrintRaises ==
  /\ main = "one" \/ (main = "collect" /\ Unpolled = {})
  /\ LET ended == IF main = "one" THEN pending \ running ELSE complete
     IN  \E p \in ended :
           LET before == {q \in ended : q < p}
           IN  Report(before) /\ pending' = pending \ (before \cup {p})
  /\ alive' = {} /\ complete' = {}
  /\ main' = "crashed"
  /\ UNCHANGED <<options, invocations, procs>>

Raise == StartRaises \/ PrintRaises

Return ==
  /\ main \in {"one", "collect"} /\ invocations = <<>> /\ pending = {}
  /\ main' = "returned"
  /\ UNCHANGED <<options, invocations, procs, pending, polls, printed, exit_code>>

execute == StartOne \/ FinishOne \/ Poll \/ Collect \/ Schedule \/ Return
-----------------------------------------------------------------------------
\* Each command is either started or still to be, in its order: slicing the list, also with
\* the negative capacities that the code may come to, neither drops one nor doubles it.
NothingDropped ==
  [][main # "idle" => started' \o invocations' = started \o invocations]_vars

\* On return every process has ended and was printed exactly once, and the exit code is
\* the largest of the codes, so that 0 means that each process succeeded or was killed by
\* a signal.
ReturnReportsAll ==
  main = "returned" =>
    /\ invocations = <<>> /\ running = {}
    /\ \A p \in DOMAIN started : printed[p] = 1 /\ code[p] <= exit_code
    /\ exit_code = 0 \/ \E p \in DOMAIN started : code[p] = exit_code
=============================================================================
