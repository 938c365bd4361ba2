------------------------------ MODULE IwyuTool ------------------------------
(***************************************************************************)
(* main of tools/iwyu_tool.py: the compilation database is read, its paths *)
(* are made canonical, it is cut down to the selection of the command      *)
(* line, every entry becomes an invocation, and execute (IwyuExecute) runs *)
(* them.                                                                   *)
(*                                                                         *)
(* A path is a sequence of characters. The file system is external: an     *)
(* entry says what realpath makes of its file, joined with its directory   *)
(* or taken alone, and OnDisk which paths exist.                           *)
(***************************************************************************)
EXTENDS IwyuExecute, SequencesExt, Subsequence

CONSTANTS Databases,    \* sequences of entries
          Selections,   \* the canonical paths of the sources named, sequences
          OnDisk,       \* the paths that exist
          ExtraArgs,    \* the arguments after --
          Wrappers,     \* KNOWN_COMPILER_WRAPPERS
          MsvcDrivers,  \* the compilers named like cl.exe or clang-cl
          Iwyu          \* IWYU_EXECUTABLE

\* What realpath gives: from the root, and without a separator at the end but for the root.
Paths == {p \in Seq(STRING) : p # <<>> /\ p[1] = "/" /\ (p[Len(p)] = "/" => Len(p) = 1)}

Entries == [file : Seq(STRING), abs : BOOLEAN, joined : Paths, alone : Paths,
            has_directory : BOOLEAN, has_command : BOOLEAN, command : Seq(STRING)]

ASSUME ToolAssumption ==
  /\ \A db \in Databases : db \in Seq(Entries)
  /\ \A paths \in Selections : paths \in Seq(Paths)

VARIABLES phase,        \* where main is
          database,       \* history: the database as it was read
          compilation_db,
          selection,
          sliced,         \* how many of its paths slice_compilation_db is through with
          exit_status   \* of the script; 0 until it has one

tool == <<phase, database, compilation_db, selection, sliced, exit_status>>
idle == <<invocations, procs, pending, polls, printed, exit_code, options>>
-----------------------------------------------------------------------------
is_subpath_of_Prefix(path, parent) == IsPrefix(parent, path)

\* The parent is a prefix, and what follows it, but for the separator it may end in,
\* begins with a separator.
is_subpath_of(path, parent) ==
  LET stripped == IF parent # <<>> /\ Last(parent) = "/" THEN Front(parent) ELSE parent
  IN  \/ path = parent
      \/ IsPrefix(parent, path) /\ path[Len(stripped) + 1] = "/"

\* Relative files are joined with the directory, if there is one; all are canonicalised.
fixup_compilation_db(db) ==
  [i \in DOMAIN db |->
     [db[i] EXCEPT !.file = IF db[i].has_directory /\ ~db[i].abs THEN db[i].joined ELSE db[i].alone]]

\* The entries at or below a path, in their order.
found(db, path) == Pick(db, {i \in DOMAIN db : is_subpath_of(db[i].file, path)})

Unwrapped(command) ==
  IF command # <<>> /\ Head(command) \in Wrappers THEN Tail(command) ELSE command

\* No command at all, one that is empty or a wrapper alone, and no directory raise.
Convertible(entry) ==
  entry.has_command /\ Unwrapped(entry.command) # <<>> /\ entry.has_directory

\* The compiler becomes iwyu; the driver mode goes before the extra arguments.
from_compile_command(entry) ==
  LET command == Unwrapped(entry.command)
      mode    == IF Head(command) \in MsvcDrivers THEN <<"--driver-mode=cl">> ELSE <<>>
  IN  [command |-> <<Iwyu>> \o mode \o ExtraArgs \o Tail(command), file |-> entry.file]
-----------------------------------------------------------------------------
ToolInit ==
  /\ Init
  /\ phase = "start"
  /\ database = <<>> /\ compilation_db = <<>> /\ sliced = 0 /\ exit_status = 0
  /\ selection \in Selections

Finish(status) == phase' = "ended" /\ exit_status' = status

\* No executable, or the database cannot be opened (return 1), or is no JSON (uncaught).
Refuse ==
  /\ phase = "start"
  /\ Finish(1)
  /\ UNCHANGED <<database, compilation_db, selection, sliced, main, idle>>

Read ==
  /\ phase = "start"
  /\ database' \in Databases
  /\ IF selection = <<>>
     THEN compilation_db' = fixup_compilation_db(database') /\ phase' = "convert"
     ELSE compilation_db' = <<>> /\ phase' = "slice"
  /\ UNCHANGED <<selection, sliced, exit_status, main, idle>>

\* One path of the selection: what is not on disk is left out.
slice_compilation_db ==
  /\ phase = "slice"
  /\ LET path == selection[sliced + 1]
     IN  compilation_db' = IF path \in OnDisk
                           THEN compilation_db \o found(fixup_compilation_db(database), path)
                           ELSE compilation_db
  /\ sliced' = sliced + 1
  /\ phase' = IF sliced' = Len(selection) THEN "convert" ELSE "slice"
  /\ UNCHANGED <<database, selection, exit_status, main, idle>>

Convert ==
  /\ phase = "convert"
  /\ IF \A i \in DOMAIN compilation_db : Convertible(compilation_db[i])
     THEN /\ Begin([i \in DOMAIN compilation_db |-> from_compile_command(compilation_db[i])])
          /\ phase' = "execute" /\ UNCHANGED exit_status
     ELSE Finish(1) /\ UNCHANGED <<main, idle>>
  /\ UNCHANGED <<database, compilation_db, selection, sliced>>

Execute ==
  /\ phase = "execute"
  /\ execute
  /\ UNCHANGED tool

Fail ==
  /\ phase = "execute"
  /\ Raise
  /\ UNCHANGED tool

\* sys.exit(main()), and 1 for an uncaught exception.
Exit ==
  /\ phase = "execute" /\ main \in {"returned", "crashed"}
  /\ Finish(IF main = "returned" THEN exit_code ELSE 1)
  /\ UNCHANGED <<database, compilation_db, selection, sliced, main, idle>>

\* A process ends, and may well do so after the script.
ProcessEnds == (\E p \in running : End(p)) /\ UNCHANGED tool

Script   == Refuse \/ Read \/ slice_compilation_db \/ Convert \/ Execute \/ Exit
ToolNext == Script \/ Fail \/ ProcessEnds

\* The script is scheduled, and each process ends some time.
ToolSpec ==
  /\ ToolInit /\ [][ToolNext]_<<vars, tool>>
  /\ WF_<<vars, tool>>(Script) /\ WF_<<vars, tool>>(ProcessEnds)
-----------------------------------------------------------------------------
\* The directories that a path is in, from the parent up: what is before each separator.
Parents(path) ==
  {SubSeq(path, 1, i - 1) : i \in {j \in 2 .. Len(path) : path[j] = "/"}}
    \cup IF Len(path) = 1 THEN {} ELSE {<<"/">>}

\* Is the file one of the selection: equal to or inside a path that exists?
InSelection(file) ==
  selection = <<>> \/ \E i \in DOMAIN selection :
    selection[i] \in OnDisk /\ selection[i] \in Parents(file) \cup {file}

\* Separators decide what is inside a directory, not characters alone (lines 129-131:
\* "/a/b/c/file is not a parent of /a/b/c/file.cpp, but /a/b/c and /a/b/c/ are"). When the
\* script ends with status 0, iwyu ran for every file of the selection, for no other, and
\* each process was reported. How often a file runs that is listed twice, or is below two
\* of the paths, is left open.
RunsSelection ==
  phase = "ended" /\ exit_status = 0 =>
    /\ {c.file : c \in ToSet(started)} =
         {e.file : e \in {d \in ToSet(fixup_compilation_db(database)) : InSelection(d.file)}}
    /\ \A p \in DOMAIN started : printed[p] = 1

\* With one job or more the script ends, with any load of the machine; with none, or a
\* negative number, some command never starts (Capacity) and it need not.
ToolEnds == jobs >= 1 => <>(phase = "ended")
=============================================================================
