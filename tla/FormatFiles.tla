---------------------------- MODULE FormatFiles -----------------------------
(***************************************************************************)
(* Which files tools/run-clang-format.py formats: the patterns of the      *)
(* ignore file and of the command line, and the walk over the arguments.   *)
(*                                                                         *)
(* A path is a sequence of names. A glob pattern is the set of the paths   *)
(* it matches ("*" matches "/" too, so it may be any set).                 *)
(***************************************************************************)
EXTENDS Naturals, Sequences, FiniteSets, SequencesExt

CONSTANTS Plain,        \* the plain files of the tree
          Dirs,         \* its directories
          Extensions,   \* the names of files that carry a listed extension
          IgnoreFiles,  \* contents of .clang-format-ignore: sequences of lines
          Excludes,     \* what --exclude may be given: sequences of patterns
          Arguments     \* the arguments: sequences of paths

\* A tree: finite, with paths that are sequences of names, and only directories on the way
\* from a directory down to what is in it.
Names == UNION {{p[i] : i \in DOMAIN p} : p \in Plain \cup Dirs}

Tree ==
  /\ IsFiniteSet(Plain) /\ IsFiniteSet(Dirs) /\ Plain \cap Dirs = {}
  /\ Plain \cup Dirs \subseteq Seq(Names)
  /\ \A d \in Dirs, p \in Plain \cup Dirs :
       IsStrictPrefix(d, p) => \A k \in Len(d)..(Len(p) - 1) : SubSeq(p, 1, k) \in Dirs

ArgumentLists == \A given \in Arguments : given \in Seq({given[i] : i \in DOMAIN given})

VARIABLES files,        \* the arguments
          recursive,
          exclude,      \* the patterns, in order
          next,         \* the argument the loop is at
          todo,         \* directories os.walk is still to visit
          out

vars == <<files, recursive, exclude, next, todo, out>>
-----------------------------------------------------------------------------
\* A line is a comment, is empty but for spaces, or is a pattern. A file that does not
\* exist is as good as an empty one.
excludes_from_file(lines) ==
  LET patterns == SelectSeq(lines, LAMBDA line : line.kind = "pattern")
  IN  [i \in DOMAIN patterns |-> patterns[i].paths]

Excluded(path) == \E i \in DOMAIN exclude : path \in exclude[i]

Children(d, S) == {p \in S : p # <<>> /\ Front(p) = d}

Init ==
  /\ files \in Arguments
  /\ recursive \in BOOLEAN
  /\ \E lines \in IgnoreFiles, given \in Excludes : exclude = excludes_from_file(lines) \o given
  /\ next = 1
  /\ todo = <<>>
  /\ out = <<>>

\* A directory is walked when the search is recursive; anything else is taken as it is,
\* without a look at the patterns or at the extension.
TakeArgument ==
  /\ next <= Len(files) /\ todo = <<>>
  /\ IF recursive /\ files[next] \in Dirs
     THEN todo' = <<files[next]>> /\ UNCHANGED out
     ELSE out' = Append(out, files[next]) /\ UNCHANGED todo
  /\ next' = next + 1
  /\ UNCHANGED <<files, recursive, exclude>>

Walk_LastPattern ==
  /\ todo # <<>>
  /\ LET d       == Head(todo)
         Dropped(p) == exclude # <<>> /\ p \in Last(exclude)
     IN  /\ out' = out \o SetToSeq({p \in Children(d, Plain) :
                                       ~Dropped(p) /\ Last(p) \in Extensions})
         /\ todo' = SetToSeq({p \in Children(d, Dirs) : ~Excluded(p)}) \o Tail(todo)
  /\ UNCHANGED <<files, recursive, exclude, next>>

\* One turn of os.walk. Each pattern trims dnames in place, so that the walk does not go
\* into what was trimmed, and the files of the directory.
Walk ==
  /\ todo # <<>>
  /\ LET d      == Head(todo)
         dnames == {p \in Children(d, Dirs) : ~Excluded(p)}
         fpaths == {p \in Children(d, Plain) : ~Excluded(p)}
     IN  /\ out' = out \o SetToSeq({p \in fpaths : Last(p) \in Extensions})
         /\ todo' = SetToSeq(dnames) \o Tail(todo)
  /\ UNCHANGED <<files, recursive, exclude, next>>

Next == TakeArgument \/ Walk
Spec == Init /\ [][Next]_vars
-----------------------------------------------------------------------------
Done == next > Len(files) /\ todo = <<>>

\* Paths strictly below a, down to f itself.
Between(a, f) == {SubSeq(f, 1, k) : k \in (Len(a) + 1)..Len(f)}

Lists(a, f) ==
  IF recursive /\ a \in Dirs
  THEN /\ f \in Plain /\ IsStrictPrefix(a, f) /\ Last(f) \in Extensions
       /\ \A p \in Between(a, f) : ~Excluded(p)
  ELSE f = a

\* What is formatted, and how many times: a file is listed once for each argument that is
\* the file or a directory it is found below, with a listed extension and no excluded
\* directory on the way. (Overlapping arguments list it more than once: with a pool and
\* --in-place two processes may then write it at the same time.)
ListsExactly ==
  Done => \A f \in Plain \cup Dirs :
    Cardinality({k \in DOMAIN out : out[k] = f})
      = Cardinality({i \in DOMAIN files : Lists(files[i], f)})
=============================================================================
