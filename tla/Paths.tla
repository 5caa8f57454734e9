------------------------------- MODULE Paths -------------------------------
(***************************************************************************)
(* Absolute path names as vfs.c and shell.c treat them.  A C string that   *)
(* starts with '/' is the sequence of the components between its slashes:  *)
(* "/a/b" is <<a, b>>, "/" is <<Empty>>, "/a/" is <<a, Empty>> and "//a"   *)
(* is <<Empty, a>>.  The code never normalises a path, so two spellings of *)
(* what a reader takes for one directory are two different sequences.      *)
(***************************************************************************)
EXTENDS Integers, SequencesExt

CONSTANTS
  Name,      \* the non-empty components
  Empty,     \* the empty component: what stands between two slashes
  NameLen,   \* the number of characters of a name
  MaxName    \* WNU_VFS_MAX_NAME, the size of the path buffer of a node

ASSUME PathsAssumption ==
  /\ Empty \notin Name
  /\ NameLen \in [Name -> Nat \ {0}]
  /\ MaxName \in Nat

Component == Name \cup {Empty}

Path == Seq(Component) \ {<<>>}

Root == <<Empty>>

(* The characters of the C string, by component and place: a slash before the
   name, which has NameLen characters. *)
Chars(path) ==
  UNION {{k} \X (0 .. IF path[k] = Empty THEN 0 ELSE NameLen[path[k]]) :
           k \in DOMAIN path}

string_len(path) == Cardinality(Chars(path))

(* Callers pass non-null strings that start with '/'; the length is what is
   left of the test. *)
valid_path(path) == string_len(path) < MaxName

(* Everything before the last slash, "/" when that slash is the first
   character. *)
parent_path(path) == IF Len(path) = 1 THEN Root ELSE Front(path)

(* string_starts_with(child, path) and a '/' right after the prefix. *)
IsBelow(path, child) == IsStrictPrefix(path, child)

(* Mutant of is_direct_child: without the special case for "/". *)
is_direct_child_without_root_case(parent, child) ==
  /\ child # parent
  /\ Last(child) # Empty
  /\ IsBelow(parent, child) /\ Len(child) = Len(parent) + 1

(* What ls and tree take for an entry of a directory.  "/" is special: its
   children are the paths with one slash only. *)
is_direct_child(parent, child) ==
  /\ child # parent
  /\ Last(child) # Empty
  /\ \/ parent = Root /\ Len(child) = 1
     \/ parent # Root /\ IsBelow(parent, child) /\ Len(child) = Len(parent) + 1
=============================================================================
