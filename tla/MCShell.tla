------------------------------ MODULE MCShell ------------------------------
(* A small instance of Shell for TLC, once under the commands of a user and once
   under any calls of vfs.c that change the shape of the tree. *)
EXTENDS Shell

CONSTANTS
  a, b, zero, x,
  CommandInode  \* no command follows the creation of this inode

MCNames == {a, b}

(* "b" is a two-character name, so that the length limit bites inside the tree. *)
MCNameLen == [n \in {a, b} |-> IF n = b THEN 2 ELSE 1]

TypedPaths == {Root, <<a>>, <<a, a>>, <<b>>, <<Empty, a>>}

(* "/", "/a", "//", "/a/", "//a", "/a/a", "/b", "/a/a/a", "/a//a", "/b/b" (too long) *)
TreePaths ==
  {Root, <<a>>, <<Empty, Empty>>, <<a, Empty>>, <<Empty, a>>, <<a, a>>, <<b>>,
   <<a, a, a>>, <<a, Empty, a>>, <<b, b>>}

Texts == {<<x>>, <<x, x>>}

ShellBoot == << [call |-> "mkdir", path |-> <<a>>, text |-> <<>>] >>

VARIABLE caller

all == <<caller, shellVars>>

Commands ==
  /\ caller = "user"
  /\ ShellNext
  /\ next_inode' <= CommandInode + 1
  /\ UNCHANGED caller

TreeCall(path) ==
  \/ wnu_vfs_create_file(path)
  \/ wnu_vfs_create_dir(path)
  \/ wnu_vfs_delete(path)

Calls ==
  /\ caller = "kernel"
  /\ \/ BootStep
     \/ Booted /\ UNCHANGED boot /\ (\E path \in PathArg : TreeCall(path))
  /\ UNCHANGED <<caller, current_dir, status>>

BothInit == caller \in {"user", "kernel"} /\ ShellInit

BothSpec == BothInit /\ [][Commands \/ Calls]_all
=============================================================================
