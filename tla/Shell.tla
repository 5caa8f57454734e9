------------------------------- MODULE Shell -------------------------------
(***************************************************************************)
(* The file commands of the shell, src/src/shell/shell.c, on top of the    *)
(* virtual file system.  The shell keeps one piece of state, the working   *)
(* directory, as a path that it never checks again after cd: the table can *)
(* change under it.  A command line is executed in one go by the main      *)
(* loop, so a command is one step, however many calls of vfs.c it makes.   *)
(***************************************************************************)
EXTENDS Vfs

CONSTANTS
  PathMax,   \* PATH_MAX of shell.c
  ArgPath    \* what users type as a path, see Arg

ASSUME ShellAssumption ==
  /\ PathMax \in Nat
  /\ ArgPath \subseteq Path
  /\ string_len(Root) < PathMax

VARIABLES
  current_dir,  \* the working directory
  status        \* how the last command ended

shellVars == <<nodes, next_inode, ret, boot, current_dir, status>>

(* A typed path: nothing, ".", or components that either start with a slash
   or are taken relative to the working directory. *)
Arg ==
  [form : {"none", "dot"}, parts : {Root}] \cup
  [form : {"absolute"}, parts : ArgPath] \cup
  [form : {"relative"}, parts : {p \in ArgPath : Head(p) # Empty}]

Joined(dir, parts) == IF dir = Root THEN parts ELSE dir \o parts

Target(arg) ==
  CASE arg.form = "absolute" -> arg.parts
    [] arg.form = "relative" -> Joined(current_dir, arg.parts)
    [] OTHER -> current_dir

(* What does not fit the buffer of PATH_MAX characters is refused, not cut. *)
Resolves(arg) ==
  /\ arg.form # "none"
  /\ arg.form # "dot" => string_len(Target(arg)) < PathMax

Ends(how) == status' = how

-----------------------------------------------------------------------------

Unresolved(arg) ==
  /\ ~Resolves(arg)
  /\ Ends("invalid")
  /\ UNCHANGED <<nodes, next_inode, ret, current_dir>>

Cd(arg) ==
  \/ Unresolved(arg)
  \/ /\ Resolves(arg)
     /\ \/ /\ wnu_vfs_is_dir(nodes, Target(arg))
           /\ current_dir' = Target(arg)
           /\ Ends("ok")
        \/ /\ ~wnu_vfs_is_dir(nodes, Target(arg))
           /\ Ends("failed")
           /\ UNCHANGED current_dir
     /\ UNCHANGED <<nodes, next_inode, ret>>

(* A command that is one call of vfs.c on the resolved path and reports its
   result. *)
OneCall(arg, call) ==
  \/ Unresolved(arg)
  \/ /\ Resolves(arg)
     /\ call
     /\ Ends(IF ret'.ok THEN "ok" ELSE "failed")
     /\ UNCHANGED current_dir

Touch(arg) == OneCall(arg, wnu_vfs_create_file(Target(arg)))
Mkdir(arg) == OneCall(arg, wnu_vfs_create_dir(Target(arg)))
Rm(arg)    == OneCall(arg, wnu_vfs_delete(Target(arg)))
Cat(arg)   == OneCall(arg, wnu_vfs_read_file(Target(arg)))

(* write creates the file when nothing has that path and goes on whether or
   not that worked; only the result of the write counts. *)
Write(arg, text) ==
  \/ Unresolved(arg)
  \/ LET path  == Target(arg)
         fresh == ~wnu_vfs_exists(nodes, path) /\ CanCreate(nodes, path)
         after == IF fresh THEN Created(nodes, next_inode, "file", path)
                           ELSE nodes
     IN  /\ Resolves(arg)
         /\ fresh => next_inode <= MaxInode
         /\ next_inode' = IF fresh THEN next_inode + 1 ELSE next_inode
         /\ \/ /\ IsOpenable(after, path)
               /\ nodes' = Stored(after, path, 0, text)
               /\ Returns(TRUE, <<>>)
               /\ Ends("ok")
            \/ /\ ~IsOpenable(after, path)
               /\ nodes' = after
               /\ Returns(FALSE, <<>>)
               /\ Ends("failed")
         /\ UNCHANGED current_dir

ShellInit == Init /\ current_dir = Root /\ status = "ok"

BootFs == BootStep /\ UNCHANGED <<current_dir, status>>

Execute ==
  /\ Booted
  /\ UNCHANGED boot
  /\ \E arg \in Arg :
       \/ Cd(arg)
       \/ Touch(arg)
       \/ Mkdir(arg)
       \/ Rm(arg)
       \/ Cat(arg)
       \/ \E text \in TextArg : Write(arg, text)

ShellNext == BootFs \/ Execute

ShellSpec == ShellInit /\ [][ShellNext]_shellVars

-----------------------------------------------------------------------------
(* Properties. *)

(* The state of the shell has its types, and the working directory fits its
   buffer: a path is refused where it would have to be cut. *)
ShellTypeOK ==
  /\ TypeOK
  /\ current_dir \in Path /\ string_len(current_dir) < PathMax
  /\ status \in {"ok", "failed", "invalid"}

CwdThere == wnu_vfs_is_dir(nodes, current_dir)

(* The working directory can vanish (rm . works when it is empty), and a file
   can even be created under its name.  Nothing can be created through the
   stale path then: the table has no node below a working directory that is
   not a directory of the table. *)
NothingBelowStaleCwd ==
  ~CwdThere => \A i \in Used(nodes) : ~IsBelow(current_dir, nodes[i].path)

(* The working directory is pulled away only by removing that very directory:
   its parent is still there afterwards, so no rm of an ancestor does it. *)
CwdLostOnlyByItself ==
  [][CwdThere /\ ~CwdThere' =>
       /\ current_dir' = current_dir
       /\ wnu_vfs_is_dir(nodes', parent_path(current_dir))]_shellVars

(* A command that reports a failure has changed nothing: in particular write,
   which creates and then writes, never leaves the created file behind when
   the second call is refused. *)
FailureIsClean ==
  [][status' # "ok" =>
       UNCHANGED <<nodes, next_inode, current_dir>>]_shellVars

(* A name just created by touch or mkdir in a directory is printed by the next
   ls of that directory, unless it is empty or the directory is "/" spelled
   with two slashes. *)
NewEntriesAreListed ==
  [][\A p \in {nodes'[i].path : i \in Used(nodes')}
              \ {nodes[i].path : i \in Used(nodes)} :
       Last(p) # Empty /\ ~(Len(p) = 2 /\ Head(p) = Empty) =>
         p \in Listed(nodes', parent_path(p))]_shellVars
=============================================================================
