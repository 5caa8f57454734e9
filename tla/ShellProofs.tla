---------------------------- MODULE ShellProofs ----------------------------
(***************************************************************************)
(* Theorems about the file commands of the shell, for every table, every   *)
(* length limit and everything users type, and about its mount command,    *)
(* for every disk, every cluster size and every length of a file.  They    *)
(* rest on the lemmas about tables of VfsProofs: a command is a few of the *)
(* functions of vfs.c in a row, and the working directory is any path.     *)
(***************************************************************************)
EXTENDS Fat32, VfsProofs

(* What the functions of vfs.c leave of the directories. *)

(* Nothing is taken away. *)
KeepsDirs(ns, ms) ==
  \A q : wnu_vfs_is_dir(ns, q) => wnu_vfs_is_dir(ms, q)

LEMMA CreatedKeepsDirs ==
  ASSUME NEW ns, NEW next, WellFormed(ns, next),
         NEW type \in {"file", "dir"}, NEW path \in Path, CanCreate(ns, path)
  PROVE  /\ KeepsDirs(ns, Created(ns, next, type, path))
         /\ type = "file" => IsOpenable(Created(ns, next, type, path), path)
<1>. DEFINE new == FreeSlot(ns)
            ms  == Created(ns, next, type, path)
<1>1. new \in Slot /\ new \notin Used(ns)
  BY FreeSlotIsFree DEF CanCreate
<1>2. /\ ms[new].used /\ ms[new].type = type /\ ms[new].path = path
      /\ \A i \in Slot \ {new} : ms[i] = ns[i]
  BY <1>1 DEF Created, WellFormed
<1>3. new \in Used(ms) /\ \A i \in Used(ns) : i \in Used(ms) /\ ms[i] = ns[i]
  BY <1>1, <1>2 DEF Used
<1>4. UniquePaths(ns) /\ UniquePaths(ms)
  BY CreatedKeepsTable DEF WellFormed
<1>. HIDE DEF ms, new
<1>5. KeepsDirs(ns, ms)
  BY <1>3, <1>4, DirIff DEF KeepsDirs
<1>6. ASSUME type = "file" PROVE IsOpenable(ms, path)
  <2>1. wnu_vfs_exists(ms, path) /\ find_node(ms, path) \in Used(ms)
        /\ ms[find_node(ms, path)].path = path
    BY <1>2, <1>3, FindNode
  <2>2. find_node(ms, path) = new
    BY <1>2, <1>3, <1>4, <2>1 DEF UniquePaths
  <2>. QED
    BY <1>2, <1>6, <2>1, <2>2 DEF IsOpenable, wnu_vfs_is_file, HasType, CanCreate
<1>. QED
  BY <1>5, <1>6 DEF ms

LEMMA StoredKeepsDirs ==
  ASSUME NEW ns, NEW next, WellFormed(ns, next),
         NEW path \in Path, IsOpenable(ns, path),
         NEW from \in 0 .. MaxData, NEW text \in Seq(Byte)
  PROVE  KeepsDirs(ns, Stored(ns, path, from, text))
<1>. DEFINE ms == Stored(ns, path, from, text)
<1>1. find_node(ns, path) \in Slot /\ ns \in [Slot -> Node]
  BY FindNode, UsedInSlot DEF IsOpenable, wnu_vfs_is_file, HasType, WellFormed
<1>2. \A i \in Slot : /\ ms[i].used = ns[i].used /\ ms[i].path = ns[i].path
                      /\ ms[i].type = ns[i].type
  BY <1>1 DEF Stored, Node
<1>3. UniquePaths(ns) /\ UniquePaths(ms)
  BY StoredKeepsTable DEF WellFormed
<1>. HIDE DEF ms
<1>4. \A i \in Used(ns) : i \in Used(ms) /\ ms[i].path = ns[i].path
                          /\ ms[i].type = ns[i].type
  BY <1>2 DEF Used
<1>5. KeepsDirs(ns, ms)
  BY <1>3, <1>4, DirIff DEF KeepsDirs
<1>. QED
  BY <1>5 DEF ms

LEMMA DeletedKeepsOtherDirs ==
  ASSUME NEW ns, NEW next, WellFormed(ns, next),
         NEW path \in Path, CanDelete(ns, path)
  PROVE  \A q : wnu_vfs_is_dir(ns, q) /\ q # path =>
                  wnu_vfs_is_dir(Deleted(ns, path), q)
<1>. DEFINE gone == find_node(ns, path)
            ms   == Deleted(ns, path)
<1>1. gone \in Slot /\ ns[gone].path = path /\ ns \in [Slot -> Node]
  BY FindNode, UsedInSlot DEF CanDelete, WellFormed
<1>2. \A i \in Slot \ {gone} : ms[i] = ns[i]
  BY <1>1 DEF Deleted
<1>3. UniquePaths(ns) /\ UniquePaths(ms)
  BY DeletedKeepsTable DEF WellFormed
<1>. HIDE DEF ms, gone
<1>4. \A i \in Used(ns) : i # gone => i \in Used(ms) /\ ms[i] = ns[i]
  BY <1>2 DEF Used
<1>5. \A q : wnu_vfs_is_dir(ns, q) /\ q # path => wnu_vfs_is_dir(ms, q)
  BY <1>1, <1>3, <1>4, DirIff
<1>. QED
  BY <1>5 DEF ms

-----------------------------------------------------------------------------
(* The commands. *)

ShellIInv ==
  /\ IInv
  /\ current_dir \in Path /\ string_len(current_dir) < PathMax
  /\ status \in {"ok", "failed", "invalid"}
  /\ ~Booted => status = "ok"

(* What every command does, and the calls of wnu_vfs_init before them. *)
Outcome ==
  /\ Good'
  /\ current_dir' \in Path /\ string_len(current_dir') < PathMax
  /\ status' \in {"ok", "failed", "invalid"}
  /\ status' # "ok" => UNCHANGED <<nodes, next_inode, current_dir>>
  /\ \/ /\ KeepsDirs(nodes, nodes')
        /\ UNCHANGED current_dir \/ wnu_vfs_is_dir(nodes', current_dir')
     \/ /\ UNCHANGED current_dir
        /\ \E path \in Path : CanDelete(nodes, path) /\ nodes' = Deleted(nodes, path)

LEMMA SameKeepsDirs == \A ns : KeepsDirs(ns, ns)
  BY DEF KeepsDirs

LEMMA CreateKeepsDirs ==
  ASSUME Good, NEW type \in {"file", "dir"}, NEW path \in Path,
         Create(type, path)
  PROVE  /\ KeepsDirs(nodes, nodes')
         /\ ret'.ok \in BOOLEAN
         /\ ~ret'.ok => UNCHANGED <<nodes, next_inode>>
<1>1. CASE CanCreate(nodes, path) /\ Returns(TRUE, <<>>)
           /\ nodes' = Created(nodes, next_inode, type, path)
  BY <1>1, CreatedKeepsDirs DEF Good, Returns
<1>2. CASE Refuses
  BY <1>2, SameKeepsDirs DEF Refuses, Returns
<1>. QED
  BY <1>1, <1>2 DEF Create

LEMMA WriteFileKeepsDirs ==
  ASSUME Good, NEW path \in Path, NEW text \in Seq(Byte),
         wnu_vfs_write_file(path, text)
  PROVE  KeepsDirs(nodes, nodes')
<1>1. 0 \in 0 .. MaxData
  BY VfsAssumption
<1>2. CASE IsOpenable(nodes, path) /\ nodes' = Stored(nodes, path, 0, text)
  BY <1>1, <1>2, StoredKeepsDirs DEF Good
<1>3. CASE Refuses
  BY <1>3, SameKeepsDirs DEF Refuses
<1>. QED
  BY <1>2, <1>3 DEF wnu_vfs_write_file

LEMMA DeleteKeepsMost ==
  ASSUME NEW path \in Path, wnu_vfs_delete(path)
  PROVE  /\ ret'.ok \in BOOLEAN
         /\ ~ret'.ok => UNCHANGED <<nodes, next_inode>>
         /\ \/ KeepsDirs(nodes, nodes')
            \/ CanDelete(nodes, path) /\ nodes' = Deleted(nodes, path)
<1>1. CASE CanDelete(nodes, path) /\ nodes' = Deleted(nodes, path)
           /\ Returns(TRUE, <<>>)
  BY <1>1 DEF Returns
<1>2. CASE Refuses
  BY <1>2, SameKeepsDirs DEF Refuses, Returns
<1>. QED
  BY <1>1, <1>2 DEF wnu_vfs_delete

LEMMA ReadKeepsAll ==
  ASSUME NEW path \in Path, wnu_vfs_read_file(path)
  PROVE  /\ ret'.ok \in BOOLEAN
         /\ UNCHANGED <<nodes, next_inode>>
         /\ KeepsDirs(nodes, nodes')
<1>1. CASE UNCHANGED <<nodes, next_inode>>
           /\ Returns(TRUE, Content(nodes[find_node(nodes, path)]))
  BY <1>1, SameKeepsDirs DEF Returns
<1>2. CASE Refuses
  BY <1>2, SameKeepsDirs DEF Refuses, Returns
<1>. QED
  BY <1>1, <1>2 DEF wnu_vfs_read_file

LEMMA TargetIsPath ==
  ASSUME ShellIInv, NEW arg \in Arg, Resolves(arg)
  PROVE  Target(arg) \in Path /\ string_len(Target(arg)) < PathMax
<1>1. arg.form \in {"none", "dot"} \/ arg.parts \in Path
  BY ShellAssumption DEF Arg
<1>2. CASE arg.form = "dot"
  BY <1>2 DEF Target, ShellIInv
<1>3. CASE arg.form # "dot"
  <2>1. arg.form \in {"absolute", "relative"} /\ arg.parts \in Path
    BY <1>1, <1>3 DEF Arg, Resolves
  <2>2. Joined(current_dir, arg.parts) \in Path
    <3>1. current_dir \in Seq(Component) /\ arg.parts \in Seq(Component)
          /\ Len(current_dir) # 0
      BY <2>1, EmptySeq DEF ShellIInv, Path
    <3>2. current_dir \o arg.parts \in Seq(Component)
          /\ Len(current_dir \o arg.parts) = Len(current_dir) + Len(arg.parts)
      BY <3>1
    <3>3. current_dir \o arg.parts # <<>>
      BY <3>1, <3>2
    <3>. QED
      BY <2>1, <3>2, <3>3 DEF Joined, Path
  <2>. QED
    BY <1>3, <2>1, <2>2 DEF Target, Resolves
<1>. QED
  BY <1>2, <1>3

LEMMA UnresolvedOutcome ==
  ASSUME ShellIInv, NEW arg \in Arg, Unresolved(arg)
  PROVE  Outcome
  BY SameKeepsDirs DEF Unresolved, Ends, Outcome, ShellIInv, IInv, Good

LEMMA CdOutcome ==
  ASSUME ShellIInv, NEW arg \in Arg, Cd(arg)
  PROVE  Outcome
<1>1. CASE Unresolved(arg)
  BY <1>1, UnresolvedOutcome
<1>2. CASE Resolves(arg) /\ wnu_vfs_is_dir(nodes, Target(arg))
           /\ current_dir' = Target(arg) /\ Ends("ok")
           /\ UNCHANGED <<nodes, next_inode, ret>>
  BY <1>2, TargetIsPath, SameKeepsDirs DEF Ends, Outcome, ShellIInv, IInv, Good
<1>3. CASE Ends("failed") /\ UNCHANGED <<nodes, next_inode, ret, current_dir>>
  BY <1>3, SameKeepsDirs DEF Ends, Outcome, ShellIInv, IInv, Good
<1>. QED
  BY <1>1, <1>2, <1>3 DEF Cd

(* What is left to show of a command that is one call. *)
LEMMA OneCallOutcome ==
  ASSUME ShellIInv,
         Ends(IF ret'.ok THEN "ok" ELSE "failed"), UNCHANGED current_dir,
         Good',
         ret'.ok \in BOOLEAN,
         ~ret'.ok => UNCHANGED <<nodes, next_inode>>,
         \/ KeepsDirs(nodes, nodes')
         \/ \E path \in Path : CanDelete(nodes, path) /\ nodes' = Deleted(nodes, path)
  PROVE  Outcome
  BY DEF Ends, Outcome, ShellIInv

LEMMA CallsOutcome ==
  ASSUME ShellIInv, NEW arg \in Arg, Touch(arg) \/ Mkdir(arg) \/ Rm(arg) \/ Cat(arg)
  PROVE  Outcome
<1>1. Good /\ (Resolves(arg) => Target(arg) \in Path)
  BY TargetIsPath DEF ShellIInv, IInv
<1>2. CASE Touch(arg)
  BY <1>1, <1>2, UnresolvedOutcome, OneCallOutcome, CreateKeepsGood, CreateKeepsDirs
     DEF Touch, OneCall, wnu_vfs_create_file
<1>3. CASE Mkdir(arg)
  BY <1>1, <1>3, UnresolvedOutcome, OneCallOutcome, CreateKeepsGood, CreateKeepsDirs
     DEF Mkdir, OneCall, wnu_vfs_create_dir
<1>4. CASE Rm(arg)
  BY <1>1, <1>4, UnresolvedOutcome, OneCallOutcome, DeleteKeepsGood, DeleteKeepsMost
     DEF Rm, OneCall
<1>5. CASE Cat(arg)
  BY <1>1, <1>5, UnresolvedOutcome, OneCallOutcome, ReadKeepsGood, ReadKeepsAll
     DEF Cat, OneCall
<1>. QED
  BY <1>2, <1>3, <1>4, <1>5

(* A file that write has just created can be opened: the two calls agree on
   the length of a path and on what is a file. *)
LEMMA WriteOutcome ==
  ASSUME ShellIInv, NEW arg \in Arg, NEW text \in Seq(Byte), Write(arg, text)
  PROVE  Outcome
<1>1. CASE Unresolved(arg)
  BY <1>1, UnresolvedOutcome
<1>2. CASE ~Unresolved(arg)
  <2>. DEFINE path  == Target(arg)
              fresh == ~wnu_vfs_exists(nodes, path) /\ CanCreate(nodes, path)
              after == IF fresh THEN Created(nodes, next_inode, "file", path)
                                ELSE nodes
              next  == IF fresh THEN next_inode + 1 ELSE next_inode
  <2>1. path \in Path
    BY <1>2, TargetIsPath DEF Write
  <2>2. WellFormed(nodes, next_inode)
    BY DEF ShellIInv, IInv, Good
  <2>3. WellFormed(after, next) /\ KeepsDirs(nodes, after)
        /\ (fresh => IsOpenable(after, path))
    BY <2>1, <2>2, CreatedKeepsTable, CreatedKeepsDirs, SameKeepsDirs
  <2>4. /\ next_inode' = next
        /\ \/ /\ IsOpenable(after, path)
              /\ nodes' = Stored(after, path, 0, text)
              /\ Returns(TRUE, <<>>)
              /\ Ends("ok")
           \/ /\ ~IsOpenable(after, path)
              /\ nodes' = after
              /\ Returns(FALSE, <<>>)
              /\ Ends("failed")
        /\ UNCHANGED current_dir
    BY <1>2 DEF Write
  <2>5. current_dir \in Path /\ string_len(current_dir) < PathMax
    BY DEF ShellIInv
  <2>. HIDE DEF path, after, next
  <2>6. CASE IsOpenable(after, path) /\ nodes' = Stored(after, path, 0, text)
             /\ Returns(TRUE, <<>>) /\ Ends("ok")
    <3>1. 0 \in 0 .. MaxData
      BY VfsAssumption
    <3>2. WellFormed(nodes', next) /\ KeepsDirs(after, nodes')
      BY <2>1, <2>3, <2>6, <3>1, StoredKeepsTable, StoredKeepsDirs
    <3>3. KeepsDirs(nodes, nodes')
      BY <2>3, <3>2 DEF KeepsDirs
    <3>. QED
      BY <2>4, <2>5, <2>6, <3>2, <3>3 DEF Outcome, Good, Returns, Result, Ends
  <2>7. CASE ~IsOpenable(after, path) /\ nodes' = after
             /\ Returns(FALSE, <<>>) /\ Ends("failed")
    <3>1. ~fresh
      BY <2>3, <2>7
    <3>2. after = nodes /\ next = next_inode
      BY <3>1 DEF after, next
    <3>. QED
      BY <2>2, <2>4, <2>5, <2>7, <3>2, SameKeepsDirs
         DEF Outcome, Good, Returns, Result, Ends
  <2>. QED
    BY <2>4, <2>6, <2>7
<1>. QED
  BY <1>1, <1>2


LEMMA ExecuteOutcome ==
  ASSUME ShellIInv, Execute
  PROVE  Outcome
<1>1. PICK arg \in Arg :
        \/ Cd(arg)
        \/ Touch(arg) \/ Mkdir(arg) \/ Rm(arg) \/ Cat(arg)
        \/ \E text \in TextArg : Write(arg, text)
  BY DEF Execute
<1>2. TextArg \subseteq Seq(Byte)
  BY VfsAssumption
<1>. QED
  BY <1>1, <1>2, CdOutcome, CallsOutcome, WriteOutcome

(* No command has failed before the boot is over. *)
LEMMA BootOutcome ==
  ASSUME ShellIInv, BootFs
  PROVE  Outcome /\ status' = "ok"
<1>. DEFINE step == BootScript[boot + 1]
<1>1. boot + 1 \in 1 .. Len(BootScript) /\ ~Booted
  BY VfsAssumption DEF ShellIInv, IInv, BootFs, BootStep, Booted
<1>2. step \in BootCall
  BY <1>1, VfsAssumption, ElementOfSeq
<1>3. step.path \in Path /\ step.text \in Seq(Byte)
  BY <1>2 DEF BootCall
<1>4. Good'
  BY BootStepGood DEF ShellIInv, BootFs, IInv
<1>. HIDE DEF step
<1>5. KeepsDirs(nodes, nodes')
  <2>1. \/ Create("dir", step.path)
        \/ Create("file", step.path)
        \/ wnu_vfs_write_file(step.path, step.text)
    BY DEF BootFs, BootStep, step, wnu_vfs_create_dir, wnu_vfs_create_file
  <2>. QED
    BY <1>3, <2>1, CreateKeepsDirs, WriteFileKeepsDirs DEF ShellIInv, IInv
<1>6. UNCHANGED <<current_dir, status>> /\ status = "ok"
  BY <1>1 DEF BootFs, ShellIInv
<1>. QED
  BY <1>4, <1>5, <1>6 DEF Outcome, ShellIInv

LEMMA StepOutcome ==
  ASSUME ShellIInv, [ShellNext]_shellVars
  PROVE  /\ ShellIInv'
         /\ Outcome \/ UNCHANGED shellVars
<1>1. CASE BootFs
  <2>1. boot' \in 0 .. Len(BootScript)
    BY <1>1, VfsAssumption DEF ShellIInv, IInv, BootFs, BootStep
  <2>. QED
    BY <1>1, <2>1, BootOutcome DEF ShellIInv, IInv, Outcome
<1>2. CASE Execute
  <2>1. Booted' /\ boot' = boot
    BY <1>2 DEF Execute, Booted
  <2>. QED
    BY <1>2, <2>1, ExecuteOutcome DEF ShellIInv, IInv, Outcome
<1>3. CASE UNCHANGED shellVars
  BY <1>3 DEF shellVars, ShellIInv, IInv, Good, Booted
<1>. QED
  BY <1>1, <1>2, <1>3 DEF ShellNext

LEMMA ShellInvariance == ShellSpec => []ShellIInv
<1>1. ShellInit => ShellIInv
  BY InitGood, RootIsPath, ShellAssumption, VfsAssumption
     DEF ShellInit, ShellIInv, IInv, Init
<1>2. ShellIInv /\ [ShellNext]_shellVars => ShellIInv'
  BY StepOutcome
<1>. QED
  BY <1>1, <1>2, PTL DEF ShellSpec

-----------------------------------------------------------------------------
(* The theorems. *)

(* The table keeps its types under every command, and the working directory
   never outgrows PATH_MAX. *)
THEOREM ShellTypeCorrect == ShellSpec => []ShellTypeOK
<1>1. ShellIInv => ShellTypeOK
  BY DEF ShellIInv, IInv, Good, WellFormed, Result, TypeOK, ShellTypeOK
<1>. QED
  BY <1>1, ShellInvariance, PTL

LEMMA TreeIsWhole ==
  ASSUME IInv PROVE TreeShape /\ InodesUnique /\ TreeShowsPlainPaths
<1>1. WellFormed(nodes, next_inode)
  BY DEF IInv, Good
<1>2. TreeShowsPlainPaths
  BY <1>1, PlainAreShown DEF TreeShowsPlainPaths
<1>. QED
  BY <1>1, <1>2 DEF WellFormed, TreeShape, InodesUnique

(* The commands leave a tree behind, whatever arguments they are called with:
   one node for a path, no node without its parent, and nothing with a plain
   path that tree / does not print.  VfsProofs says so of the calls; a command
   is several of them. *)
THEOREM CommandsKeepTree ==
  ShellSpec => [](TreeShape /\ InodesUnique /\ TreeShowsPlainPaths)
<1>1. ShellIInv => TreeShape /\ InodesUnique /\ TreeShowsPlainPaths
  BY TreeIsWhole DEF ShellIInv
<1>. QED
  BY <1>1, ShellInvariance, PTL

(* Nothing is ever below a working directory that has been removed. *)
THEOREM StaleCwdIsBare == ShellSpec => []NothingBelowStaleCwd
<1>1. ShellIInv => NothingBelowStaleCwd
  BY AboveIsDir DEF ShellIInv, IInv, Good, NothingBelowStaleCwd, CwdThere
<1>. QED
  BY <1>1, ShellInvariance, PTL

(* The step behind the theorem CwdIsRemovedItself. *)
LEMMA CwdLoss ==
  ASSUME ShellIInv, Outcome, CwdThere, ~CwdThere'
  PROVE  /\ current_dir' = current_dir
         /\ wnu_vfs_is_dir(nodes', parent_path(current_dir))
<1>1. ~(KeepsDirs(nodes, nodes') /\ UNCHANGED current_dir)
  BY DEF KeepsDirs, CwdThere
<1>2. PICK path \in Path : CanDelete(nodes, path) /\ nodes' = Deleted(nodes, path)
  BY <1>1 DEF Outcome, CwdThere
<1>3. UNCHANGED current_dir
  BY <1>1 DEF Outcome, CwdThere
<1>4. WellFormed(nodes, next_inode) /\ current_dir \in Path
  BY DEF ShellIInv, IInv, Good
<1>5. \A q : wnu_vfs_is_dir(nodes, q) /\ q # path => wnu_vfs_is_dir(nodes', q)
  BY <1>2, <1>4, DeletedKeepsOtherDirs
<1>6. path = current_dir
  BY <1>3, <1>5 DEF CwdThere
<1>7. current_dir # Root
  BY <1>2, <1>6 DEF CanDelete
<1>8. parent_path(current_dir) # path
  BY <1>4, <1>6, <1>7, ParentDiffers
<1>9. PICK i \in Used(nodes) : nodes[i].path = current_dir
  BY <1>4, DirIff DEF CwdThere, WellFormed
<1>10. wnu_vfs_is_dir(nodes, parent_path(current_dir))
  BY <1>4, <1>9 DEF WellFormed, NoOrphans
<1>. QED
  BY <1>3, <1>5, <1>8, <1>10

(* Only rm of the working directory itself takes it away. *)
THEOREM CwdIsRemovedItself == ShellSpec => CwdLostOnlyByItself
<1>1. ShellIInv /\ [ShellNext]_shellVars =>
        [CwdThere /\ ~CwdThere' =>
           /\ current_dir' = current_dir
           /\ wnu_vfs_is_dir(nodes', parent_path(current_dir))]_shellVars
  BY StepOutcome, CwdLoss
<1>. QED
  BY <1>1, ShellInvariance, PTL DEF ShellSpec, CwdLostOnlyByItself

(* A command that reports a failure has changed nothing, also write, which is
   two calls of vfs.c. *)
THEOREM FailuresAreClean == ShellSpec => FailureIsClean
<1>1. ShellIInv /\ [ShellNext]_shellVars =>
        [status' # "ok" => UNCHANGED <<nodes, next_inode, current_dir>>]_shellVars
  BY StepOutcome DEF Outcome
<1>. QED
  BY <1>1, ShellInvariance, PTL DEF ShellSpec, FailureIsClean

(* What a step adds to a table, whatever made it. *)
LEMMA AddedIsListed ==
  ASSUME ShellIInv, ShellIInv', NEW i \in Used(nodes'),
         \A j \in Used(nodes) : nodes[j].path # nodes'[i].path,
         Last(nodes'[i].path) # Empty,
         ~(Len(nodes'[i].path) = 2 /\ Head(nodes'[i].path) = Empty)
  PROVE  nodes'[i].path \in Listed(nodes', parent_path(nodes'[i].path))
<1>. DEFINE q == nodes'[i].path
<1>1. WellFormed(nodes, next_inode) /\ WellFormed(nodes', next_inode')
  BY DEF ShellIInv, IInv, Good
<1>2. q \in Path
  BY <1>1, UsedInSlot DEF WellFormed, Named, Node, Path
<1>3. q # Root
  BY <1>1, DirIff DEF WellFormed, RootThere
<1>4. is_direct_child(parent_path(q), q)
  BY <1>2, <1>3, ParentLists
<1>. QED
  BY <1>4 DEF Listed

(* A new name is printed by the next ls of its directory. *)
THEOREM NewNamesAreListed == ShellSpec => NewEntriesAreListed
<1>1. ShellIInv /\ ShellIInv' /\ [ShellNext]_shellVars =>
        [\A p \in {nodes'[i].path : i \in Used(nodes')}
                 \ {nodes[i].path : i \in Used(nodes)} :
           Last(p) # Empty /\ ~(Len(p) = 2 /\ Head(p) = Empty) =>
             p \in Listed(nodes', parent_path(p))]_shellVars
  BY AddedIsListed
<1>. QED
  BY <1>1, ShellInvariance, PTL DEF ShellSpec, NewEntriesAreListed

-----------------------------------------------------------------------------
(* The mount command.  It adds three buffers that live as long as the command,
   and a loop along a chain of clusters that the disk is free to write as it
   likes. *)

(* Paths that are cut. *)

(* There is always room for something: the path of the root fits. *)
LEMMA ClippedIsPath ==
  ASSUME NEW path \in Path
  PROVE  Clipped(path) \in Path
<1>. DEFINE len(k) == string_len(SubSeq(path, 1, k))
            fits == {k \in 0 .. Len(path) : len(k) < MaxName}
            head == SubSeq(path, 1, Max(fits))
            room == MaxName - 1 - string_len(head)
            next == path[Len(head) + 1]
            cut  == IF next = Empty THEN Empty ELSE Cut[next, room - 1]
<1>1. path \in Seq(Component) /\ Len(path) \in Nat /\ path # <<>> /\ MaxName \in Nat
  BY PathsAssumption DEF Path
<1>2. string_len(<<>>) = 0 /\ 1 < MaxName
  <2>1. Root \in Seq(Component) /\ Len(Root) = 1 /\ SubSeq(Root, 1, 0) = <<>>
    BY DEF Root, Component
  <2>2. string_len(Root) < MaxName /\ string_len(Root) \in Nat
    BY <2>1, VfsAssumption, CharsFinite DEF valid_path
  <2>3. string_len(Root) >= 1
    BY <2>1, <2>2, SlashesCount
  <2>4. string_len(<<>>) = 0
    <3>1. Chars(<<>>) = {}
      BY DEF Chars
    <3>. QED
      BY <3>1, FS_EmptySet DEF string_len
  <2>. QED
    BY <1>1, <2>2, <2>3, <2>4
<1>3. fits \in SUBSET (0 .. Len(path)) /\ fits # {}
  <2>1. SubSeq(path, 1, 0) = <<>>
    BY <1>1
  <2>2. string_len(<<>>) < MaxName
    BY <1>1, <1>2
  <2>3. 0 \in fits
    <3>1. len(0) < MaxName
      BY <2>1, <2>2, Zenon
    <3>2. 0 \in 0 .. Len(path)
      BY <1>1
    <3>. HIDE DEF len
    <3>. QED
      BY <3>1, <3>2, Zenon
  <2>. QED
    BY <2>3
<1>4. PICK n \in fits : n = Max(fits)
  <2>. HIDE DEF fits
  <2>. QED
    BY <1>1, <1>3, MaxIn
<1>5. n \in 0 .. Len(path) /\ len(n) < MaxName
  OBVIOUS
<1>6. head = SubSeq(path, 1, n) /\ string_len(head) < MaxName
  BY <1>4, <1>5, Zenon
<1>7. head \in Seq(Component) /\ Len(head) = n
  <2>. HIDE DEF head, fits
  <2>. QED
    BY <1>1, <1>5, <1>6
<1>8. Clipped(path) = IF head = path \/ room = 0 THEN head ELSE Append(head, cut)
  BY DEF Clipped
<1>. HIDE DEF head, fits
<1>9. CASE head = path
  BY <1>8, <1>9
<1>10. CASE head # path /\ room = 0
  <2>1. head # <<>>
    BY <1>1, <1>2, <1>10
  <2>. QED
    BY <1>7, <1>8, <1>10, <2>1 DEF Path
<1>11. CASE head # path /\ room # 0
  <2>1. n # Len(path)
    <3>1. SubSeq(path, 1, Len(path)) = path
      BY <1>1, SubSeqFull
    <3>. QED
      BY <1>6, <1>11, <3>1
  <2>2. next \in Component
    BY <1>1, <1>5, <1>7, <2>1
  <2>3. room - 1 \in 0 .. MaxName
    <3>1. string_len(head) \in Nat
      BY <1>7, CharsFinite
    <3>. QED
      BY <1>1, <1>6, <1>11, <3>1
  <2>4. cut \in Component
    <3>1. next = Empty => cut = Empty
      BY Zenon
    <3>2. next # Empty => cut = Cut[next, room - 1]
      BY Zenon
    <3>. HIDE DEF next, room, cut
    <3>3. next # Empty => next \in Name
      BY <2>2, Zenon DEF Component
    <3>4. next # Empty => cut \in Component
      BY <2>3, <3>2, <3>3, CutAssumption, Zenon
    <3>. QED
      BY <3>1, <3>4, Zenon DEF Component
  <2>5. Append(head, cut) \in Seq(Component) /\ Append(head, cut) # <<>>
    <3>. HIDE DEF cut
    <3>. QED
      BY <1>7, <2>4
  <2>. HIDE DEF cut, room
  <2>. QED
    BY <1>8, <1>11, <2>5 DEF Path
<1>. QED
  BY <1>9, <1>10, <1>11

-----------------------------------------------------------------------------
(* Calls in a row. *)

Sound(table) == WellFormed(table.nodes, table.inode)

(* Nothing that was there is touched. *)
Spares(ns, ms) == \A i \in Used(ns) : i \in Used(ms) /\ ms[i] = ns[i]

LEMMA CreatedSpares ==
  ASSUME NEW ns, NEW next, WellFormed(ns, next),
         NEW type \in {"file", "dir"}, NEW path \in Path, CanCreate(ns, path)
  PROVE  LET ms == Created(ns, next, type, path)
         IN  /\ Spares(ns, ms)
             /\ type = "file" => IsOpenable(ms, path) /\ find_node(ms, path) \notin Used(ns)
<1>. DEFINE new == FreeSlot(ns)
            ms  == Created(ns, next, type, path)
<1>1. new \in Slot /\ new \notin Used(ns)
  BY FreeSlotIsFree DEF CanCreate
<1>2. \A i \in Slot \ {new} : ms[i] = ns[i]
  BY <1>1 DEF Created, WellFormed
<1>3. Spares(ns, ms)
  BY <1>1, <1>2 DEF Spares, Used
<1>4. type = "file" => IsOpenable(ms, path)
  BY CreatedKeepsDirs
<1>5. \A i \in Used(ns) : ns[i].path # path
  BY FindNode DEF CanCreate
<1>6. ASSUME IsOpenable(ms, path) PROVE find_node(ms, path) \notin Used(ns)
  <2>1. ms[find_node(ms, path)].path = path
    BY <1>6, FindNode DEF IsOpenable, wnu_vfs_is_file, HasType
  <2>. HIDE DEF ms
  <2>. QED
    BY <1>3, <1>5, <2>1 DEF Spares
<1>. QED
  BY <1>3, <1>4, <1>6

LEMMA MadeIsSound ==
  ASSUME NEW table, Sound(table), NEW type \in {"file", "dir"}, NEW path \in Path
  PROVE  /\ Sound(Made(table, type, path))
         /\ Spares(table.nodes, Made(table, type, path).nodes)
<1>1. CASE CanCreate(table.nodes, path)
  <2>1. /\ Made(table, type, path).nodes = Created(table.nodes, table.inode, type, path)
        /\ Made(table, type, path).inode = table.inode + 1
    BY <1>1 DEF Made
  <2>. QED
    BY <1>1, <2>1, CreatedKeepsTable, CreatedSpares DEF Sound
<1>2. CASE ~CanCreate(table.nodes, path)
  BY <1>2 DEF Made, Sound, Spares
<1>. QED
  BY <1>1, <1>2

LEMMA MadeWithIsSound ==
  ASSUME NEW table, Sound(table), NEW path \in Path, NEW text \in Seq(Byte)
  PROVE  /\ Sound(MadeWith(table, path, text))
         /\ Spares(table.nodes, MadeWith(table, path, text).nodes)
<1>1. CASE CanCreate(table.nodes, path)
  <2>. DEFINE made == Created(table.nodes, table.inode, "file", path)
              next == table.inode + 1
              ms   == Stored(made, path, 0, text)
  <2>1. Made(table, "file", path) = [nodes |-> made, inode |-> next]
    BY <1>1 DEF Made
  <2>2. /\ MadeWith(table, path, text).nodes = ms
        /\ MadeWith(table, path, text).inode = next
    BY <1>1, <2>1 DEF MadeWith
  <2>3. WellFormed(made, next) /\ Spares(table.nodes, made)
        /\ IsOpenable(made, path) /\ find_node(made, path) \notin Used(table.nodes)
    BY <1>1, CreatedKeepsTable, CreatedSpares DEF Sound
  <2>. HIDE DEF made, next
  <2>4. 0 \in 0 .. MaxData
    BY VfsAssumption
  <2>5. WellFormed(ms, next)
    BY <2>3, <2>4, StoredKeepsTable
  <2>6. \A i \in Slot : i # find_node(made, path) => ms[i] = made[i]
    BY <2>3 DEF Stored, WellFormed
  <2>7. Spares(table.nodes, ms)
    BY <2>3, <2>6, UsedInSlot DEF Spares, Used
  <2>. QED
    BY <2>2, <2>5, <2>7 DEF Sound
<1>2. CASE ~CanCreate(table.nodes, path)
  BY <1>2 DEF MadeWith, Sound, Spares
<1>. QED
  BY <1>1, <1>2

LEMMA BecomesSound ==
  ASSUME NEW table, Sound(table), Spares(nodes, table.nodes), Becomes(table)
  PROVE  WellFormed(nodes', next_inode') /\ Spares(nodes, nodes')
  BY DEF Becomes, Sound

LEMMA SameSpares == \A ns : Spares(ns, ns)
  BY DEF Spares

-----------------------------------------------------------------------------
(* The disk. *)

LEMMA DiskIs ==
  ASSUME NEW d \in Disk
  PROVE  /\ d.data \in [DOMAIN d.data -> [1 .. ClusterSize -> Byte]]
         /\ d.fat \in [DOMAIN d.data -> Cluster \cup {Eoc, Free}]
  BY FatAssumption

LEMMA SectorsAreBytes ==
  ASSUME disk \in Disk, NEW c
  PROVE  Sectors(c) \in [1 .. ClusterSize -> Byte]
<1>1. CASE c \in DOMAIN disk.data
  BY <1>1, DiskIs DEF Sectors
<1>2. CASE c \notin DOMAIN disk.data
  BY <1>2, VfsAssumption DEF Sectors
<1>. QED
  BY <1>1, <1>2

LEMMA FatEntryIs ==
  ASSUME disk \in Disk, NEW c
  PROVE  FatEntry(c) \in Cluster \cup {Eoc, Free}
  BY DiskIs DEF FatEntry

LEMMA ChainIs ==
  ASSUME disk \in Disk, NEW e \in Entry32
  PROVE  /\ Chain(e)[0] = e.start
         /\ \A k \in Nat :
              /\ Chain(e)[k] \in Cluster
              /\ FatEntry(Chain(e)[k]) \notin {Eoc, Free} =>
                   Chain(e)[k + 1] = FatEntry(Chain(e)[k])
<1>. DEFINE follow(c) == IF FatEntry(c) \in {Eoc, Free} THEN c ELSE FatEntry(c)
            link(c, k) == IF k = 0 THEN e.start ELSE follow(c[k - 1])
            Linked(c)  == c = [k \in Nat |-> link(c, k)]
            step       == [c \in Cluster |-> follow(c)]
<1>1. e.start \in Cluster
  BY DEF Entry32
<1>2. \A c \in Cluster : follow(c) \in Cluster
  BY FatEntryIs
<1>3. step \in [Cluster -> Cluster]
  BY <1>2
<1>4. PICK c \in [Nat -> Cluster] :
        c[0] = e.start /\ \A k \in Nat : c[k + 1] = step[c[k]]
  <2>. DEFINE first == e.start
              places == Cluster
  <2>1. first \in places /\ step \in [places -> places]
    BY <1>1, <1>3
  <2>. HIDE DEF step, first, places
  <2>2. \E c \in [Nat -> places] :
          c[0] = first /\ \A k \in Nat : c[k + 1] = step[c[k]]
    BY <2>1, Iteration
  <2>. QED
    BY <2>2 DEF first, places
<1>5. \A k \in Nat : c[k + 1] = follow(c[k])
  BY <1>4
<1>6. \A k \in Nat : c[k] = link(c, k)
  <2>. HIDE DEF follow
  <2>. TAKE k \in Nat
  <2>1. CASE k = 0
    BY <1>4, <2>1
  <2>2. CASE k # 0
    <3>1. k - 1 \in Nat /\ k = (k - 1) + 1
      BY <2>2
    <3>. QED
      BY <1>5, <2>2, <3>1
  <2>. QED
    BY <2>1, <2>2
<1>7. Linked(c)
  <2>1. c = [k \in Nat |-> c[k]]
    BY <1>4
  <2>. HIDE DEF link
  <2>. QED
    BY <1>6, <2>1, Zenon
<1>8. Linked(CHOOSE f : Linked(f))
  <2>. HIDE DEF Linked
  <2>. QED
    BY <1>7, Zenon
<1>9. Chain(e) = CHOOSE f : Linked(f)
  BY Zenon DEF Chain
<1>10. PICK g : g = Chain(e) /\ Linked(g)
  <2>. HIDE DEF Linked
  <2>. QED
    BY <1>8, <1>9, Zenon
<1>11. \A k \in Nat : g[k] = link(g, k)
  <2>. HIDE DEF link
  <2>1. \A f : f = [k \in Nat |-> link(g, k)] => \A k \in Nat : f[k] = link(g, k)
    BY Zenon
  <2>. QED
    BY <1>10, <2>1, Zenon
<1>12. g[0] = e.start /\ \A k \in Nat : g[k + 1] = follow(g[k])
  <2>. HIDE DEF follow
  <2>1. g[0] = e.start
    BY <1>11
  <2>2. ASSUME NEW k \in Nat PROVE g[k + 1] = follow(g[k])
    <3>1. k + 1 \in Nat /\ k + 1 # 0 /\ (k + 1) - 1 = k
      OBVIOUS
    <3>. QED
      BY <1>11, <3>1
  <2>. QED
    BY <2>1, <2>2
<1>. DEFINE off == {k \in Nat : g[k] \notin Cluster}
<1>13. off = {}
  <2>1. SUFFICES ASSUME off # {} PROVE FALSE
    OBVIOUS
  <2>2. PICK k \in off : \A j \in off : k <= j
    <3>1. off \in SUBSET Nat
      OBVIOUS
    <3>. HIDE DEF off
    <3>. QED
      BY <2>1, <3>1, MinIn
  <2>3. k \in Nat /\ g[k] \notin Cluster /\ k # 0
    BY <1>1, <1>12
  <2>4. k - 1 \in Nat /\ k = (k - 1) + 1 /\ ~(k <= k - 1)
    BY <2>3
  <2>5. g[k - 1] \in Cluster
    BY <2>2, <2>4
  <2>. HIDE DEF follow
  <2>. QED
    BY <1>2, <1>12, <2>3, <2>4, <2>5
<1>14. \A k \in Nat : g[k] \in Cluster
  BY <1>13
<1>. QED
  BY <1>10, <1>12, <1>14

-----------------------------------------------------------------------------
(* What a mount knows about its buffers. *)

Buffers ==
  /\ disk \in Disk
  /\ mountpoint \in Path
  /\ cluster_buf \in [1 .. ClusterSize -> Byte]
  /\ at \in 1 .. ClusterSize + 1
  /\ entry \in Entry32
  /\ cluster \in Cluster
  /\ file_buf \in Seq(Byte) /\ Len(file_buf) <= MaxData
  /\ flawed \in BOOLEAN

(* The slots of a chain, in its order. *)
SlotAt(e, k) ==
  Sectors(Chain(e)[(k - 1) \div ClusterSize])[((k - 1) % ClusterSize) + 1]

CopyOf(e, buf) ==
  Len(buf) <= e.size /\ \A k \in 1 .. Len(buf) : buf[k] = SlotAt(e, k)

(* All of a file has been copied: its length, what a file of the table can hold,
   or its chain to the end. *)
Whole(e, buf) ==
  /\ CopyOf(e, buf)
  /\ \/ Len(buf) = e.size
     \/ Len(buf) = MaxData
     \/ \E k \in Nat : /\ Len(buf) = (k + 1) * ClusterSize
                       /\ FatEntry(Chain(e)[k]) \in {Eoc, Free}

(* The loop over the clusters has copied whole clusters so far, and is at the
   next cluster of the chain. *)
Following(e, c, buf) ==
  \E m \in Nat : /\ c = Chain(e)[m]
                 /\ Len(buf) = m * ClusterSize
                 /\ Len(buf) < e.size /\ Len(buf) < MaxData

Copying ==
  /\ pc \in {"idle", "entry", "chain", "store"}
  /\ pc # "idle" => Probed
  /\ pc \in {"chain", "store"} => at <= ClusterSize /\ CopyOf(entry, file_buf)
  /\ pc = "chain" => Following(entry, cluster, file_buf)

FatIInv ==
  /\ ShellIInv
  /\ probed \in 0 .. Len(Controllers)
  /\ Buffers
  /\ Copying

LEMMA DivMod ==
  ASSUME NEW c \in Nat \ {0}, NEW m \in Nat, NEW r \in 0 .. c - 1
  PROVE  (m * c + r) \div c = m /\ (m * c + r) % c = r
  BY Z3

LEMMA SectorsSeq ==
  ASSUME disk \in Disk, NEW c, NEW n \in 0 .. ClusterSize
  PROVE  /\ SubSeq(Sectors(c), 1, n) \in Seq(Byte)
         /\ Len(SubSeq(Sectors(c), 1, n)) = n
         /\ \A j \in 1 .. n : SubSeq(Sectors(c), 1, n)[j] = Sectors(c)[j]
<1>1. Sectors(c) \in [1 .. ClusterSize -> Byte] /\ ClusterSize \in Nat
  BY SectorsAreBytes, FatAssumption
<1>2. PICK s : s = Sectors(c)
  OBVIOUS
<1>3. s \in Seq(Byte) /\ Len(s) = ClusterSize
  BY <1>1, <1>2
<1>. QED
  BY <1>1, <1>2, <1>3

(* One more cluster. *)
LEMMA CopyGoesOn ==
  ASSUME Buffers, CopyOf(entry, file_buf), Following(entry, cluster, file_buf),
         NEW buf,
         buf = file_buf \o SubSeq(Sectors(cluster), 1, CopyCount(entry.size))
  PROVE  /\ buf \in Seq(Byte) /\ Len(buf) <= MaxData
         /\ Len(file_buf) < Len(buf)
         /\ CopyOf(entry, buf)
         /\ FatEntry(cluster) \notin {Eoc, Free} /\ ~Filled(buf) =>
              Following(entry, FatEntry(cluster), buf)
         /\ FatEntry(cluster) \in {Eoc, Free} \/ Filled(buf) => Whole(entry, buf)
<1>. DEFINE L == Len(file_buf)
            size == entry.size
            n == CopyCount(size)
            more == SubSeq(Sectors(cluster), 1, n)
<1>1. PICK m \in Nat : cluster = Chain(entry)[m] /\ L = m * ClusterSize
                       /\ L < size /\ L < MaxData
  BY DEF Following
<1>2. /\ L \in Nat /\ size \in Nat
      /\ ClusterSize \in Nat \ {0} /\ MaxData \in Nat
  BY FatAssumption DEF Buffers, Entry32
<1>3. /\ n \in {ClusterSize, size - L, MaxData - L}
      /\ n <= ClusterSize /\ n <= size - L /\ n <= MaxData - L
  <2>. DEFINE rooms == {ClusterSize, size - L, MaxData - L}
  <2>1. rooms \in SUBSET Nat /\ rooms # {}
    BY <1>1, <1>2
  <2>2. n = Min(rooms)
    BY DEF CopyCount
  <2>. HIDE DEF rooms, n, L, size
  <2>3. n \in rooms /\ \A r \in rooms : n <= r
    BY <2>1, <2>2, MinIn
  <2>. QED
    BY <2>3 DEF rooms
<1>4. n \in 0 .. ClusterSize /\ n \in Nat
  <2>. HIDE DEF n, L, size
  <2>. QED
    BY <1>1, <1>2, <1>3
<1>5. more \in Seq(Byte) /\ Len(more) = n
      /\ \A j \in 1 .. n : more[j] = Sectors(cluster)[j]
  <2>. HIDE DEF n
  <2>. QED
    BY <1>4, SectorsSeq DEF Buffers
<1>6. file_buf \in Seq(Byte) /\ buf = file_buf \o more
  BY DEF Buffers
<1>. HIDE DEF more, n
<1>7. /\ buf \in Seq(Byte) /\ Len(buf) = L + n
      /\ \A k \in 1 .. L + n : buf[k] = IF k <= L THEN file_buf[k] ELSE more[k - L]
  <2>1. /\ file_buf \o more \in Seq(Byte)
        /\ Len(file_buf \o more) = Len(file_buf) + Len(more)
        /\ \A k \in 1 .. Len(file_buf) + Len(more) : (file_buf \o more)[k] =
             IF k <= Len(file_buf) THEN file_buf[k] ELSE more[k - Len(file_buf)]
    BY <1>5, <1>6, ConcatProperties, Zenon
  <2>2. Len(more) = n /\ buf = file_buf \o more
    BY <1>5, <1>6, Zenon
  <2>. QED
    BY <2>1, <2>2, Zenon
<1>. HIDE DEF L, size
<1>8. Len(buf) <= MaxData /\ Len(buf) <= size
  <2>1. L + n <= MaxData /\ L + n <= size
    BY <1>2, <1>3, <1>4
  <2>2. Len(buf) = L + n
    BY <1>7, Zenon
  <2>. QED
    BY <2>1, <2>2, Zenon
<1>9. ASSUME NEW k \in 1 .. Len(buf) PROVE buf[k] = SlotAt(entry, k)
  <2>1. k \in 1 .. L + n
    BY <1>7
  <2>2. CASE k <= L
    <3>1. k \in 1 .. L
      BY <1>2, <1>4, <2>1, <2>2
    <3>. QED
      BY <1>7, <2>1, <2>2, <3>1, Zenon DEF CopyOf, L
  <2>3. CASE ~(k <= L)
    <3>. DEFINE r == k - 1 - L
    <3>1. r \in 0 .. ClusterSize - 1 /\ k - 1 = L + r
          /\ k - L \in 1 .. n /\ k - L = r + 1
      BY <1>2, <1>4, <2>1, <2>3
    <3>2. (k - 1) \div ClusterSize = m /\ (k - 1) % ClusterSize = r
      <4>1. k - 1 = m * ClusterSize + r
        BY <1>1, <3>1
      <4>. HIDE DEF r
      <4>. QED
        <5>1. /\ (m * ClusterSize + r) \div ClusterSize = m
              /\ (m * ClusterSize + r) % ClusterSize = r
          BY <1>2, <3>1, DivMod, Zenon
        <5>. QED
          BY <4>1, <5>1, Zenon
    <3>3. SlotAt(entry, k) = Sectors(cluster)[r + 1]
      BY <1>1, <3>2 DEF SlotAt
    <3>4. buf[k] = more[k - L]
      BY <1>7, <2>1, <2>3, Zenon
    <3>. QED
      BY <1>5, <3>1, <3>3, <3>4
  <2>. QED
    BY <2>2, <2>3
<1>10. ASSUME ~Filled(buf)
       PROVE  /\ Len(buf) = (m + 1) * ClusterSize
              /\ Len(buf) < size /\ Len(buf) < MaxData
  <2>1. Len(buf) # size /\ ~(Len(buf) >= MaxData)
    BY <1>10 DEF Filled, size
  <2>2. L + n # size /\ L + n # MaxData
    BY <1>7, <1>8, <2>1
  <2>3. n = ClusterSize
    BY <1>2, <1>3, <1>4, <2>2
  <2>4. L + ClusterSize = (m + 1) * ClusterSize
    BY <1>1, <1>2
  <2>5. L + n < size /\ L + n < MaxData
    BY <1>2, <1>3, <1>4, <2>2
  <2>. QED
    BY <1>7, <2>3, <2>4, <2>5
<1>11. ASSUME FatEntry(cluster) \notin {Eoc, Free}, ~Filled(buf)
       PROVE  Following(entry, FatEntry(cluster), buf)
  <2>1. FatEntry(cluster) = Chain(entry)[m + 1]
    BY <1>1, <1>11, ChainIs DEF Buffers
  <2>2. m + 1 \in Nat
    OBVIOUS
  <2>. QED
    BY <1>10, <1>11, <2>1, <2>2, Zenon DEF Following, size
<1>12. CopyOf(entry, buf)
  BY <1>8, <1>9 DEF CopyOf, size
<1>13. ASSUME FatEntry(cluster) \in {Eoc, Free} \/ Filled(buf)
       PROVE  Whole(entry, buf)
  <2>1. CASE Filled(buf)
    <3>1. Len(buf) = entry.size \/ Len(buf) >= MaxData
      BY <2>1, Zenon DEF Filled
    <3>2. Len(buf) >= MaxData => Len(buf) = MaxData
      <4>1. L + n \in Nat /\ L + n <= MaxData
        BY <1>2, <1>3, <1>4
      <4>. QED
        BY <1>2, <1>7, <4>1
    <3>. QED
      BY <1>12, <3>1, <3>2, Zenon DEF Whole
  <2>2. CASE ~Filled(buf)
    BY <1>1, <1>10, <1>12, <1>13, <2>2, Zenon DEF Whole
  <2>. QED
    BY <2>1, <2>2
<1>14. L < Len(buf)
  <2>1. 0 < n
    BY <1>1, <1>2, <1>3, <1>4
  <2>2. L < L + n
    BY <1>2, <1>4, <2>1
  <2>. QED
    BY <1>7, <2>2, Zenon
<1>. QED
  BY <1>7, <1>8, <1>11, <1>12, <1>13, <1>14 DEF L

(* The disk does not change, and so neither does what its chains are. *)
LEMMA ChainsStay ==
  ASSUME disk' = disk, NEW e, entry' = e, NEW c, cluster' = c, NEW buf, file_buf' = buf
  PROVE  /\ CopyOf(e, buf) => CopyOf(entry, file_buf)'
         /\ Following(e, c, buf) => Following(entry, cluster, file_buf)'
         /\ Whole(e, buf) => Whole(entry, file_buf)'
<1>1. Chain(entry)' = Chain(e)
  BY DEF Chain, FatEntry
<1>2. \A i : Sectors(i)' = Sectors(i)
  BY DEF Sectors
<1>3. \A k : SlotAt(entry, k)' = SlotAt(e, k)
  BY <1>1, <1>2 DEF SlotAt
<1>4. \A i : FatEntry(i)' = FatEntry(i)
  BY DEF FatEntry
<1>. QED
  BY <1>1, <1>3, <1>4 DEF CopyOf, Following, Whole

-----------------------------------------------------------------------------
(* The steps of a mount. *)

(* What every step does to the table while a mount is under way. *)
TableStep == WellFormed(nodes', next_inode') /\ Spares(nodes, nodes')

LEMMA FilePathIsPath ==
  ASSUME mountpoint \in Path, NEW e \in Entry32
  PROVE  FilePath(e) \in Path
<1>1. /\ mountpoint \in Seq(Component) /\ mountpoint # <<>>
      /\ e.parts \in Seq(Component)
  BY DEF Path, Entry32
<1>2. mountpoint \o e.parts \in Seq(Component)
      /\ Len(mountpoint \o e.parts) = Len(mountpoint) + Len(e.parts)
  BY <1>1
<1>3. Len(mountpoint) # 0 /\ Len(mountpoint) \in Nat /\ Len(e.parts) \in Nat
  BY <1>1, EmptySeq
<1>4. mountpoint \o e.parts # <<>>
  BY <1>2, <1>3
<1>. QED
  BY <1>2, <1>4, ClippedIsPath DEF FilePath, Path

LEMMA ProceedKeeps ==
  ASSUME Buffers, Copying, UNCHANGED <<disk, boot, probed>>,
         pc \in {"entry", "store"}, at <= ClusterSize,
         NEW flaw \in BOOLEAN, Proceed(flaw)
  PROVE  Buffers' /\ Copying' /\ status' = status
<1>1. at' \in 1 .. ClusterSize + 1
  BY FatAssumption DEF Buffers, Proceed
<1>2. Buffers'
  BY <1>1 DEF Buffers, Proceed
<1>3. Copying'
  BY DEF Copying, Proceed, Probed, Booted
<1>. QED
  BY <1>2, <1>3 DEF Proceed

LEMMA EndMountKeeps ==
  ASSUME Buffers, UNCHANGED <<disk, boot, probed>>, EndMount
  PROVE  Buffers' /\ Copying' /\ status' = "ok"
<1>1. Blank \in [1 .. ClusterSize -> Byte]
  BY VfsAssumption DEF Blank
<1>2. NoEntry \in Entry32
  BY RootIsPath DEF NoEntry, Entry32, Cluster, Path
<1>3. 1 \in 1 .. ClusterSize + 1
  BY FatAssumption
<1>4. <<>> \in Seq(Byte) /\ Len(<<>>) <= MaxData
  BY FatAssumption
<1>5. Buffers'
  BY <1>1, <1>2, <1>3, <1>4, RootIsPath DEF Buffers, EndMount, Cluster
<1>6. Copying'
  BY DEF Copying, EndMount
<1>. QED
  BY <1>5, <1>6 DEF EndMount, Ends

LEMMA NextEntryKeeps ==
  ASSUME FatIInv, UNCHANGED <<disk, boot, probed>>, NextEntry
  PROVE  Buffers' /\ Copying' /\ TableStep /\ status' \in {"ok", status}
<1>1. Buffers /\ Copying /\ WellFormed(nodes, next_inode) /\ pc = "entry"
  BY DEF FatIInv, ShellIInv, IInv, Good, NextEntry
<1>2. UNCHANGED <<nodes, next_inode>> => TableStep
  BY <1>1, SameSpares DEF TableStep
<1>3. CASE EndMount
  BY <1>1, <1>2, <1>3, EndMountKeeps DEF EndMount
<1>4. CASE at <= ClusterSize /\ Proceed(FALSE) /\ UNCHANGED <<nodes, next_inode>>
  BY <1>1, <1>2, <1>4, ProceedKeeps
<1>5. CASE at <= ClusterSize /\ Proceed(TRUE) /\ UNCHANGED <<nodes, next_inode>>
  BY <1>1, <1>2, <1>5, ProceedKeeps
<1>6. CASE /\ at <= ClusterSize /\ Current \in Entry32
           /\ \E path \in {FilePath(Current)} :
                /\ Becomes(Made(Table, "file", path))
                /\ Proceed(~CanCreate(nodes, path))
  <2>1. PICK path \in {FilePath(Current)} :
          /\ Becomes(Made(Table, "file", path))
          /\ Proceed(~CanCreate(nodes, path))
    BY <1>6
  <2>2. path \in Path
    BY <1>1, <1>6, FilePathIsPath DEF Buffers
  <2>3. Sound(Table) /\ Table.nodes = nodes
    BY <1>1 DEF Sound, Table
  <2>4. TableStep
    BY <2>1, <2>2, <2>3, MadeIsSound, BecomesSound DEF TableStep
  <2>5. (~CanCreate(nodes, path)) \in BOOLEAN
    BY DEF CanCreate
  <2>. QED
    BY <1>1, <1>6, <2>1, <2>4, <2>5, ProceedKeeps
<1>7. CASE /\ at <= ClusterSize /\ Current \in Entry32 /\ Current.size > 0
           /\ pc' = "chain"
           /\ entry' = Current
           /\ cluster' = Current.start
           /\ file_buf' = <<>>
           /\ UNCHANGED <<status, mountpoint, cluster_buf, at, flawed,
                          nodes, next_inode>>
  <2>1. PICK e \in Entry32 : e = Current
    BY <1>7
  <2>2. entry' = e /\ cluster' = e.start /\ file_buf' = <<>> /\ e.size > 0
        /\ e.start \in Cluster /\ e.size \in Nat
    BY <1>7, <2>1 DEF Entry32
  <2>3. <<>> \in Seq(Byte) /\ Len(<<>>) = 0 /\ 0 <= MaxData /\ 0 < MaxData
    BY FatAssumption
  <2>4. Buffers'
    BY <1>1, <1>7, <2>2, <2>3 DEF Buffers
  <2>5. CopyOf(e, <<>>)
    <3>1. \A k \in 1 .. 0 : FALSE
      OBVIOUS
    <3>. QED
      BY <2>2, <2>3, <3>1 DEF CopyOf
  <2>6. Following(e, e.start, <<>>)
    <3>1. Chain(e)[0] = e.start
      BY <1>1, ChainIs DEF Buffers
    <3>2. 0 = 0 * ClusterSize /\ 0 \in Nat
      BY FatAssumption
    <3>. QED
      BY <2>2, <2>3, <3>1, <3>2 DEF Following
  <2>7. CopyOf(entry, file_buf)' /\ Following(entry, cluster, file_buf)'
    BY <2>2, <2>5, <2>6, ChainsStay
  <2>8. Copying'
    BY <1>1, <1>7, <2>7 DEF Copying, Probed, Booted
  <2>. QED
    BY <1>2, <1>7, <2>4, <2>8
<1>. QED
  BY <1>3, <1>4, <1>5, <1>6, <1>7 DEF NextEntry

LEMMA ReadClusterKeeps ==
  ASSUME FatIInv, UNCHANGED <<disk, boot, probed>>, ReadCluster
  PROVE  Buffers' /\ Copying' /\ TableStep /\ status' = status
<1>1. /\ Buffers /\ Copying /\ WellFormed(nodes, next_inode)
      /\ pc = "chain" /\ Probed /\ Probed' /\ at <= ClusterSize
      /\ CopyOf(entry, file_buf) /\ Following(entry, cluster, file_buf)
  BY DEF FatIInv, ShellIInv, IInv, Good, ReadCluster, Copying, Probed, Booted
<1>2. UNCHANGED <<nodes, next_inode, status, mountpoint, at, entry>>
  BY DEF ReadCluster
<1>3. TableStep
  BY <1>1, <1>2, SameSpares DEF TableStep
<1>4. Sectors(cluster) \in [1 .. ClusterSize -> Byte]
  BY <1>1, SectorsAreBytes DEF Buffers
<1>5. PICK e, c, buf : e = entry /\ c = cluster' /\ buf = file_buf'
  OBVIOUS
<1>6. CASE ReadFails
  <2>1. /\ pc' = "store" /\ flawed' = TRUE /\ UNCHANGED <<file_buf, cluster>>
        /\ cluster_buf' \in {cluster_buf, Sectors(cluster)}
    BY <1>6 DEF ReadFails
  <2>2. Buffers'
    BY <1>1, <1>2, <1>4, <2>1 DEF Buffers
  <2>3. CopyOf(entry, file_buf)'
    BY <1>1, <1>2, <1>5, <2>1, ChainsStay
  <2>. QED
    BY <1>1, <1>2, <1>3, <2>1, <2>2, <2>3 DEF Copying
<1>7. CASE ReadOk
  <2>. DEFINE next == FatEntry(cluster)
  <2>1. /\ buf = file_buf \o SubSeq(Sectors(cluster), 1, CopyCount(entry.size))
        /\ cluster_buf' = Sectors(cluster) /\ file_buf' = buf
        /\ \/ pc' = "store" /\ flawed' = TRUE /\ UNCHANGED cluster
           \/ pc' = "store" /\ UNCHANGED <<cluster, flawed>>
           \/ /\ next \notin {Eoc, Free} /\ cluster' = next
              /\ pc' = IF Filled(buf) THEN "store" ELSE "chain"
              /\ UNCHANGED flawed
    BY <1>5, <1>7 DEF ReadOk, Follow
  <2>2. /\ buf \in Seq(Byte) /\ Len(buf) <= MaxData
        /\ CopyOf(e, buf)
        /\ next \notin {Eoc, Free} /\ ~Filled(buf) => Following(e, next, buf)
    BY <1>1, <1>5, <2>1, CopyGoesOn
  <2>3. next \in Cluster \cup {Eoc, Free}
    BY <1>1, FatEntryIs DEF Buffers
  <2>. HIDE DEF next
  <2>4. cluster' \in Cluster /\ flawed' \in BOOLEAN
    BY <1>1, <2>1, <2>3 DEF Buffers
  <2>5. Buffers'
    BY <1>1, <1>2, <1>4, <2>1, <2>2, <2>4 DEF Buffers
  <2>6. CopyOf(entry, file_buf)'
    BY <1>2, <1>5, <2>2, ChainsStay
  <2>7. ASSUME pc' = "chain" PROVE Following(entry, cluster, file_buf)'
    <3>1. next \notin {Eoc, Free} /\ ~Filled(buf) /\ c = next
      BY <1>5, <2>1, <2>7
    <3>. QED
      BY <1>2, <1>5, <2>2, <3>1, ChainsStay
  <2>8. pc' \in {"store", "chain"}
    BY <2>1
  <2>. QED
    BY <1>1, <1>2, <1>3, <2>5, <2>6, <2>7, <2>8 DEF Copying
<1>. QED
  BY <1>6, <1>7 DEF ReadCluster

LEMMA StoreFileKeeps ==
  ASSUME FatIInv, UNCHANGED <<disk, boot, probed>>, StoreFile
  PROVE  Buffers' /\ Copying' /\ TableStep /\ status' = status
<1>1. Buffers /\ Copying /\ WellFormed(nodes, next_inode) /\ pc = "store"
      /\ at <= ClusterSize
  BY DEF FatIInv, ShellIInv, IInv, Good, StoreFile, Copying
<1>2. PICK path \in {FilePath(entry)} :
        /\ Becomes(MadeWith(Table, path, file_buf))
        /\ Proceed(~CanCreate(nodes, path))
  BY DEF StoreFile
<1>3. path \in Path /\ file_buf \in Seq(Byte)
  BY <1>1, FilePathIsPath DEF Buffers
<1>4. Sound(Table) /\ Table.nodes = nodes
  BY <1>1 DEF Sound, Table
<1>5. TableStep
  BY <1>2, <1>3, <1>4, MadeWithIsSound, BecomesSound DEF TableStep
<1>6. (~CanCreate(nodes, path)) \in BOOLEAN
  BY DEF CanCreate
<1>. QED
  BY <1>1, <1>2, <1>5, <1>6, ProceedKeeps

(* The shell's part of the invariant when a mount is under way. *)
LEMMA ShellKept ==
  ASSUME ShellIInv, Booted, UNCHANGED <<ret, boot, current_dir>>,
         WellFormed(nodes', next_inode'), status' \in {"ok", "failed", "invalid"}
  PROVE  ShellIInv'
  BY DEF ShellIInv, IInv, Good, Booted

LEMMA MountStepKeeps ==
  ASSUME FatIInv, MountStep
  PROVE  FatIInv' /\ Spares(nodes, nodes')
<1>1. UNCHANGED <<ret, boot, current_dir, devices, probed, disk>>
  BY DEF MountStep, blockVars
<1>2. Buffers' /\ Copying' /\ TableStep /\ status' \in {"ok", status}
  BY <1>1, NextEntryKeeps, ReadClusterKeeps, StoreFileKeeps DEF MountStep
<1>3. Booted
  BY DEF FatIInv, Copying, Probed, MountStep, NextEntry, ReadCluster, StoreFile
<1>4. status \in {"ok", "failed", "invalid"} /\ ShellIInv
  BY DEF FatIInv, ShellIInv
<1>5. ShellIInv'
  BY <1>1, <1>2, <1>3, <1>4, ShellKept DEF TableStep
<1>. QED
  BY <1>1, <1>2, <1>5 DEF FatIInv, TableStep

LEMMA MountKeeps ==
  ASSUME FatIInv, Probed, NEW dev, NEW arg \in Arg, Mount(dev, arg)
  PROVE  FatIInv' /\ Spares(nodes, nodes')
<1>. DEFINE mp    == Target(arg)
            table == IF wnu_vfs_exists(nodes, mp) THEN Table ELSE Made(Table, "dir", mp)
<1>1. /\ Buffers /\ Copying /\ WellFormed(nodes, next_inode) /\ pc = "idle"
      /\ ShellIInv /\ Booted
      /\ UNCHANGED <<ret, boot, current_dir, devices, probed, disk>>
  BY DEF FatIInv, ShellIInv, IInv, Good, Mount, Probed, Unresolved, blockVars
<1>2. Probed'
  BY <1>1 DEF Probed, Booted
<1>3. ASSUME UNCHANGED locals PROVE Buffers' /\ Copying'
  BY <1>1, <1>2, <1>3 DEF locals, Buffers, Copying
<1>4. ASSUME Resolves(arg)
      PROVE  mp \in Path /\ Sound(table) /\ Spares(nodes, table.nodes)
  <2>1. mp \in Path
    BY <1>1, <1>4, TargetIsPath
  <2>2. Sound(Table) /\ Table.nodes = nodes
    BY <1>1 DEF Sound, Table
  <2>. QED
    BY <2>1, <2>2, MadeIsSound, SameSpares
<1>. HIDE DEF mp, table
<1>5. CASE Unresolved(arg) /\ UNCHANGED locals
  <2>1. UNCHANGED <<nodes, next_inode>> /\ status' = "invalid"
    BY <1>5 DEF Unresolved, Ends
  <2>2. ShellIInv'
    BY <1>1, <2>1, ShellKept
  <2>. QED
    BY <1>1, <1>3, <1>5, <2>1, <2>2, SameSpares DEF FatIInv
<1>6. CASE MountRefused
  <2>1. UNCHANGED <<nodes, next_inode, locals>> /\ status' = "failed"
    BY <1>6 DEF MountRefused, Ends
  <2>2. ShellIInv'
    BY <1>1, <2>1, ShellKept
  <2>. QED
    BY <1>1, <1>3, <2>1, <2>2, SameSpares DEF FatIInv
<1>7. CASE Resolves(arg) /\ MountBare(table)
  <2>1. Becomes(table) /\ UNCHANGED locals /\ status' = "failed"
    BY <1>7 DEF MountBare, Ends
  <2>2. WellFormed(nodes', next_inode') /\ Spares(nodes, nodes')
    BY <1>4, <1>7, <2>1, BecomesSound
  <2>3. ShellIInv'
    BY <1>1, <2>1, <2>2, ShellKept
  <2>. QED
    BY <1>1, <1>3, <2>1, <2>2, <2>3 DEF FatIInv
<1>8. CASE Resolves(arg) /\ MountStarts(table, mp)
  <2>1. /\ Becomes(table) /\ pc' = "entry" /\ mountpoint' = mp /\ at' = 1
        /\ cluster_buf' = Sectors(disk.root) /\ flawed' = FALSE
        /\ UNCHANGED <<status, entry, cluster, file_buf>>
    BY <1>8 DEF MountStarts
  <2>2. WellFormed(nodes', next_inode') /\ Spares(nodes, nodes')
    BY <1>4, <1>8, <2>1, BecomesSound
  <2>3. ShellIInv'
    BY <1>1, <2>1, <2>2, ShellKept DEF ShellIInv
  <2>4. Sectors(disk.root) \in [1 .. ClusterSize -> Byte]
    BY <1>1, SectorsAreBytes DEF Buffers
  <2>5. 1 \in 1 .. ClusterSize + 1
    BY FatAssumption
  <2>6. Buffers'
    BY <1>1, <1>4, <1>8, <2>1, <2>4, <2>5 DEF Buffers
  <2>7. Copying'
    BY <1>2, <2>1 DEF Copying
  <2>. QED
    BY <1>1, <2>2, <2>3, <2>6, <2>7 DEF FatIInv
<1>. QED
  BY <1>5, <1>6, <1>7, <1>8 DEF Mount, mp, table

-----------------------------------------------------------------------------
(* The other steps leave the buffers of the mount alone. *)

LEMMA RegisterKeeps ==
  ASSUME FatIInv, wnu_block_register, UNCHANGED <<current_dir, status, disk, locals>>
  PROVE  FatIInv' /\ Spares(nodes, nodes') /\ pc = "idle" /\ pc' = "idle"
<1>1. /\ Buffers /\ Copying /\ ShellIInv /\ Booted /\ WellFormed(nodes, next_inode)
      /\ probed \in 0 .. Len(Controllers) /\ probed < Len(Controllers)
      /\ probed' = probed + 1 /\ UNCHANGED <<ret, boot>>
  BY DEF FatIInv, ShellIInv, IInv, Good, wnu_block_register
<1>2. Controllers \in Seq(Name) /\ Len(Controllers) \in Nat
  BY BlockAssumption
<1>3. pc = "idle" /\ pc' = "idle" /\ probed' \in 0 .. Len(Controllers)
  BY <1>1, <1>2 DEF Copying, Probed, locals
<1>4. Controllers[probed + 1] \in Name
  BY <1>1, <1>2
<1>5. ASSUME NEW name \in Name
      PROVE  Sound(Mirrored(Table, name)) /\ Spares(nodes, Mirrored(Table, name).nodes)
  <2>. DEFINE made == Made(Table, "dir", <<DevDir>>)
  <2>1. <<DevDir>> \in Path /\ DevPath(name) \in Path /\ DevText \in Seq(Byte)
    BY BlockAssumption DEF DevPath, Path, Component
  <2>2. Sound(Table) /\ Table.nodes = nodes
    BY <1>1 DEF Sound, Table
  <2>3. Sound(made) /\ Spares(nodes, made.nodes)
    BY <2>1, <2>2, MadeIsSound
  <2>4. Mirrored(Table, name) = MadeWith(made, DevPath(name), DevText)
    BY DEF Mirrored
  <2>. HIDE DEF made
  <2>5. Sound(Mirrored(Table, name))
        /\ Spares(made.nodes, Mirrored(Table, name).nodes)
    BY <2>1, <2>3, <2>4, MadeWithIsSound
  <2>. QED
    BY <2>3, <2>5 DEF Spares
<1>6. WellFormed(nodes', next_inode') /\ Spares(nodes, nodes')
  <2>1. \/ Becomes(Mirrored(Table, Controllers[probed + 1]))
        \/ UNCHANGED <<nodes, next_inode>>
    BY DEF wnu_block_register
  <2>. QED
    BY <1>1, <1>4, <1>5, <2>1, BecomesSound, SameSpares
<1>7. ShellIInv'
  BY <1>1, <1>6, ShellKept DEF ShellIInv
<1>8. Buffers' /\ Copying'
  BY <1>1, <1>3 DEF locals, Buffers, Copying
<1>. QED
  BY <1>3, <1>6, <1>7, <1>8 DEF FatIInv

LEMMA ShellStepKeeps ==
  ASSUME FatIInv, BootFs \/ (pc = "idle" /\ Execute),
         UNCHANGED <<blockVars, disk, locals>>
  PROVE  FatIInv' /\ pc = "idle" /\ pc' = "idle"
<1>1. Buffers /\ Copying /\ ShellIInv /\ probed \in 0 .. Len(Controllers)
  BY DEF FatIInv
<1>2. pc = "idle" /\ pc' = "idle"
  <2>1. BootFs => ~Booted
    BY VfsAssumption DEF BootFs, BootStep, Booted
  <2>. QED
    BY <1>1, <2>1 DEF Copying, Probed, locals
<1>3. ShellIInv'
  BY <1>1, StepOutcome DEF ShellNext
<1>4. Buffers' /\ Copying'
  BY <1>1, <1>2 DEF locals, Buffers, Copying
<1>. QED
  BY <1>1, <1>2, <1>3, <1>4 DEF FatIInv, blockVars

LEMMA StutterKeeps ==
  ASSUME FatIInv, UNCHANGED fatVars
  PROVE  FatIInv'
<1>1. UNCHANGED <<shellVars, blockVars, disk, locals>>
  BY DEF fatVars
<1>2. ShellIInv'
  BY <1>1, StepOutcome DEF FatIInv
<1>3. Buffers'
  BY <1>1 DEF FatIInv, Buffers, locals
<1>4. Copying'
  <2>1. UNCHANGED <<pc, at, entry, cluster, file_buf, disk, probed, boot>>
    BY <1>1 DEF locals, blockVars, shellVars
  <2>2. CopyOf(entry, file_buf) => CopyOf(entry, file_buf)'
    BY <2>1, ChainsStay
  <2>3. Following(entry, cluster, file_buf) => Following(entry, cluster, file_buf)'
    BY <2>1, ChainsStay
  <2>. QED
    BY <2>1, <2>2, <2>3 DEF FatIInv, Copying, Probed, Booted
<1>. QED
  BY <1>1, <1>2, <1>3, <1>4 DEF FatIInv, blockVars

LEMMA FatStep ==
  ASSUME FatIInv, [FatNext]_fatVars
  PROVE  /\ FatIInv'
         /\ pc # "idle" \/ pc' # "idle" => UNCHANGED fatVars \/ Spares(nodes, nodes')
<1>1. CASE BootFs /\ UNCHANGED <<blockVars, disk, locals>>
  BY <1>1, ShellStepKeeps
<1>2. CASE wnu_block_register /\ UNCHANGED <<current_dir, status, disk, locals>>
  BY <1>2, RegisterKeeps
<1>3. CASE Probed /\ pc = "idle" /\ Execute /\ UNCHANGED <<blockVars, disk, locals>>
  BY <1>3, ShellStepKeeps
<1>4. CASE Probed /\ \E dev \in DevArg, arg \in Arg : Mount(dev, arg)
  BY <1>4, MountKeeps
<1>5. CASE MountStep
  BY <1>5, MountStepKeeps
<1>6. CASE UNCHANGED fatVars
  BY <1>6, StutterKeeps
<1>. QED
  BY <1>1, <1>2, <1>3, <1>4, <1>5, <1>6 DEF FatNext

LEMMA FatInitGood == FatInit => FatIInv
<1>. SUFFICES ASSUME FatInit PROVE FatIInv
  OBVIOUS
<1>1. ShellIInv
  BY InitGood, RootIsPath, ShellAssumption, VfsAssumption
     DEF FatInit, ShellInit, ShellIInv, IInv, Init
<1>2. Blank \in [1 .. ClusterSize -> Byte]
  BY VfsAssumption DEF Blank
<1>3. NoEntry \in Entry32
  BY RootIsPath DEF NoEntry, Entry32, Cluster, Path
<1>4. 1 \in 1 .. ClusterSize + 1 /\ <<>> \in Seq(Byte) /\ Len(<<>>) <= MaxData
  BY FatAssumption
<1>5. Buffers
  BY <1>2, <1>3, <1>4, RootIsPath DEF FatInit, Buffers, Cluster
<1>6. Copying
  BY DEF FatInit, Copying
<1>7. probed \in 0 .. Len(Controllers)
  BY BlockAssumption DEF FatInit
<1>. QED
  BY <1>1, <1>5, <1>6, <1>7 DEF FatIInv

LEMMA FatInvariance == FatSpec => []FatIInv
<1>1. FatInit => FatIInv
  BY FatInitGood
<1>2. FatIInv /\ [FatNext]_fatVars => FatIInv'
  BY FatStep
<1>. QED
  BY <1>1, <1>2, PTL DEF FatSpec

-----------------------------------------------------------------------------
(* The theorems. *)

(* The buffers of a mount never overflow, and the node table keeps its types,
   whatever is on the disk. *)
THEOREM FatTypeCorrect == FatSpec => []FatTypeOK
<1>1. FatIInv => FatTypeOK
  <2>1. ShellIInv => ShellTypeOK
    BY DEF ShellIInv, IInv, Good, WellFormed, Result, TypeOK, ShellTypeOK
  <2>. QED
    BY <2>1 DEF FatIInv, Buffers, Copying, FatTypeOK
<1>. QED
  BY <1>1, FatInvariance, PTL

(* The names on a disk are whatever somebody wrote there, and the paths made of
   them are cut at the end of a buffer: the table is still a tree at every step
   of a mount, the steps between its entries included. *)
THEOREM MountKeepsTree ==
  FatSpec => [](TreeShape /\ InodesUnique /\ TreeShowsPlainPaths)
<1>1. FatIInv => TreeShape /\ InodesUnique /\ TreeShowsPlainPaths
  BY TreeIsWhole DEF FatIInv, ShellIInv
<1>. QED
  BY <1>1, FatInvariance, PTL

(* What is stored of a file is the beginning of its chain of clusters, also of
   a chain that returns to itself and after a read that failed. *)
THEOREM CopiesTheChain == FatSpec => []CopyFollowsChain
<1>1. FatIInv => CopyFollowsChain
  BY DEF FatIInv, Copying, CopyOf, SlotAt, CopyFollowsChain
<1>. QED
  BY <1>1, FatInvariance, PTL

(* A mount leaves every file alone that was there before it, however its own
   names are cut. *)
THEOREM MountSpares == FatSpec => MountOverwritesNothing
<1>1. FatIInv /\ [FatNext]_fatVars =>
        [pc # "idle" \/ pc' # "idle" =>
           \A i \in Used(nodes) : nodes'[i] = nodes[i]]_fatVars
  BY FatStep DEF Spares
<1>. QED
  BY <1>1, FatInvariance, PTL DEF FatSpec, MountOverwritesNothing

-----------------------------------------------------------------------------
(* How long a mount can take. *)

(* What k entries of a directory can cost: of a chain that returns to itself no
   more is read than the buffer of a file can hold. *)
Rest(k) == k * (MaxData + 3)

LEMMA RestIs ==
  ASSUME NEW k \in Nat
  PROVE  /\ Rest(k) \in Nat
         /\ Rest(k + 1) = Rest(k) + (MaxData + 3)
         /\ \A n \in Nat : k <= n => Rest(k) <= Rest(n)
<1>1. MaxData + 3 \in Nat
  BY VfsAssumption
<1>. DEFINE cost == MaxData + 3
<1>2. cost \in Nat /\ \A n : Rest(n) = n * cost
  BY <1>1 DEF Rest
<1>. HIDE DEF cost
<1>3. Rest(k) \in Nat
  BY <1>2
<1>4. Rest(k + 1) = Rest(k) + cost
  BY <1>2
<1>5. ASSUME NEW n \in Nat, k <= n PROVE Rest(k) <= Rest(n)
  <2>1. (n - k) * cost \in Nat /\ n * cost = k * cost + (n - k) * cost
    BY <1>2, <1>5
  <2>. QED
    BY <1>2, <1>3, <2>1
<1>. QED
  BY <1>3, <1>4, <1>5 DEF cost

(* How many steps the mount has left at most. *)
MountLeft ==
  CASE pc = "entry" -> Rest(ClusterSize + 1 - at) + 1
    [] pc = "chain" -> Rest(ClusterSize - at) + (MaxData - Len(file_buf)) + 3
    [] pc = "store" -> Rest(ClusterSize - at) + 2
    [] OTHER        -> 0

(* While a mount is under way every step is one of it, and leaves it fewer
   steps: the shell has its prompt back after at most MaxData + 3 steps for
   every slot of the root cluster, also when a chain of the FAT is a ring.
   This is what MountEnds rests on besides fairness. *)
EveryStepNearsThePrompt ==
  [][pc # "idle" => MountStep /\ MountLeft' < MountLeft]_fatVars

(* With r for the slots behind this one, and d for the room in the buffer. *)
LEMMA MountLeftIs ==
  ASSUME Buffers
  PROVE  /\ pc = "entry" /\ at <= ClusterSize =>
              MountLeft = Rest(ClusterSize - at) + (MaxData + 3) + 1
         /\ pc = "entry" => MountLeft = Rest(ClusterSize + 1 - at) + 1
         /\ pc = "chain" =>
              MountLeft = Rest(ClusterSize - at) + (MaxData - Len(file_buf)) + 3
         /\ pc = "store" => MountLeft = Rest(ClusterSize - at) + 2
         /\ pc = "idle" => MountLeft = 0
<1>1. ASSUME pc = "entry", at <= ClusterSize
      PROVE  Rest(ClusterSize + 1 - at) = Rest(ClusterSize - at) + (MaxData + 3)
  <2>1. ClusterSize - at \in Nat /\ ClusterSize + 1 - at = (ClusterSize - at) + 1
    BY <1>1, FatAssumption DEF Buffers
  <2>. QED
    BY <2>1, RestIs
<1>. QED
  BY <1>1 DEF MountLeft

LEMMA MountLeftBounded ==
  ASSUME FatIInv
  PROVE  MountLeft \in 0 .. Rest(ClusterSize) + 1
<1>1. /\ ClusterSize \in Nat \ {0} /\ MaxData \in Nat /\ at \in 1 .. ClusterSize + 1
      /\ Len(file_buf) \in Nat /\ Len(file_buf) <= MaxData /\ Buffers
      /\ pc \in {"idle", "entry", "chain", "store"}
      /\ pc \in {"chain", "store"} => at <= ClusterSize
  BY FatAssumption DEF FatIInv, Buffers, Copying
<1>2. PICK l \in Nat : l = Len(file_buf)
  BY <1>1
<1>3. Rest(ClusterSize) \in Nat
  BY <1>1, RestIs
<1>4. CASE pc = "idle"
  BY <1>1, <1>3, <1>4, MountLeftIs
<1>5. CASE pc = "entry"
  <2>1. ClusterSize + 1 - at \in Nat /\ ClusterSize + 1 - at <= ClusterSize
    BY <1>1
  <2>2. Rest(ClusterSize + 1 - at) \in Nat
        /\ Rest(ClusterSize + 1 - at) <= Rest(ClusterSize)
    BY <1>1, <2>1, RestIs
  <2>. QED
    BY <1>1, <1>3, <1>5, <2>2, MountLeftIs
<1>6. CASE pc \in {"chain", "store"}
  <2>1. PICK k \in Nat : k = ClusterSize - at /\ k + 1 <= ClusterSize
    BY <1>1, <1>6
  <2>2. PICK r \in Nat : r = Rest(k) /\ Rest(k + 1) = r + (MaxData + 3)
    BY <2>1, RestIs
  <2>3. Rest(k + 1) <= Rest(ClusterSize)
    <3>1. k + 1 \in Nat /\ ClusterSize \in Nat
      BY <1>1, <2>1
    <3>. QED
      BY <2>1, <3>1, RestIs
  <2>4. PICK full \in Nat : full = Rest(ClusterSize) /\ r + (MaxData + 3) <= full
    BY <1>3, <2>2, <2>3
  <2>5. MountLeft \in {r + (MaxData - l) + 3, r + 2}
    BY <1>1, <1>2, <1>6, <2>1, <2>2, MountLeftIs
  <2>6. r + (MaxData - l) + 3 \in 0 .. full + 1 /\ r + 2 \in 0 .. full + 1
    <3>1. /\ l \in Nat /\ MaxData \in Nat /\ l <= MaxData
          /\ r \in Nat /\ full \in Nat /\ r + (MaxData + 3) <= full
      BY <1>1, <1>2, <2>2, <2>4
    <3>. QED
      BY <3>1
  <2>. QED
    BY <2>4, <2>5, <2>6, Zenon
<1>. QED
  BY <1>1, <1>4, <1>5, <1>6

LEMMA NextEntryNears ==
  ASSUME FatIInv, FatIInv', NextEntry
  PROVE  MountLeft' < MountLeft
<1>1. /\ ClusterSize \in Nat \ {0} /\ MaxData \in Nat /\ at \in 1 .. ClusterSize + 1
      /\ Buffers /\ Buffers' /\ pc = "entry"
  BY FatAssumption DEF FatIInv, Buffers, NextEntry
<1>2. PICK k \in Nat : k = ClusterSize + 1 - at
  BY <1>1
<1>3. MountLeft = Rest(k) + 1 /\ Rest(k) \in Nat
  BY <1>1, <1>2, MountLeftIs, RestIs
<1>4. CASE pc' = "idle"
  <2>1. MountLeft' = 0
    BY <1>4 DEF MountLeft
  <2>. QED
    BY <1>3, <2>1
<1>5. CASE at <= ClusterSize /\ pc' = "entry" /\ at' = at + 1
  <2>1. PICK h \in Nat : h = ClusterSize - at /\ k = h + 1 /\ h = ClusterSize + 1 - at'
    BY <1>1, <1>2, <1>5
  <2>2. MountLeft' = Rest(h) + 1
    BY <1>5, <2>1 DEF MountLeft
  <2>. QED
    BY <1>1, <1>3, <2>1, <2>2, RestIs
<1>6. CASE at <= ClusterSize /\ pc' = "chain" /\ at' = at /\ file_buf' = <<>>
  <2>1. PICK h \in Nat : h = ClusterSize - at /\ k = h + 1
    BY <1>1, <1>2, <1>6
  <2>2. MountLeft' = Rest(h) + (MaxData - 0) + 3
    <3>1. Len(file_buf') = 0
      BY <1>6
    <3>. QED
      BY <1>6, <2>1, <3>1 DEF MountLeft
  <2>. QED
    BY <1>1, <1>3, <2>1, <2>2, RestIs
<1>7. \/ pc' = "idle"
      \/ at <= ClusterSize /\ pc' = "entry" /\ at' = at + 1
      \/ at <= ClusterSize /\ pc' = "chain" /\ at' = at /\ file_buf' = <<>>
  BY DEF NextEntry, EndMount, Proceed
<1>. QED
  BY <1>4, <1>5, <1>6, <1>7

LEMMA ReadClusterNears ==
  ASSUME FatIInv, ReadCluster
  PROVE  MountLeft' < MountLeft
<1>1. /\ ClusterSize \in Nat \ {0} /\ MaxData \in Nat /\ at \in 1 .. ClusterSize
      /\ Buffers /\ pc = "chain" /\ at' = at
      /\ file_buf \in Seq(Byte) /\ Len(file_buf) \in Nat /\ Len(file_buf) < MaxData
      /\ CopyOf(entry, file_buf) /\ Following(entry, cluster, file_buf)
  <2>1. ClusterSize \in Nat \ {0} /\ MaxData \in Nat
    BY FatAssumption
  <2>2. Buffers /\ Copying /\ pc = "chain" /\ at' = at
    BY DEF FatIInv, ReadCluster
  <2>3. /\ at <= ClusterSize
        /\ CopyOf(entry, file_buf) /\ Following(entry, cluster, file_buf)
    BY <2>2 DEF Copying
  <2>4. Len(file_buf) < MaxData
    BY <2>3 DEF Following
  <2>5. at \in 1 .. ClusterSize + 1 /\ file_buf \in Seq(Byte) /\ Len(file_buf) \in Nat
    BY <2>2 DEF Buffers
  <2>. QED
    BY <2>1, <2>2, <2>3, <2>4, <2>5
<1>2. PICK l \in Nat : l = Len(file_buf)
  BY <1>1
<1>3. PICK k \in Nat : k = ClusterSize - at
  BY <1>1
<1>4. PICK r \in Nat : r = Rest(k)
  BY RestIs
<1>5. MountLeft = r + (MaxData - l) + 3
  BY <1>1, <1>2, <1>3, <1>4, MountLeftIs
<1>6. CASE pc' = "store"
  <2>1. MountLeft' = r + 2
    BY <1>1, <1>3, <1>4, <1>6 DEF MountLeft
  <2>2. r + 2 < r + (MaxData - l) + 3
    <3>1. l < MaxData
      BY <1>1, <1>2
    <3>. QED
      BY <1>1, <1>2, <1>4, <3>1
  <2>. QED
    BY <1>5, <2>1, <2>2, Zenon
<1>7. CASE pc' = "chain" /\ ReadOk
  <2>1. PICK buf : /\ buf = file_buf'
                   /\ buf = file_buf \o SubSeq(Sectors(cluster), 1, CopyCount(entry.size))
    BY <1>7 DEF ReadOk
  <2>2. buf \in Seq(Byte) /\ Len(buf) <= MaxData /\ Len(file_buf) < Len(buf)
    BY <1>1, <2>1, CopyGoesOn
  <2>3. PICK n \in Nat : n = Len(buf) /\ n <= MaxData /\ l < n
    BY <1>2, <2>2
  <2>4. MountLeft' = r + (MaxData - n) + 3
    BY <1>1, <1>3, <1>4, <1>7, <2>1, <2>3 DEF MountLeft
  <2>5. r + (MaxData - n) + 3 < r + (MaxData - l) + 3
    <3>1. /\ l \in Nat /\ MaxData \in Nat /\ n \in Nat /\ r \in Nat
          /\ n <= MaxData /\ l < n
      BY <1>1, <1>2, <1>4, <2>3
    <3>. QED
      BY <3>1
  <2>. QED
    BY <1>5, <2>4, <2>5, Zenon
<1>8. pc' = "store" \/ (pc' = "chain" /\ ReadOk)
  <2>1. ReadFails => pc' = "store"
    BY DEF ReadFails
  <2>2. ReadOk => pc' \in {"store", "chain"}
    BY DEF ReadOk
  <2>. QED
    BY <2>1, <2>2 DEF ReadCluster
<1>. QED
  BY <1>6, <1>7, <1>8

LEMMA StoreFileNears ==
  ASSUME FatIInv, StoreFile
  PROVE  MountLeft' < MountLeft
<1>1. /\ ClusterSize \in Nat \ {0} /\ at \in 1 .. ClusterSize
      /\ Buffers /\ pc = "store" /\ pc' = "entry" /\ at' = at + 1
  BY FatAssumption DEF FatIInv, Buffers, Copying, StoreFile, Proceed
<1>2. PICK k \in Nat : k = ClusterSize - at /\ k = ClusterSize + 1 - at'
  BY <1>1
<1>3. Rest(k) \in Nat
  BY RestIs
<1>4. MountLeft = Rest(k) + 2 /\ MountLeft' = Rest(k) + 1
  BY <1>1, <1>2 DEF MountLeft
<1>. QED
  BY <1>3, <1>4

(* Only the mount itself goes on while a mount is under way: the boot is over,
   no device is registered any more, and the shell waits. *)
LEMMA MountIsAlone ==
  ASSUME FatIInv, FatNext, pc # "idle"
  PROVE  MountStep
<1>1. Probed /\ Booted /\ Len(Controllers) \in Nat
  BY BlockAssumption DEF FatIInv, Copying, Probed
<1>2. ~BootFs
  BY <1>1, VfsAssumption DEF BootFs, BootStep, Booted
<1>3. ~wnu_block_register
  BY <1>1 DEF wnu_block_register, Probed
<1>. QED
  BY <1>2, <1>3 DEF FatNext, Mount

(* The measure is a natural number below a fixed bound at every state, and goes
   down with every step, whatever is on the disk and whichever reads fail. *)
THEOREM MountsAreBounded ==
  FatSpec => [](MountLeft \in 0 .. Rest(ClusterSize) + 1) /\ EveryStepNearsThePrompt
<1>1. FatIInv => MountLeft \in 0 .. Rest(ClusterSize) + 1
  BY MountLeftBounded
<1>2. FatIInv /\ [FatNext]_fatVars =>
        [pc # "idle" => MountStep /\ MountLeft' < MountLeft]_fatVars
  <2>. SUFFICES ASSUME FatIInv, FatNext, pc # "idle"
                PROVE  MountStep /\ MountLeft' < MountLeft
    OBVIOUS
  <2>1. MountStep
    BY MountIsAlone
  <2>2. FatIInv'
    BY FatStep
  <2>. QED
    BY <2>1, <2>2, NextEntryNears, ReadClusterNears, StoreFileNears DEF MountStep
<1>. QED
  BY <1>1, <1>2, FatInvariance, PTL DEF FatSpec, EveryStepNearsThePrompt

-----------------------------------------------------------------------------
(* Which files of a disk a mount brings. *)

RootEntry(n) == AsEntry[Sectors(disk.root)[n]]

(* Nothing is read over the directory for the entry in slot n. *)
LeavesDirectory(n) ==
  \/ RootEntry(n) = [kind |-> "skip"]
  \/ RootEntry(n) \in Entry32 /\ RootEntry(n).size = 0

(* The entries up to the first one with content, that one included. *)
Due ==
  {n \in 1 .. ClusterSize : /\ RootEntry(n) \in Entry32
                            /\ \A m \in 1 .. n - 1 : LeavesDirectory(m)}

Arrived(n) ==
  \E i \in Used(nodes) : /\ nodes[i].path = FilePath(RootEntry(n))
                         /\ nodes[i].type = "file"
                         /\ Whole(RootEntry(n), Content(nodes[i]))

(* The loop over the entries either still reads the directory, or it is past
   all that is due. *)
Arriving ==
  /\ pc # "idle" /\ ~flawed => \A n \in Due : n < at => Arrived(n)
  /\ pc = "entry" =>
       \/ /\ cluster_buf = Sectors(disk.root)
          /\ \A i \in 1 .. at - 1 : LeavesDirectory(i)
       \/ \A n \in Due : n < at
  /\ pc \in {"chain", "store"} =>
       \A n \in Due : n <= at /\ (n = at => entry = RootEntry(n))
  /\ pc = "store" /\ ~flawed => Whole(entry, file_buf)

(* What RootFilesAppear promises of all files of a root directory the code
   keeps for those up to the first one that is not empty: at the end of every
   mount that reports no failure they are in the table, and each has all that
   its chain holds of it.  That one file is read over the directory
   (src/src/fs/fat32.c:128), and what comes after it is a matter of luck. *)
FirstFilesAppear ==
  [][pc = "entry" /\ pc' = "idle" /\ ~flawed => \A n \in Due : Arrived(n)]_fatVars

(* A file that a table has under a path, with its content. *)
Holds(ns, path, content) ==
  \E i \in Used(ns) : /\ ns[i].path = path
                      /\ ns[i].type = "file"
                      /\ Content(ns[i]) = content

LEMMA MadeHolds ==
  ASSUME NEW table, Sound(table), NEW path \in Path, CanCreate(table.nodes, path)
  PROVE  Holds(Made(table, "file", path).nodes, path, <<>>)
<1>. DEFINE ms == Created(table.nodes, table.inode, "file", path)
<1>1. Made(table, "file", path).nodes = ms
  BY DEF Made
<1>2. UniquePaths(ms)
  BY CreatedKeepsTable DEF Sound, WellFormed
<1>3. Files(ms) = WithEntry(Files(table.nodes), "file", path)
  BY FilesCreated DEF Sound
<1>4. path \in DOMAIN Files(ms)
      /\ Files(ms)[path] = [type |-> "file", content |-> <<>>]
  BY <1>3 DEF WithEntry
<1>. HIDE DEF ms
<1>5. PICK i \in Used(ms) : ms[i].path = path /\ EntryOf(ms[i]) = Files(ms)[path]
  BY <1>2, <1>4, FilesOf
<1>. QED
  BY <1>1, <1>4, <1>5 DEF EntryOf, Holds

LEMMA MadeWithHolds ==
  ASSUME NEW table, Sound(table), NEW path \in Path,
         NEW text \in Seq(Byte), Len(text) <= MaxData, CanCreate(table.nodes, path)
  PROVE  Holds(MadeWith(table, path, text).nodes, path, text)
<1>. DEFINE made == Created(table.nodes, table.inode, "file", path)
            ms   == Stored(made, path, 0, text)
<1>1. MadeWith(table, path, text).nodes = ms
  BY DEF Made, MadeWith
<1>2. WellFormed(made, table.inode + 1) /\ IsOpenable(made, path)
  BY CreatedKeepsTable, CreatedKeepsDirs DEF Sound
<1>3. Files(made) = WithEntry(Files(table.nodes), "file", path)
  BY FilesCreated DEF Sound
<1>4. path \in DOMAIN Files(made) /\ Files(made)[path].type = "file"
  BY <1>3 DEF WithEntry
<1>5. Files(made)[path] = [type |-> "file", content |-> <<>>]
  BY <1>3 DEF WithEntry
<1>. HIDE DEF made
<1>6. 0 \in 0 .. MaxData
  BY VfsAssumption
<1>7. Kept(text, MaxData) = text
  <2>1. Len(text) \in Nat /\ {MaxData, Len(text)} \in SUBSET Nat
    BY VfsAssumption
  <2>2. Min({MaxData, Len(text)}) = Len(text)
    <3>1. Min({MaxData, Len(text)}) \in {MaxData, Len(text)}
          /\ \A n \in {MaxData, Len(text)} : Min({MaxData, Len(text)}) <= n
      BY <2>1, MinIn
    <3>. QED
      BY <2>1, <3>1, VfsAssumption
  <2>3. SubSeq(text, 1, Len(text)) = text
    OBVIOUS
  <2>. QED
    BY <2>2, <2>3 DEF Kept
<1>8. Files(ms) = WithContent(Files(made), path, text)
  BY <1>2, <1>6, <1>7, FilesStored
<1>9. path \in DOMAIN Files(ms)
      /\ Files(ms)[path] = [type |-> "file", content |-> text]
  BY <1>4, <1>5, <1>8 DEF WithContent
<1>10. UniquePaths(ms)
  BY <1>2, <1>6, StoredKeepsTable DEF WellFormed
<1>. HIDE DEF ms
<1>11. PICK i \in Used(ms) : ms[i].path = path /\ EntryOf(ms[i]) = Files(ms)[path]
  BY <1>9, <1>10, FilesOf
<1>. QED
  BY <1>1, <1>9, <1>11 DEF EntryOf, Holds

(* What is due does not change while a mount is under way. *)
LEMMA DueStays ==
  ASSUME UNCHANGED disk
  PROVE  /\ Due' = Due
         /\ \A n : RootEntry(n)' = RootEntry(n)
         /\ \A n : LeavesDirectory(n)' = LeavesDirectory(n)
<1>1. \A n : RootEntry(n)' = RootEntry(n)
  BY DEF RootEntry, Sectors
<1>2. \A n : LeavesDirectory(n)' = LeavesDirectory(n)
  BY <1>1 DEF LeavesDirectory
<1>3. Due' = Due
  BY <1>1, <1>2 DEF Due
<1>. QED
  BY <1>1, <1>2, <1>3

(* An entry has arrived as soon as its file is there with all of its chain. *)
LEMMA ArrivesWhole ==
  ASSUME UNCHANGED <<disk, mountpoint>>, NEW n, NEW e, e = RootEntry(n),
         NEW buf, Holds(nodes', FilePath(e), buf), Whole(e, buf)
  PROVE  Arrived(n)'
<1>1. RootEntry(n)' = e
  BY DueStays
<1>2. FilePath(RootEntry(n))' = FilePath(e)
  BY <1>1 DEF FilePath
<1>3. PICK i \in Used(nodes') : /\ nodes'[i].path = FilePath(e)
                                /\ nodes'[i].type = "file"
                                /\ Content(nodes'[i]) = buf
  BY DEF Holds
<1>4. Whole(RootEntry(n), Content(nodes[i]))'
  <2>1. Chain(RootEntry(n))' = Chain(e)
    BY <1>1 DEF Chain, FatEntry
  <2>2. \A c : Sectors(c)' = Sectors(c) /\ FatEntry(c)' = FatEntry(c)
    BY DEF Sectors, FatEntry
  <2>3. \A k : SlotAt(RootEntry(n), k)' = SlotAt(e, k)
    BY <2>1, <2>2 DEF SlotAt
  <2>4. Content(nodes[i])' = buf
    BY <1>3
  <2>. QED
    BY <1>1, <2>1, <2>2, <2>3, <2>4 DEF Whole, CopyOf
<1>. QED
  BY <1>2, <1>3, <1>4 DEF Arrived

LEMMA ArrivedStays ==
  ASSUME Spares(nodes, nodes'), UNCHANGED <<disk, mountpoint>>, NEW n, Arrived(n)
  PROVE  Arrived(n)'
<1>1. PICK i \in Used(nodes) : /\ nodes[i].path = FilePath(RootEntry(n))
                               /\ nodes[i].type = "file"
                               /\ Whole(RootEntry(n), Content(nodes[i]))
  BY DEF Arrived
<1>2. PICK e, buf : e = RootEntry(n) /\ buf = Content(nodes[i])
  OBVIOUS
<1>3. i \in Used(nodes') /\ nodes'[i] = nodes[i]
  BY DEF Spares
<1>4. Holds(nodes', FilePath(e), buf)
  BY <1>1, <1>2, <1>3 DEF Holds
<1>. QED
  BY <1>1, <1>2, <1>4, ArrivesWhole

(* Nothing is due behind an entry that is read over the directory or ends it. *)
LEMMA NothingDueBehind ==
  ASSUME NEW k \in 1 .. ClusterSize, ~LeavesDirectory(k)
  PROVE  \A n \in Due : n <= k
  BY FatAssumption DEF Due

LEMMA TagsAreNoEntries ==
  [kind |-> "end"] \notin Entry32 /\ [kind |-> "skip"] \notin Entry32
  BY DEF Entry32

LEMMA NextEntryArrives ==
  ASSUME FatIInv, Arriving, NextEntry, UNCHANGED disk, Spares(nodes, nodes')
  PROVE  Arriving'
<1>1. /\ Buffers /\ pc = "entry" /\ ClusterSize \in Nat \ {0}
      /\ at \in 1 .. ClusterSize + 1
      /\ Sound(Table) /\ Table.nodes = nodes
  BY FatAssumption DEF FatIInv, Buffers, NextEntry, ShellIInv, IInv, Good, Sound, Table
<1>2. ~flawed => \A n \in Due : n < at => Arrived(n)
  BY <1>1 DEF Arriving
<1>. DEFINE reading == /\ cluster_buf = Sectors(disk.root)
                       /\ \A i \in 1 .. at - 1 : LeavesDirectory(i)
            past    == \A n \in Due : n < at
<1>3. reading \/ past
  BY <1>1 DEF Arriving
<1>4. CASE EndMount
  BY <1>4 DEF EndMount, Arriving
<1>5. CASE at <= ClusterSize /\ pc' = "chain"
  <2>1. /\ entry' = Current /\ Current \in Entry32 /\ Current.size > 0
        /\ UNCHANGED <<mountpoint, cluster_buf, at, flawed, nodes>>
    BY <1>1, <1>5 DEF NextEntry, EndMount, Proceed
  <2>2. /\ Due' = Due /\ \A n : RootEntry(n)' = RootEntry(n)
        /\ \A n : Arrived(n) => Arrived(n)'
    BY <2>1, DueStays, ArrivedStays
  <2>3. ASSUME NEW n \in Due PROVE n <= at /\ (n = at => Current = RootEntry(n))
    <3>1. n \in 1 .. ClusterSize
      BY DEF Due
    <3>2. CASE past
      BY <1>1, <3>1, <3>2
    <3>3. CASE reading
      <4>1. Current = RootEntry(at)
        BY <3>3 DEF Current, RootEntry
      <4>2. ~LeavesDirectory(at)
        BY <2>1, <4>1, TagsAreNoEntries DEF LeavesDirectory, Entry32
      <4>. QED
        BY <1>1, <1>5, <4>1, <4>2, NothingDueBehind
    <3>. QED
      BY <1>3, <3>2, <3>3
  <2>. QED
    BY <1>2, <1>5, <2>1, <2>2, <2>3 DEF Arriving
<1>6. CASE at <= ClusterSize /\ pc' = "entry"
  <2>1. at' = at + 1 /\ UNCHANGED <<mountpoint, cluster_buf>>
    BY <1>6 DEF NextEntry, EndMount, Proceed
  <2>2. /\ Due' = Due /\ \A n : RootEntry(n)' = RootEntry(n)
        /\ \A n : LeavesDirectory(n)' = LeavesDirectory(n)
        /\ \A n : Arrived(n) => Arrived(n)'
    BY <2>1, DueStays, ArrivedStays
  <2>3. flawed => flawed'
    BY <1>6 DEF NextEntry, EndMount, Proceed
  <2>4. \/ Current = [kind |-> "skip"]
        \/ /\ Current \in Entry32 /\ Current.size = 0
           /\ ~flawed' => Holds(nodes', FilePath(Current), <<>>)
        \/ flawed' /\ Current \in Entry32 /\ Current.size > 0
    <3>1. ASSUME NEW path \in {FilePath(Current)}, Current \in Entry32,
                 Becomes(Made(Table, "file", path)), Proceed(~CanCreate(nodes, path)),
                 ~flawed'
          PROVE  Holds(nodes', FilePath(Current), <<>>)
      <4>1. CanCreate(nodes, path) /\ path = FilePath(Current)
        BY <3>1 DEF Proceed
      <4>2. path \in Path
        BY <1>1, <3>1, FilePathIsPath DEF Buffers
      <4>3. nodes' = Made(Table, "file", path).nodes
        BY <3>1 DEF Becomes
      <4>. QED
        BY <1>1, <4>1, <4>2, <4>3, MadeHolds
    <3>. QED
      BY <1>6, <3>1 DEF NextEntry, EndMount, Proceed
  <2>5. ASSUME NEW n \in Due, n < at + 1, ~flawed' PROVE Arrived(n)'
    <3>1. n \in 1 .. ClusterSize /\ RootEntry(n) \in Entry32
      BY DEF Due
    <3>2. CASE n < at
      BY <1>2, <2>2, <2>3, <2>5, <3>2
    <3>3. CASE n = at
      <4>1. reading /\ Current = RootEntry(at)
        BY <1>1, <1>3, <3>1, <3>3 DEF Current, RootEntry
      <4>2. PICK e \in Entry32 : e = RootEntry(n)
        BY <3>1
      <4>3. e = Current
        BY <3>3, <4>1, <4>2
      <4>4. Holds(nodes', FilePath(e), <<>>) /\ e.size = 0
        BY <2>4, <2>5, <4>2, <4>3, TagsAreNoEntries
      <4>5. Whole(e, <<>>)
        <5>1. Len(<<>>) = 0 /\ \A k \in 1 .. 0 : FALSE
          OBVIOUS
        <5>. QED
          BY <4>4, <5>1 DEF Whole, CopyOf
      <4>. QED
        BY <2>1, <4>2, <4>4, <4>5, ArrivesWhole
    <3>. QED
      BY <1>1, <2>5, <3>1, <3>2, <3>3
  <2>6. \/ /\ cluster_buf' = Sectors(disk.root)'
           /\ \A i \in 1 .. at' - 1 : LeavesDirectory(i)'
        \/ \A n \in Due : n < at'
    <3>1. CASE past
      <4>1. \A n \in Due : n < at + 1
        BY <1>1, <3>1 DEF Due
      <4>. QED
        BY <2>1, <4>1
    <3>2. CASE reading /\ LeavesDirectory(at)
      <4>1. \A i \in 1 .. (at + 1) - 1 : LeavesDirectory(i)
        BY <1>1, <3>2
      <4>2. Sectors(disk.root)' = Sectors(disk.root)
        BY DEF Sectors
      <4>. QED
        BY <2>1, <2>2, <3>2, <4>1, <4>2
    <3>3. CASE reading /\ ~LeavesDirectory(at)
      <4>1. \A n \in Due : n <= at
        BY <1>1, <1>6, <3>3, NothingDueBehind
      <4>2. \A n \in Due : n < at + 1
        BY <1>1, <4>1 DEF Due
      <4>. QED
        BY <2>1, <4>2
    <3>. QED
      BY <1>3, <3>1, <3>2, <3>3
  <2>. QED
    BY <1>6, <2>1, <2>2, <2>5, <2>6 DEF Arriving
<1>7. EndMount \/ (at <= ClusterSize /\ pc' \in {"chain", "entry"})
  BY DEF NextEntry, Proceed
<1>. QED
  BY <1>4, <1>5, <1>6, <1>7

LEMMA ReadClusterArrives ==
  ASSUME FatIInv, Arriving, ReadCluster, UNCHANGED disk, Spares(nodes, nodes')
  PROVE  Arriving'
<1>1. /\ UNCHANGED <<mountpoint, at, entry>> /\ pc = "chain"
      /\ pc' \in {"chain", "store"} /\ (flawed => flawed')
      /\ Buffers /\ CopyOf(entry, file_buf) /\ Following(entry, cluster, file_buf)
  BY DEF FatIInv, Buffers, Copying, ReadCluster, ReadFails, ReadOk
<1>2. /\ Due' = Due /\ \A n : RootEntry(n)' = RootEntry(n)
      /\ \A n : Arrived(n) => Arrived(n)'
  BY <1>1, DueStays, ArrivedStays
<1>3. ASSUME pc' = "store", ~flawed' PROVE Whole(entry, file_buf)'
  <2>1. PICK e, c, buf : e = entry /\ c = cluster' /\ buf = file_buf'
    OBVIOUS
  <2>2. ReadOk
    BY <1>3 DEF ReadCluster, ReadFails
  <2>3. buf = file_buf \o SubSeq(Sectors(cluster), 1, CopyCount(entry.size))
    BY <2>1, <2>2 DEF ReadOk
  <2>4. FatEntry(cluster) \in {Eoc, Free} \/ Filled(buf)
    BY <1>3, <2>2, <2>3 DEF ReadOk
  <2>5. Whole(e, buf)
    BY <1>1, <2>1, <2>3, <2>4, CopyGoesOn
  <2>. QED
    BY <1>1, <2>1, <2>5, ChainsStay
<1>. QED
  BY <1>1, <1>2, <1>3 DEF Arriving

LEMMA StoreFileArrives ==
  ASSUME FatIInv, Arriving, StoreFile, UNCHANGED disk, Spares(nodes, nodes')
  PROVE  Arriving'
<1>1. /\ Buffers /\ pc = "store" /\ pc' = "entry" /\ at' = at + 1 /\ at \in Nat
      /\ UNCHANGED <<mountpoint, cluster_buf, entry>> /\ (flawed => flawed')
      /\ Sound(Table) /\ Table.nodes = nodes
  BY FatAssumption DEF FatIInv, Buffers, StoreFile, Proceed, ShellIInv, IInv, Good,
                       Sound, Table
<1>2. PICK path \in {FilePath(entry)} :
        /\ Becomes(MadeWith(Table, path, file_buf))
        /\ Proceed(~CanCreate(nodes, path))
  BY DEF StoreFile
<1>3. ~flawed' => Holds(nodes', FilePath(entry), file_buf) /\ Whole(entry, file_buf)
  <2>1. /\ path \in Path /\ file_buf \in Seq(Byte) /\ Len(file_buf) <= MaxData
        /\ path = FilePath(entry)
    BY <1>1, <1>2, FilePathIsPath DEF Buffers
  <2>2. nodes' = MadeWith(Table, path, file_buf).nodes
    BY <1>2 DEF Becomes
  <2>3. ~flawed' => CanCreate(nodes, path)
    BY <1>2 DEF Proceed
  <2>4. ~flawed' => Whole(entry, file_buf)
    BY <1>1 DEF Arriving
  <2>. QED
    BY <1>1, <2>1, <2>2, <2>3, <2>4, MadeWithHolds
<1>4. Due' = Due /\ \A n : Arrived(n) => Arrived(n)'
  BY <1>1, DueStays, ArrivedStays
<1>5. \A n \in Due : n \in Nat /\ n <= at /\ (n = at => entry = RootEntry(n))
  BY <1>1, FatAssumption DEF Arriving, Due
<1>6. \A n \in Due : n < at + 1 /\ (~flawed' => Arrived(n)')
  <2>. TAKE n \in Due
  <2>1. n < at + 1
    BY <1>1, <1>5
  <2>2. CASE n = at
    <3>1. PICK e, buf : e = entry /\ buf = file_buf
      OBVIOUS
    <3>2. e = RootEntry(n)
      BY <1>5, <2>2, <3>1
    <3>3. ~flawed' => Holds(nodes', FilePath(e), buf) /\ Whole(e, buf)
      BY <1>3, <3>1
    <3>4. ~flawed' => Arrived(n)'
      BY <1>1, <3>2, <3>3, ArrivesWhole
    <3>. QED
      BY <2>1, <3>4
  <2>3. CASE n # at
    <3>1. n < at
      BY <1>1, <1>5, <2>3
    <3>. QED
      BY <1>1, <1>4, <2>1, <3>1 DEF Arriving
  <2>. QED
    BY <2>2, <2>3
<1>. QED
  BY <1>1, <1>4, <1>6 DEF Arriving

LEMMA ArrivingStep ==
  ASSUME FatIInv, Arriving, [FatNext]_fatVars
  PROVE  Arriving'
<1>1. CASE MountStep
  <2>1. UNCHANGED disk /\ Spares(nodes, nodes')
    BY <1>1, MountStepKeeps DEF MountStep
  <2>. QED
    BY <1>1, <2>1, NextEntryArrives, ReadClusterArrives, StoreFileArrives DEF MountStep
<1>2. CASE UNCHANGED fatVars
  <2>1. /\ UNCHANGED <<pc, at, entry, cluster, cluster_buf, file_buf, flawed, disk,
                       mountpoint, nodes>>
        /\ Spares(nodes, nodes')
    BY <1>2, SameSpares DEF fatVars, locals, shellVars, vars
  <2>2. /\ Due' = Due /\ \A n : RootEntry(n)' = RootEntry(n)
        /\ \A n : LeavesDirectory(n)' = LeavesDirectory(n)
        /\ \A n : Arrived(n) => Arrived(n)'
    BY <2>1, DueStays, ArrivedStays
  <2>3. Sectors(disk.root)' = Sectors(disk.root)
    BY <2>1 DEF Sectors
  <2>4. Whole(entry, file_buf) => Whole(entry, file_buf)'
    BY <2>1, ChainsStay
  <2>. QED
    BY <2>1, <2>2, <2>3, <2>4 DEF Arriving
<1>3. CASE \E dev \in DevArg, arg \in Arg : Mount(dev, arg)
  <2>1. pc = "idle" /\ UNCHANGED disk
    BY <1>3 DEF Mount
  <2>2. \/ pc' = "idle"
        \/ /\ pc' = "entry" /\ at' = 1 /\ cluster_buf' = Sectors(disk.root)
    BY <1>3, <2>1 DEF Mount, MountRefused, MountBare, MountStarts, locals
  <2>3. Sectors(disk.root)' = Sectors(disk.root)
    BY <2>1 DEF Sectors
  <2>4. CASE pc' = "idle"
    BY <2>4 DEF Arriving
  <2>5. CASE pc' = "entry" /\ at' = 1 /\ cluster_buf' = Sectors(disk.root)
    <3>1. \A n \in Due' : ~(n < at')
      BY <2>5, FatAssumption DEF Due
    <3>2. \A i \in 1 .. at' - 1 : LeavesDirectory(i)'
      BY <2>5
    <3>. QED
      BY <2>3, <2>5, <3>1, <3>2 DEF Arriving
  <2>. QED
    BY <2>2, <2>4, <2>5
<1>4. CASE FatNext /\ ~MountStep /\ ~\E dev \in DevArg, arg \in Arg : Mount(dev, arg)
  <2>1. pc' = "idle"
    BY <1>4, ShellStepKeeps, RegisterKeeps DEF FatNext
  <2>. QED
    BY <2>1 DEF Arriving
<1>. QED
  BY <1>1, <1>2, <1>3, <1>4

(* Every step of a mount keeps Arriving, on every disk: a directory whose first
   file is empty is read on, and one that is read over is not needed any more
   for the entries that are due. *)
THEOREM FirstFilesComeThrough == FatSpec => FirstFilesAppear
<1>1. FatInit => Arriving
  BY DEF FatInit, Arriving
<1>2. FatIInv /\ Arriving /\ [FatNext]_fatVars => Arriving'
  BY ArrivingStep
<1>3. FatIInv /\ Arriving /\ [FatNext]_fatVars =>
        [pc = "entry" /\ pc' = "idle" /\ ~flawed => \A n \in Due : Arrived(n)]_fatVars
  <2>. SUFFICES ASSUME FatIInv, Arriving, FatNext, pc = "entry", pc' = "idle",
                       ~flawed, NEW n \in Due
                PROVE  Arrived(n)
    OBVIOUS
  <2>1. NextEntry
    <3>1. MountStep
      BY MountIsAlone
    <3>. QED
      BY <3>1 DEF MountStep, ReadCluster, StoreFile
  <2>2. /\ at \in 1 .. ClusterSize + 1 /\ n \in 1 .. ClusterSize
        /\ ClusterSize \in Nat /\ RootEntry(n) \in Entry32
    BY FatAssumption DEF FatIInv, Buffers, Due
  <2>3. n < at
    <3>1. at > ClusterSize \/ (at <= ClusterSize /\ Current = [kind |-> "end"])
      BY <2>1 DEF NextEntry, Proceed
    <3>2. CASE at > ClusterSize
      BY <2>2, <3>2
    <3>3. CASE /\ at <= ClusterSize /\ Current = [kind |-> "end"]
               /\ cluster_buf = Sectors(disk.root)
      <4>1. RootEntry(at) = [kind |-> "end"]
        BY <3>3 DEF Current, RootEntry
      <4>2. ~LeavesDirectory(at) /\ n # at
        BY <2>2, <4>1, TagsAreNoEntries DEF LeavesDirectory
      <4>3. n <= at
        BY <2>2, <3>3, <4>2, NothingDueBehind
      <4>. QED
        BY <2>2, <4>2, <4>3
    <3>. QED
      BY <3>1, <3>2, <3>3 DEF Arriving
  <2>. QED
    BY <2>3 DEF Arriving
<1>. QED
  BY <1>1, <1>2, <1>3, FatInvariance, PTL DEF FatSpec, FirstFilesAppear

(* When only the last entry of a root directory has content, the head of
   fat32.c keeps its word. *)
THEOREM ContentLastSuffices ==
  ASSUME \A d \in Disk, k, l \in 1 .. ClusterSize :
           LET slot(i) == AsEntry[d.data[d.root][i]]
           IN  /\ k < l
               /\ slot(k) \in Entry32 /\ slot(l) \in Entry32
               /\ \A i \in 1 .. l : slot(i) # [kind |-> "end"]
               => slot(k).size = 0
  PROVE  FatSpec => RootFilesAppear
<1>1. FatIInv /\ [pc = "entry" /\ pc' = "idle" /\ ~flawed => \A n \in Due : Arrived(n)]_fatVars
        => [pc = "entry" /\ pc' = "idle" /\ ~flawed =>
              \A e \in Listing(Sectors(disk.root)) :
                wnu_vfs_exists(nodes, FilePath(e))]_fatVars
  <2>. SUFFICES ASSUME FatIInv, \A n \in Due : Arrived(n),
                       NEW e \in Listing(Sectors(disk.root))
                PROVE  wnu_vfs_exists(nodes, FilePath(e))
    OBVIOUS
  <2>1. PICK n \in 1 .. ClusterSize :
          /\ e = RootEntry(n) /\ RootEntry(n) \in Entry32
          /\ \A i \in 1 .. n : RootEntry(i) # [kind |-> "end"]
    BY DEF Listing, RootEntry
  <2>2. /\ disk \in Disk /\ Sectors(disk.root) = disk.data[disk.root]
        /\ Sectors(disk.root) \in [1 .. ClusterSize -> Byte]
    BY FatAssumption, SectorsAreBytes DEF FatIInv, Buffers, Sectors
  <2>3. ASSUME NEW i \in 1 .. n - 1 PROVE LeavesDirectory(i)
    <3>1. i \in 1 .. ClusterSize /\ i \in 1 .. n /\ i < n
      BY FatAssumption
    <3>2. RootEntry(i) \in Entry32 \cup {[kind |-> "end"], [kind |-> "skip"]}
      BY <2>2, <3>1, FatAssumption DEF RootEntry
    <3>3. RootEntry(i) \in Entry32 => RootEntry(i).size = 0
      BY <2>1, <2>2, <3>1 DEF RootEntry
    <3>. QED
      BY <2>1, <3>1, <3>2, <3>3 DEF LeavesDirectory
  <2>4. n \in Due
    BY <2>1, <2>3 DEF Due
  <2>. QED
    BY <2>1, <2>4, FindNode DEF Arrived
<1>. QED
  BY <1>1, FirstFilesComeThrough, FatInvariance, PTL DEF FirstFilesAppear, RootFilesAppear

-----------------------------------------------------------------------------
(* The devices. *)

LEMMA LesserOf ==
  ASSUME NEW a \in Nat, NEW b \in Nat
  PROVE  Min({a, b}) = IF a <= b THEN a ELSE b
<1>1. {a, b} \in SUBSET Nat /\ a \in {a, b} /\ b \in {a, b}
  OBVIOUS
<1>2. Min({a, b}) \in {a, b} /\ Min({a, b}) <= a /\ Min({a, b}) <= b
  BY <1>1, MinIn
<1>. QED
  BY <1>2

LEMMA DevPaths ==
  ASSUME NEW name \in Name
  PROVE  /\ <<DevDir>> \in Path /\ <<DevDir>> # Root
         /\ parent_path(<<DevDir>>) = Root
         /\ DevPath(name) \in Path
         /\ DevPath(name) # Root /\ DevPath(name) # <<DevDir>>
         /\ parent_path(DevPath(name)) = <<DevDir>>
<1>1. DevDir \in Name /\ DevDir # Empty
  BY BlockAssumption, PathsAssumption
<1>2. <<DevDir>> \in Path /\ DevPath(name) \in Path
  BY <1>1 DEF DevPath, Path, Component
<1>3. Len(<<DevDir>>) = 1 /\ Len(DevPath(name)) = 2 /\ Len(Root) = 1
      /\ <<DevDir>>[1] = DevDir /\ Root[1] = Empty
  BY DEF DevPath, Root
<1>4. DevPath(name) # Root /\ DevPath(name) # <<DevDir>> /\ <<DevDir>> # Root
  BY <1>1, <1>3
<1>5. parent_path(DevPath(name)) = <<DevDir>>
  <2>. DEFINE front == SubSeq(DevPath(name), 1, 1)
  <2>1. parent_path(DevPath(name)) = front
    BY <1>3 DEF parent_path, Front
  <2>2. DevPath(name) \in Seq(Component)
    BY <1>2 DEF Path
  <2>3. front \in Seq(Component) /\ Len(front) = 1 /\ front[1] = DevDir
    BY <1>3, <2>2 DEF DevPath
  <2>. HIDE DEF front
  <2>4. front = <<DevDir>>
    BY <1>3, <2>3
  <2>. QED
    BY <2>1, <2>4
<1>. QED
  BY <1>2, <1>3, <1>4, <1>5 DEF parent_path

BootMade == Cardinality(Makes(Len(BootScript)))

(* The table when the boot is done and n devices are registered. *)
Registered(ns, n) ==
  /\ Used(ns) \subseteq 0 .. IF n = 0 THEN BootMade ELSE BootMade + n + 1
  /\ \A i \in Used(ns) :
       \/ ns[i].path \in {Root, <<DevDir>>}
       \/ \E call \in {"mkdir", "create"} :
            Scripted(Len(BootScript), call, ns[i].path)
       \/ \E k \in 1 .. n : ns[i].path = DevPath(Controllers[k])
  /\ \A i \in Used(ns) : ns[i].path = <<DevDir>> => ns[i].type = "dir"
  /\ \A k \in 1 .. n : HasType(ns, DevPath(Controllers[k]), "file")

LEMMA BuiltIsRegistered ==
  ASSUME RoomForDevices, NEW ns, NEW next, WellFormed(ns, next),
         Built(ns, Len(BootScript))
  PROVE  Registered(ns, 0)
<1>1. DevDir \in Name /\ <<DevDir>> # Root
  BY BlockAssumption, DevPaths
<1>2. ASSUME NEW i \in Used(ns), ns[i].path = <<DevDir>>
      PROVE  ns[i].type = "dir"
  <2>1. Scripted(Len(BootScript), "mkdir", <<DevDir>>)
    BY <1>1, <1>2 DEF Built, RoomForDevices
  <2>2. HasType(ns, <<DevDir>>, "dir")
    BY <2>1 DEF Built
  <2>. QED
    BY <1>2, <2>2, TypeIff DEF WellFormed, UniquePaths
<1>. QED
  BY <1>2 DEF Built, Registered, BootMade

(* How far the table is filled while there are devices to come. *)
LEMMA RoomIs ==
  ASSUME RoomForDevices, NEW n \in Nat, n < Len(Controllers), n < MaxBlockDev
  PROVE  /\ BootMade \in Nat
         /\ BootMade + 1 \in Slot
         /\ (BootMade + n + 1) + 1 \in Slot
<1>1. Len(Controllers) \in Nat /\ MaxBlockDev \in Nat /\ MaxNodes \in Nat
  BY BlockAssumption, VfsAssumption
<1>2. BootMade \in Nat
  <2>1. Len(BootScript) \in Nat
    BY VfsAssumption
  <2>2. IsFiniteSet(1 .. Len(BootScript))
    <3>1. 1 \in Int /\ Len(BootScript) \in Int
      BY <2>1
    <3>. QED
      BY <3>1, FS_Interval, Zenon
  <2>3. Makes(Len(BootScript)) \subseteq 1 .. Len(BootScript)
    BY Zenon DEF Makes
  <2>4. IsFiniteSet(Makes(Len(BootScript)))
    BY <2>2, <2>3, FS_Subset, Zenon
  <2>. QED
    BY <2>4, FS_CardinalityType, Zenon DEF BootMade
<1>3. PICK most \in Nat : most = Min({Len(Controllers), MaxBlockDev}) /\ n < most
  BY <1>1, LesserOf
<1>4. BootMade + 2 + most <= MaxNodes
  BY <1>3 DEF RoomForDevices, BootMade
<1>. QED
  BY <1>1, <1>2, <1>3, <1>4 DEF Slot

(* Before the first device /dev is made, if it was not there, and it is there
   before the others. *)
LEMMA DevDirThere ==
  ASSUME RoomForDevices, NEW table, Sound(table),
         NEW n \in Nat, n < Len(Controllers), n < MaxBlockDev,
         Registered(table.nodes, n)
  PROVE  LET made == Made(table, "dir", <<DevDir>>).nodes
         IN  /\ HasType(made, <<DevDir>>, "dir")
             /\ Used(made) \subseteq 0 .. BootMade + n + 1
             /\ \A i \in Used(made) :
                  \/ i \in Used(table.nodes) /\ made[i] = table.nodes[i]
                  \/ made[i].path = <<DevDir>> /\ made[i].type = "dir"
<1>. DEFINE ns   == table.nodes
            made == Made(table, "dir", <<DevDir>>).nodes
<1>1. DevDir \in Name /\ <<DevDir>> \in Path /\ <<DevDir>> # Root
      /\ parent_path(<<DevDir>>) = Root
  BY BlockAssumption, DevPaths
<1>2. WellFormed(ns, table.inode)
  BY DEF Sound
<1>3. BootMade \in Nat /\ BootMade + 1 \in Slot
  BY RoomIs
<1>4. ASSUME n # 0 PROVE HasType(ns, <<DevDir>>, "dir")
  <2>1. 1 \in 1 .. n /\ Controllers[1] \in Name
    <3>1. 1 \in 1 .. Len(Controllers) /\ 1 \in 1 .. n
      BY <1>4, BlockAssumption
    <3>. QED
      BY <3>1, BlockAssumption, ElementOfSeq
  <2>2. PICK i \in Used(ns) : ns[i].path = DevPath(Controllers[1])
    BY <1>2, <2>1, TypeIff DEF Registered, WellFormed
  <2>3. parent_path(ns[i].path) = <<DevDir>>
    BY <2>1, <2>2, DevPaths
  <2>. QED
    BY <1>2, <2>3 DEF WellFormed, NoOrphans, wnu_vfs_is_dir
<1>5. CASE wnu_vfs_exists(ns, <<DevDir>>)
  <2>1. HasType(ns, <<DevDir>>, "dir")
    BY <1>5, FindNode DEF Registered, HasType
  <2>2. made = ns
    BY <1>5 DEF Made, CanCreate
  <2>3. Used(ns) \subseteq 0 .. BootMade + n + 1
    BY <1>3 DEF Registered
  <2>. QED
    BY <2>1, <2>2, <2>3
<1>6. CASE ~wnu_vfs_exists(ns, <<DevDir>>)
  <2>1. n = 0
    BY <1>4, <1>6 DEF HasType
  <2>2. Used(ns) \subseteq 0 .. BootMade
    BY <2>1 DEF Registered
  <2>3. Used(ns) # Slot
    <3>1. BootMade + 1 \notin 0 .. BootMade
      BY <1>3
    <3>. QED
      BY <1>3, <2>2, <3>1
  <2>4. CanCreate(ns, <<DevDir>>)
    BY <1>1, <1>2, <1>6, <2>3 DEF CanCreate, RoomForDevices, WellFormed, RootThere
  <2>5. made = Created(ns, table.inode, "dir", <<DevDir>>)
    BY <2>4 DEF Made
  <2>6. /\ HasType(made, <<DevDir>>, "dir")
        /\ \A i \in Used(made) :
             \/ i \in Used(ns) /\ made[i] = ns[i]
             \/ made[i].path = <<DevDir>> /\ made[i].type = "dir"
        /\ \A m \in Nat : Used(ns) \subseteq 0 .. m /\ m + 1 \in Slot =>
                           Used(made) \subseteq 0 .. m + 1
    BY <1>1, <1>2, <2>4, <2>5, CreatedAdds
  <2>. HIDE DEF made, ns
  <2>7. Used(made) \subseteq 0 .. BootMade + 1
    <3>1. PICK m \in Nat : m = BootMade
      BY <1>3
    <3>2. m + 1 \in Slot /\ Used(ns) \subseteq 0 .. m
      BY <1>3, <2>2, <3>1
    <3>. QED
      BY <2>6, <3>1, <3>2
  <2>8. BootMade + n + 1 = BootMade + 1
    BY <1>3, <2>1
  <2>9. Used(made) \subseteq 0 .. BootMade + n + 1
    BY <2>7, <2>8
  <2>. QED
    BY <2>6, <2>9, Zenon DEF made, ns
<1>. QED
  BY <1>5, <1>6

(* A file that is created and written. *)
LEMMA FileAdds ==
  ASSUME NEW ns, NEW next, WellFormed(ns, next), NEW path \in Path,
         CanCreate(ns, path)
  PROVE  LET ms == Stored(Created(ns, next, "file", path), path, 0, DevText)
         IN  /\ KeepsTypes(ns, ms)
             /\ HasType(ms, path, "file")
             /\ \A i \in Used(ms) :
                  \/ i \in Used(ns) /\ ms[i].path = ns[i].path /\ ms[i].type = ns[i].type
                  \/ ms[i].path = path
             /\ \A m \in Nat : Used(ns) \subseteq 0 .. m /\ m + 1 \in Slot =>
                                Used(ms) \subseteq 0 .. m + 1
<1>. DEFINE new == Created(ns, next, "file", path)
            ms  == Stored(new, path, 0, DevText)
<1>1. /\ KeepsTypes(ns, new) /\ HasType(new, path, "file")
      /\ \A i \in Used(new) : \/ i \in Used(ns) /\ new[i] = ns[i]
                              \/ new[i].path = path /\ new[i].type = "file"
      /\ \A m \in Nat : Used(ns) \subseteq 0 .. m /\ m + 1 \in Slot =>
                         Used(new) \subseteq 0 .. m + 1
  BY CreatedAdds
<1>2. WellFormed(new, next + 1) /\ IsOpenable(new, path)
  BY CreatedKeepsTable, CreatedKeepsDirs
<1>3. 0 \in 0 .. MaxData /\ DevText \in Seq(Byte)
  BY VfsAssumption, BlockAssumption
<1>. HIDE DEF new
<1>4. /\ KeepsTypes(new, ms)
      /\ Used(ms) = Used(new)
      /\ \A i \in Used(ms) : ms[i].path = new[i].path /\ ms[i].type = new[i].type
  BY <1>2, <1>3, StoredAdds
<1>. HIDE DEF ms
<1>5. KeepsTypes(ns, ms) /\ HasType(ms, path, "file")
  BY <1>1, <1>4 DEF KeepsTypes
<1>6. \A i \in Used(ms) :
        \/ i \in Used(ns) /\ ms[i].path = ns[i].path /\ ms[i].type = ns[i].type
        \/ ms[i].path = path
  BY <1>1, <1>4
<1>7. \A m \in Nat : Used(ns) \subseteq 0 .. m /\ m + 1 \in Slot =>
                     Used(ms) \subseteq 0 .. m + 1
  BY <1>1, <1>4
<1>. QED
  BY <1>5, <1>6, <1>7 DEF ms, new

(* Then the device has its file. *)
LEMMA MirroredIsRegistered ==
  ASSUME RoomForDevices, NEW table, Sound(table),
         NEW n \in Nat, n < Len(Controllers), n < MaxBlockDev,
         Registered(table.nodes, n)
  PROVE  Registered(Mirrored(table, Controllers[n + 1]).nodes, n + 1)
<1>. DEFINE name == Controllers[n + 1]
            path == DevPath(name)
            made == Made(table, "dir", <<DevDir>>)
            old  == made.nodes
            new  == Created(old, made.inode, "file", path)
            ms   == Stored(new, path, 0, DevText)
<1>1. n + 1 \in 1 .. Len(Controllers) /\ n + 1 \in DOMAIN Controllers
      /\ DOMAIN Controllers = 1 .. Len(Controllers)
  BY BlockAssumption
<1>2. \A k \in 1 .. Len(Controllers) : Controllers[k] \in Name
  BY BlockAssumption, ElementOfSeq
<1>3. path \in Path /\ path # Root /\ path # <<DevDir>>
      /\ parent_path(path) = <<DevDir>> /\ <<DevDir>> \in Path
  BY <1>1, <1>2, DevPaths
<1>4. /\ HasType(old, <<DevDir>>, "dir")
      /\ Used(old) \subseteq 0 .. BootMade + n + 1
      /\ \A i \in Used(old) :
           \/ i \in Used(table.nodes) /\ old[i] = table.nodes[i]
           \/ old[i].path = <<DevDir>> /\ old[i].type = "dir"
  BY DevDirThere
<1>5. Sound(made) /\ Spares(table.nodes, old)
  BY <1>3, MadeIsSound
<1>6. WellFormed(old, made.inode)
  BY <1>5 DEF Sound
<1>7. BootMade \in Nat /\ (BootMade + n + 1) + 1 \in Slot
  BY RoomIs
<1>. HIDE DEF made, old, name, path
<1>8. \A i \in Used(old) :
        /\ \/ old[i].path \in {Root, <<DevDir>>}
           \/ \E call \in {"mkdir", "create"} :
                Scripted(Len(BootScript), call, old[i].path)
           \/ \E k \in 1 .. n : old[i].path = DevPath(Controllers[k])
        /\ old[i].path = <<DevDir>> => old[i].type = "dir"
  BY <1>4 DEF Registered
<1>9. ~wnu_vfs_exists(old, path)
  <2>1. ASSUME NEW k \in 1 .. n PROVE DevPath(Controllers[k]) # path
    <3>1. k \in DOMAIN Controllers /\ k # n + 1
      BY <1>1
    <3>2. Controllers[k] # name
      BY <1>1, <3>1, BlockAssumption DEF name
    <3>. QED
      BY <3>2 DEF DevPath, path
  <2>2. \A call \in {"mkdir", "create"} : ~Scripted(Len(BootScript), call, path)
    BY <1>1 DEF RoomForDevices, path, name
  <2>. QED
    BY <1>3, <1>8, <2>1, <2>2, FindNode
<1>10. CanCreate(old, path)
  <2>1. valid_path(path)
    BY <1>1 DEF RoomForDevices, path, name
  <2>2. Used(old) # Slot
    <3>1. PICK m \in Nat : m = BootMade + n + 1
      BY <1>7
    <3>2. m + 1 \notin 0 .. m
      OBVIOUS
    <3>. QED
      BY <1>4, <1>7, <3>1, <3>2
  <2>. QED
    BY <1>3, <1>4, <1>9, <2>1, <2>2 DEF CanCreate, wnu_vfs_is_dir
<1>11. /\ KeepsTypes(old, ms) /\ HasType(ms, path, "file")
       /\ \A i \in Used(ms) :
            \/ i \in Used(old) /\ ms[i].path = old[i].path /\ ms[i].type = old[i].type
            \/ ms[i].path = path
       /\ \A m \in Nat : Used(old) \subseteq 0 .. m /\ m + 1 \in Slot =>
                          Used(ms) \subseteq 0 .. m + 1
  BY <1>3, <1>6, <1>10, FileAdds
<1>12. Mirrored(table, name).nodes = ms
  <2>1. Made(made, "file", path) = [nodes |-> new, inode |-> made.inode + 1]
    BY <1>10 DEF Made, old
  <2>2. MadeWith(made, path, DevText).nodes = ms
    BY <1>10, <2>1 DEF MadeWith, old
  <2>. QED
    BY <2>2 DEF Mirrored, made, path
<1>. HIDE DEF new, ms
<1>13. Used(ms) \subseteq 0 .. IF n + 1 = 0 THEN BootMade ELSE BootMade + (n + 1) + 1
  <2>1. PICK m \in Nat : m = BootMade + n + 1
    BY <1>7
  <2>2. Used(ms) \subseteq 0 .. m + 1
    BY <1>4, <1>7, <1>11, <2>1
  <2>3. n + 1 # 0 /\ m + 1 = BootMade + (n + 1) + 1
    BY <1>7, <2>1
  <2>. QED
    BY <2>2, <2>3
<1>14. ASSUME NEW k \in 1 .. n + 1
       PROVE  HasType(ms, DevPath(Controllers[k]), "file")
  <2>1. CASE k = n + 1
    BY <1>11, <2>1 DEF path, name
  <2>2. CASE k # n + 1
    <3>1. k \in 1 .. n
      BY <2>2
    <3>2. HasType(table.nodes, DevPath(Controllers[k]), "file")
      BY <3>1 DEF Registered
    <3>3. HasType(old, DevPath(Controllers[k]), "file")
      BY <1>5, <1>6, <3>2, TypeIff DEF Spares, Sound, WellFormed
    <3>. QED
      BY <1>11, <3>3 DEF KeepsTypes
  <2>. QED
    BY <2>1, <2>2
<1>15. \A i \in Used(ms) :
         /\ \/ ms[i].path \in {Root, <<DevDir>>}
            \/ \E call \in {"mkdir", "create"} :
                 Scripted(Len(BootScript), call, ms[i].path)
            \/ \E k \in 1 .. n + 1 : ms[i].path = DevPath(Controllers[k])
         /\ ms[i].path = <<DevDir>> => ms[i].type = "dir"
  <2>1. n + 1 \in 1 .. n + 1 /\ 1 .. n \subseteq 1 .. n + 1
    OBVIOUS
  <2>. QED
    BY <1>3, <1>8, <1>11, <2>1 DEF path, name
<1>16. Registered(ms, n + 1)
  BY <1>13, <1>14, <1>15 DEF Registered
<1>. QED
  BY <1>12, <1>16 DEF name

(* What is registered is the first of the controllers, and nothing else has
   happened to the table meanwhile. *)
Devices ==
  /\ devices \in Seq(Name)
  /\ Len(devices) = Min({probed, MaxBlockDev})
  /\ \A k \in DOMAIN devices : devices[k] = Controllers[k]

Registering ==
  /\ FatIInv
  /\ Devices
  /\ ~Booted => probed = 0 /\ Built(nodes, boot)
  /\ Booted /\ ~Probed => Registered(nodes, Len(devices))

LEMMA RegisterFills ==
  ASSUME RoomForDevices, Registering, wnu_block_register
  PROVE  /\ Devices' /\ Booted' /\ Registered(nodes', Len(devices'))
         /\ \A k \in DOMAIN devices' : wnu_vfs_is_file(nodes', DevPath(devices'[k]))
<1>1. /\ Booted /\ ~Probed /\ probed < Len(Controllers) /\ probed \in Nat
      /\ probed' = probed + 1 /\ boot' = boot
      /\ Len(Controllers) \in Nat /\ MaxBlockDev \in Nat
      /\ Controllers[probed + 1] \in Name
  <2>1. /\ probed \in 0 .. Len(Controllers) /\ probed < Len(Controllers) /\ Booted
        /\ probed' = probed + 1 /\ boot' = boot
    BY DEF Registering, FatIInv, wnu_block_register
  <2>2. Controllers \in Seq(Name) /\ Len(Controllers) \in Nat /\ MaxBlockDev \in Nat
    BY BlockAssumption
  <2>3. probed + 1 \in 1 .. Len(Controllers)
    BY <2>1, <2>2
  <2>. QED
    BY <2>1, <2>2, <2>3, ElementOfSeq DEF Probed
<1>2. /\ devices \in Seq(Name) /\ Len(devices) \in Nat
      /\ Len(devices) = IF probed <= MaxBlockDev THEN probed ELSE MaxBlockDev
      /\ \A k \in DOMAIN devices : devices[k] = Controllers[k]
      /\ Registered(nodes, Len(devices))
  BY <1>1, LesserOf DEF Registering, Devices
<1>3. PICK n \in Nat : n = Len(devices)
  BY <1>2
<1>4. Min({probed + 1, MaxBlockDev}) =
        IF probed + 1 <= MaxBlockDev THEN probed + 1 ELSE MaxBlockDev
  BY <1>1, LesserOf
<1>5. CASE /\ n < MaxBlockDev
           /\ devices' = Append(devices, Controllers[probed + 1])
           /\ Becomes(Mirrored(Table, Controllers[probed + 1]))
  <2>1. n = probed /\ Len(devices') = n + 1 /\ devices' \in Seq(Name)
    BY <1>1, <1>2, <1>3, <1>5
  <2>2. Devices'
    <3>1. Len(devices') = Min({probed', MaxBlockDev})
      BY <1>1, <1>4, <1>5, <2>1
    <3>2. \A k \in DOMAIN devices' : devices'[k] = Controllers[k]
      <4>1. DOMAIN devices' = 1 .. n + 1 /\ DOMAIN devices = 1 .. n
        BY <1>2, <1>3, <2>1
      <4>2. devices'[n + 1] = Controllers[n + 1]
        BY <1>2, <1>3, <1>5, <2>1
      <4>3. \A k \in 1 .. n : devices'[k] = devices[k]
        BY <1>2, <1>3, <1>5
      <4>. QED
        BY <1>2, <4>1, <4>2, <4>3
    <3>. QED
      BY <2>1, <3>1, <3>2 DEF Devices
  <2>3. Sound(Table) /\ Table.nodes = nodes
    BY DEF Registering, FatIInv, ShellIInv, IInv, Good, Sound, Table
  <2>4. n < Len(Controllers)
    BY <1>1, <2>1
  <2>5. Registered(Mirrored(Table, Controllers[n + 1]).nodes, n + 1)
    BY <1>2, <1>3, <1>5, <2>3, <2>4, MirroredIsRegistered
  <2>6. Registered(nodes', n + 1)
    BY <1>5, <2>1, <2>5 DEF Becomes
  <2>7. \A k \in 1 .. n + 1 : HasType(nodes', DevPath(Controllers[k]), "file")
    BY <2>6 DEF Registered
  <2>8. \A k \in DOMAIN devices' : /\ k \in 1 .. n + 1
                                   /\ devices'[k] = Controllers[k]
    BY <2>1, <2>2 DEF Devices
  <2>. QED
    BY <1>1, <2>1, <2>2, <2>6, <2>7, <2>8 DEF Booted, wnu_vfs_is_file
<1>6. CASE n = MaxBlockDev /\ UNCHANGED <<devices, nodes, next_inode>>
  <2>1. Len(devices) = Min({probed', MaxBlockDev})
    BY <1>1, <1>2, <1>3, <1>4, <1>6
  <2>2. Devices'
    BY <1>2, <1>6, <2>1 DEF Devices
  <2>3. \A k \in DOMAIN devices : /\ k \in 1 .. Len(devices)
                                  /\ devices[k] = Controllers[k]
    BY <1>2
  <2>4. \A k \in 1 .. Len(devices) : HasType(nodes, DevPath(Controllers[k]), "file")
    BY <1>2 DEF Registered
  <2>. QED
    BY <1>1, <1>2, <1>6, <2>2, <2>3, <2>4 DEF Booted, wnu_vfs_is_file
<1>. QED
  BY <1>3, <1>5, <1>6 DEF wnu_block_register

LEMMA RegisteringStep ==
  ASSUME ScriptWorks, RoomForDevices, Registering, [FatNext]_fatVars
  PROVE  Registering'
<1>1. FatIInv'
  BY FatStep DEF Registering
<1>2. CASE BootFs /\ UNCHANGED <<blockVars, disk, locals>>
  <2>1. BootStep /\ UNCHANGED <<devices, probed>> /\ ~Booted
    BY <1>2, VfsAssumption DEF BootFs, BootStep, Booted, blockVars
  <2>2. Booting
    BY DEF Registering, FatIInv, ShellIInv, Booting
  <2>3. Built(nodes', boot')
    BY <2>1, <2>2, BootStepBuilds
  <2>4. Devices' /\ probed' = 0
    BY <2>1 DEF Registering, Devices
  <2>5. Booted' => Registered(nodes', Len(devices'))
    <3>1. WellFormed(nodes', next_inode')
      BY <1>1 DEF FatIInv, ShellIInv, IInv, Good
    <3>2. Len(devices) = 0
      BY <2>1, LesserOf, BlockAssumption DEF Registering, Devices
    <3>. QED
      BY <2>1, <2>3, <3>1, <3>2, BuiltIsRegistered DEF Booted
  <2>. QED
    BY <1>1, <2>3, <2>4, <2>5 DEF Registering
<1>3. CASE wnu_block_register /\ UNCHANGED <<current_dir, status, disk, locals>>
  BY <1>1, <1>3, RegisterFills DEF Registering
<1>4. CASE Probed /\ UNCHANGED <<boot, blockVars>>
  <2>1. Probed' /\ Booted' /\ Devices'
    BY <1>4 DEF Registering, Devices, Probed, Booted, blockVars
  <2>. QED
    BY <1>1, <2>1 DEF Registering
<1>5. MountStep => Probed /\ UNCHANGED <<boot, blockVars>>
  BY DEF MountStep, NextEntry, ReadCluster, StoreFile, Registering, FatIInv, Copying
<1>6. CASE UNCHANGED fatVars
  BY <1>1, <1>6
     DEF fatVars, shellVars, blockVars, Registering, Devices, Booted, Probed
<1>. QED
  BY <1>2, <1>3, <1>4, <1>5, <1>6 DEF FatNext, Execute, Mount

(* With room in the table, and with nothing in the way, every device that is
   registered has its file in /dev, and none is left out as long as the table
   of devices has room. *)
THEOREM DevicesHaveFiles ==
  ASSUME ScriptWorks, RoomForDevices PROVE FatSpec => EveryDeviceHasItsFile
<1>1. FatInit => Registering
  <2>. SUFFICES ASSUME FatInit PROVE Registering
    OBVIOUS
  <2>1. FatIInv
    BY FatInitGood
  <2>2. Devices
    BY LesserOf, BlockAssumption DEF FatInit, Devices
  <2>3. Built(nodes, boot)
    BY InitBuilt DEF FatInit, ShellInit, Init
  <2>4. Booted => Registered(nodes, Len(devices))
    BY <2>1, <2>3, BuiltIsRegistered
       DEF FatIInv, ShellIInv, IInv, Good, FatInit, Booted
  <2>. QED
    BY <2>1, <2>2, <2>3, <2>4 DEF Registering, FatInit
<1>2. Registering /\ [FatNext]_fatVars => Registering'
  BY RegisteringStep
<1>3. Registering =>
        [wnu_block_register =>
           /\ Len(devices') = Min({probed', MaxBlockDev})
           /\ \A i \in DOMAIN devices' :
                wnu_vfs_is_file(nodes', DevPath(devices'[i]))]_<<vars, blockVars>>
  BY RegisterFills DEF Devices
<1>. QED
  BY <1>1, <1>2, <1>3, PTL DEF FatSpec, EveryDeviceHasItsFile
=============================================================================
