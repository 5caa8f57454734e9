-------------------------------- MODULE Vfs --------------------------------
(***************************************************************************)
(* The virtual file system, src/src/fs/vfs.c: a fixed table of nodes, each *)
(* naming itself by its full path.  There is no tree in the table: parents *)
(* and children are found by comparing path strings.  A freed node keeps   *)
(* its path, its size and its bytes until it is allocated again, and       *)
(* allocation resets everything but the bytes.                             *)
(*                                                                         *)
(* The operators that take the table as an argument are the functions of   *)
(* vfs.c; the actions are the calls.  Only the main loop calls vfs.c, so a *)
(* call is one step.                                                       *)
(***************************************************************************)
EXTENDS Paths

CONSTANTS
  MaxNodes,    \* WNU_VFS_MAX_NODES
  MaxData,     \* WNU_VFS_MAX_DATA
  Byte,        \* the values of a byte
  Zero,        \* the byte the table starts with (.bss)
  PathArg,     \* the paths callers pass
  TextArg,     \* the byte sequences callers pass
  BootScript,  \* the calls wnu_vfs_init makes, in their order
  MaxInode     \* bound of the model: creations stop at this inode

Slot == 0 .. MaxNodes - 1

BootCall == [call : {"mkdir", "create", "write"}, path : Path, text : Seq(Byte)]

ASSUME VfsAssumption ==
  /\ MaxNodes \in Nat \ {0}
  /\ MaxData \in Nat
  /\ Zero \in Byte
  /\ PathArg \subseteq Path
  /\ TextArg \subseteq Seq(Byte)
  /\ BootScript \in Seq(BootCall)
  /\ MaxInode \in Nat
  /\ valid_path(Root)

VARIABLES
  nodes,       \* the node table
  next_inode,  \* the inode the next node gets
  ret,         \* what the last call returned
  boot         \* how many calls of wnu_vfs_init have been made

vfsVars == <<nodes, next_inode, ret>>
vars == <<nodes, next_inode, ret, boot>>

-----------------------------------------------------------------------------
(* Looking up and allocating nodes. *)

NoSlot == MaxNodes

Used(ns) == {i \in Slot : ns[i].used}

find_node(ns, path) ==
  LET hits == {i \in Used(ns) : ns[i].path = path}
  IN  IF hits = {} THEN NoSlot ELSE Min(hits)

wnu_vfs_exists(ns, path) == find_node(ns, path) # NoSlot

HasType(ns, path, type) ==
  wnu_vfs_exists(ns, path) /\ ns[find_node(ns, path)].type = type

wnu_vfs_is_dir(ns, path)  == HasType(ns, path, "dir")
wnu_vfs_is_file(ns, path) == HasType(ns, path, "file")

FreeSlot(ns) == Min(Slot \ Used(ns))

(* Mutant of CanCreate: a file can be created in a directory that is gone. *)
CanCreateAnywhere(ns, path) ==
  /\ valid_path(path)
  /\ path # Root
  /\ ~wnu_vfs_exists(ns, path)
  /\ Used(ns) # Slot

CanCreate(ns, path) ==
  /\ valid_path(path)
  /\ path # Root
  /\ ~wnu_vfs_exists(ns, path)
  /\ wnu_vfs_is_dir(ns, parent_path(path))
  /\ Used(ns) # Slot

(* Mutants of Created: the size of the slot's last file is not reset, and every
   node becomes a file. *)
CreatedWithOldSize(ns, inode, type, path) ==
  [ns EXCEPT ![FreeSlot(ns)] =
    [used |-> TRUE, inode |-> inode, type |-> type, path |-> path,
     data |-> ns[FreeSlot(ns)].data, size |-> ns[FreeSlot(ns)].size]]

CreatedAsFile(ns, inode, type, path) ==
  [ns EXCEPT ![FreeSlot(ns)] =
    [used |-> TRUE, inode |-> inode, type |-> "file", path |-> path,
     data |-> ns[FreeSlot(ns)].data, size |-> 0]]

(* alloc_node leaves the bytes of the node's last file where they are. *)
Created(ns, inode, type, path) ==
  [ns EXCEPT ![FreeSlot(ns)] =
    [used |-> TRUE, inode |-> inode, type |-> type, path |-> path,
     data |-> ns[FreeSlot(ns)].data, size |-> 0]]

(* Mutant of CanDelete: a directory with content can be deleted. *)
CanDeleteNonEmpty(ns, path) ==
  valid_path(path) /\ path # Root /\ wnu_vfs_exists(ns, path)

CanDelete(ns, path) ==
  /\ valid_path(path)
  /\ path # Root
  /\ wnu_vfs_exists(ns, path)
  /\ wnu_vfs_is_dir(ns, path) =>
       \A i \in Used(ns) \ {find_node(ns, path)} : ~IsBelow(path, ns[i].path)

Deleted(ns, path) == [ns EXCEPT ![find_node(ns, path)].used = FALSE]

(* Mutant of IsOpenable: its length limit is one less than that of create. *)
IsOpenableIfShorter(ns, path) ==
  string_len(path) + 1 < MaxName /\ wnu_vfs_is_file(ns, path)

IsOpenable(ns, path) == valid_path(path) /\ wnu_vfs_is_file(ns, path)

(* Mutant of Stored: the copy does not stop at the end of the buffer. *)
StoredBeyondBuffer(ns, path, from, text) ==
  [ns EXCEPT ![find_node(ns, path)].size = from + Len(text)]

(* Copy text over the bytes of a file from position from + 1 on, as many as
   fit, and let the file end behind them. *)
Stored(ns, path, from, text) ==
  LET file  == find_node(ns, path)
      count == Min({Len(text), MaxData - from})
  IN  [ns EXCEPT
        ![file].data = [k \in 1 .. MaxData |->
                          IF k \in from + 1 .. from + count THEN text[k - from]
                                                            ELSE ns[file].data[k]],
        ![file].size = from + count]

Content(node) == [k \in 1 .. node.size |-> node.data[k]]

(* What ls prints for a directory. *)
Listed(ns, path) ==
  {q \in {ns[i].path : i \in Used(ns)} : is_direct_child(path, q)}

(* The paths tree_walk prints when it starts at path.  No path of the table is
   longer than MaxName slashes, which bounds the recursion. *)
TreeWalk(ns, path) ==
  LET walk[depth \in 0 .. MaxName] ==
        IF depth = 0 THEN {path}
        ELSE walk[depth - 1] \cup
               UNION {Listed(ns, q) :
                        q \in {d \in walk[depth - 1] : wnu_vfs_is_dir(ns, d)}}
  IN  walk[MaxName]

-----------------------------------------------------------------------------
(* The calls. *)

Returns(ok, content) == ret' = [ok |-> ok, content |-> content]

Refuses == Returns(FALSE, <<>>) /\ UNCHANGED <<nodes, next_inode>>

Create(type, path) ==
  \/ /\ CanCreate(nodes, path)
     /\ next_inode <= MaxInode
     /\ nodes' = Created(nodes, next_inode, type, path)
     /\ next_inode' = next_inode + 1
     /\ Returns(TRUE, <<>>)
  \/ /\ ~CanCreate(nodes, path)
     /\ Refuses

wnu_vfs_create_file(path) == Create("file", path)
wnu_vfs_create_dir(path)  == Create("dir", path)

wnu_vfs_delete(path) ==
  \/ /\ CanDelete(nodes, path)
     /\ nodes' = Deleted(nodes, path)
     /\ Returns(TRUE, <<>>)
     /\ UNCHANGED next_inode
  \/ /\ ~CanDelete(nodes, path)
     /\ Refuses

wnu_vfs_write_file(path, text) ==
  \/ /\ IsOpenable(nodes, path)
     /\ nodes' = Stored(nodes, path, 0, text)
     /\ Returns(TRUE, <<>>)
     /\ UNCHANGED next_inode
  \/ /\ ~IsOpenable(nodes, path)
     /\ Refuses

wnu_vfs_append_file(path, text) ==
  \/ /\ IsOpenable(nodes, path)
     /\ nodes' = Stored(nodes, path, nodes[find_node(nodes, path)].size, text)
     /\ Returns(TRUE, <<>>)
     /\ UNCHANGED next_inode
  \/ /\ ~IsOpenable(nodes, path)
     /\ Refuses

wnu_vfs_read_file(path) ==
  \/ /\ IsOpenable(nodes, path)
     /\ Returns(TRUE, Content(nodes[find_node(nodes, path)]))
     /\ UNCHANGED <<nodes, next_inode>>
  \/ /\ ~IsOpenable(nodes, path)
     /\ Refuses

-----------------------------------------------------------------------------
(* wnu_vfs_init: an empty table with the root in its first node, and then the
   calls of BootScript before anyone else calls. *)

Init ==
  /\ nodes = [i \in Slot |->
       [used |-> i = 0, inode |-> IF i = 0 THEN 1 ELSE 0,
        type |-> IF i = 0 THEN "dir" ELSE "file",
        path |-> IF i = 0 THEN Root ELSE <<>>,
        data |-> [k \in 1 .. MaxData |-> Zero], size |-> 0]]
  /\ next_inode = 2
  /\ ret = [ok |-> TRUE, content |-> <<>>]
  /\ boot = 0

BootStep ==
  /\ boot < Len(BootScript)
  /\ boot' = boot + 1
  /\ LET step == BootScript[boot + 1]
     IN  \/ step.call = "mkdir"  /\ wnu_vfs_create_dir(step.path)
         \/ step.call = "create" /\ wnu_vfs_create_file(step.path)
         \/ step.call = "write"  /\ wnu_vfs_write_file(step.path, step.text)

Booted == boot = Len(BootScript)

Call ==
  /\ Booted
  /\ UNCHANGED boot
  /\ \E path \in PathArg :
       \/ wnu_vfs_create_file(path)
       \/ wnu_vfs_create_dir(path)
       \/ wnu_vfs_delete(path)
       \/ \E text \in TextArg : wnu_vfs_write_file(path, text)
       \/ \E text \in TextArg : wnu_vfs_append_file(path, text)
       \/ wnu_vfs_read_file(path)

Next == BootStep \/ Call

Spec == Init /\ [][Next]_vars

-----------------------------------------------------------------------------
(* Properties. *)

Node == [used : BOOLEAN, inode : Nat, type : {"file", "dir"},
         path : Seq(Component), data : [1 .. MaxData -> Byte],
         size : 0 .. MaxData]

Named(ns) ==
  \A i \in Used(ns) : ns[i].path # <<>> /\ valid_path(ns[i].path)

(* Every field of every node has its C type, the path of a used node fits its
   buffer, and so does the content of a file. *)
TypeOK ==
  /\ nodes \in [Slot -> Node]
  /\ next_inode \in Nat
  /\ ret \in [ok : BOOLEAN, content : Seq(Byte)]
  /\ boot \in 0 .. Len(BootScript)
  /\ Named(nodes)

(* find_node returns the first of the nodes with a path, so a second one would
   be unreachable for ever: no two used nodes have one path. *)
UniquePaths(ns) ==
  \A i, j \in Used(ns) : ns[i].path = ns[j].path => i = j

(* The root is there, and it is a directory: cd / always works. *)
RootThere(ns) == wnu_vfs_is_dir(ns, Root)

(* The parent directory of every node is in the table: delete never strands
   the content of a directory, although it looks for it by comparing prefixes
   of strings that nobody normalised. *)
NoOrphans(ns) ==
  \A i \in Used(ns) : wnu_vfs_is_dir(ns, parent_path(ns[i].path))

TreeShape == UniquePaths(nodes) /\ RootThere(nodes) /\ NoOrphans(nodes)

(* Two live nodes never share an inode, however often their slots were freed
   and reused, and no node has an inode that is still to be given out.  Nothing
   in the source reads inodes yet; VfsProofs shows it. *)
UniqueInodes(ns, next) ==
  /\ \A i, j \in Used(ns) : ns[i].inode = ns[j].inode => i = j
  /\ \A i \in Used(ns) : ns[i].inode < next

InodesUnique == UniqueInodes(nodes, next_inode)

(* The calls among the first n of wnu_vfs_init that make a node. *)
Makes(n) == {k \in 1 .. n : BootScript[k].call # "write"}

Scripted(n, call, path) ==
  \E k \in 1 .. n : BootScript[k].call = call /\ BootScript[k].path = path

(* A script as wnu_vfs_init has it: the directories come before what is in
   them and the files before what is written to them, nothing is made twice,
   the names are short enough and the table has room beside the root. *)
ScriptWorks ==
  /\ Cardinality(Makes(Len(BootScript))) < MaxNodes
  /\ \A k \in DOMAIN BootScript :
       LET step == BootScript[k]
       IN  /\ valid_path(step.path)
           /\ step.call = "write" => Scripted(k - 1, "create", step.path)
           /\ step.call # "write" =>
                /\ step.path # Root
                /\ \A call \in {"mkdir", "create"} :
                     ~Scripted(k - 1, call, step.path)
                /\ \/ parent_path(step.path) = Root
                   \/ Scripted(k - 1, "mkdir", parent_path(step.path))

(* wnu_vfs_init ignores what its calls return, so each of them has to succeed:
   the directories come before the files in them, the table has room and the
   names are short enough. *)
BootNeverFails == [][BootStep => ret'.ok]_vars

Plain(path) == path = Root \/ \A k \in 1 .. Len(path) : path[k] # Empty

(* tree / prints every node whose path has no empty component: such a node is
   never hidden, whatever was created and deleted above and beside it. *)
TreeShowsPlainPaths ==
  LET shown == TreeWalk(nodes, Root)
  IN  \A i \in Used(nodes) : Plain(nodes[i].path) => nodes[i].path \in shown

(* The table implements a tree of files: every call has the result and the
   effect that FileTree gives it, and in particular a file created in a reused
   node starts empty and a read never returns bytes of the file before. *)
Entry(ns, path) ==
  LET node == ns[find_node(ns, path)]
  IN  [type |-> node.type, content |-> Content(node)]

BootPath == {BootScript[k].path : k \in 1 .. Len(BootScript)}
BootText == {BootScript[k].text : k \in 1 .. Len(BootScript)}

Tree == INSTANCE FileTree WITH
  fs <- [p \in {nodes[i].path : i \in Used(nodes)} |-> Entry(nodes, p)],
  PathArg <- PathArg \cup BootPath,
  TextArg <- TextArg \cup BootText

ImplementsFileTree == Tree!Spec
=============================================================================
