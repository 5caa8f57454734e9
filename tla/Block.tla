------------------------------- MODULE Block -------------------------------
(***************************************************************************)
(* The block devices, src/src/block/block.c: a table of MAX_BLOCK_DEV      *)
(* devices that is filled from the front and never emptied, and a file in  *)
(* /dev for each.  wnu_sata_init registers one device for each controller  *)
(* it found, after wnu_vfs_init and before the shell runs.                 *)
(***************************************************************************)
EXTENDS Vfs

CONSTANTS
  DevDir,       \* "dev"
  Controllers,  \* the names of the devices of wnu_sata_init, in their order
  MaxBlockDev,  \* MAX_BLOCK_DEV
  DevText       \* "block device"

ASSUME BlockAssumption ==
  /\ DevDir \in Name
  /\ Controllers \in Seq(Name)
  /\ \A i, j \in DOMAIN Controllers : Controllers[i] = Controllers[j] => i = j
  /\ MaxBlockDev \in Nat
  /\ DevText \in Seq(Byte)

VARIABLES
  devices,  \* the names of the registered devices, in the order of the table
  probed    \* how many controllers wnu_sata_init has registered or given up

blockVars == <<devices, probed>>

DevPath(name) == <<DevDir, name>>

(* A table and the inode it gives out next; calls in a row that ignore what
   the ones before them returned. *)
Table == [nodes |-> nodes, inode |-> next_inode]

Made(table, type, path) ==
  IF CanCreate(table.nodes, path)
  THEN [nodes |-> Created(table.nodes, table.inode, type, path),
        inode |-> table.inode + 1]
  ELSE table

MadeWith(table, path, text) ==
  IF CanCreate(table.nodes, path)
  THEN [Made(table, "file", path) EXCEPT !.nodes = Stored(@, path, 0, text)]
  ELSE table

Becomes(table) ==
  \E t \in {table} : nodes' = t.nodes /\ next_inode' = t.inode

(* Mutant of Mirrored: nobody creates /dev. *)
MirroredWithoutDir(table, name) == MadeWith(table, DevPath(name), DevText)

Mirrored(table, name) ==
  MadeWith(Made(table, "dir", <<DevDir>>), DevPath(name), DevText)

(* The result of the file system calls is ignored; a full table of devices
   refuses. *)
wnu_block_register ==
  /\ Booted /\ probed < Len(Controllers)
  /\ probed' = probed + 1
  /\ LET name == Controllers[probed + 1]
     IN  \/ /\ Len(devices) < MaxBlockDev
            /\ devices' = Append(devices, name)
            /\ Becomes(Mirrored(Table, name))
         \/ /\ Len(devices) = MaxBlockDev
            /\ UNCHANGED <<devices, nodes, next_inode>>
  /\ UNCHANGED <<ret, boot>>

Probed == Booted /\ probed = Len(Controllers)

(* A name is looked up without the "/dev/" it may begin with. *)
wnu_block_find(name) == \E i \in DOMAIN devices : devices[i] = name

BlockInit == Init /\ devices = <<>> /\ probed = 0

BlockNext ==
  \/ (BootStep \/ (Probed /\ Call)) /\ UNCHANGED blockVars
  \/ wnu_block_register

BlockSpec == BlockInit /\ [][BlockNext]_<<vars, blockVars>>

-----------------------------------------------------------------------------
(* Properties. *)

(* What the sizes of the tables and the names have to be for that: /dev and
   the files of the devices have room behind what wnu_vfs_init makes, and
   nothing else has their paths. *)
RoomForDevices ==
  /\ Cardinality(Makes(Len(BootScript))) + 2 + Min({Len(Controllers), MaxBlockDev})
       <= MaxNodes
  /\ valid_path(<<DevDir>>)
  /\ ~Scripted(Len(BootScript), "create", <<DevDir>>)
  /\ \A k \in DOMAIN Controllers :
       /\ valid_path(DevPath(Controllers[k]))
       /\ \A call \in {"mkdir", "create"} :
            ~Scripted(Len(BootScript), call, DevPath(Controllers[k]))

(* wnu_block_register ignores whether /dev and the file in it could be made:
   while the devices are registered the table has room and nothing is in the
   way, so every registered device has its file when the shell starts, and
   every controller its device as long as there are no more than the table
   holds. *)
EveryDeviceHasItsFile ==
  [][wnu_block_register =>
       /\ Len(devices') = Min({probed', MaxBlockDev})
       /\ \A i \in DOMAIN devices' :
            wnu_vfs_is_file(nodes', DevPath(devices'[i]))]_<<vars, blockVars>>
=============================================================================
