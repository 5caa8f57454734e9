------------------------------- MODULE Fat32 -------------------------------
(***************************************************************************)
(* The mount command: fat32_mount, src/src/fs/fat32.c, under the shell,    *)
(* over the block devices and the file system.  A mount copies the files   *)
(* of a root directory into the node table and forgets the disk.  Reads    *)
(* can fail at any time; a read that reports success is taken to have      *)
(* filled its buffer, which the disk driver does not see to (Ahci.tla).    *)
(*                                                                         *)
(* The unit of length is a slot of 32 bytes, the size of a directory       *)
(* entry.  Any slot can be read as an entry, whatever it was written for:  *)
(* cluster_buf holds the directory and, after the first file that is not   *)
(* empty, the last cluster of that file.                                   *)
(***************************************************************************)
EXTENDS Shell, Block

CONSTANTS
  ClusterSize,  \* slots in a cluster
  Disk,         \* the disks that can be behind a device
  Eoc, Free,    \* entries of the FAT that end a chain
  AsEntry,      \* what a slot is when it is read as a directory entry
  Cut,          \* the first characters of a name
  DevArg        \* what users type as a device

(* A cluster number beyond the disk can be anywhere in a chain. *)
Cluster == Nat

(* A name is what stands between slashes, and garbage can have slashes. *)
Entry32 == [parts : Seq(Component) \ {<<>>}, start : Cluster, size : Nat]

ASSUME CutAssumption ==
  \A c \in Name, n \in 0 .. MaxName :
    Cut[c, n] \in Component /\ (Cut[c, n] = Empty <=> n = 0)

ASSUME FatAssumption ==
  /\ ClusterSize \in Nat \ {0}
  /\ MaxData \in Nat \ {0}
  /\ Eoc \notin Cluster /\ Free \notin Cluster
  /\ AsEntry \in [Byte -> Entry32 \cup {[kind |-> "end"], [kind |-> "skip"]}]
  /\ \A d \in Disk :
       /\ d.format \in {"good", "no_sector_size", "large_cluster", "large_sector"}
       /\ d.data \in [DOMAIN d.data -> [1 .. ClusterSize -> Byte]]
       /\ DOMAIN d.data \subseteq {c \in Cluster : c >= 2}
       /\ d.root \in DOMAIN d.data
       /\ d.fat \in [DOMAIN d.data -> Cluster \cup {Eoc, Free}]

VARIABLES
  disk,         \* the disk behind every device
  pc,           \* "idle", or in fat32_mount at the next "entry", "chain", "store"
  mountpoint,
  cluster_buf,
  at,           \* the slot of cluster_buf that is read as an entry
  entry,        \* the file being copied
  cluster,      \* where its copy goes on
  file_buf,     \* what has been copied
  flawed        \* a read or a creation of this mount has failed

locals == <<pc, mountpoint, cluster_buf, at, entry, cluster, file_buf, flawed>>
fatVars == <<shellVars, blockVars, disk, locals>>

(* The sectors before the data, where clusters 0 and 1 would be: no text. *)
Sectors(c) ==
  IF c \in DOMAIN disk.data THEN disk.data[c] ELSE [k \in 1 .. ClusterSize |-> Zero]

Readable(c) == c \in DOMAIN disk.data \/ c < 2

FatEntry(c) == IF c \in DOMAIN disk.fat THEN disk.fat[c] ELSE Eoc

(* A path that is built in a buffer of MaxName characters and cut at its end. *)
Clipped(path) ==
  LET fits == {k \in 0 .. Len(path) : string_len(SubSeq(path, 1, k)) < MaxName}
      head == SubSeq(path, 1, Max(fits))
      room == MaxName - 1 - string_len(head)
      next == path[Len(head) + 1]
  IN  IF head = path \/ room = 0 THEN head
      ELSE Append(head, IF next = Empty THEN Empty ELSE Cut[next, room - 1])

FilePath(e) == Clipped(mountpoint \o e.parts)

Blank == [k \in 1 .. ClusterSize |-> Zero]

NoEntry == [parts |-> Root, start |-> 0, size |-> 0]

FatInit ==
  /\ ShellInit /\ devices = <<>> /\ probed = 0
  /\ disk \in Disk
  /\ pc = "idle"
  /\ mountpoint = Root /\ cluster_buf = Blank /\ at = 1
  /\ entry = NoEntry /\ cluster = 0 /\ file_buf = <<>>
  /\ flawed = FALSE

-----------------------------------------------------------------------------
(* fat32_mount up to the first entry. *)

(* Failures that come before anything is changed. *)
MountRefused ==
  /\ Ends("failed")
  /\ UNCHANGED <<nodes, next_inode, locals>>

(* The mount point is there, and the root cluster is not to be had. *)
MountBare(table) ==
  /\ Becomes(table)
  /\ Ends("failed")
  /\ UNCHANGED locals

MountStarts(table, mp) ==
  /\ disk.format # "large_cluster"
  /\ Becomes(table)
  /\ pc' = "entry"
  /\ mountpoint' = mp
  /\ cluster_buf' = Sectors(disk.root)
  /\ at' = 1
  /\ flawed' = FALSE
  /\ UNCHANGED <<status, entry, cluster, file_buf>>

Mount(dev, arg) ==
  LET mp    == Target(arg)
      table == IF wnu_vfs_exists(nodes, mp) THEN Table ELSE Made(Table, "dir", mp)
  IN  /\ pc = "idle"
      /\ next_inode <= MaxInode
      /\ \/ Unresolved(arg) /\ UNCHANGED locals
         \/ /\ Resolves(arg)
            /\ \/ MountRefused
               \/ /\ wnu_block_find(dev)
                  /\ disk.format # "no_sector_size"
                  /\ wnu_vfs_exists(table.nodes, mp)
                  /\ MountBare(table) \/ MountStarts(table, mp)
            /\ UNCHANGED <<ret, current_dir>>
      /\ UNCHANGED <<boot, blockVars, disk>>

-----------------------------------------------------------------------------
(* The loop over the entries. *)

EndMount ==
  /\ Ends("ok")
  /\ pc' = "idle"
  /\ mountpoint' = Root /\ cluster_buf' = Blank /\ at' = 1
  /\ entry' = NoEntry /\ cluster' = 0 /\ file_buf' = <<>>
  /\ flawed' = FALSE
  /\ UNCHANGED <<nodes, next_inode>>

Proceed(flaw) ==
  /\ pc' = "entry"
  /\ at' = at + 1
  /\ flawed' = (flawed \/ flaw)
  /\ UNCHANGED <<status, mountpoint, cluster_buf, entry, cluster, file_buf>>

Current == AsEntry[cluster_buf[at]]

NextEntry ==
  /\ pc = "entry"
  /\ \/ at > ClusterSize /\ EndMount
     \/ /\ at <= ClusterSize
        /\ \/ Current = [kind |-> "end"] /\ EndMount
           \/ /\ Current = [kind |-> "skip"]
              /\ Proceed(FALSE)
              /\ UNCHANGED <<nodes, next_inode>>
           \/ /\ Current \in Entry32 /\ Current.size = 0
              /\ \E path \in {FilePath(Current)} :
                   /\ Becomes(Made(Table, "file", path))
                   /\ Proceed(~CanCreate(nodes, path))
           \/ /\ Current \in Entry32 /\ Current.size > 0
              /\ disk.format = "large_sector"
              /\ Proceed(TRUE)
              /\ UNCHANGED <<nodes, next_inode>>
           \/ /\ Current \in Entry32 /\ Current.size > 0
              /\ disk.format # "large_sector"
              /\ pc' = "chain"
              /\ entry' = Current
              /\ cluster' = Current.start
              /\ file_buf' = <<>>
              /\ UNCHANGED <<status, mountpoint, cluster_buf, at, flawed,
                             nodes, next_inode>>

-----------------------------------------------------------------------------
(* The loop over the clusters of a file. *)

(* Mutant of CopyCount: the buffer has no end. *)
CopyCountUnbounded(size) == Min({ClusterSize, size - Len(file_buf)})

CopyCount(size) ==
  Min({ClusterSize, size - Len(file_buf), MaxData - Len(file_buf)})

(* Mutant of Filled: the loop stops at the end of the file only. *)
FilledBySize(buf) == Len(buf) >= entry.size

Filled(buf) == Len(buf) = entry.size \/ Len(buf) >= MaxData

(* Mutant of Follow: the next cluster is the one behind this one. *)
FollowContiguously(next) == cluster + 1

Follow(next) == next

(* A read that fails can have filled the buffer all the same. *)
ReadFails ==
  /\ pc' = "store"
  /\ flawed' = TRUE
  /\ \/ UNCHANGED cluster_buf
     \/ Readable(cluster) /\ cluster_buf' = Sectors(cluster)
  /\ UNCHANGED <<file_buf, cluster>>

(* The FAT is read after each cluster, the last one included. *)
ReadOk ==
  LET buf  == file_buf \o SubSeq(Sectors(cluster), 1, CopyCount(entry.size))
      next == FatEntry(cluster)
  IN  /\ Readable(cluster)
      /\ cluster_buf' = Sectors(cluster)
      /\ file_buf' = buf
      /\ \/ pc' = "store" /\ flawed' = TRUE /\ UNCHANGED cluster
         \/ /\ next \in {Eoc, Free}
            /\ pc' = "store"
            /\ UNCHANGED <<cluster, flawed>>
         \/ /\ next \notin {Eoc, Free}
            /\ cluster' = Follow(next)
            /\ pc' = IF Filled(buf) THEN "store" ELSE "chain"
            /\ UNCHANGED flawed

ReadCluster ==
  /\ pc = "chain"
  /\ ReadFails \/ ReadOk
  /\ UNCHANGED <<nodes, next_inode, status, mountpoint, at, entry>>

(* Mutant of StoreFile: a file that cannot be created is written all the
   same. *)
StoreFileAnyway ==
  /\ pc = "store"
  /\ \E path \in {FilePath(entry)} :
       /\ IF wnu_vfs_is_file(nodes, path)
          THEN nodes' = Stored(nodes, path, 0, file_buf) /\ UNCHANGED next_inode
          ELSE Becomes(MadeWith(Table, path, file_buf))
       /\ Proceed(~CanCreate(nodes, path))

StoreFile ==
  /\ pc = "store"
  /\ \E path \in {FilePath(entry)} :
       /\ Becomes(MadeWith(Table, path, file_buf))
       /\ Proceed(~CanCreate(nodes, path))

MountStep ==
  /\ NextEntry \/ ReadCluster \/ StoreFile
  /\ UNCHANGED <<ret, boot, current_dir, blockVars, disk>>

FatNext ==
  \/ BootFs /\ UNCHANGED <<blockVars, disk, locals>>
  \/ wnu_block_register /\ UNCHANGED <<current_dir, status, disk, locals>>
  \/ Probed /\ pc = "idle" /\ Execute /\ UNCHANGED <<blockVars, disk, locals>>
  \/ Probed /\ \E dev \in DevArg, arg \in Arg : Mount(dev, arg)
  \/ MountStep

FatSpec == FatInit /\ [][FatNext]_fatVars

(* The main loop executes a command to its end. *)
FatFairSpec == FatSpec /\ WF_fatVars(MountStep)

-----------------------------------------------------------------------------
(* Properties. *)

(* The buffers of fat32_mount hold what is put into them, and the node table
   keeps its types. *)
FatTypeOK ==
  /\ ShellTypeOK
  /\ pc \in {"idle", "entry", "chain", "store"}
  /\ mountpoint \in Path
  /\ cluster_buf \in [1 .. ClusterSize -> Byte]
  /\ at \in 1 .. ClusterSize + 1
  /\ entry \in Entry32
  /\ cluster \in Cluster
  /\ file_buf \in Seq(Byte) /\ Len(file_buf) <= MaxData
  /\ flawed \in BOOLEAN

(* The clusters of a file, from its first on. *)
Chain(e) ==
  LET c[k \in Nat] == IF k = 0 THEN e.start
                      ELSE IF FatEntry(c[k - 1]) \in {Eoc, Free} THEN c[k - 1]
                      ELSE FatEntry(c[k - 1])
  IN  c

(* What is stored for an entry is the beginning of its cluster chain, in the
   order of the chain, never beyond the length in the entry: also after a
   failed read, in a chain that returns to itself, and for an entry that was
   never one. *)
CopyFollowsChain ==
  pc \in {"chain", "store"} =>
    /\ Len(file_buf) <= entry.size
    /\ \A k \in 1 .. Len(file_buf) :
         file_buf[k] = Sectors(Chain(entry)[(k - 1) \div ClusterSize])
                         [((k - 1) % ClusterSize) + 1]

(* A mount changes no node that was there, whatever the names on the disk are
   and where they are cut: the file that was there first stays. *)
MountOverwritesNothing ==
  [][pc # "idle" \/ pc' # "idle" =>
       \A i \in Used(nodes) : nodes'[i] = nodes[i]]_fatVars

(* A mount always comes back to the shell, also from a chain without an end. *)
MountEnds == pc # "idle" ~> pc = "idle"

-----------------------------------------------------------------------------
(* What the source says of a mount. *)

(* The head of fat32.c promises to "read root cluster, create files under
   mountpoint": when nothing has failed, every file of the root directory is
   in the table at the end. *)
Listing(slots) ==
  {AsEntry[slots[k]] : k \in
    {n \in 1 .. ClusterSize :
       /\ AsEntry[slots[n]] \in Entry32
       /\ \A m \in 1 .. n : AsEntry[slots[m]] # [kind |-> "end"]}}

RootFilesAppear ==
  [][pc = "entry" /\ pc' = "idle" /\ ~flawed =>
       \A e \in Listing(Sectors(disk.root)) :
         wnu_vfs_exists(nodes, FilePath(e))]_fatVars
=============================================================================
