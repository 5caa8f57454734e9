# A verification project for WNU

WNU ("WNU's not Unix") is a small x86-64 operating system kernel in C: a shell
on a framebuffer console, an in-memory file system, a network stack that pings
its gateway, and drivers for an RTL8139 card and AHCI disks. There is one
thread, the main loop of `src/src/kernel/main.c`, and one interrupt, the
keyboard's. This directory holds TLA+ models of it, the TLC runs that check
them and the TLAPS proofs about them. Paths below are relative to the
repository that `src/` holds, so `src/fs/vfs.c` is `src/src/fs/vfs.c` here.

## 1. Inventory

| component | state | operations | talks to |
|---|---|---|---|
| virtual file system, `fs/vfs.c` | 128 nodes of inode, type, full path, size and 4096 bytes; the next inode | create, delete, write, append, read, list, tree, init | console (output) |
| shell, `shell/shell.c` | the working directory | `wnu_shell_execute` of one line | vfs, console, network, disks, FAT32 |
| console, `console/console.c` | cursor, input line with length and ready flag | putchar, clear, push_input, readline | called by the keyboard interrupt and by the main loop |
| keyboard and interrupts, `drivers/keyboard.c`, `arch/*` | descriptor table | scancode to character | console |
| network stack, `network/net.c` | gateway address and its flag, two pending flags | ping, udp, handle_packet | RTL8139 driver |
| RTL8139 driver, `drivers/rtl8139.c` | receive offset, receive ring, four transmit buffers and which is next | init, send, poll | the card by ports and DMA; network stack |
| AHCI driver, `drivers/sata.c` | table of controllers, a command list and a command table for each | init, scan (`lsblk`), block read | the controllers by MMIO and DMA; block devices |
| block devices, `block/block.c` | eight devices | register, find, read | vfs (`/dev`), AHCI |
| FAT32, `fs/fat32.c` | none | mount: copy a directory into vfs | block devices, vfs |
| heap, `mem/heap.c` | one offset | init, malloc, free that does nothing | nobody |
| library, `lib/lib.c` | none | strings, memory, printf | all |
| PCI, ELF | none | configuration reads, header check | |
| kernel entry, `kernel/main.c` | font and framebuffer descriptions | boot, main loop | all |

What is hard in it, and what makes each part correct:

* **File system.** There is no tree in the table. Parents and children are
  found by comparing strings that nobody normalises, so that `/a`, `/a/`,
  `//a` are different names, some of which look like each other's content.
  Correct means: the nodes are a tree with unique paths, nothing loses its
  parent, a reused node shows nothing of the file before, a buffer is never
  overrun, and `ls` and `tree` show what is there.
* **Shell.** The working directory is checked at `cd` and never again.
  Commands make several file system calls. Correct means: a stale working
  directory does no harm, and a failed command changes nothing.
* **Console.** The interrupt handler and the main loop write the cursor and
  the input line without a lock. Correct means: the cursor stays on the screen
  and a line reaches the shell as it was when Enter was pressed.
* **Network.** Requests get lost, answers come late, twice, or from others,
  and there is no timer. Correct means: packets go to the gateway only, one
  for each command at most, no command is forgotten, and asking again helps.
* **RTL8139.** The card writes the ring while the driver reads it, and reads
  the transmit buffers while the driver fills them. Correct means: each stored
  frame is handled once and in order, the card knows what is free, and each
  frame leaves as it was given, padded with zeros.
* **AHCI.** Commands are built store by store in memory that a controller
  reads by itself, for a port that runs already. A read is polled for and given
  up, never cancelled; a failed command can stop a controller for good; `lsblk`
  fills the table of controllers anew under the devices that point into it, and
  the bus may have changed. Correct means: a success is about the whole command
  of the read it is returned for, nothing is written behind a caller's back, a
  device stays the one it is, and the kernel does not wait for ever.
* **Block devices and FAT32.** A mount makes many calls and looks at the
  result of few. Correct means: what is stored for a file is what its chain
  holds, nothing that was there changes, every mount ends, and every device
  that was registered has its file.
* **Heap and library.** Areas overlap, printf takes arguments by
  what the format says. Correct means: blocks are disjoint, copies are copies,
  nothing but a string is followed as one.

`PROJECT.json` lists these hazards at their lines, under `hazards`, with the
properties that cover them.

## 2. Modules

    Paths <- FileTree                            (abstract)
    Paths <- Vfs <- VfsProofs                    Vfs implements FileTree
                 <- MCVfsBoot
                 <- Shell <- MCShell
                 <- Block
    Shell, Block <- Fat32 <- MCFat32
    Fat32, VfsProofs <- ShellProofs              the commands, mount included
    LineEditor                                   (abstract)
    Console <- ConsoleProofs, MCConsole          Console implements LineEditor
    Net <- NetProofs, MCNet
    Rtl8139, Rtl8139Tx <- RtlProofs, MCRtl8139
    Ahci <- AhciProofs, MCAhci
    Heap, Memmove, Lib, Printf <- MCLib
    Heap, Memmove, Lib, Printf <- LibProofs
    Recursion <- VfsProofs, AhciProofs, LibProofs

**Paths** holds the pure functions on path strings. A string that starts with
a slash is the sequence of the components between its slashes, the empty
component included: `/` is `<<Empty>>`, `/a/` is `<<a, Empty>>`, `//a` is
`<<Empty, a>>`. The map is one-to-one, so string comparison, prefix test, last
slash and length keep their meaning while no character is spelled out. Names
have a length, for the limits of 64 characters.

**Vfs** is the node table. The functions of `vfs.c` are operators on a table
(`find_node`, `CanCreate`, `Created`, `Deleted`, `Stored`, ...), so that the
shell, the block devices and a mount can make several calls in one step, and
the calls are actions (`wnu_vfs_create_file`, ...). A call is one step because
only the main loop calls `vfs.c`. A freed node keeps its path, size and bytes;
allocation resets all but the bytes, as in the code. `BootScript` is the list
of calls that `wnu_vfs_init` makes and `BootStep` makes them one by one.

**FileTree** is what callers may assume: a finite map from paths to directories
and to files with a content. `ImplementsFileTree` is the refinement under the
mapping "the used nodes, by path".

**Shell** adds the working directory. A typed path is nothing, `.`, absolute,
or relative; `Target` and `Resolves` are `resolve_path`. Each file command is an
action that includes every call it makes; `write` is `exists`, `create_file` and
`write_file` in a row.

**Block** is the table of devices. `wnu_block_register` makes up to three file
system calls in one step, whose results it ignores, and the registrations
stand between the boot of the file system and the first command.

**Fat32** is the mount command over Shell, Block and Vfs. A mount is a step for
each directory entry, each cluster and each file, since a disk read can fail
between any two of them; the shell does nothing meanwhile (`pc`). The unit of
length is a slot of 32 bytes, the size of a directory entry, and any slot can be
read as an entry (`AsEntry`): `cluster_buf` holds first the directory and then
clusters of files. `Clipped` is the path that is built in a buffer of 64
characters. A read that reports success is taken to have filled the buffer. The
disk driver does not see to that (see the findings about it and `wnu_virt_to_phys`
below), so what is said of a mount is said over a driver that does.

**Ahci** is `sata_block_read`, the controllers and the bus. The driver starts the
port, clears and fills the command header and the command table in the order of
the code (`Stored`, one store a step, the bytes of one field together), sets the
command bit, polls it, gives up after `MaxPolls` looks and reads the error bit. A
controller fetches the header, the FIS and the entry with the buffer one after the
other, brings sector after sector, and completes or fails, at its own pace; when
it fails, it clears the bit or stops with the bit set, since nobody clears its
error.

Where a controller looks in a header is not in the repository, and the code and
its comments differ: the code writes the number of entries to byte 4 and the
address of the table to 0x18, the comments say byte 2 and DW4. So `layout` is a
parameter, and a controller that does not find the number moves no data, one that
does not find the table reads whatever is at address 0. The one assumption is that
a controller that finds the number where the code writes it finds the table too;
without it the controller would follow entries at address 0 into any memory.
`wnu_virt_to_phys` subtracts the base of the kernel's image, so it is right for
buffers in the image (`InImage`) and `Nowhere` for one on the stack, which is what
`fat32.c` passes: what is transferred there reaches no buffer.

`bus` is what answers at each function. Controllers are pulled out, and then their
registers read as ones, and plugged in, and then have no BAR 5; a scan lists what
answers at the time. `given_up` are the controllers that were not at rest when the
read began or whose polling has ended without an answer, and `outcome` is what
the read's command was as its controller fetched it, and how it ended: two history
variables for the properties.

**Console** has the interrupt handler as one step (the gate disables
interrupts) and the main loop as one step for each load or store of a shared
variable. Mostly this is the order of the source and of the machine code that gcc
generates with the Makefile's options: a call or a volatile access stands between
the stores that matter. In newline none does, and gcc loads the row before it
stores the column where the source stores the column first; the two are done in
either order. What a poll or a command prints is any
characters, at most `MaxOut` in a row. Pixels are left out: nothing reads them.
**LineEditor** is what the user and the shell may assume.

**Net** is the stack and its environment: a gateway that answers and can be
replaced, other hosts, and a wire that loses, delays, reorders and duplicates.
The ring of received frames is a bounded sequence here; the driver below it is
Rtl8139.

**Rtl8139** is the receive ring. The card is external and modelled by what the
driver expects of it (the empty flag, CAPR plus 16, dropping what does not fit,
WRAP), with lengths in units of the alignment, four bytes. The driver's step
"read" looks at the header, "consume" moves the offset and CAPR. `skewed` and
`misled` are history variables: CAPR was written at an offset below 16, and the
driver handled something that was not the next frame. `rtl8139_init` writes 0 to
CAPR before it tells the card how to receive; `Restarts` is whether the latter
makes the card begin afresh.

**Rtl8139Tx** is the transmit path: the clearing, the copy, the two registers of
a descriptor and the turn of the buffers are steps, and the card reads a frame
from memory piece by piece. `due` is what the card owes in the order of the
calls, `overrun` that a buffer was filled again before its frame had left, which
the code does not prevent.

**Heap** is the bump allocator with sums modulo a word. **Memmove** is `memmove`
and `memcpy` byte by byte in one memory. **Lib** has the functions that only
compute, as recursive functions that follow the loops of the code: `strcmp`,
`strncmp`, `print_unsigned_base`, and the checksum of `net.c`. **Printf** walks
through the formats of the longest lines that drivers print, with `%-8s` and
`%lx`, which printf does not know: a format is the characters behind its percent
signs, since printf does nothing else by what it reads.

**MCShell** has two callers of the file system: a user, who gives commands, and a
kernel that makes any calls that create or delete. In each behaviour one of them
acts. The commands stop earlier (`CommandInode`), since each can do more.

**MCRtl8139** and **MCLib** put components side by side that share no state: in
each behaviour one of them works and the others rest. They interact with nothing
but their callers, so that interleaving them would add states and no cases.

## 3. Runs

| run | shows |
|---|---|
| `vfs_boot` | after the eight calls of `wnu_vfs_init`, none of which fails, a full table implements FileTree with contents, with nodes reused and texts longer than a buffer |
| `shell` | the tree shape and the completeness of `tree /`, with doubled, trailing and too long paths, in a table that fills up; stale working directories and failed commands |
| `console` | the cursor and the line under interruption, with liveness of input |
| `net` | who is sent what and when, and that asking again helps |
| `rtl8139` | frames received once, in order, all of them, until CAPR is skewed; frames sent as given, in order, all of them, until a buffer is overrun |
| `rtl8139_capr` | a violation: see the findings |
| `fat32` | copies follow their chains, mounts overwrite nothing and end, devices have their files |
| `fat32_rootfiles` | a violation |
| `ahci` | which command a success is about, what memory a controller writes that was not given up, that a stopped one yields no success, for both layouts of a header; that a read returns, and that a scan moves a device only when the bus before it has changed |
| `ahci_done` | a violation |
| `ahci_header` | a violation |
| `library` | comparison, numerals, checksum, copies, printf's arguments, blocks of the heap |

Each property of a passing run has a mutant in `PROJECT.json`: a plausible
wrong version of one definition, kept beside it in the module and used nowhere,
under which TLC finds the property violated.

Bounds, and why they are enough:

* `MaxInode` stops creations. In the runs of Vfs it is larger than the number of
  nodes, so that nodes are freed and reused; in `vfs_boot` the table is full
  when the boot ends, and only reuse makes room. The calls of `shell` have ten
  paths and fewer nodes than paths; two levels below a directory and both kinds
  of odd slashes are there, and the code treats a path by comparing it with one
  other at a time. The commands have half as many, and reach the others from a
  working directory.
* `MaxName` and `PathMax` are small numbers of characters instead of 64 (in
  `vfs_boot` 16, with the real names of the boot); some of the paths of each
  other run are just within and some beyond the limit.
* `MaxData` is one to three bytes or slots; texts are shorter, as long and
  longer.
* `Cols`, `Rows`, `BufSize` and `MaxOut` are two or three: every column is a
  first or a last one, a tab wraps more than once, the line fills up, and two
  characters in a row meet an interrupt in every state. Nothing in the code
  depends on more of the screen than whether a column or a row is the last.
* `RxSize` is two: the reply that is waited for stands behind or before any
  other frame. The packet kinds are the real two.
* The ring of `rtl8139` has nine units and holds two frames of three or four
  units, so that frames end at every place, the end and the lead included;
  the violation needs one of eleven. `Serials` is the number of the frames that
  fit and one, so no stale frame passes for the next. Three transmit buffers are
  enough for a first, a middle and a last one; a frame is too short or too long.
* A cluster has two slots, so that a file ends in the middle and at the end of
  a cluster, and of the buffer of three. The sixteen disks have chains that
  end, enter a cycle, return at once, and leave the disk, files in both orders,
  an empty file, a name that is another's when it is cut, and the three formats
  that the code refuses, each at the place where it does. There are two
  controllers and room for one device: the table of eight at its limit.
* `ahci` has three functions and a table of two: two controllers, one of which
  comes and goes, and one that cannot be read. Each controller has a caller, with
  one buffer in the image and one on the stack; there are two polls, the last of
  which gives up. One sector is enough, since its properties are about the command
  and the first write to a wrong place. What a controller finds at address 0
  (`AtZero`) is nothing or the worst, a command that overwrites the image. Reads in
  the two violations are of two sectors.
* The bytes of `library` have four values and packets up to five bytes, three
  words of which make a carry that carries again; the memory has four bytes,
  the heap four aligned pieces in words of seven bits.

Fairness. `Console`: `WF(Main)`; the main loop never waits and an interrupt
returns, so it goes on. Nothing is assumed of the keyboard. `Net`: `WF(Main)`
for the same reason; `WF(GatewayAnswers)` and `SF(DeliverReply)`, which say that
a gateway answers a request that stays on the wire and that the wire is not
unfair to one kind of frame for ever. They constrain no loss: `AskingAgainHelps`
has the end of losses, a card and a user who keeps asking as premises.
`Rtl8139`: `WF(Poll)`, and nothing of the card that stores. `Rtl8139Tx`:
`WF(Card)`, the card sends what it is told. `Fat32`: `WF(MountStep)`, a command
runs to its end in the one thread; each disk read ends, because of `ReadReturns`.
`Ahci`: `WF(BlockRead)` for the same reason, and nothing of the controllers, so
that `ReadReturns` speaks of silent ones too. The other specifications are
checked for safety only.

Findings.

* `rtl8139_poll` writes `offset - 16` to CAPR and 0 where that underflows,
  "safer than underflowing" in the words of its comment. 0 stands for offset 16.
  When the ring is emptied at an offset below 16 the card reports it as not
  empty and the driver reads old bytes as a header: a stale frame is handled
  again, or the loop breaks at a bad one and breaks there at every later poll.
  `rtl8139_capr` shows the first such step; `rtl8139` shows that all is well
  before it. In the code the lead is four places of 2048, so that it takes some
  laps of the ring, which no short test reaches.
* `fat32_mount` reads the clusters of files into the buffer that holds the
  directory it is walking through. After the first file that is not empty the
  rest of the directory is what that file's last cluster happens to contain.
  `fat32_rootfiles` shows a file of the root directory that is missing after a
  mount without any failure; `fat32` shows that the damage ends there: what is
  stored is still the beginning of some chain, and no file that was there before
  is touched.
* `sata_block_read` returns success when it has given up polling and the error
  bit is not set; `ahci_done` shows a success with the command still running.
  `ahci` shows what a caller may believe as long as that has not happened.
* The number of entries of a command is written to byte 4 of the header, and the
  comment beside it says "prdtl in byte 2". `ahci_header` has a controller that
  looks where the comment says: the read succeeds and nothing is in the buffer. So
  no property of this project says that a success has filled the buffer. What
  `ahci` says holds in the code as it is: that the success is that of the command
  of this read and no other.

Smaller disagreements met on the way, without a run: the comment on the address
of the table says "DW4/DW5 (offset 0x18)", and DW4 is at 0x10
(`drivers/sata.c:294`); `wnu_virt_to_phys` is used for buffers on the stack
(`drivers/sata.c:324`), for which it is wrong whatever the header is, so that a
read by `fat32.c` would fill no buffer; a comment says that clusters are assumed
contiguous, and the code follows the FAT (`fs/fat32.c:98`); files mounted at `/`
get paths with two slashes, which `ls /` and `tree /` pass over; the columns
that `lsblk` asks printf for are printed as text; a transmit buffer that is
overrun puts the card one round behind the driver, where it can wait with frames
to send.

## 4. Proofs

All theorems hold for every value of the constants under the assumptions of the
modules (`PathsAssumption`, `VfsAssumption`, `ShellAssumption`,
`BlockAssumption`, `CutAssumption`, `FatAssumption`, `ConsoleAssumption`,
`NetAssumption`, `RtlAssumption`, `TxAssumption`, `AhciAssumption`,
`LibAssumption`, `HeapAssumption`, `MemoryAssumption`), which TLC evaluates in
the runs. They give the constants their kinds and say little else: that the path
`/` fits (`VfsAssumption`, `ShellAssumption`), that cutting a name leaves a name
unless nothing is left of it (`CutAssumption`), that a frame is larger than the
lead of the card's ring and smaller than the ring (`RtlAssumption`), that the
heap is a multiple of its alignment and smaller than a word (`HeapAssumption`).
Three theorems have a hypothesis about the constants, stated with them below.
Every safety property of a passing run is stated by a theorem, and so is, for
every liveness property of the one thread and of its drivers, what the code has
to do with it: see the end of this section.

**Recursion** holds what the other proofs need about functions defined by
recursion. The provers know no induction over an operator, so the lemmas are
first-order and proved by a least counterexample: `MinIn` and `MaxIn` say that
sets of numbers have a smallest and, when bounded, a greatest element,
`Iteration` that a step can be taken again and again, and `Descent` that there is
a function that is given where a walk stops and elsewhere by its value at a place
of smaller rank. A recursive function of the models is `CHOOSE f : f = [...]`, and
`Descent` is what shows that there is something to choose. What such a function
computes is then shown by a least counterexample of its own.

**VfsProofs.** The invariant of `TypeCorrect`, `StaysTree` and
`InodesStayUnique` is `WellFormed(nodes, next_inode)`: types, named nodes, unique
paths, a root, every parent a directory, unique inodes below the next. Uniqueness
of inodes alone is not inductive, it needs the bound by the next one; the parents
need unique paths, since `find_node` returns the first hit. `CreatedKeepsTable`,
`DeletedKeepsTable` and `StoredKeepsTable` are about a table and not about the
variables, so that commands of several calls can use them. The interesting step is
in `DeletedKeepsTable`: a node whose parent is the deleted directory has the
directory's path as a strict prefix (`ParentOfPath`), so the loop in `delete`
would have found it, unless it has one component, and then its parent is `/`,
which is never deleted. Nothing in the code reads inodes yet, so their
uniqueness is a theorem and no run.

`TreeShowsAll`: `tree /` shows every node whose path has no empty component. The
walk has levels (`Walked`), each of which adds the children of the one before it
(`WalkGrows`). A plain path other than `/` has a plain parent that lists it
(`PlainParent`), so that a path of n components is on level n: a shortest one that
is not would have a parent that is not. There are levels enough, since a path has
fewer components than it may have characters.

`ImplementsTree`: every call is a step of `FileTree` or none. `FilesOf`,
`FilesCreated`, `FilesDeleted` and `FilesStored` say what becomes of the map from
paths to files when the table changes, `FilesCount` that the table is full when the
map has as many files as the table nodes, and `DeletableIffChildless` that the two
refuse the same deletions: a directory with anything below it has a child
(`BelowHasChild`, from the shortest path below it). `CreateAsTree` to `ReadAsTree`
then take the calls one by one, with what they return.

`BootSucceeds` is about scripts of `wnu_vfs_init` as `ScriptWorks` describes
them: directories before what is in them, files before what is written to them,
nothing twice, names that fit, and fewer nodes than the table has beside the
root. `MCVfsBoot` and `MCFat32` assume it, so TLC evaluates it for the script of the
code and for the one of the mount. Then every call succeeds: while it boots, the
table holds exactly what the calls so far have made, with their types, in its first
slots (`Built`), so that the next call finds its directory or its file and a free
node (`NextCanRun`).

`string_len` is the number of elements of a set (`Chars`) and not a fold along the
path, since nothing can be proved about a fold here: with a set, the length of a
path that is cut can be compared with that of the whole.

**ShellProofs**, the commands: `ShellTypeCorrect`, `StaleCwdIsBare`,
`CwdIsRemovedItself` and `FailuresAreClean`, the properties of the commands in the
run `shell`, and `NewNamesAreListed`, which is proved only: a name that a command
adds is in the next `ls` of its directory. The lemmas about tables say which
directories a call keeps; each command has an outcome (`CdOutcome`, `WriteOutcome`,
...) that the theorems share. The argument for stale directories is `AboveIsDir`: in a table
without orphans whatever has something below it is a directory of the table, so a
working directory that is not there has nothing below it, whatever it was typed as.
`CommandsKeepTree` has the tree, the inodes and the completeness of `tree /` of
VfsProofs for the commands, and `MountKeepsTree` for every step of a mount.

The mount: `FatTypeCorrect`, `CopiesTheChain` and `MountSpares`, for every disk,
that is for every content that can be read as entries and every table of clusters,
with cycles and with links that leave the disk. The invariant `FatIInv` is the
shell's, with the types of the three buffers (`Buffers`) and the state of the copy
(`Copying`): the bytes in `file_buf` are the beginning of the chain (`CopyOf`), and
between two clusters there is a number m such that m whole clusters were copied
and the mount is at the m-th cluster of the chain (`Following`); without the latter
the next cluster could be any. `ClippedIsPath` shows that a path that is cut to the
buffer of 64 characters is still a path, so that the lemmas about tables apply;
`Spares` says of each call in a mount that the nodes in use before are as they were,
since a mount writes only to files that it has just created.

What a mount brings: `FirstFilesComeThrough` is what is left of the promise that
the run `fat32_rootfiles` refutes. The entries up to the first one with content
are due (`Due`), and after a mount that reports no failure they are in the table,
each with all of its chain (`Whole`): up to its length, the end of its chain or the
size of a file of the table, whichever comes first.
The invariant `Arriving` says that the loop over the entries still reads the
directory, of which it has passed nothing but empty files and slots to skip, or is
past all that is due, and that a copy is whole when it is stored without a failure
(`CopyGoesOn`). The file with content is read over the directory by the very
step after which nothing more is due. So the promise holds for directories whose
only file with content is the last (`ContentLastSuffices`), and the violation needs
no more than a second one.

How long a mount takes: `MountsAreBounded`. `MountLeft` counts what the slots that
are left can cost, MaxData + 3 steps each: every read of a cluster adds to the
buffer of the file (`CopyGoesOn`), which ends at MaxData, so that a chain that
returns to itself costs no more than a long one. While a mount is under way nothing
but a mount steps (`MountIsAlone`) and every step makes `MountLeft` smaller.

The devices: `DevicesHaveFiles`, under `ScriptWorks` and `RoomForDevices`, which
says that the table has room for `/dev` and a file for each device behind what the
boot makes, and that the boot has not put something else there; TLC evaluates it in
`MCFat32`. The table is followed from the boot on (`Registered`): /dev is made with
the first device and is there for the others, since a file of a device is never
without its directory. Without the room a device is registered whose file is
missing, and nobody is told, so the hypothesis is what a larger table of devices
or a longer boot would have to be checked against.

**ConsoleProofs.** `TypeCorrect` and `CursorStaysOnScreen`. The invariant adds
to the bounds of the shared variables those of the coordinate that the main
loop holds in a register, since that is what it stores after an interrupt has
moved the cursor, and that `line_ready` holds from the moment the main loop has
seen it until it resets it, since that is what keeps the interrupt handler out
of the buffer. `ImplementsEditor` is the safety part of `ImplementsLineEditor`:
every step of the handler and of the main loop is a step of `LineEditor` or none.
It has the hypothesis `LineFits`, that the main loop's buffer is as long as the
console's; both are of 256 characters (`console/console.c:6`,
`kernel/main.c:147`). With a shorter one `readline` would cut the line and the
theorem would be false. `LinesAreTakenSoon`: once Enter was pressed no key changes
the line any more, no interrupt takes a step from the main loop, and every step
makes `StepsToTake` smaller, which two rounds of the loop with the longest output
(`Round`) bound.

**NetProofs.** `TypeCorrect`, `OnlyToGateway`, `CommandsAreKept` and the action
property `SendsAreAsked`. The invariant follows the address along the wire:
every believable reply under way or in the ring has an address that a gateway
has had; nothing is pending once the address is known; what is pending is what
is owed.

**RtlProofs**, sending: `TxTypeCorrect` and `SendsAsGiven`. As long as no buffer was
overrun, the descriptors that the card has still to send are those from where it
is to where the driver is, one for each frame that is due, each with the address,
the length and all bytes of its frame (`Window`); the buffer being filled is not
among them (`Filling`). Receiving: `RxTypeCorrect` and `InOrder`. Until CAPR is
skewed the ring holds a chain of frames from the driver's offset to the card's,
each of which begins where the one before it ends (`Pending`), with numbers in a
row, and the last read position that the card knows is the driver's. A new frame
does not reach the read position (`RingFacts`, `NothingOverwritten`), so that it
overwrites no header of the chain.

What liveness asks of the driver follows from the same two invariants.
`NoFrameStranded`: until a buffer is overrun the card stands at a buffer it was
given, whenever it was given one. `NoneLeftBehind`: until CAPR is skewed, poll stops
at an empty ring only when every stored frame was handled, and never at a header
that is none. `DrainsRing`: each frame that poll consumes takes its length from
`Backlog`, and nothing else that it does adds any. This is also all that can be said
of the loop in `rtl8139_poll`, which steady traffic keeps running. What the skew
costs is `EmptiedInTheLead`: in a ring of any size that was emptied at an offset
below the lead, the card sees frames where there are none and has no room for any.

**AhciProofs**, for any number of controllers, any bus and any layouts. The reads:
`ResultIsAboutTheRead`, `NothingBehindBack` and `StoppedMeansFailure`. The
invariant `AhciIInv` says what the stores so far have made of the command (`Built`),
that a controller works only while its bit is set and it is not stopped
(`Working`), and that one that was not given up and is not at rest is at the command
of the read that is polled for, of which it has fetched what was built
(`OnlyThisRead`). So when the bit is cleared without an error, the command that
ended was this read's, whole (`Answered`). Given-up controllers are free: they can
fetch half of a new command, and what they must not do is to disturb the others.
For this `Wellbuilt` says that whatever they find in a header is a list of their own
or the address 0, and that an order without an entry or without a table it can trust
leads nowhere (`Bare`).

The bus: `DevicesStay`. The table is what a scan found at some time, in the order of
the functions (`Listed`), and a scan lists each function that answers until the
table is full (`ScannedIs`). If the functions before the one of entry i are as they
were, the two tables agree up to i: the first place where they do not would be a
function that answers now and did not, or did and does not (`SamePrefix`).

`AhciTypeCorrect` adds what the driver counts (`Counted`). `ReadsAreBounded`: from
`Counted`, every step of a read leaves it fewer (`StepsLeft`), one for each store
and poll and two more at first, and no step of a controller or of the bus moves the
driver.

**LibProofs.** The heap: `HeapTypeCorrect` and `BlocksStaySeparate`. As long as no
sum has wrapped, every block lies below the offset (`Below`), where nothing is
handed out again; the offset stays in the heap even when sums wrap.

`MovesRight`, for every memory and every overlap: the invariant says what the memory
holds in the middle of a loop, and with the direction that `memmove` chose the byte
it reads next has not been written.

The functions of Lib, for strings and packets of every length: `ComparesRight`,
`PrintsNumerals` and `ChecksumsVerify`. Each loop is a function by `Descent`.
`strcmp` and `strncmp` return the difference at the first place where two strings
differ or end (`Scan`, `StrcmpIs`, `StrncmpIs`), and that place decides about their
order in the dictionary (`OrderedAt`). The digits of a number are those of its
quotient and one more, and so is what they mean (`NumberIs`, `DividedIs`). A round of
folding makes a sum smaller and takes a multiple of the greatest word from it
(`FoldStep`), so the sum and its fold differ by such a multiple (`Congruent`). They
are true of each call by itself, and therefore in every behaviour.

printf: `StringsAreStringsHolds`, for the lines of the drivers. Every line passes an
argument for each of its percent signs, known to printf or not, and `%s` comes first
or not at all (`LineShape`). The invariant (`PrintfInv`) is that the arguments taken
never overtake the percent signs passed, and that only the first was shown as a
string. A line with `%s` behind a `%lx` would break it, with nothing in the code to
tell.

Only model-checked:

* liveness, since fairness and `ENABLED` are beyond the proof system used:
  `AskingAgainHelps`, `EveryFrameHandled`, `EveryFrameLeaves`, `MountEnds`,
  `ReadReturns`, and of `ImplementsLineEditor` that a line that was entered is
  taken. Of the last five the safety half is proved, that every step goes on
  towards the end and that there is one in reach (`DrainsRing` and
  `NoneLeftBehind`, `NoFrameStranded`, `MountsAreBounded`, `ReadsAreBounded`,
  `LinesAreTakenSoon`); what TLC adds is that such a step is possible and, being
  fair, taken. `AskingAgainHelps` rests on a wire and a user that no measure of
  the code bounds.

The violations of the findings are counterexamples and need no proof.

## 5. Not modelled, and the plan

Left out for good:

* the bootloader's answers and the font header, which are checked once, before
  anything runs; programming the interrupt controller and the descriptor table;
* PCI configuration reads and the ELF header check, which have no state;
* pixels, scrolling of pixels and formatting of output;
* where the fields of packets, file system headers and the FIS of a command are:
  card and hosts are modelled by what the code expects of them. (Where a
  controller looks in a command header is modelled.) So are left out a
  disk with sectors of more than 512 bytes under the buffers of 512, beyond the
  formats that the mount refuses, and a controller that is no AHCI one, since
  the programming interface is not looked at;
* the commands that only print: `echo`, `pwd`, `help`, `about`;
* `memset`, `memcmp`, `strlen`, `strchr`, `strerror`, `abort`: one obvious loop
  or less;
* a CAPR that is half written (two byte stores), since what the card does then
  is not in the repository, and a poll that never returns under steady traffic,
  since no part of the code bounds it.

The main loop is in Console and in Net, each with what it concerns. They share no
variable: the network stack prints, which is any output in Console, and commands
come as lines, which is any command in Net.
