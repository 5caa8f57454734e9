-------------------------------- MODULE Ahci --------------------------------
(***************************************************************************)
(* Reading sectors: sata_block_read, src/src/drivers/sata.c, with the      *)
(* controllers it talks to, and the table of controllers that lsblk scans  *)
(* anew under the devices that point into it.                              *)
(*                                                                         *)
(* The driver has one command list and one command table in memory for     *)
(* each entry of its table.  It starts the port, fills the two store by    *)
(* store, sets a bit in the register CI and polls until the controller has *)
(* cleared it or a million polls are over.  Nobody stops a controller that *)
(* takes longer: it goes on reading what the driver writes for later reads *)
(* and writing where it was told.                                          *)
(*                                                                         *)
(* Where a controller looks in the header of a command is not in the       *)
(* repository, and the source contradicts itself: the comments say byte 2  *)
(* for the number of entries and DW4 for the address of the table, the     *)
(* code writes byte 4 and byte 0x18.  The controllers are modelled for any *)
(* layout; each fetches the header, the FIS and the entry one after the    *)
(* other, brings the sectors one by one and clears CI after the last.      *)
(***************************************************************************)
EXTENDS Integers, SequencesExt

CONSTANTS
  FirstBus,    \* what answers at each PCI function when the kernel boots
  Removable,   \* the functions that can be unplugged and plugged in again
  MaxCtrls,    \* SATA_MAX_CONTROLLERS
  Buffer,      \* the buffers of callers
  InImage,     \* those that are in the image of the kernel, not on the stack
  Nowhere,     \* an address that is in no buffer
  Lba, Count,  \* which sectors callers read
  Requests,    \* the reads that callers make
  MaxSectors,  \* the length of a buffer
  MaxPolls,    \* how often CI is read before the driver gives up
  Layouts,     \* where controllers may look in the header
  AtZero,      \* what may be at address 0, taken for a table
  Junk         \* what is in a buffer that is no sector

(* Nothing that is an AHCI controller, one whose registers cannot be reached
   through BAR 5, one that can be read. *)
Kind == {"none", "sata", "ahci"}

(* The bytes of a command header that the code writes as more than zero or that
   a controller may take for what they are not.  (The length of the FIS in byte
   0 is always the same.) *)
Offset == {2, 4, 8, 16, 24}

(* A device of wnu_sata_init points to an entry of sata_ctrls for ever. *)
Ctrl == 1 .. MaxCtrls

Read == [ctrl : Ctrl, buf : Buffer, lba : Lba, count : Count]

(* A controller that finds the entry of a command but not its table would take
   whatever is in memory at address 0 for both. *)
ASSUME AhciAssumption ==
  /\ FirstBus \in Seq(Kind) /\ Removable \subseteq DOMAIN FirstBus
  /\ MaxCtrls \in Nat /\ MaxSectors \in Nat \ {0} /\ MaxPolls \in Nat \ {0}
  /\ InImage \subseteq Buffer /\ Nowhere \notin Buffer
  /\ Lba \subseteq Nat /\ Count \subseteq 1 .. MaxSectors /\ Requests \subseteq Read
  /\ Layouts \subseteq [entries : {2, 4}, table : {8, 16, 24}]
  /\ \A l \in Layouts : l.entries = 4 => l.table = 24
  /\ Junk \notin Nat

Function == DOMAIN FirstBus

NoRead == [ctrl |-> 0]

Place == Buffer \cup {Nowhere}

NoFis == [lba |-> 0, count |-> 0]

Fis == [lba : Lba, count : Count] \cup {NoFis}

(* The list and the table of one entry, in memory. *)
Command ==
  [header : [Offset -> Nat], fis : Fis, place : Place, length : 0 .. MaxSectors]

NoCommand ==
  [header |-> [o \in Offset |-> 0], fis |-> NoFis, place |-> Nowhere, length |-> 0]

(* A command as far as a controller has fetched it. *)
Order ==
  [entries : {0, 1}, table : 0 .. MaxCtrls,
   fis : Fis, place : Place, length : 0 .. MaxSectors]

NoOrder ==
  [entries |-> 0, table |-> 0, fis |-> NoFis, place |-> Nowhere, length |-> 0]

Outcome == [how : {"none", "done", "failed"}, order : Order]

Pending == [how |-> "none", order |-> NoOrder]

VARIABLES
  bus,         \* what a PCI scan finds at each function
  sata_ctrls,  \* the table: the function of an entry and whether its BAR 5 is good
  known,       \* the length of the table when the devices were registered
  pc,          \* sata_block_read: "idle" or the step it is at
  read,        \* its arguments
  built,       \* how many of its stores to the command it has made
  polls,       \* how often it has looked at CI
  result,      \* what the last call returned
  command,     \* the list and the table of each entry
  memory,      \* the buffers
  layout,      \* where the controllers look in the header
  clb,         \* the entry whose list a controller was told to use
  ci, tfd_err, \* its registers, bit 0 of CI and of TFD
  stopped,     \* a controller that waits for its error to be cleared, or is gone
  stage,       \* a controller: "rest", or what it fetches or does next
  order,       \* what it has fetched of its command
  done,        \* and how many sectors of it are in memory
  given_up,    \* controllers that may be at a command the driver has given up
  outcome      \* how the command of this read ended

tables     == <<bus, sata_ctrls, known>>
driver     == <<pc, read, built, polls, result, command>>
controller == <<layout, clb, ci, tfd_err, stopped, stage, order, done>>
history    == <<given_up, outcome>>
vars == <<tables, driver, controller, memory, history>>

-----------------------------------------------------------------------------
(* sata_scan_pci. *)

Entry(f, b) == [func |-> f, usable |-> b[f] = "ahci"]

(* Mutant of Filled: a controller without registers is left out. *)
FilledUsable(s, e) == IF e.usable /\ Len(s) < MaxCtrls THEN Append(s, e) ELSE s

Filled(s, e) == IF Len(s) < MaxCtrls THEN Append(s, e) ELSE s

(* The count is reset, and the functions are asked in their order. *)
Scanned(b) ==
  LET upto[k \in 0 .. Len(FirstBus)] ==
        IF k = 0 THEN <<>>
        ELSE IF b[k] = "none" THEN upto[k - 1]
        ELSE Filled(upto[k - 1], Entry(k, b))
  IN  upto[Len(FirstBus)]

wnu_sata_init ==
  /\ pc = "boot"
  /\ sata_ctrls' = Scanned(bus)
  /\ known' = Len(sata_ctrls')
  /\ pc' = "idle"
  /\ UNCHANGED <<bus, read, built, polls, result, command, memory, controller,
                 history>>

wnu_sata_print_devices ==
  /\ pc = "idle"
  /\ sata_ctrls' = Scanned(bus)
  /\ UNCHANGED <<bus, known, driver, memory, controller, history>>

(* The bus can answer otherwise at the next scan.  A controller that is gone
   reads as all ones.  What is plugged in has no BAR 5, since nothing in the
   kernel assigns one. *)
Unplug(f) ==
  /\ bus[f] # "none"
  /\ bus' = [bus EXCEPT ![f] = "none"]
  /\ ci' = [ci EXCEPT ![f] = TRUE]
  /\ tfd_err' = [tfd_err EXCEPT ![f] = TRUE]
  /\ stopped' = [stopped EXCEPT ![f] = TRUE]
  /\ stage' = [stage EXCEPT ![f] = "rest"]
  /\ order' = [order EXCEPT ![f] = NoOrder]
  /\ done' = [done EXCEPT ![f] = 0]
  /\ UNCHANGED <<sata_ctrls, known, driver, layout, clb, memory, history>>

Plug(f) ==
  /\ bus[f] = "none"
  /\ bus' = [bus EXCEPT ![f] = "sata"]
  /\ UNCHANGED <<sata_ctrls, known, driver, controller, memory, history>>

-----------------------------------------------------------------------------
(* sata_block_read. *)

(* No memory space for registers, no port, or an entry that the last scan has
   not filled. *)
Reachable(c) == c \in DOMAIN sata_ctrls /\ sata_ctrls[c].usable

Refuse ==
  /\ pc = "idle"
  /\ \E c \in 1 .. known : ~Reachable(c)
  /\ result' = "no"
  /\ UNCHANGED <<tables, pc, read, built, polls, command, memory,
                 controller, history>>

Target == sata_ctrls[read.ctrl].func

(* Neither at a command nor about to fetch one. *)
AtRest(f) == stage[f] = "rest" /\ (ci[f] => stopped[f])

(* The arguments are good: the port is told where the list is and started. *)
Start(r) ==
  /\ pc = "idle"
  /\ r.ctrl \in 1 .. known /\ Reachable(r.ctrl)
  /\ read' = r
  /\ clb' = [clb EXCEPT ![sata_ctrls[r.ctrl].func] = r.ctrl]
  /\ pc' = "build"
  /\ result' = "none"
  /\ given_up' = {f \in Function : ~AtRest(f)}
  /\ UNCHANGED <<tables, built, polls, command, memory, layout, ci, tfd_err,
                 stopped, stage, order, done, outcome>>

(* wnu_virt_to_phys is right for the image of the kernel.  For the stack, which
   the bootloader maps elsewhere, it returns an address beyond all memory. *)
wnu_virt_to_phys(b) == IF b \in InImage THEN b ELSE Nowhere

(* Mutant of ctba: every header has the address of the first table. *)
FirstTable(r) == 1

ctba(r) == r.ctrl

(* Mutant of dbc: one sector too many. *)
OneTooMany(r) == r.count + 1

dbc(r) == r.count

(* The k-th store of r to its command: the list is cleared, the number of entries
   and the address of the table are written, the table is cleared, and the FIS
   and the address and the length of its one entry are written. *)
Stored(k, r, c) ==
  CASE k = 1 -> [c EXCEPT !.header = [o \in Offset |-> 0]]
    [] k = 2 -> [c EXCEPT !.header[4] = 1]
    [] k = 3 -> [c EXCEPT !.header[24] = ctba(r)]
    [] k = 4 -> [NoCommand EXCEPT !.header = c.header]
    [] k = 5 -> [c EXCEPT !.fis = [lba |-> r.lba, count |-> r.count]]
    [] k = 6 -> [c EXCEPT !.place = wnu_virt_to_phys(r.buf)]
    [] k = 7 -> [c EXCEPT !.length = dbc(r)]

Stores == 7

(* Mutant of Build: the command is issued with the first store to it. *)
BuildIssued ==
  /\ pc = "build"
  /\ built' = built + 1
  /\ command' = [command EXCEPT ![read.ctrl] = Stored(built', read, @)]
  /\ ci' = [ci EXCEPT ![Target] = TRUE]
  /\ pc' = IF built' = Stores THEN "issue" ELSE "build"
  /\ UNCHANGED <<tables, read, polls, result, memory, layout, clb, tfd_err,
                 stopped, stage, order, done, history>>

Build ==
  /\ pc = "build"
  /\ built' = built + 1
  /\ command' = [command EXCEPT ![read.ctrl] = Stored(built', read, @)]
  /\ pc' = IF built' = Stores THEN "issue" ELSE "build"
  /\ UNCHANGED <<tables, read, polls, result, memory, controller, history>>

Issue ==
  /\ pc = "issue"
  /\ ci' = [ci EXCEPT ![Target] = TRUE]
  /\ pc' = "poll"
  /\ UNCHANGED <<tables, read, built, polls, result, command, memory, layout,
                 clb, tfd_err, stopped, stage, order, done, history>>

PollDone ==
  /\ pc = "poll" /\ ~ci[Target]
  /\ pc' = "status"
  /\ UNCHANGED <<tables, read, built, polls, result, command, memory,
                 controller, history>>

(* Mutant of PollAgain: the loop has no end of its own. *)
PollForEver ==
  /\ pc = "poll" /\ ci[Target]
  /\ UNCHANGED vars

PollAgain ==
  /\ pc = "poll" /\ ci[Target]
  /\ polls' = polls + 1
  /\ \/ polls' < MaxPolls /\ UNCHANGED <<pc, given_up>>
     \/ /\ polls' = MaxPolls
        /\ pc' = "status"
        /\ given_up' = given_up \cup {Target}
  /\ UNCHANGED <<tables, read, built, result, command, memory, controller, outcome>>

(* Mutant of CheckStatus: the error bit is not looked at. *)
CheckNoStatus ==
  /\ pc = "status"
  /\ result' = "ok"
  /\ pc' = "idle" /\ read' = NoRead /\ built' = 0 /\ polls' = 0 /\ outcome' = Pending
  /\ UNCHANGED <<tables, command, memory, controller, given_up>>

CheckStatus ==
  /\ pc = "status"
  /\ result' = IF tfd_err[Target] THEN "no" ELSE "ok"
  /\ pc' = "idle" /\ read' = NoRead /\ built' = 0 /\ polls' = 0 /\ outcome' = Pending
  /\ UNCHANGED <<tables, command, memory, controller, given_up>>

BlockRead == Build \/ Issue \/ PollDone \/ PollAgain \/ CheckStatus

(* The buffers are on the stack: callers use them for other things. *)
Reuse(b) ==
  /\ pc = "idle"
  /\ memory' = [memory EXCEPT ![b] = [k \in 1 .. MaxSectors |-> Junk]]
  /\ UNCHANGED <<tables, driver, controller, history>>

-----------------------------------------------------------------------------
(* A controller. *)

Sectors(o) == IF o.fis.count < o.length THEN o.fis.count ELSE o.length

FetchHeader(f) ==
  /\ stage[f] = "rest" /\ ci[f] /\ ~stopped[f]
  /\ LET header == command[clb[f]].header
     IN  order' = [order EXCEPT ![f].entries = header[layout.entries],
                                ![f].table = header[layout.table]]
  /\ stage' = [stage EXCEPT ![f] = "fis"]
  /\ UNCHANGED <<tables, driver, layout, clb, ci, tfd_err, stopped, memory, done,
                 history>>

(* Address 0 is no table, and what is there is the bootloader's. *)
FetchFis(f) ==
  /\ stage[f] = "fis"
  /\ \E fis \in Fis :
       /\ order[f].table # 0 => fis = command[order[f].table].fis
       /\ order[f].table = 0 => \E z \in AtZero : fis = z.fis
       /\ order' = [order EXCEPT ![f].fis = fis]
  /\ stage' = [stage EXCEPT ![f] = IF order[f].entries = 0 THEN "data" ELSE "entry"]
  /\ UNCHANGED <<tables, driver, layout, clb, ci, tfd_err, stopped, memory, done,
                 history>>

FetchEntry(f) ==
  /\ stage[f] = "entry"
  /\ \E place \in Place, length \in 0 .. MaxSectors :
       /\ order[f].table # 0 => /\ place = command[order[f].table].place
                                /\ length = command[order[f].table].length
       /\ order[f].table = 0 => \E z \in AtZero : place = z.place /\ length = z.length
       /\ order' = [order EXCEPT ![f].place = place, ![f].length = length]
  /\ stage' = [stage EXCEPT ![f] = "data"]
  /\ UNCHANGED <<tables, driver, layout, clb, ci, tfd_err, stopped, memory, done,
                 history>>

Transfer(f) ==
  /\ stage[f] = "data" /\ done[f] < Sectors(order[f])
  /\ done' = [done EXCEPT ![f] = @ + 1]
  /\ \/ order[f].place = Nowhere /\ UNCHANGED memory
     \/ /\ order[f].place # Nowhere
        /\ memory' = [memory EXCEPT ![order[f].place][done[f] + 1] =
                        order[f].fis.lba + done[f]]
  /\ UNCHANGED <<tables, driver, layout, clb, ci, tfd_err, stopped, stage, order,
                 history>>

Ends(f, how) ==
  /\ stage' = [stage EXCEPT ![f] = "rest"]
  /\ order' = [order EXCEPT ![f] = NoOrder]
  /\ done' = [done EXCEPT ![f] = 0]
  /\ outcome' = IF pc = "poll" /\ f = Target
                THEN [how |-> how, order |-> order[f]] ELSE outcome

Complete(f) ==
  /\ stage[f] = "data" /\ done[f] = Sectors(order[f])
  /\ ci' = [ci EXCEPT ![f] = FALSE]
  /\ tfd_err' = [tfd_err EXCEPT ![f] = FALSE]
  /\ Ends(f, "done")
  /\ UNCHANGED <<tables, driver, layout, clb, stopped, memory, given_up>>

(* A command that fails is over.  The controller can clear CI with it, or keep
   it set and wait for the driver to start the port again, which it never
   does. *)
Fail(f) ==
  /\ stage[f] # "rest"
  /\ tfd_err' = [tfd_err EXCEPT ![f] = TRUE]
  /\ \/ ci' = [ci EXCEPT ![f] = FALSE] /\ UNCHANGED stopped
     \/ stopped' = [stopped EXCEPT ![f] = TRUE] /\ UNCHANGED ci
  /\ Ends(f, "failed")
  /\ UNCHANGED <<tables, driver, layout, clb, memory, given_up>>

Controller(f) ==
  \/ FetchHeader(f) \/ FetchFis(f) \/ FetchEntry(f)
  \/ Transfer(f) \/ Complete(f) \/ Fail(f)

Init ==
  /\ bus = FirstBus
  /\ sata_ctrls = <<>> /\ known = 0
  /\ pc = "boot" /\ read = NoRead /\ built = 0 /\ polls = 0 /\ result = "none"
  /\ command = [c \in Ctrl |-> NoCommand]
  /\ memory = [b \in Buffer |-> [k \in 1 .. MaxSectors |-> Junk]]
  /\ layout \in Layouts
  /\ clb = [f \in Function |-> 0]
  /\ ci = [f \in Function |-> FALSE]
  /\ tfd_err = [f \in Function |-> FALSE]
  /\ stopped = [f \in Function |-> FALSE]
  /\ stage = [f \in Function |-> "rest"]
  /\ order = [f \in Function |-> NoOrder]
  /\ done = [f \in Function |-> 0]
  /\ given_up = {}
  /\ outcome = Pending

Next ==
  \/ wnu_sata_init \/ wnu_sata_print_devices
  \/ Refuse
  \/ \E r \in Requests : Start(r)
  \/ BlockRead
  \/ \E b \in Buffer : Reuse(b)
  \/ \E f \in Removable : Unplug(f) \/ Plug(f)
  \/ \E f \in Function : Controller(f)

Spec == Init /\ [][Next]_vars

(* A call runs to its end; nothing is assumed of the controllers. *)
FairSpec == Spec /\ WF_vars(BlockRead)

-----------------------------------------------------------------------------
(* Properties. *)

(* Everything has its type, and no command goes beyond the end of a buffer. *)
TypeOK ==
  /\ bus \in [Function -> Kind]
  /\ sata_ctrls \in Seq([func : Function, usable : BOOLEAN])
  /\ Len(sata_ctrls) <= MaxCtrls
  /\ known \in 0 .. MaxCtrls
  /\ pc \in {"boot", "idle", "build", "issue", "poll", "status"}
  /\ read \in Read \cup {NoRead}
  /\ built \in 0 .. Stores /\ polls \in 0 .. MaxPolls
  /\ result \in {"none", "ok", "no"}
  /\ command \in [Ctrl -> Command]
  /\ memory \in [Buffer -> [1 .. MaxSectors -> Nat \cup {Junk}]]
  /\ layout \in Layouts
  /\ clb \in [Function -> 0 .. MaxCtrls]
  /\ ci \in [Function -> BOOLEAN] /\ tfd_err \in [Function -> BOOLEAN]
  /\ stopped \in [Function -> BOOLEAN]
  /\ stage \in [Function -> {"rest", "fis", "entry", "data"}]
  /\ order \in [Function -> Order]
  /\ done \in [Function -> 0 .. MaxSectors]
  /\ given_up \subseteq Function
  /\ outcome \in Outcome

(* The command of r, whole, as a controller finds it. *)
Carries(o, r) ==
  /\ o.entries = (IF layout.entries = 4 THEN 1 ELSE 0)
  /\ layout.table = 24 => o.fis = [lba |-> r.lba, count |-> r.count]
  /\ o.entries = 1 => o.place = wnu_virt_to_phys(r.buf) /\ o.length = r.count

(* As long as its controller was not given up, the success of a read is about
   that read: its controller has fetched the whole command of it, not one that
   was half built or an older one, and has ended it without an error.  What
   other controllers are at, which reads failed before it and what lsblk found
   meanwhile makes no difference. *)
ResultIsOfThisRead ==
  [][pc = "status" /\ pc' = "idle" /\ Target \notin given_up /\ result' = "ok" =>
       outcome.how = "done" /\ Carries(outcome.order, read)]_vars

(* A controller that was not given up writes into memory only for the read that
   is running and only into its buffer, whatever given up ones do: what a
   caller has put into a buffer since its own read stays. *)
NoWriteBehindBack ==
  [][\A f \in Function \ given_up : done'[f] > done[f] =>
       /\ pc = "poll" /\ f = Target
       /\ \A b \in Buffer \ {read.buf} : memory'[b] = memory[b]]_vars

(* A controller that has stopped at an error gives no success, although its
   command bit stays set through every later read. *)
NoSuccessWhenStopped ==
  [][pc = "status" /\ pc' = "idle" /\ stopped[Target] => result' = "no"]_vars

(* A read returns, also from a controller that never answers. *)
ReadReturns == pc = "build" ~> pc = "idle"

(* The functions up to that of entry i are as they were when it was scanned. *)
SameBusUpTo(i) ==
  /\ bus[sata_ctrls[i].func] # "none"
  /\ \A f \in 1 .. sata_ctrls[i].func - 1 :
       bus[f] # "none" <=> \E k \in 1 .. i - 1 : sata_ctrls[k].func = f

(* lsblk scans the table under the feet of the devices, which point into it.  A
   device comes to mean another controller only when something before its own
   on the bus has changed: nothing behind it, no read and no failure does. *)
DevicesMoveOnlyWithTheBus ==
  [][wnu_sata_print_devices =>
       \A i \in DOMAIN sata_ctrls : SameBusUpTo(i) =>
         i \in DOMAIN sata_ctrls' /\ sata_ctrls'[i].func = sata_ctrls[i].func]_vars

-----------------------------------------------------------------------------
(* What the source says. *)

(* The loop after the command was issued says "Poll for completion", and what
   is printed after it "done": a success would mean completion. *)
SuccessMeansCompletion ==
  [][pc = "status" /\ pc' = "idle" /\ result' = "ok" => ~ci[Target]]_vars

InMemory(r) == \A k \in 1 .. r.count : memory[r.buf][k] = r.lba + k - 1

(* The comment beside the header says "prdtl in byte 2 - we'll set at offset 2".
   Then a controller that looks for it there finds the entry with the address of
   the buffer, and the success of a read that was not given up means that the
   buffer holds the sectors. *)
SuccessIsTrue ==
  [][pc = "status" /\ pc' = "idle" /\ Target \notin given_up /\ result' = "ok" =>
       InMemory(read)]_vars
=============================================================================
