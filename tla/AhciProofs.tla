----------------------------- MODULE AhciProofs -----------------------------
(***************************************************************************)
(* Theorems about sata_block_read, for any number of controllers that look *)
(* anywhere in a header, are slow or silent, fail or are pulled out: what  *)
(* a controller does that was not given up is about the read that runs.    *)
(***************************************************************************)
EXTENDS Ahci, Recursion, SequenceTheorems

Reading == {"build", "issue", "poll", "status"}

(* The types that the argument needs. *)
Typed ==
  /\ pc \in {"boot", "idle"} \cup Reading
  /\ read \in Read \cup {NoRead}
  /\ command \in [Ctrl -> Command]
  /\ memory \in [Buffer -> [1 .. MaxSectors -> Nat \cup {Junk}]]
  /\ layout \in Layouts
  /\ clb \in [Function -> 0 .. MaxCtrls]
  /\ ci \in [Function -> BOOLEAN] /\ tfd_err \in [Function -> BOOLEAN]
  /\ stopped \in [Function -> BOOLEAN]
  /\ stage \in [Function -> {"rest", "fis", "entry", "data"}]
  /\ order \in [Function -> Order]
  /\ done \in [Function -> Nat]
  /\ given_up \subseteq Function
  /\ outcome \in Outcome

(* The arguments of a read, and which port it has started. *)
Arguments ==
  pc \in Reading => /\ read \in Read /\ Target \in Function
                    /\ clb[Target] = read.ctrl

(* What is in the headers, at every offset at which a controller may look. *)
Wellbuilt ==
  \A c \in Ctrl : /\ \A o \in {2, 8, 16} : command[c].header[o] = 0
                  /\ command[c].header[4] \in {0, 1}
                  /\ command[c].header[24] \in {0, c}

(* Without an entry, or before it is fetched, there is nowhere to write to. *)
Bare(o, s) ==
  /\ s # "data" \/ o.entries = 0 => o.length = 0
  /\ s = "entry" => o.entries # 0

(* A controller is at a command only while its bit is set, and has brought no
   more sectors than the command asks for; what it takes for a list is one; a
   stopped one shows an error. *)
Working ==
  \A f \in Function :
    /\ stage[f] # "rest" => ci[f] /\ ~stopped[f]
    /\ stage[f] # "data" => done[f] = 0
    /\ stage[f] = "data" => done[f] <= Sectors(order[f])
    /\ Bare(order[f], stage[f])
    /\ ci[f] /\ ~stopped[f] => clb[f] \in Ctrl
    /\ stopped[f] => tfd_err[f]

(* After k stores the command c has this of the read r. *)
BuiltUp(c, r, k) ==
  /\ k >= 2 => c.header[4] = 1
  /\ k >= 3 => c.header[24] = r.ctrl
  /\ k >= 5 => c.fis = [lba |-> r.lba, count |-> r.count]
  /\ k >= 6 => c.place = wnu_virt_to_phys(r.buf)
  /\ k >= 7 => c.length = r.count

Built ==
  /\ pc = "build" => built \in 0 .. Stores - 1 /\ BuiltUp(command[read.ctrl], read, built)
  /\ pc \in {"issue", "poll", "status"} => BuiltUp(command[read.ctrl], read, Stores)

(* What a controller has fetched is of the read. *)
Fetched(f) ==
  /\ stage[f] # "rest" =>
       /\ order[f].entries = (IF layout.entries = 4 THEN 1 ELSE 0)
       /\ order[f].table = (IF layout.table = 24 THEN read.ctrl ELSE 0)
  /\ stage[f] \in {"entry", "data"} /\ layout.table = 24 =>
       order[f].fis = [lba |-> read.lba, count |-> read.count]
  /\ stage[f] = "data" => Carries(order[f], read)

(* A controller that was not given up is at rest, unless it is at the command of
   the read that is being polled for. *)
OnlyThisRead ==
  \A f \in Function \ given_up : ~AtRest(f) => pc = "poll" /\ f = Target /\ Fetched(f)

(* And when its bit is gone without an error it has ended that command. *)
Answered ==
  /\ pc = "status" /\ Target \notin given_up => ~ci[Target] \/ tfd_err[Target]
  /\ pc \in {"poll", "status"} /\ Target \notin given_up /\ ~ci[Target] /\ ~tfd_err[Target] =>
       outcome.how = "done" /\ Carries(outcome.order, read)

(* The entries of the table are in the order of the bus. *)
Ascending(s) == \A i, j \in DOMAIN s : i < j => s[i].func < s[j].func
Listed ==
  /\ sata_ctrls \in Seq([func : Function, usable : BOOLEAN])
  /\ Len(sata_ctrls) <= MaxCtrls /\ Ascending(sata_ctrls)
  /\ known \in 0 .. MaxCtrls
  /\ pc \in Reading => read.ctrl \in DOMAIN sata_ctrls

AhciIInv ==
  Typed /\ Arguments /\ Wellbuilt /\ Working /\ Built /\ OnlyThisRead /\ Answered

LEMMA ReadFacts ==
  /\ NoRead \notin Read
  /\ \A r \in Read : /\ r.ctrl \in Ctrl /\ r.buf \in Buffer /\ r.lba \in Lba
                     /\ r.count \in Count /\ r.lba \in Nat /\ r.count \in 0 .. MaxSectors
  /\ Ctrl \subseteq 0 .. MaxCtrls
<1>1. \A r \in Read : r.ctrl \in Ctrl /\ r.ctrl # 0
  BY AhciAssumption DEF Read, Ctrl
<1>2. NoRead.ctrl = 0
  BY DEF NoRead
<1>3. NoRead \notin Read
  BY <1>1, <1>2
<1>4. \A r \in Read : /\ r.buf \in Buffer /\ r.lba \in Lba /\ r.count \in Count
                      /\ r.lba \in Nat /\ r.count \in 0 .. MaxSectors
  <2>1. Lba \subseteq Nat /\ MaxSectors \in Nat /\ Count \subseteq 1 .. MaxSectors
    BY AhciAssumption
  <2>2. \A r \in Read : r.buf \in Buffer /\ r.lba \in Lba /\ r.count \in Count
    BY DEF Read
  <2>3. \A n \in Count : n \in 0 .. MaxSectors
    BY <2>1
  <2>. QED
    BY <2>1, <2>2, <2>3
<1>. QED
  BY <1>1, <1>3, <1>4, AhciAssumption DEF Ctrl

(* What an order asks for fits into a buffer. *)
LEMMA OrderFacts ==
  ASSUME NEW o \in Order
  PROVE  /\ Sectors(o) \in 0 .. MaxSectors
         /\ o.fis.lba \in Nat /\ o.fis.count \in Nat /\ o.place \in Place
<1>1. MaxSectors \in Nat /\ Count \subseteq 1 .. MaxSectors /\ Lba \subseteq Nat
  BY AhciAssumption
<1>2. o.fis \in Fis /\ o.length \in 0 .. MaxSectors /\ o.place \in Place
  BY DEF Order
<1>3. \A fis \in Fis : fis.lba \in Nat /\ fis.count \in 0 .. MaxSectors
  <2>1. \A n \in Count : n \in 0 .. MaxSectors
    BY <1>1
  <2>2. NoFis.lba \in Nat /\ NoFis.count \in 0 .. MaxSectors
    BY <1>1 DEF NoFis
  <2>3. ASSUME NEW fis \in [lba : Lba, count : Count]
        PROVE  fis.lba \in Nat /\ fis.count \in 0 .. MaxSectors
    BY <1>1, <2>1
  <2>. QED
    BY <2>2, <2>3 DEF Fis
<1>. QED
  BY <1>1, <1>2, <1>3 DEF Sectors

LEMMA Empty == NoFis \in Fis /\ Nowhere \in Place /\ NoOrder \in Order /\ NoCommand \in Command
<1>1. NoFis \in Fis /\ Nowhere \in Place /\ MaxCtrls \in Nat /\ MaxSectors \in Nat
  BY AhciAssumption DEF Fis, Place
<1>2. 0 \in 0 .. MaxCtrls /\ 0 \in 0 .. MaxSectors
  BY <1>1
<1>. QED
  BY <1>1, <1>2 DEF NoOrder, Order, NoCommand, Command

-----------------------------------------------------------------------------
(* The beginning, and the steps of the driver around a read. *)

LEMMA InitAhci == Init => AhciIInv
<1>. SUFFICES ASSUME Init PROVE AhciIInv
  OBVIOUS
<1>1. MaxCtrls \in Nat /\ 0 \in 0 .. MaxCtrls
  BY AhciAssumption
<1>2. Pending \in Outcome
  BY Empty DEF Pending, Outcome
<1>3. Typed
  BY <1>1, <1>2, Empty DEF Init, Typed
<1>4. Wellbuilt
  BY DEF Init, Wellbuilt, NoCommand, Offset
<1>5. Working
  BY DEF Init, Working, Bare, NoOrder
<1>. QED
  BY <1>3, <1>4, <1>5 DEF Init, AhciIInv, Arguments, Built, OnlyThisRead, Answered,
                          AtRest, Reading

(* Between reads every controller that was not given up is at rest. *)
LEMMA TableSteps ==
  ASSUME AhciIInv,
         wnu_sata_init \/ wnu_sata_print_devices \/ Refuse \/ (\E f \in Function : Plug(f))
  PROVE  AhciIInv'
<1>1. CASE \E f \in Function : Plug(f)
  BY <1>1 DEF Plug, driver, controller, history, AhciIInv, Typed, Arguments, Wellbuilt,
              Working, Built, OnlyThisRead, Answered, AtRest, Target, Fetched, Carries,
              Reading
<1>2. CASE wnu_sata_init \/ wnu_sata_print_devices \/ Refuse
  <2>1. /\ UNCHANGED <<read, command, memory, controller, history>>
        /\ pc \in {"boot", "idle"} /\ pc' = "idle"
    BY <1>2 DEF wnu_sata_init, wnu_sata_print_devices, Refuse, driver
  <2>2. \A f \in Function \ given_up : AtRest(f)
    BY <2>1 DEF AhciIInv, OnlyThisRead
  <2>. QED
    BY <2>1, <2>2 DEF AhciIInv, Typed, Arguments, Wellbuilt, Working, Built,
                      OnlyThisRead, Answered, AtRest, controller, history, Reading
<1>. QED
  BY <1>1, <1>2

LEMMA StartStep ==
  ASSUME AhciIInv, Listed, NEW r \in Read, Start(r), built = 0
  PROVE  AhciIInv'
<1>. DEFINE f0 == sata_ctrls[r.ctrl].func
<1>1. /\ pc' = "build" /\ read' = r /\ built' = 0
      /\ clb' = [clb EXCEPT ![f0] = r.ctrl]
      /\ UNCHANGED <<sata_ctrls, command, memory, layout, ci, tfd_err, stopped,
                     stage, order, done, outcome>>
      /\ given_up' = {f \in Function : ~AtRest(f)}
      /\ r.ctrl \in DOMAIN sata_ctrls
  BY DEF Start, tables, Reachable
<1>2. f0 \in Function
  <2>1. sata_ctrls \in Seq([func : Function, usable : BOOLEAN])
    BY DEF Listed
  <2>2. sata_ctrls[r.ctrl] \in [func : Function, usable : BOOLEAN]
    BY <1>1, <2>1, Zenon, ElementOfSeq, LenProperties
  <2>. QED
    BY <2>2
<1>3. r.ctrl \in Ctrl /\ r.ctrl \in 0 .. MaxCtrls
  BY ReadFacts
<1>4. Typed'
  BY <1>1, <1>2, <1>3 DEF AhciIInv, Typed, Reading
<1>5. Target' = f0 /\ clb'[f0] = r.ctrl
  BY <1>1, <1>2 DEF Target, AhciIInv, Typed
<1>6. Arguments'
  BY <1>1, <1>2, <1>5 DEF Arguments
<1>7. Working'
  BY <1>1, <1>2, <1>3 DEF AhciIInv, Typed, Working, Sectors, Bare
<1>8. Built'
  BY <1>1 DEF Built, BuiltUp, Stores
<1>9. OnlyThisRead'
  BY <1>1 DEF OnlyThisRead, AtRest
<1>10. Wellbuilt'
  BY <1>1 DEF AhciIInv, Wellbuilt
<1>. QED
  BY <1>1, <1>4, <1>6, <1>7, <1>8, <1>9, <1>10 DEF AhciIInv, Answered

LEMMA CheckStep ==
  ASSUME AhciIInv, CheckStatus \/ \E b \in Buffer : Reuse(b)
  PROVE  AhciIInv'
<1>1. /\ pc \in {"status", "idle"} /\ pc' = "idle"
      /\ UNCHANGED <<command, layout, clb, ci, tfd_err, stopped, stage, order, done,
                     given_up>>
      /\ read' \in {read, NoRead} /\ outcome' \in {outcome, Pending}
  BY DEF CheckStatus, Reuse, controller, driver, history
<1>2. memory' \in [Buffer -> [1 .. MaxSectors -> Nat \cup {Junk}]]
  <2>1. memory \in [Buffer -> [1 .. MaxSectors -> Nat \cup {Junk}]]
    BY DEF AhciIInv, Typed
  <2>2. ASSUME NEW b \in Buffer, Reuse(b)
        PROVE  memory' \in [Buffer -> [1 .. MaxSectors -> Nat \cup {Junk}]]
    BY <2>1, <2>2 DEF Reuse
  <2>. QED
    BY <2>1, <2>2 DEF CheckStatus
<1>3. Pending \in Outcome
  BY Empty DEF Pending, Outcome
<1>4. Typed'
  BY <1>1, <1>2, <1>3 DEF AhciIInv, Typed
<1>5. \A f \in Function \ given_up : AtRest(f)
  BY <1>1 DEF AhciIInv, OnlyThisRead
<1>. QED
  BY <1>1, <1>4, <1>5 DEF AhciIInv, Arguments, Wellbuilt, Working, Built, OnlyThisRead,
                          Answered, AtRest, Reading, Sectors

-----------------------------------------------------------------------------
(* The stores to the command. *)

LEMMA StoredIs ==
  ASSUME NEW r \in Read, NEW c \in Command, NEW k \in 0 .. Stores - 1, BuiltUp(c, r, k),
         \A o \in {2, 8, 16} : c.header[o] = 0,
         c.header[4] \in {0, 1}, c.header[24] \in {0, r.ctrl}
  PROVE  LET d == Stored(k + 1, r, c)
         IN  /\ d \in Command /\ BuiltUp(d, r, k + 1)
             /\ \A o \in {2, 8, 16} : d.header[o] = 0
             /\ d.header[4] \in {0, 1} /\ d.header[24] \in {0, r.ctrl}
<1>. DEFINE Good(d, n) == /\ d \in Command /\ BuiltUp(d, r, n)
                          /\ \A o \in {2, 8, 16} : d.header[o] = 0
                          /\ d.header[4] \in {0, 1} /\ d.header[24] \in {0, r.ctrl}
<1>. SUFFICES Good(Stored(k + 1, r, c), k + 1)
  OBVIOUS
<1>1. /\ c.header \in [Offset -> Nat] /\ c.fis \in Fis /\ c.place \in Place
      /\ c.length \in 0 .. MaxSectors
      /\ c = [header |-> c.header, fis |-> c.fis, place |-> c.place, length |-> c.length]
  BY DEF Command
<1>2. /\ r.ctrl \in Nat /\ r.count \in 0 .. MaxSectors
      /\ [lba |-> r.lba, count |-> r.count] \in Fis
      /\ wnu_virt_to_phys(r.buf) \in Place /\ 0 \in 0 .. MaxSectors
  BY ReadFacts, AhciAssumption DEF Fis, wnu_virt_to_phys, Place, Ctrl
<1>3. CASE k = 0
  <2>1. Stored(1, r, c) = [c EXCEPT !.header = [o \in Offset |-> 0]]
    BY DEF Stored
  <2>2. Good([c EXCEPT !.header = [o \in Offset |-> 0]], 1)
    BY <1>1 DEF Command, BuiltUp, Offset
  <2>3. k + 1 = 1
    BY <1>3
  <2>. HIDE DEF Good
  <2>. QED
    BY <2>1, <2>2, <2>3
<1>4. CASE k = 1
  <2>1. Stored(2, r, c) = [c EXCEPT !.header[4] = 1]
    BY DEF Stored
  <2>2. Good([c EXCEPT !.header[4] = 1], 2)
    BY <1>1 DEF Command, BuiltUp, Offset
  <2>3. k + 1 = 2
    BY <1>4
  <2>. HIDE DEF Good
  <2>. QED
    BY <2>1, <2>2, <2>3
<1>5. CASE k = 2
  <2>1. Stored(3, r, c) = [c EXCEPT !.header[24] = r.ctrl]
    BY DEF Stored, ctba
  <2>2. Good([c EXCEPT !.header[24] = r.ctrl], 3)
    BY <1>1, <1>2, <1>5 DEF Command, BuiltUp, Offset
  <2>3. k + 1 = 3
    BY <1>5
  <2>. HIDE DEF Good
  <2>. QED
    BY <2>1, <2>2, <2>3
<1>6. CASE k = 3
  <2>1. Stored(4, r, c) = [NoCommand EXCEPT !.header = c.header]
    BY DEF Stored
  <2>2. Good([NoCommand EXCEPT !.header = c.header], 4)
    BY <1>1, <1>2, <1>6, Empty DEF NoCommand, Command, BuiltUp
  <2>3. k + 1 = 4
    BY <1>6
  <2>. HIDE DEF Good
  <2>. QED
    BY <2>1, <2>2, <2>3
<1>7. CASE k = 4
  <2>1. Stored(5, r, c) = [c EXCEPT !.fis = [lba |-> r.lba, count |-> r.count]]
    BY DEF Stored
  <2>2. Good([c EXCEPT !.fis = [lba |-> r.lba, count |-> r.count]], 5)
    BY <1>1, <1>2, <1>7 DEF Command, BuiltUp
  <2>3. k + 1 = 5
    BY <1>7
  <2>. HIDE DEF Good
  <2>. QED
    BY <2>1, <2>2, <2>3
<1>8. CASE k = 5
  <2>1. Stored(6, r, c) = [c EXCEPT !.place = wnu_virt_to_phys(r.buf)]
    BY DEF Stored
  <2>2. Good([c EXCEPT !.place = wnu_virt_to_phys(r.buf)], 6)
    BY <1>1, <1>2, <1>8 DEF Command, BuiltUp
  <2>3. k + 1 = 6
    BY <1>8
  <2>. HIDE DEF Good
  <2>. QED
    BY <2>1, <2>2, <2>3
<1>9. CASE k = 6
  <2>1. Stored(7, r, c) = [c EXCEPT !.length = r.count]
    BY DEF Stored, dbc
  <2>2. Good([c EXCEPT !.length = r.count], 7)
    BY <1>1, <1>2, <1>9 DEF Command, BuiltUp
  <2>3. k + 1 = 7
    BY <1>9
  <2>. HIDE DEF Good
  <2>. QED
    BY <2>1, <2>2, <2>3
<1>. QED
  BY <1>3, <1>4, <1>5, <1>6, <1>7, <1>8, <1>9 DEF Stores

(* Nobody who was not given up is looking. *)
LEMMA BuildStep ==
  ASSUME AhciIInv, Build
  PROVE  AhciIInv'
<1>1. /\ pc = "build" /\ built' = built + 1
      /\ pc' = IF built' = Stores THEN "issue" ELSE "build"
      /\ UNCHANGED <<sata_ctrls, read, memory, controller, history>>
  BY DEF Build, tables
<1>2. read \in Read /\ read.ctrl \in Ctrl /\ Target \in Function
  BY <1>1, ReadFacts DEF AhciIInv, Arguments, Reading
<1>. DEFINE c == command[read.ctrl]
            d == Stored(built + 1, read, c)
<1>3. c \in Command /\ built \in 0 .. Stores - 1 /\ BuiltUp(c, read, built)
  BY <1>1, <1>2 DEF AhciIInv, Typed, Built
<1>4. /\ d \in Command /\ BuiltUp(d, read, built + 1)
      /\ \A o \in {2, 8, 16} : d.header[o] = 0
      /\ d.header[4] \in {0, 1} /\ d.header[24] \in {0, read.ctrl}
  <2>1. /\ \A o \in {2, 8, 16} : c.header[o] = 0
        /\ c.header[4] \in {0, 1} /\ c.header[24] \in {0, read.ctrl}
    BY <1>2 DEF AhciIInv, Wellbuilt
  <2>. QED
    BY <1>2, <1>3, <2>1, StoredIs
<1>5. command' = [command EXCEPT ![read.ctrl] = d]
  BY <1>1 DEF Build
<1>6. command \in [Ctrl -> Command]
  BY DEF AhciIInv, Typed
<1>. HIDE DEF d
<1>7. /\ command' \in [Ctrl -> Command] /\ command'[read.ctrl] = d
      /\ \A e \in Ctrl \ {read.ctrl} : command'[e] = command[e]
  BY <1>2, <1>4, <1>5, <1>6
<1>8. Typed'
  BY <1>1, <1>7 DEF AhciIInv, Typed, controller, history, Reading
<1>9. Wellbuilt'
  BY <1>2, <1>4, <1>7 DEF AhciIInv, Wellbuilt
<1>10. Built'
  <2>1. built + 1 \in 0 .. Stores
    BY <1>3 DEF Stores
  <2>2. built + 1 # Stores => built + 1 \in 0 .. Stores - 1
    BY <2>1 DEF Stores
  <2>. QED
    BY <1>1, <1>4, <1>7, <2>2 DEF Built
<1>11. Arguments'
  BY <1>1, <1>2 DEF AhciIInv, Arguments, Target, controller, Reading
<1>12. \A f \in Function \ given_up : AtRest(f)
  BY <1>1 DEF AhciIInv, OnlyThisRead
<1>. QED
  BY <1>1, <1>8, <1>9, <1>10, <1>11, <1>12
     DEF AhciIInv, Working, OnlyThisRead, Answered, AtRest, controller, history, Sectors

-----------------------------------------------------------------------------
(* The steps from the issue of the command to its end. *)

LEMMA IssueStep ==
  ASSUME AhciIInv, Issue
  PROVE  AhciIInv'
<1>1. /\ pc = "issue" /\ pc' = "poll"
      /\ ci' = [ci EXCEPT ![Target] = TRUE]
      /\ UNCHANGED <<sata_ctrls, read, built, command, memory, layout, clb, tfd_err,
                     stopped, stage, order, done, given_up, outcome>>
  BY DEF Issue, tables, history
<1>2. /\ read \in Read /\ read.ctrl \in Ctrl /\ Target \in Function
      /\ clb[Target] = read.ctrl
  BY <1>1, ReadFacts DEF AhciIInv, Arguments, Reading
<1>3. ci'[Target] /\ \A f \in Function \ {Target} : ci'[f] = ci[f]
  BY <1>1, <1>2 DEF AhciIInv, Typed
<1>4. Target' = Target
  BY <1>1 DEF Target
<1>5. Typed'
  BY <1>1, <1>2 DEF AhciIInv, Typed, Reading
<1>6. Working'
  BY <1>1, <1>2, <1>3 DEF AhciIInv, Working, Sectors
<1>7. \A f \in Function \ given_up : AtRest(f)
  BY <1>1 DEF AhciIInv, OnlyThisRead
<1>8. OnlyThisRead'
  <2>1. \A f \in Function \ given_up : stage[f] = "rest" /\ (f # Target => AtRest(f)')
    BY <1>1, <1>3, <1>7 DEF AtRest
  <2>. QED
    BY <1>1, <1>4, <2>1 DEF OnlyThisRead, Fetched
<1>. QED
  BY <1>1, <1>2, <1>3, <1>4, <1>5, <1>6, <1>8
     DEF AhciIInv, Arguments, Wellbuilt, Built, Answered, Reading

(* A bit that is gone leaves the controller at rest. *)
LEMMA PollSteps ==
  ASSUME AhciIInv, PollDone \/ PollAgain
  PROVE  AhciIInv'
<1>1. /\ pc = "poll" /\ pc' \in {"poll", "status"}
      /\ UNCHANGED <<sata_ctrls, read, command, memory, layout, clb, ci, tfd_err,
                     stopped, stage, order, done, outcome>>
      /\ given_up' \in {given_up, given_up \cup {Target}}
      /\ pc' = "status" /\ Target \notin given_up' => ~ci[Target]
  <2>1. CASE PollDone
    BY <2>1 DEF PollDone, tables, controller, history
  <2>2. CASE PollAgain
    BY <2>2 DEF PollAgain, tables, controller
  <2>. QED
    BY <2>1, <2>2
<1>2. read \in Read /\ Target \in Function /\ Target' = Target
  BY <1>1 DEF AhciIInv, Arguments, Target, Reading
<1>3. Typed'
  BY <1>1, <1>2 DEF AhciIInv, Typed, Reading
<1>4. Working'
  BY <1>1 DEF AhciIInv, Working, Sectors
<1>5. \A f \in Function : ~AtRest(f)' => ci[f]
  BY <1>1 DEF AhciIInv, Working, AtRest
<1>6. OnlyThisRead'
  <2>. SUFFICES ASSUME NEW f \in Function \ given_up', ~AtRest(f)'
                PROVE  pc' = "poll" /\ f = Target' /\ Fetched(f)'
    BY DEF OnlyThisRead
  <2>1. f \in Function \ given_up /\ ~AtRest(f)
    BY <1>1 DEF AtRest
  <2>2. f = Target /\ Fetched(f)
    BY <2>1 DEF AhciIInv, OnlyThisRead
  <2>3. pc' = "poll"
    BY <1>1, <1>5, <2>2
  <2>. QED
    BY <1>1, <1>2, <2>2, <2>3 DEF Fetched, Carries
<1>7. Answered'
  BY <1>1, <1>2 DEF AhciIInv, Answered, Carries
<1>. QED
  BY <1>1, <1>2, <1>3, <1>4, <1>6, <1>7 DEF AhciIInv, Arguments, Wellbuilt, Built, Reading

LEMMA UnplugStep ==
  ASSUME AhciIInv, NEW f \in Function, Unplug(f)
  PROVE  AhciIInv'
<1>1. /\ ci' = [ci EXCEPT ![f] = TRUE]
      /\ tfd_err' = [tfd_err EXCEPT ![f] = TRUE]
      /\ stopped' = [stopped EXCEPT ![f] = TRUE]
      /\ stage' = [stage EXCEPT ![f] = "rest"]
      /\ order' = [order EXCEPT ![f] = NoOrder]
      /\ done' = [done EXCEPT ![f] = 0]
      /\ UNCHANGED <<sata_ctrls, pc, read, built, command, layout, clb, memory,
                     given_up, outcome>>
  BY DEF Unplug, driver, history
<1>2. /\ ci'[f] /\ tfd_err'[f] /\ stopped'[f] /\ stage'[f] = "rest" /\ done'[f] = 0
      /\ \A g \in Function \ {f} :
           /\ ci'[g] = ci[g] /\ tfd_err'[g] = tfd_err[g] /\ stopped'[g] = stopped[g]
           /\ stage'[g] = stage[g] /\ order'[g] = order[g] /\ done'[g] = done[g]
  BY <1>1 DEF AhciIInv, Typed
<1>3. Typed'
  BY <1>1, Empty DEF AhciIInv, Typed, Reading
<1>4. Working'
  <2>1. order'[f] = NoOrder
    BY <1>1 DEF AhciIInv, Typed
  <2>. QED
    BY <1>1, <1>2, <2>1 DEF AhciIInv, Working, Sectors, Bare, NoOrder
<1>5. pc \in Reading => Target' = Target /\ Target \in Function
  BY <1>1 DEF AhciIInv, Arguments, Target, Reading
<1>6. OnlyThisRead'
  <2>. SUFFICES ASSUME NEW g \in Function \ given_up, ~AtRest(g)'
                PROVE  pc = "poll" /\ g = Target' /\ Fetched(g)'
    BY <1>1 DEF OnlyThisRead
  <2>1. g # f /\ ~AtRest(g)
    BY <1>2 DEF AtRest
  <2>2. pc = "poll" /\ g = Target /\ Fetched(g)
    BY <2>1 DEF AhciIInv, OnlyThisRead
  <2>. QED
    BY <1>1, <1>2, <1>5, <2>1, <2>2 DEF Fetched, Carries, Reading
<1>7. Answered'
  BY <1>1, <1>2, <1>5 DEF AhciIInv, Answered, Carries, Reading
<1>. QED
  BY <1>1, <1>3, <1>4, <1>5, <1>6, <1>7
     DEF AhciIInv, Arguments, Wellbuilt, Built, BuiltUp, Reading

-----------------------------------------------------------------------------
(* The steps of a controller. *)

(* One that was not given up and does anything does it for the read. *)
LEMMA Works ==
  ASSUME AhciIInv, NEW f \in Function \ given_up,
         stage[f] # "rest" \/ (ci[f] /\ ~stopped[f])
  PROVE  /\ pc = "poll" /\ f = Target /\ Fetched(f)
         /\ read \in Read /\ read.ctrl \in Ctrl /\ clb[f] = read.ctrl
         /\ BuiltUp(command[read.ctrl], read, Stores)
<1>1. pc = "poll" /\ f = Target /\ Fetched(f)
  BY DEF AhciIInv, OnlyThisRead, AtRest
<1>. QED
  BY <1>1, ReadFacts DEF AhciIInv, Arguments, Built, Reading

(* What the three kinds of fetch have in common: the registers and the memory stay,
   and nothing has been brought. *)
LEMMA FetchStep ==
  ASSUME AhciIInv, NEW f \in Function, FetchHeader(f) \/ FetchFis(f) \/ FetchEntry(f),
         NEW o \in Order, NEW s \in {"fis", "entry", "data"},
         order' = [order EXCEPT ![f] = o], stage' = [stage EXCEPT ![f] = s],
         f \notin given_up => Fetched(f)', Bare(o, s)
  PROVE  AhciIInv'
<1>1. UNCHANGED <<sata_ctrls, pc, read, built, command, memory, layout, clb, ci, tfd_err,
                  stopped, done, given_up, outcome>>
  BY DEF FetchHeader, FetchFis, FetchEntry, tables, driver, history
<1>2. /\ ci[f] /\ ~stopped[f] /\ done[f] = 0
      /\ stage[f] # "rest" \/ (ci[f] /\ ~stopped[f])
  BY DEF AhciIInv, Working, FetchHeader, FetchFis, FetchEntry
<1>3. /\ order'[f] = o /\ stage'[f] = s
      /\ \A g \in Function \ {f} : order'[g] = order[g] /\ stage'[g] = stage[g]
  BY DEF AhciIInv, Typed
<1>4. Typed'
  BY <1>1 DEF AhciIInv, Typed
<1>5. Sectors(o) >= 0
  BY OrderFacts, AhciAssumption
<1>6. Working'
  BY <1>1, <1>2, <1>3, <1>5 DEF AhciIInv, Working, Sectors
<1>7. Target' = Target
  BY <1>1 DEF Target
<1>8. OnlyThisRead'
  <2>. SUFFICES ASSUME NEW g \in Function \ given_up, ~AtRest(g)'
                PROVE  pc = "poll" /\ g = Target /\ Fetched(g)'
    BY <1>1, <1>7 DEF OnlyThisRead
  <2>1. CASE g = f
    BY <1>2, <2>1, Works
  <2>2. CASE g # f
    <3>1. ~AtRest(g)
      BY <1>1, <1>3, <2>2 DEF AtRest
    <3>2. pc = "poll" /\ g = Target /\ Fetched(g)
      BY <3>1 DEF AhciIInv, OnlyThisRead
    <3>. QED
      BY <1>1, <1>3, <2>2, <3>2 DEF Fetched, Carries
  <2>. QED
    BY <2>1, <2>2
<1>. QED
  BY <1>1, <1>4, <1>6, <1>7, <1>8
     DEF AhciIInv, Arguments, Wellbuilt, Built, Answered, Carries

LEMMA LayoutFacts ==
  ASSUME AhciIInv
  PROVE  /\ layout.entries \in {2, 4} /\ layout.table \in {8, 16, 24}
         /\ layout.entries = 4 => layout.table = 24
<1>1. layout \in Layouts
  BY DEF AhciIInv, Typed
<1>. QED
  BY <1>1, AhciAssumption

LEMMA FetchHeaderStep ==
  ASSUME AhciIInv, NEW f \in Function, FetchHeader(f)
  PROVE  AhciIInv'
<1>. DEFINE header == command[clb[f]].header
            o == [order[f] EXCEPT !.entries = header[layout.entries],
                                  !.table = header[layout.table]]
<1>1. /\ stage[f] = "rest" /\ ci[f] /\ ~stopped[f]
      /\ stage' = [stage EXCEPT ![f] = "fis"]
      /\ UNCHANGED <<read, layout>>
  BY DEF FetchHeader, driver
<1>2. order' = [order EXCEPT ![f] = o]
  BY DEF FetchHeader
<1>3. clb[f] \in Ctrl
  BY <1>1 DEF AhciIInv, Working
<1>4. header[layout.entries] \in {0, 1} /\ header[layout.table] \in {0, clb[f]}
  BY <1>3, LayoutFacts DEF AhciIInv, Wellbuilt
<1>5. order[f] \in Order /\ header[layout.table] \in 0 .. MaxCtrls
  <2>1. 0 \in 0 .. MaxCtrls
    BY AhciAssumption
  <2>. QED
    BY <1>3, <1>4, <2>1, ReadFacts DEF AhciIInv, Typed
<1>6. o \in Order
  BY <1>4, <1>5 DEF Order
<1>7. o.entries = header[layout.entries] /\ o.table = header[layout.table]
  BY <1>5 DEF Order
<1>8. order'[f] = o /\ stage'[f] = "fis"
  <2>. HIDE DEF o
  <2>. QED
    BY <1>1, <1>2 DEF AhciIInv, Typed
<1>9. ASSUME f \notin given_up PROVE Fetched(f)'
  <2>1. clb[f] = read.ctrl /\ BuiltUp(command[read.ctrl], read, Stores)
    BY <1>1, <1>9, Works
  <2>2. header[4] = 1 /\ header[24] = read.ctrl
    BY <2>1 DEF BuiltUp, Stores
  <2>3. header[2] = 0 /\ header[8] = 0 /\ header[16] = 0
    BY <1>3 DEF AhciIInv, Wellbuilt
  <2>4. /\ header[layout.entries] = (IF layout.entries = 4 THEN 1 ELSE 0)
        /\ header[layout.table] = (IF layout.table = 24 THEN read.ctrl ELSE 0)
    BY <2>2, <2>3, LayoutFacts
  <2>. HIDE DEF o, header
  <2>. QED
    BY <1>1, <1>7, <1>8, <2>4 DEF Fetched
<1>10. Bare(o, "fis")
  <2>1. o.length = order[f].length
    BY <1>5 DEF Order
  <2>. QED
    BY <1>1, <2>1 DEF AhciIInv, Working, Bare
<1>. HIDE DEF o
<1>. QED
  BY <1>1, <1>2, <1>6, <1>9, <1>10, FetchStep

LEMMA FetchFisStep ==
  ASSUME AhciIInv, NEW f \in Function, FetchFis(f)
  PROVE  AhciIInv'
<1>1. PICK fis \in Fis :
        /\ order[f].table # 0 => fis = command[order[f].table].fis
        /\ order' = [order EXCEPT ![f].fis = fis]
  BY DEF FetchFis
<1>. DEFINE o == [order[f] EXCEPT !.fis = fis]
            s == IF order[f].entries = 0 THEN "data" ELSE "entry"
<1>2. /\ stage[f] = "fis" /\ stage' = [stage EXCEPT ![f] = s]
      /\ UNCHANGED <<read, layout>>
  BY DEF FetchFis, driver
<1>3. order' = [order EXCEPT ![f] = o]
  BY <1>1
<1>4. order[f] \in Order
  BY DEF AhciIInv, Typed
<1>5. o \in Order /\ o.fis = fis /\ o.entries = order[f].entries /\ o.table = order[f].table
  BY <1>4 DEF Order
<1>6. order'[f] = o /\ stage'[f] = s
  <2>. HIDE DEF o, s
  <2>. QED
    BY <1>2, <1>3 DEF AhciIInv, Typed
<1>7. ASSUME f \notin given_up PROVE Fetched(f)'
  <2>1. /\ Fetched(f) /\ read.ctrl \in Ctrl
        /\ BuiltUp(command[read.ctrl], read, Stores)
    BY <1>2, <1>7, Works
  <2>2. /\ order[f].entries = (IF layout.entries = 4 THEN 1 ELSE 0)
        /\ order[f].table = (IF layout.table = 24 THEN read.ctrl ELSE 0)
    BY <1>2, <2>1 DEF Fetched
  <2>3. layout.table = 24 => fis = [lba |-> read.lba, count |-> read.count]
    <3>1. command[read.ctrl].fis = [lba |-> read.lba, count |-> read.count]
      BY <2>1 DEF BuiltUp, Stores
    <3>2. read.ctrl # 0
      BY <2>1, AhciAssumption DEF Ctrl
    <3>. QED
      BY <1>1, <2>2, <3>1, <3>2
  <2>4. s = "data" => o.entries # 1
    BY <1>5, <2>2
  <2>. HIDE DEF o
  <2>. QED
    BY <1>2, <1>5, <1>6, <2>2, <2>3, <2>4 DEF Fetched, Carries
<1>8. s \in {"fis", "entry", "data"}
  OBVIOUS
<1>9. Bare(o, s)
  <2>1. o.length = order[f].length
    BY <1>4 DEF Order
  <2>. QED
    BY <1>2, <1>5, <2>1 DEF AhciIInv, Working, Bare
<1>. HIDE DEF o, s
<1>. QED
  BY <1>2, <1>3, <1>5, <1>7, <1>8, <1>9, FetchStep

LEMMA FetchEntryStep ==
  ASSUME AhciIInv, NEW f \in Function, FetchEntry(f)
  PROVE  AhciIInv'
<1>1. PICK place \in Place, length \in 0 .. MaxSectors :
        /\ order[f].table # 0 => /\ place = command[order[f].table].place
                                 /\ length = command[order[f].table].length
        /\ order' = [order EXCEPT ![f].place = place, ![f].length = length]
  BY DEF FetchEntry
<1>. DEFINE o == [order[f] EXCEPT !.place = place, !.length = length]
<1>2. /\ stage[f] = "entry" /\ stage' = [stage EXCEPT ![f] = "data"]
      /\ UNCHANGED <<read, layout>>
  BY DEF FetchEntry, driver
<1>3. order' = [order EXCEPT ![f] = o]
  BY <1>1
<1>4. order[f] \in Order
  BY DEF AhciIInv, Typed
<1>5. /\ o \in Order /\ o.place = place /\ o.length = length /\ o.fis = order[f].fis
      /\ o.entries = order[f].entries /\ o.table = order[f].table
  BY <1>4 DEF Order
<1>6. order'[f] = o /\ stage'[f] = "data"
  <2>. HIDE DEF o
  <2>. QED
    BY <1>2, <1>3 DEF AhciIInv, Typed
<1>7. ASSUME f \notin given_up PROVE Fetched(f)'
  <2>1. /\ Fetched(f) /\ read.ctrl \in Ctrl
        /\ BuiltUp(command[read.ctrl], read, Stores)
    BY <1>2, <1>7, Works
  <2>2. /\ order[f].entries = (IF layout.entries = 4 THEN 1 ELSE 0)
        /\ order[f].table = (IF layout.table = 24 THEN read.ctrl ELSE 0)
        /\ layout.table = 24 => order[f].fis = [lba |-> read.lba, count |-> read.count]
    BY <1>2, <2>1 DEF Fetched
  <2>3. o.entries = 1 => place = wnu_virt_to_phys(read.buf) /\ length = read.count
    <3>1. /\ command[read.ctrl].place = wnu_virt_to_phys(read.buf)
          /\ command[read.ctrl].length = read.count
      BY <2>1 DEF BuiltUp, Stores
    <3>2. read.ctrl # 0
      BY <2>1, AhciAssumption DEF Ctrl
    <3>. QED
      BY <1>1, <1>5, <2>2, <3>1, <3>2, LayoutFacts
  <2>. HIDE DEF o
  <2>. QED
    BY <1>2, <1>5, <1>6, <2>2, <2>3 DEF Fetched, Carries
<1>8. Bare(o, "data")
  BY <1>2, <1>5 DEF AhciIInv, Working, Bare
<1>. HIDE DEF o
<1>. QED
  BY <1>2, <1>3, <1>5, <1>7, <1>8, FetchStep

LEMMA TransferStep ==
  ASSUME AhciIInv, NEW f \in Function, Transfer(f)
  PROVE  AhciIInv'
<1>1. /\ stage[f] = "data" /\ done[f] < Sectors(order[f])
      /\ done' = [done EXCEPT ![f] = @ + 1]
      /\ \/ UNCHANGED memory
         \/ /\ order[f].place # Nowhere
            /\ memory' = [memory EXCEPT ![order[f].place][done[f] + 1] =
                            order[f].fis.lba + done[f]]
      /\ UNCHANGED <<sata_ctrls, pc, read, built, command, layout, clb, ci, tfd_err,
                     stopped, stage, order, given_up, outcome>>
  BY DEF Transfer, tables, driver, history
<1>2. /\ done \in [Function -> Nat] /\ done[f] \in Nat /\ order[f] \in Order
      /\ memory \in [Buffer -> [1 .. MaxSectors -> Nat \cup {Junk}]]
  BY DEF AhciIInv, Typed
<1>3. /\ Sectors(order[f]) \in 0 .. MaxSectors
      /\ order[f].fis.lba \in Nat /\ order[f].place \in Place
  BY <1>2, OrderFacts
<1>4. /\ done[f] + 1 \in 1 .. MaxSectors /\ done[f] + 1 <= Sectors(order[f])
      /\ order[f].fis.lba + done[f] \in Nat
  <2>. DEFINE n == Sectors(order[f])
  <2>1. n \in 0 .. MaxSectors /\ done[f] < n /\ MaxSectors \in Nat
    BY <1>1, <1>3, AhciAssumption
  <2>. HIDE DEF n
  <2>2. done[f] + 1 \in 1 .. MaxSectors /\ done[f] + 1 <= n
    BY <1>2, <2>1
  <2>3. order[f].fis.lba + done[f] \in Nat
    BY <1>2, <1>3
  <2>. QED
    BY <2>2, <2>3 DEF n
<1>5. memory' \in [Buffer -> [1 .. MaxSectors -> Nat \cup {Junk}]]
  <2>. SUFFICES ASSUME order[f].place # Nowhere, ~UNCHANGED memory
                PROVE  memory' \in [Buffer -> [1 .. MaxSectors -> Nat \cup {Junk}]]
    BY <1>1, <1>2
  <2>. DEFINE b == order[f].place
              area == [memory[b] EXCEPT ![done[f] + 1] = order[f].fis.lba + done[f]]
  <2>1. b \in Buffer
    BY <1>3 DEF Place
  <2>2. area \in [1 .. MaxSectors -> Nat \cup {Junk}]
    BY <1>2, <1>4, <2>1
  <2>3. memory' = [memory EXCEPT ![b] = area]
    BY <1>1
  <2>. HIDE DEF area, b
  <2>. QED
    BY <1>2, <2>1, <2>2, <2>3
<1>6. done'[f] = done[f] + 1 /\ \A g \in Function \ {f} : done'[g] = done[g]
  BY <1>1, <1>2
<1>7. Typed'
  BY <1>1, <1>2, <1>5 DEF AhciIInv, Typed
<1>8. Working'
  <2>1. Sectors(order[f])' = Sectors(order[f])
    BY <1>1 DEF Sectors
  <2>2. \A g \in Function \ {f} : stage[g] = "data" => done'[g] <= Sectors(order'[g])
    BY <1>1, <1>6 DEF AhciIInv, Working
  <2>. QED
    BY <1>1, <1>4, <1>6, <2>2 DEF AhciIInv, Working
<1>. QED
  BY <1>1, <1>7, <1>8
     DEF AhciIInv, Arguments, Wellbuilt, Built, BuiltUp, OnlyThisRead, Answered, AtRest,
         Target, Fetched, Carries, Reading

(* A command ends: the bit goes, or the controller stops. *)
LEMMA EndSteps ==
  ASSUME AhciIInv, NEW f \in Function, Complete(f) \/ Fail(f)
  PROVE  AhciIInv'
<1>1. /\ stage[f] # "rest"
      /\ stage' = [stage EXCEPT ![f] = "rest"]
      /\ order' = [order EXCEPT ![f] = NoOrder]
      /\ done' = [done EXCEPT ![f] = 0]
      /\ UNCHANGED <<sata_ctrls, pc, read, built, command, layout, clb, memory, given_up>>
  BY DEF Complete, Fail, Ends, tables, driver
<1>2. ci[f] /\ ~stopped[f]
  BY <1>1 DEF AhciIInv, Working
<1>3. PICK c, s, e \in BOOLEAN :
        /\ ci' = [ci EXCEPT ![f] = c] /\ stopped' = [stopped EXCEPT ![f] = s]
        /\ tfd_err' = [tfd_err EXCEPT ![f] = e]
        /\ c => s
        /\ s => e
        /\ ~e => Complete(f)
  <2>1. ci = [ci EXCEPT ![f] = TRUE] /\ stopped = [stopped EXCEPT ![f] = FALSE]
    BY <1>2 DEF AhciIInv, Typed
  <2>2. CASE Complete(f)
    BY <2>1, <2>2, Zenon DEF Complete
  <2>3. CASE Fail(f)
    BY <2>1, <2>3, Zenon DEF Fail
  <2>. QED
    BY <2>2, <2>3
<1>4. /\ ci'[f] = c /\ stopped'[f] = s /\ tfd_err'[f] = e
      /\ stage'[f] = "rest" /\ done'[f] = 0
      /\ \A g \in Function \ {f} :
           /\ ci'[g] = ci[g] /\ tfd_err'[g] = tfd_err[g] /\ stopped'[g] = stopped[g]
           /\ stage'[g] = stage[g] /\ order'[g] = order[g] /\ done'[g] = done[g]
  BY <1>1, <1>3 DEF AhciIInv, Typed
<1>5. PICK how \in {"done", "failed"} :
        /\ outcome' = IF pc = "poll" /\ f = Target
                      THEN [how |-> how, order |-> order[f]] ELSE outcome
        /\ Complete(f) => how = "done"
  BY DEF Complete, Fail, Ends
<1>6. Typed'
  <2>1. outcome' \in Outcome
    BY <1>5 DEF AhciIInv, Typed, Outcome
  <2>. QED
    BY <1>1, <1>3, <2>1, Empty DEF AhciIInv, Typed
<1>7. Working'
  <2>1. order'[f] = NoOrder
    BY <1>1 DEF AhciIInv, Typed
  <2>. QED
    BY <1>1, <1>3, <1>4, <2>1 DEF AhciIInv, Working, Sectors, Bare, NoOrder
<1>8. pc \in Reading => Target' = Target /\ Target \in Function
  BY <1>1 DEF AhciIInv, Arguments, Target, Reading
<1>9. OnlyThisRead'
  <2>. SUFFICES ASSUME NEW g \in Function \ given_up, ~AtRest(g)'
                PROVE  pc = "poll" /\ g = Target' /\ Fetched(g)'
    BY <1>1 DEF OnlyThisRead
  <2>1. g # f /\ ~AtRest(g)
    BY <1>3, <1>4 DEF AtRest
  <2>2. pc = "poll" /\ g = Target /\ Fetched(g)
    BY <2>1 DEF AhciIInv, OnlyThisRead
  <2>. QED
    BY <1>1, <1>4, <1>8, <2>1, <2>2 DEF Fetched, Carries, Reading
<1>10. Answered'
  <2>1. CASE f = Target /\ pc \in {"poll", "status"} /\ Target \notin given_up
    <3>1. pc = "poll" /\ Fetched(f)
      BY <1>1, <2>1, Works
    <3>2. ASSUME ~e PROVE outcome'.how = "done" /\ Carries(outcome'.order, read)
      <4>1. Complete(f) /\ stage[f] = "data"
        BY <1>3, <3>2 DEF Complete
      <4>2. outcome'.how = "done" /\ outcome'.order = order[f]
        BY <1>5, <2>1, <3>1, <4>1
      <4>. QED
        BY <3>1, <4>1, <4>2 DEF Fetched
    <3>. QED
      BY <1>1, <1>4, <1>8, <2>1, <3>1, <3>2 DEF Answered, Carries, Reading
  <2>2. CASE f # Target /\ pc \in {"poll", "status"}
    BY <1>1, <1>4, <1>5, <1>8, <2>2 DEF AhciIInv, Answered, Carries, Reading
  <2>. QED
    BY <1>1, <1>8, <2>1, <2>2 DEF Answered, Reading
<1>. QED
  BY <1>1, <1>6, <1>7, <1>8, <1>9, <1>10
     DEF AhciIInv, Arguments, Wellbuilt, Built, BuiltUp, Reading

-----------------------------------------------------------------------------
(* The table of controllers. *)

Ports == [func : Function, usable : BOOLEAN]

(* s lists what is on the bus b up to function k, until it is full. *)
Lists(s, b, k) ==
  /\ s \in Seq(Ports) /\ Len(s) <= MaxCtrls /\ Ascending(s)
  /\ \A i \in DOMAIN s : s[i].func <= k /\ b[s[i].func] # "none"
  /\ \A f \in 1 .. k : b[f] # "none" =>
       \/ \E i \in DOMAIN s : s[i].func = f
       \/ Len(s) = MaxCtrls /\ \A i \in DOMAIN s : s[i].func < f

LEMMA FunctionIs == Len(FirstBus) \in Nat /\ Function = 1 .. Len(FirstBus)
BY AhciAssumption DEF Function

LEMMA FilledIs ==
  ASSUME NEW b \in [Function -> Kind], NEW k \in Function, NEW s,
         Lists(s, b, k - 1), b[k] # "none"
  PROVE  Lists(Filled(s, Entry(k, b)), b, k)
<1>1. k \in Nat /\ k >= 1 /\ \A f \in Function : f \in Nat
  BY FunctionIs
<1>2. MaxCtrls \in Nat /\ s \in Seq(Ports) /\ Len(s) \in Nat /\ DOMAIN s = 1 .. Len(s)
  BY AhciAssumption DEF Lists
<1>3. \A i \in DOMAIN s : s[i] \in Ports /\ s[i].func \in Nat /\ s[i].func < k
  <2>1. \A i \in DOMAIN s : s[i] \in Ports
    BY <1>2, ElementOfSeq
  <2>2. \A p \in Ports : p.func \in Nat
    BY <1>1 DEF Ports
  <2>3. \A i \in DOMAIN s : s[i].func <= k - 1
    BY DEF Lists
  <2>. QED
    BY <1>1, <2>1, <2>2, <2>3
<1>4. CASE Len(s) < MaxCtrls
  <2>. DEFINE e == Entry(k, b)
              t == Append(s, e)
  <2>1. e \in Ports /\ e.func = k
    BY DEF Entry, Ports
  <2>. HIDE DEF e
  <2>2. /\ t \in Seq(Ports) /\ Len(t) = Len(s) + 1 /\ t[Len(t)] = e
        /\ \A i \in DOMAIN s : t[i] = s[i]
        /\ DOMAIN t = 1 .. Len(s) + 1
    BY <1>2, <2>1, AppendProperties
  <2>3. \A i \in DOMAIN t : (i \in DOMAIN s /\ t[i] = s[i]) \/ (i = Len(t) /\ t[i].func = k)
    BY <1>2, <2>1, <2>2
  <2>. HIDE DEF t
  <2>4. Ascending(t)
    <3>1. ASSUME NEW i \in DOMAIN t, NEW j \in DOMAIN t, i < j
          PROVE  t[i].func < t[j].func
      <4>1. i \in DOMAIN s /\ t[i] = s[i]
        BY <1>2, <2>2, <3>1
      <4>2. CASE j \in DOMAIN s
        BY <2>2, <3>1, <4>1, <4>2 DEF Lists, Ascending
      <4>3. CASE j \notin DOMAIN s
        BY <1>3, <2>3, <4>1, <4>3
      <4>. QED
        BY <4>2, <4>3
    <3>. QED
      BY <3>1 DEF Ascending
  <2>5. \A i \in DOMAIN t : t[i].func <= k /\ b[t[i].func] # "none"
    BY <1>1, <1>3, <2>3 DEF Lists
  <2>6. ASSUME NEW f \in 1 .. k, b[f] # "none"
        PROVE  \E i \in DOMAIN t : t[i].func = f
    <3>1. CASE f = k
      <4>1. Len(t) \in DOMAIN t
        BY <1>2, <2>2
      <4>2. t[Len(t)].func = f
        BY <2>1, <2>2, <3>1
      <4>. WITNESS Len(t) \in DOMAIN t
      <4>. QED
        BY <4>2
    <3>2. CASE f # k
      <4>1. f \in 1 .. k - 1 /\ Len(s) # MaxCtrls
        <5>1. f \in 1 .. k - 1
          BY <1>1, <3>2
        <5>2. \A m, n \in Nat : m < n => m # n
          OBVIOUS
        <5>. QED
          BY <1>2, <1>4, <5>1, <5>2, Zenon
      <4>2. PICK i \in DOMAIN s : s[i].func = f
        BY <2>6, <4>1 DEF Lists
      <4>3. i \in DOMAIN t /\ t[i] = s[i]
        BY <1>2, <2>2
      <4>. QED
        BY <4>2, <4>3
    <3>. QED
      BY <3>1, <3>2
  <2>7. Len(t) <= MaxCtrls
    BY <1>2, <1>4, <2>2
  <2>8. Lists(t, b, k)
    BY <2>2, <2>4, <2>5, <2>6, <2>7 DEF Lists
  <2>. QED
    BY <1>4, <2>8 DEF Filled, t, e
<1>5. CASE ~(Len(s) < MaxCtrls)
  <2>1. Filled(s, Entry(k, b)) = s
    BY <1>5 DEF Filled
  <2>2. Len(s) = MaxCtrls
    <3>1. Len(s) <= MaxCtrls
      BY DEF Lists
    <3>2. \A m, n \in Nat : m <= n /\ ~(m < n) => m = n
      OBVIOUS
    <3>. QED
      BY <1>2, <1>5, <3>1, <3>2, Zenon
  <2>3. \A i \in DOMAIN s : s[i].func <= k /\ b[s[i].func] # "none"
    BY <1>1, <1>3 DEF Lists
  <2>4. ASSUME NEW f \in 1 .. k, b[f] # "none"
        PROVE  \/ \E i \in DOMAIN s : s[i].func = f
               \/ \A i \in DOMAIN s : s[i].func < f
    <3>1. CASE f = k
      BY <1>3, <3>1
    <3>2. CASE f # k
      <4>1. f \in 1 .. k - 1
        BY <1>1, <3>2
      <4>. QED
        BY <2>4, <4>1 DEF Lists
    <3>. QED
      BY <3>1, <3>2
  <2>. QED
    BY <2>1, <2>2, <2>3, <2>4 DEF Lists
<1>. QED
  BY <1>4, <1>5

LEMMA SkippedIs ==
  ASSUME NEW b \in [Function -> Kind], NEW k \in Function, NEW s,
         Lists(s, b, k - 1), b[k] = "none"
  PROVE  Lists(s, b, k)
<1>1. k \in Nat /\ k >= 1 /\ \A f \in Function : f \in Nat
  BY FunctionIs
<1>2. s \in Seq(Ports) /\ DOMAIN s = 1 .. Len(s)
  BY DEF Lists
<1>3. \A i \in DOMAIN s : s[i].func \in Nat
  <2>1. \A i \in DOMAIN s : s[i] \in Ports
    BY <1>2, ElementOfSeq
  <2>2. \A p \in Ports : p.func \in Nat
    BY <1>1 DEF Ports
  <2>. QED
    BY <2>1, <2>2
<1>4. \A i \in DOMAIN s : s[i].func <= k
  BY <1>1, <1>3 DEF Lists
<1>5. \A f \in 1 .. k : b[f] # "none" => f \in 1 .. k - 1
  BY <1>1
<1>. QED
  BY <1>4, <1>5 DEF Lists

(* A scan lists the whole bus. *)
LEMMA ScannedIs ==
  ASSUME NEW b \in [Function -> Kind]
  PROVE  Lists(Scanned(b), b, Len(FirstBus))
<1>1. PICK len \in Nat : len = Len(FirstBus) /\ Function = 1 .. len
  BY FunctionIs
<1>2. MaxCtrls \in Nat
  BY AhciAssumption
<1>. DEFINE S          == 0 .. len
            D          == Seq(Ports)
            found(k, s) == IF b[k] = "none" THEN s ELSE Filled(s, Entry(k, b))
            body(f, k) == IF k = 0 THEN <<>> ELSE found(k, f[k - 1])
            Linked(f)  == f = [k \in 0 .. Len(FirstBus) |->
                                 IF k = 0 THEN <<>>
                                 ELSE IF b[k] = "none" THEN f[k - 1]
                                 ELSE Filled(f[k - 1], Entry(k, b))]
            rank       == [k \in S |-> k]
            val        == [k \in S |-> <<>>]
            next       == [k \in S |-> IF k = 0 THEN 0 ELSE k - 1]
            step       == [ks \in S \X D |-> IF ks[1] = 0 THEN ks[2]
                                             ELSE found(ks[1], ks[2])]
<1>3. ASSUME NEW k \in 1 .. len, NEW s \in D PROVE found(k, s) \in D
  <2>1. Entry(k, b) \in Ports
    BY <1>1 DEF Entry, Ports
  <2>2. Append(s, Entry(k, b)) \in D
    BY <2>1, AppendProperties
  <2>. QED
    BY <2>2 DEF Filled
<1>4. <<>> \in D
  OBVIOUS
<1>. HIDE DEF D, found
<1>5. IsDescent(S, D, len, rank, {0}, val, next, step)
  <2>1. /\ rank \in [S -> 0 .. len] /\ val \in [S -> D] /\ next \in [S -> S]
        /\ \A k \in S : k \notin {0} => rank[next[k]] < rank[k]
    BY <1>4
  <2>2. step \in [S \X D -> D]
    <3>1. ASSUME NEW ks \in S \X D
          PROVE  (IF ks[1] = 0 THEN ks[2] ELSE found(ks[1], ks[2])) \in D
      <4>1. ks[1] \in S /\ ks[2] \in D
        BY Zenon
      <4>2. ks[1] # 0 => ks[1] \in 1 .. len
        BY <4>1
      <4>. QED
        BY <1>3, <4>1, <4>2
    <3>. QED
      BY <3>1
  <2>. HIDE DEF S, rank, val, next, step
  <2>. QED
    BY <2>1, <2>2 DEF IsDescent
<1>6. \E f : Linked(f)
  <2>1. PICK f \in [S -> D] : Descends(f, S, {0}, val, next, step)
    <3>. HIDE DEF S, rank, val, next, step
    <3>. QED
      BY <1>5, Descent
  <2>2. \A k \in S : f[k] = body(f, k)
    <3>. SUFFICES ASSUME NEW k \in S PROVE f[k] = body(f, k)
      OBVIOUS
    <3>1. f[k] = IF k \in {0} THEN val[k] ELSE step[<<k, f[next[k]]>>]
      BY <2>1 DEF Descends
    <3>2. CASE k = 0
      BY <3>1, <3>2
    <3>3. CASE k # 0
      <4>1. k - 1 \in S /\ next[k] = k - 1
        BY <3>3
      <4>2. \A s \in D : step[<<k, s>>] = found(k, s)
        BY <3>3
      <4>3. f[k - 1] \in D
        BY <2>1, <4>1
      <4>. HIDE DEF step, next, S
      <4>. QED
        BY <3>1, <3>3, <4>1, <4>2, <4>3
    <3>. QED
      BY <3>2, <3>3
  <2>3. f = [k \in S |-> f[k]]
    OBVIOUS
  <2>4. [k \in S |-> f[k]] = [k \in S |-> body(f, k)]
    BY <2>2, Zenon
  <2>. QED
    BY <1>1, <2>3, <2>4, Zenon DEF found
<1>7. Scanned(b) = (CHOOSE f : Linked(f))[Len(FirstBus)]
  BY Zenon DEF Scanned
<1>8. PICK f : Linked(f) /\ Scanned(b) = f[len]
  BY <1>1, <1>6, <1>7, Zenon
<1>9. \A k \in S : f[k] = body(f, k)
  BY <1>1, <1>8, Zenon DEF found
<1>. DEFINE off == {k \in S : ~Lists(f[k], b, k)}
<1>10. off = {}
  <2>1. SUFFICES ASSUME off # {} PROVE FALSE
    OBVIOUS
  <2>2. PICK k \in off : \A m \in off : k <= m
    <3>1. off \in SUBSET Nat
      OBVIOUS
    <3>. HIDE DEF off
    <3>. QED
      BY <2>1, <3>1, MinIn
  <2>3. k \in S /\ ~Lists(f[k], b, k)
    OBVIOUS
  <2>4. k # 0
    <3>1. f[0] = <<>>
      BY <1>9
    <3>2. Lists(<<>>, b, 0)
      BY <1>2 DEF Lists, Ascending
    <3>. QED
      BY <2>3, <3>1, <3>2
  <2>5. k - 1 \in S /\ ~(k <= k - 1) /\ k \in Function
    BY <1>1, <2>3, <2>4
  <2>6. Lists(f[k - 1], b, k - 1)
    BY <2>2, <2>5
  <2>7. f[k] = found(k, f[k - 1])
    BY <1>9, <2>3, <2>4
  <2>. QED
    BY <2>3, <2>5, <2>6, <2>7, FilledIs, SkippedIs DEF found
<1>. QED
  <2>1. len \in S /\ ~(len \in off)
    BY <1>10
  <2>. QED
    BY <1>1, <1>8, <2>1

(* The table holds entries in the order of the bus, and the driver counts the
   stores and the polls of a read from zero to their limits. *)
Counted ==
  /\ bus \in [Function -> Kind]
  /\ Listed
  /\ pc \in {"boot", "idle"} \cup Reading
  /\ result \in {"none", "ok", "no"}
  /\ built \in 0 .. Stores /\ polls \in 0 .. MaxPolls
  /\ pc \in {"boot", "idle"} => built = 0
  /\ pc = "build" => built < Stores
  /\ pc \in {"boot", "idle", "build", "issue"} => polls = 0
  /\ pc = "poll" => polls < MaxPolls

LEMMA InitCounted == Init => Counted
<1>1. <<>> \in Seq(Ports) /\ Len(<<>>) = 0 /\ DOMAIN <<>> = {}
  OBVIOUS
<1>2. MaxCtrls \in Nat /\ MaxPolls \in Nat /\ FirstBus \in [Function -> Kind]
  BY AhciAssumption DEF Function
<1>. QED
  BY <1>1, <1>2 DEF Init, Counted, Listed, Ascending, Ports, Stores, Reading

LEMMA CountedStep == Counted /\ [Next]_vars => Counted'
<1>. SUFFICES ASSUME Counted, [Next]_vars PROVE Counted'
  OBVIOUS
<1>1. CASE wnu_sata_init \/ wnu_sata_print_devices
  <2>1. /\ sata_ctrls' \in Seq(Ports) /\ Len(sata_ctrls') <= MaxCtrls
        /\ Ascending(sata_ctrls') /\ known' \in 0 .. MaxCtrls
    <3>1. Lists(sata_ctrls', bus, Len(FirstBus))
      BY <1>1, ScannedIs DEF wnu_sata_init, wnu_sata_print_devices, Counted
    <3>2. sata_ctrls' \in Seq(Ports) /\ Len(sata_ctrls') <= MaxCtrls /\ Ascending(sata_ctrls')
      BY <3>1 DEF Lists
    <3>3. Len(sata_ctrls') \in 0 .. MaxCtrls
      BY <3>2, LenProperties, AhciAssumption
    <3>. QED
      BY <1>1, <3>2, <3>3 DEF wnu_sata_init, wnu_sata_print_devices, Counted, Listed
  <2>2. /\ UNCHANGED <<bus, built, polls, result>>
        /\ pc \in {"boot", "idle"} /\ pc' = "idle"
    BY <1>1 DEF wnu_sata_init, wnu_sata_print_devices, driver
  <2>. QED
    BY <2>1, <2>2 DEF Counted, Listed, Ports, Reading
<1>2. CASE UNCHANGED vars
  BY <1>2 DEF vars, tables, driver, Counted, Listed, Ascending
<1>3. CASE Refuse \/ \E b \in Buffer : Reuse(b)
  BY <1>3 DEF Refuse, Reuse, tables, driver, Counted, Listed, Ascending
<1>4. ASSUME NEW r \in Requests, Start(r) PROVE Counted'
  <2>1. /\ UNCHANGED <<bus, sata_ctrls, known, built, polls>>
        /\ pc = "idle" /\ pc' = "build" /\ result' = "none" /\ read' = r
        /\ r.ctrl \in DOMAIN sata_ctrls
    BY <1>4 DEF Start, Reachable, tables
  <2>. QED
    BY <2>1 DEF Counted, Listed, Ascending, Stores, Reading
<1>5. CASE BlockRead
  <2>1. MaxPolls \in Nat \ {0}
    BY AhciAssumption
  <2>2. UNCHANGED <<bus, sata_ctrls, known>>
    BY <1>5 DEF BlockRead, Build, Issue, PollDone, PollAgain, CheckStatus, tables
  <2>3. Listed'
    <3>1. pc' \in Reading => UNCHANGED read /\ pc \in Reading
      BY <1>5 DEF BlockRead, Build, Issue, PollDone, PollAgain, CheckStatus, Reading
    <3>. QED
      BY <2>2, <3>1 DEF Counted, Listed, Ascending
  <2>4. CASE Build
    BY <2>2, <2>3, <2>4 DEF Build, Counted, Stores, Reading
  <2>5. CASE Issue
    BY <2>1, <2>2, <2>3, <2>5 DEF Issue, Counted, Reading
  <2>6. CASE PollDone
    BY <2>2, <2>3, <2>6 DEF PollDone, Counted, Reading
  <2>7. CASE PollAgain
    BY <2>1, <2>2, <2>3, <2>7 DEF PollAgain, Counted, Reading
  <2>8. CASE CheckStatus
    BY <2>1, <2>2, <2>3, <2>8 DEF CheckStatus, Counted, Stores, Reading
  <2>. QED
    BY <1>5, <2>4, <2>5, <2>6, <2>7, <2>8 DEF BlockRead
<1>6. ASSUME NEW f \in Function, Unplug(f) \/ Plug(f) PROVE Counted'
  <2>1. bus' \in [Function -> Kind]
    BY <1>6 DEF Unplug, Plug, Counted, Kind
  <2>. QED
    BY <1>6, <2>1 DEF Unplug, Plug, driver, Counted, Listed, Ascending
<1>7. ASSUME NEW f \in Function, Controller(f) PROVE Counted'
  BY <1>7 DEF Controller, FetchHeader, FetchFis, FetchEntry, Transfer, Complete, Fail,
              tables, driver, Counted, Listed, Ascending
<1>8. Requests \subseteq Read /\ Removable \subseteq Function
  BY AhciAssumption DEF Function
<1>. QED
  BY <1>1, <1>2, <1>3, <1>4, <1>5, <1>6, <1>7, <1>8 DEF Next

-----------------------------------------------------------------------------
(* The theorems. *)

LEMMA AhciStep ==
  ASSUME AhciIInv, Counted, [Next]_vars
  PROVE  AhciIInv'
<1>1. CASE UNCHANGED vars
  BY <1>1 DEF vars, tables, driver, controller, history, AhciIInv, Typed, Arguments,
              Wellbuilt, Working, Built, BuiltUp, OnlyThisRead, Answered, AtRest, Target,
              Fetched, Carries, Sectors, Reading
<1>2. CASE Next
  <2>1. CASE BlockRead
    BY <2>1, BuildStep, IssueStep, PollSteps, CheckStep DEF BlockRead
  <2>2. CASE \E f \in Function : Controller(f)
    BY <2>2, FetchHeaderStep, FetchFisStep, FetchEntryStep, TransferStep, EndSteps
       DEF Controller
  <2>3. CASE \E r \in Requests : Start(r)
    <3>1. PICK r \in Requests : Start(r)
      BY <2>3
    <3>2. r \in Read /\ Listed /\ built = 0
      BY <3>1, AhciAssumption DEF Counted, Start
    <3>. QED
      BY <3>1, <3>2, StartStep
  <2>4. CASE \E f \in Removable : Unplug(f) \/ Plug(f)
    <3>1. Removable \subseteq Function
      BY AhciAssumption DEF Function
    <3>. QED
      BY <2>4, <3>1, UnplugStep, TableSteps
  <2>. QED
    BY <1>2, <2>1, <2>2, <2>3, <2>4, TableSteps, CheckStep DEF Next
<1>. QED
  BY <1>1, <1>2

LEMMA AhciInvariance == Spec => [](AhciIInv /\ Counted)
BY InitAhci, InitCounted, AhciStep, CountedStep, PTL DEF Spec

(* Everything has its type, for any controllers, layouts and functions: the table
   of controllers is not filled beyond its end, no read is polled for longer than
   the limit and no command and no controller goes beyond the end of a buffer. *)
THEOREM AhciTypeCorrect == Spec => []TypeOK
<1>1. AhciIInv /\ Counted => TypeOK
  <2>. SUFFICES ASSUME AhciIInv, Counted PROVE TypeOK
    OBVIOUS
  <2>1. ASSUME NEW f \in Function PROVE done[f] \in 0 .. MaxSectors
    <3>1. done[f] \in Nat /\ order[f] \in Order /\ MaxSectors \in Nat
      BY AhciAssumption DEF AhciIInv, Typed
    <3>2. Sectors(order[f]) \in 0 .. MaxSectors
      BY <3>1, OrderFacts
    <3>3. done[f] = 0 \/ done[f] <= Sectors(order[f])
      BY DEF AhciIInv, Working
    <3>. DEFINE n == Sectors(order[f])
    <3>. HIDE DEF n
    <3>. QED
      BY <3>1, <3>2, <3>3 DEF n
  <2>2. done \in [Function -> 0 .. MaxSectors]
    BY <2>1 DEF AhciIInv, Typed
  <2>. QED
    BY <2>2 DEF AhciIInv, Typed, Counted, Listed, TypeOK, Reading
<1>. QED
  BY <1>1, AhciInvariance, PTL

(* The only step that returns from a read that was started. *)
LEMMA OnlyCheckStatus ==
  ASSUME Next, pc = "status", pc' = "idle"
  PROVE  CheckStatus
BY DEF Next, wnu_sata_init, wnu_sata_print_devices, Refuse, Start, Unplug, Plug, BlockRead,
       Build, Issue, PollDone, PollAgain, Reuse, Controller, FetchHeader, FetchFis,
       FetchEntry, Transfer, Complete, Fail, driver

(* The success of a read whose controller was not given up is about the command
   of that read, whole, whatever the layout of the headers, the other controllers
   and the failures of earlier reads are. *)
THEOREM ResultIsAboutTheRead == Spec => ResultIsOfThisRead
<1>1. AhciIInv /\ [Next]_vars =>
        [pc = "status" /\ pc' = "idle" /\ Target \notin given_up /\ result' = "ok" =>
           outcome.how = "done" /\ Carries(outcome.order, read)]_vars
  <2>. SUFFICES ASSUME AhciIInv, Next, pc = "status", pc' = "idle", Target \notin given_up,
                       result' = "ok"
                PROVE  outcome.how = "done" /\ Carries(outcome.order, read)
    OBVIOUS
  <2>1. ~tfd_err[Target]
    BY OnlyCheckStatus DEF CheckStatus
  <2>. QED
    BY <2>1 DEF AhciIInv, Answered
<1>. QED
  BY <1>1, AhciInvariance, PTL DEF Spec, ResultIsOfThisRead

(* A controller that has stopped, or is gone, shows an error until it completes a
   command, which it never does again. *)
THEOREM StoppedMeansFailure == Spec => NoSuccessWhenStopped
<1>1. AhciIInv /\ [Next]_vars =>
        [pc = "status" /\ pc' = "idle" /\ stopped[Target] => result' = "no"]_vars
  <2>. SUFFICES ASSUME AhciIInv, Next, pc = "status", pc' = "idle", stopped[Target]
                PROVE  result' = "no"
    OBVIOUS
  <2>1. Target \in Function
    BY DEF AhciIInv, Arguments, Reading
  <2>2. tfd_err[Target]
    BY <2>1 DEF AhciIInv, Working
  <2>. QED
    BY <2>2, OnlyCheckStatus DEF CheckStatus
<1>. QED
  BY <1>1, AhciInvariance, PTL DEF Spec, NoSuccessWhenStopped

(* A controller that was not given up writes only for the read that is being polled
   for, and only into its buffer. *)
THEOREM NothingBehindBack == Spec => NoWriteBehindBack
<1>1. AhciIInv /\ [Next]_vars =>
        [\A f \in Function \ given_up : done'[f] > done[f] =>
           /\ pc = "poll" /\ f = Target
           /\ \A b \in Buffer \ {read.buf} : memory'[b] = memory[b]]_vars
  <2>. SUFFICES ASSUME AhciIInv, Next, NEW f \in Function \ given_up, done'[f] > done[f]
                PROVE  /\ pc = "poll" /\ f = Target
                       /\ \A b \in Buffer \ {read.buf} : memory'[b] = memory[b]
    OBVIOUS
  <2>1. done \in [Function -> Nat] /\ done[f] \in Nat /\ ~(done[f] > done[f])
    BY DEF AhciIInv, Typed
  <2>2. ~UNCHANGED done
    BY <2>1
  <2>3. \/ \E g \in Function : Controller(g)
        \/ \E g \in Removable : Unplug(g)
    BY <2>2 DEF Next, wnu_sata_init, wnu_sata_print_devices, Refuse, Start, BlockRead,
                Plug, Build, Issue, PollDone, PollAgain, CheckStatus, Reuse, controller
  <2>4. ASSUME NEW g \in Function, done' = [done EXCEPT ![g] = 0] PROVE FALSE
    <3>1. done'[f] = done[f] \/ done'[f] = 0
      BY <2>1, <2>4
    <3>. QED
      BY <2>1, <3>1
  <2>5. PICK g \in Function : Transfer(g)
    <3>1. Removable \subseteq Function
      BY AhciAssumption DEF Function
    <3>. QED
      BY <2>2, <2>3, <2>4, <3>1 DEF Controller, Unplug, FetchHeader, FetchFis, FetchEntry,
                                    Complete, Fail, Ends
  <2>6. g = f /\ stage[f] = "data"
    BY <2>1, <2>5 DEF Transfer
  <2>7. pc = "poll" /\ f = Target /\ Fetched(f)
    BY <2>6, Works
  <2>8. order[f].place \in {read.buf, Nowhere}
    <3>1. Carries(order[f], read) /\ order[f] \in Order /\ Bare(order[f], "data")
      BY <2>6, <2>7 DEF Fetched, AhciIInv, Typed, Working
    <3>2. Sectors(order[f]) \in Nat /\ done[f] < Sectors(order[f])
      BY <2>5, <2>6, <3>1, OrderFacts DEF Transfer
    <3>3. order[f].length # 0
      <4>1. order[f].fis.count \in Nat
        BY <3>1, OrderFacts
      <4>. QED
        BY <2>1, <3>2, <4>1 DEF Sectors
    <3>4. order[f].entries = 1
      BY <3>1, <3>3 DEF Bare, Order
    <3>. QED
      BY <3>1, <3>4 DEF Carries, wnu_virt_to_phys
  <2>9. memory \in [Buffer -> [1 .. MaxSectors -> Nat \cup {Junk}]]
    BY DEF AhciIInv, Typed
  <2>. QED
    BY <2>5, <2>6, <2>7, <2>8, <2>9 DEF Transfer
<1>. QED
  BY <1>1, AhciInvariance, PTL DEF Spec, NoWriteBehindBack

(* Two lists of the bus agree up to an entry of the older one before which the bus
   has not changed: the first entry at which they did not would be one that the
   newer has left out, or one that the older had. *)
LEMMA SamePrefix ==
  ASSUME Listed, bus \in [Function -> Kind], NEW t, Lists(t, bus, Len(FirstBus)),
         NEW i \in DOMAIN sata_ctrls, SameBusUpTo(i)
  PROVE  i \in DOMAIN t /\ t[i].func = sata_ctrls[i].func
<1>. DEFINE s   == sata_ctrls
            off == {j \in 1 .. i : ~(j \in DOMAIN t /\ t[j].func = s[j].func)}
<1>1. /\ MaxCtrls \in Nat /\ Len(s) \in Nat /\ DOMAIN s = 1 .. Len(s) /\ Len(s) <= MaxCtrls
      /\ Len(t) \in Nat /\ DOMAIN t = 1 .. Len(t)
      /\ \A j \in DOMAIN s : s[j].func \in Function
      /\ \A j \in DOMAIN t : t[j].func \in Function
  <2>1. s \in Seq(Ports) /\ t \in Seq(Ports) /\ Len(s) <= MaxCtrls
    BY DEF Listed, Lists, Ports
  <2>2. \A p \in Ports : p.func \in Function
    BY DEF Ports
  <2>. QED
    BY <2>1, <2>2, LenProperties, ElementOfSeq, AhciAssumption
<1>2. Function = 1 .. Len(FirstBus) /\ Len(FirstBus) \in Nat
  BY FunctionIs
<1>3. /\ \A j, k \in DOMAIN s : j < k => s[j].func < s[k].func
      /\ \A j, k \in DOMAIN t : j < k => t[j].func < t[k].func
  BY DEF Listed, Lists, Ascending
<1>. SUFFICES ASSUME off # {} PROVE FALSE
  BY <1>1
<1>4. PICK j \in off : \A m \in off : j <= m
  <2>1. off \in SUBSET Nat
    BY <1>1
  <2>. HIDE DEF off
  <2>. QED
    BY <2>1, MinIn
<1>5. /\ j \in 1 .. i /\ j \in DOMAIN s /\ ~(j \in DOMAIN t /\ t[j].func = s[j].func)
      /\ \A m \in 1 .. j - 1 : m \in DOMAIN s /\ m \in DOMAIN t /\ t[m].func = s[m].func
  <2>1. j \in 1 .. i /\ j \in DOMAIN s /\ ~(j \in DOMAIN t /\ t[j].func = s[j].func)
    BY <1>1
  <2>2. ASSUME NEW m \in 1 .. j - 1
        PROVE  m \in DOMAIN s /\ m \in DOMAIN t /\ t[m].func = s[m].func
    <3>1. m \in 1 .. i /\ ~(j <= m) /\ m \in DOMAIN s
      BY <1>1, <2>1
    <3>. QED
      BY <1>4, <3>1
  <2>. QED
    BY <2>1, <2>2
<1>. HIDE DEF off
<1>. DEFINE h == s[j].func
            g == s[i].func
<1>6. h \in Function /\ g \in Function /\ h <= g
  BY <1>1, <1>2, <1>3, <1>5
<1>7. bus[h] # "none"
  <2>1. CASE j = i
    BY <2>1 DEF SameBusUpTo
  <2>2. CASE j # i
    <3>1. j \in 1 .. i - 1 /\ h \in 1 .. g - 1
      BY <1>1, <1>2, <1>3, <1>5, <1>6, <2>2
    <3>. QED
      BY <3>1 DEF SameBusUpTo
  <2>. QED
    BY <2>1, <2>2
<1>8. ASSUME NEW x \in Function, x < h, bus[x] # "none"
      PROVE  \E k \in 1 .. j - 1 : s[k].func = x
  <2>1. x \in 1 .. g - 1
    BY <1>2, <1>6, <1>8
  <2>2. PICK k \in 1 .. i - 1 : s[k].func = x
    BY <1>8, <2>1 DEF SameBusUpTo
  <2>3. k \in DOMAIN s
    BY <1>1, <2>2
  <2>4. ~(k >= j)
    BY <1>2, <1>3, <1>5, <1>6, <1>8, <2>2, <2>3
  <2>5. k \in 1 .. j - 1
    BY <1>1, <1>5, <2>4
  <2>. QED
    BY <2>2, <2>5
<1>9. j \in DOMAIN t /\ t[j].func < h
  <2>1. \/ \E m \in DOMAIN t : t[m].func = h
        \/ Len(t) = MaxCtrls /\ \A m \in DOMAIN t : t[m].func < h
    BY <1>2, <1>6, <1>7 DEF Lists
  <2>2. CASE Len(t) = MaxCtrls /\ \A m \in DOMAIN t : t[m].func < h
    BY <1>1, <1>5, <2>2
  <2>3. ASSUME NEW m \in DOMAIN t, t[m].func = h PROVE j \in DOMAIN t /\ t[j].func < h
    <3>1. CASE m < j
      <4>1. m \in 1 .. j - 1 /\ s[m].func = h
        BY <1>1, <1>5, <2>3, <3>1
      <4>2. s[m].func < s[j].func
        BY <1>3, <1>5, <3>1, <4>1
      <4>. QED
        BY <1>2, <1>6, <4>1, <4>2
    <3>2. CASE m = j
      BY <1>5, <2>3, <3>2
    <3>3. CASE j < m
      <4>1. j \in DOMAIN t
        BY <1>1, <1>5, <3>3
      <4>. QED
        BY <1>3, <2>3, <3>3, <4>1
    <3>. QED
      BY <1>1, <1>5, <3>1, <3>2, <3>3
  <2>. QED
    BY <2>1, <2>2, <2>3
<1>10. t[j].func \in Function /\ bus[t[j].func] # "none"
  <2>1. \A m \in DOMAIN t : bus[t[m].func] # "none"
    BY DEF Lists
  <2>. QED
    BY <1>1, <1>9, <2>1
<1>11. PICK k \in 1 .. j - 1 : s[k].func = t[j].func
  BY <1>8, <1>9, <1>10
<1>12. k \in DOMAIN t /\ t[k].func = t[j].func /\ k < j
  BY <1>1, <1>5, <1>11
<1>13. t[k].func < t[j].func
  BY <1>3, <1>9, <1>12
<1>. QED
  BY <1>2, <1>10, <1>12, <1>13

(* A scan by lsblk moves no device but for a change of the bus before it, with any
   reads, failures and changes of the bus between one scan and the next. *)
THEOREM DevicesStay == Spec => DevicesMoveOnlyWithTheBus
<1>1. Counted /\ [Next]_vars =>
        [wnu_sata_print_devices =>
           \A i \in DOMAIN sata_ctrls : SameBusUpTo(i) =>
             i \in DOMAIN sata_ctrls' /\ sata_ctrls'[i].func = sata_ctrls[i].func]_vars
  <2>. SUFFICES ASSUME Counted, wnu_sata_print_devices, NEW i \in DOMAIN sata_ctrls,
                       SameBusUpTo(i)
                PROVE  i \in DOMAIN sata_ctrls' /\ sata_ctrls'[i].func = sata_ctrls[i].func
    OBVIOUS
  <2>1. Lists(Scanned(bus), bus, Len(FirstBus)) /\ sata_ctrls' = Scanned(bus)
    BY ScannedIs DEF Counted, wnu_sata_print_devices
  <2>. QED
    BY <2>1, SamePrefix DEF Counted
<1>. QED
  BY <1>1, AhciInvariance, PTL DEF Spec, DevicesMoveOnlyWithTheBus

-----------------------------------------------------------------------------
(* The steps of a read. *)

(* How many steps of its own sata_block_read has left at most. *)
StepsLeft ==
  CASE pc = "build"  -> MaxPolls + 2 + Stores - built
    [] pc = "issue"  -> MaxPolls + 2
    [] pc = "poll"   -> MaxPolls - polls + 1
    [] pc = "status" -> 1
    [] OTHER         -> 0

(* In the middle of a read every step is one of the driver that leaves it fewer
   steps, or one of a controller or of the bus that leaves the driver where it
   is: whatever they do, a read is over after MaxPolls + 2 + Stores steps of its
   own.  This is what ReadReturns rests on besides fairness. *)
EveryStepNearsTheEnd ==
  [][pc \notin {"boot", "idle"} =>
       \/ BlockRead /\ StepsLeft' < StepsLeft
       \/ /\ (\E f \in Function : Controller(f)) \/ \E f \in Removable : Unplug(f) \/ Plug(f)
          /\ UNCHANGED driver]_vars

(* Counted has what the measure needs: the stores and the polls of a read start at
   none and end at their limits. *)
THEOREM ReadsAreBounded ==
  Spec => [](StepsLeft \in 0 .. MaxPolls + 2 + Stores) /\ EveryStepNearsTheEnd
<1>1. Counted => StepsLeft \in 0 .. MaxPolls + 2 + Stores
  BY AhciAssumption DEF Counted, StepsLeft, Stores
<1>2. Counted /\ [Next]_vars =>
        [pc \notin {"boot", "idle"} =>
           \/ BlockRead /\ StepsLeft' < StepsLeft
           \/ /\ \/ \E f \in Function : Controller(f)
                 \/ \E f \in Removable : Unplug(f) \/ Plug(f)
              /\ UNCHANGED driver]_vars
  <2>. SUFFICES ASSUME Counted, Next, pc \notin {"boot", "idle"}
                PROVE  \/ BlockRead /\ StepsLeft' < StepsLeft
                       \/ /\ \/ \E f \in Function : Controller(f)
                             \/ \E f \in Removable : Unplug(f) \/ Plug(f)
                          /\ UNCHANGED driver
    OBVIOUS
  <2>1. \/ BlockRead
        \/ \E f \in Function : Controller(f)
        \/ \E f \in Removable : Unplug(f) \/ Plug(f)
    BY DEF Next, wnu_sata_init, wnu_sata_print_devices, Refuse, Start, Reuse
  <2>2. ASSUME BlockRead PROVE StepsLeft' < StepsLeft
    <3>1. /\ MaxPolls \in Nat /\ polls \in 0 .. MaxPolls /\ built \in 0 .. Stores
          /\ pc \in {"build", "issue"} => polls = 0
          /\ pc = "build" => built < Stores
          /\ pc = "poll" => polls < MaxPolls
      BY AhciAssumption DEF Counted
    <3>2. CASE Build
      BY <3>1, <3>2 DEF Build, StepsLeft, Stores
    <3>3. CASE Issue
      BY <3>1, <3>3 DEF Issue, StepsLeft
    <3>4. CASE PollDone
      BY <3>1, <3>4 DEF PollDone, StepsLeft
    <3>5. CASE PollAgain
      BY <3>1, <3>5 DEF PollAgain, StepsLeft
    <3>6. CASE CheckStatus
      BY <3>1, <3>6 DEF CheckStatus, StepsLeft
    <3>. QED
      BY <2>2, <3>2, <3>3, <3>4, <3>5, <3>6 DEF BlockRead
  <2>3. ASSUME NEW f \in Function, Controller(f) PROVE UNCHANGED driver
    BY <2>3 DEF Controller, FetchHeader, FetchFis, FetchEntry, Transfer, Complete, Fail,
                driver
  <2>4. ASSUME NEW f \in Removable, Unplug(f) \/ Plug(f) PROVE UNCHANGED driver
    BY <2>4 DEF Unplug, Plug, driver
  <2>. QED
    BY <2>1, <2>2, <2>3, <2>4
<1>. QED
  BY <1>1, <1>2, InitCounted, CountedStep, AhciInvariance, PTL
     DEF Spec, EveryStepNearsTheEnd
=============================================================================
