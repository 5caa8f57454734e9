------------------------------ MODULE Rtl8139 ------------------------------
(***************************************************************************)
(* The receive ring between the RTL8139 card and rtl8139_poll, in          *)
(* src/src/drivers/rtl8139.c.  The card stores frames in the ring at its   *)
(* own pace, a header before each; the driver walks from header to header  *)
(* and tells the card through CAPR how far it has come.  The unit of       *)
(* length is the alignment of a frame, four bytes.                         *)
(*                                                                         *)
(* The card is modelled by what the driver expects of it: it reads at CAPR *)
(* plus 16 bytes, reports an empty ring when that is where it writes next, *)
(* drops a frame that would reach the read position and, with WRAP, stores *)
(* the end of a frame behind the ring instead of at its start.  CAPR is    *)
(* written in one step here and byte by byte in the code.                  *)
(***************************************************************************)
EXTENDS Naturals

CONSTANTS
  RingSize,   \* 8192 bytes
  Lead,       \* the 16 bytes by which CAPR stays behind
  FrameSize,  \* the lengths of received frames, header included
  BadSize,    \* lengths that payload read as a header can seem to have
  Payload,    \* what a place in the ring holds that is no header
  Serials,    \* bound of the model: frames are numbered modulo Serials
  Restarts    \* the card starts afresh when it is told how to receive

Place  == 0 .. RingSize - 1
Serial == 0 .. Serials - 1
Header == [serial : Serial, size : FrameSize]

(* The shortest frame, of 68 bytes, is longer than the lead. *)
ASSUME RtlAssumption ==
  /\ RingSize \in Nat /\ Lead \in Nat \ {0} /\ Lead < RingSize
  /\ FrameSize \subseteq {n \in Nat : Lead < n /\ n < RingSize}
  /\ BadSize \subseteq {n \in Nat : 0 < n /\ n < RingSize}
  /\ Payload \notin Header
  /\ Serials \in Nat \ {0}
  /\ Restarts \in BOOLEAN

VARIABLES
  ring,       \* what is stored at each place
  cbr,        \* where the card stores the next frame
  capr,       \* the register the driver writes
  rx_offset,  \* where the driver reads the next header
  pc,         \* rtl8139_poll: "test" the loop condition, "read", "consume"
  len,        \* the length of the frame just handled
  stored,     \* the number of the frame stored last
  handled,    \* the number of the frame handled last
  misled,     \* the driver handled something else than the next frame
  skewed      \* CAPR has been written while the driver was in the lead

chip   == <<ring, cbr, stored>>
driver == <<rx_offset, capr, pc, len, handled, misled, skewed>>
vars   == <<ring, cbr, stored, rx_offset, capr, pc, len, handled, misled, skewed>>

Succ(k) == (k + 1) % Serials

-----------------------------------------------------------------------------
(* The card. *)

ReadPosition == (capr + Lead) % RingSize

RxEmpty == ReadPosition = cbr

Room == (ReadPosition + RingSize - cbr) % RingSize

Receive(n) ==
  /\ RxEmpty \/ n < Room
  /\ stored' = Succ(stored)
  /\ ring' = [k \in Place |->
       IF k = cbr THEN [serial |-> stored', size |-> n]
       ELSE IF cbr < k /\ k < cbr + n THEN Payload
       ELSE ring[k]]
  /\ cbr' = (cbr + n) % RingSize
  /\ UNCHANGED driver

-----------------------------------------------------------------------------
(* rtl8139_poll.  The interrupt status decides nothing but whether a line is
   printed. *)

PollEmpty ==
  /\ pc = "test" /\ RxEmpty
  /\ UNCHANGED vars

PollNotEmpty ==
  /\ pc = "test" /\ ~RxEmpty
  /\ pc' = "read"
  /\ UNCHANGED <<chip, rx_offset, capr, len, handled, misled, skewed>>

(* Mutant of HandleFrame: the longest frame fails the length check. *)
HandleFrameButLongest ==
  /\ pc = "read" /\ ring[rx_offset] # Payload
  /\ LET frame == ring[rx_offset]
     IN  /\ \E n \in FrameSize : frame.size < n
         /\ len' = frame.size
         /\ handled' = frame.serial
         /\ misled' = (misled \/ frame.serial # Succ(handled))
  /\ pc' = "consume"
  /\ UNCHANGED <<chip, rx_offset, capr, skewed>>

HandleFrame ==
  /\ pc = "read" /\ ring[rx_offset] # Payload
  /\ LET frame == ring[rx_offset]
     IN  /\ len' = frame.size
         /\ handled' = frame.serial
         /\ misled' = (misled \/ frame.serial # Succ(handled))
  /\ pc' = "consume"
  /\ UNCHANGED <<chip, rx_offset, capr, skewed>>

(* Payload can have any first four bytes: a header to believe or one that
   stops the loop, and stops it again at the next poll. *)
HandlePayload ==
  /\ pc = "read" /\ ring[rx_offset] = Payload
  /\ len' \in BadSize
  /\ misled' = TRUE
  /\ pc' = "consume"
  /\ UNCHANGED <<chip, rx_offset, capr, handled, skewed>>

BadHeader ==
  /\ pc = "read" /\ ring[rx_offset] = Payload
  /\ pc' = "test"
  /\ UNCHANGED <<chip, rx_offset, capr, len, handled, misled, skewed>>

(* Mutants of NextOffset: the header is not counted, and the end of the ring is
   taken for a place of it. *)
NextOffsetWithoutHeader ==
  LET next == rx_offset + len - 1
  IN  IF next >= RingSize THEN next - RingSize ELSE next

NextOffsetAtEnd ==
  LET next == rx_offset + len
  IN  IF next > RingSize THEN next - RingSize ELSE next

NextOffset ==
  LET next == rx_offset + len
  IN  IF next >= RingSize THEN next - RingSize ELSE next

Consume ==
  /\ pc = "consume"
  /\ rx_offset' = NextOffset
  /\ capr' = IF NextOffset >= Lead THEN NextOffset - Lead ELSE 0
  /\ skewed' = (skewed \/ NextOffset < Lead)
  /\ pc' = "test"
  /\ UNCHANGED <<chip, len, handled, misled>>

Poll ==
  \/ PollEmpty \/ PollNotEmpty
  \/ HandleFrame \/ HandlePayload \/ BadHeader
  \/ Consume

-----------------------------------------------------------------------------
(* rtl8139_init: both begin at offset 0 of a ring of zeros.  The driver writes
   0 to CAPR and then the receive configuration.  A card that restarts its
   ring with the latter reads and writes from its start; for any other the
   write of CAPR stands, and with it the skew that Consume brings later. *)
Init ==
  /\ ring = [k \in Place |-> Payload]
  /\ cbr = 0
  /\ capr = IF Restarts THEN RingSize - Lead ELSE 0
  /\ rx_offset = 0
  /\ pc = "test"
  /\ len = 0
  /\ stored = 0 /\ handled = 0
  /\ misled = FALSE
  /\ skewed = ~Restarts

Next == (\E n \in FrameSize : Receive(n)) \/ Poll

Spec == Init /\ [][Next]_vars

(* The main loop polls for ever. *)
FairSpec == Spec /\ WF_vars(Poll)

-----------------------------------------------------------------------------
(* Properties. *)

(* Every offset lies in the ring: after the end of a frame the driver reads on
   at a place of the ring, wherever the frame ends. *)
TypeOK ==
  /\ ring \in [Place -> Header \cup {Payload}]
  /\ cbr \in Place /\ capr \in Place /\ rx_offset \in Place
  /\ pc \in {"test", "read", "consume"}
  /\ len \in {0} \cup FrameSize \cup BadSize
  /\ stored \in Serial /\ handled \in Serial
  /\ misled \in BOOLEAN /\ skewed \in BOOLEAN

(* As long as no frame has ended in the first 16 bytes of the ring, the stack
   is given the frames that the card stored, each once and in their order, and
   the card overwrites none of them before. *)
InOrderUntilSkewed == ~skewed => ~misled

(* Every stored frame reaches the stack, on the same condition. *)
EveryFrameHandled ==
  \A k \in Serial : stored = k ~> handled = k \/ skewed

(* The comment above the code that writes CAPR calls 0 "safer than
   underflowing" at the start of the ring.  Safe would mean that the stack is
   given nothing but new frames. *)
NothingButNewFrames == ~misled
=============================================================================
