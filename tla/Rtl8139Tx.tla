----------------------------- MODULE Rtl8139Tx -----------------------------
(***************************************************************************)
(* Sending: rtl8139_init and rtl8139_send, src/src/drivers/rtl8139.c, with *)
(* the card behind them.  The driver uses four buffers in turn.  It fills  *)
(* one, tells the card where it is and how long the frame is, and waits    *)
(* for some time; it prints the status of the card and never decides by    *)
(* it.  The card works through the same buffers in the same order, at its  *)
(* own pace, and reads a frame from memory piece by piece.                 *)
(*                                                                         *)
(* The card is modelled by what the driver expects of it.  Lengths are in  *)
(* pieces of some bytes.                                                   *)
(***************************************************************************)
EXTENDS Naturals, Sequences

CONSTANTS
  Slots,     \* the number of buffers, 4
  TxSize,    \* TX_BUFFER_SIZE
  MinSize,   \* the shortest frame that may be sent, 60 bytes
  Layouts,   \* which buffers can be above 4 GiB, where the card cannot read
  Byte, Zero,
  Data       \* what the network stack sends

Slot == 0 .. Slots - 1

ASSUME TxAssumption ==
  /\ Slots \in Nat \ {0}
  /\ TxSize \in Nat /\ MinSize \in 1 .. TxSize
  /\ Layouts \subseteq SUBSET Slot
  /\ Zero \in Byte
  /\ Data \subseteq Seq(Byte)

VARIABLES
  high,        \* the buffers above 4 GiB
  io_base,     \* "unset", or what the driver has found: "none", a "card"
  tx_buffers,
  tx_index,    \* the buffer of the next frame
  step,        \* rtl8139_send: "idle", "fill", "copy", "address", "status"
  data,        \* the argument of rtl8139_send, cut to the length of a buffer
  tx_addr,     \* for each descriptor of the card, the buffer it points to
  tx_status,   \* and the length of its frame
  owned,       \* the descriptors that the card has still to send
  sending,     \* the descriptor the card is at
  fetched,     \* what it has read of that frame
  due,         \* the frames handed to the card, as they should leave it
  overrun      \* a buffer was written before the card had sent it; due ends

found == <<high, io_base>>
sender == <<found, tx_buffers, tx_index, step, data>>
descriptors == <<tx_addr, tx_status, owned>>
card == <<sending, fetched>>
given == <<due, overrun>>
txVars == <<sender, descriptors, card, given>>

Larger(m, n) == IF m > n THEN m ELSE n

(* Mutant of Clip: a frame longer than the buffer is taken as it is. *)
ClipNothing(frame) == frame

Clip(frame) == IF Len(frame) > TxSize THEN SubSeq(frame, 1, TxSize) ELSE frame

TxLen(frame) == Larger(Len(frame), MinSize)

(* A frame as it belongs on the wire. *)
Padded(frame) ==
  [k \in 1 .. TxLen(frame) |-> IF k <= Len(frame) THEN frame[k] ELSE Zero]

NextSlot(slot) == (slot + 1) % Slots

-----------------------------------------------------------------------------
(* rtl8139_init.  Whatever goes wrong in it ends with an io_base of 0: no such
   card, no I/O ports, no answer to the reset or a receive ring above 4 GiB. *)
rtl8139_init ==
  /\ io_base = "unset"
  /\ io_base' \in {"none", "card"}
  /\ tx_index' = 0
  /\ UNCHANGED <<high, tx_buffers, step, data, descriptors, card, given>>

(* rtl8139_send. *)

SendNothing(frame) == io_base # "card" /\ UNCHANGED txVars

Accept(frame) ==
  /\ io_base = "card" /\ step = "idle"
  /\ data' = Clip(frame)
  /\ step' = "fill"
  /\ UNCHANGED <<found, tx_buffers, tx_index, descriptors, card, given>>

(* Mutant of Fill: what the last frame left in the buffer stays. *)
FillNothing ==
  /\ step = "fill"
  /\ step' = "copy"
  /\ overrun' = (overrun \/ tx_index \in owned)
  /\ due' = IF overrun' THEN <<>> ELSE due
  /\ UNCHANGED <<found, tx_buffers, tx_index, data, descriptors, card>>

Fill ==
  /\ step = "fill"
  /\ tx_buffers' = [tx_buffers EXCEPT ![tx_index] =
       [k \in 1 .. TxSize |-> IF k <= TxLen(data) THEN Zero ELSE @[k]]]
  /\ step' = "copy"
  /\ overrun' = (overrun \/ tx_index \in owned)
  /\ due' = IF overrun' THEN <<>> ELSE due
  /\ UNCHANGED <<found, tx_index, data, descriptors, card>>

memory_copy ==
  /\ step = "copy"
  /\ tx_buffers' = [tx_buffers EXCEPT ![tx_index] =
       [k \in 1 .. TxSize |-> IF k <= Len(data) THEN data[k] ELSE @[k]]]
  /\ step' = "address"
  /\ UNCHANGED <<found, tx_index, data, descriptors, card, given>>

(* Out of the reach of the card: the frame is given up, and the next one will
   try the same buffer. *)
GiveUp ==
  /\ step = "address" /\ tx_index \in high
  /\ step' = "idle" /\ data' = <<>>
  /\ UNCHANGED <<found, tx_buffers, tx_index, descriptors, card, given>>

WriteAddress ==
  /\ step = "address" /\ tx_index \notin high
  /\ tx_addr' = [tx_addr EXCEPT ![tx_index] = tx_index]
  /\ step' = "status"
  /\ UNCHANGED <<found, tx_buffers, tx_index, data, tx_status, owned, card,
                 given>>

(* Mutant of Turn: the first buffer is left out after the first round. *)
TurnSkippingFirst(slot) == IF slot + 1 < Slots THEN slot + 1 ELSE 1 % Slots

Turn(slot) == NextSlot(slot)

WriteStatus ==
  /\ step = "status"
  /\ tx_status' = [tx_status EXCEPT ![tx_index] = TxLen(data)]
  /\ owned' = owned \cup {tx_index}
  /\ due' = IF overrun THEN due ELSE Append(due, Padded(data))
  /\ tx_index' = Turn(tx_index)
  /\ step' = "idle" /\ data' = <<>>
  /\ UNCHANGED <<found, tx_buffers, tx_addr, card, overrun>>

Send ==
  \/ \E frame \in Data : SendNothing(frame) \/ Accept(frame)
  \/ Fill \/ memory_copy \/ GiveUp \/ WriteAddress \/ WriteStatus

-----------------------------------------------------------------------------
(* The card. *)

Fetch ==
  /\ sending \in owned /\ Len(fetched) < tx_status[sending]
  /\ fetched' = Append(fetched, tx_buffers[tx_addr[sending]][Len(fetched) + 1])
  /\ UNCHANGED <<sender, descriptors, sending, given>>

Transmit ==
  /\ sending \in owned /\ Len(fetched) >= tx_status[sending]
  /\ owned' = owned \ {sending}
  /\ sending' = NextSlot(sending)
  /\ fetched' = <<>>
  /\ due' = IF overrun THEN due ELSE Tail(due)
  /\ UNCHANGED <<sender, tx_addr, tx_status, overrun>>

Card == Fetch \/ Transmit

TxInit ==
  /\ high \in Layouts
  /\ io_base = "unset"
  /\ tx_buffers = [slot \in Slot |-> [k \in 1 .. TxSize |-> Zero]]
  /\ tx_index = 0
  /\ step = "idle" /\ data = <<>>
  /\ tx_addr = [slot \in Slot |-> 0]
  /\ tx_status = [slot \in Slot |-> 0]
  /\ owned = {}
  /\ sending = 0 /\ fetched = <<>>
  /\ due = <<>>
  /\ overrun = FALSE

TxNext == rtl8139_init \/ Send \/ Card

TxSpec == TxInit /\ [][TxNext]_txVars

(* The card sends what it is told to send. *)
TxFairSpec == TxSpec /\ WF_txVars(Card)

-----------------------------------------------------------------------------
(* Properties. *)

(* A frame never outgrows its buffer, however long the data is, and neither
   does what the card is told to read. *)
TxTypeOK ==
  /\ high \subseteq Slot
  /\ io_base \in {"unset", "none", "card"}
  /\ tx_buffers \in [Slot -> [1 .. TxSize -> Byte]]
  /\ tx_index \in Slot
  /\ step \in {"idle", "fill", "copy", "address", "status"}
  /\ data \in Seq(Byte) /\ Len(data) <= TxSize
  /\ tx_addr \in [Slot -> Slot]
  /\ tx_status \in [Slot -> 0 .. TxSize]
  /\ owned \subseteq Slot
  /\ sending \in Slot
  /\ fetched \in Seq(Byte)
  /\ due \in Seq(Seq(Byte))
  /\ overrun \in BOOLEAN

(* As long as the card keeps up, what leaves it is what was given to
   rtl8139_send, in that order, padded with zeros and not with what an earlier
   frame left in the buffer. *)
SentAsGiven ==
  ~overrun /\ fetched # <<>> =>
    /\ due # <<>>
    /\ tx_status[sending] = Len(Head(due))
    /\ \A k \in DOMAIN fetched : fetched[k] = Head(due)[k]

(* The card sends every frame it was told of, as long as it keeps up: driver
   and card go round the buffers in step.  A buffer filled while the card had
   still to send it puts the card one round behind: it then waits at a buffer
   that the driver has not filled again, with frames waiting behind it. *)
EveryFrameLeaves ==
  \A slot \in Slot : slot \in owned ~> slot \notin owned \/ overrun
=============================================================================
