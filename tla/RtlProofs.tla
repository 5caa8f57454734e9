----------------------------- MODULE RtlProofs -----------------------------
(***************************************************************************)
(* Theorems about the RTL8139 driver, for every size of the ring and every *)
(* number of buffers: what it sends is what it was given, and until CAPR   *)
(* is skewed it hands up the frames that the card stored.                  *)
(***************************************************************************)
EXTENDS Rtl8139, Rtl8139Tx, TLAPS, SequenceTheorems

(* One round at most. *)
LEMMA ModOnce ==
  ASSUME NEW n \in Nat \ {0}, NEW a \in Nat, a < 2 * n
  PROVE  a % n = IF a < n THEN a ELSE a - n
OBVIOUS

-----------------------------------------------------------------------------
(* Sending. *)

(* The buffer i places after a buffer. *)
After(slot, i) == IF slot + i < Slots THEN slot + i ELSE slot + i - Slots

LEMMA AfterFacts ==
  /\ \A s \in Slot, i \in 0 .. Slots : After(s, i) \in Slot
  /\ \A s \in Slot : After(s, 0) = s /\ After(s, Slots) = s
  /\ \A s \in Slot, i, j \in 0 .. Slots - 1 : After(s, i) = After(s, j) => i = j
  /\ \A s \in Slot, i \in 0 .. Slots - 1 :
       /\ i + 1 \in 0 .. Slots
       /\ NextSlot(After(s, i)) = After(s, i + 1)
       /\ After(NextSlot(s), i) = After(s, i + 1)
  /\ \A s \in Slot : NextSlot(s) \in Slot
<1>1. Slots \in Nat \ {0}
  BY TxAssumption
<1>2. \A s \in Slot : NextSlot(s) = IF s + 1 < Slots THEN s + 1 ELSE 0
  <2>. SUFFICES ASSUME NEW s \in Slot
                PROVE  NextSlot(s) = IF s + 1 < Slots THEN s + 1 ELSE 0
    OBVIOUS
  <2>1. s + 1 \in Nat /\ s + 1 < 2 * Slots /\ s + 1 <= Slots
    BY <1>1 DEF Slot
  <2>. QED
    BY <1>1, <2>1, ModOnce DEF NextSlot
<1>. QED
  BY <1>1, <1>2 DEF After, Slot

(* The descriptors that the card has still to send are those from where it is
   to where the driver is, one for each frame that is due; each of them tells
   of its frame, and no byte of a frame changes before it has left. *)
Window ==
  ~overrun =>
    /\ Len(due) <= Slots
    /\ tx_index = After(sending, Len(due))
    /\ owned = {After(sending, i) : i \in 0 .. Len(due) - 1}
    /\ \A i \in 0 .. Len(due) - 1 :
         LET slot == After(sending, i)
         IN  /\ tx_addr[slot] = slot
             /\ tx_status[slot] = Len(due[i + 1])
             /\ \A k \in 1 .. Len(due[i + 1]) : tx_buffers[slot][k] = due[i + 1][k]
    /\ \A k \in DOMAIN fetched : fetched[k] = due[1][k]

(* The buffer that the driver fills is its own. *)
Filling ==
  ~overrun =>
    /\ step \in {"copy", "address", "status"} => tx_index \notin owned
    /\ step = "copy" =>
         \A k \in 1 .. TxLen(data) : tx_buffers[tx_index][k] = Zero
    /\ step \in {"address", "status"} =>
         \A k \in 1 .. TxLen(data) : tx_buffers[tx_index][k] = Padded(data)[k]
    /\ step = "status" => tx_addr[tx_index] = tx_index

(* Nothing is sent before a card was found, and rtl8139_init starts with the
   first buffer. *)
Started == io_base = "unset" => tx_index = 0 /\ step = "idle"

TxIInv ==
  /\ TxTypeOK
  /\ Started
  /\ fetched # <<>> => sending \in owned
  /\ Window
  /\ Filling

(* What a frame becomes on its way to the card. *)
LEMMA FrameFacts ==
  /\ \A frame \in Seq(Byte) : Clip(frame) \in Seq(Byte) /\ Len(Clip(frame)) <= TxSize
  /\ \A frame \in Seq(Byte) : Len(frame) <= TxSize =>
       /\ TxLen(frame) \in 0 .. TxSize /\ Len(frame) <= TxLen(frame)
       /\ Padded(frame) \in Seq(Byte) /\ Len(Padded(frame)) = TxLen(frame)
<1>1. TxSize \in Nat /\ MinSize \in Nat /\ MinSize <= TxSize /\ Zero \in Byte
  BY TxAssumption
<1>2. ASSUME NEW frame \in Seq(Byte)
      PROVE  Clip(frame) \in Seq(Byte) /\ Len(Clip(frame)) <= TxSize
  BY <1>1 DEF Clip
<1>3. ASSUME NEW frame \in Seq(Byte), Len(frame) <= TxSize
      PROVE  /\ TxLen(frame) \in 0 .. TxSize /\ Len(frame) <= TxLen(frame)
             /\ Padded(frame) \in Seq(Byte) /\ Len(Padded(frame)) = TxLen(frame)
  <2>1. TxLen(frame) \in 0 .. TxSize /\ Len(frame) <= TxLen(frame)
    BY <1>1, <1>3 DEF TxLen, Larger
  <2>2. \A k \in 1 .. TxLen(frame) :
          (IF k <= Len(frame) THEN frame[k] ELSE Zero) \in Byte
    BY <1>1, <2>1
  <2>. HIDE DEF TxLen
  <2>. QED
    BY <2>1, <2>2 DEF Padded
<1>. QED
  BY <1>2, <1>3

LEMMA InitTx == TxInit => TxIInv
<1>. SUFFICES ASSUME TxInit PROVE TxIInv
  OBVIOUS
<1>1. TxTypeOK
  <2>1. /\ 0 \in Slot /\ 0 \in 0 .. TxSize /\ Len(<<>>) <= TxSize
        /\ high \subseteq Slot /\ Zero \in Byte
    BY TxAssumption DEF Slot, TxInit
  <2>. QED
    BY <2>1 DEF TxInit, TxTypeOK
<1>2. Window
  BY TxAssumption DEF TxInit, Window, After, Slot
<1>. QED
  BY <1>1, <1>2 DEF TxInit, TxIInv, Filling, Started

(* The buffers that the card has still to send stay, and the driver's own is
   not among them. *)
LEMMA BufferStep ==
  ASSUME TxIInv, Fill \/ memory_copy
  PROVE  TxIInv'
<1>1. /\ UNCHANGED <<found, tx_index, data, descriptors, card>>
      /\ \A slot \in Slot \ {tx_index} : tx_buffers'[slot] = tx_buffers[slot]
      /\ ~overrun' => /\ ~overrun /\ tx_index \notin owned
                      /\ due' = due
      /\ due' \in Seq(Seq(Byte)) /\ overrun' \in BOOLEAN
      /\ step' \in {"copy", "address"}
  <2>1. due \in Seq(Seq(Byte)) /\ overrun \in BOOLEAN
        /\ tx_buffers \in [Slot -> [1 .. TxSize -> Byte]] /\ tx_index \in Slot
    BY DEF TxIInv, TxTypeOK
  <2>2. CASE Fill
    <3>1. overrun' = (overrun \/ tx_index \in owned)
          /\ due' = IF overrun' THEN <<>> ELSE due
      BY <2>2 DEF Fill
    <3>2. overrun' \in BOOLEAN /\ (~overrun' => ~overrun /\ tx_index \notin owned)
      BY <3>1, Zenon
    <3>3. due' \in Seq(Seq(Byte)) /\ (~overrun' => due' = due)
      BY <2>1, <3>1
    <3>. QED
      BY <2>1, <2>2, <3>2, <3>3 DEF Fill
  <2>3. CASE memory_copy
    BY <2>1, <2>3 DEF memory_copy, TxIInv, Filling, given
  <2>. QED
    BY <2>2, <2>3
<1>2. /\ data \in Seq(Byte) /\ Len(data) <= TxSize /\ TxLen(data) \in 0 .. TxSize
      /\ Len(data) <= TxLen(data)
      /\ tx_index \in Slot /\ tx_buffers \in [Slot -> [1 .. TxSize -> Byte]]
      /\ Zero \in Byte
  BY FrameFacts, TxAssumption DEF TxIInv, TxTypeOK
<1>3. /\ tx_buffers' \in [Slot -> [1 .. TxSize -> Byte]]
      /\ step = "fill" => \A k \in 1 .. TxLen(data) : tx_buffers'[tx_index][k] = Zero
      /\ step = "copy" =>
           \A k \in 1 .. TxSize : tx_buffers'[tx_index][k] =
             IF k <= Len(data) THEN data[k] ELSE tx_buffers[tx_index][k]
  <2>. HIDE DEF TxLen
  <2>1. CASE Fill
    <3>. DEFINE buffer == [k \in 1 .. TxSize |->
                   IF k <= TxLen(data) THEN Zero ELSE tx_buffers[tx_index][k]]
    <3>1. step = "fill" /\ tx_buffers' = [tx_buffers EXCEPT ![tx_index] = buffer]
      BY <2>1 DEF Fill
    <3>2. /\ buffer \in [1 .. TxSize -> Byte]
          /\ \A k \in 1 .. TxLen(data) : buffer[k] = Zero
      BY <1>2, TxAssumption
    <3>. HIDE DEF buffer
    <3>. QED
      BY <1>2, <3>1, <3>2
  <2>2. CASE memory_copy
    <3>. DEFINE buffer == [k \in 1 .. TxSize |->
                   IF k <= Len(data) THEN data[k] ELSE tx_buffers[tx_index][k]]
    <3>1. step = "copy" /\ tx_buffers' = [tx_buffers EXCEPT ![tx_index] = buffer]
      BY <2>2 DEF memory_copy
    <3>2. /\ buffer \in [1 .. TxSize -> Byte]
          /\ \A k \in 1 .. TxSize : buffer[k] =
               IF k <= Len(data) THEN data[k] ELSE tx_buffers[tx_index][k]
      BY <1>2, TxAssumption
    <3>. HIDE DEF buffer
    <3>. QED
      BY <1>2, <3>1, <3>2
  <2>. QED
    BY <2>1, <2>2
<1>4. Window'
  <2>. SUFFICES ASSUME ~overrun' PROVE Window'
    BY DEF Window
  <2>1. Window /\ ~overrun
    BY <1>1 DEF TxIInv
  <2>2. \A i \in 0 .. Len(due) - 1 : /\ After(sending, i) \in owned
                                     /\ After(sending, i) \in Slot
    BY <2>1 DEF Window, TxIInv, TxTypeOK
  <2>3. \A i \in 0 .. Len(due) - 1 :
          tx_buffers'[After(sending, i)] = tx_buffers[After(sending, i)]
    BY <1>1, <2>2
  <2>. QED
    BY <1>1, <2>1, <2>3 DEF Window, After, descriptors, card
<1>5. Filling'
  <2>. SUFFICES ASSUME ~overrun' PROVE Filling'
    BY DEF Filling
  <2>1. CASE Fill
    <3>. HIDE DEF TxLen
    <3>. QED
      BY <1>1, <1>3, <2>1 DEF Fill, Filling, descriptors
  <2>2. CASE memory_copy
    <3>1. ASSUME NEW k \in 1 .. TxLen(data)
          PROVE  tx_buffers'[tx_index][k] = Padded(data)[k]
      <4>1. k \in 1 .. TxSize
        BY <1>2, TxAssumption
      <4>2. tx_buffers[tx_index][k] = Zero
        BY <1>1, <2>2 DEF memory_copy, TxIInv, Filling
      <4>. HIDE DEF TxLen
      <4>. QED
        BY <1>3, <2>2, <4>1, <4>2 DEF memory_copy, Padded
    <3>. QED
      BY <1>1, <2>2, <3>1 DEF memory_copy, Filling, descriptors
  <2>. QED
    BY <2>1, <2>2
<1>6. TxTypeOK'
  BY <1>1, <1>3 DEF TxIInv, TxTypeOK, found, descriptors, card
<1>7. Started'
  BY <1>1 DEF TxIInv, Started, Fill, memory_copy, found
<1>. QED
  BY <1>1, <1>4, <1>5, <1>6, <1>7 DEF TxIInv, descriptors, card

(* The steps of the driver that write neither memory nor a register. *)
LEMMA OtherSendSteps ==
  ASSUME TxIInv,
         \/ rtl8139_init
         \/ \E frame \in Data : Accept(frame)
         \/ GiveUp
         \/ UNCHANGED txVars
  PROVE  TxIInv'
<1>1. /\ UNCHANGED <<high, tx_buffers, tx_index, descriptors, card, given>>
      /\ io_base' \in {"unset", "none", "card"}
      /\ Started'
      /\ data' \in Seq(Byte) /\ Len(data') <= TxSize
      /\ step' \in {"idle", "fill"} \/ UNCHANGED <<step, data>>
  <2>1. CASE rtl8139_init
    BY <2>1 DEF rtl8139_init, TxIInv, TxTypeOK, Started, descriptors
  <2>2. CASE \E frame \in Data : Accept(frame)
    <3>1. \A frame \in Data : Clip(frame) \in Seq(Byte) /\ Len(Clip(frame)) <= TxSize
      BY FrameFacts, TxAssumption
    <3>. QED
      BY <2>2, <3>1 DEF Accept, TxIInv, TxTypeOK, Started, found
  <2>3. CASE UNCHANGED txVars
    BY <2>3 DEF TxIInv, TxTypeOK, Started, txVars, sender, found
  <2>4. CASE GiveUp
    BY <2>4, TxAssumption DEF GiveUp, TxIInv, TxTypeOK, Started, found
  <2>. QED
    BY <2>1, <2>2, <2>3, <2>4
<1>2. TxTypeOK'
  BY <1>1 DEF TxIInv, TxTypeOK, descriptors, card, given
<1>3. Window'
  BY <1>1 DEF TxIInv, Window, After, descriptors, card, given
<1>4. Filling'
  <2>1. CASE step' \in {"idle", "fill"}
    BY <2>1 DEF Filling
  <2>2. CASE UNCHANGED <<step, data>>
    <3>. HIDE DEF TxLen, Padded
    <3>. QED
      BY <1>1, <2>2 DEF TxIInv, Filling, descriptors, given
  <2>. QED
    BY <1>1, <2>1, <2>2
<1>. QED
  BY <1>1, <1>2, <1>3, <1>4 DEF TxIInv, descriptors, card, given

LEMMA WriteAddressStep ==
  ASSUME TxIInv, WriteAddress
  PROVE  TxIInv'
<1>1. /\ step = "address" /\ step' = "status"
      /\ tx_addr' = [tx_addr EXCEPT ![tx_index] = tx_index]
      /\ UNCHANGED <<found, tx_buffers, tx_index, data, tx_status, owned, card, given>>
  BY DEF WriteAddress
<1>2. tx_addr \in [Slot -> Slot] /\ tx_index \in Slot /\ sending \in Slot
  BY DEF TxIInv, TxTypeOK
<1>3. /\ tx_addr' \in [Slot -> Slot] /\ tx_addr'[tx_index] = tx_index
      /\ \A slot \in Slot : tx_addr[slot] = slot => tx_addr'[slot] = slot
  BY <1>1, <1>2
<1>4. TxTypeOK'
  BY <1>1, <1>3 DEF TxIInv, TxTypeOK, found, card, given
<1>5. Window'
  <2>. SUFFICES ASSUME ~overrun PROVE Window'
    BY <1>1 DEF Window, given
  <2>1. Window
    BY DEF TxIInv
  <2>2. \A i \in 0 .. Len(due) - 1 : After(sending, i) \in Slot
    BY <2>1 DEF Window, TxIInv, TxTypeOK
  <2>3. \A i \in 0 .. Len(due) - 1 : LET slot == After(sending, i)
                                    IN  tx_addr'[slot] = slot
    BY <1>3, <2>1, <2>2 DEF Window
  <2>. QED
    BY <1>1, <2>1, <2>3 DEF Window, After, card, given
<1>6. Filling'
  BY <1>1, <1>3 DEF TxIInv, Filling, given
<1>. QED
  BY <1>1, <1>4, <1>5, <1>6 DEF TxIInv, Started, found, card

(* The buffer becomes the last one of the window. *)
LEMMA WriteStatusStep ==
  ASSUME TxIInv, WriteStatus
  PROVE  TxIInv'
<1>. DEFINE n == Len(due)
            frame == Padded(data)
<1>1. /\ step = "status" /\ step' = "idle" /\ data' = <<>>
      /\ tx_status' = [tx_status EXCEPT ![tx_index] = TxLen(data)]
      /\ owned' = owned \cup {tx_index}
      /\ due' = IF overrun THEN due ELSE Append(due, frame)
      /\ tx_index' = NextSlot(tx_index)
      /\ UNCHANGED <<found, tx_buffers, tx_addr, card, overrun>>
  BY DEF WriteStatus, Turn
<1>2. /\ TxTypeOK
      /\ tx_status \in [Slot -> 0 .. TxSize] /\ tx_index \in Slot /\ sending \in Slot
      /\ due \in Seq(Seq(Byte)) /\ n \in Nat
  BY DEF TxIInv, TxTypeOK
<1>3. /\ TxLen(data) \in 0 .. TxSize
      /\ frame \in Seq(Byte) /\ Len(frame) = TxLen(data)
  BY FrameFacts DEF TxIInv, TxTypeOK
<1>4. /\ tx_status' \in [Slot -> 0 .. TxSize] /\ tx_status'[tx_index] = TxLen(data)
      /\ \A slot \in Slot \ {tx_index} : tx_status'[slot] = tx_status[slot]
  <2>. HIDE DEF TxLen
  <2>. QED
    BY <1>1, <1>2, <1>3
<1>5. Slots \in Nat \ {0} /\ 0 <= TxSize
  BY TxAssumption
<1>. HIDE DEF frame
<1>6. io_base # "unset"
  BY <1>1 DEF TxIInv, Started
<1>7. TxTypeOK'
  <2>1. due' \in Seq(Seq(Byte))
    BY <1>1, <1>2, <1>3
  <2>2. tx_index' \in Slot /\ owned' \subseteq Slot
    BY <1>1, <1>2, AfterFacts DEF TxTypeOK
  <2>. QED
    BY <1>1, <1>2, <1>4, <1>5, <2>1, <2>2 DEF TxTypeOK, found, card
<1>8. Window'
  <2>. SUFFICES ASSUME ~overrun PROVE Window'
    BY <1>1 DEF Window
  <2>1. /\ n <= Slots /\ tx_index = After(sending, n)
        /\ owned = {After(sending, i) : i \in 0 .. n - 1}
        /\ tx_index \notin owned
    BY <1>1 DEF TxIInv, Window, Filling
  <2>2. n < Slots
    <3>. SUFFICES ASSUME n = Slots PROVE FALSE
      BY <1>2, <1>5, <2>1
    <3>1. 0 \in 0 .. n - 1 /\ After(sending, 0) = sending /\ After(sending, n) = sending
      BY <1>2, <1>5, AfterFacts
    <3>. QED
      BY <2>1, <3>1
  <2>. DEFINE ds == Append(due, frame)
  <2>3. /\ due' = ds /\ Len(ds) = n + 1 /\ ds[n + 1] = frame
        /\ \A i \in 0 .. n - 1 : ds[i + 1] = due[i + 1]
    BY <1>1, <1>2, <1>3
  <2>. HIDE DEF ds
  <2>4. tx_index' = After(sending, n + 1) /\ n + 1 <= Slots
    <3>1. \A m \in Nat : m < Slots => m \in 0 .. Slots - 1 /\ m + 1 <= Slots
      BY <1>5
    <3>2. n \in 0 .. Slots - 1 /\ n + 1 <= Slots
      BY <1>2, <2>2, <3>1, Zenon
    <3>3. NextSlot(After(sending, n)) = After(sending, n + 1)
      BY <1>2, <3>2, AfterFacts, Zenon
    <3>. QED
      BY <1>1, <2>1, <3>2, <3>3, Zenon
  <2>5. \A i \in 0 .. n : i = n \/ i \in 0 .. n - 1
    BY <1>2
  <2>6. owned' = {After(sending, i) : i \in 0 .. n}
    <3>1. \A i \in 0 .. n - 1 : i \in 0 .. n
      BY <1>2
    <3>2. n \in 0 .. n
      BY <1>2
    <3>. HIDE DEF n
    <3>. QED
      BY <1>1, <2>1, <2>5, <3>1, <3>2
  <2>7. ASSUME NEW i \in 0 .. n
        PROVE  LET slot == After(sending, i)
               IN  /\ tx_addr[slot] = slot
                   /\ tx_status'[slot] = Len(ds[i + 1])
                   /\ \A k \in 1 .. Len(ds[i + 1]) : tx_buffers[slot][k] = ds[i + 1][k]
    <3>1. CASE i = n
      BY <1>1, <1>3, <1>4, <2>1, <2>3, <3>1 DEF TxIInv, Filling, frame
    <3>2. CASE i \in 0 .. n - 1
      <4>. DEFINE slot == After(sending, i)
      <4>1. slot \in owned /\ slot # tx_index /\ slot \in Slot
        BY <2>1, <3>2 DEF TxIInv, TxTypeOK
      <4>2. /\ tx_addr[slot] = slot
            /\ tx_status[slot] = Len(due[i + 1])
            /\ \A k \in 1 .. Len(due[i + 1]) : tx_buffers[slot][k] = due[i + 1][k]
        BY <3>2 DEF TxIInv, Window
      <4>. HIDE DEF slot
      <4>3. tx_status'[slot] = Len(ds[i + 1])
        BY <1>4, <2>3, <3>2, <4>1, <4>2
      <4>. QED
        BY <2>3, <3>2, <4>2, <4>3 DEF slot
    <3>. QED
      BY <2>5, <3>1, <3>2
  <2>8. \A k \in DOMAIN fetched : fetched[k] = ds[1][k]
    <3>1. CASE n = 0
      <4>1. owned = {}
        BY <2>1, <3>1
      <4>2. fetched = <<>>
        BY <4>1 DEF TxIInv
      <4>. QED
        BY <4>2
    <3>2. CASE n # 0
      <4>1. 0 \in 0 .. n - 1 /\ 0 + 1 = 1
        BY <1>2, <3>2
      <4>2. ds[1] = due[1]
        BY <2>3, <4>1
      <4>. QED
        BY <4>2 DEF TxIInv, Window
    <3>. QED
      BY <3>1, <3>2
  <2>9. Len(due') - 1 = n /\ Len(due') <= Slots
    BY <1>2, <2>2, <2>3, <1>5
  <2>10. /\ Len(due') = n + 1
         /\ UNCHANGED <<sending, fetched, tx_addr, tx_buffers>>
    BY <1>1, <2>3 DEF card
  <2>. HIDE DEF n
  <2>. QED
    BY <2>3, <2>4, <2>6, <2>7, <2>8, <2>9, <2>10 DEF Window, After
<1>9. Filling'
  BY <1>1 DEF Filling
<1>10. io_base' # "unset" /\ (fetched' # <<>> => sending' \in owned')
  BY <1>1, <1>6 DEF TxIInv, found, card
<1>. QED
  BY <1>7, <1>8, <1>9, <1>10 DEF TxIInv, Started

(* The card is at the first buffer of the window. *)
LEMMA AtFirst ==
  ASSUME TxIInv, sending \in owned, ~overrun
  PROVE  /\ Len(due) \in Nat \ {0} /\ due[1] \in Seq(Byte)
         /\ tx_addr[sending] = sending
         /\ tx_status[sending] = Len(due[1])
         /\ \A k \in 1 .. Len(due[1]) : tx_buffers[sending][k] = due[1][k]
<1>1. due \in Seq(Seq(Byte)) /\ Len(due) \in Nat /\ sending \in Slot
  BY DEF TxIInv, TxTypeOK
<1>2. \E i \in 0 .. Len(due) - 1 : sending = After(sending, i)
  BY DEF TxIInv, Window
<1>3. Len(due) # 0 /\ 0 \in 0 .. Len(due) - 1 /\ 0 + 1 = 1
  BY <1>1, <1>2
<1>4. After(sending, 0) = sending
  BY <1>1, AfterFacts
<1>5. LET slot == After(sending, 0)
      IN  /\ tx_addr[slot] = slot
          /\ tx_status[slot] = Len(due[0 + 1])
          /\ \A k \in 1 .. Len(due[0 + 1]) : tx_buffers[slot][k] = due[0 + 1][k]
  BY <1>3 DEF TxIInv, Window
<1>6. due[1] \in Seq(Byte)
  BY <1>1, <1>3
<1>. QED
  BY <1>1, <1>3, <1>4, <1>5, <1>6

LEMMA FetchStep ==
  ASSUME TxIInv, Fetch
  PROVE  TxIInv'
<1>. DEFINE piece == tx_buffers[tx_addr[sending]][Len(fetched) + 1]
<1>1. /\ sending \in owned /\ Len(fetched) < tx_status[sending]
      /\ fetched' = Append(fetched, piece)
      /\ UNCHANGED <<sender, descriptors, sending, given>>
  BY DEF Fetch
<1>2. /\ TxTypeOK /\ fetched \in Seq(Byte) /\ sending \in Slot
      /\ tx_status[sending] \in Nat /\ tx_status[sending] <= TxSize
      /\ tx_addr[sending] \in Slot
      /\ tx_buffers \in [Slot -> [1 .. TxSize -> Byte]]
  BY TxAssumption DEF TxIInv, TxTypeOK
<1>3. Len(fetched) \in Nat /\ Len(fetched) + 1 \in 1 .. TxSize
      /\ Len(fetched) + 1 \in 1 .. tx_status[sending]
  BY <1>1, <1>2, TxAssumption
<1>4. piece \in Byte
  BY <1>2, <1>3
<1>. HIDE DEF piece
<1>5. fetched' \in Seq(Byte)
      /\ \A k \in DOMAIN fetched' : \/ k \in DOMAIN fetched /\ fetched'[k] = fetched[k]
                                    \/ k = Len(fetched) + 1 /\ fetched'[k] = piece
  BY <1>1, <1>2, <1>4
<1>6. TxTypeOK'
  BY <1>1, <1>2, <1>5 DEF TxTypeOK, sender, found, descriptors, given
<1>7. Window'
  <2>. SUFFICES ASSUME ~overrun PROVE Window'
    BY <1>1 DEF Window, given
  <2>1. \A k \in DOMAIN fetched' : fetched'[k] = due[1][k]
    <3>1. piece = due[1][Len(fetched) + 1]
      BY <1>1, <1>3, AtFirst DEF piece
    <3>2. \A k \in DOMAIN fetched : fetched[k] = due[1][k]
      BY DEF TxIInv, Window
    <3>. QED
      BY <1>5, <3>1, <3>2
  <2>2. Window
    BY DEF TxIInv
  <2>. QED
    BY <1>1, <2>1, <2>2 DEF Window, After, sender, descriptors, given
<1>8. Filling'
  <2>. HIDE DEF TxLen, Padded
  <2>. QED
    BY <1>1 DEF TxIInv, Filling, sender, descriptors, given
<1>. QED
  BY <1>1, <1>6, <1>7, <1>8 DEF TxIInv, Started, sender, found, descriptors

(* The window loses its first buffer. *)
LEMMA TransmitStep ==
  ASSUME TxIInv, Transmit
  PROVE  TxIInv'
<1>. DEFINE n == Len(due)
<1>1. /\ sending \in owned /\ owned' = owned \ {sending}
      /\ sending' = NextSlot(sending) /\ fetched' = <<>>
      /\ due' = IF overrun THEN due ELSE Tail(due)
      /\ UNCHANGED <<sender, tx_addr, tx_status, overrun>>
  BY DEF Transmit
<1>2. TxTypeOK /\ sending \in Slot /\ due \in Seq(Seq(Byte)) /\ n \in Nat
  BY DEF TxIInv, TxTypeOK
<1>3. ~overrun => n # 0 /\ Len(Tail(due)) = n - 1 /\ Tail(due) \in Seq(Seq(Byte))
                  /\ \A i \in 1 .. n - 1 : Tail(due)[i] = due[i + 1]
  BY <1>1, <1>2, AtFirst
<1>4. TxTypeOK'
  <2>1. due' \in Seq(Seq(Byte))
    BY <1>1, <1>2, <1>3
  <2>2. sending' \in Slot /\ owned' \subseteq Slot /\ fetched' \in Seq(Byte)
    BY <1>1, <1>2, AfterFacts DEF TxTypeOK
  <2>. QED
    BY <1>1, <1>2, <2>1, <2>2 DEF TxTypeOK, sender, found
<1>5. Window'
  <2>. SUFFICES ASSUME ~overrun PROVE Window'
    BY <1>1 DEF Window
  <2>. DEFINE ds == Tail(due)
              first == NextSlot(sending)
  <2>1. /\ n <= Slots /\ tx_index = After(sending, n)
        /\ owned = {After(sending, i) : i \in 0 .. n - 1}
    BY DEF TxIInv, Window
  <2>2. Slots \in Nat \ {0} /\ n - 1 \in 0 .. Slots - 1 /\ n - 1 + 1 = n
    BY <1>2, <1>3, <2>1, TxAssumption
  <2>3. \A i \in 0 .. n - 1 : /\ i \in 0 .. Slots - 1
                              /\ After(first, i) = After(sending, i + 1)
    <3>1. \A i \in 0 .. n - 1 : i \in 0 .. Slots - 1
      BY <2>2
    <3>. QED
      BY <1>2, <3>1, AfterFacts
  <2>4. tx_index = After(first, n - 1)
    <3>1. n - 1 \in 0 .. n - 1
      BY <1>2, <1>3
    <3>. QED
      BY <2>1, <2>2, <2>3, <3>1
  <2>5. owned \ {sending} = {After(first, i) : i \in 0 .. n - 2}
    <3>1. \A i \in 0 .. n - 1 : After(sending, i) = sending <=> i = 0
      BY <1>2, <2>2, <2>3, AfterFacts
    <3>2. \A i \in 0 .. n - 2 : i \in 0 .. n - 1 /\ i + 1 \in 0 .. n - 1 /\ i + 1 # 0
      BY <1>2
    <3>3. \A i \in 0 .. n - 1 : i # 0 => i - 1 \in 0 .. n - 2 /\ i - 1 + 1 = i
      BY <1>2
    <3>4. ASSUME NEW i \in 0 .. n - 2
          PROVE  After(first, i) \in owned \ {sending}
      <4>1. After(first, i) = After(sending, i + 1) /\ i + 1 \in 0 .. n - 1 /\ i + 1 # 0
        BY <2>3, <3>2
      <4>. QED
        BY <2>1, <3>1, <4>1
    <3>5. ASSUME NEW slot \in owned \ {sending}
          PROVE  \E i \in 0 .. n - 2 : slot = After(first, i)
      <4>1. PICK i \in 0 .. n - 1 : slot = After(sending, i)
        BY <2>1
      <4>2. i # 0
        BY <3>1, <4>1
      <4>3. After(first, i - 1) = After(sending, i) /\ i - 1 \in 0 .. n - 2
        BY <2>3, <3>2, <3>3, <4>2
      <4>. QED
        BY <4>1, <4>3
    <3>. HIDE DEF n, first
    <3>. QED
      BY <3>4, <3>5
  <2>6. ASSUME NEW i \in 0 .. n - 2
        PROVE  LET slot == After(first, i)
               IN  /\ tx_addr[slot] = slot
                   /\ tx_status[slot] = Len(ds[i + 1])
                   /\ \A k \in 1 .. Len(ds[i + 1]) : tx_buffers[slot][k] = ds[i + 1][k]
    <3>1. /\ i \in 0 .. n - 1 /\ i + 1 \in 0 .. n - 1 /\ i + 1 \in 1 .. n - 1
      BY <1>2
    <3>2. After(first, i) = After(sending, i + 1) /\ ds[i + 1] = due[i + 1 + 1]
      BY <1>3, <2>3, <3>1
    <3>3. LET slot == After(sending, i + 1)
          IN  /\ tx_addr[slot] = slot
              /\ tx_status[slot] = Len(due[i + 1 + 1])
              /\ \A k \in 1 .. Len(due[i + 1 + 1]) :
                    tx_buffers[slot][k] = due[i + 1 + 1][k]
      BY <3>1 DEF TxIInv, Window
    <3>. QED
      BY <3>2, <3>3
  <2>7. /\ due' = ds /\ Len(ds) = n - 1 /\ Len(ds) - 1 = n - 2 /\ Len(ds) <= Slots
    BY <1>1, <1>2, <1>3, <2>1, <2>2
  <2>8. UNCHANGED <<tx_index, tx_addr, tx_status, tx_buffers>>
    BY <1>1 DEF sender
  <2>9. DOMAIN fetched' = {}
    BY <1>1
  <2>10. sending' = first /\ owned' = owned \ {sending}
    BY <1>1
  <2>. HIDE DEF n, ds, first
  <2>. QED
    BY <2>4, <2>5, <2>6, <2>7, <2>8, <2>9, <2>10 DEF Window, After
<1>6. Filling'
  <2>. HIDE DEF TxLen, Padded
  <2>. QED
    BY <1>1 DEF TxIInv, Filling, sender
<1>. QED
  BY <1>1, <1>4, <1>5, <1>6 DEF TxIInv, Started, sender, found

(* The driver and the card go round the buffers in step: the invariant holds
   for any number of buffers and any frames. *)
LEMMA TxInvariance == TxSpec => []TxIInv
<1>1. TxIInv /\ [TxNext]_txVars => TxIInv'
  <2>. SUFFICES ASSUME TxIInv, [TxNext]_txVars PROVE TxIInv'
    OBVIOUS
  <2>1. CASE UNCHANGED txVars
    BY <2>1, OtherSendSteps
  <2>2. CASE rtl8139_init
    BY <2>2, OtherSendSteps
  <2>3. CASE Send
    BY <2>3, OtherSendSteps, BufferStep, WriteAddressStep, WriteStatusStep
       DEF Send, SendNothing
  <2>4. CASE Card
    BY <2>4, FetchStep, TransmitStep DEF Card
  <2>. QED
    BY <2>1, <2>2, <2>3, <2>4 DEF TxNext
<1>. QED
  BY <1>1, InitTx, PTL DEF TxSpec

(* No frame outgrows its buffer. *)
THEOREM TxTypeCorrect == TxSpec => []TxTypeOK
<1>1. TxIInv => TxTypeOK
  BY DEF TxIInv
<1>. QED
  BY <1>1, TxInvariance, PTL

(* As long as no buffer is overrun, the card sends what it was given, in the
   order it was given: the piece of a frame that it has read is the beginning
   of the oldest frame that is due. *)
THEOREM SendsAsGiven == TxSpec => []SentAsGiven
<1>1. TxIInv => SentAsGiven
  <2>. SUFFICES ASSUME TxIInv, ~overrun, fetched # <<>>
                PROVE  /\ due # <<>>
                       /\ tx_status[sending] = Len(Head(due))
                       /\ \A k \in DOMAIN fetched : fetched[k] = Head(due)[k]
    BY DEF SentAsGiven
  <2>1. sending \in owned
    BY DEF TxIInv
  <2>2. due \in Seq(Seq(Byte)) /\ Len(due) # 0
    BY <2>1, AtFirst DEF TxIInv, TxTypeOK
  <2>3. due # <<>> /\ Head(due) = due[1]
    BY <2>2
  <2>. QED
    BY <2>1, <2>3, AtFirst DEF TxIInv, Window
<1>. QED
  BY <1>1, TxInvariance, PTL

(* As long as the card keeps up, it stands at a buffer that it was given
   whenever it was given one: no frame waits behind a buffer that the driver
   has yet to fill.  This is what EveryFrameLeaves asks of the driver. *)
CardNeverStranded == ~overrun /\ owned # {} => sending \in owned

(* The buffers that the card owns are those from where it is to where the driver
   is, so one of them is the one it stands at. *)
THEOREM NoFrameStranded == TxSpec => []CardNeverStranded
<1>1. TxIInv => CardNeverStranded
  <2>. SUFFICES ASSUME TxIInv, ~overrun, NEW slot \in owned
                PROVE  sending \in owned
    BY DEF CardNeverStranded
  <2>1. /\ Len(due) \in Nat /\ sending \in Slot
        /\ owned = {After(sending, i) : i \in 0 .. Len(due) - 1}
    BY DEF TxIInv, TxTypeOK, Window
  <2>2. 0 \in 0 .. Len(due) - 1
    BY <2>1
  <2>. QED
    BY <2>1, <2>2, AfterFacts
<1>. QED
  BY <1>1, TxInvariance, PTL

-----------------------------------------------------------------------------
(* Receiving. *)

(* The place that lies some distance ahead of another. *)
Ahead(place, d) == IF place + d < RingSize THEN place + d ELSE place + d - RingSize

(* n frames lie in the ring, one behind the other from where the driver is to
   where the card is: frame i + 1 begins pos[i] ahead of the driver and has the
   number ser[i + 1].  The driver has handled the first of them when it is at
   "consume", none of them otherwise. *)
Pending(n, pos, ser) ==
  /\ pos[0] = 0
  /\ \A i \in 0 .. n : pos[i] < RingSize
  /\ \A i, j \in 0 .. n : i < j => pos[i] < pos[j]
  /\ cbr = Ahead(rx_offset, pos[n])
  /\ \A i \in 0 .. n - 1 :
       /\ ser[i + 1] = Succ(ser[i])
       /\ pos[i + 1] - pos[i] \in FrameSize
       /\ ring[Ahead(rx_offset, pos[i])] =
             [serial |-> ser[i + 1], size |-> pos[i + 1] - pos[i]]
  /\ stored = ser[n]
  /\ pc = "test" => handled = ser[0]
  /\ pc = "read" => n # 0 /\ handled = ser[0]
  /\ pc = "consume" => n # 0 /\ handled = ser[1] /\ len = pos[1]

(* Until CAPR is skewed, the card knows where the driver reads, and all between
   the two of them are frames. *)
FramesOnly ==
  \E n \in Nat : \E pos \in [0 .. n -> Nat], ser \in [0 .. n -> Serial] :
    Pending(n, pos, ser)

RxIInv ==
  /\ TypeOK
  /\ ~skewed => ReadPosition = rx_offset /\ ~misled /\ FramesOnly

LEMMA RingFacts ==
  /\ RingSize \in Nat \ {0} /\ Lead \in Nat \ {0} /\ Lead < RingSize
  /\ \A n \in FrameSize \cup BadSize : n \in Nat /\ n < RingSize /\ n # 0
  /\ \A o \in Place, d \in Nat : d < RingSize =>
       /\ Ahead(o, d) \in Place
       /\ (o + d) % RingSize = Ahead(o, d)
       /\ (o + RingSize - Ahead(o, d)) % RingSize = IF d = 0 THEN 0 ELSE RingSize - d
       /\ Ahead(o, d) = o <=> d = 0
  /\ \A o \in Place : Ahead(o, 0) = o
  /\ \A k \in Serial : Succ(k) \in Serial
<1>1. RingSize \in Nat \ {0} /\ Lead \in Nat \ {0} /\ Lead < RingSize
  BY RtlAssumption
<1>2. \A n \in FrameSize \cup BadSize : n \in Nat /\ n < RingSize /\ n # 0
  BY RtlAssumption
<1>3. ASSUME NEW o \in Place, NEW d \in Nat, d < RingSize
      PROVE  /\ Ahead(o, d) \in Place
             /\ (o + d) % RingSize = Ahead(o, d)
             /\ (o + RingSize - Ahead(o, d)) % RingSize
                  = IF d = 0 THEN 0 ELSE RingSize - d
             /\ Ahead(o, d) = o <=> d = 0
  <2>1. o \in Nat /\ o < RingSize
    BY <1>1 DEF Place
  <2>2. Ahead(o, d) \in Place /\ (Ahead(o, d) = o <=> d = 0)
    <3>1. CASE o + d < RingSize
      BY <1>1, <1>3, <2>1, <3>1 DEF Ahead, Place
    <3>2. CASE ~(o + d < RingSize)
      <4>1. Ahead(o, d) = o + d - RingSize
        BY <3>2 DEF Ahead
      <4>2. d # 0 /\ o + d - RingSize # o /\ o + d - RingSize \in 0 .. RingSize - 1
        BY <1>1, <1>3, <2>1, <3>2
      <4>. QED
        BY <4>1, <4>2 DEF Place
    <3>. QED
      BY <3>1, <3>2
  <2>3. (o + d) % RingSize = Ahead(o, d)
    <3>1. o + d \in Nat /\ o + d < 2 * RingSize
      BY <1>1, <1>3, <2>1
    <3>2. (o + d) % RingSize = IF o + d < RingSize THEN o + d ELSE (o + d) - RingSize
      BY <1>1, <3>1, ModOnce
    <3>3. (o + d) - RingSize = o + d - RingSize
      BY <1>1, <1>3, <2>1
    <3>. QED
      BY <3>2, <3>3 DEF Ahead
  <2>4. /\ o + RingSize - Ahead(o, d) \in Nat
        /\ o + RingSize - Ahead(o, d) < 2 * RingSize
    BY <1>1, <1>3, <2>1 DEF Ahead
  <2>5. (o + RingSize - Ahead(o, d)) % RingSize = IF d = 0 THEN 0 ELSE RingSize - d
    <3>. DEFINE r == o + RingSize - Ahead(o, d)
    <3>1. r % RingSize = IF r < RingSize THEN r ELSE r - RingSize
      BY <1>1, <2>4, ModOnce, Zenon
    <3>. QED
      BY <1>1, <1>3, <2>1, <3>1 DEF Ahead
  <2>. QED
    BY <2>2, <2>3, <2>5
<1>4. ASSUME NEW k \in Serial PROVE Succ(k) \in Serial
  BY RtlAssumption DEF Serial, Succ
<1>5. \A o \in Place : Ahead(o, 0) = o
  BY <1>1, <1>3
<1>. QED
  BY <1>1, <1>2, <1>3, <1>4, <1>5

(* A frame that ends before the driver comes round overwrites nothing between
   the driver and the card. *)
LEMMA NothingOverwritten ==
  ASSUME NEW o \in Place, NEW a \in Nat, NEW b \in Nat, NEW m \in Nat,
         a < b, b + m < RingSize
  PROVE  /\ Ahead(o, a) # Ahead(o, b)
         /\ ~(Ahead(o, b) < Ahead(o, a) /\ Ahead(o, a) < Ahead(o, b) + m)
<1>1. RingSize \in Nat /\ o \in Nat /\ o < RingSize
  BY RtlAssumption DEF Place
<1>2. CASE o + b < RingSize
  BY <1>1, <1>2 DEF Ahead
<1>3. CASE ~(o + b < RingSize)
  BY <1>1, <1>3 DEF Ahead
<1>. QED
  BY <1>2, <1>3

LEMMA AheadTwice ==
  ASSUME NEW o \in Place, NEW a \in Nat, NEW b \in Nat, a <= b, b < RingSize
  PROVE  Ahead(Ahead(o, a), b - a) = Ahead(o, b)
<1>1. RingSize \in Nat /\ o \in Nat /\ o < RingSize
  BY RtlAssumption DEF Place
<1>2. CASE o + a < RingSize
  BY <1>1, <1>2 DEF Ahead
<1>3. CASE ~(o + a < RingSize)
  BY <1>1, <1>3 DEF Ahead
<1>. QED
  BY <1>2, <1>3

LEMMA InitRx == Init => RxIInv
<1>. SUFFICES ASSUME Init PROVE RxIInv
  OBVIOUS
<1>1. /\ 0 \in Place /\ RingSize - Lead \in Place /\ 0 \in Serial
      /\ (RingSize - Lead + Lead) = RingSize
      /\ RingSize % RingSize = 0 /\ 0 < RingSize
      /\ Restarts \in BOOLEAN
  BY RtlAssumption, ModOnce DEF Place, Serial
<1>2. TypeOK
  <2>1. capr \in Place
    BY <1>1 DEF Init
  <2>2. skewed \in BOOLEAN
    BY <1>1, Zenon DEF Init
  <2>. QED
    BY <1>1, <2>1, <2>2 DEF Init, TypeOK
<1>3. ~skewed => ReadPosition = rx_offset
  BY <1>1 DEF Init, ReadPosition
<1>4. FramesOnly
  <2>. DEFINE pos == [i \in 0 .. 0 |-> 0]
              ser == [i \in 0 .. 0 |-> 0]
  <2>1. pos \in [0 .. 0 -> Nat] /\ ser \in [0 .. 0 -> Serial]
    BY <1>1
  <2>2. Pending(0, pos, ser)
    BY <1>1, RingFacts DEF Init, Pending
  <2>. QED
    BY <2>1, <2>2 DEF FramesOnly
<1>. QED
  BY <1>2, <1>3, <1>4 DEF RxIInv, Init

(* The card stores one more frame behind the others. *)
LEMMA ReceiveStep ==
  ASSUME RxIInv, NEW m \in FrameSize, Receive(m)
  PROVE  RxIInv'
<1>1. /\ RxEmpty \/ m < Room
      /\ stored' = Succ(stored)
      /\ ring' = [k \in Place |->
           IF k = cbr THEN [serial |-> stored', size |-> m]
           ELSE IF cbr < k /\ k < cbr + m THEN Payload
           ELSE ring[k]]
      /\ cbr' = (cbr + m) % RingSize
      /\ UNCHANGED <<rx_offset, capr, pc, len, handled, misled, skewed>>
  BY DEF Receive, driver
<1>2. /\ TypeOK /\ cbr \in Place /\ rx_offset \in Place /\ stored \in Serial
      /\ m \in Nat /\ m < RingSize /\ m # 0
  BY RingFacts DEF RxIInv, TypeOK
<1>3. /\ stored' \in Serial
      /\ cbr' = Ahead(cbr, m) /\ cbr' \in Place
      /\ ring' \in [Place -> Header \cup {Payload}]
  <2>1. stored' \in Serial /\ cbr' = Ahead(cbr, m) /\ cbr' \in Place
    BY <1>1, <1>2, RingFacts
  <2>2. [serial |-> stored', size |-> m] \in Header
    BY <2>1 DEF Header
  <2>3. ring \in [Place -> Header \cup {Payload}]
    BY <1>2 DEF TypeOK
  <2>. QED
    BY <1>1, <2>1, <2>2, <2>3
<1>4. TypeOK'
  BY <1>1, <1>2, <1>3 DEF TypeOK
<1>5. ASSUME ~skewed
      PROVE  FramesOnly'
  <2>1. PICK n \in Nat : \E pos \in [0 .. n -> Nat], ser \in [0 .. n -> Serial] :
          Pending(n, pos, ser)
    BY <1>5 DEF RxIInv, FramesOnly
  <2>2. PICK pos \in [0 .. n -> Nat], ser \in [0 .. n -> Serial] :
          Pending(n, pos, ser)
    BY <2>1
  <2>3. n \in 0 .. n /\ 0 \in 0 .. n /\ pos[n] \in Nat /\ ser[n] \in Serial
        /\ pos[n] < RingSize /\ cbr = Ahead(rx_offset, pos[n])
    BY <2>2 DEF Pending
  <2>4. pos[n] + m < RingSize
    <3>1. CASE RxEmpty
      <4>1. pos[n] = 0
        BY <1>2, <1>5, <2>3, <3>1, RingFacts DEF RxEmpty, RxIInv
      <4>. QED
        BY <1>2, <4>1
    <3>2. CASE m < Room
      <4>1. Room = IF pos[n] = 0 THEN 0 ELSE RingSize - pos[n]
        BY <1>2, <1>5, <2>3, RingFacts DEF Room, RxIInv
      <4>. QED
        BY <1>2, <2>3, <3>2, <4>1, RingFacts
    <3>. QED
      BY <1>1, <3>1, <3>2
  <2>5. /\ \A i \in 0 .. n + 1 : i = n + 1 \/ i \in 0 .. n
        /\ \A i \in 0 .. n : i \in 0 .. n + 1 /\ i # n + 1
        /\ \A i \in 0 .. n : i = n \/ i \in 0 .. n - 1
        /\ \A i \in 0 .. n - 1 : i \in 0 .. n /\ i + 1 \in 0 .. n
        /\ n + 1 \in 0 .. n + 1 /\ n + 1 \in Nat /\ n + 1 - 1 = n
        /\ n # 0 => 1 \in 0 .. n
    OBVIOUS
  <2>6. PICK pos2 \in [0 .. n + 1 -> Nat], ser2 \in [0 .. n + 1 -> Serial] :
          /\ pos2[n + 1] = pos[n] + m /\ ser2[n + 1] = stored'
          /\ \A i \in 0 .. n : pos2[i] = pos[i] /\ ser2[i] = ser[i]
    <3>. DEFINE p2 == [i \in 0 .. n + 1 |-> IF i = n + 1 THEN pos[n] + m ELSE pos[i]]
                s2 == [i \in 0 .. n + 1 |-> IF i = n + 1 THEN stored' ELSE ser[i]]
    <3>1. p2 \in [0 .. n + 1 -> Nat]
      BY <1>2, <2>3, <2>5
    <3>2. s2 \in [0 .. n + 1 -> Serial]
      BY <1>3, <2>5
    <3>3. /\ p2[n + 1] = pos[n] + m /\ s2[n + 1] = stored'
          /\ \A i \in 0 .. n : p2[i] = pos[i] /\ s2[i] = ser[i]
      BY <2>5
    <3>. HIDE DEF p2, s2
    <3>. QED
      BY <3>1, <3>2, <3>3
  <2>7. \A i \in 0 .. n : pos[i] \in Nat /\ (i # n => pos[i] < pos[n])
    BY <2>2 DEF Pending
  <2>8. \A i \in 0 .. n + 1 : pos2[i] < RingSize
    <3>1. \A i \in 0 .. n : pos[i] < RingSize
      BY <2>2 DEF Pending
    <3>. QED
      BY <2>4, <2>5, <2>6, <3>1
  <2>9. ASSUME NEW i \in 0 .. n + 1, NEW j \in 0 .. n + 1, i < j
        PROVE  pos2[i] < pos2[j]
    <3>1. i \in 0 .. n
      BY <2>9
    <3>2. CASE j \in 0 .. n
      BY <2>2, <2>6, <2>9, <3>1, <3>2 DEF Pending
    <3>3. CASE j = n + 1
      BY <1>2, <2>3, <2>6, <2>7, <3>1, <3>3
    <3>. QED
      BY <2>5, <3>2, <3>3
  <2>10. cbr' = Ahead(rx_offset', pos2[n + 1])
    <3>1. Ahead(Ahead(rx_offset, pos[n]), m) = Ahead(rx_offset, pos[n] + m)
      <4>1. pos[n] + m \in Nat /\ pos[n] <= pos[n] + m /\ pos[n] + m - pos[n] = m
        BY <1>2, <2>3
      <4>. QED
        BY <1>2, <2>3, <2>4, <4>1, AheadTwice
    <3>. QED
      BY <1>1, <1>3, <2>3, <2>6, <3>1
  <2>11. ASSUME NEW i \in 0 .. n
         PROVE  /\ ser2[i + 1] = Succ(ser2[i])
                /\ pos2[i + 1] - pos2[i] \in FrameSize
                /\ ring'[Ahead(rx_offset, pos2[i])] =
                     [serial |-> ser2[i + 1], size |-> pos2[i + 1] - pos2[i]]
    <3>1. CASE i = n
      <4>1. ser2[n] = stored /\ pos2[n] = pos[n]
        BY <2>2, <2>3, <2>6 DEF Pending
      <4>2. pos2[n + 1] - pos2[n] = m
        BY <1>2, <2>3, <2>6, <4>1
      <4>3. ring'[cbr] = [serial |-> stored', size |-> m]
        BY <1>1, <1>2
      <4>. QED
        BY <1>1, <2>3, <2>6, <3>1, <4>1, <4>2, <4>3
    <3>2. CASE i \in 0 .. n - 1
      <4>. DEFINE place == Ahead(rx_offset, pos[i])
      <4>1. /\ ser2[i] = ser[i] /\ ser2[i + 1] = ser[i + 1]
            /\ pos2[i] = pos[i] /\ pos2[i + 1] = pos[i + 1]
        BY <2>5, <2>6, <3>2
      <4>2. pos[i] \in Nat /\ pos[i] < pos[n] /\ pos[i] < RingSize
        <5>1. i \in 0 .. n /\ i # n
          BY <3>2
        <5>. QED
          BY <2>2, <2>7, <5>1 DEF Pending
      <4>3. place \in Place
        BY <1>2, <4>2, RingFacts
      <4>4. place # cbr /\ ~(cbr < place /\ place < cbr + m)
        BY <1>2, <2>3, <2>4, <4>2, NothingOverwritten
      <4>5. ring'[place] = ring[place]
        <5>. HIDE DEF place
        <5>. QED
          BY <1>1, <4>3, <4>4
      <4>6. /\ ser[i + 1] = Succ(ser[i]) /\ pos[i + 1] - pos[i] \in FrameSize
            /\ ring[place] = [serial |-> ser[i + 1], size |-> pos[i + 1] - pos[i]]
        BY <2>2, <3>2 DEF Pending
      <4>. QED
        BY <4>1, <4>5, <4>6
    <3>. QED
      BY <2>5, <3>1, <3>2
  <2>12. Pending(n + 1, pos2, ser2)'
    <3>1. /\ pos2[0] = 0 /\ ser2[0] = ser[0] /\ n + 1 # 0
          /\ n # 0 => ser2[1] = ser[1] /\ pos2[1] = pos[1]
      BY <2>2, <2>3, <2>5, <2>6 DEF Pending
    <3>2. /\ pc = "test" => handled = ser[0]
          /\ pc = "read" => handled = ser[0]
          /\ pc = "consume" => n # 0 /\ handled = ser[1] /\ len = pos[1]
      BY <2>2 DEF Pending
    <3>3. \A i \in 0 .. n + 1 - 1 : i \in 0 .. n
      BY <2>5
    <3>. QED
      BY <1>1, <2>6, <2>8, <2>9, <2>10, <2>11, <3>1, <3>2, <3>3 DEF Pending, Ahead
  <2>. QED
    BY <2>5, <2>6, <2>12 DEF FramesOnly
<1>. QED
  BY <1>1, <1>4, <1>5 DEF RxIInv, ReadPosition

(* As long as nothing was skewed, a header is what the driver reads. *)
LEMMA AtHeader ==
  ASSUME RxIInv, ~skewed, NEW n \in Nat,
         NEW pos \in [0 .. n -> Nat], NEW ser \in [0 .. n -> Serial],
         Pending(n, pos, ser), n # 0
  PROVE  /\ 0 \in 0 .. n /\ 1 \in 0 .. n /\ 0 \in 0 .. n - 1
         /\ pos[1] \in Nat /\ pos[1] < RingSize /\ ser[1] \in Serial
         /\ ser[1] = Succ(ser[0])
         /\ ring[rx_offset] = [serial |-> ser[1], size |-> pos[1]]
         /\ ring[rx_offset] # Payload
<1>1. 0 \in 0 .. n /\ 1 \in 0 .. n /\ 0 \in 0 .. n - 1 /\ 0 + 1 = 1
  OBVIOUS
<1>2. /\ pos[0] = 0 /\ pos[1] < RingSize
      /\ ser[0 + 1] = Succ(ser[0])
      /\ pos[0 + 1] - pos[0] \in FrameSize
      /\ ring[Ahead(rx_offset, pos[0])]
           = [serial |-> ser[0 + 1], size |-> pos[0 + 1] - pos[0]]
  BY <1>1 DEF Pending
<1>3. rx_offset \in Place /\ pos[1] \in Nat /\ ser[1] \in Serial
  BY <1>1 DEF RxIInv, TypeOK
<1>4. pos[0 + 1] - pos[0] = pos[1] /\ Ahead(rx_offset, pos[0]) = rx_offset
  BY <1>2, <1>3, RingFacts
<1>5. ring[rx_offset] = [serial |-> ser[1], size |-> pos[1]] /\ pos[1] \in FrameSize
  BY <1>2, <1>4
<1>6. Payload \notin Header /\ [serial |-> ser[1], size |-> pos[1]] \in Header
  BY <1>3, <1>5, RtlAssumption DEF Header
<1>. QED
  BY <1>1, <1>2, <1>3, <1>5, <1>6

LEMMA PollNotEmptyStep ==
  ASSUME RxIInv, PollNotEmpty
  PROVE  RxIInv'
<1>1. /\ pc = "test" /\ ~RxEmpty /\ pc' = "read"
      /\ UNCHANGED <<ring, cbr, stored, rx_offset, capr, len, handled, misled, skewed>>
  BY DEF PollNotEmpty, chip
<1>2. TypeOK /\ rx_offset \in Place
  BY DEF RxIInv, TypeOK
<1>3. TypeOK'
  BY <1>1, <1>2 DEF TypeOK
<1>4. ASSUME ~skewed
      PROVE  FramesOnly'
  <2>1. PICK n \in Nat : \E pos \in [0 .. n -> Nat], ser \in [0 .. n -> Serial] :
          Pending(n, pos, ser)
    BY <1>4 DEF RxIInv, FramesOnly
  <2>2. PICK pos \in [0 .. n -> Nat], ser \in [0 .. n -> Serial] :
          Pending(n, pos, ser)
    BY <2>1
  <2>3. n # 0
    <3>1. ReadPosition = rx_offset /\ Ahead(rx_offset, 0) = rx_offset
      BY <1>2, <1>4, RingFacts DEF RxIInv
    <3>. QED
      BY <1>1, <2>2, <3>1 DEF RxEmpty, Pending
  <2>4. Pending(n, pos, ser)'
    BY <1>1, <2>2, <2>3 DEF Pending, Ahead
  <2>. QED
    BY <2>4 DEF FramesOnly
<1>. QED
  BY <1>1, <1>3, <1>4 DEF RxIInv, ReadPosition

(* The header at the driver is that of the next frame. *)
LEMMA HandleFrameStep ==
  ASSUME RxIInv, HandleFrame
  PROVE  RxIInv'
<1>. DEFINE frame == ring[rx_offset]
<1>1. /\ pc = "read" /\ frame # Payload
      /\ len' = frame.size /\ handled' = frame.serial
      /\ misled' = (misled \/ frame.serial # Succ(handled))
      /\ pc' = "consume"
      /\ UNCHANGED <<ring, cbr, stored, rx_offset, capr, skewed>>
  BY DEF HandleFrame, chip
<1>2. TypeOK /\ frame \in Header
  BY <1>1 DEF RxIInv, TypeOK
<1>3. TypeOK'
  <2>1. misled' \in BOOLEAN
    BY <1>1, Zenon
  <2>. QED
    BY <1>1, <1>2, <2>1 DEF TypeOK, Header
<1>4. ASSUME ~skewed
      PROVE  ~misled' /\ FramesOnly'
  <2>1. PICK n \in Nat : \E pos \in [0 .. n -> Nat], ser \in [0 .. n -> Serial] :
          Pending(n, pos, ser)
    BY <1>4 DEF RxIInv, FramesOnly
  <2>2. PICK pos \in [0 .. n -> Nat], ser \in [0 .. n -> Serial] :
          Pending(n, pos, ser)
    BY <2>1
  <2>3. n # 0 /\ handled = ser[0]
    BY <1>1, <2>2 DEF Pending
  <2>4. ser[1] = Succ(ser[0]) /\ frame = [serial |-> ser[1], size |-> pos[1]]
    BY <1>4, <2>2, <2>3, AtHeader
  <2>5. handled' = ser[1] /\ len' = pos[1] /\ frame.serial = Succ(handled)
    BY <1>1, <2>3, <2>4
  <2>6. ~misled'
    BY <1>1, <1>4, <2>5, Zenon DEF RxIInv
  <2>7. Pending(n, pos, ser)'
    BY <1>1, <2>2, <2>3, <2>5 DEF Pending, Ahead
  <2>. QED
    BY <2>6, <2>7 DEF FramesOnly
<1>. QED
  BY <1>1, <1>3, <1>4 DEF RxIInv, ReadPosition

(* Payload is read as a header only after a skew. *)
LEMMA PayloadSteps ==
  ASSUME RxIInv, HandlePayload \/ BadHeader
  PROVE  RxIInv'
<1>1. /\ pc = "read" /\ ring[rx_offset] = Payload
      /\ UNCHANGED <<ring, cbr, stored, rx_offset, capr, handled, skewed>>
      /\ len' \in BadSize \cup {len}
      /\ misled' \in {TRUE, misled}
      /\ pc' \in {"consume", "test"}
  BY DEF HandlePayload, BadHeader, chip
<1>2. TypeOK'
  BY <1>1 DEF RxIInv, TypeOK
<1>3. skewed
  <2>. SUFFICES ASSUME ~skewed PROVE FALSE
    OBVIOUS
  <2>1. PICK n \in Nat : \E pos \in [0 .. n -> Nat], ser \in [0 .. n -> Serial] :
          Pending(n, pos, ser)
    BY DEF RxIInv, FramesOnly
  <2>2. PICK pos \in [0 .. n -> Nat], ser \in [0 .. n -> Serial] :
          Pending(n, pos, ser)
    BY <2>1
  <2>3. n # 0
    BY <1>1, <2>2 DEF Pending
  <2>. QED
    BY <1>1, <2>2, <2>3, AtHeader
<1>. QED
  BY <1>1, <1>2, <1>3 DEF RxIInv

(* The driver goes on to the header behind the frame, and a CAPR that is not
   skewed tells the card so. *)
LEMMA ConsumeStep ==
  ASSUME RxIInv, Consume
  PROVE  RxIInv'
<1>1. /\ pc = "consume" /\ pc' = "test"
      /\ rx_offset' = NextOffset
      /\ capr' = IF NextOffset >= Lead THEN NextOffset - Lead ELSE 0
      /\ skewed' = (skewed \/ NextOffset < Lead)
      /\ UNCHANGED <<ring, cbr, stored, len, handled, misled>>
  BY DEF Consume, chip
<1>2. /\ TypeOK /\ rx_offset \in Place
      /\ RingSize \in Nat \ {0} /\ Lead \in Nat \ {0} /\ Lead < RingSize
  BY RingFacts DEF RxIInv, TypeOK
<1>3. len \in Nat /\ len < RingSize
  BY <1>2, RingFacts DEF TypeOK
<1>4. NextOffset = Ahead(rx_offset, len) /\ NextOffset \in Place
  <2>1. NextOffset = Ahead(rx_offset, len)
    BY <1>2, <1>3 DEF NextOffset, Ahead, Place
  <2>. QED
    BY <1>2, <1>3, <2>1, RingFacts
<1>5. skewed' \in BOOLEAN /\ (~skewed' => ~skewed /\ ~(NextOffset < Lead))
  BY <1>1, Zenon
<1>6. NextOffset \in Nat /\ NextOffset < RingSize
  BY <1>2, <1>4 DEF Place
<1>7. capr' \in Place
  BY <1>1, <1>2, <1>6 DEF Place
<1>8. TypeOK'
  BY <1>1, <1>2, <1>4, <1>5, <1>7 DEF TypeOK
<1>. HIDE DEF NextOffset
<1>9. ASSUME ~skewed'
      PROVE  ReadPosition' = rx_offset' /\ ~misled' /\ FramesOnly'
  <2>1. ~skewed /\ NextOffset >= Lead
    BY <1>2, <1>5, <1>6, <1>9
  <2>2. ReadPosition' = rx_offset'
    <3>1. capr' + Lead = NextOffset
      BY <1>1, <1>2, <1>6, <2>1
    <3>2. NextOffset % RingSize = NextOffset
      BY <1>2, <1>6, ModOnce
    <3>. QED
      BY <1>1, <3>1, <3>2 DEF ReadPosition
  <2>3. PICK n \in Nat : \E pos \in [0 .. n -> Nat], ser \in [0 .. n -> Serial] :
          Pending(n, pos, ser)
    BY <2>1 DEF RxIInv, FramesOnly
  <2>4. PICK pos \in [0 .. n -> Nat], ser \in [0 .. n -> Serial] :
          Pending(n, pos, ser)
    BY <2>3
  <2>5. n # 0 /\ len = pos[1] /\ handled = ser[1]
    BY <1>1, <2>4 DEF Pending
  <2>. DEFINE m == n - 1
  <2>6. /\ m \in Nat /\ m + 1 = n /\ m - 1 + 1 = m
        /\ \A i \in 0 .. m : i \in Nat /\ i + 1 \in 0 .. n /\ i + 1 \in 1 .. n
        /\ \A i \in 0 .. m - 1 : /\ i \in 0 .. m /\ i + 1 \in 0 .. m
                                 /\ i + 1 \in 0 .. n - 1
        /\ 0 \in 0 .. m /\ m \in 0 .. m /\ 1 \in 0 .. n /\ 0 + 1 = 1
        /\ \A i, j \in 0 .. m : i < j => i + 1 < j + 1
    BY <2>5
  <2>7. \A i \in 0 .. m : /\ pos[i + 1] \in Nat /\ pos[1] \in Nat
                          /\ pos[1] <= pos[i + 1] /\ pos[i + 1] < RingSize
    <3>. SUFFICES ASSUME NEW i \in 0 .. m
                  PROVE  /\ pos[i + 1] \in Nat /\ pos[1] \in Nat
                         /\ pos[1] <= pos[i + 1] /\ pos[i + 1] < RingSize
      OBVIOUS
    <3>1. i + 1 \in 0 .. n /\ 1 \in 0 .. n /\ (i + 1 = 1 \/ 1 < i + 1)
      BY <2>6
    <3>. QED
      BY <2>4, <3>1 DEF Pending
  <2>8. PICK pos2 \in [0 .. m -> Nat], ser2 \in [0 .. m -> Serial] :
          \A i \in 0 .. m : pos2[i] = pos[i + 1] - pos[1] /\ ser2[i] = ser[i + 1]
    <3>. DEFINE p2 == [i \in 0 .. m |-> pos[i + 1] - pos[1]]
                s2 == [i \in 0 .. m |-> ser[i + 1]]
    <3>1. p2 \in [0 .. m -> Nat]
      BY <2>7
    <3>2. s2 \in [0 .. m -> Serial]
      BY <2>6
    <3>3. \A i \in 0 .. m : p2[i] = pos[i + 1] - pos[1] /\ s2[i] = ser[i + 1]
      OBVIOUS
    <3>. HIDE DEF p2, s2
    <3>. QED
      BY <3>1, <3>2, <3>3
  <2>9. \A i \in 0 .. m : Ahead(NextOffset, pos2[i]) = Ahead(rx_offset, pos[i + 1])
    <3>. SUFFICES ASSUME NEW i \in 0 .. m
                  PROVE  Ahead(NextOffset, pos2[i]) = Ahead(rx_offset, pos[i + 1])
      OBVIOUS
    <3>1. Ahead(Ahead(rx_offset, pos[1]), pos[i + 1] - pos[1])
            = Ahead(rx_offset, pos[i + 1])
      BY <1>2, <2>7, AheadTwice
    <3>. QED
      BY <1>4, <2>5, <2>8, <3>1
  <2>10. \A i \in 0 .. m : pos2[i] < RingSize
    BY <1>2, <2>7, <2>8
  <2>11. ASSUME NEW i \in 0 .. m, NEW j \in 0 .. m, i < j
         PROVE  pos2[i] < pos2[j]
    <3>1. pos[i + 1] < pos[j + 1]
      BY <2>4, <2>6, <2>11 DEF Pending
    <3>2. /\ pos[i + 1] \in Nat /\ pos[j + 1] \in Nat /\ pos[1] \in Nat
          /\ pos2[i] = pos[i + 1] - pos[1] /\ pos2[j] = pos[j + 1] - pos[1]
      BY <2>7, <2>8
    <3>3. \A a, b, c \in Nat : a < b => a - c < b - c
      OBVIOUS
    <3>. QED
      BY <3>1, <3>2, <3>3, Zenon
  <2>12. ASSUME NEW i \in 0 .. m - 1
         PROVE  /\ ser2[i + 1] = Succ(ser2[i])
                /\ pos2[i + 1] - pos2[i] \in FrameSize
                /\ ring[Ahead(NextOffset, pos2[i])] =
                      [serial |-> ser2[i + 1], size |-> pos2[i + 1] - pos2[i]]
    <3>1. /\ i \in 0 .. m /\ i + 1 \in 0 .. m /\ i + 1 \in 0 .. n - 1
      BY <2>6
    <3>2. /\ ser[i + 1 + 1] = Succ(ser[i + 1])
          /\ pos[i + 1 + 1] - pos[i + 1] \in FrameSize
          /\ ring[Ahead(rx_offset, pos[i + 1])] =
                [serial |-> ser[i + 1 + 1], size |-> pos[i + 1 + 1] - pos[i + 1]]
      BY <2>4, <3>1 DEF Pending
    <3>3. /\ ser2[i] = ser[i + 1] /\ ser2[i + 1] = ser[i + 1 + 1]
          /\ pos2[i] = pos[i + 1] - pos[1] /\ pos2[i + 1] = pos[i + 1 + 1] - pos[1]
      BY <2>8, <3>1
    <3>4. pos[i + 1] \in Nat /\ pos[i + 1 + 1] \in Nat /\ pos[1] \in Nat
      BY <2>7, <3>1
    <3>5. pos2[i + 1] - pos2[i] = pos[i + 1 + 1] - pos[i + 1]
      BY <3>3, <3>4
    <3>6. Ahead(NextOffset, pos2[i]) = Ahead(rx_offset, pos[i + 1])
      BY <2>9, <3>1
    <3>. QED
      BY <3>2, <3>3, <3>5, <3>6
  <2>13. Pending(m, pos2, ser2)'
    <3>1. pos2[0] = 0 /\ ser2[0] = ser[1]
      BY <2>6, <2>7, <2>8
    <3>2. cbr = Ahead(NextOffset, pos2[m]) /\ stored = ser2[m]
      BY <2>4, <2>6, <2>8, <2>9 DEF Pending
    <3>. HIDE DEF m
    <3>. QED
      BY <1>1, <2>5, <2>10, <2>11, <2>12, <3>1, <3>2 DEF Pending, Ahead
  <2>14. ~misled'
    BY <1>1, <2>1 DEF RxIInv
  <2>15. FramesOnly'
    <3>. HIDE DEF m
    <3>. QED
      BY <2>6, <2>13 DEF FramesOnly
  <2>. QED
    BY <2>2, <2>14, <2>15
<1>. QED
  BY <1>8, <1>9 DEF RxIInv

LEMMA RxInvariance == Spec => []RxIInv
<1>1. RxIInv /\ [Next]_vars => RxIInv'
  <2>. SUFFICES ASSUME RxIInv, [Next]_vars PROVE RxIInv'
    OBVIOUS
  <2>1. CASE UNCHANGED vars
    <3>1. TypeOK'
      BY <2>1 DEF vars, RxIInv, TypeOK
    <3>2. ASSUME NEW n, NEW pos, NEW ser, Pending(n, pos, ser)
          PROVE  Pending(n, pos, ser)'
      BY <2>1, <3>2 DEF vars, Pending, Ahead
    <3>3. FramesOnly => FramesOnly'
      BY <3>2, Zenon DEF FramesOnly
    <3>. QED
      BY <2>1, <3>1, <3>3 DEF vars, RxIInv, ReadPosition
  <2>2. CASE \E n \in FrameSize : Receive(n)
    BY <2>2, ReceiveStep
  <2>3. CASE Poll
    BY <2>1, <2>3, PollNotEmptyStep, HandleFrameStep, PayloadSteps, ConsumeStep
       DEF Poll, PollEmpty
  <2>. QED
    BY <2>1, <2>2, <2>3 DEF Next
<1>. QED
  BY <1>1, InitRx, PTL DEF Spec

(* The driver never leaves the ring, whatever it takes for a frame. *)
THEOREM RxTypeCorrect == Spec => []TypeOK
<1>1. RxIInv => TypeOK
  BY DEF RxIInv
<1>. QED
  BY <1>1, RxInvariance, PTL

(* Until a frame ends in the first 16 bytes of the ring, the driver handles the
   frames that the card stored, each once and in their order, and none of them
   is overwritten before. *)
THEOREM InOrder == Spec => []InOrderUntilSkewed
<1>1. RxIInv => InOrderUntilSkewed
  BY DEF RxIInv, InOrderUntilSkewed
<1>. QED
  BY <1>1, RxInvariance, PTL

(* Until CAPR is skewed, what the card reports as an empty ring has been handled
   to the last frame, and where the driver reads there is the header of one:
   poll returns neither early nor at a frame it does not understand. *)
NoFrameLeftBehind ==
  ~skewed => /\ pc = "test" /\ RxEmpty => handled = stored
             /\ pc = "read" => ring[rx_offset] \in Header

(* By the chain of frames: an empty chain has no frame that is stored and not
   handled, and one that is not empty begins at the driver's offset. *)
THEOREM NoneLeftBehind == Spec => []NoFrameLeftBehind
<1>1. RxIInv => NoFrameLeftBehind
  <2>. SUFFICES ASSUME RxIInv, ~skewed PROVE NoFrameLeftBehind
    BY DEF NoFrameLeftBehind
  <2>1. PICK n \in Nat : \E pos \in [0 .. n -> Nat], ser \in [0 .. n -> Serial] :
          Pending(n, pos, ser)
    BY DEF RxIInv, FramesOnly
  <2>2. PICK pos \in [0 .. n -> Nat], ser \in [0 .. n -> Serial] :
          Pending(n, pos, ser)
    BY <2>1
  <2>3. rx_offset \in Place /\ ReadPosition = rx_offset
    BY DEF RxIInv, TypeOK
  <2>4. ASSUME pc = "test", RxEmpty PROVE handled = stored
    <3>1. cbr = Ahead(rx_offset, pos[n]) /\ cbr = rx_offset
      <4>1. cbr = rx_offset
        BY <2>3, <2>4 DEF RxEmpty
      <4>. QED
        BY <2>2, <4>1, Zenon DEF Pending
    <3>2. pos[n] \in Nat /\ pos[n] < RingSize
      BY <2>2 DEF Pending
    <3>3. pos[n] = 0
      BY <2>3, <3>1, <3>2, RingFacts
    <3>4. n = 0
      <4>1. n # 0 => 0 \in 0 .. n /\ n \in 0 .. n /\ 0 < n
        BY <2>2
      <4>. QED
        BY <2>2, <3>3, <4>1 DEF Pending
    <3>. QED
      BY <2>2, <2>4, <3>4 DEF Pending
  <2>5. ASSUME pc = "read" PROVE ring[rx_offset] \in Header
    <3>1. n # 0 /\ 0 \in 0 .. n - 1 /\ 0 + 1 \in 0 .. n /\ 0 + 1 = 1
      BY <2>2, <2>5 DEF Pending
    <3>2. /\ pos[0] = 0 /\ pos[1] - pos[0] \in FrameSize /\ ser[1] \in Serial
          /\ ring[Ahead(rx_offset, pos[0])] =
               [serial |-> ser[1], size |-> pos[1] - pos[0]]
      BY <2>2, <3>1 DEF Pending
    <3>. QED
      BY <2>3, <3>2, RingFacts DEF Header
  <2>. QED
    BY <2>4, <2>5 DEF NoFrameLeftBehind
<1>. QED
  BY <1>1, RxInvariance, PTL

(* How much of the ring lies between the driver and the card. *)
Backlog == (cbr + RingSize - rx_offset) % RingSize

(* As long as nothing arrives, poll empties the ring: each frame it consumes
   takes its length from the backlog, and no other step of it adds any.  This
   is what EveryFrameHandled asks of the driver. *)
PollDrains ==
  [][Poll /\ ~skewed =>
       IF pc = "consume" THEN 0 < len /\ Backlog' + len = Backlog
                         ELSE Backlog' = Backlog]_vars

LEMMA BacklogIs ==
  ASSUME NEW o \in Place, NEW d \in Nat, d < RingSize
  PROVE  (Ahead(o, d) + RingSize - o) % RingSize = d
<1>1. RingSize \in Nat \ {0} /\ o \in Nat /\ o < RingSize
  BY RtlAssumption DEF Place
<1>2. CASE o + d < RingSize
  <2>1. Ahead(o, d) + RingSize - o = d + RingSize
    BY <1>1, <1>2 DEF Ahead
  <2>2. d + RingSize \in Nat /\ d + RingSize < 2 * RingSize
        /\ ~(d + RingSize < RingSize) /\ (d + RingSize) - RingSize = d
    BY <1>1
  <2>3. (d + RingSize) % RingSize = d
    BY <1>1, <2>2, ModOnce
  <2>. QED
    BY <2>1, <2>3
<1>3. CASE ~(o + d < RingSize)
  <2>1. Ahead(o, d) + RingSize - o = d
    BY <1>1, <1>3 DEF Ahead
  <2>2. d % RingSize = d
    BY <1>1, ModOnce
  <2>. QED
    BY <2>1, <2>2
<1>. QED
  BY <1>2, <1>3

(* Every step of the driver that moves on leaves as much less of the chain as the
   frame at its head is long. *)
THEOREM DrainsRing == Spec => PollDrains
<1>1. RxIInv /\ [Next]_vars =>
        [Poll /\ ~skewed =>
           IF pc = "consume" THEN 0 < len /\ Backlog' + len = Backlog
                             ELSE Backlog' = Backlog]_vars
  <2>. SUFFICES ASSUME RxIInv, Poll, ~skewed
                PROVE  IF pc = "consume" THEN 0 < len /\ Backlog' + len = Backlog
                                         ELSE Backlog' = Backlog
    OBVIOUS
  <2>1. CASE pc # "consume"
    BY <2>1 DEF Poll, PollEmpty, PollNotEmpty, HandleFrame, HandlePayload, BadHeader,
                Consume, chip, vars, Backlog
  <2>2. CASE pc = "consume"
    <3>1. Consume
      BY <2>2 DEF Poll, PollEmpty, PollNotEmpty, HandleFrame, HandlePayload, BadHeader
    <3>2. PICK n \in Nat : \E pos \in [0 .. n -> Nat], ser \in [0 .. n -> Serial] :
            Pending(n, pos, ser)
      BY DEF RxIInv, FramesOnly
    <3>3. PICK pos \in [0 .. n -> Nat], ser \in [0 .. n -> Serial] :
            Pending(n, pos, ser)
      BY <3>2
    <3>4. /\ n # 0 /\ 0 \in 0 .. n /\ 1 \in 0 .. n /\ n \in 0 .. n
          /\ 0 \in 0 .. n - 1 /\ 0 + 1 = 1 /\ (n = 1 \/ 1 < n)
      BY <2>2, <3>3 DEF Pending
    <3>5. /\ pos[0] = 0 /\ pos[1] \in Nat /\ pos[n] \in Nat
          /\ pos[0] < pos[1] /\ pos[1] <= pos[n] /\ pos[n] < RingSize
          /\ len = pos[1] /\ cbr = Ahead(rx_offset, pos[n])
      BY <2>2, <3>3, <3>4 DEF Pending
    <3>6. PICK o, a, b : o = rx_offset /\ a = pos[1] /\ b = pos[n]
      OBVIOUS
    <3>7. /\ o \in Place /\ a \in Nat /\ b \in Nat /\ 0 < a /\ a <= b
          /\ b < RingSize /\ a < RingSize /\ b - a \in Nat /\ b - a < RingSize
      BY <3>5, <3>6, RtlAssumption DEF RxIInv, TypeOK
    <3>8. rx_offset' = Ahead(o, a) /\ cbr' = Ahead(o, b) /\ Ahead(o, a) \in Place
      <4>1. rx_offset' = NextOffset /\ cbr' = cbr
        BY <3>1 DEF Consume, chip
      <4>2. NextOffset = Ahead(o, a)
        BY <3>5, <3>6, <3>7, RtlAssumption DEF NextOffset, Ahead, Place
      <4>. QED
        BY <3>5, <3>6, <3>7, <4>1, <4>2, RingFacts
    <3>9. Ahead(Ahead(o, a), b - a) = Ahead(o, b)
      BY <3>7, AheadTwice
    <3>10. Backlog = b
      BY <3>5, <3>6, <3>7, BacklogIs DEF Backlog
    <3>11. Backlog' = b - a
      BY <3>7, <3>8, <3>9, BacklogIs DEF Backlog
    <3>. QED
      BY <2>2, <3>5, <3>6, <3>7, <3>10, <3>11
  <2>. QED
    BY <2>1, <2>2
<1>. QED
  BY <1>1, RxInvariance, PTL DEF Spec, PollDrains

(* What CAPR costs when it is written as 0 in the lead: where the driver has
   then read all there is, the card takes the ring for one that is not empty and
   that has no room for any frame.  It drops what arrives, and the driver goes
   on to read where nothing was stored.  The run rtl8139_capr shows one such
   ring; this is every one. *)
LeadIsTrap ==
  [][Consume /\ rx_offset' < Lead /\ cbr = rx_offset' =>
       ~RxEmpty' /\ \A n \in FrameSize : ~(n < Room')]_vars

(* The card reads at the end of the lead, which is not where it writes, and what
   lies between the two is shorter than the lead. *)
THEOREM EmptiedInTheLead == Spec => LeadIsTrap
<1>1. TypeOK /\ [Next]_vars =>
        [Consume /\ rx_offset' < Lead /\ cbr = rx_offset' =>
           ~RxEmpty' /\ \A n \in FrameSize : ~(n < Room')]_vars
  <2>. SUFFICES ASSUME TypeOK, Consume, rx_offset' < Lead, cbr = rx_offset'
                PROVE  ~RxEmpty' /\ \A n \in FrameSize : ~(n < Room')
    OBVIOUS
  <2>1. /\ RingSize \in Nat /\ Lead \in Nat /\ Lead < RingSize
        /\ cbr \in Nat /\ cbr < Lead /\ cbr' = cbr /\ capr' = 0
    BY RtlAssumption DEF TypeOK, Place, Consume, chip
  <2>2. ReadPosition' = Lead
    <3>1. (0 + Lead) % RingSize = Lead
      BY <2>1, ModOnce
    <3>. QED
      BY <2>1, <3>1 DEF ReadPosition
  <2>3. Room' = Lead - cbr
    <3>. DEFINE d == Lead - cbr
    <3>1. d \in Nat /\ d < RingSize
      <4>1. \A c, l, size \in Nat : c < l /\ l < size => l - c \in Nat /\ l - c < size
        OBVIOUS
      <4>. QED
        BY <2>1, <4>1
    <3>2. /\ d + RingSize \in Nat /\ d + RingSize < 2 * RingSize
          /\ ~(d + RingSize < RingSize) /\ (d + RingSize) - RingSize = d
          /\ RingSize \in Nat \ {0}
      <4>. HIDE DEF d
      <4>1. RingSize \in Nat /\ 0 < RingSize
        BY <3>1, RtlAssumption
      <4>. QED
        BY <3>1, <4>1
    <3>3. (d + RingSize) % RingSize = d
      <4>. HIDE DEF d
      <4>. QED
        BY <3>2, ModOnce
    <3>4. Lead + RingSize - cbr = d + RingSize
      BY <2>1
    <3>. QED
      BY <2>1, <2>2, <3>1, <3>3, <3>4 DEF Room
  <2>4. \A n \in FrameSize : n \in Nat /\ Lead < n
    BY RtlAssumption
  <2>. QED
    BY <2>1, <2>2, <2>3, <2>4 DEF RxEmpty
<1>. QED
  BY <1>1, RxTypeCorrect, PTL DEF Spec, LeadIsTrap
=============================================================================
