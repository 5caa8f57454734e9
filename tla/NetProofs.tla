----------------------------- MODULE NetProofs -----------------------------
(***************************************************************************)
(* What the network stack sends, and to whom, for every set of addresses   *)
(* and every size of the ring.  The invariant follows the gateway's        *)
(* address along the wire: every answer under way or in the ring carries   *)
(* an address that some gateway has had.                                   *)
(***************************************************************************)
EXTENDS Net, TLAPS, SequenceTheorems

(* A frame that net_handle_packet would believe tells the truth. *)
Truthful(frame) == IsGatewayReply(frame) => frame.sender_mac \in history

WireInv ==
  /\ asking \in BOOLEAN
  /\ current \in history /\ history \subseteq GatewayMac
  /\ inbound \subseteq Frame /\ \A frame \in inbound : Truthful(frame)

RingInv ==
  /\ rx \in Seq(Frame) /\ Len(rx) <= RxSize
  /\ \A k \in 1 .. Len(rx) : Truthful(rx[k])

StackInv ==
  /\ gateway_mac \in Mac \cup {NoMac}
  /\ gateway_mac_ready \in BOOLEAN
  /\ gateway_mac_ready => gateway_mac \in history /\ pending = {}
  /\ pending \subseteq Kind /\ owed = pending
  /\ pc \in {"poll", "shell"} /\ has_nic \in BOOLEAN
  /\ sent \subseteq [kind : Kind, dst : history]

IInv == WireInv /\ RingInv /\ StackInv

-----------------------------------------------------------------------------
(* Addresses stay in the history. *)
LEMMA HistoryGrows ==
  ASSUME Next
  PROVE  history \subseteq history'
  BY DEF Next, Main, net_ping_qemu_gateway, net_udp_test, Ask, OtherCommand,
     PollFrame, PollEmpty, Wire, GatewayAnswers, DeliverReply, DeliverNoise,
     Deliver, Lose, ReplaceGateway, wire

LEMMA InitIInv == Init => IInv
<1>. SUFFICES ASSUME Init PROVE IInv
  OBVIOUS
<1>1. WireInv
  BY NetAssumption DEF Init, WireInv
<1>2. RingInv
  <2>1. rx = <<>> /\ rx \in Seq(Frame) /\ Len(rx) = 0
    BY EmptySeq DEF Init
  <2>. QED
    BY <2>1, NetAssumption DEF RingInv
<1>3. StackInv
  BY DEF Init, StackInv
<1>. QED
  BY <1>1, <1>2, <1>3 DEF IInv

LEMMA AskKeeps ==
  ASSUME IInv, NEW kind \in Kind, Ask(kind)
  PROVE  IInv'
<1>1. UNCHANGED <<rx, history, inbound, current>> /\ asking' \in BOOLEAN
  BY DEF Ask, send_arp_request, IInv, WireInv, StackInv
<1>2. WireInv' /\ RingInv'
  BY <1>1 DEF IInv, WireInv, RingInv, Truthful
<1>3. StackInv'
  <2>1. CASE gateway_mac_ready
    BY <1>1, <2>1 DEF IInv, StackInv, Ask, send_arp_request
  <2>2. CASE ~gateway_mac_ready
    BY <1>1, <2>2 DEF IInv, StackInv, Ask, send_arp_request
  <2>. QED
    BY <2>1, <2>2
<1>. QED
  BY <1>2, <1>3 DEF IInv

(* The head of the ring is truthful, so the address it carries may be sent to. *)
LEMMA PollFrameKeeps ==
  ASSUME IInv, PollFrame
  PROVE  IInv'
<1>. DEFINE frame == Head(rx)
<1>1. UNCHANGED <<pc, has_nic, history, inbound, current, asking>>
  BY DEF PollFrame, wire
<1>2. rx \in Seq(Frame) /\ rx # <<>> /\ rx' = Tail(rx)
  BY DEF PollFrame, IInv, RingInv
<1>3. /\ frame \in Frame /\ rx' \in Seq(Frame) /\ Len(rx') = Len(rx) - 1
      /\ \A k \in 1 .. Len(rx') : rx'[k] = rx[k + 1]
  BY <1>2, HeadTailProperties
<1>4. Len(rx) \in Nat /\ Len(rx) >= 1 /\ frame = rx[1]
  BY <1>2, EmptySeq
<1>5. Truthful(frame)
  BY <1>4 DEF IInv, RingInv
<1>6. RingInv'
  <2>1. Len(rx') <= RxSize
    BY <1>3, <1>4, NetAssumption DEF IInv, RingInv
  <2>2. \A k \in 1 .. Len(rx') : Truthful(rx[k + 1])
    BY <1>3, <1>4 DEF IInv, RingInv
  <2>. QED
    BY <1>1, <1>3, <2>1, <2>2 DEF RingInv, Truthful
<1>7. WireInv'
  BY <1>1 DEF IInv, WireInv, Truthful
<1>8. StackInv'
  <2>. HIDE DEF frame
  <2>1. CASE IsGatewayReply(frame)
    <3>1. frame.sender_mac \in history
      BY <1>5, <2>1 DEF Truthful
    <3>2. frame.sender_mac \in Mac
      BY <3>1, NetAssumption DEF IInv, WireInv
    <3>. QED
      BY <1>1, <2>1, <3>1, <3>2
         DEF IInv, StackInv, PollFrame, net_handle_packet, Send, frame
  <2>2. CASE ~IsGatewayReply(frame)
    BY <1>1, <2>2 DEF IInv, StackInv, PollFrame, net_handle_packet, Send, frame
  <2>. QED
    BY <2>1, <2>2
<1>. QED
  BY <1>6, <1>7, <1>8 DEF IInv

(* Appending a truthful frame to the ring keeps the ring truthful. *)
LEMMA Append_Keeps ==
  ASSUME RingInv, NEW frame \in Frame, Truthful(frame), Len(rx) < RxSize,
         rx' = Append(rx, frame), UNCHANGED history
  PROVE  RingInv'
<1>1. /\ rx' \in Seq(Frame) /\ Len(rx') = Len(rx) + 1
      /\ \A k \in 1 .. Len(rx) : rx'[k] = rx[k]
      /\ rx'[Len(rx) + 1] = frame
  BY AppendProperties DEF RingInv
<1>2. Len(rx) \in Nat
  BY EmptySeq DEF RingInv
<1>3. \A k \in 1 .. Len(rx') : k \in 1 .. Len(rx) \/ k = Len(rx) + 1
  BY <1>1, <1>2
<1>4. \A k \in 1 .. Len(rx') : Truthful(rx'[k])
  BY <1>1, <1>3 DEF RingInv
<1>. QED
  BY <1>1, <1>2, <1>4, NetAssumption DEF RingInv, Truthful

LEMMA WireKeeps ==
  ASSUME IInv, Wire
  PROVE  IInv'
<1>. USE DEF IInv
<1>1. StackInv'
  <2>1. history \subseteq history'
    BY HistoryGrows DEF Next
  <2>2. UNCHANGED <<stack, owed>> /\ sent' = {}
    BY DEF Wire, GatewayAnswers, DeliverReply, DeliverNoise, Deliver, Lose,
       ReplaceGateway
  <2>. QED
    BY <2>1, <2>2 DEF StackInv, stack
<1>2. CASE GatewayAnswers
  <2>1. Reply \in Frame /\ Reply.sender_mac = current
    BY NetAssumption DEF Reply, Frame, Arp, WireInv
  <2>. HIDE DEF IInv
  <2>2. WireInv'
    BY <1>2, <2>1 DEF IInv, GatewayAnswers, WireInv, Truthful
  <2>3. RingInv'
    BY <1>2 DEF IInv, GatewayAnswers, RingInv, Truthful
  <2>. QED
    BY <1>1, <2>2, <2>3 DEF IInv
<1>3. ASSUME NEW frame \in inbound, Deliver(frame)
      PROVE  IInv'
  <2>1. WireInv'
    BY <1>3 DEF Deliver, WireInv, Truthful
  <2>2. RingInv'
    BY <1>3, Append_Keeps DEF Deliver, WireInv
  <2>. QED
    BY <1>1, <2>1, <2>2
<1>4. CASE DeliverNoise
  <2>1. PICK frame \in Noise : rx' = Append(rx, frame) /\ Len(rx) < RxSize
    BY <1>4 DEF DeliverNoise
  <2>2. frame \in Frame /\ Truthful(frame)
    BY NetAssumption DEF Truthful
  <2>3. UNCHANGED wire
    BY <1>4 DEF DeliverNoise
  <2>4. RingInv'
    BY <2>1, <2>2, <2>3, Append_Keeps DEF wire
  <2>5. WireInv'
    BY <2>3 DEF WireInv, Truthful, wire
  <2>. QED
    BY <1>1, <2>4, <2>5
<1>5. CASE Lose
  <2>1. WireInv'
    BY <1>5 DEF Lose, WireInv, Truthful
  <2>2. RingInv'
    BY <1>5 DEF Lose, RingInv, Truthful
  <2>. QED
    BY <1>1, <2>1, <2>2
<1>6. CASE ReplaceGateway
  <2>1. WireInv'
    BY <1>6 DEF ReplaceGateway, WireInv, Truthful
  <2>2. RingInv'
    BY <1>6 DEF ReplaceGateway, RingInv, Truthful
  <2>. QED
    BY <1>1, <2>1, <2>2
<1>. QED
  BY <1>2, <1>3, <1>4, <1>5, <1>6 DEF Wire, DeliverReply

LEMMA IdleKeeps ==
  ASSUME IInv, OtherCommand \/ PollEmpty
  PROVE  IInv'
  BY DEF IInv, OtherCommand, PollEmpty, WireInv, RingInv, StackInv, Truthful, wire

LEMMA Invariance == Spec => []IInv
<1>1. Init => IInv
  BY InitIInv
<1>2. IInv /\ [Next]_vars => IInv'
  <2>1. IInv /\ UNCHANGED vars => IInv'
    BY DEF vars, IInv, WireInv, RingInv, StackInv, Truthful
  <2>2. IInv /\ Main => IInv'
    BY AskKeeps, IdleKeeps, PollFrameKeeps
       DEF Main, net_ping_qemu_gateway, net_udp_test, Kind
  <2>. QED
    BY <2>1, <2>2, WireKeeps DEF Next
<1>. QED
  BY <1>1, <1>2, PTL DEF Spec

-----------------------------------------------------------------------------
(* The variables keep their types. *)
THEOREM TypeCorrect == Spec => []TypeOK
<1>1. IInv => TypeOK
  BY NetAssumption DEF IInv, WireInv, RingInv, StackInv, TypeOK, Packet
<1>. QED
  BY <1>1, Invariance, PTL

(* Nothing is sent to an address that no gateway has had. *)
THEOREM OnlyToGateway == Spec => []SentToGateway
<1>1. IInv => SentToGateway
  BY DEF IInv, StackInv, SentToGateway
<1>. QED
  BY <1>1, Invariance, PTL

(* A command's packet is pending until it is sent. *)
THEOREM CommandsAreKept == Spec => []NothingForgotten
<1>1. IInv => NothingForgotten
  BY DEF IInv, StackInv, NothingForgotten
<1>. QED
  BY <1>1, Invariance, PTL

(* No packet is sent twice for one command, however often and however late
   the gateway's answers come. *)
THEOREM SendsAreAsked == Spec => NoUnaskedSend
<1>. DEFINE Asked == \A packet \in sent' : packet.kind \in owed \/ Ask(packet.kind)
<1>1. IInv /\ [Next]_vars => [Asked]_vars
  <2>. SUFFICES ASSUME IInv, Next PROVE Asked
    OBVIOUS
  <2>1. owed = pending
    BY DEF IInv, StackInv
  <2>2. ASSUME NEW kind \in Kind, Ask(kind) PROVE Asked
    <3>1. \/ sent' = {}
          \/ sent' = [kind : pending \cup {kind}, dst : {gateway_mac}]
      BY <2>2 DEF Ask
    <3>2. \A packet \in [kind : pending \cup {kind}, dst : {gateway_mac}] :
            packet.kind \in owed \/ packet.kind = kind
      BY <2>1
    <3>. QED
      BY <2>2, <3>1, <3>2
  <2>3. CASE PollFrame
    <3>1. \/ sent' = [kind : pending, dst : {Head(rx).sender_mac}]
          \/ sent' = [kind : {}, dst : {NoMac}]
      BY <2>3, Zenon DEF PollFrame, net_handle_packet, Send
    <3>2. \A mac : \A packet \in [kind : pending, dst : {mac}] :
            packet.kind \in owed
      BY <2>1
    <3>3. \A packet \in [kind : {}, dst : {NoMac}] : FALSE
      OBVIOUS
    <3>. QED
      BY <3>1, <3>2, <3>3
  <2>4. CASE OtherCommand \/ PollEmpty \/ Wire
    BY <2>4 DEF OtherCommand, PollEmpty, Wire, GatewayAnswers, DeliverReply,
       DeliverNoise, Deliver, Lose, ReplaceGateway
  <2>. QED
    BY <2>2, <2>3, <2>4 DEF Next, Main, net_ping_qemu_gateway, net_udp_test, Kind
<1>. QED
  BY <1>1, Invariance, PTL DEF Spec, NoUnaskedSend
=============================================================================
