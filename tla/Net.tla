-------------------------------- MODULE Net --------------------------------
(***************************************************************************)
(* The network stack, src/src/network/net.c: the ping and udp commands     *)
(* need the gateway's hardware address, ask for it with one ARP request    *)
(* and remember what they have to send until the answer comes.  There is   *)
(* no timer: only the next command asks again.                             *)
(*                                                                         *)
(* The main loop alternates between rtl8139_poll, which handles every      *)
(* received frame, and the shell.  Everything beyond the ring of received  *)
(* frames is an environment: a gateway that answers and that can be        *)
(* replaced by one with another address, other hosts, and a wire that      *)
(* loses, delays, reorders and duplicates frames.                          *)
(***************************************************************************)
EXTENDS Naturals, SequencesExt

CONSTANTS
  Mac,         \* hardware addresses
  GatewayMac,  \* those the gateway's interfaces have
  NoMac,       \* what gateway_mac holds before anything is copied into it
  Noise,       \* what else arrives on the wire
  RxSize       \* bound of the model: received frames the ring holds

Kind == {"icmp", "udp"}

(* An ARP frame: opcode, protocol addresses, sender hardware address, and
   whether it has its 42 bytes. *)
Arp == [op : {"request", "reply"}, sender_ip : {"gateway", "host"},
        target_ip : {"local", "host"}, sender_mac : Mac, complete : BOOLEAN]

(* A frame that carries an IPv4 packet or anything else: net_handle_packet
   prints a line or nothing. *)
OtherFrame == [op : {"ipv4", "unknown"}]

Frame == Arp \cup OtherFrame

(* What net_handle_packet takes for the gateway's answer. *)
IsGatewayReply(frame) ==
  /\ frame.op = "reply"
  /\ frame.complete
  /\ frame.sender_ip = "gateway"
  /\ frame.target_ip = "local"

ASSUME NetAssumption ==
  /\ GatewayMac \subseteq Mac /\ GatewayMac # {}
  /\ NoMac \notin Mac
  /\ Noise \subseteq Frame
  /\ \A frame \in Noise : ~IsGatewayReply(frame)
  /\ RxSize \in Nat \ {0}

VARIABLES
  gateway_mac, gateway_mac_ready,
  pending,     \* the kinds whose pending_ flag is set
  pc,          \* where the main loop is: "poll" or "shell"
  has_nic,     \* io_base # 0: rtl8139_init found a card
  rx,          \* the received frames, oldest first
  sent,        \* the packets the last step sent to the gateway
  owed,        \* the kinds asked for since a packet of theirs was last sent
  asking,      \* an ARP request is on its way to the gateway
  inbound,     \* the frames on their way to us
  current,     \* the address of the gateway in service
  history      \* the addresses that gateways in service have had

stack == <<gateway_mac, gateway_mac_ready, pending, pc, has_nic>>
wire  == <<asking, inbound, current, history>>
vars  == <<gateway_mac, gateway_mac_ready, pending, pc, has_nic, rx, sent, owed,
           asking, inbound, current, history>>

-----------------------------------------------------------------------------
(* The stack. *)

(* send_icmp_echo and send_udp_packet for the kinds given. *)
Send(kinds, mac) ==
  /\ sent' = [kind : kinds, dst : {mac}]
  /\ owed' = owed \ kinds

send_arp_request == asking' = (asking \/ has_nic)

(* Mutants of Ask: the packet is sent although the address is unknown, a command
   forgets what the one before it left pending, and the address is not asked for
   again while something is pending. *)
AskWithoutAddress(kind) ==
  /\ pc = "shell"
  /\ pc' = "poll"
  /\ pending' = {}
  /\ sent' = [kind : pending \cup {kind}, dst : {gateway_mac}]
  /\ owed' = {}
  /\ UNCHANGED <<gateway_mac, gateway_mac_ready, has_nic, rx, wire>>

AskForgetting(kind) ==
  /\ pc = "shell"
  /\ pc' = "poll"
  /\ \/ /\ gateway_mac_ready
        /\ pending' = {}
        /\ sent' = [kind : {kind}, dst : {gateway_mac}]
        /\ owed' = owed \ {kind}
        /\ UNCHANGED asking
     \/ /\ ~gateway_mac_ready
        /\ pending' = {kind}
        /\ sent' = {}
        /\ owed' = owed \cup {kind}
        /\ send_arp_request
  /\ UNCHANGED <<gateway_mac, gateway_mac_ready, has_nic, rx,
                 inbound, current, history>>

AskOnce(kind) ==
  /\ pc = "shell"
  /\ pc' = "poll"
  /\ ~gateway_mac_ready
  /\ pending' = pending \cup {kind}
  /\ sent' = {}
  /\ owed' = owed \cup {kind}
  /\ IF pending = {} THEN send_arp_request ELSE UNCHANGED asking
  /\ UNCHANGED <<gateway_mac, gateway_mac_ready, has_nic, rx,
                 inbound, current, history>>

(* request_gateway_mac: the flag of the command joins what is pending; a known
   address sends all of it now. *)
Ask(kind) ==
  LET wanted == pending \cup {kind}
  IN  /\ pc = "shell"
      /\ pc' = "poll"
      /\ \/ /\ gateway_mac_ready
            /\ pending' = {}
            /\ sent' = [kind : wanted, dst : {gateway_mac}]
            /\ owed' = (owed \cup {kind}) \ wanted
            /\ UNCHANGED asking
         \/ /\ ~gateway_mac_ready
            /\ pending' = wanted
            /\ sent' = {}
            /\ owed' = owed \cup {kind}
            /\ send_arp_request
      /\ UNCHANGED <<gateway_mac, gateway_mac_ready, has_nic, rx,
                     inbound, current, history>>

net_ping_qemu_gateway == Ask("icmp")
net_udp_test == Ask("udp")

(* The shell has no network command to execute. *)
OtherCommand ==
  /\ pc = "shell"
  /\ pc' = "poll"
  /\ sent' = {}
  /\ UNCHANGED <<gateway_mac, gateway_mac_ready, pending, has_nic, rx, owed, wire>>

(* Mutants of net_handle_packet: the sender's protocol address is not compared,
   and the flags of what was sent are not reset. *)
net_handle_packet_of_anyone(frame) ==
  \/ /\ frame.op = "reply" /\ frame.complete /\ frame.target_ip = "local"
     /\ gateway_mac' = frame.sender_mac
     /\ gateway_mac_ready' = TRUE
     /\ pending' = {}
     /\ Send(pending, frame.sender_mac)
  \/ /\ ~(frame.op = "reply" /\ frame.complete /\ frame.target_ip = "local")
     /\ Send({}, NoMac)
     /\ UNCHANGED <<gateway_mac, gateway_mac_ready, pending>>

net_handle_packet_resending(frame) ==
  \/ /\ IsGatewayReply(frame)
     /\ gateway_mac' = frame.sender_mac
     /\ gateway_mac_ready' = TRUE
     /\ Send(pending, frame.sender_mac)
     /\ UNCHANGED pending
  \/ /\ ~IsGatewayReply(frame)
     /\ Send({}, NoMac)
     /\ UNCHANGED <<gateway_mac, gateway_mac_ready, pending>>

(* The address is copied before what waits for it is sent. *)
net_handle_packet(frame) ==
  \/ /\ IsGatewayReply(frame)
     /\ gateway_mac' = frame.sender_mac
     /\ gateway_mac_ready' = TRUE
     /\ pending' = {}
     /\ Send(pending, frame.sender_mac)
  \/ /\ ~IsGatewayReply(frame)
     /\ Send({}, NoMac)
     /\ UNCHANGED <<gateway_mac, gateway_mac_ready, pending>>

(* rtl8139_poll handles frames until the ring is empty. *)
PollFrame ==
  /\ pc = "poll" /\ has_nic /\ rx # <<>>
  /\ net_handle_packet(Head(rx))
  /\ rx' = Tail(rx)
  /\ UNCHANGED <<pc, has_nic, wire>>

PollEmpty ==
  /\ pc = "poll" /\ (rx = <<>> \/ ~has_nic)
  /\ pc' = "shell"
  /\ sent' = {}
  /\ UNCHANGED <<gateway_mac, gateway_mac_ready, pending, has_nic, rx, owed, wire>>

Main ==
  \/ net_ping_qemu_gateway \/ net_udp_test \/ OtherCommand
  \/ PollFrame \/ PollEmpty

-----------------------------------------------------------------------------
(* The environment. *)

Reply == [op |-> "reply", sender_ip |-> "gateway", target_ip |-> "local",
          sender_mac |-> current, complete |-> TRUE]

(* The request may stay for another answer: a frame can be duplicated. *)
GatewayAnswers ==
  /\ asking
  /\ inbound' = inbound \cup {Reply}
  /\ asking' \in BOOLEAN
  /\ sent' = {}
  /\ UNCHANGED <<stack, rx, owed, current, history>>

(* A frame for which the ring has no room is lost; one that arrives may arrive
   again. *)
Deliver(frame) ==
  /\ has_nic /\ Len(rx) < RxSize
  /\ frame \in inbound
  /\ rx' = Append(rx, frame)
  /\ inbound' \in {inbound, inbound \ {frame}}
  /\ sent' = {}
  /\ UNCHANGED <<stack, owed, asking, current, history>>

DeliverReply == \E frame \in inbound : IsGatewayReply(frame) /\ Deliver(frame)

DeliverNoise ==
  \E frame \in Noise :
    /\ has_nic /\ Len(rx) < RxSize
    /\ rx' = Append(rx, frame)
    /\ sent' = {}
    /\ UNCHANGED <<stack, owed, wire>>

Lose ==
  /\ \/ asking' = FALSE /\ UNCHANGED inbound
     \/ \E frame \in inbound : inbound' = inbound \ {frame} /\ UNCHANGED asking
  /\ sent' = {}
  /\ UNCHANGED <<stack, rx, owed, current, history>>

ReplaceGateway ==
  /\ current' \in GatewayMac
  /\ history' = history \cup {current'}
  /\ sent' = {}
  /\ UNCHANGED <<stack, rx, owed, asking, inbound>>

Wire == GatewayAnswers \/ DeliverReply \/ DeliverNoise \/ Lose \/ ReplaceGateway

(* net_init, after rtl8139_init. *)
Init ==
  /\ gateway_mac = NoMac /\ gateway_mac_ready = FALSE
  /\ pending = {}
  /\ pc = "poll"
  /\ has_nic \in BOOLEAN
  /\ rx = <<>>
  /\ sent = {} /\ owed = {}
  /\ asking = FALSE /\ inbound = {}
  /\ current \in GatewayMac
  /\ history = {current}

Next == Main \/ Wire

Spec == Init /\ [][Next]_vars

(* The main loop runs, a request that stays on the wire is answered, and a
   reply that stays on the wire gets into the ring if there is room for it
   again and again: other frames may be faster each time but one. *)
FairSpec ==
  /\ Spec
  /\ WF_vars(Main)
  /\ WF_vars(GatewayAnswers)
  /\ SF_vars(DeliverReply)

-----------------------------------------------------------------------------
(* Properties. *)

Packet == [kind : Kind, dst : Mac]

(* The variables have their types, the ring included. *)
TypeOK ==
  /\ gateway_mac \in Mac \cup {NoMac}
  /\ gateway_mac_ready \in BOOLEAN
  /\ pending \subseteq Kind
  /\ pc \in {"poll", "shell"}
  /\ has_nic \in BOOLEAN
  /\ rx \in Seq(Frame) /\ Len(rx) <= RxSize
  /\ sent \subseteq Packet
  /\ owed \subseteq Kind
  /\ asking \in BOOLEAN
  /\ inbound \subseteq Frame
  /\ current \in GatewayMac
  /\ history \subseteq GatewayMac

(* Whatever is sent goes to an address that the gateway has or had: never to
   the zeros gateway_mac starts with, and never to the address of another host
   whose ARP traffic comes by. *)
SentToGateway == \A packet \in sent : packet.dst \in history

(* A command is never forgotten: until its packet is sent the flag is set, and
   once the address is known nothing waits. *)
NothingForgotten ==
  /\ owed \subseteq pending
  /\ gateway_mac_ready => pending = {}

(* A packet is sent only on a command given since the last one of its kind: a
   reply that arrives twice, or late, does not send a second. *)
NoUnaskedSend ==
  [][\A packet \in sent' :
       packet.kind \in owed \/ Ask(packet.kind)]_vars

(* A lost request or reply is never retried by the kernel itself; but a user
   who keeps giving commands gets the address once the wire has stopped losing
   frames, however many it lost before. *)
AskingAgainHelps ==
  /\ has_nic
  /\ []<><<\E kind \in Kind : Ask(kind)>>_vars
  /\ <>[][~Lose]_vars
  => <>gateway_mac_ready
=============================================================================
