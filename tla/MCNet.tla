------------------------------- MODULE MCNet -------------------------------
(* A small instance of Net for TLC. *)
EXTENDS Net

CONSTANTS m1, m2, host

(* Frames that each fail one test of net_handle_packet: another host's reply,
   a reply to another host, a request of the gateway, a truncated reply, and
   one that is not ARP. *)
MCNoise ==
  { [op |-> "reply", sender_ip |-> "host", target_ip |-> "local",
     sender_mac |-> host, complete |-> TRUE],
    [op |-> "reply", sender_ip |-> "gateway", target_ip |-> "host",
     sender_mac |-> host, complete |-> TRUE],
    [op |-> "request", sender_ip |-> "gateway", target_ip |-> "local",
     sender_mac |-> host, complete |-> TRUE],
    [op |-> "reply", sender_ip |-> "gateway", target_ip |-> "local",
     sender_mac |-> host, complete |-> FALSE],
    [op |-> "ipv4"] }
=============================================================================
