----------------------------- MODULE MCRtl8139 -----------------------------
(* Both halves of the driver.  They share nothing but whether a card was found,
   so one of them works and the other rests.  The ring takes two or three
   frames, which end at every place of it, the lead included; three buffers
   send a frame that is padded and one that is cut. *)
EXTENDS Rtl8139, Rtl8139Tx

CONSTANTS x, y

Frames == {<<x>>, <<y, x, y, x>>}

MCLayouts == {{}, {2}}

VARIABLE half

all == <<half, vars, txVars>>

Receives == half = "receive" /\ Next /\ UNCHANGED <<half, txVars>>

Sends == half = "send" /\ TxNext /\ UNCHANGED <<half, vars>>

BothInit ==
  /\ half \in {"receive", "send"}
  /\ Init /\ TxInit
  /\ half = "receive" => high = {}

BothNext == Receives \/ Sends

BothSpec == BothInit /\ [][BothNext]_all

(* The main loop polls for ever, and the card sends. *)
BothFairSpec ==
  /\ BothSpec
  /\ WF_all(half = "receive" /\ Poll /\ UNCHANGED <<half, txVars>>)
  /\ WF_all(half = "send" /\ Card /\ UNCHANGED <<half, vars>>)
=============================================================================
