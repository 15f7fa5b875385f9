---------------------------- MODULE MediaChannel ----------------------------
(***************************************************************************)
(* What a transport promises to the call that sends through it: a FIFO     *)
(* channel for RTP and one for RTCP.  A packet that was accepted is put    *)
(* on the wire at most once, after the packets of its kind accepted        *)
(* before it, and is kept until then.  Nothing is promised about the order *)
(* of an RTP and an RTCP packet.  WebrtcTransport implements it.           *)
(***************************************************************************)
EXTENDS Sequences

CONSTANTS Kinds, Packets

VARIABLES
  channel,  \* the packets of each kind that are not on the wire yet
  wire      \* the packets on the wire, in order

vars == <<channel, wire>>

Init ==
  /\ channel = [k \in Kinds |-> <<>>]
  /\ wire = <<>>

Accept(k, p) ==
  /\ channel' = [channel EXCEPT ![k] = Append(@, p)]
  /\ wire' = wire

Transmit(k) ==
  /\ channel[k] # <<>>
  /\ wire' = Append(wire, Head(channel[k]))
  /\ channel' = [channel EXCEPT ![k] = Tail(@)]

Next == \E k \in Kinds : Transmit(k) \/ \E p \in Packets : Accept(k, p)

Spec == Init /\ [][Next]_vars
==============================================================================
