------------------------------- MODULE SzPacket -------------------------------
(***************************************************************************)
(* How a packet of the SZ feed is taken apart in the OST build             *)
(* (UdpQuoteClass<sze_hpf_pkt_head>::process_packet, ostmd.cpp).  A packet *)
(* is a row of messages of two sizes, and the type in the head of each     *)
(* tells which: an order takes 64 bytes and a trade 72.                    *)
(***************************************************************************)
EXTENDS Naturals, Sequences, FiniteSets

CONSTANT MaxMessages   \* bound: the messages in a packet

VARIABLES
  packet,    \* the types of the messages in the packet
  data,      \* the offset at which the loop is
  done,      \* process_packet has returned
  handled    \* the offsets of the messages that went to MDS::handleOstQuote

vars == <<packet, data, done, handled>>

\* sze_msg_type_order and sze_msg_type_trade, and the sizes of the two messages.
Order == 23
Trade == 24
Size(type) == IF type = Order THEN 64 ELSE 72

\* Where message k of the packet begins.
RECURSIVE Offset(_)
Offset(k) == IF k = 1 THEN 0 ELSE Offset(k - 1) + Size(packet[k - 1])

Length == Offset(Len(packet) + 1)
Begins == {Offset(k) : k \in 1 .. Len(packet)}

\* The check that the length is an order at least always holds here.
Init ==
  /\ packet \in UNION {[1 .. n -> {Order, Trade}] : n \in 1 .. MaxMessages}
  /\ data = 0 /\ done = FALSE /\ handled = <<>>

\* The type the loop reads: off the beginning of a message it is any byte.
\* (Those for which the shift is not defined are left out.)
TypeAt(d) ==
  IF d \in Begins THEN {packet[k] : k \in {j \in 1 .. Len(packet) : Offset(j) = d}}
  ELSE 20 .. 28

Step(type) == 2 ^ (type - (Order - 3))

\* One round of the loop.
Round ==
  /\ ~done
  /\ \E type \in TypeAt(data) :
       LET next == data + Step(type)
       IN  /\ data' = next
           /\ done' = (next >= Length - 64 + 1)
           /\ handled' = IF done' THEN handled ELSE Append(handled, data)
  /\ UNCHANGED packet

Spec == Init /\ [][Round]_vars

-----------------------------------------------------------------------------
(***************************************************************************)
(* The loop goes from message to message: while it runs, what it looks at  *)
(* is the beginning of one, as in the lines the step was written for and   *)
(* which are still in a comment: data += sizeof(sze_hpf_order_pkt), or     *)
(* sizeof(sze_hpf_exe_pkt) (ostmd.cpp:48-53).                              *)
(***************************************************************************)
AtMessage == ~done => data \in Begins
=============================================================================
