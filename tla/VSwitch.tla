------------------------------ MODULE VSwitch ------------------------------
(***************************************************************************)
(* The layer-2 switch of vswitch.rs as operators: the receive ring of a    *)
(* port (NetRxRing) and the forwarding decision with its MAC table.  All   *)
(* of it runs on the one physical CPU of the multi-VM build, inside the    *)
(* handler of a queue notification or in the run loop.                     *)
(***************************************************************************)
EXTENDS Integers, Sequences, FiniteSets

CONSTANTS
  Ports,     \* 0 .. MAX_PORTS - 1: a port is the id of its VM
  Macs,      \* unicast MAC addresses
  Slots,     \* NET_RX_RING_SIZE: one slot stays unused
  TableSize  \* MAC_TABLE_SIZE

Broadcast == "broadcast"  \* any address with the group bit set
Unknown == -1

-----------------------------------------------------------------------------
(* NetRxRing.                                                              *)

Free == [none |-> TRUE]  \* for whatever is in a slot that holds no frame
EmptyRing == [head |-> 0, tail |-> 0, slot |-> [i \in 0 .. Slots - 1 |-> Free]]

\* A mutant forgets that the index wraps around.
Full_mutant(r) == r.tail + 1 = r.head
Full(r) == (r.tail + 1) % Slots = r.head

store(r, f) ==
  IF Full(r) THEN r
  ELSE [r EXCEPT !.slot[r.tail] = f, !.tail = (@ + 1) % Slots]

is_empty(r) == r.head = r.tail
\* The frame take copies out.
first(r) == r.slot[r.head]
Took(r) == [r EXCEPT !.head = (@ + 1) % Slots, !.slot[r.head] = Free]

\* The frames of a ring, in order.
Stored(r) == [i \in 1 .. (r.tail - r.head + Slots) % Slots |-> r.slot[(r.head + i - 1) % Slots]]

-----------------------------------------------------------------------------
(* The switch.  table[m] is the port learned for address m.                *)

\* An address is moved to the port it was last seen at; a new one is dropped when the
\* table is full.
Known(table) == {m \in Macs : table[m] # Unknown}
learn(table, mac, port) ==
  IF mac \in Known(table) \/ Cardinality(Known(table)) < TableSize
  THEN [table EXCEPT ![mac] = port]
  ELSE table

lookup(table, mac) == table[mac]

\* The ports forward stores a frame at.
Targets(table, src, f) ==
  IF f.dst = Broadcast \/ lookup(table, f.dst) = Unknown THEN Ports \ {src}  \* flood
  ELSE {lookup(table, f.dst)} \ {src}

\* forward: learn comes first, so a frame to its own source address goes nowhere.
forward(sw, src, f) ==
  LET table == learn(sw.table, f.smac, src) IN
  [table |-> table,
   ring |-> [p \in Ports |-> IF p \in Targets(table, src, f) THEN store(sw.ring[p], f) ELSE sw.ring[p]]]
=============================================================================
