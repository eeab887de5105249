------------------------------- MODULE Pl011 -------------------------------
(***************************************************************************)
(* VirtualUart of devices/pl011/emulator.rs as operators on a record: rx,  *)
(* the bytes between rx_head and rx_tail, and the interrupt registers ris  *)
(* and imsc as sets of "RX" and "TX".  The line registers have no effect.  *)
(***************************************************************************)
EXTENDS Integers, Sequences

CONSTANT RxBufSize  \* RX_BUF_SIZE: one place stays unused

\* The interrupts, and the accesses that change state: to UARTDR, UARTIMSC and UARTICR.  A
\* driver leaves it to its reads to clear the receive interrupt.
Ints == {"RX", "TX"}
UartAccesses ==
  [dev : {"uart"}, reg : {"read", "write"}, val : Nat]
  \cup [dev : {"uart"}, reg : {"imsc"}, val : SUBSET Ints]
  \cup [dev : {"uart"}, reg : {"icr"}, val : SUBSET (Ints \ {"RX"})]

NewUart == [rx |-> <<>>, ris |-> {}, imsc |-> {}]

push_rx(u, ch) ==
  IF Len(u.rx) = RxBufSize - 1 THEN u
  ELSE [u EXCEPT !.rx = Append(@, ch), !.ris = @ \cup {"RX"}]

\* push_rx of one byte after the other: the first ones enter, as many as there is room for.
Fitting(u, chars) ==
  LET room == RxBufSize - 1 - Len(u.rx) IN IF Len(chars) <= room THEN Len(chars) ELSE room
push_all(u, chars) ==
  [u EXCEPT !.rx = @ \o SubSeq(chars, 1, Fitting(u, chars)),
            !.ris = IF Fitting(u, chars) = 0 THEN @ ELSE @ \cup {"RX"}]

\* pop_rx; a mutant clears the interrupt with the first byte.
pop_rx_mutant(u) ==
  IF u.rx = <<>> THEN u ELSE [u EXCEPT !.rx = Tail(@), !.ris = @ \ {"RX"}]
pop_rx(u) ==
  IF u.rx = <<>> THEN u
  ELSE [u EXCEPT !.rx = Tail(@), !.ris = IF Len(u.rx) = 1 THEN @ \ {"RX"} ELSE @]

\* get_flags: what the driver looks at before it reads the data register.
RxEmpty(u) == u.rx = <<>>

pending_irq(u) == u.ris \cap u.imsc # {}

uart_access(u, a) ==
  CASE a.reg = "read"  -> pop_rx(u)
    [] a.reg = "write" -> [u EXCEPT !.ris = @ \cup {"TX"}]
    [] a.reg = "imsc"  -> [u EXCEPT !.imsc = a.val]
    [] a.reg = "icr"   -> [u EXCEPT !.ris = @ \ a.val]
=============================================================================
