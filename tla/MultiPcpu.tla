----------------------------- MODULE MultiPcpu -----------------------------
(***************************************************************************)
(* One VM with a physical CPU for every vCPU (feature multi_pcpu): the run *)
(* loops of vm.rs (run_vcpu, on pCPU 0) and main.rs (secondary_enter_guest *)
(* and its idle loop), PSCI CPU_ON through global.rs's request slots, SGIs *)
(* and SPIs with the physical SGI that makes their target look, and the    *)
(* devices behind one SpinLock: the PL011, the distributor with its shadow *)
(* and the redistributors.  Console input travels from the physical UART   *)
(* through the UART_RX ring to the VirtualUart.                            *)
(*                                                                         *)
(* Here the code of several CPUs interleaves: a step of this model is one  *)
(* access to memory that they share, with the local work around it.        *)
(* Executions take fewer than 2^32 tickets (Checked = FALSE) and CPU_ON is *)
(* not repeated for a vCPU that is on or asked for, as Linux does not.     *)
(***************************************************************************)
EXTENDS TicketLock, Pl011, Gic

CONSTANTS
  SGIs,      \* SGI INTIDs the guest uses
  NumLrs,    \* NUM_LRS
  RingSize,  \* UART_RX_RING_SIZE
  DrainMax,  \* the local buffer of drain_uart_rx
  Loads      \* what a guest does: sets of functions from an operation to how often

UartSpi == 33
INTIDs == SGIs \cup Spis

\* What a guest may do, and that a byte arrives.
Byte == [dev |-> "byte"]
GuestOperations ==
  [dev : {"cpu_on"}, target : Nat] \cup [dev : {"cpu_off"}, vcpu : Cpus]
  \cup [dev : {"sgi"}, irm : BOOLEAN, list : SUBSET Nat, intid : SGIs]
  \cup UartAccesses \cup GicdAccesses
  \cup [dev : {"gicr"}, reg : STRING, vcpu : Nat, bits : SUBSET (0 .. 31)]
  \cup [dev : {"blk"}, intid : Spis]

ASSUME MultiPcpuAssumption ==
  /\ 0 \in Cpus
  /\ SGIs \subseteq 0 .. 15 /\ Spis \subseteq 32 .. 63 /\ UartSpi \in Spis
  /\ NumLrs \in Nat /\ RingSize \in Nat \ {0} /\ RxBufSize \in Nat \ {0} /\ DrainMax \in Nat
  /\ \A l \in Loads : l \in [DOMAIN l -> Nat] /\ DOMAIN l \subseteq GuestOperations \cup {Byte}

VARIABLES
  at,      \* at[p]: where pCPU p is
  todo,    \* the operations left to the guest and to the outside
  slot,    \* PENDING_CPU_ON_PER_VCPU
  event,   \* event[p]: p's event register, which WFE waits for
  entry,   \* entry[p]: where vCPU p was started
  asked,   \* asked[p]: the entry point of the last CPU_ON for p
  online,  \* vcpu_online_mask
  sgis,    \* pending_sgis
  spis,    \* pending_spis
  ipis,    \* ipis[p]: the CPUs that p is about to send the physical SGI to
  psgi,    \* psgi[p]: the physical SGI is pending at p
  physen,  \* physen[p]: p's physical GICR has SGIs and PPI 27 enabled
  lr,      \* lr[p][i]: List Registers of p with INTID i
  acc,     \* acc[p]: the MMIO access that p makes, with the lock to have
  uart,    \* VirtualUart
  fifo,    \* bytes in the physical UART
  ring,    \* UART_RX
  buf,     \* buf of drain_uart_rx
  typed,   \* bytes that the guest has read
  shadow,  \* VirtualGicd
  gicd,    \* the physical distributor
  gicr     \* VirtualGicr

psci == <<slot, event, entry, asked, online>>
irqs == <<sgis, spis, ipis, psgi, physen, lr>>
cons == <<uart, fifo, ring, buf, typed>>
gics == <<shadow, gicd, gicr>>
vars == <<lockvars, at, todo, psci, irqs, acc, cons, gics>>

None == [dev |-> "none"]

Goto(p, place) == at' = [at EXCEPT ![p] = place]

\* The top of the run loop: only pCPU 0 drains the console.  A mutant drains it
\* before the loop only.
Top_mutant(p) == "sgis"
Top(p) == IF p = 0 THEN "drain" ELSE "sgis"

Uses(o) == o \in DOMAIN todo /\ todo[o] > 0 /\ todo' = [todo EXCEPT ![o] = @ - 1]

-----------------------------------------------------------------------------
(* List Registers: pending interrupts go to free ones, in ascending order, *)
(* and are queued again if there is none.                                  *)

NoIrqs == [i \in INTIDs |-> 0]
Used(regs) == {x \in INTIDs \X (1 .. NumLrs) : x[2] <= regs[x[1]]}
FreeLrs(p) == NumLrs - Cardinality(Used(lr[p]))
Placed(p, S) == {n \in S : Cardinality({m \in S : m <= n}) <= FreeLrs(p)}
Inject(p, S) == lr' = [lr EXCEPT ![p] = [i \in INTIDs |-> IF i \in Placed(p, S) THEN @[i] + 1 ELSE @[i]]]

\* The guest acknowledges an interrupt and ends it.
virq(p, i) ==
  /\ at[p] = "guest" /\ lr[p][i] > 0
  /\ lr' = [lr EXCEPT ![p][i] = @ - 1]
  /\ UNCHANGED <<lockvars, at, todo, psci, sgis, spis, ipis, psgi, physen, acc, cons, gics>>

-----------------------------------------------------------------------------
(* The run loop after the drains: ensure_vtimer_enabled and the entry into *)
(* the guest, which stays at "guest" also while it waits in WFI (native).  *)

\* A mutant leaves enabling the physical interrupts to the guest, whose writes are trapped.
ensure_vtimer_enabled_mutant(p) == UNCHANGED physen
ensure_vtimer_enabled(p) == physen' = [physen EXCEPT ![p] = TRUE]

inject_pending_sgis(p) ==
  /\ at[p] = "sgis" /\ Goto(p, "spis")
  /\ ensure_vtimer_enabled(p)
  /\ Inject(p, sgis[p])
  /\ sgis' = [sgis EXCEPT ![p] = @ \ Placed(p, @)]
  /\ UNCHANGED <<lockvars, todo, psci, spis, ipis, psgi, acc, cons, gics>>

inject_pending_spis(p) ==
  /\ at[p] = "spis" /\ Goto(p, "guest")
  /\ Inject(p, spis[p])
  /\ spis' = [spis EXCEPT ![p] = @ \ Placed(p, @)]
  /\ UNCHANGED <<lockvars, todo, psci, sgis, ipis, psgi, physen, acc, cons, gics>>

\* handle_irq_exception, INTID 0 to 15: exit to the run loop.
sgi_irq(p) ==
  /\ at[p] = "guest" /\ psgi[p] /\ physen[p]
  /\ psgi' = [psgi EXCEPT ![p] = FALSE]
  /\ Goto(p, Top(p))
  /\ UNCHANGED <<lockvars, todo, psci, sgis, spis, ipis, physen, lr, acc, cons, gics>>

-----------------------------------------------------------------------------
(* SGIs: handle_sgi_trap queues the SGI and then sends the physical one,   *)
(* for IRM to the CPUs that are online by then.                            *)

handle_sgi_trap(p, o) ==
  LET targets == IF o.irm THEN online \ {p} ELSE o.list \cap Cpus IN
  /\ at[p] = "guest" /\ o.dev = "sgi" /\ Uses(o)
  /\ sgis' = [q \in Cpus |-> IF q \in targets \ {p} THEN sgis[q] \cup {o.intid} ELSE sgis[q]]
  /\ ipis' = [ipis EXCEPT ![p] = targets \ {p}]
  /\ IF p \in targets THEN Inject(p, {o.intid}) ELSE UNCHANGED lr
  /\ Goto(p, IF targets \ {p} = {} THEN "guest" ELSE IF o.irm THEN "ipi_all" ELSE "ipi")
  /\ UNCHANGED <<lockvars, psci, spis, psgi, physen, acc, cons, gics>>

\* send_physical_sgi; inject_spi sends it the same way, with the lock held or in the drain.
AfterIpi == [ipi |-> "guest", ipi_all |-> "guest", ipi_mmio |-> "drop", ipi_raise |-> "sgis"]

send_physical_sgi(p) ==
  /\ at[p] \in DOMAIN AfterIpi /\ Goto(p, AfterIpi[at[p]])
  /\ psgi' = [q \in Cpus |->
                psgi[q] \/ IF at[p] = "ipi_all" THEN q \in online \ {p} ELSE q \in ipis[p]]
  /\ ipis' = [ipis EXCEPT ![p] = {}]
  /\ UNCHANGED <<lockvars, todo, psci, sgis, spis, physen, lr, acc, cons, gics>>

\* inject_spi: the target is read from the physical distributor, which needs no lock.
\* A mutant forgets that the target may be another CPU, asleep.
inject_spi_mutant(p, i) ==
  /\ spis' = [spis EXCEPT ![route_spi(gicd, i)] = @ \cup {i}]
  /\ UNCHANGED ipis
inject_spi(p, i) ==
  LET target == route_spi(gicd, i) IN
  /\ spis' = [q \in Cpus |-> IF q = target THEN spis[q] \cup {i} ELSE spis[q]]
  /\ ipis' = [ipis EXCEPT ![p] = ({target} \cap Cpus) \ {p}]

-----------------------------------------------------------------------------
(* PSCI, the request slots and the idle loop of the secondaries.           *)

\* A mutant sends no event.
Sev_mutant == UNCHANGED event
Sev == event' = [p \in Cpus |-> TRUE]

\* CPU_ON: PerVcpuCpuOnRequest::request, whose stores to entry_point and context_id come
\* before the one to requested; then SEV.  A mutant stores the flag first.
Request_mutant(t, first_store) ==
  slot' = IF first_store THEN [slot EXCEPT ![t].requested = TRUE] ELSE [slot EXCEPT ![t].entry = asked[t]]
Request(t, first_store) ==
  slot' = IF first_store THEN [slot EXCEPT ![t].entry = asked'[t]] ELSE [slot EXCEPT ![t].requested = TRUE]

cpu_on(p, o) ==
  /\ at[p] = "guest" /\ o.dev = "cpu_on" /\ o.target \notin online /\ Uses(o)
  /\ IF o.target \in Cpus
     THEN /\ asked[o.target] = 0
          /\ asked' = [asked EXCEPT ![o.target] = todo[o]]
          /\ Request(o.target, TRUE)
          /\ acc' = [acc EXCEPT ![p] = o]
          /\ Goto(p, "request")
     ELSE Goto(p, Top(p)) /\ UNCHANGED <<asked, slot, acc>>
  /\ UNCHANGED <<lockvars, event, entry, online, irqs, cons, gics>>

request(p) ==
  /\ at[p] = "request" /\ Goto(p, "sev")
  /\ Request(acc[p].target, FALSE)
  /\ acc' = [acc EXCEPT ![p] = None]
  /\ UNCHANGED <<lockvars, todo, event, entry, asked, online, irqs, cons, gics>>

sev(p) ==
  /\ at[p] = "sev" /\ Goto(p, Top(p))
  /\ Sev
  /\ UNCHANGED <<lockvars, todo, slot, entry, asked, online, irqs, acc, cons, gics>>

\* CPU_OFF, SYSTEM_OFF, SYSTEM_RESET: a secondary goes back to its idle loop, run_vcpu
\* of pCPU 0 returns.
cpu_off(p, o) ==
  /\ at[p] = "guest" /\ o = [dev |-> "cpu_off", vcpu |-> p] /\ Uses(o)
  /\ IF p = 0 THEN Goto(p, "off") /\ UNCHANGED <<online, asked>>
     ELSE /\ Goto(p, "wfe")
          /\ online' = online \ {p}
          /\ asked' = [asked EXCEPT ![p] = 0]
  /\ UNCHANGED <<lockvars, slot, event, entry, irqs, acc, cons, gics>>

wfe(p) ==
  /\ at[p] = "wfe" /\ event[p] /\ Goto(p, "take")
  /\ event' = [event EXCEPT ![p] = FALSE]
  /\ UNCHANGED <<lockvars, todo, slot, entry, asked, online, irqs, acc, cons, gics>>

\* PerVcpuCpuOnRequest::take, the compare_exchange.
take(p) ==
  /\ at[p] = "take"
  /\ Goto(p, IF slot[p].requested THEN "start" ELSE "wfe")
  /\ slot' = [slot EXCEPT ![p].requested = FALSE]
  /\ UNCHANGED <<lockvars, todo, event, entry, asked, online, irqs, acc, cons, gics>>

\* Its loads, and secondary_enter_guest up to the run loop.
secondary_enter_guest(p) ==
  /\ at[p] = "start" /\ Goto(p, Top(p))
  /\ entry' = [entry EXCEPT ![p] = slot[p].entry]
  /\ lr' = [lr EXCEPT ![p] = NoIrqs]
  /\ online' = online \cup {p}
  /\ UNCHANGED <<lockvars, todo, slot, event, asked, sgis, spis, ipis, psgi, physen, acc, cons, gics>>

-----------------------------------------------------------------------------
(* MMIO: handle_mmio_abort takes the lock for the access, drops it, and    *)
(* flushes the SPIs of its own vCPU into the List Registers.               *)

mmio(p, o) ==
  /\ at[p] = "guest" /\ o.dev \in {"uart", "gicd", "gicr", "blk"} /\ Uses(o)
  /\ lock(p)
  /\ acc' = [acc EXCEPT ![p] = o]
  /\ Goto(p, "mmio")
  /\ UNCHANGED <<psci, irqs, cons, gics>>

\* The access under the lock; a disk request that completes at once raises its SPI there.
\* The data register is read when the flag register has shown a byte.
handle_mmio(p) ==
  LET a == acc[p] IN
  /\ at[p] = "mmio" /\ acquire(p)
  /\ uart' = IF a.dev = "uart" THEN uart_access(uart, a) ELSE uart
  /\ typed' = IF a.dev = "uart" /\ a.reg = "read" /\ ~RxEmpty(uart)
              THEN Append(typed, Head(uart.rx)) ELSE typed
  /\ gicd' = IF a.dev = "gicd" THEN phys_write(gicd, a) ELSE gicd
  /\ shadow' = IF a.dev = "gicd" THEN shadow_write(shadow, a) ELSE shadow
  /\ gicr' = IF a.dev = "gicr" THEN gicr_access(gicr, a) ELSE gicr
  /\ IF a.dev = "blk" THEN inject_spi(p, a.intid) ELSE UNCHANGED <<spis, ipis>>
  /\ Goto(p, IF ipis' # ipis THEN "ipi_mmio" ELSE "drop")
  /\ UNCHANGED <<todo, psci, sgis, psgi, physen, lr, acc, fifo, ring, buf>>

\* The guard is dropped, with its SEV.
unlock(p) ==
  /\ at[p] = "drop" /\ drop(p) /\ Sev
  /\ acc' = [acc EXCEPT ![p] = None]
  /\ Goto(p, "flush")
  /\ UNCHANGED <<todo, slot, entry, asked, online, irqs, cons, gics>>

flush_pending_spis_to_hardware(p) ==
  /\ at[p] = "flush" /\ Goto(p, "guest")
  /\ Inject(p, spis[p])
  /\ spis' = [spis EXCEPT ![p] = @ \ Placed(p, @)]
  /\ UNCHANGED <<lockvars, todo, psci, sgis, ipis, psgi, physen, acc, cons, gics>>

-----------------------------------------------------------------------------
(* Console input.  UART_RX has one producer, whichever CPU the interrupt   *)
(* is routed to, and one consumer, pCPU 0; buf is the data, head and tail  *)
(* the indices.                                                            *)

\* The next place.
After(i) == (i + 1) % RingSize

\* A byte arrives from outside, numbered down.
byte ==
  /\ Uses(Byte)
  /\ fifo' = Append(fifo, todo[Byte])
  /\ UNCHANGED <<lockvars, at, psci, irqs, acc, uart, ring, buf, typed, gics>>

\* INTID 33, level-triggered: pending while there are bytes, and active at one CPU until
\* the handler has deactivated it.
UartIrq(p) ==
  /\ fifo # <<>> /\ UartSpi \in gicd.enabled /\ route_spi(gicd, UartSpi) = p
  /\ \A q \in Cpus : at[q] \notin {"rx", "rx_publish"}
uart_irq(p) ==
  /\ at[p] = "guest" /\ UartIrq(p)
  /\ Goto(p, "rx")
  /\ UNCHANGED <<lockvars, todo, psci, irqs, acc, cons, gics>>

\* The handler's loop, with UartRxRing::push: the byte is stored, then the tail.
rx(p) ==
  /\ at[p] = "rx"
  /\ IF fifo = <<>> THEN Goto(p, Top(p)) /\ UNCHANGED <<fifo, ring>>
     ELSE /\ fifo' = Tail(fifo)
          /\ IF After(ring.tail) = ring.head THEN UNCHANGED <<at, ring>>
             ELSE /\ ring' = [ring EXCEPT !.buf[ring.tail] = Head(fifo)]
                  /\ Goto(p, "rx_publish")
  /\ UNCHANGED <<lockvars, todo, psci, irqs, acc, uart, buf, typed, gics>>

rx_publish(p) ==
  /\ at[p] = "rx_publish" /\ Goto(p, "rx")
  /\ ring' = [ring EXCEPT !.tail = After(@)]
  /\ UNCHANGED <<lockvars, todo, psci, irqs, acc, uart, fifo, buf, typed, gics>>

\* drain_uart_rx pops all bytes, the byte before the head is stored, and returns if there
\* were none.  A mutant reads the place after the head.
Popped_mutant == IF Len(buf) < DrainMax THEN Append(buf, ring.buf[After(ring.head)]) ELSE buf
Popped == IF Len(buf) < DrainMax THEN Append(buf, ring.buf[ring.head]) ELSE buf

pop(p) ==
  /\ p = 0 /\ at[p] = "drain"
  /\ \/ /\ ring.head # ring.tail
        /\ buf' = Popped
        /\ Goto(p, "popped")
        /\ UNCHANGED lockvars
     \/ /\ ring.head = ring.tail /\ buf = <<>>
        /\ Goto(p, "sgis")
        /\ UNCHANGED <<lockvars, buf>>
     \/ /\ ring.head = ring.tail /\ buf # <<>>
        /\ Goto(p, "push")
        /\ lock(p)
        /\ UNCHANGED buf
  /\ UNCHANGED <<todo, psci, irqs, acc, uart, fifo, ring, typed, gics>>

popped(p) ==
  /\ at[p] = "popped" /\ Goto(p, "drain")
  /\ ring' = [ring EXCEPT !.head = After(@)]
  /\ UNCHANGED <<lockvars, todo, psci, irqs, acc, uart, fifo, buf, typed, gics>>

\* The bytes enter the VirtualUart under the lock.
push(p) ==
  /\ at[p] = "push" /\ acquire(p)
  /\ uart' = push_all(uart, buf)
  /\ buf' = <<>>
  /\ Goto(p, "release")
  /\ UNCHANGED <<todo, psci, irqs, acc, fifo, ring, typed, gics>>

\* The guard is dropped before inject_spi(33).
release(p) ==
  /\ at[p] = "release" /\ drop(p) /\ Sev
  /\ Goto(p, IF pending_irq(uart) THEN "raise" ELSE "sgis")
  /\ UNCHANGED <<todo, slot, entry, asked, online, irqs, acc, cons, gics>>

raise(p) ==
  /\ at[p] = "raise" /\ inject_spi(p, UartSpi)
  /\ Goto(p, IF ipis' # ipis THEN "ipi_raise" ELSE "sgis")
  /\ UNCHANGED <<lockvars, todo, psci, sgis, psgi, physen, lr, acc, cons, gics>>

-----------------------------------------------------------------------------

\* The guest runs on vCPU 0 with its drivers bound, the secondaries wait in their idle loop.
Booted(g) == [g EXCEPT !.enabled = Spis]

Init ==
  /\ LockInit
  /\ at = [p \in Cpus |-> IF p = 0 THEN "drain" ELSE "wfe"]
  /\ todo \in Loads
  /\ slot = [p \in Cpus |-> [requested |-> FALSE, entry |-> 0]]
  /\ event = [p \in Cpus |-> FALSE]
  /\ entry = [p \in Cpus |-> 0] /\ asked = [p \in Cpus |-> 0]
  /\ online = {0}
  /\ sgis = [p \in Cpus |-> {}] /\ spis = [p \in Cpus |-> {}]
  /\ ipis = [p \in Cpus |-> {}]
  /\ psgi = [p \in Cpus |-> FALSE] /\ physen = [p \in Cpus |-> FALSE]
  /\ lr = [p \in Cpus |-> NoIrqs]
  /\ acc = [p \in Cpus |-> None]
  /\ uart = [NewUart EXCEPT !.imsc = {"RX"}]
  /\ fifo = <<>> /\ buf = <<>> /\ typed = <<>>
  /\ ring = [buf |-> [i \in 0 .. RingSize - 1 |-> 0], head |-> 0, tail |-> 0]
  /\ shadow = Booted(NewGicd) /\ gicd = Booted(NewGicd)
  /\ gicr = [p \in Cpus |-> NewGicr]

\* EL2 code of p, and interrupts that take p to EL2.
Run(p) ==
  \/ wfe(p) \/ take(p) \/ secondary_enter_guest(p)
  \/ pop(p) \/ popped(p) \/ push(p) \/ release(p) \/ raise(p)
  \/ inject_pending_sgis(p) \/ inject_pending_spis(p)
  \/ sgi_irq(p) \/ uart_irq(p) \/ rx(p) \/ rx_publish(p)
  \/ send_physical_sgi(p)
  \/ request(p) \/ sev(p)
  \/ handle_mmio(p) \/ unlock(p) \/ flush_pending_spis_to_hardware(p)

Virq(p) == \E i \in INTIDs : virq(p, i)
Operation(p) ==
  \E o \in DOMAIN todo : handle_sgi_trap(p, o) \/ cpu_on(p, o) \/ cpu_off(p, o) \/ mmio(p, o)

Next == byte \/ \E p \in Cpus : Run(p) \/ Virq(p) \/ Operation(p)

Spec == Init /\ [][Next]_vars

\* Every CPU executes, and the guest takes the interrupts it is given.
FairSpec == Spec /\ \A p \in Cpus : WF_vars(Run(p)) /\ WF_vars(Virq(p))

-----------------------------------------------------------------------------
(* Properties.                                                             *)

\* The types of the state.
TypeOK ==
  /\ LockTypeOK
  /\ slot \in [Cpus -> [requested : BOOLEAN, entry : Nat]]
  /\ event \in [Cpus -> BOOLEAN] /\ psgi \in [Cpus -> BOOLEAN] /\ physen \in [Cpus -> BOOLEAN]
  /\ entry \in [Cpus -> Nat] /\ asked \in [Cpus -> Nat]
  /\ online \subseteq Cpus
  /\ sgis \in [Cpus -> SUBSET SGIs] /\ spis \in [Cpus -> SUBSET Spis]
  /\ ipis \in [Cpus -> SUBSET Cpus]
  /\ lr \in [Cpus -> [INTIDs -> 0 .. NumLrs]] /\ \A p \in Cpus : FreeLrs(p) >= 0
  /\ uart \in [rx : Seq(Nat), ris : SUBSET Ints, imsc : SUBSET Ints] /\ Len(uart.rx) < RxBufSize
  /\ fifo \in Seq(Nat) /\ typed \in Seq(Nat) /\ buf \in Seq(Nat) /\ Len(buf) <= DrainMax
  /\ ring \in [buf : [0 .. RingSize - 1 -> Nat], head : 0 .. RingSize - 1, tail : 0 .. RingSize - 1]
  /\ shadow \in Gicd /\ gicd \in Gicd

\* The bytes in the ring: from the head, after the one that pop has just copied.
RingOf(h, l, b) ==
  [i \in 1 .. (IF h <= l THEN l - h ELSE l - h + RingSize) |->
     b[IF h + i - 1 < RingSize THEN h + i - 1 ELSE h + i - 1 - RingSize]]
From == IF \E p \in Cpus : at[p] = "popped" THEN After(ring.head) ELSE ring.head
RingBytes == RingOf(From, ring.tail, ring.buf)

\* A byte stored in the ring, but not published.
Flight == IF \E p \in Cpus : at[p] = "rx_publish" THEN <<ring.buf[ring.tail]>> ELSE <<>>

\* Bytes are numbered down: a sequence in the order of arrival, and one before another.
Falling(s) == \A i, j \in DOMAIN s : i < j => s[i] > s[j]
Above(s, t) == \A i \in DOMAIN s, j \in DOMAIN t : s[i] > t[j]

\* What is typed reaches the guest in order and at most once, over the ring that one CPU
\* fills while another empties it and over the two locked sections that follow.
BytesInOrder ==
  Falling(typed \o uart.rx \o buf \o RingBytes \o Flight \o fifo)

\* The inductive invariant behind it: each stage of the way is in order and before the next
\* ones, and what is still to come after all of them; one CPU at a time fills the ring, and
\* pops and stores have what they are about to publish for themselves.
Stages == <<typed, uart.rx, buf, RingBytes, Flight, fifo>>
ToCome == IF Byte \in DOMAIN todo THEN todo[Byte] ELSE 0
ByteInv ==
  /\ BytesInOrder
  /\ \A k \in 1 .. 6 : Falling(Stages[k]) /\ Above(Stages[k], <<ToCome>>)
  /\ \A k, l \in 1 .. 6 : k < l => Above(Stages[k], Stages[l])
  /\ \A p \in Cpus :
       /\ at[p] = "popped" => p = 0 /\ ring.head # ring.tail
       /\ at[p] = "rx_publish" => After(ring.tail) # ring.head
       /\ \A q \in Cpus : {at[p], at[q]} \subseteq {"rx", "rx_publish"} => p = q

\* The devices under the lock.  The receive interrupt is raised exactly while there is a
\* byte to read, so that the guest's handler neither stops early nor is called for
\* nothing.  The shadow, which answers the guest's reads of the distributor, and the
\* physical one, which decides where interrupts go, agree, also after 32-bit writes to
\* halves of a route.
DevicesConsistent ==
  /\ TypeOK
  /\ "RX" \in uart.ris <=> ~RxEmpty(uart)
  /\ shadow.irouter = gicd.irouter
  /\ shadow.enabled = gicd.enabled /\ shadow.group = gicd.group /\ shadow.cfg = gicd.cfg

\* A vCPU starts where the CPU_ON that started it says, not where an earlier one did.
EntryRight == \A p \in online \ {0} : entry[p] = asked[p]

\* Where a CPU can be, the places of its idle loop, and that q is about to set the flag of t's request slot.
IdlePlaces == {"wfe", "take", "start"}
Places == IdlePlaces \cup
  {"drain", "popped", "push", "release", "raise", "sgis", "spis", "guest", "rx", "rx_publish",
   "mmio", "drop", "flush", "request", "sev", "off", "ipi", "ipi_all", "ipi_mmio", "ipi_raise"}
Requests(q, t) == at[q] = "request" /\ acc[q].target = t

\* The operations of the loads.
Operations == UNION {DOMAIN l : l \in Loads}

StartTypes ==
  /\ at \in [Cpus -> Places]
  /\ todo \in [DOMAIN todo -> Nat]
  /\ slot \in [Cpus -> [requested : BOOLEAN, entry : Nat]]
  /\ entry \in [Cpus -> Nat] /\ asked \in [Cpus -> Nat]
  /\ DOMAIN todo \subseteq Operations
  /\ acc \in [Cpus -> Operations \cup {None}]

\* A vCPU starts where the CPU_ON that started it says.  The inductive invariant behind it:
\* a CPU is online exactly outside of its idle loop; as long as a CPU_ON holds, the slot
\* has its entry point; and it is under way in one place at most: about to be flagged,
\* flagged, or taken by a CPU that has not loaded the entry point yet.
StartInv ==
  /\ StartTypes
  /\ EntryRight
  /\ online = {p \in Cpus : at[p] \notin IdlePlaces} /\ 0 \in online
  /\ \A q \in Cpus : at[q] = "request" => acc[q].target \in Cpus
  /\ \A t \in Cpus :
       /\ asked[t] # 0 => slot[t].entry = asked[t]
       /\ slot[t].requested \/ at[t] = "start" \/ (\E q \in Cpus : Requests(q, t)) =>
            asked[t] # 0 /\ t \notin online
       /\ slot[t].requested => at[t] # "start" /\ \A q \in Cpus : ~Requests(q, t)
       /\ at[t] = "start" => \A q \in Cpus : ~Requests(q, t)
       /\ \A q, r \in Cpus : Requests(q, t) /\ Requests(r, t) => q = r

\* A vCPU that runs or idles in WFI with an interrupt queued for it has the physical SGI
\* pending, or the sender is about to send it (as long as List Registers do not run out).
Woken(p) == psgi[p] \/ \E q \in Cpus : p \in ipis[q]
PendingWoken ==
  \A p \in Cpus : at[p] = "guest" /\ sgis[p] \cup spis[p] # {} => Woken(p)

\* The places from which the guest is entered with no further look at the SGIs, or at the
\* SPIs, that are queued.
PastSgis == {"spis", "guest", "ipi", "ipi_all", "mmio", "ipi_mmio", "drop", "flush"}
PastSpis == {"guest", "ipi", "ipi_all"}

\* The inductive invariant behind it: from any of these places on, what is queued is or
\* will be announced, and nobody forgets an announcement that is still to be made.
WakeInv ==
  /\ \A f \in {sgis, spis, ipis} : f = [p \in Cpus |-> f[p]]
  /\ psgi \in [Cpus -> BOOLEAN]
  /\ \A p \in Cpus :
       /\ at[p] \notin DOMAIN AfterIpi => ipis[p] = {}
       /\ p \notin ipis[p]
       /\ at[p] \in PastSgis /\ sgis[p] # {} => Woken(p)
       /\ at[p] \in PastSpis /\ spis[p] # {} => Woken(p)

\* The List Registers of every CPU have room for what is queued for it.
LrsSuffice == \A p \in Cpus : Placed(p, sgis[p]) = sgis[p] /\ Placed(p, spis[p]) = spis[p]

\* A CPU that waits for the lock gets it.
LockServed == \A p \in Cpus : lk[p] = "wait" ~> lk[p] = "held"

\* A CPU_ON is taken by its target, a secondary, which may be on its way into WFE at the time.
CpuOnTaken == \A p \in Cpus \ {0} : slot[p].requested ~> p \in online

\* An SGI queued for a vCPU that is on reaches its List Registers, unless it goes off.
SgiDelivered ==
  \A p \in Cpus, i \in SGIs :
    i \in sgis[p] /\ p \in online ~> lr[p][i] > 0 \/ p \notin online \/ at[p] = "off"

\* Bytes that pCPU 0 takes from the UART end up in the VirtualUart: the ring is emptied.
RxDrained == at[0] = "rx" ~> ring.head = ring.tail \/ at[0] = "off"
=============================================================================
