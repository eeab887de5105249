--------------------------- MODULE MultiPcpuProofs ---------------------------
(***************************************************************************)
(* The ticket lock of sync.rs gives mutual exclusion and serves in order,  *)
(* for every number of CPUs and every width of a ticket that has more      *)
(* values than there are CPUs.  What the CPUs of MultiPcpu do to the       *)
(* device lock is what TicketLock allows, so that this holds for the       *)
(* composed system.  There every vCPU starts where its CPU_ON says, what   *)
(* is queued for a CPU wakes it and the devices stay consistent, for any   *)
(* number of CPUs, interrupts, List Registers and ring places and for      *)
(* anything the guest does.                                                *)
(***************************************************************************)
EXTENDS MultiPcpu, Sequences, FiniteSetTheorems, TLAPS

-----------------------------------------------------------------------------
(* The ticket lock.                                                        *)

\* CPUs with a ticket are fewer than tickets, so that next_ticket never catches up.
LEMMA BusyBound ==
  /\ IsFiniteSet(Busy)
  /\ Cardinality(Busy) \in Nat
  /\ Cardinality(Busy) < TicketMod
PROOF
<1>1. IsFiniteSet(Busy) /\ Cardinality(Busy) <= Cardinality(Cpus)
  BY TicketAssumption, FS_Subset DEF Busy
<1>2. Cardinality(Busy) \in Nat /\ Cardinality(Cpus) \in Nat
  BY <1>1, TicketAssumption, FS_CardinalityType
<1> QED
  BY <1>1, <1>2, TicketAssumption

\* Nobody has taken a ticket of the lock.
LEMMA InitInOrder == LockInit => TicketsInOrder
PROOF
<1> SUFFICES ASSUME LockInit PROVE TicketsInOrder
  OBVIOUS
<1>1. Busy = {}
  BY DEF LockInit, Busy
<1>2. Cardinality(Busy) = 0
  BY <1>1, FS_EmptySet
<1>3. LockTypeOK
  BY TicketAssumption DEF LockInit, LockTypeOK
<1> QED
  BY <1>1, <1>2, <1>3, TicketAssumption DEF TicketsInOrder, Dist, LockInit

\* Drawing a ticket: it is the one after all tickets in use.
LEMMA LockKeeps ==
  ASSUME TicketsInOrder, NEW p \in Cpus, lock(p)
  PROVE  TicketsInOrder'
PROOF
<1>1. LockTypeOK'
  BY TicketAssumption DEF TicketsInOrder, LockTypeOK, lock, Succ
<1>2. Busy' = Busy \cup {p} /\ p \notin Busy
  BY DEF Busy, lock, TicketsInOrder, LockTypeOK
<1>3. Cardinality(Busy') = Cardinality(Busy) + 1
  BY <1>2, BusyBound, FS_AddElement
<1>4. Cardinality(Busy') \in Nat /\ Cardinality(Busy') < TicketMod
  <2>1. Busy' \subseteq Cpus
    BY <1>2 DEF Busy
  <2>2. IsFiniteSet(Busy') /\ Cardinality(Busy') <= Cardinality(Cpus)
    BY <2>1, TicketAssumption, FS_Subset
  <2> QED
    BY <2>2, TicketAssumption, FS_CardinalityType
<1>5. Dist(next_ticket)' = Cardinality(Busy')
  BY <1>3, <1>4, BusyBound, TicketAssumption DEF Dist, TicketsInOrder, LockTypeOK, lock, Succ
<1>6. \A q \in Busy : ticket'[q] = ticket[q]
  BY <1>2 DEF lock, TicketsInOrder, LockTypeOK, Busy
<1>7. ticket'[p] = next_ticket
  BY DEF lock, TicketsInOrder, LockTypeOK
<1>8. \A q \in Busy' : Dist(ticket[q])' < Cardinality(Busy')
  <2> SUFFICES ASSUME NEW q \in Busy' PROVE Dist(ticket[q])' < Cardinality(Busy')
    OBVIOUS
  <2>1. CASE q = p
    BY <2>1, <1>3, <1>7, BusyBound, TicketAssumption DEF Dist, TicketsInOrder, LockTypeOK, lock
  <2>2. CASE q \in Busy
    <3>1. Dist(ticket[q])' = Dist(ticket[q])
      BY <2>2, <1>6 DEF Dist, lock
    <3>2. Dist(ticket[q]) < Cardinality(Busy) /\ Dist(ticket[q]) \in Int
      BY <2>2, TicketAssumption DEF TicketsInOrder, Dist, LockTypeOK, Busy
    <3> QED
      BY <3>1, <3>2, <1>3, BusyBound
  <2> QED
    BY <2>1, <2>2, <1>2
<1>9. \A q \in Busy : ticket[q] # next_ticket
  BY BusyBound, TicketAssumption DEF TicketsInOrder, Dist, LockTypeOK, Busy
<1>10. \A q, r \in Busy' : q # r => ticket'[q] # ticket'[r]
  BY <1>2, <1>6, <1>7, <1>9 DEF TicketsInOrder
<1>11. \A q \in Cpus : lk'[q] \in {"held", "panic"} => ticket'[q] = now_serving'
  BY DEF lock, TicketsInOrder, LockTypeOK
<1>12. ASSUME NEW i \in 1 .. Cardinality(Busy') PROVE \E q \in Busy' : Dist(ticket[q])' = i - 1
  <2>1. CASE i = Cardinality(Busy')
    BY <2>1, <1>2, <1>3, <1>7, BusyBound, TicketAssumption DEF Dist, TicketsInOrder, LockTypeOK, lock
  <2>2. CASE i \in 1 .. Cardinality(Busy)
    <3>1. PICK q \in Busy : Dist(ticket[q]) = i - 1
      BY <2>2 DEF TicketsInOrder
    <3>2. Dist(ticket[q])' = i - 1
      BY <3>1, <1>6 DEF Dist, lock
    <3> QED
      BY <3>2, <1>2
  <2> QED
    BY <2>1, <2>2, <1>3, BusyBound
<1> QED
  BY <1>1, <1>5, <1>8, <1>10, <1>11, <1>12 DEF TicketsInOrder

\* Dropping the guard: every other ticket is one closer to its turn.
LEMMA DropKeeps ==
  ASSUME TicketsInOrder, NEW p \in Cpus, drop(p)
  PROVE  TicketsInOrder'
PROOF
<1>1. LockTypeOK'
  BY TicketAssumption DEF TicketsInOrder, LockTypeOK, drop, Succ
<1>2. Busy' = Busy \ {p} /\ p \in Busy
  BY DEF Busy, drop, TicketsInOrder, LockTypeOK
<1>3. Cardinality(Busy') = Cardinality(Busy) - 1
  BY <1>2, BusyBound, FS_RemoveElement
<1>4. ticket[p] = now_serving /\ now_serving' = Succ(now_serving)
  BY DEF drop, TicketsInOrder, LockTypeOK
<1>5. ASSUME NEW n \in 0 .. TicketMod - 1, n # now_serving
      PROVE  Dist(n)' = Dist(n) - 1
  BY <1>4, <1>5, TicketAssumption DEF Dist, Succ, TicketsInOrder, LockTypeOK
<1>6. Cardinality(Busy) >= 1
  BY <1>2, <1>3, BusyBound, FS_Subset, FS_CardinalityType, FS_EmptySet DEF Busy
<1>7. next_ticket # now_serving
  BY <1>6, TicketAssumption DEF TicketsInOrder, Dist, LockTypeOK
<1>8. Dist(next_ticket)' = Cardinality(Busy')
  <2>1. next_ticket' = next_ticket
    BY DEF drop
  <2> QED
    BY <2>1, <1>3, <1>4, <1>7, TicketAssumption DEF Dist, Succ, TicketsInOrder, LockTypeOK
<1>9. \A q \in Busy' : ticket'[q] = ticket[q] /\ ticket[q] # now_serving /\ ticket[q] \in 0 .. TicketMod - 1
  BY <1>2, <1>4 DEF drop, TicketsInOrder, LockTypeOK, Busy
<1>10. \A q \in Busy' : Dist(ticket[q])' < Cardinality(Busy')
  <2> SUFFICES ASSUME NEW q \in Busy' PROVE Dist(ticket[q])' < Cardinality(Busy')
    OBVIOUS
  <2>1. Dist(ticket[q])' = Dist(ticket[q]) - 1
    BY <1>9, <1>4, TicketAssumption DEF Dist, Succ, TicketsInOrder, LockTypeOK
  <2>2. Dist(ticket[q]) < Cardinality(Busy) /\ Dist(ticket[q]) \in Int
    BY <1>2, <1>9, TicketAssumption DEF TicketsInOrder, Dist, LockTypeOK
  <2> QED
    BY <2>1, <2>2, <1>3, BusyBound
<1>11. \A q, r \in Busy' : q # r => ticket'[q] # ticket'[r]
  BY <1>2, <1>9 DEF TicketsInOrder
<1>13. ASSUME NEW i \in 1 .. Cardinality(Busy') PROVE \E q \in Busy' : Dist(ticket[q])' = i - 1
  <2>1. i + 1 \in 1 .. Cardinality(Busy)
    BY <1>3, BusyBound
  <2>2. PICK q \in Busy : Dist(ticket[q]) = (i + 1) - 1
    BY <2>1 DEF TicketsInOrder
  <2>3. q \in Busy'
    BY <2>2, <1>2, <1>4, TicketAssumption DEF Dist, TicketsInOrder, LockTypeOK
  <2>4. Dist(ticket[q])' = Dist(ticket[q]) - 1
    BY <2>3, <1>9, <1>4, TicketAssumption DEF Dist, Succ, TicketsInOrder, LockTypeOK
  <2> QED
    BY <2>2, <2>3, <2>4
<1>12. \A q \in Cpus : lk'[q] \in {"held", "panic"} => ticket'[q] = now_serving'
  BY <1>2, <1>4 DEF drop, TicketsInOrder, LockTypeOK, Busy
<1> QED
  BY <1>1, <1>8, <1>10, <1>11, <1>12, <1>13 DEF TicketsInOrder

\* Taking the lock and panicking leave the tickets and the set of their holders alone.
LEMMA OthersKeep ==
  ASSUME TicketsInOrder, NEW p \in Cpus, acquire(p) \/ panic(p)
  PROVE  TicketsInOrder'
PROOF
<1>1. UNCHANGED <<next_ticket, now_serving, ticket>>
  BY DEF acquire, panic
<1>2. Busy' = Busy
  BY DEF Busy, acquire, panic, TicketsInOrder, LockTypeOK
<1>3. LockTypeOK'
  BY DEF TicketsInOrder, LockTypeOK, acquire, panic
<1>4. \A q \in Cpus : lk'[q] \in {"held", "panic"} => ticket'[q] = now_serving'
  BY DEF TicketsInOrder, LockTypeOK, acquire, panic
<1> QED
  BY <1>1, <1>2, <1>3, <1>4 DEF TicketsInOrder, Dist

\* Tickets are drawn once and served in order, on every run of the lock.
THEOREM TicketOrder == LockSpec => []TicketsInOrder
PROOF
<1>1. TicketsInOrder /\ [LockNext]_lockvars => TicketsInOrder'
  <2> SUFFICES ASSUME TicketsInOrder, [LockNext]_lockvars PROVE TicketsInOrder'
    OBVIOUS
  <2>1. CASE UNCHANGED lockvars
    BY <2>1 DEF lockvars, TicketsInOrder, LockTypeOK, Dist, Busy
  <2>2. CASE LockNext
    BY <2>2, LockKeeps, DropKeeps, OthersKeep DEF LockNext
  <2> QED
    BY <2>1, <2>2
<1> QED
  BY <1>1, InitInOrder, PTL DEF LockSpec

\* No two CPUs are ever inside the lock: the data behind DEVICES has one user at a time.
THEOREM LockExclusive == LockSpec => []MutualExclusion
PROOF
<1>1. TicketsInOrder => MutualExclusion
  BY DEF TicketsInOrder, MutualExclusion, Busy
<1> QED
  BY <1>1, TicketOrder, PTL
-----------------------------------------------------------------------------
(* The line of those who wait.                                             *)

\* The line has every CPU with a ticket, at the place its ticket is from its turn.
LineRight ==
  /\ Line \in Seq(Cpus)
  /\ Len(Line) = Cardinality(Busy)
  /\ \A i \in 1 .. Cardinality(Busy) : Line[i] \in Busy /\ Dist(ticket[Line[i]]) = i - 1
  /\ \A p, q \in Busy : Dist(ticket[p]) = Dist(ticket[q]) => p = q

\* The line in the order of the tickets holds each waiting CPU once.
LEMMA LineShape == TicketsInOrder => LineRight
PROOF
<1> SUFFICES ASSUME TicketsInOrder PROVE LineRight
  OBVIOUS
<1>1. \A i \in 1 .. Cardinality(Busy) : Line[i] \in Busy /\ Dist(ticket[Line[i]]) = i - 1
  BY DEF Line, TicketsInOrder
<1>2. Line \in [1 .. Cardinality(Busy) -> Cpus]
  BY <1>1 DEF Line, Busy
<1>3. \A p, q \in Busy : Dist(ticket[p]) = Dist(ticket[q]) => p = q
  BY TicketAssumption DEF TicketsInOrder, LockTypeOK, Dist, Busy
<1> QED
  BY <1>1, <1>2, <1>3, BusyBound DEF LineRight

\* lock takes a ticket: its CPU joins the line at the end.
LEMMA LockAsks ==
  ASSUME TicketsInOrder, LineRight, LineRight', NEW p \in Cpus, lock(p)
  PROVE  Fifo!Ask(p)
PROOF
<1>1. Busy' = Busy \cup {p} /\ p \notin Busy
  BY DEF Busy, lock, TicketsInOrder, LockTypeOK
<1>2. Cardinality(Busy') = Cardinality(Busy) + 1
  BY <1>1, BusyBound, FS_AddElement
<1>3. Inside' = Inside
  BY DEF Inside, lock, TicketsInOrder, LockTypeOK
<1>4. p \notin {Line[i] : i \in DOMAIN Line}
  BY <1>1 DEF Line, LineRight
<1>5. \A q \in Busy : Dist(ticket[q])' = Dist(ticket[q])
  BY <1>1 DEF Dist, lock, TicketsInOrder, LockTypeOK, Busy
<1>6. Dist(ticket[p])' = Cardinality(Busy)
  BY DEF Dist, lock, TicketsInOrder, LockTypeOK
<1>7. ASSUME NEW i \in 1 .. Cardinality(Busy') PROVE Line'[i] = Append(Line, p)[i]
  <2>1. /\ Line'[i] \in Busy' /\ Dist(ticket[Line[i]])' = i - 1
        /\ \A q, r \in Busy' : Dist(ticket[q])' = Dist(ticket[r])' => q = r
    BY DEF LineRight
  <2>2. CASE i = Cardinality(Busy')
    <3>1. Line'[i] = p
      BY <2>1, <2>2, <1>1, <1>2, <1>6, BusyBound
    <3> QED
      BY <3>1, <2>2, <1>2, BusyBound DEF LineRight
  <2>3. CASE i \in 1 .. Cardinality(Busy)
    <3>1. Line[i] \in Busy /\ Dist(ticket[Line[i]]) = i - 1
      BY <2>3 DEF LineRight
    <3>2. Line'[i] = Line[i]
      BY <2>1, <3>1, <1>1, <1>5
    <3> QED
      BY <3>2, <2>3, BusyBound DEF LineRight
  <2>4. i = Cardinality(Busy') \/ i \in 1 .. Cardinality(Busy)
    BY <1>2, BusyBound
  <2> QED
    BY <2>2, <2>3, <2>4, Zenon
<1>8. Line' = Append(Line, p)
  <2>1. Line' \in Seq(Cpus) /\ Len(Line') = Cardinality(Busy) + 1
    BY <1>2 DEF LineRight
  <2>2. Append(Line, p) \in Seq(Cpus) /\ Len(Append(Line, p)) = Cardinality(Busy) + 1
    BY DEF LineRight
  <2> QED
    BY <2>1, <2>2, <1>2, <1>7, BusyBound
<1> QED
  BY <1>3, <1>4, <1>8 DEF Fifo!Ask

\* The CPU whose ticket is served is the first of the line.
LEMMA AcquireGets ==
  ASSUME TicketsInOrder, LineRight, NEW p \in Cpus, acquire(p)
  PROVE  Fifo!Get
PROOF
<1>1. p \in Busy /\ Busy' = Busy /\ UNCHANGED <<now_serving, ticket>>
  BY DEF Busy, acquire, TicketsInOrder, LockTypeOK
<1>2. Line' = Line
  BY <1>1 DEF Line, Dist
<1>3. Cardinality(Busy) >= 1 /\ Dist(ticket[p]) = 0
  BY <1>1, BusyBound, TicketAssumption DEF acquire, TicketsInOrder, LockTypeOK, Dist
<1>4. Line[1] = p /\ Line # <<>>
  BY <1>1, <1>3, BusyBound DEF LineRight
<1>5. \A q \in Inside : Dist(ticket[q]) = 0 /\ q \in Busy
  BY TicketAssumption DEF Inside, Busy, TicketsInOrder, LockTypeOK, Dist
<1>6. Inside = {}
  BY <1>1, <1>3, <1>5 DEF LineRight, Inside, acquire
<1>7. Inside' = {p}
  BY <1>6 DEF Inside, acquire, TicketsInOrder, LockTypeOK
<1> QED
  BY <1>2, <1>4, <1>6, <1>7 DEF Fifo!Get, LineRight

\* drop serves the next ticket: the first of the line leaves it.
LEMMA DropReleases ==
  ASSUME TicketsInOrder, LineRight, LineRight', NEW p \in Cpus, drop(p)
  PROVE  Fifo!Release
PROOF
<1>1. Busy' = Busy \ {p} /\ p \in Busy /\ ticket' = ticket
  BY DEF Busy, drop, TicketsInOrder, LockTypeOK
<1>2. Cardinality(Busy') = Cardinality(Busy) - 1
  BY <1>1, BusyBound, FS_RemoveElement
<1>3. ticket[p] = now_serving /\ now_serving' = Succ(now_serving)
  BY DEF drop, TicketsInOrder, LockTypeOK
<1>4. ASSUME NEW q \in Busy' PROVE q \in Busy /\ Dist(ticket[q])' = Dist(ticket[q]) - 1
  <2>1. q \in Busy /\ ticket[q] # now_serving
    BY <1>1, <1>3 DEF TicketsInOrder
  <2> QED
    BY <2>1, <1>1, <1>3, TicketAssumption DEF Dist, Succ, TicketsInOrder, LockTypeOK, Busy
<1>5. Cardinality(Busy) >= 1 /\ Cardinality(Busy') \in Nat
  BY <1>1, BusyBound, <1>2, FS_RemoveElement, FS_CardinalityType
<1>6. ASSUME NEW i \in 1 .. Cardinality(Busy') PROVE Line'[i] = Line[i + 1]
  <2>1. Line'[i] \in Busy' /\ Dist(ticket[Line[i]])' = i - 1
    BY DEF LineRight
  <2>2. Line'[i] \in Busy /\ Dist(ticket[Line'[i]]) = i
    BY <2>1, <1>1, <1>4, TicketAssumption DEF TicketsInOrder, LockTypeOK, Dist, Busy
  <2>3. i + 1 \in 1 .. Cardinality(Busy)
    BY <1>2, <1>5, BusyBound
  <2>4. Line[i + 1] \in Busy /\ Dist(ticket[Line[i + 1]]) = (i + 1) - 1
    BY <2>3 DEF LineRight
  <2> QED
    BY <2>2, <2>4 DEF LineRight
<1>7. Line' = Tail(Line)
  <2>1. Line # <<>> /\ Tail(Line) \in Seq(Cpus) /\ Len(Tail(Line)) = Cardinality(Busy')
    BY <1>2, <1>5, BusyBound DEF LineRight
  <2>2. \A i \in 1 .. Cardinality(Busy') : Tail(Line)[i] = Line[i + 1]
    BY <2>1, <1>2, <1>5 DEF LineRight
  <2> QED
    BY <2>1, <2>2, <1>6 DEF LineRight
<1>8. Inside = {p}
  BY <1>1, LineShape DEF Inside, drop, TicketsInOrder, LockTypeOK, Busy
<1>9. Inside' = {}
  BY <1>8 DEF Inside, drop, TicketsInOrder, LockTypeOK
<1> QED
  BY <1>7, <1>8, <1>9 DEF Fifo!Release

\* The ticket lock is a first come, first served lock: a CPU that draws a ticket joins the
\* line at its end, and whoever takes the lock is at its head.
THEOREM TicketLockIsFifo == LockSpec => ImplementsFifoLock
PROOF
<1>1. LockInit => Fifo!Init
  <2> SUFFICES ASSUME LockInit PROVE Line = <<>> /\ Inside = {}
    BY DEF Fifo!Init
  <2>1. Busy = {} /\ Inside = {}
    BY DEF LockInit, Busy, Inside
  <2>2. Cardinality(Busy) = 0
    BY <2>1, FS_EmptySet
  <2>3. Line \in Seq(Cpus) /\ Len(Line) = 0
    BY <2>2, InitInOrder, LineShape DEF LineRight
  <2> QED
    BY <2>1, <2>3
<1>2. ASSUME TicketsInOrder, LineRight, LineRight', [LockNext]_lockvars
      PROVE  [Fifo!Next]_<<Line, Inside>>
  <2>1. CASE UNCHANGED lockvars
    BY <2>1 DEF lockvars, Line, Inside, Busy, Dist
  <2>2. ASSUME NEW p \in Cpus, panic(p) PROVE UNCHANGED <<Line, Inside>>
    <3>1. Busy' = Busy /\ Inside' = Inside
      BY <1>2, <2>2 DEF Busy, Inside, panic, TicketsInOrder, LockTypeOK
    <3> QED
      BY <2>2, <3>1 DEF panic, Line, Dist
  <2> QED
    BY <1>2, <2>1, <2>2, LockAsks, AcquireGets, DropReleases DEF LockNext, Fifo!Next
<1> QED
  BY <1>1, <1>2, TicketOrder, LineShape, PTL DEF LockSpec, ImplementsFifoLock, Fifo!Spec

-----------------------------------------------------------------------------
(* The composed system uses the lock so.                                   *)

\* A step of a CPU that runs is a step of the lock or leaves it alone.
LEMMA RunIsLockStep ==
  ASSUME NEW p \in Cpus, Run(p)
  PROVE  LockNext \/ UNCHANGED lockvars
PROOF
<1>1. CASE pop(p)
  BY <1>1 DEF pop, LockNext
<1>2. CASE push(p) \/ handle_mmio(p)
  BY <1>2 DEF push, handle_mmio, LockNext
<1>3. CASE release(p) \/ unlock(p)
  BY <1>3 DEF release, unlock, LockNext
<1>4. CASE wfe(p) \/ take(p) \/ secondary_enter_guest(p) \/ popped(p) \/ raise(p) \/ sev(p) \/ request(p)
  BY <1>4, Zenon DEF wfe, take, secondary_enter_guest, popped, raise, sev, request
<1>5. CASE \/ inject_pending_sgis(p) \/ inject_pending_spis(p) \/ sgi_irq(p) \/ uart_irq(p) \/ rx(p)
           \/ rx_publish(p) \/ send_physical_sgi(p) \/ flush_pending_spis_to_hardware(p)
  BY <1>5 DEF inject_pending_sgis, inject_pending_spis, sgi_irq, uart_irq, rx, rx_publish,
              send_physical_sgi, flush_pending_spis_to_hardware
<1> QED
  BY <1>1, <1>2, <1>3, <1>4, <1>5 DEF Run

\* And so is every step.
LEMMA NextIsLockStep == [Next]_vars => [LockNext]_lockvars
PROOF
<1> SUFFICES ASSUME [Next]_vars PROVE LockNext \/ UNCHANGED lockvars
  OBVIOUS
<1>1. CASE UNCHANGED vars
  BY <1>1 DEF vars
<1>2. CASE byte
  BY <1>2 DEF byte
<1>3. CASE \E p \in Cpus : Run(p)
  BY <1>3, RunIsLockStep
<1>4. ASSUME NEW p \in Cpus, Virq(p) PROVE UNCHANGED lockvars
  BY <1>4 DEF Virq, virq
<1>5. ASSUME NEW p \in Cpus, Operation(p) PROVE LockNext \/ UNCHANGED lockvars
  BY <1>5, Zenon DEF Operation, handle_sgi_trap, cpu_on, cpu_off, mmio, LockNext
<1> QED
  BY <1>1, <1>2, <1>3, <1>4, <1>5 DEF Next

\* The CPUs use the device lock as sync.rs means it to be used: every run of the composed
\* system is, seen from the lock, a run of TicketLock.
THEOREM ImplementsTicketLock == Spec => LockSpec
PROOF
<1>1. Init => LockInit
  BY DEF Init
<1> QED
  BY <1>1, NextIsLockStep, PTL DEF Spec, LockSpec

\* No two CPUs are inside handle_mmio or push at once, and tickets are served in the order
\* in which they were drawn.
THEOREM DevicesExclusive == Spec => [](MutualExclusion /\ TicketsInOrder)
BY ImplementsTicketLock, TicketOrder, LockExclusive, PTL

\* CPUs get to the devices in the order in which they drew their tickets, one at a time.
THEOREM DevicesInTurn == Spec => ImplementsFifoLock
BY ImplementsTicketLock, TicketLockIsFifo, PTL

-----------------------------------------------------------------------------
(* CPU_ON.                                                                 *)

\* No CPU_ON has been made at first.
LEMMA InitStart == Init => StartInv
PROOF
<1> SUFFICES ASSUME Init PROVE StartInv
  OBVIOUS
<1> USE MultiPcpuAssumption
<1>1. StartTypes
  <2>1. todo \in [DOMAIN todo -> Nat] /\ DOMAIN todo \subseteq Operations
    BY DEF Init, Operations
  <2>2. at \in [Cpus -> Places]
    BY DEF Init, Places, IdlePlaces
  <2>4. acc \in [Cpus -> Operations \cup {None}]
    <3>1. acc = [p \in Cpus |-> None]
      BY DEF Init
    <3> HIDE DEF None
    <3> QED
      BY <3>1
  <2>3. slot \in [Cpus -> [requested : BOOLEAN, entry : Nat]] /\ entry \in [Cpus -> Nat] /\ asked \in [Cpus -> Nat]
    BY DEF Init, Operations
  <2> QED
    BY <2>1, <2>2, <2>3, <2>4 DEF StartTypes
<1>2. /\ \A t \in Cpus : at[t] \notin {"request", "start", "take"}
      /\ online = {p \in Cpus : at[p] \notin IdlePlaces}
  BY DEF Init, IdlePlaces
<1> QED
  BY <1>1, <1>2, Zenon DEF Init, StartInv, EntryRight, Requests

\* Where an operation may come from and what it leaves of the guest's plan.
LEMMA UsesTypes ==
  ASSUME StartTypes, NEW o, Uses(o)
  PROVE  /\ todo' \in [DOMAIN todo' -> Nat] /\ DOMAIN todo' = DOMAIN todo
         /\ o \in Operations
         /\ todo[o] \in Nat /\ todo[o] # 0
PROOF
<1>1. todo[o] \in Nat /\ todo[o] > 0
  BY DEF StartTypes, Uses
<1> QED
  BY <1>1 DEF StartTypes, Uses

\* A step between two places of the run loop keeps the invariant, if it leaves the slots
\* and the start of vCPUs alone.
LEMMA QuietKeeps ==
  ASSUME StartInv, StartTypes', NEW p \in Cpus, NEW x,
         UNCHANGED <<slot, entry, asked, online>>,
         at' = [at EXCEPT ![p] = x],
         at[p] \notin IdlePlaces \cup {"request"}, x \notin IdlePlaces \cup {"request"},
         \A q \in Cpus : q # p => acc'[q] = acc[q]
  PROVE  StartInv'
PROOF
<1>1. \A q, t \in Cpus : Requests(q, t)' <=> Requests(q, t)
  BY DEF StartInv, StartTypes, Requests
<1>2. \A t \in Cpus : (at'[t] = "start" <=> at[t] = "start") /\ (at'[t] \in IdlePlaces <=> at[t] \in IdlePlaces)
  BY DEF StartInv, StartTypes, IdlePlaces
<1>3. \A t \in Cpus : at'[t] = "request" => t # p /\ at[t] = "request" /\ acc'[t] = acc[t]
  BY DEF StartInv, StartTypes
<1> QED
  BY <1>1, <1>2, <1>3 DEF StartInv, EntryRight

\* Where send_physical_sgi comes from and goes to.
LEMMA SendGoes ==
  ASSUME NEW p \in Cpus, send_physical_sgi(p)
  PROVE  /\ at[p] \in {"ipi", "ipi_all", "ipi_mmio", "ipi_raise"}
         /\ \E w \in {"guest", "drop", "sgis"} : Goto(p, w)
         /\ UNCHANGED <<slot, entry, asked, online, todo, acc>>
PROOF
<1>1. PICK f : f = AfterIpi
  BY Zenon
<1>2. /\ DOMAIN f = {"ipi", "ipi_all", "ipi_mmio", "ipi_raise"}
      /\ \A x \in DOMAIN f : f[x] \in {"guest", "drop", "sgis"}
  BY <1>1 DEF AfterIpi
<1>3. at[p] \in DOMAIN f /\ Goto(p, f[at[p]])
  BY <1>1, Zenon DEF send_physical_sgi
<1>4. UNCHANGED <<slot, entry, asked, online, todo, acc>>
  BY Zenon DEF send_physical_sgi, psci
<1> QED
  BY <1>2, <1>3, <1>4, Zenon

\* The steps that only move a CPU from one place of the run loop to the next.
LEMMA LoopKeeps ==
  ASSUME StartInv, NEW p \in Cpus,
         \/ popped(p) \/ push(p) \/ release(p) \/ raise(p) \/ pop(p) \/ sev(p)
         \/ inject_pending_sgis(p) \/ inject_pending_spis(p) \/ sgi_irq(p) \/ uart_irq(p)
         \/ rx_publish(p) \/ send_physical_sgi(p) \/ handle_mmio(p) \/ unlock(p)
         \/ flush_pending_spis_to_hardware(p)
  PROVE  StartInv'
PROOF
<1> USE DEF psci, IdlePlaces, Places
<1>1. CASE popped(p) \/ push(p) \/ sev(p) \/ sgi_irq(p) \/ rx_publish(p) \/ uart_irq(p)
  <2>1. PICK x \in Places : at' = [at EXCEPT ![p] = x] /\ x \notin IdlePlaces \cup {"request"}
    BY <1>1 DEF popped, push, sev, sgi_irq, rx_publish, uart_irq, Goto, Top
  <2>2. UNCHANGED <<slot, entry, asked, online, todo, acc>> /\ at[p] \notin IdlePlaces \cup {"request"}
    BY <1>1 DEF popped, push, sev, sgi_irq, rx_publish, uart_irq
  <2>3. StartTypes'
    BY <2>1, <2>2 DEF StartInv, StartTypes
  <2> QED
    BY <2>1, <2>2, <2>3, QuietKeeps, Zenon
<1>2. CASE release(p) \/ raise(p) \/ pop(p) \/ handle_mmio(p)
  <2>1. PICK x \in Places : at' = [at EXCEPT ![p] = x] /\ x \notin IdlePlaces \cup {"request"}
    BY <1>2, Zenon DEF release, raise, pop, handle_mmio, Goto
  <2>2. UNCHANGED <<slot, entry, asked, online, todo, acc>> /\ at[p] \notin IdlePlaces \cup {"request"}
    BY <1>2, Zenon DEF release, raise, pop, handle_mmio
  <2>3. StartTypes'
    BY <2>1, <2>2 DEF StartInv, StartTypes
  <2> QED
    BY <2>1, <2>2, <2>3, QuietKeeps, Zenon
<1>3. CASE \/ inject_pending_sgis(p) \/ inject_pending_spis(p) \/ flush_pending_spis_to_hardware(p)
           \/ send_physical_sgi(p)
  <2>0. PICK w \in {"spis", "guest", "drop", "sgis"} : Goto(p, w)
    <3>1. CASE inject_pending_sgis(p) \/ inject_pending_spis(p) \/ flush_pending_spis_to_hardware(p)
      BY <3>1, Zenon DEF inject_pending_sgis, inject_pending_spis, flush_pending_spis_to_hardware
    <3>2. CASE send_physical_sgi(p)
      BY <3>2, SendGoes
    <3> QED
      BY <1>3, <3>1, <3>2, Zenon
  <2>1. PICK x \in Places : at' = [at EXCEPT ![p] = x] /\ x \notin IdlePlaces \cup {"request"}
    BY <2>0, Zenon DEF Goto, Places, IdlePlaces
  <2>2. UNCHANGED <<slot, entry, asked, online, todo, acc>> /\ at[p] \notin IdlePlaces \cup {"request"}
    <3>1. CASE inject_pending_sgis(p) \/ inject_pending_spis(p) \/ flush_pending_spis_to_hardware(p)
      BY <3>1, Zenon DEF inject_pending_sgis, inject_pending_spis, flush_pending_spis_to_hardware
    <3>2. CASE send_physical_sgi(p)
      BY <3>2, SendGoes DEF IdlePlaces
    <3> QED
      BY <1>3, <3>1, <3>2, Zenon
  <2>3. StartTypes'
    BY <2>1, <2>2 DEF StartInv, StartTypes
  <2> QED
    BY <2>1, <2>2, <2>3, QuietKeeps, Zenon
<1>4. CASE unlock(p)
  <2>1. at' = [at EXCEPT ![p] = "flush"] /\ acc' = [acc EXCEPT ![p] = None] /\ at[p] = "drop"
    BY <1>4 DEF unlock, Goto
  <2>2. UNCHANGED <<slot, entry, asked, online, todo>>
    BY <1>4 DEF unlock
  <2>3. acc' \in [Cpus -> Operations \cup {None}] /\ \A q \in Cpus : q # p => acc'[q] = acc[q]
    BY <2>1 DEF StartInv, StartTypes
  <2>4. StartTypes'
    BY <2>1, <2>2, <2>3 DEF StartInv, StartTypes
  <2> QED
    BY <2>1, <2>2, <2>3, <2>4, QuietKeeps, Zenon
<1> QED
  BY <1>1, <1>2, <1>3, <1>4

\* The receive handler may stay where it is.
LEMMA RxKeeps ==
  ASSUME StartInv, NEW p \in Cpus, rx(p)
  PROVE  StartInv'
PROOF
<1>1. UNCHANGED <<slot, entry, asked, online, todo, acc>> /\ at[p] = "rx"
  BY DEF rx, psci
<1>2. PICK x \in Places : at' = [at EXCEPT ![p] = x] /\ x \notin IdlePlaces \cup {"request"}
  BY <1>1 DEF rx, Goto, Top, IdlePlaces, Places, StartInv, StartTypes
<1>3. StartTypes'
  BY <1>1, <1>2 DEF StartInv, StartTypes
<1> QED
  BY <1>1, <1>2, <1>3, QuietKeeps, Zenon DEF IdlePlaces
\* The idle loop: from waiting to looking, and back or on to the start.
LEMMA IdleKeeps ==
  ASSUME StartInv, NEW p \in Cpus, wfe(p) \/ take(p)
  PROVE  StartInv'
PROOF
<1>1. UNCHANGED <<todo, entry, asked, online, acc>>
  BY DEF wfe, take
<1>2. CASE wfe(p)
  <2>1. at' = [at EXCEPT ![p] = "take"] /\ at[p] = "wfe" /\ slot' = slot
    BY <1>2 DEF wfe, Goto
  <2>2. StartTypes'
    BY <1>1, <2>1 DEF StartInv, StartTypes, Places, IdlePlaces
  <2>3. \A q, t \in Cpus : Requests(q, t)' <=> Requests(q, t)
    BY <1>1, <2>1 DEF StartInv, StartTypes, Requests
  <2> QED
    BY <1>1, <2>1, <2>2, <2>3 DEF StartInv, StartTypes, EntryRight, IdlePlaces
<1>3. CASE take(p) /\ ~slot[p].requested
  <2>1. at' = [at EXCEPT ![p] = "wfe"] /\ at[p] = "take"
    BY <1>3 DEF take, Goto
  <2>2. slot' = slot
    BY <1>3 DEF take, StartInv, StartTypes
  <2>3. StartTypes'
    BY <1>1, <2>1, <2>2 DEF StartInv, StartTypes, Places, IdlePlaces
  <2>4. \A q, t \in Cpus : Requests(q, t)' <=> Requests(q, t)
    BY <1>1, <2>1 DEF StartInv, StartTypes, Requests
  <2> QED
    BY <1>1, <2>1, <2>2, <2>3, <2>4 DEF StartInv, StartTypes, EntryRight, IdlePlaces
<1>4. CASE take(p) /\ slot[p].requested
  <2>1. at' = [at EXCEPT ![p] = "start"] /\ at[p] = "take"
    BY <1>4 DEF take, Goto
  <2>2. slot' = [slot EXCEPT ![p].requested = FALSE]
    BY <1>4 DEF take
  <2>3. StartTypes'
    <3>1. slot' \in [Cpus -> [requested : BOOLEAN, entry : Nat]]
      BY <2>2, Zenon DEF StartInv, StartTypes
    <3>2. at' \in [Cpus -> Places]
      BY <2>1 DEF StartInv, StartTypes, Places, IdlePlaces
    <3> QED
      BY <1>1, <3>1, <3>2 DEF StartInv, StartTypes
  <2>4. \A q, t \in Cpus : Requests(q, t)' <=> Requests(q, t)
    BY <1>1, <2>1 DEF StartInv, StartTypes, Requests
  <2>5. /\ \A t \in Cpus : slot'[t].entry = slot[t].entry
        /\ \A t \in Cpus : t # p => slot'[t] = slot[t] /\ at'[t] = at[t]
        /\ ~slot'[p].requested /\ at'[p] = "start"
    BY <2>1, <2>2 DEF StartInv, StartTypes
  <2>6. online' = {q \in Cpus : at'[q] \notin IdlePlaces} /\ 0 \in online'
    BY <1>1, <2>1, <2>5 DEF StartInv, StartTypes, IdlePlaces
  <2>7. \A q \in Cpus : at'[q] = "request" => acc'[q].target \in Cpus
    BY <1>1, <2>1, <2>5 DEF StartInv, StartTypes
  <2>8. asked[p] # 0 /\ p \notin online /\ \A q \in Cpus : ~Requests(q, p)
    BY <1>4 DEF StartInv
  <2>9. EntryRight'
    BY <1>1, <2>6 DEF StartInv, EntryRight, IdlePlaces
  <2>10. ASSUME NEW t \in Cpus, t # p
         PROVE  /\ asked'[t] # 0 => slot'[t].entry = asked'[t]
                /\ slot'[t].requested \/ at'[t] = "start" \/ (\E q \in Cpus : Requests(q, t)') =>
                     asked'[t] # 0 /\ t \notin online'
                /\ slot'[t].requested => at'[t] # "start" /\ \A q \in Cpus : ~Requests(q, t)'
                /\ at'[t] = "start" => \A q \in Cpus : ~Requests(q, t)'
    BY <1>1, <2>4, <2>5, <2>10, Zenon DEF StartInv
  <2>11. /\ asked'[p] # 0 => slot'[p].entry = asked'[p]
         /\ asked'[p] # 0 /\ p \notin online' /\ ~slot'[p].requested
         /\ \A q \in Cpus : ~Requests(q, p)'
    BY <1>1, <2>4, <2>5, <2>8, Zenon DEF StartInv
  <2>12. \A t, q, r \in Cpus : Requests(q, t)' /\ Requests(r, t)' => q = r
    BY <2>4, Zenon DEF StartInv
  <2> QED
    BY <2>3, <2>6, <2>7, <2>9, <2>10, <2>11, <2>12, Zenon DEF StartInv
<1> QED
  BY <1>2, <1>3, <1>4

\* The loads of entry point and context, and the way into the run loop.
LEMMA EnterKeeps ==
  ASSUME StartInv, NEW p \in Cpus, secondary_enter_guest(p)
  PROVE  StartInv'
PROOF
<1>1. UNCHANGED <<todo, slot, asked, acc>> /\ at[p] = "start"
  BY Zenon DEF secondary_enter_guest
<1>2. PICK x \in Places : at' = [at EXCEPT ![p] = x] /\ x \notin IdlePlaces \cup {"request"}
  <2>1. at' = [at EXCEPT ![p] = Top(p)]
    BY DEF secondary_enter_guest, Goto
  <2>2. Top(p) \in Places /\ Top(p) \notin IdlePlaces \cup {"request"}
    BY DEF Top, Places, IdlePlaces
  <2> QED
    BY <2>1, <2>2, Zenon
<1>3. entry' = [entry EXCEPT ![p] = slot[p].entry] /\ online' = online \cup {p}
  BY DEF secondary_enter_guest
<1>4. StartTypes'
  BY <1>1, <1>2, <1>3 DEF StartInv, StartTypes
<1>5. /\ asked[p] = slot[p].entry /\ p \notin online /\ ~slot[p].requested
      /\ \A q \in Cpus : ~Requests(q, p)
  BY <1>1 DEF StartInv
<1>6. \A q, t \in Cpus : Requests(q, t)' <=> Requests(q, t)
  BY <1>1, <1>2 DEF StartInv, StartTypes, Requests
<1>7. EntryRight'
  BY <1>1, <1>3, <1>5 DEF StartInv, StartTypes, EntryRight
<1>8. online' = {q \in Cpus : at'[q] \notin IdlePlaces} /\ 0 \in online'
  BY <1>2, <1>3 DEF StartInv, StartTypes
<1>9. \A t \in Cpus : t # p => at'[t] = at[t]
  BY <1>2 DEF StartInv, StartTypes
<1>10. at'[p] # "start" /\ at'[p] # "request"
  BY <1>2 DEF StartInv, StartTypes, IdlePlaces
<1> QED
  BY <1>1, <1>3, <1>4, <1>5, <1>6, <1>7, <1>8, <1>9, <1>10 DEF StartInv
\* The store to requested, which publishes the entry point.
LEMMA RequestKeeps ==
  ASSUME StartInv, NEW p \in Cpus, request(p)
  PROVE  StartInv'
PROOF
<1> DEFINE t == acc[p].target
<1>1. UNCHANGED <<todo, entry, asked, online>> /\ at[p] = "request"
  BY DEF request
<1>2. at' = [at EXCEPT ![p] = "sev"] /\ acc' = [acc EXCEPT ![p] = None]
  BY DEF request, Goto
<1>3. slot' = [slot EXCEPT ![t].requested = TRUE] /\ t \in Cpus
  BY <1>1 DEF request, Request, StartInv
<1>4. asked[t] # 0 /\ t \notin online /\ at[t] # "start" /\ ~slot[t].requested
  BY <1>1, <1>3 DEF StartInv, Requests
<1>5. StartTypes'
  <2>1. slot' \in [Cpus -> [requested : BOOLEAN, entry : Nat]]
    BY <1>3, Zenon DEF StartInv, StartTypes
  <2>2. at' \in [Cpus -> Places]
    BY <1>2 DEF StartInv, StartTypes, Places
  <2>3. acc' \in [Cpus -> Operations \cup {None}]
    BY <1>2 DEF StartInv, StartTypes
  <2> QED
    BY <1>1, <2>1, <2>2, <2>3 DEF StartInv, StartTypes
<1>6. /\ \A q \in Cpus : q # p => at'[q] = at[q] /\ acc'[q] = acc[q]
      /\ at'[p] = "sev"
      /\ \A q \in Cpus : q # t => slot'[q] = slot[q]
      /\ slot'[t].requested /\ slot'[t].entry = slot[t].entry
  BY <1>2, <1>3 DEF StartInv, StartTypes
<1>7. \A q, u \in Cpus : Requests(q, u)' <=> q # p /\ Requests(q, u)
  BY <1>6 DEF Requests
<1>8. \A q \in Cpus : q # p => ~Requests(q, t)
  BY <1>1, <1>3 DEF StartInv, Requests
<1>9. online' = {q \in Cpus : at'[q] \notin IdlePlaces} /\ 0 \in online'
  BY <1>1, <1>6 DEF StartInv, StartTypes, IdlePlaces
<1>10. \A q \in Cpus : at'[q] = "start" => q # p /\ q # t /\ at[q] = "start"
  BY <1>1, <1>4, <1>6
<1>11. EntryRight'
  BY <1>1 DEF StartInv, EntryRight
<1>12. \A q \in Cpus : at'[q] = "request" => acc'[q].target \in Cpus
  BY <1>6 DEF StartInv
<1>13. \A u \in Cpus : asked'[u] # 0 => slot'[u].entry = asked'[u]
  BY <1>1, <1>6 DEF StartInv
<1> HIDE DEF t
<1>14. ASSUME NEW u \in Cpus
       PROVE  /\ slot'[u].requested \/ at'[u] = "start" \/ (\E q \in Cpus : Requests(q, u)') => asked'[u] # 0 /\ u \notin online'
              /\ slot'[u].requested => at'[u] # "start" /\ \A q \in Cpus : ~Requests(q, u)'
              /\ at'[u] = "start" => \A q \in Cpus : ~Requests(q, u)'
              /\ \A q, r \in Cpus : Requests(q, u)' /\ Requests(r, u)' => q = r
  BY <1>1, <1>4, <1>6, <1>7, <1>8, <1>10 DEF StartInv
<1> QED
  BY <1>5, <1>9, <1>11, <1>12, <1>13, <1>14 DEF StartInv
\* CPU_ON up to the store of the entry point, or refused for a CPU that does not exist.
LEMMA CpuOnKeeps ==
  ASSUME StartInv, NEW p \in Cpus, NEW o, cpu_on(p, o)
  PROVE  StartInv'
PROOF
<1>1. /\ UNCHANGED <<entry, online>> /\ at[p] = "guest" /\ Uses(o) /\ o.target \notin online
  BY DEF cpu_on
<1>2. /\ todo' \in [DOMAIN todo' -> Nat] /\ DOMAIN todo' = DOMAIN todo
      /\ o \in Operations /\ todo[o] \in Nat /\ todo[o] # 0
  BY <1>1, UsesTypes DEF StartInv
<1>3. CASE o.target \notin Cpus
  <2>1. UNCHANGED <<asked, slot, acc>> /\ at' = [at EXCEPT ![p] = Top(p)]
    BY <1>3 DEF cpu_on, Goto
  <2>2. Top(p) \in Places /\ Top(p) \notin IdlePlaces \cup {"request"}
    BY DEF Top, Places, IdlePlaces
  <2>3. StartTypes'
    BY <1>1, <1>2, <2>1, <2>2 DEF StartInv, StartTypes
  <2> QED
    BY <1>1, <2>1, <2>2, <2>3, QuietKeeps, Zenon DEF IdlePlaces
<1>4. CASE o.target \in Cpus
  <2> DEFINE t == o.target
  <2>1. /\ asked[t] = 0 /\ asked' = [asked EXCEPT ![t] = todo[o]]
        /\ acc' = [acc EXCEPT ![p] = o] /\ at' = [at EXCEPT ![p] = "request"]
    BY <1>4 DEF cpu_on, Goto
  <2>2. slot' = [slot EXCEPT ![t].entry = todo[o]]
    BY <1>4, <2>1, Zenon DEF cpu_on, Request, StartInv, StartTypes
  <2>3. StartTypes'
    <3>1. slot' \in [Cpus -> [requested : BOOLEAN, entry : Nat]]
      BY <1>2, <2>2, Zenon DEF StartInv, StartTypes
    <3>2. at' \in [Cpus -> Places]
      BY <2>1 DEF StartInv, StartTypes, Places
    <3>3. acc' \in [Cpus -> Operations \cup {None}]
      BY <1>2, <2>1 DEF StartInv, StartTypes
    <3>4. asked' \in [Cpus -> Nat]
      BY <1>2, <2>1, Zenon DEF StartInv, StartTypes
    <3> QED
      BY <1>1, <1>2, <3>1, <3>2, <3>3, <3>4 DEF StartInv, StartTypes
  <2>4. /\ \A q \in Cpus : q # p => at'[q] = at[q] /\ acc'[q] = acc[q]
        /\ at'[p] = "request" /\ acc'[p].target = t
        /\ \A q \in Cpus : q # t => slot'[q] = slot[q] /\ asked'[q] = asked[q]
        /\ slot'[t].requested = slot[t].requested /\ slot'[t].entry = asked'[t] /\ asked'[t] # 0
    BY <1>2, <1>4, <2>1, <2>2 DEF StartInv, StartTypes
  <2>5. ~slot[t].requested /\ at[t] # "start" /\ \A q \in Cpus : ~Requests(q, t)
    BY <1>4, <2>1 DEF StartInv
  <2>6. \A q, u \in Cpus : Requests(q, u)' <=> Requests(q, u) \/ (q = p /\ u = t)
    BY <1>1, <2>4 DEF Requests
  <2>7. online' = {q \in Cpus : at'[q] \notin IdlePlaces} /\ 0 \in online'
    BY <1>1, <2>4 DEF StartInv, StartTypes, IdlePlaces
  <2>8. EntryRight'
    BY <1>1, <2>4, Zenon DEF StartInv, EntryRight
  <2>9. \A q \in Cpus : at'[q] = "request" => acc'[q].target \in Cpus
    BY <1>4, <2>4, Zenon DEF StartInv
  <2>10. \A u \in Cpus : at'[u] = "start" <=> at[u] = "start"
    BY <1>1, <2>4
  <2> HIDE DEF t
  <2>11. \A u \in Cpus : asked'[u] # 0 => slot'[u].entry = asked'[u]
    BY <2>4 DEF StartInv
  <2>12. ASSUME NEW u \in Cpus
         PROVE  /\ slot'[u].requested \/ at'[u] = "start" \/ (\E q \in Cpus : Requests(q, u)') => asked'[u] # 0 /\ u \notin online'
                /\ slot'[u].requested => at'[u] # "start" /\ \A q \in Cpus : ~Requests(q, u)'
                /\ at'[u] = "start" => \A q \in Cpus : ~Requests(q, u)'
                /\ \A q, r \in Cpus : Requests(q, u)' /\ Requests(r, u)' => q = r
    <3>1. t \notin online
      BY <1>1 DEF t
    <3> QED
      BY <1>1, <2>4, <2>5, <2>6, <2>10, <3>1 DEF StartInv
  <2> QED
    BY <2>3, <2>7, <2>8, <2>9, <2>11, <2>12 DEF StartInv
<1> QED
  BY <1>3, <1>4

\* CPU_OFF of a secondary ends what its CPU_ON said; nothing is under way for it then.
LEMMA CpuOffKeeps ==
  ASSUME StartInv, NEW p \in Cpus, NEW o, cpu_off(p, o)
  PROVE  StartInv'
PROOF
<1>1. UNCHANGED <<slot, entry, acc>> /\ at[p] = "guest" /\ Uses(o)
  BY DEF cpu_off
<1>2. todo' \in [DOMAIN todo' -> Nat] /\ DOMAIN todo' = DOMAIN todo
  BY <1>1, UsesTypes DEF StartInv
<1>3. CASE p = 0
  <2>1. at' = [at EXCEPT ![p] = "off"] /\ UNCHANGED <<online, asked>>
    BY <1>3 DEF cpu_off, Goto
  <2>2. StartTypes'
    BY <1>1, <1>2, <2>1 DEF StartInv, StartTypes, Places
  <2> QED
    BY <1>1, <2>1, <2>2, QuietKeeps, Zenon DEF IdlePlaces
<1>4. CASE p # 0
  <2>1. at' = [at EXCEPT ![p] = "wfe"] /\ online' = online \ {p} /\ asked' = [asked EXCEPT ![p] = 0]
    BY <1>4 DEF cpu_off, Goto
  <2>2. StartTypes'
    BY <1>1, <1>2, <2>1 DEF StartInv, StartTypes, Places, IdlePlaces
  <2>3. /\ \A q \in Cpus : q # p => at'[q] = at[q] /\ asked'[q] = asked[q]
        /\ at'[p] = "wfe" /\ asked'[p] = 0
    BY <2>1 DEF StartInv, StartTypes
  <2>4. p \in online
    BY <1>1 DEF StartInv, IdlePlaces
  <2>5. ~slot[p].requested /\ at[p] # "start" /\ \A q \in Cpus : ~Requests(q, p)
    BY <2>4 DEF StartInv
  <2>6. \A q, u \in Cpus : Requests(q, u)' <=> Requests(q, u)
    BY <1>1, <2>3 DEF Requests
  <2>7. online' = {q \in Cpus : at'[q] \notin IdlePlaces} /\ 0 \in online'
    BY <1>4, <2>1, <2>3 DEF StartInv, StartTypes, IdlePlaces
  <2>8. EntryRight'
    BY <1>1, <2>1, <2>3 DEF StartInv, EntryRight
  <2>9. \A u \in Cpus : at'[u] \in {"start", "request"} => u # p /\ at[u] = at'[u]
    BY <2>3
  <2> QED
    BY <1>1, <2>1, <2>2, <2>3, <2>5, <2>6, <2>7, <2>8, <2>9 DEF StartInv
<1> QED
  BY <1>3, <1>4
\* The other operations of the guest: an SGI, or an access to a device.
LEMMA OperationKeeps ==
  ASSUME StartInv, NEW p \in Cpus, NEW o, handle_sgi_trap(p, o) \/ mmio(p, o)
  PROVE  StartInv'
PROOF
<1>1. UNCHANGED <<slot, entry, asked, online>> /\ at[p] = "guest" /\ Uses(o)
  BY DEF handle_sgi_trap, mmio, psci
<1>2. /\ todo' \in [DOMAIN todo' -> Nat] /\ DOMAIN todo' = DOMAIN todo
      /\ o \in Operations
  BY <1>1, UsesTypes DEF StartInv
<1>3. acc' = acc \/ acc' = [acc EXCEPT ![p] = o]
  BY DEF handle_sgi_trap, mmio
<1>4. PICK x \in {"guest", "ipi", "ipi_all", "mmio"} : at' = [at EXCEPT ![p] = x]
  BY DEF handle_sgi_trap, mmio, Goto
<1>5. acc' \in [Cpus -> Operations \cup {None}] /\ \A q \in Cpus : q # p => acc'[q] = acc[q]
  BY <1>2, <1>3 DEF StartInv, StartTypes
<1>6. StartTypes'
  BY <1>1, <1>2, <1>4, <1>5, Zenon DEF StartInv, StartTypes, Places
<1> QED
  BY <1>1, <1>4, <1>5, <1>6, QuietKeeps, Zenon DEF IdlePlaces

\* Every step keeps what a CPU_ON writes, until it is taken.
LEMMA NextStart == StartInv /\ [Next]_vars => StartInv'
PROOF
<1> SUFFICES ASSUME StartInv, [Next]_vars PROVE StartInv'
  OBVIOUS
<1>1. CASE UNCHANGED vars
  BY <1>1 DEF vars, psci, StartInv, StartTypes, EntryRight, Requests
<1>2. CASE byte
  <2>1. UNCHANGED <<at, slot, entry, asked, online, acc>> /\ Uses(Byte)
    BY <1>2 DEF byte, psci
  <2>2. StartTypes'
    BY <2>1, UsesTypes DEF StartInv, StartTypes
  <2> QED
    BY <2>1, <2>2, Zenon DEF StartInv, EntryRight, Requests
<1>3. ASSUME NEW p \in Cpus, Run(p) PROVE StartInv'
  BY <1>3, LoopKeeps, RxKeeps, IdleKeeps, EnterKeeps, RequestKeeps DEF Run
<1>4. ASSUME NEW p \in Cpus, Virq(p) PROVE StartInv'
  <2>1. UNCHANGED <<at, todo, slot, entry, asked, online, acc>>
    BY <1>4 DEF Virq, virq, psci
  <2> QED
    BY <2>1 DEF StartInv, StartTypes, EntryRight, Requests
<1>5. ASSUME NEW p \in Cpus, Operation(p) PROVE StartInv'
  BY <1>5, OperationKeeps, CpuOnKeeps, CpuOffKeeps DEF Operation
<1> QED
  BY <1>1, <1>2, <1>3, <1>4, <1>5 DEF Next

\* CPU_ON through the three stores of a request slot, the event and the idle loop of the
\* target is under way in one place at a time and starts the vCPU at its entry point.
THEOREM StartInvariance == Spec => []StartInv
BY InitStart, NextStart, PTL DEF Spec

\* A vCPU that is online was started where the CPU_ON in force says.
THEOREM EntryRightTheorem == Spec => []EntryRight
BY StartInvariance, PTL DEF StartInv

-----------------------------------------------------------------------------
(* Wake-ups.                                                               *)

\* Nothing is queued at first.
LEMMA InitWake == Init => WakeInv
PROOF
<1> SUFFICES ASSUME Init PROVE WakeInv
  OBVIOUS
<1> QED
  BY DEF Init, WakeInv

\* A step that neither queues nor announces anything, and takes its CPU past a look at what
\* is queued only if it was past it before.
LEMMA SilentKeeps ==
  ASSUME StartInv, WakeInv, NEW p \in Cpus, NEW x,
         UNCHANGED <<sgis, spis, ipis, psgi>>,
         at' = [at EXCEPT ![p] = x],
         at[p] \notin DOMAIN AfterIpi,
         x \in PastSgis => at[p] \in PastSgis,
         x \in PastSpis => at[p] \in PastSpis
  PROVE  WakeInv'
PROOF
<1>1. \A q \in Cpus : Woken(q)' <=> Woken(q)
  BY DEF Woken
<1>2. \A q \in Cpus : q # p => at'[q] = at[q]
  BY DEF StartInv, StartTypes
<1>3. at'[p] = x
  BY DEF StartInv, StartTypes
<1> QED
  BY <1>1, <1>2, <1>3 DEF WakeInv

\* The steps of the run loop, the handlers and the idle loop that are silent in this sense.
LEMMA SilentSteps ==
  ASSUME StartInv, WakeInv, NEW p \in Cpus,
         \/ popped(p) \/ push(p) \/ release(p) \/ pop(p) \/ sev(p) \/ uart_irq(p) \/ rx(p)
         \/ rx_publish(p) \/ unlock(p) \/ wfe(p) \/ take(p) \/ secondary_enter_guest(p) \/ request(p)
  PROVE  WakeInv'
PROOF
<1> USE DEF irqs, PastSgis, PastSpis, AfterIpi
<1>1. CASE popped(p) \/ push(p) \/ release(p) \/ pop(p) \/ uart_irq(p) \/ rx_publish(p)
  <2>1. UNCHANGED <<sgis, spis, ipis, psgi>> /\ at[p] \in {"popped", "push", "release", "drain", "guest", "rx_publish"}
    BY <1>1 DEF popped, push, release, pop, uart_irq, rx_publish
  <2>2. PICK x \in {"drain", "release", "raise", "sgis", "popped", "push", "rx"} : at' = [at EXCEPT ![p] = x]
    BY <1>1 DEF popped, push, release, pop, uart_irq, rx_publish, Goto
  <2> QED
    BY <2>1, <2>2, SilentKeeps, Zenon
<1>2. CASE sev(p) \/ rx(p) \/ secondary_enter_guest(p)
  <2>1. UNCHANGED <<sgis, spis, ipis, psgi>> /\ at[p] \in {"sev", "rx", "start"}
    BY <1>2 DEF sev, rx, secondary_enter_guest
  <2>2. PICK x \in {"drain", "sgis", "rx", "rx_publish"} : at' = [at EXCEPT ![p] = x]
    BY <1>2 DEF sev, rx, secondary_enter_guest, Goto, Top, StartInv, StartTypes
  <2> QED
    BY <2>1, <2>2, SilentKeeps, Zenon
<1>3. CASE unlock(p) \/ wfe(p) \/ take(p) \/ request(p)
  <2>1. /\ UNCHANGED <<sgis, spis, ipis, psgi>> /\ at[p] \in {"drop", "wfe", "take", "request"}
        /\ unlock(p) => at[p] = "drop"
    BY <1>3, Zenon DEF unlock, wfe, take, request
  <2>2. PICK x \in {"flush", "take", "start", "wfe", "sev"} :
          at' = [at EXCEPT ![p] = x] /\ (x = "flush" => at[p] = "drop")
    BY <1>3, Zenon DEF unlock, wfe, take, request, Goto
  <2> QED
    BY <2>1, <2>2, SilentKeeps, Zenon
<1> QED
  BY <1>1, <1>2, <1>3

\* What a guest does without the lock leaves what is queued and what is signalled.
LEMMA SilentOperations ==
  ASSUME StartInv, WakeInv, NEW p \in Cpus, NEW o, cpu_on(p, o) \/ cpu_off(p, o) \/ mmio(p, o)
  PROVE  WakeInv'
PROOF
<1>1. UNCHANGED <<sgis, spis, ipis, psgi>> /\ at[p] = "guest"
  BY Zenon DEF cpu_on, cpu_off, mmio, irqs
<1>2. PICK x \in {"request", "drain", "sgis", "off", "wfe", "mmio"} : at' = [at EXCEPT ![p] = x]
  BY Zenon DEF cpu_on, cpu_off, mmio, Goto, Top
<1> QED
  BY <1>1, <1>2, SilentKeeps, Zenon DEF PastSgis, PastSpis, AfterIpi

\* Taking the physical SGI leads back to a look at everything.
LEMMA SgiIrqKeeps ==
  ASSUME StartInv, WakeInv, NEW p \in Cpus, sgi_irq(p)
  PROVE  WakeInv'
PROOF
<1>1. UNCHANGED <<sgis, spis, ipis>> /\ psgi' = [psgi EXCEPT ![p] = FALSE] /\ at[p] = "guest"
  BY Zenon DEF sgi_irq
<1>2. at'[p] \in {"drain", "sgis"} /\ \A q \in Cpus : q # p => at'[q] = at[q]
  BY DEF sgi_irq, Goto, Top, StartInv, StartTypes
<1>3. \A q \in Cpus : q # p => (Woken(q)' <=> Woken(q))
  BY <1>1 DEF Woken, WakeInv
<1> QED
  BY <1>1, <1>2, <1>3 DEF WakeInv, PastSgis, PastSpis, AfterIpi

\* A look at what is queued empties the queue, if the List Registers suffice.
LEMMA InjectKeeps ==
  ASSUME StartInv, WakeInv, LrsSuffice, NEW p \in Cpus,
         inject_pending_sgis(p) \/ inject_pending_spis(p) \/ flush_pending_spis_to_hardware(p)
  PROVE  WakeInv'
PROOF
<1>1. UNCHANGED <<ipis, psgi>> /\ \A q \in Cpus : Woken(q)' <=> Woken(q)
  BY Zenon DEF inject_pending_sgis, inject_pending_spis, flush_pending_spis_to_hardware, Woken
<1>2. \A q \in Cpus : q # p => at'[q] = at[q]
  BY DEF inject_pending_sgis, inject_pending_spis, flush_pending_spis_to_hardware, Goto, StartInv, StartTypes
<1>3. CASE inject_pending_sgis(p)
  <2>1. at[p] = "sgis" /\ at'[p] = "spis" /\ spis' = spis
    BY <1>3 DEF inject_pending_sgis, Goto, StartInv, StartTypes
  <2>2. sgis' = [sgis EXCEPT ![p] = @ \ sgis[p]]
    BY <1>3, Zenon DEF inject_pending_sgis, LrsSuffice
  <2>3. sgis' = [q \in Cpus |-> IF q = p THEN {} ELSE sgis[q]]
    BY <2>2, Zenon DEF WakeInv
  <2> QED
    BY <1>1, <1>2, <2>1, <2>3 DEF WakeInv, PastSgis, PastSpis, AfterIpi
<1>4. CASE inject_pending_spis(p) \/ flush_pending_spis_to_hardware(p)
  <2>1. at[p] \in {"spis", "flush"} /\ at'[p] = "guest" /\ sgis' = sgis
    BY <1>4 DEF inject_pending_spis, flush_pending_spis_to_hardware, Goto, StartInv, StartTypes
  <2>2. spis' = [spis EXCEPT ![p] = @ \ spis[p]]
    BY <1>4, Zenon DEF inject_pending_spis, flush_pending_spis_to_hardware, LrsSuffice
  <2>3. spis' = [q \in Cpus |-> IF q = p THEN {} ELSE spis[q]]
    BY <2>2, Zenon DEF WakeInv
  <2> QED
    BY <1>1, <1>2, <2>1, <2>3 DEF WakeInv, PastSgis, PastSpis, AfterIpi
<1> QED
  BY <1>3, <1>4

\* The announcements that were to be made are made: to a CPU that is not online they need
\* not be, since it looks at everything when it starts.
LEMMA SendKeeps ==
  ASSUME StartInv, WakeInv, NEW p \in Cpus, send_physical_sgi(p)
  PROVE  WakeInv'
PROOF
<1> USE DEF AfterIpi
<1>1. /\ UNCHANGED <<sgis, spis, online>> /\ ipis' = [ipis EXCEPT ![p] = {}]
      /\ psgi' = [q \in Cpus |-> psgi[q] \/ IF at[p] = "ipi_all" THEN q \in online \ {p} ELSE q \in ipis[p]]
  BY Zenon DEF send_physical_sgi, psci
<1>2. /\ at[p] \in {"ipi", "ipi_all", "ipi_mmio", "ipi_raise"}
      /\ at'[p] \in {"guest", "drop", "sgis"}
      /\ at'[p] \in PastSgis => at[p] \in PastSgis
      /\ at'[p] \in PastSpis => at[p] \in PastSpis
      /\ \A q \in Cpus : q # p => at'[q] = at[q]
  BY DEF send_physical_sgi, Goto, StartInv, StartTypes, PastSgis, PastSpis
<1>3. ipis' = [q \in Cpus |-> IF q = p THEN {} ELSE ipis[q]]
  BY <1>1, Zenon DEF WakeInv
<1>4. psgi' \in [Cpus -> BOOLEAN]
  <2>1. \A q \in Cpus : (psgi[q] \/ IF at[p] = "ipi_all" THEN q \in online \ {p} ELSE q \in ipis[p]) \in BOOLEAN
    OBVIOUS
  <2> QED
    BY <1>1, <2>1
<1>5. ASSUME NEW q \in Cpus, at[q] \in PastSgis, Woken(q) PROVE Woken(q)'
  <2>1. q \in online
    BY <1>5 DEF StartInv, IdlePlaces, PastSgis
  <2>2. CASE psgi[q]
    BY <2>2, <1>1, Zenon DEF Woken
  <2>3. CASE q \in ipis[p]
    <3>1. q # p
      BY <2>3 DEF WakeInv
    <3>2. psgi'[q]
      BY <3>1, <2>1, <2>3, <1>1, Zenon
    <3> QED
      BY <3>2 DEF Woken
  <2>4. CASE \E r \in Cpus : r # p /\ q \in ipis[r]
    BY <2>4, <1>3 DEF Woken
  <2> QED
    BY <1>5, <2>2, <2>3, <2>4 DEF Woken
<1>6. \A q \in Cpus : at'[q] \in PastSgis => at[q] \in PastSgis
  BY <1>2
<1>7. \A q \in Cpus : at'[q] \in PastSpis => at[q] \in PastSpis /\ at[q] \in PastSgis
  BY <1>2 DEF PastSpis, PastSgis
<1>8. ASSUME NEW q \in Cpus
      PROVE  /\ at'[q] \in PastSgis /\ sgis'[q] # {} => Woken(q)'
             /\ at'[q] \in PastSpis /\ spis'[q] # {} => Woken(q)'
  BY <1>1, <1>5, <1>6, <1>7 DEF WakeInv
<1>9. ASSUME NEW q \in Cpus
      PROVE  /\ at'[q] \notin DOMAIN AfterIpi => ipis'[q] = {}
             /\ q \notin ipis'[q]
  BY <1>2, <1>3 DEF WakeInv
<1>10. \A f \in {sgis', spis', ipis'} : f = [q \in Cpus |-> f[q]]
  BY <1>1, <1>3 DEF WakeInv
<1> QED
  BY <1>4, <1>8, <1>9, <1>10 DEF WakeInv

\* Queueing an SPI: its target is the CPU itself, which looks at it before it enters the
\* guest, or one that is announced to.
LEMMA SpiKeeps ==
  ASSUME StartInv, WakeInv, NEW p \in Cpus, NEW i, NEW x, inject_spi(p, i),
         UNCHANGED <<sgis, psgi>>,
         at[p] \notin DOMAIN AfterIpi, ipis' # ipis => x \in DOMAIN AfterIpi,
         at' = [at EXCEPT ![p] = x], x \notin PastSpis, x \in PastSgis => at[p] \in PastSgis
  PROVE  WakeInv'
PROOF
<1>1. /\ spis' = [q \in Cpus |-> IF q = route_spi(gicd, i) THEN spis[q] \cup {i} ELSE spis[q]]
      /\ ipis' = [q \in Cpus |-> IF q = p THEN ({route_spi(gicd, i)} \cap Cpus) \ {p} ELSE ipis[q]]
  BY Zenon DEF inject_spi, WakeInv
<1>2. ipis[p] = {}
  BY DEF WakeInv
<1>3. at'[p] = x /\ \A q \in Cpus : q # p => at'[q] = at[q]
  BY DEF StartInv, StartTypes
<1>4. \A q \in Cpus : Woken(q) => Woken(q)'
  BY <1>1, <1>2 DEF Woken
<1>5. \A q \in Cpus : q # p /\ spis'[q] # spis[q] => Woken(q)'
  BY <1>1 DEF Woken
<1>6. x \notin DOMAIN AfterIpi => ipis'[p] = {}
  BY <1>2
<1>7. ASSUME NEW q \in Cpus
      PROVE  /\ at'[q] \in PastSgis /\ sgis'[q] # {} => Woken(q)'
             /\ at'[q] \in PastSpis /\ spis'[q] # {} => Woken(q)'
  BY <1>3, <1>4, <1>5 DEF WakeInv
<1>8. ASSUME NEW q \in Cpus
      PROVE  /\ at'[q] \notin DOMAIN AfterIpi => ipis'[q] = {}
             /\ q \notin ipis'[q]
  BY <1>1, <1>3, <1>6 DEF WakeInv
<1>9. \A f \in {sgis', spis', ipis'} : f = [q \in Cpus |-> f[q]]
  BY <1>1 DEF WakeInv
<1> QED
  BY <1>7, <1>8, <1>9 DEF WakeInv

\* What a device raises is queued, and its target is told.
LEMMA DeviceKeeps ==
  ASSUME StartInv, WakeInv, NEW p \in Cpus, handle_mmio(p) \/ raise(p)
  PROVE  WakeInv'
PROOF
<1> USE DEF PastSgis, PastSpis, AfterIpi
<1>1. CASE handle_mmio(p) /\ acc[p].dev # "blk"
  <2>1. UNCHANGED <<sgis, spis, ipis, psgi>> /\ at[p] = "mmio" /\ at' = [at EXCEPT ![p] = "drop"]
    BY <1>1, Zenon DEF handle_mmio, Goto
  <2> QED
    BY <2>1, SilentKeeps, Zenon
<1>2. CASE handle_mmio(p) /\ acc[p].dev = "blk"
  <2>1. /\ UNCHANGED <<sgis, psgi>> /\ at[p] = "mmio" /\ inject_spi(p, acc[p].intid)
        /\ at' = [at EXCEPT ![p] = IF ipis' # ipis THEN "ipi_mmio" ELSE "drop"]
    BY <1>2, Zenon DEF handle_mmio, Goto
  <2> QED
    BY <2>1, SpiKeeps, Zenon
<1>3. CASE raise(p)
  <2>1. /\ UNCHANGED <<sgis, psgi>> /\ at[p] = "raise" /\ inject_spi(p, UartSpi)
        /\ at' = [at EXCEPT ![p] = IF ipis' # ipis THEN "ipi_raise" ELSE "sgis"]
    BY <1>3 DEF raise, Goto
  <2> QED
    BY <2>1, SpiKeeps, Zenon
<1> QED
  BY <1>1, <1>2, <1>3

\* Every CPU for which an SGI is queued is announced to next.
LEMMA TrapKeeps ==
  ASSUME StartInv, WakeInv, NEW p \in Cpus, NEW o, handle_sgi_trap(p, o)
  PROVE  WakeInv'
PROOF
<1> DEFINE targets == IF o.irm THEN online \ {p} ELSE o.list \cap Cpus
<1>1. /\ UNCHANGED <<spis, psgi>> /\ at[p] = "guest"
      /\ sgis' = [q \in Cpus |-> IF q \in targets \ {p} THEN sgis[q] \cup {o.intid} ELSE sgis[q]]
      /\ ipis' = [ipis EXCEPT ![p] = targets \ {p}]
      /\ at' = [at EXCEPT ![p] = IF targets \ {p} = {} THEN "guest" ELSE IF o.irm THEN "ipi_all" ELSE "ipi"]
  BY Zenon DEF handle_sgi_trap, Goto
<1> HIDE DEF targets
<1>2. ipis' = [q \in Cpus |-> IF q = p THEN targets \ {p} ELSE ipis[q]] /\ ipis[p] = {}
  BY <1>1, Zenon DEF WakeInv, AfterIpi
<1>3. /\ at'[p] \in {"guest", "ipi", "ipi_all"} /\ (at'[p] = "guest" => targets \ {p} = {})
      /\ \A q \in Cpus : q # p => at'[q] = at[q]
  BY <1>1 DEF StartInv, StartTypes
<1>4. \A q \in Cpus : Woken(q) => Woken(q)'
  BY <1>1, <1>2, Zenon DEF Woken
<1>5. \A q \in Cpus : sgis'[q] # sgis[q] => Woken(q)'
  BY <1>1, <1>2 DEF Woken
<1>6. ASSUME NEW q \in Cpus
      PROVE  /\ at'[q] \in PastSgis /\ sgis'[q] # {} => Woken(q)'
             /\ at'[q] \in PastSpis /\ spis'[q] # {} => Woken(q)'
  <2>1. at[q] \in PastSgis \/ at'[q] \notin PastSgis
    BY <1>1, <1>3 DEF PastSgis
  <2>2. at[q] \in PastSpis \/ at'[q] \notin PastSpis
    BY <1>1, <1>3 DEF PastSpis
  <2> QED
    BY <2>1, <2>2, <1>1, <1>4, <1>5 DEF WakeInv
<1>7. ASSUME NEW q \in Cpus
      PROVE  /\ at'[q] \notin DOMAIN AfterIpi => ipis'[q] = {}
             /\ q \notin ipis'[q]
  BY <1>2, <1>3 DEF WakeInv, AfterIpi
<1>8. \A f \in {sgis', spis', ipis'} : f = [q \in Cpus |-> f[q]]
  BY <1>1, <1>2 DEF WakeInv
<1> QED
  BY <1>1, <1>6, <1>7, <1>8 DEF WakeInv

\* Every step keeps the wake-ups, as long as List Registers suffice.
LEMMA NextWake == StartInv /\ WakeInv /\ LrsSuffice /\ [Next]_vars => WakeInv'
PROOF
<1> SUFFICES ASSUME StartInv, WakeInv, LrsSuffice, [Next]_vars PROVE WakeInv'
  OBVIOUS
<1>1. CASE UNCHANGED vars
  BY <1>1 DEF vars, irqs, WakeInv, Woken
<1>2. CASE byte
  BY <1>2 DEF byte, irqs, WakeInv, Woken
<1>3. ASSUME NEW p \in Cpus, Run(p) PROVE WakeInv'
  BY <1>3, SilentSteps, SgiIrqKeeps, InjectKeeps, SendKeeps, DeviceKeeps DEF Run
<1>4. ASSUME NEW p \in Cpus, Virq(p) PROVE WakeInv'
  BY <1>4 DEF Virq, virq, WakeInv, Woken
<1>5. ASSUME NEW p \in Cpus, Operation(p) PROVE WakeInv'
  BY <1>5, TrapKeeps, SilentOperations DEF Operation
<1> QED
  BY <1>1, <1>2, <1>3, <1>4, <1>5 DEF Next

\* No wake-up is lost between the CPUs: as long as the List Registers suffice, whatever is
\* queued for a vCPU that is past its last look at the queues is or will be announced.
THEOREM WakeInvariance == Spec /\ []LrsSuffice => []WakeInv
BY InitWake, NextWake, StartInvariance, PTL DEF Spec

\* So a vCPU that runs, or waits in WFI, with an interrupt queued for it is woken.
THEOREM PendingWokenTheorem == Spec /\ []LrsSuffice => []PendingWoken
PROOF
<1>1. WakeInv => PendingWoken
  BY DEF WakeInv, PendingWoken, PastSgis, PastSpis
<1> QED
  BY <1>1, WakeInvariance, PTL

-----------------------------------------------------------------------------
(* What is queued and what is in List Registers.                           *)

\* What the fields of an operation may be.
LEMMA OperationShapes ==
  ASSUME NEW o \in Operations \cup {None}
  PROVE  /\ o.dev = "sgi" => o.intid \in SGIs
         /\ o.dev = "blk" => o.intid \in Spis
         /\ o.dev = "uart" => o \in UartAccesses
         /\ o.dev = "gicd" => o \in GicdAccesses
PROOF
<1>1. o \in GuestOperations \cup {Byte, None}
  BY MultiPcpuAssumption DEF Operations
<1>2. CASE o \in {Byte, None}
  BY <1>2 DEF Byte, None
<1>3. CASE o \in UartAccesses \cup GicdAccesses
  BY <1>3 DEF UartAccesses, GicdAccesses
<1>4. CASE \/ o \in [dev : {"cpu_on"}, target : Nat]
           \/ o \in [dev : {"cpu_off"}, vcpu : Cpus]
           \/ o \in [dev : {"sgi"}, irm : BOOLEAN, list : SUBSET Nat, intid : SGIs]
           \/ o \in [dev : {"gicr"}, reg : STRING, vcpu : Nat, bits : SUBSET (0 .. 31)]
           \/ o \in [dev : {"blk"}, intid : Spis]
  BY <1>4
<1> QED
  BY <1>1, <1>2, <1>3, <1>4 DEF GuestOperations

\* At most k members of a finite set of integers have ranks up to k: ranks differ.
LEMMA FirstByRank ==
  ASSUME NEW S \in SUBSET Int, IsFiniteSet(S), NEW k \in Nat,
         NEW T, T = {n \in S : Cardinality({m \in S : m <= n}) <= k}
  PROVE  /\ IsFiniteSet(T) /\ Cardinality(T) \in Nat /\ Cardinality(T) <= k
         /\ T # {} => k > 0
PROOF
<1> DEFINE Below(n) == {m \in S : m <= n}
           rank == [n \in T |-> Cardinality(Below(n))]
<1>1. IsFiniteSet(T) /\ Cardinality(T) \in Nat
  BY FS_Subset, FS_CardinalityType, Zenon
<1>2. \A n \in S : /\ Below(n) \in SUBSET S /\ n \in Below(n)
                   /\ IsFiniteSet(Below(n)) /\ Cardinality(Below(n)) \in Nat
  BY FS_Subset, FS_CardinalityType
<1>3. \A m, n \in S : m < n => /\ Below(m) \in SUBSET Below(n)
                               /\ n \notin Below(m)
  <2>1. \A m, n, j \in S : m < n => (j <= m => j <= n) /\ ~(n <= m)
    OBVIOUS
  <2> QED
    BY <2>1, Zenon
<1>4. \A n \in T : n \in S /\ Cardinality(Below(n)) <= k
  OBVIOUS
<1>5. S \subseteq Int
  OBVIOUS
<1> HIDE DEF Below
<1>6. \A n \in S : Cardinality(Below(n)) # 0
  BY <1>2, FS_EmptySet
<1>7. \A m, n \in S : m < n => Cardinality(Below(m)) # Cardinality(Below(n))
  BY <1>2, <1>3, FS_Subset
<1>8. \A m, n \in S : Cardinality(Below(m)) = Cardinality(Below(n)) => m = n
  <2> SUFFICES ASSUME NEW m \in S, NEW n \in S, m # n PROVE Cardinality(Below(m)) # Cardinality(Below(n))
    OBVIOUS
  <2>1. m < n \/ n < m
    BY <1>5
  <2> QED
    BY <1>7, <2>1
<1>9. rank \in Injection(T, 1 .. k)
  <2>1. \A n \in T : Cardinality(Below(n)) \in 1 .. k
    BY <1>2, <1>4, <1>6
  <2> QED
    BY <1>4, <1>8, <2>1, Zenon DEF Injection, IsInjective
<1>10. IsFiniteSet(1 .. k) /\ Cardinality(1 .. k) = k
  BY FS_Interval
<1> HIDE DEF rank
<1>11. Cardinality(T) <= k
  BY <1>9, <1>10, FS_Injection
<1>12. ASSUME NEW n \in T PROVE k > 0
  <2>1. Cardinality(Below(n)) \in Nat /\ Cardinality(Below(n)) # 0 /\ Cardinality(Below(n)) <= k
    BY <1>2, <1>4, <1>6
  <2> QED
    BY <2>1
<1> QED
  BY <1>1, <1>11, <1>12, Zenon

\* How many List Registers have which INTID.
Regs == [INTIDs -> 0 .. NumLrs]

\* There are finitely many INTIDs.
LEMMA IntidsFinite == INTIDs \in SUBSET Int /\ IsFiniteSet(INTIDs)
PROOF
<1>1. INTIDs \in SUBSET Nat /\ \A i \in INTIDs : i <= 63
  BY MultiPcpuAssumption DEF INTIDs
<1> QED
  BY <1>1, FS_BoundedSetOfNaturals

\* So the List Registers in use can be counted.
LEMMA UsedFinite ==
  ASSUME NEW regs
  PROVE  IsFiniteSet(Used(regs)) /\ Cardinality(Used(regs)) \in Nat
PROOF
<1>1. IsFiniteSet(1 .. NumLrs)
  <2>1. 1 \in Int /\ NumLrs \in Int
    BY MultiPcpuAssumption
  <2> QED
    BY <2>1, FS_Interval
<1>2. IsFiniteSet(INTIDs \X (1 .. NumLrs))
  BY <1>1, IntidsFinite, FS_Product, Zenon
<1>3. Used(regs) \in SUBSET (INTIDs \X (1 .. NumLrs))
  BY DEF Used
<1> QED
  BY <1>2, <1>3, FS_Subset, FS_CardinalityType

\* An interrupt is in no more List Registers than are used.
LEMMA UsedBounds ==
  ASSUME NEW regs \in Regs, NEW i \in INTIDs
  PROVE  regs[i] <= Cardinality(Used(regs))
PROOF
<1> DEFINE f == [k \in 1 .. regs[i] |-> <<i, k>>]
<1>1. regs[i] \in Nat /\ regs[i] <= NumLrs
  BY MultiPcpuAssumption DEF Regs
<1>2. \A k \in 1 .. regs[i] : <<i, k>> \in Used(regs)
  BY <1>1, MultiPcpuAssumption DEF Used
<1>3. f \in Injection(1 .. regs[i], Used(regs))
  <2>1. f \in [1 .. regs[i] -> Used(regs)]
    BY <1>2
  <2>2. ASSUME NEW j \in 1 .. regs[i], NEW k \in 1 .. regs[i], f[j] = f[k] PROVE j = k
    <3>1. <<i, j>> = <<i, k>>
      BY <2>2
    <3> QED
      BY <3>1
  <2> HIDE DEF f
  <2> QED
    BY <2>1, <2>2, Zenon DEF Injection, IsInjective
<1>4. IsFiniteSet(Used(regs)) /\ Cardinality(1 .. regs[i]) = regs[i]
  <2>1. ASSUME NEW n \in Nat PROVE Cardinality(1 .. n) = n
    <3>1. Cardinality(1 .. n) = IF 1 > n THEN 0 ELSE n - 1 + 1
      BY FS_Interval
    <3> QED
      BY <3>1
  <2> QED
    BY <1>1, <2>1, UsedFinite, Zenon
<1> HIDE DEF f
<1> QED
  BY <1>3, <1>4, FS_Injection

\* Placing interrupts in free List Registers: there is room for all that are placed.
LEMMA PlacingFits ==
  ASSUME NEW regs \in Regs, Cardinality(Used(regs)) <= NumLrs, NEW S \in SUBSET INTIDs,
         NEW P, P = {n \in S : Cardinality({m \in S : m <= n}) <= NumLrs - Cardinality(Used(regs))},
         NEW new, new = [i \in INTIDs |-> IF i \in P THEN regs[i] + 1 ELSE regs[i]]
  PROVE  new \in Regs /\ Cardinality(Used(new)) <= NumLrs
PROOF
<1> DEFINE k == NumLrs - Cardinality(Used(regs))
           N == {<<i, regs[i] + 1>> : i \in P}
           g == [i \in P |-> <<i, regs[i] + 1>>]
<1>1. S \in SUBSET Int /\ IsFiniteSet(S) /\ k \in Nat /\ NumLrs \in Nat /\ Cardinality(Used(regs)) \in Nat
  BY IntidsFinite, UsedFinite, FS_Subset, MultiPcpuAssumption
<1>2. /\ IsFiniteSet(P) /\ Cardinality(P) \in Nat /\ Cardinality(P) <= k
      /\ P # {} => k > 0
  <2> HIDE DEF k
  <2>1. P = {n \in S : Cardinality({m \in S : m <= n}) <= k}
    BY DEF k
  <2> QED
    BY <1>1, <2>1, FirstByRank, Zenon
<1>3. P \subseteq INTIDs
  OBVIOUS
<1>4. \A i \in INTIDs : regs[i] \in Nat /\ regs[i] <= NumLrs /\ regs[i] <= Cardinality(Used(regs))
  BY <1>1, UsedBounds DEF Regs
<1>5. \A i \in P : regs[i] + 1 <= NumLrs
  BY <1>1, <1>2, <1>3, <1>4
<1>6. new \in Regs
  BY <1>1, <1>4, <1>5 DEF Regs
<1>7. Used(new) = Used(regs) \cup N
  <2>1. ASSUME NEW i \in INTIDs, NEW j \in 1 .. NumLrs
        PROVE  j <= new[i] <=> j <= regs[i] \/ (i \in P /\ j = regs[i] + 1)
    BY <1>1, <1>4
  <2>2. \A i \in P : <<i, regs[i] + 1>> \in INTIDs \X (1 .. NumLrs)
    BY <1>1, <1>3, <1>4, <1>5
  <2>3. N \subseteq INTIDs \X (1 .. NumLrs)
    BY <2>2, Zenon
  <2>4. \A i \in INTIDs, j \in 1 .. NumLrs : <<i, j>> \in N <=> i \in P /\ j = regs[i] + 1
    BY Zenon
  <2>5. \A i \in INTIDs, j \in 1 .. NumLrs :
          /\ <<i, j>> \in Used(new) <=> j <= new[i]
          /\ <<i, j>> \in Used(regs) <=> j <= regs[i]
    BY DEF Used
  <2>6. Used(new) \subseteq INTIDs \X (1 .. NumLrs) /\ Used(regs) \subseteq INTIDs \X (1 .. NumLrs)
    BY DEF Used
  <2> HIDE DEF N
  <2>7. \A i \in INTIDs, j \in 1 .. NumLrs : <<i, j>> \in Used(new) <=> <<i, j>> \in Used(regs) \cup N
    <3> SUFFICES ASSUME NEW i \in INTIDs, NEW j \in 1 .. NumLrs
                 PROVE  <<i, j>> \in Used(new) <=> <<i, j>> \in Used(regs) \/ <<i, j>> \in N
      BY Zenon
    <3>1. <<i, j>> \in Used(new) <=> j <= new[i]
      BY <2>5
    <3>2. <<i, j>> \in Used(regs) <=> j <= regs[i]
      BY <2>5, Zenon
    <3>3. <<i, j>> \in N <=> i \in P /\ j = regs[i] + 1
      BY <2>4
    <3> QED
      BY <2>1, <3>1, <3>2, <3>3
  <2>8. ASSUME NEW x \in INTIDs \X (1 .. NumLrs)
        PROVE  x \in Used(new) <=> x \in Used(regs) \cup N
    <3>1. PICK i \in INTIDs, j \in 1 .. NumLrs : x = <<i, j>>
      OBVIOUS
    <3> QED
      BY <2>7, <3>1
  <2> QED
    BY <2>3, <2>6, <2>8, Zenon
<1>8. IsFiniteSet(N) /\ Cardinality(N) \in Nat /\ Cardinality(N) <= Cardinality(P)
  <2>1. g \in Surjection(P, N)
    BY DEF Surjection
  <2> HIDE DEF g, N
  <2> QED
    BY <1>2, <2>1, FS_Surjection, FS_CardinalityType
<1>9. Cardinality(Used(new)) <= Cardinality(Used(regs)) + Cardinality(N)
  <2> HIDE DEF N
  <2>1. IsFiniteSet(Used(regs)) /\ IsFiniteSet(Used(regs) \cap N)
    BY UsedFinite, FS_Intersection, Zenon
  <2>2. Cardinality(Used(regs) \cap N) \in Nat
    BY <2>1, FS_CardinalityType
  <2> QED
    <3>1. Cardinality(Used(new)) =
            Cardinality(Used(regs)) + Cardinality(N) - Cardinality(Used(regs) \cap N)
      BY <1>7, <1>8, <2>1, FS_Union
    <3> QED
      BY <1>1, <1>8, <2>2, <3>1
<1> HIDE DEF N
<1> QED
  BY <1>1, <1>2, <1>6, <1>8, <1>9, UsedFinite

\* Taking one out.
LEMMA EndingFits ==
  ASSUME NEW regs \in Regs, Cardinality(Used(regs)) <= NumLrs, NEW i \in INTIDs, regs[i] > 0,
         NEW new, new = [regs EXCEPT ![i] = regs[i] - 1]
  PROVE  new \in Regs /\ Cardinality(Used(new)) <= NumLrs
PROOF
<1>1. new \in Regs /\ \A j \in INTIDs : new[j] <= regs[j] /\ regs[j] \in Int /\ new[j] \in Int
  BY MultiPcpuAssumption DEF Regs
<1>2. Used(new) \in SUBSET Used(regs)
  <2>1. \A j \in INTIDs, k \in 1 .. NumLrs : k <= new[j] => k <= regs[j]
    BY <1>1
  <2> QED
    BY <2>1 DEF Used
<1>3. Cardinality(Used(new)) <= Cardinality(Used(regs))
  BY <1>2, UsedFinite, FS_Subset, Zenon
<1> QED
  BY <1>1, <1>3, UsedFinite, MultiPcpuAssumption

\* What is queued, signalled and in List Registers; no more of these than there are.
IrqTypes ==
  /\ event \in [Cpus -> BOOLEAN] /\ psgi \in [Cpus -> BOOLEAN] /\ physen \in [Cpus -> BOOLEAN]
  /\ sgis \in [Cpus -> SUBSET SGIs] /\ spis \in [Cpus -> SUBSET Spis]
  /\ ipis \in [Cpus -> SUBSET Cpus]
  /\ lr \in [Cpus -> Regs] /\ \A p \in Cpus : Cardinality(Used(lr[p])) <= NumLrs

LrTypes == lr \in [Cpus -> Regs] /\ \A p \in Cpus : Cardinality(Used(lr[p])) <= NumLrs

\* Injecting fills free List Registers only.
LEMMA InjectTypes ==
  ASSUME LrTypes, NEW p \in Cpus, NEW S \in SUBSET INTIDs, Inject(p, S)
  PROVE  LrTypes'
PROOF
<1> DEFINE new == [i \in INTIDs |-> IF i \in Placed(p, S) THEN lr[p][i] + 1 ELSE lr[p][i]]
<1>1. lr[p] \in Regs /\ Cardinality(Used(lr[p])) <= NumLrs
  BY DEF LrTypes
<1>2. Placed(p, S) = {n \in S : Cardinality({m \in S : m <= n}) <= NumLrs - Cardinality(Used(lr[p]))}
  BY DEF Placed, FreeLrs
<1>3. new \in Regs /\ Cardinality(Used(new)) <= NumLrs
  BY <1>1, <1>2, PlacingFits, Zenon
<1>4. lr' = [lr EXCEPT ![p] = new]
  BY DEF Inject, LrTypes
<1> HIDE DEF new
<1>5. \A q \in Cpus : lr'[q] = IF q = p THEN new ELSE lr[q]
  BY <1>4 DEF LrTypes
<1> QED
  BY <1>3, <1>4, <1>5 DEF LrTypes

\* The CPU starts with its List Registers empty.
LEMMA NoIrqsFits == NoIrqs \in Regs /\ Cardinality(Used(NoIrqs)) <= NumLrs
PROOF
<1>1. Used(NoIrqs) = {}
  BY DEF Used, NoIrqs
<1>2. NumLrs \in Nat
  BY MultiPcpuAssumption
<1> QED
  BY <1>1, <1>2, FS_EmptySet DEF NoIrqs, Regs

\* At first no interrupt is pending anywhere.
LEMMA InitIrq == Init => IrqTypes
PROOF
<1> SUFFICES ASSUME Init PROVE IrqTypes
  OBVIOUS
<1>1. lr \in [Cpus -> Regs] /\ \A p \in Cpus : lr[p] = NoIrqs
  BY NoIrqsFits DEF Init
<1> QED
  BY <1>1, NoIrqsFits DEF Init, IrqTypes

\* The guest takes an interrupt and its List Register is free again.
LEMMA VirqIrq ==
  ASSUME IrqTypes, NEW p \in Cpus, NEW i \in INTIDs, virq(p, i)
  PROVE  IrqTypes'
PROOF
<1> DEFINE new == [lr[p] EXCEPT ![i] = lr[p][i] - 1]
<1>1. lr[p] \in Regs /\ Cardinality(Used(lr[p])) <= NumLrs /\ lr[p][i] > 0
  BY DEF IrqTypes, virq
<1>2. new \in Regs /\ Cardinality(Used(new)) <= NumLrs
  BY <1>1, EndingFits
<1>3. lr' = [lr EXCEPT ![p] = new]
  BY DEF virq, IrqTypes
<1> HIDE DEF new
<1>4. \A q \in Cpus : lr'[q] = IF q = p THEN new ELSE lr[q]
  BY <1>3 DEF IrqTypes
<1>5. lr' \in [Cpus -> Regs] /\ \A q \in Cpus : Cardinality(Used(lr'[q])) <= NumLrs
  BY <1>2, <1>3, <1>4 DEF IrqTypes
<1>6. UNCHANGED <<event, psgi, physen, sgis, spis, ipis>>
  BY DEF virq, psci
<1> QED
  BY <1>5, <1>6 DEF IrqTypes

\* The looks at the queues.
LEMMA InjectIrq ==
  ASSUME IrqTypes, NEW p \in Cpus,
         inject_pending_sgis(p) \/ inject_pending_spis(p) \/ flush_pending_spis_to_hardware(p)
  PROVE  IrqTypes'
PROOF
<1>1. UNCHANGED <<event, psgi, ipis>>
  BY DEF inject_pending_sgis, inject_pending_spis, flush_pending_spis_to_hardware, psci
<1>2. /\ LrTypes /\ sgis \in [Cpus -> SUBSET SGIs] /\ spis \in [Cpus -> SUBSET Spis]
      /\ physen \in [Cpus -> BOOLEAN]
  BY DEF IrqTypes, LrTypes
<1>3. sgis[p] \in SUBSET INTIDs /\ spis[p] \in SUBSET INTIDs
  BY <1>2 DEF INTIDs
<1>4. CASE inject_pending_sgis(p)
  <2>1. /\ Inject(p, sgis[p]) /\ sgis' = [sgis EXCEPT ![p] = @ \ Placed(p, @)] /\ spis' = spis
        /\ physen' = [physen EXCEPT ![p] = TRUE]
    BY <1>4 DEF inject_pending_sgis, ensure_vtimer_enabled
  <2>2. LrTypes'
    BY <1>2, <1>3, <2>1, InjectTypes
  <2>3. sgis' \in [Cpus -> SUBSET SGIs] /\ physen' \in [Cpus -> BOOLEAN]
    BY <1>2, <2>1
  <2> QED
    BY <1>1, <1>2, <2>1, <2>2, <2>3 DEF IrqTypes, LrTypes
<1>5. CASE inject_pending_spis(p) \/ flush_pending_spis_to_hardware(p)
  <2>1. /\ Inject(p, spis[p]) /\ spis' = [spis EXCEPT ![p] = @ \ Placed(p, @)]
        /\ UNCHANGED <<sgis, physen>>
    BY <1>5 DEF inject_pending_spis, flush_pending_spis_to_hardware
  <2>2. LrTypes'
    BY <1>2, <1>3, <2>1, InjectTypes
  <2>3. spis' \in [Cpus -> SUBSET Spis]
    BY <1>2, <2>1
  <2> QED
    BY <1>1, <1>2, <2>1, <2>2, <2>3 DEF IrqTypes, LrTypes
<1> QED
  BY <1>4, <1>5

\* An SGI, for the CPU itself or for others.
LEMMA TrapIrq ==
  ASSUME IrqTypes, StartInv, NEW p \in Cpus, NEW o, handle_sgi_trap(p, o)
  PROVE  IrqTypes'
PROOF
<1> DEFINE targets == IF o.irm THEN online \ {p} ELSE o.list \cap Cpus
<1>1. /\ UNCHANGED <<event, spis, psgi, physen>>
      /\ sgis' = [q \in Cpus |-> IF q \in targets \ {p} THEN sgis[q] \cup {o.intid} ELSE sgis[q]]
      /\ ipis' = [ipis EXCEPT ![p] = targets \ {p}]
      /\ IF p \in targets THEN Inject(p, {o.intid}) ELSE UNCHANGED lr
  BY Zenon DEF handle_sgi_trap, psci
<1>2. o.intid \in SGIs
  <2>1. Uses(o) /\ o.dev = "sgi"
    BY DEF handle_sgi_trap
  <2> QED
    BY <2>1, UsesTypes, OperationShapes DEF StartInv
<1>3. targets \in SUBSET Cpus
  BY DEF StartInv
<1> HIDE DEF targets
<1>4. LrTypes'
  <2>1. LrTypes /\ {o.intid} \in SUBSET INTIDs
    BY <1>2 DEF IrqTypes, LrTypes, INTIDs
  <2>2. CASE lr' = lr
    BY <2>1, <2>2 DEF LrTypes
  <2> QED
    BY <1>1, <2>1, <2>2, InjectTypes
<1>5. sgis' \in [Cpus -> SUBSET SGIs]
  BY <1>1, <1>2 DEF IrqTypes
<1>6. ipis' \in [Cpus -> SUBSET Cpus]
  BY <1>1, <1>3 DEF IrqTypes
<1> QED
  BY <1>1, <1>4, <1>5, <1>6 DEF IrqTypes, LrTypes

\* An SPI of the disk or of the console, and the physical SGI.
LEMMA SpiIrq ==
  ASSUME IrqTypes, StartInv, NEW p \in Cpus, handle_mmio(p) \/ raise(p) \/ send_physical_sgi(p)
  PROVE  IrqTypes'
PROOF
<1>1. UNCHANGED <<event, sgis, physen, lr>>
  BY Zenon DEF handle_mmio, raise, send_physical_sgi, psci
<1>2. ASSUME NEW i \in Spis, inject_spi(p, i)
      PROVE  spis' \in [Cpus -> SUBSET Spis] /\ ipis' \in [Cpus -> SUBSET Cpus]
  BY <1>2 DEF inject_spi, IrqTypes
<1>3. CASE handle_mmio(p)
  <2>1. psgi' = psgi /\ ((inject_spi(p, acc[p].intid) /\ acc[p].dev = "blk") \/ UNCHANGED <<spis, ipis>>)
    BY <1>3, Zenon DEF handle_mmio
  <2>2. acc[p].dev = "blk" => acc[p].intid \in Spis
    BY OperationShapes DEF StartInv, StartTypes
  <2> QED
    BY <1>1, <1>2, <2>1, <2>2, Zenon DEF IrqTypes
<1>4. CASE raise(p)
  <2>1. psgi' = psgi /\ inject_spi(p, UartSpi) /\ UartSpi \in Spis
    BY <1>4, MultiPcpuAssumption DEF raise
  <2> QED
    BY <1>1, <1>2, <2>1 DEF IrqTypes
<1>5. CASE send_physical_sgi(p)
  <2>1. /\ spis' = spis /\ ipis' = [ipis EXCEPT ![p] = {}]
        /\ psgi' = [q \in Cpus |->
                      psgi[q] \/ IF at[p] = "ipi_all" THEN q \in online \ {p} ELSE q \in ipis[p]]
    BY <1>5, Zenon DEF send_physical_sgi
  <2>2. psgi' \in [Cpus -> BOOLEAN]
    <3>1. \A q \in Cpus :
            (psgi[q] \/ IF at[p] = "ipi_all" THEN q \in online \ {p} ELSE q \in ipis[p]) \in BOOLEAN
      BY Zenon
    <3> QED
      BY <2>1, <3>1, Zenon
  <2>3. ipis' \in [Cpus -> SUBSET Cpus]
    BY <2>1 DEF IrqTypes
  <2> QED
    BY <1>1, <2>1, <2>2, <2>3 DEF IrqTypes
<1> QED
  BY <1>3, <1>4, <1>5

\* The others leave queues and List Registers alone, except for a CPU that starts.
LEMMA QuietIrq ==
  ASSUME IrqTypes,
         NEW p \in Cpus,
         \/ wfe(p) \/ take(p) \/ secondary_enter_guest(p) \/ pop(p) \/ popped(p) \/ push(p)
         \/ release(p) \/ sgi_irq(p) \/ uart_irq(p) \/ rx(p) \/ rx_publish(p) \/ request(p)
         \/ sev(p) \/ unlock(p)
  PROVE  IrqTypes'
PROOF
<1>1. CASE pop(p) \/ popped(p) \/ push(p) \/ uart_irq(p) \/ rx(p) \/ rx_publish(p) \/ request(p) \/ take(p)
  <2>1. UNCHANGED <<event, irqs>>
    BY <1>1, Zenon DEF pop, popped, push, uart_irq, rx, rx_publish, request, take, psci
  <2> QED
    BY <2>1 DEF IrqTypes, irqs
<1>2. CASE release(p) \/ sev(p) \/ unlock(p)
  <2>1. event' = [q \in Cpus |-> TRUE] /\ UNCHANGED irqs
    BY <1>2 DEF release, sev, unlock, Sev
  <2> QED
    BY <2>1 DEF IrqTypes, irqs
<1>3. CASE wfe(p)
  <2>1. event' = [event EXCEPT ![p] = FALSE] /\ UNCHANGED irqs
    BY <1>3 DEF wfe
  <2> QED
    BY <2>1 DEF IrqTypes, irqs
<1>4. CASE sgi_irq(p)
  <2>1. psgi' = [psgi EXCEPT ![p] = FALSE] /\ UNCHANGED <<event, sgis, spis, ipis, physen, lr>>
    BY <1>4, Zenon DEF sgi_irq, psci
  <2> QED
    BY <2>1 DEF IrqTypes
<1>5. CASE secondary_enter_guest(p)
  <2>1. lr' = [lr EXCEPT ![p] = NoIrqs] /\ UNCHANGED <<event, sgis, spis, ipis, psgi, physen>>
    BY <1>5, Zenon DEF secondary_enter_guest
  <2>2. \A q \in Cpus : lr'[q] = IF q = p THEN NoIrqs ELSE lr[q]
    BY <2>1 DEF IrqTypes
  <2>3. lr' \in [Cpus -> Regs] /\ \A q \in Cpus : Cardinality(Used(lr'[q])) <= NumLrs
    BY <2>1, <2>2, NoIrqsFits DEF IrqTypes
  <2> QED
    BY <2>1, <2>3 DEF IrqTypes
<1> QED
  BY <1>1, <1>2, <1>3, <1>4, <1>5

\* Every step keeps the interrupts in their bounds.
LEMMA NextIrq == IrqTypes /\ StartInv /\ [Next]_vars => IrqTypes'
PROOF
<1> SUFFICES ASSUME IrqTypes, StartInv, [Next]_vars PROVE IrqTypes'
  OBVIOUS
<1>1. CASE UNCHANGED vars \/ byte
  <2>1. UNCHANGED <<event, irqs>>
    BY <1>1 DEF vars, byte, psci
  <2> QED
    BY <2>1 DEF IrqTypes, irqs
<1>2. ASSUME NEW p \in Cpus, Run(p) PROVE IrqTypes'
  BY <1>2, InjectIrq, SpiIrq, QuietIrq DEF Run
<1>3. ASSUME NEW p \in Cpus, Virq(p) PROVE IrqTypes'
  BY <1>3, VirqIrq DEF Virq
<1>4. ASSUME NEW p \in Cpus, Operation(p) PROVE IrqTypes'
  <2>1. PICK o \in DOMAIN todo : handle_sgi_trap(p, o) \/ cpu_on(p, o) \/ cpu_off(p, o) \/ mmio(p, o)
    BY <1>4 DEF Operation
  <2>2. CASE cpu_on(p, o) \/ cpu_off(p, o) \/ mmio(p, o)
    <3>1. UNCHANGED <<event, irqs>>
      BY <2>2, Zenon DEF cpu_on, cpu_off, mmio, psci
    <3> QED
      BY <3>1 DEF IrqTypes, irqs
  <2> QED
    BY <2>1, <2>2, TrapIrq
<1> QED
  BY <1>1, <1>2, <1>3, <1>4 DEF Next

-----------------------------------------------------------------------------
(* The distributor and its shadow.                                         *)

\* What GICD_IROUTER<n> holds, as two words.
Routes == [Spis -> [lo : Nat, hi : Nat]]

\* The fields that the shadow and the physical distributor have to agree on.
Agree(s, g) == s.irouter = g.irouter /\ s.enabled = g.enabled /\ s.group = g.group /\ s.cfg = g.cfg

\* The two distributors agree.
GicInv == shadow \in Gicd /\ gicd \in Gicd /\ Agree(shadow, gicd)

\* A distributor with other routes.
LEMMA WithRoutes ==
  ASSUME NEW g \in Gicd, NEW r \in Routes
  PROVE  LET h == [g EXCEPT !.irouter = r] IN
         /\ h \in Gicd /\ h.irouter = r
         /\ h.enabled = g.enabled /\ h.group = g.group /\ h.cfg = g.cfg
PROOF
  BY DEF Gicd, Routes

\* A write to a route.
LEMMA RouterWrite ==
  ASSUME NEW a \in GicdAccesses, a.reg = "IROUTER"
  PROVE  \E r \in [Routes -> Routes] :
           \A g \in Gicd : write_irouter(g, a) = [g EXCEPT !.irouter = r[g.irouter]]
PROOF
<1>1. \/ a.size = 8 /\ a.intid \in Spis /\ a.val \in [lo : Nat, hi : Nat]
      \/ a.size = 4 /\ a.intid \in Spis /\ a.half \in {"low", "high"} /\ a.val \in Nat
  BY DEF GicdAccesses, BankRegs
<1>2. CASE a.size = 8
  <2> DEFINE R == [x \in Routes |-> [x EXCEPT ![a.intid] = a.val]]
  <2>1. R \in [Routes -> Routes]
    BY <1>1, <1>2 DEF Routes
  <2>2. ASSUME NEW g \in Gicd PROVE write_irouter(g, a) = [g EXCEPT !.irouter = R[g.irouter]]
    <3>1. g.irouter \in Routes
      BY DEF Gicd, Routes
    <3> QED
      BY <1>2, <3>1 DEF write_irouter
  <2> QED
    BY <2>1, <2>2, Zenon
<1>3. CASE a.size = 4 /\ a.half = "low"
  <2> DEFINE R == [x \in Routes |-> [x EXCEPT ![a.intid].lo = a.val]]
  <2>1. R \in [Routes -> Routes]
    <3>1. ASSUME NEW x \in Routes PROVE [x EXCEPT ![a.intid].lo = a.val] \in Routes
      <4>1. PICK e : e = [x[a.intid] EXCEPT !.lo = a.val]
        BY Zenon
      <4>2. e \in [lo : Nat, hi : Nat]
        BY <1>1, <1>3, <4>1 DEF Routes
      <4>3. [x EXCEPT ![a.intid] = e] \in Routes
        BY <4>2, Zenon DEF Routes
      <4> QED
        BY <4>1, <4>3
    <3> QED
      BY <3>1
  <2>2. ASSUME NEW g \in Gicd PROVE write_irouter(g, a) = [g EXCEPT !.irouter = R[g.irouter]]
    <3>1. g.irouter \in Routes
      BY DEF Gicd, Routes
    <3> QED
      BY <1>3, <3>1 DEF write_irouter
  <2> QED
    BY <2>1, <2>2, Zenon
<1>4. CASE a.size = 4 /\ a.half = "high"
  <2> DEFINE R == [x \in Routes |-> [x EXCEPT ![a.intid].hi = a.val]]
  <2>1. R \in [Routes -> Routes]
    <3>1. ASSUME NEW x \in Routes PROVE [x EXCEPT ![a.intid].hi = a.val] \in Routes
      <4>1. PICK e : e = [x[a.intid] EXCEPT !.hi = a.val]
        BY Zenon
      <4>2. e \in [lo : Nat, hi : Nat]
        BY <1>1, <1>4, <4>1 DEF Routes
      <4>3. [x EXCEPT ![a.intid] = e] \in Routes
        BY <4>2, Zenon DEF Routes
      <4> QED
        BY <4>1, <4>3
    <3> QED
      BY <3>1
  <2>2. ASSUME NEW g \in Gicd PROVE write_irouter(g, a) = [g EXCEPT !.irouter = R[g.irouter]]
    <3>1. g.irouter \in Routes
      BY DEF Gicd, Routes
    <3> QED
      BY <1>4, <3>1 DEF write_irouter
  <2> QED
    BY <2>1, <2>2, Zenon
<1> QED
  BY <1>1, <1>2, <1>3, <1>4

\* A write to a bank, on two distributors that agree.
LEMMA BankWrite ==
  ASSUME NEW a \in GicdAccesses, a.reg \in BankRegs \cup {"CTLR"}, NEW g \in Gicd
  PROVE  /\ Bank(g, a) \in Gicd
         /\ \A s \in Gicd : Agree(s, g) => Agree(Bank(s, a), Bank(g, a))
PROOF
<1>1. IF a.reg = "CTLR" THEN a.bits \subseteq CtlrBits ELSE a.bits \subseteq Spis
  BY DEF GicdAccesses, BankRegs
<1>2. CASE a.reg = "CTLR"
  BY <1>1, <1>2 DEF Bank, Agree, Gicd, CtlrBits
<1>3. CASE a.reg = "IGROUPR"
  BY <1>1, <1>3 DEF Bank, Agree, Gicd
<1>4. CASE a.reg = "ISENABLER"
  BY <1>1, <1>4, Zenon DEF Bank, Agree, Gicd
<1>5. CASE a.reg = "ICENABLER"
  BY <1>1, <1>5, Zenon DEF Bank, Agree, Gicd
<1>6. CASE a.reg = "ISPENDR"
  BY <1>1, <1>6 DEF Bank, Agree, Gicd
<1>7. CASE a.reg = "ICPENDR"
  BY <1>1, <1>7 DEF Bank, Agree, Gicd
<1>8. CASE a.reg = "ISACTIVER"
  BY <1>1, <1>8 DEF Bank, Agree, Gicd
<1>9. CASE a.reg = "ICACTIVER"
  BY <1>1, <1>9 DEF Bank, Agree, Gicd
<1>10. CASE a.reg = "ICFGR"
  BY <1>1, <1>10 DEF Bank, Agree, Gicd
<1> QED
  BY <1>2, <1>3, <1>4, <1>5, <1>6, <1>7, <1>8, <1>9, <1>10, Zenon DEF BankRegs

\* Any write keeps the two in agreement.
LEMMA GicdWrite ==
  ASSUME NEW a \in GicdAccesses, NEW s \in Gicd, NEW g \in Gicd, Agree(s, g)
  PROVE  /\ shadow_write(s, a) \in Gicd /\ phys_write(g, a) \in Gicd
         /\ Agree(shadow_write(s, a), phys_write(g, a))
PROOF
<1>1. \/ a.reg = "IROUTER"
      \/ a.reg = "IPRIORITYR" /\ a.val \in Nat
      \/ a.reg \in BankRegs \cup {"CTLR"} /\ a.size = 4
  BY Zenon DEF GicdAccesses
<1>2. CASE a.reg = "IROUTER"
  <2>1. PICK r \in [Routes -> Routes] :
          \A h \in Gicd : write_irouter(h, a) = [h EXCEPT !.irouter = r[h.irouter]]
    BY <1>2, RouterWrite
  <2>2. s.irouter \in Routes /\ r[s.irouter] \in Routes /\ r[g.irouter] = r[s.irouter]
    BY DEF Gicd, Routes, Agree
  <2>3. /\ shadow_write(s, a) = [s EXCEPT !.irouter = r[s.irouter]]
        /\ phys_write(g, a) = [g EXCEPT !.irouter = r[s.irouter]]
    BY <1>2, <2>1, <2>2 DEF shadow_write, phys_write
  <2> QED
    BY <2>2, <2>3, WithRoutes DEF Agree
<1>3. CASE a.reg = "IPRIORITYR"
  <2> DEFINE P(h) == [h EXCEPT !.prio = [i \in Spis |-> IF i \in a.bits THEN a.val ELSE @[i]]]
  <2>1. phys_write(g, a) = P(g) /\ shadow_write(s, a) \in {s, P(s)}
    BY <1>3 DEF phys_write, shadow_write
  <2>2. ASSUME NEW h \in Gicd
        PROVE  P(h) \in Gicd /\ Agree(P(h), h)
    <3>1. PICK f : f = [i \in Spis |-> IF i \in a.bits THEN a.val ELSE h.prio[i]]
      BY Zenon
    <3>2. f \in [Spis -> Nat]
      BY <1>1, <1>3, <3>1, Zenon DEF Gicd, BankRegs
    <3>3. P(h) = [h EXCEPT !.prio = f]
      BY <3>1
    <3> QED
      BY <3>2, <3>3, Zenon DEF Gicd, Agree
  <2> QED
    BY <2>1, <2>2, Zenon DEF Agree
<1>4. CASE a.reg \in BankRegs \cup {"CTLR"} /\ a.size = 4
  <2>1. phys_write(g, a) = Bank(g, a) /\ shadow_write(s, a) = Bank(s, a)
    BY <1>4 DEF phys_write, shadow_write, BankRegs
  <2> QED
    BY <1>4, <2>1, BankWrite
<1> QED
  BY <1>1, <1>2, <1>3, <1>4

\* A write happens in handle_mmio; nothing else touches a distributor.
LEMMA NextGic == GicInv /\ StartInv /\ [Next]_vars => GicInv'
PROOF
<1> SUFFICES ASSUME GicInv, StartInv, [Next]_vars PROVE GicInv'
  OBVIOUS
<1>1. ASSUME NEW p \in Cpus, handle_mmio(p) PROVE GicInv'
  <2>1. acc[p] \in Operations \cup {None}
    BY DEF StartInv, StartTypes
  <2>2. CASE acc[p].dev = "gicd"
    <3>1. gicd' = phys_write(gicd, acc[p]) /\ shadow' = shadow_write(shadow, acc[p])
      BY <1>1, <2>2, Zenon DEF handle_mmio
    <3>2. acc[p] \in GicdAccesses
      BY <2>1, <2>2, OperationShapes
    <3> QED
      BY <3>1, <3>2, GicdWrite DEF GicInv
  <2>3. CASE acc[p].dev # "gicd"
    <3>1. UNCHANGED <<gicd, shadow>>
      BY <1>1, <2>3, Zenon DEF handle_mmio
    <3> QED
      BY <3>1 DEF GicInv
  <2> QED
    BY <2>2, <2>3
<1>2. UNCHANGED gics => GicInv'
  BY DEF gics, GicInv
<1>3. UNCHANGED vars => GicInv'
  BY <1>2 DEF vars
<1>4. byte => GicInv'
  BY <1>2 DEF byte
<1>5. ASSUME NEW p \in Cpus, Run(p) PROVE GicInv'
  <2>1. handle_mmio(p) \/ UNCHANGED gics
    BY <1>5, Zenon DEF Run, wfe, take, secondary_enter_guest, pop, popped, push, release, raise,
                inject_pending_sgis, inject_pending_spis, sgi_irq, uart_irq, rx, rx_publish,
                send_physical_sgi, request, sev, unlock, flush_pending_spis_to_hardware
  <2> QED
    BY <1>1, <1>2, <2>1
<1>6. ASSUME NEW p \in Cpus, Virq(p) \/ Operation(p) PROVE GicInv'
  <2>1. UNCHANGED gics
    BY <1>6, Zenon DEF Virq, virq, Operation, handle_sgi_trap, cpu_on, cpu_off, mmio
  <2> QED
    BY <1>2, <2>1
<1> QED
  BY <1>3, <1>4, <1>5, <1>6 DEF Next

\* The shadow starts as a copy of the distributor.
LEMMA InitGic == Init => GicInv
PROOF
<1> SUFFICES ASSUME Init PROVE GicInv
  OBVIOUS
<1>1. shadow = Booted(NewGicd) /\ gicd = Booted(NewGicd)
  BY DEF Init
<1>2. Booted(NewGicd) \in Gicd
  <2>1. PICK z : z = [i \in Spis |-> 0]
    BY Zenon
  <2>2. PICK r : r = [i \in Spis |-> [lo |-> 0, hi |-> 0]]
    BY Zenon
  <2>3. z \in [Spis -> Nat] /\ r \in [Spis -> [lo : Nat, hi : Nat]]
    BY <2>1, <2>2
  <2>4. NewGicd = [ctlr |-> {"ARE"}, group |-> {}, enabled |-> {}, pending |-> {}, active |-> {},
                   cfg |-> {}, prio |-> z, irouter |-> r]
    BY <2>1, <2>2, Zenon DEF NewGicd
  <2> QED
    BY <2>3, <2>4 DEF Booted, Gicd, CtlrBits
<1> QED
  BY <1>1, <1>2 DEF GicInv, Agree

-----------------------------------------------------------------------------
(* The console.                                                            *)

\* A VirtualUart: its receive interrupt stands exactly while there are bytes to read.
Uart(u) ==
  /\ u \in [rx : Seq(Nat), ris : SUBSET Ints, imsc : SUBSET Ints]
  /\ Len(u.rx) < RxBufSize
  /\ "RX" \in u.ris <=> u.rx # <<>>

\* The console: every buffer in its bounds.
ConsTypes ==
  /\ Uart(uart)
  /\ fifo \in Seq(Nat) /\ typed \in Seq(Nat) /\ buf \in Seq(Nat) /\ Len(buf) <= DrainMax
  /\ ring \in [buf : [0 .. RingSize - 1 -> Nat], head : 0 .. RingSize - 1, tail : 0 .. RingSize - 1]

\* The next place of the ring, without a remainder.
LEMMA AfterIs ==
  ASSUME NEW i \in 0 .. RingSize - 1
  PROVE  /\ After(i) = IF i = RingSize - 1 THEN 0 ELSE i + 1
         /\ After(i) \in 0 .. RingSize - 1
PROOF
<1>1. RingSize \in Nat \ {0}
  BY MultiPcpuAssumption
<1>2. PICK r : r = RingSize
  OBVIOUS
<1>3. CASE i = r - 1
  <2>1. (i + 1) % r = 0
    <3>1. i + 1 = r
      BY <1>1, <1>2, <1>3
    <3>2. r % r = 0
      BY <1>1, <1>2
    <3> QED
      BY <3>1, <3>2
  <2> QED
    BY <1>1, <1>2, <1>3, <2>1 DEF After
<1>4. CASE i # r - 1
  <2>1. (i + 1) % r = i + 1
    BY <1>1, <1>2, <1>4
  <2> QED
    BY <1>1, <1>2, <1>4, <2>1 DEF After
<1> QED
  BY <1>3, <1>4

\* Facts about sequences.
LEMMA EmptyLen == \A s \in Seq(Nat) : s = <<>> <=> Len(s) = 0
PROOF
  OBVIOUS

\* The bytes that enter.
LEMMA PushAll ==
  ASSUME NEW u, Uart(u), NEW chars \in Seq(Nat)
  PROVE  /\ Fitting(u, chars) \in 0 .. Len(chars)
         /\ SubSeq(chars, 1, Fitting(u, chars)) \in Seq(Nat)
         /\ push_all(u, chars).rx = u.rx \o SubSeq(chars, 1, Fitting(u, chars))
         /\ Uart(push_all(u, chars))
PROOF
<1> DEFINE n == Fitting(u, chars)
           s == SubSeq(chars, 1, n)
<1>1. RxBufSize \in Nat /\ u.rx \in Seq(Nat) /\ u.ris \subseteq Ints /\ u.imsc \subseteq Ints
  BY MultiPcpuAssumption DEF Uart
<1>2. Len(u.rx) \in Nat /\ Len(chars) \in Nat /\ Len(u.rx) < RxBufSize
  BY <1>1 DEF Uart
<1>3. n \in 0 .. Len(chars) /\ Len(u.rx) + n < RxBufSize
  <2>1. PICK l, c, b : l = Len(u.rx) /\ c = Len(chars) /\ b = RxBufSize
    BY Zenon
  <2>2. n = IF c <= b - 1 - l THEN c ELSE b - 1 - l
    BY <2>1 DEF Fitting
  <2>3. l \in Nat /\ c \in Nat /\ b \in Nat /\ l < b
    BY <1>1, <1>2, <2>1
  <2>4. n \in 0 .. c /\ l + n < b
    BY <2>2, <2>3
  <2> QED
    BY <2>1, <2>4
<1>4. s \in Seq(Nat) /\ Len(s) = n
  BY <1>3
<1> HIDE DEF n
<1>5. PICK r : r = u.rx \o s
  BY Zenon
<1>6. r \in Seq(Nat) /\ Len(r) = Len(u.rx) + n
  BY <1>1, <1>4, <1>5
<1>7. PICK q : q = IF n = 0 THEN u.ris ELSE u.ris \cup {"RX"}
  BY Zenon
<1>8. push_all(u, chars) = [u EXCEPT !.rx = r, !.ris = q]
  BY <1>5, <1>7 DEF push_all, n
<1>9. push_all(u, chars) = [rx |-> r, ris |-> q, imsc |-> u.imsc]
  BY <1>8, Zenon DEF Uart
<1>10. q \subseteq Ints /\ ("RX" \in q <=> r # <<>>)
  <2>1. r # <<>> <=> Len(r) # 0
    BY <1>6
  <2>2. u.rx # <<>> <=> Len(u.rx) # 0
    BY <1>1
  <2>3. Len(r) # 0 <=> Len(u.rx) # 0 \/ n # 0
    BY <1>2, <1>3, <1>6
  <2> QED
    BY <1>1, <1>7, <2>1, <2>2, <2>3 DEF Uart, Ints
<1>11. Len(r) < RxBufSize
  BY <1>3, <1>6
<1>12. Uart(push_all(u, chars))
  <2>1. u.imsc \in SUBSET Ints
    BY DEF Uart
  <2>2. PICK w : w = [rx |-> r, ris |-> q, imsc |-> u.imsc]
    BY Zenon
  <2>3. w \in [rx : Seq(Nat), ris : SUBSET Ints, imsc : SUBSET Ints] /\ w.rx = r /\ w.ris = q
    BY <1>6, <1>10, <2>1, <2>2
  <2>4. Uart(w)
    BY <1>10, <1>11, <2>3, Zenon DEF Uart
  <2> QED
    BY <1>9, <2>2, <2>4, Zenon
<1>13. push_all(u, chars).rx = u.rx \o s
  <2>1. push_all(u, chars).rx = r
    BY <1>9
  <2> QED
    BY <1>5, <2>1, Zenon
<1> HIDE DEF s
<1>14. n \in 0 .. Len(chars) /\ s \in Seq(Nat) /\ push_all(u, chars).rx = u.rx \o s /\ Uart(push_all(u, chars))
  BY <1>3, <1>4, <1>12, <1>13
<1> QED
  BY <1>14 DEF n, s

\* An access of the guest; only one that reads takes a byte.
LEMMA UartAccess ==
  ASSUME NEW u, Uart(u), NEW a \in UartAccesses
  PROVE  /\ Uart(uart_access(u, a))
         /\ uart_access(u, a).rx = IF a.reg = "read" /\ u.rx # <<>> THEN Tail(u.rx) ELSE u.rx
PROOF
<1>1. \/ a.reg \in {"read", "write"}
      \/ a.reg = "imsc" /\ a.val \subseteq Ints
      \/ a.reg = "icr" /\ a.val \subseteq Ints \ {"RX"}
  BY DEF UartAccesses
<1>2. CASE a.reg = "read"
  <2>1. CASE u.rx = <<>>
    BY <1>2, <2>1 DEF uart_access, pop_rx
  <2>2. CASE u.rx # <<>>
    <3>1. u.rx \in Seq(Nat) /\ u.ris \subseteq Ints /\ u.imsc \subseteq Ints /\ RxBufSize \in Nat
      BY MultiPcpuAssumption DEF Uart
    <3>2. PICK r : r = Tail(u.rx)
      BY Zenon
    <3>3. r \in Seq(Nat) /\ Len(u.rx) \in Nat /\ Len(r) = Len(u.rx) - 1
      BY <2>2, <3>1, <3>2
    <3>4. PICK q : q = IF Len(u.rx) = 1 THEN u.ris \ {"RX"} ELSE u.ris
      BY Zenon
    <3>5. uart_access(u, a) = [u EXCEPT !.rx = r, !.ris = q]
      BY <1>2, <2>2, <3>2, <3>4 DEF uart_access, pop_rx
    <3>6. uart_access(u, a) = [rx |-> r, ris |-> q, imsc |-> u.imsc]
      BY <3>5, Zenon DEF Uart
    <3>7. r # <<>> <=> Len(u.rx) # 1
      <4>1. r # <<>> <=> Len(r) # 0
        BY <3>3, EmptyLen, Zenon
      <4> QED
        BY <3>3, <4>1
    <3>8. q \subseteq Ints /\ ("RX" \in q <=> r # <<>>)
      BY <2>2, <3>1, <3>4, <3>7 DEF Uart
    <3>9. Len(r) < RxBufSize
      BY <3>1, <3>3 DEF Uart
    <3> QED
      BY <1>2, <2>2, <3>1, <3>2, <3>3, <3>6, <3>8, <3>9 DEF Uart
  <2> QED
    BY <2>1, <2>2
<1>3. CASE a.reg = "write"
  <2>1. uart_access(u, a) = [u EXCEPT !.ris = u.ris \cup {"TX"}]
    BY <1>3 DEF uart_access
  <2> QED
    BY <1>3, <2>1 DEF Uart, Ints
<1>4. CASE a.reg = "imsc"
  <2>1. uart_access(u, a) = [u EXCEPT !.imsc = a.val]
    BY <1>4 DEF uart_access
  <2> QED
    BY <1>1, <1>4, <2>1 DEF Uart
<1>5. CASE a.reg = "icr"
  <2>1. uart_access(u, a) = [u EXCEPT !.ris = u.ris \ a.val]
    BY <1>5 DEF uart_access
  <2> QED
    BY <1>1, <1>5, <2>1 DEF Uart
<1> QED
  BY <1>1, <1>2, <1>3, <1>4, <1>5, Zenon

\* Head and Tail, place by place.
LEMMA HeadTail ==
  ASSUME NEW s \in Seq(Nat), s # <<>>
  PROVE  /\ Len(s) \in Nat \ {0} /\ Head(s) = s[1] /\ Head(s) \in Nat
         /\ Tail(s) \in Seq(Nat) /\ Len(Tail(s)) = Len(s) - 1
         /\ \A i \in 1 .. Len(s) - 1 : Tail(s)[i] = s[i + 1]
PROOF
<1>1. Len(s) \in Nat \ {0}
  BY EmptyLen
<1> QED
  BY <1>1

\* The console starts empty.
LEMMA InitCons == Init => ConsTypes
PROOF
<1> SUFFICES ASSUME Init PROVE ConsTypes
  OBVIOUS
<1>1. RingSize \in Nat \ {0} /\ RxBufSize \in Nat \ {0} /\ DrainMax \in Nat
  BY MultiPcpuAssumption
<1>2. Uart(uart)
  <2>1. uart = [rx |-> <<>>, ris |-> {}, imsc |-> {"RX"}]
    BY Zenon DEF Init, NewUart
  <2>2. <<>> \in Seq(Nat) /\ Len(<<>>) = 0
    OBVIOUS
  <2>3. Len(uart.rx) < RxBufSize
    BY <1>1, <2>1, <2>2
  <2> QED
    BY <2>1, <2>2, <2>3 DEF Uart, Ints
<1>3. fifo \in Seq(Nat) /\ typed \in Seq(Nat) /\ buf \in Seq(Nat) /\ Len(buf) <= DrainMax
  BY <1>1 DEF Init
<1>4. ring \in [buf : [0 .. RingSize - 1 -> Nat], head : 0 .. RingSize - 1, tail : 0 .. RingSize - 1]
  BY <1>1 DEF Init
<1> QED
  BY <1>2, <1>3, <1>4 DEF ConsTypes

RingOK(r) ==
  r \in [buf : [0 .. RingSize - 1 -> Nat], head : 0 .. RingSize - 1, tail : 0 .. RingSize - 1]

\* What the three writers of the ring write.
LEMMA RingWrites ==
  ASSUME NEW r, RingOK(r)
  PROVE  /\ \A x \in Nat : RingOK([r EXCEPT !.buf[r.tail] = x])
         /\ RingOK([r EXCEPT !.tail = After(@)])
         /\ RingOK([r EXCEPT !.head = After(@)])
PROOF
<1>1. After(r.tail) \in 0 .. RingSize - 1 /\ After(r.head) \in 0 .. RingSize - 1
  BY AfterIs DEF RingOK
<1>2. ASSUME NEW x \in Nat PROVE RingOK([r EXCEPT !.buf[r.tail] = x])
  <2>1. PICK b : b = [r.buf EXCEPT ![r.tail] = x]
    BY Zenon
  <2>2. b \in [0 .. RingSize - 1 -> Nat]
    BY <2>1 DEF RingOK
  <2>3. [r EXCEPT !.buf[r.tail] = x] = [r EXCEPT !.buf = b]
    BY <2>1
  <2> QED
    BY <2>2, <2>3 DEF RingOK
<1> QED
  BY <1>1, <1>2 DEF RingOK

\* The steps that touch the console.
LEMMA ByteCons == ConsTypes /\ StartInv /\ byte => ConsTypes'
PROOF
<1> SUFFICES ASSUME ConsTypes, StartInv, byte PROVE ConsTypes'
  OBVIOUS
<1>1. todo[Byte] \in Nat
  BY DEF byte, Uses, StartInv, StartTypes
<1>2. fifo' = Append(fifo, todo[Byte]) /\ UNCHANGED <<uart, ring, buf, typed>>
  BY DEF byte
<1>3. fifo' \in Seq(Nat)
  BY <1>1, <1>2 DEF ConsTypes
<1> QED
  BY <1>2, <1>3 DEF ConsTypes

\* The UART interrupt and the reader of the ring.
LEMMA RxCons ==
  ASSUME ConsTypes, NEW p \in Cpus, rx(p) \/ rx_publish(p) \/ popped(p)
  PROVE  ConsTypes'
PROOF
<1>1. RingOK(ring) /\ fifo \in Seq(Nat)
  BY DEF ConsTypes, RingOK
<1>2. UNCHANGED <<uart, buf, typed>>
  BY DEF rx, rx_publish, popped
<1>3. RingOK(ring') /\ fifo' \in Seq(Nat)
  <2>1. CASE rx(p)
    <3>1. CASE UNCHANGED <<fifo, ring>>
      BY <1>1, <3>1 DEF RingOK
    <3>2. CASE /\ fifo # <<>> /\ fifo' = Tail(fifo)
               /\ ring' = ring \/ ring' = [ring EXCEPT !.buf[ring.tail] = Head(fifo)]
      <4>1. fifo' \in Seq(Nat) /\ Head(fifo) \in Nat
        BY <1>1, <3>2, HeadTail
      <4>2. PICK x : x = Head(fifo)
        OBVIOUS
      <4>3. x \in Nat /\ (ring' = ring \/ ring' = [ring EXCEPT !.buf[ring.tail] = x])
        BY <3>2, <4>1, <4>2
      <4>4. RingOK([ring EXCEPT !.buf[ring.tail] = x])
        BY <1>1, <4>3, RingWrites, Zenon
      <4> QED
        BY <1>1, <4>1, <4>3, <4>4, Zenon DEF RingOK
    <3> QED
      BY <2>1, <3>1, <3>2 DEF rx
  <2>2. CASE rx_publish(p)
    BY <1>1, <2>2, RingWrites, Zenon DEF rx_publish
  <2>3. CASE popped(p)
    BY <1>1, <2>3, RingWrites, Zenon DEF popped
  <2> QED
    BY <2>1, <2>2, <2>3
<1> QED
  BY <1>2, <1>3 DEF ConsTypes, RingOK

\* drain_uart_rx and push_rx.
LEMMA PopCons ==
  ASSUME ConsTypes, NEW p \in Cpus, pop(p) \/ push(p)
  PROVE  ConsTypes'
PROOF
<1>0. DrainMax \in Nat
  BY MultiPcpuAssumption
<1>1. CASE pop(p)
  <2>1. UNCHANGED <<uart, fifo, ring, typed>> /\ (buf' = buf \/ buf' = Popped)
    BY <1>1, Zenon DEF pop
  <2>2. ring.buf[ring.head] \in Nat
    BY Zenon DEF ConsTypes
  <2>3. Popped \in Seq(Nat) /\ Len(Popped) <= DrainMax
    <3>1. PICK x : x = ring.buf[ring.head]
      BY Zenon
    <3>2. Popped = IF Len(buf) < DrainMax THEN Append(buf, x) ELSE buf
      BY <3>1 DEF Popped
    <3>3. x \in Nat /\ buf \in Seq(Nat) /\ Len(buf) <= DrainMax
      BY <2>2, <3>1 DEF ConsTypes
    <3>4. Append(buf, x) \in Seq(Nat) /\ Len(Append(buf, x)) = Len(buf) + 1 /\ Len(buf) \in Nat
      BY <3>3
    <3> QED
      BY <1>0, <3>2, <3>3, <3>4
  <2> QED
    BY <2>1, <2>3 DEF ConsTypes
<1>2. CASE push(p)
  <2>1. uart' = push_all(uart, buf) /\ buf' = <<>> /\ UNCHANGED <<fifo, ring, typed>>
    BY <1>2 DEF push
  <2>2. Uart(uart')
    BY <2>1, PushAll DEF ConsTypes
  <2>3. buf' \in Seq(Nat) /\ Len(buf') <= DrainMax
    BY <1>0, <2>1
  <2> QED
    BY <2>1, <2>2, <2>3 DEF ConsTypes
<1> QED
  BY <1>1, <1>2

\* Accesses to the devices.
LEMMA MmioCons ==
  ASSUME ConsTypes, StartInv, NEW p \in Cpus, handle_mmio(p)
  PROVE  ConsTypes'
PROOF
<1>1. UNCHANGED <<fifo, ring, buf>>
  BY Zenon DEF handle_mmio
<1>2. acc[p] \in Operations \cup {None}
  BY DEF StartInv, StartTypes
<1>3. Uart(uart')
  <2>1. CASE acc[p].dev = "uart"
    <3>1. acc[p] \in UartAccesses
      BY <1>2, <2>1, OperationShapes
    <3>2. uart' = uart_access(uart, acc[p])
      BY <2>1, Zenon DEF handle_mmio
    <3> QED
      BY <3>1, <3>2, UartAccess, Zenon DEF ConsTypes
  <2>2. CASE acc[p].dev # "uart"
    <3>1. uart' = uart
      BY <2>2, Zenon DEF handle_mmio
    <3> QED
      BY <3>1 DEF ConsTypes
  <2> QED
    BY <2>1, <2>2
<1>4. typed' \in Seq(Nat)
  <2>1. typed' = typed \/ (uart.rx # <<>> /\ typed' = Append(typed, Head(uart.rx)))
    BY Zenon DEF handle_mmio, RxEmpty
  <2>2. typed \in Seq(Nat) /\ uart.rx \in Seq(Nat)
    BY DEF ConsTypes, Uart
  <2>3. uart.rx # <<>> => Head(uart.rx) \in Nat
    BY <2>2, HeadTail
  <2>4. \A x \in Nat : Append(typed, x) \in Seq(Nat)
    BY <2>2
  <2> QED
    BY <2>1, <2>2, <2>3, <2>4, Zenon
<1> QED
  BY <1>1, <1>3, <1>4 DEF ConsTypes

\* Which steps they are.
LEMMA ConsSteps ==
  ASSUME NEW p \in Cpus, Run(p) \/ Virq(p) \/ Operation(p)
  PROVE  \/ rx(p) \/ rx_publish(p) \/ popped(p) \/ pop(p) \/ push(p) \/ handle_mmio(p)
         \/ UNCHANGED cons
PROOF
<1>1. CASE Run(p)
  BY <1>1, Zenon DEF Run, wfe, take, secondary_enter_guest, release, raise, inject_pending_sgis,
              inject_pending_spis, sgi_irq, uart_irq, send_physical_sgi, request, sev, unlock,
              flush_pending_spis_to_hardware
<1>2. CASE Virq(p) \/ Operation(p)
  BY <1>2, Zenon DEF Virq, virq, Operation, handle_sgi_trap, cpu_on, cpu_off, mmio
<1> QED
  BY <1>1, <1>2

\* Every step.
LEMMA NextCons == ConsTypes /\ StartInv /\ [Next]_vars => ConsTypes'
PROOF
<1> SUFFICES ASSUME ConsTypes, StartInv, [Next]_vars PROVE ConsTypes'
  OBVIOUS
<1>1. UNCHANGED cons => ConsTypes'
  BY DEF cons, ConsTypes
<1>2. UNCHANGED vars => ConsTypes'
  BY <1>1 DEF vars
<1>3. ASSUME NEW p \in Cpus, Run(p) \/ Virq(p) \/ Operation(p) PROVE ConsTypes'
  BY <1>1, <1>3, ConsSteps, RxCons, PopCons, MmioCons
<1> QED
  BY <1>2, <1>3, ByteCons DEF Next

-----------------------------------------------------------------------------
(* Together.                                                               *)

\* The devices hold together: types and bounds, the receive interrupt, the two distributors.
THEOREM DevicesTheorem == Spec => []DevicesConsistent
PROOF
<1>1. IrqTypes /\ StartInv /\ GicInv /\ ConsTypes /\ LockTypeOK => DevicesConsistent
  <2> SUFFICES ASSUME IrqTypes, StartInv, GicInv, ConsTypes, LockTypeOK
               PROVE  DevicesConsistent
    OBVIOUS
  <2>1. /\ slot \in [Cpus -> [requested : BOOLEAN, entry : Nat]]
        /\ entry \in [Cpus -> Nat] /\ asked \in [Cpus -> Nat]
    BY DEF StartInv, StartTypes
  <2>2. online \subseteq Cpus
    BY DEF StartInv
  <2>3. \A p \in Cpus : FreeLrs(p) >= 0
    BY UsedFinite, MultiPcpuAssumption DEF FreeLrs, IrqTypes
  <2>4. TypeOK
    BY <2>1, <2>2, <2>3, Zenon DEF TypeOK, IrqTypes, Regs, GicInv, ConsTypes, Uart
  <2> QED
    BY <2>4 DEF DevicesConsistent, RxEmpty, ConsTypes, Uart, GicInv, Agree
<1>2. TicketsInOrder => LockTypeOK
  BY DEF TicketsInOrder
<1> QED
  BY <1>1, <1>2, DevicesExclusive, StartInvariance, InitIrq, NextIrq, InitGic, NextGic, InitCons,
     NextCons, PTL DEF Spec
=============================================================================
