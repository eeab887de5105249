------------------------------- MODULE VmSmp -------------------------------
(***************************************************************************)
(* A VM with several vCPUs on one physical CPU: run_smp/run_one_iteration  *)
(* of vm.rs, the round-robin scheduler.rs, PSCI and the SGI, SPI, timer    *)
(* and WFI paths of exception.rs, the pending masks of global.rs and the   *)
(* List Registers that vcpu_arch_state.rs saves and restores per vCPU.     *)
(*                                                                         *)
(* The CPU alternates between "host", where run_one_iteration starts, and  *)
(* "guest", where the current vCPU executes.  EL2 code runs with IRQs      *)
(* masked: a trap is one action, from the trap to the ERET or to the end   *)
(* of the iteration, and so is the start of an iteration up to the ERET.   *)
(***************************************************************************)
EXTENDS Integers, FiniteSets

CONSTANTS
  MaxVcpus,  \* MAX_VCPUS
  NumLrs,    \* NUM_LRS
  SGIs,      \* SGI INTIDs the guest uses, below 16
  SPIs       \* SPI INTIDs devices raise, 32 to 63

VTIMER == 27
Vcpus == 0 .. MaxVcpus - 1
Lrs == 1 .. NumLrs
INTIDs == SGIs \cup SPIs \cup {VTIMER}

ASSUME VmSmpAssumption ==
  /\ MaxVcpus \in Nat \ {0}
  /\ NumLrs \in Nat \ {0}
  /\ SGIs \subseteq 0..15
  /\ SPIs \subseteq 32..63

VARIABLES
  at,        \* "host", "guest" or "done" (run_smp has returned)
  states,    \* Scheduler.states
  current,   \* Scheduler.current, None if there is none
  next_idx,  \* Scheduler.next_idx
  exists,    \* the vCPUs with vcpus[id].is_some()
  online,    \* vcpu_online_mask
  cpu_on,    \* pending_cpu_on: the target, None if nothing is requested
  sgis,      \* pending_sgis
  spis,      \* pending_spis
  lr         \* lr[v]: the List Registers of v, in ich_lr or, while it runs, in hardware

sched == <<states, current, next_idx>>
vars == <<at, states, current, next_idx, exists, online, cpu_on, sgis, spis, lr>>

None == -1
RunState == {"None", "Ready", "Running", "Blocked"}
Free == [state |-> "Invalid", intid |-> 0]
LrEntries == [state : {"Pending", "Active"}, intid : INTIDs] \cup {Free}

\* More than one bit of vcpu_online_mask is set.
Multi == \E v, w \in online : v # w

-----------------------------------------------------------------------------
(* List Registers.  Pending interrupts are placed in ascending order into  *)
(* the free registers, and those that find none are left over.             *)

FreeLrs(regs) == {i \in Lrs : regs[i] = Free}
Rank(n, S) == Cardinality({m \in S : m <= n})

Filled(regs, S) ==
  [i \in Lrs |->
     IF i \in FreeLrs(regs) /\ Rank(i, FreeLrs(regs)) <= Cardinality(S)
     THEN [state |-> "Pending",
           intid |-> CHOOSE n \in S : Rank(n, S) = Rank(i, FreeLrs(regs))]
     ELSE regs[i]]

\* What finds no free register is queued again; a mutant forgets to.
Requeued_mutant(regs, S) == {}
Requeued(regs, S) == {n \in S : Rank(n, S) > Cardinality(FreeLrs(regs))}

\* inject_interrupt, whose error its callers here discard.
inject_interrupt(v, intid) == lr' = [lr EXCEPT ![v] = Filled(@, {intid})]

\* inject_hw_interrupt: an Active register of the same INTID is cleared first.
inject_hw_interrupt(v, intid) ==
  LET stale == {i \in Lrs : lr[v][i] = [state |-> "Active", intid |-> intid]}
      usable == FreeLrs(lr[v]) \cup stale
  IN  lr' = [lr EXCEPT ![v] = [i \in Lrs |->
               IF i \in usable /\ \A j \in usable : i <= j
               THEN [state |-> "Pending", intid |-> intid]
               ELSE IF i \in stale THEN Free ELSE @[i]]]

-----------------------------------------------------------------------------
(* Scheduler.                                                              *)

\* pick_next: the current vCPU if it is Running, else the first Ready one from next_idx
\* on; a mutant starts at 0.
Distance(v) == (v - next_idx + MaxVcpus) % MaxVcpus
FirstReady_mutant(st, v) == st[v] = "Ready" /\ \A w \in Vcpus : st[w] = "Ready" => v <= w
FirstReady(st, v) ==
  st[v] = "Ready" /\ \A w \in Vcpus : st[w] = "Ready" => Distance(v) <= Distance(w)
pick_next(st, v) ==
  IF current # None /\ st[current] = "Running" THEN v = current ELSE FirstReady(st, v)

\* The search goes on after the vCPU that leaves.
Advance == next_idx' = (current + 1) % MaxVcpus

yield_current ==
  /\ states' = [states EXCEPT ![current] = "Ready"]
  /\ current' = None
  /\ Advance

block_current ==
  /\ states' = [states EXCEPT ![current] = "Blocked"]
  /\ current' = None
  /\ Advance

remove_current ==
  /\ states' = [states EXCEPT ![current] = "None"]
  /\ current' = None
  /\ UNCHANGED next_idx

Unblocked(st, S) == [v \in Vcpus |-> IF v \in S /\ st[v] = "Blocked" THEN "Ready" ELSE st[v]]

-----------------------------------------------------------------------------
(* run_one_iteration up to the entry of the guest.                         *)

\* The vCPU a pending CPU_ON boots.
Booted == ({cpu_on} \cap Vcpus) \ exists

\* Its bit in vcpu_online_mask is set; a mutant forgets to.
SetOnline_mutant == UNCHANGED online
SetOnline == online' = online \cup Booted

\* wake_pending_vcpus; a mutant looks at SPIs only.
HasPending_mutant(v) == spis[v] # {}
HasPending(v) == sgis[v] # {} \/ spis[v] # {}

\* Where devices raise SPIs: raised[i] is the vCPU that GICD_IROUTER names for SPI i, and
\* MaxVcpus if i is not raised or is routed to no vCPU (inject_spi drops it).
Raised == [SPIs -> Vcpus \cup {MaxVcpus}]
WithSpis(raised) == [v \in Vcpus |-> spis[v] \cup {i \in SPIs : raised[i] = v}]

\* inject_pending_sgis, then inject_pending_spis, whose INTIDs are larger.
InjectPending(v, regs, queued) ==
  LET all == sgis[v] \cup queued[v] IN
  /\ lr' = [regs EXCEPT ![v] = Filled(@, all)]
  /\ sgis' = [sgis EXCEPT ![v] = Requeued(regs[v], all) \cap SGIs]
  /\ spis' = [queued EXCEPT ![v] = Requeued(regs[v], all) \cap SPIs]

iteration ==
  LET there == exists \cup Booted
      booted == [v \in Vcpus |-> IF v \in Booted THEN "Ready" ELSE states[v]]
      regs == [v \in Vcpus |-> IF v \in Booted THEN [i \in Lrs |-> Free] ELSE lr[v]]
      st == Unblocked(booted, {v \in there : HasPending(v)})
  IN
  /\ at = "host"
  /\ exists' = there
  /\ SetOnline
  /\ cpu_on' = None
  /\ \/ \E v \in Vcpus, raised \in Raised :  \* by the UART and network drains
          /\ pick_next(st, v)
          /\ states' = [st EXCEPT ![v] = "Running"]
          /\ current' = v
          /\ InjectPending(v, regs, WithSpis(raised))
          /\ at' = "guest"
          /\ UNCHANGED next_idx
     \/ /\ ~\E v \in Vcpus : pick_next(st, v)
        /\ states' = Unblocked(st, online' \cap there)
        /\ at' = IF online' \cap there = {} THEN "done" ELSE "host"
        /\ lr' = regs
        /\ UNCHANGED <<current, next_idx, sgis, spis>>

-----------------------------------------------------------------------------
(* Traps of the current vCPU.  Exit ends the iteration: vcpu.run() returns *)
(* and saves the List Registers.                                           *)

Trap == at = "guest" /\ UNCHANGED <<exists, online>>
Resume == UNCHANGED <<at, states, current, next_idx, cpu_on>>
Exit == at' = "host"

\* Guest exit after which the vCPU yields: hypercall 1 or an unknown one, an abort that is
\* no MMIO, the UART interrupt, and CNTHP with several vCPUs online (preemption_exit).
guest_exit ==
  /\ Trap /\ Exit /\ yield_current
  /\ UNCHANGED <<cpu_on, sgis, spis, lr>>

\* The CNTHP watchdog, armed before every entry while several vCPUs are online.
preemption_timer == Multi /\ guest_exit

\* PSCI CPU_ON: the request is noted and the guest left.
CpuOn(target) == cpu_on' = target /\ Exit /\ yield_current

psci_cpu_on(target) ==
  /\ Trap /\ CpuOn(target)
  /\ UNCHANGED <<sgis, spis, lr>>

\* CPU_OFF, SYSTEM_OFF and SYSTEM_RESET set terminal_exit of the current vCPU, which
\* the exit takes back.
psci_terminal ==
  /\ Trap /\ Exit /\ remove_current
  /\ UNCHANGED <<cpu_on, sgis, spis, lr>>

\* WFI, with or without a timer tick injected (which depends on the PC, the timer and a
\* count of WFIs).  With one vCPU online the guest goes on, unless it is stuck at one WFI.
wfi(tick) ==
  /\ Trap
  /\ IF tick THEN inject_interrupt(current, VTIMER) ELSE UNCHANGED lr
  /\ \/ ~Multi /\ Resume
     \/ (Multi \/ ~tick) /\ Exit /\ block_current /\ UNCHANGED cpu_on
  /\ UNCHANGED <<sgis, spis>>

\* ICC_SGI1R_EL1, with IRM (all online vCPUs but this one) or a target list.
handle_sgi_trap(irm, list, intid) ==
  LET targets == IF irm THEN online \ {current} ELSE list IN
  /\ Trap /\ Resume
  /\ sgis' = [v \in Vcpus |-> IF v \in targets \ {current} THEN sgis[v] \cup {intid} ELSE sgis[v]]
  /\ IF current \in targets THEN inject_interrupt(current, intid) ELSE UNCHANGED lr
  /\ UNCHANGED spis

\* A physical SGI goes to vCPU 0.
physical_sgi(intid) ==
  /\ Trap /\ Resume
  /\ IF current = 0
     THEN inject_interrupt(0, intid) /\ UNCHANGED sgis
     ELSE sgis' = [sgis EXCEPT ![0] = @ \cup {intid}] /\ UNCHANGED lr
  /\ UNCHANGED spis

\* The virtual timer; with an SGI waiting for another vCPU the guest is left.
virtual_timer ==
  /\ Trap
  /\ inject_hw_interrupt(current, VTIMER)
  /\ IF Multi /\ \E v \in Vcpus \ {current} : sgis[v] # {}
     THEN Exit /\ yield_current /\ UNCHANGED cpu_on
     ELSE Resume
  /\ UNCHANGED <<sgis, spis>>

\* An MMIO access, in which devices may raise SPIs, then flush_pending_spis_to_hardware
\* for the current vCPU.
mmio(raised) ==
  LET queued == WithSpis(raised) IN
  /\ Trap /\ Resume
  /\ lr' = [lr EXCEPT ![current] = Filled(@, queued[current])]
  /\ spis' = [queued EXCEPT ![current] = Requeued(lr[current], @)]
  /\ UNCHANGED sgis

\* The virtual CPU interface: the guest acknowledges an interrupt, and ends it.  All have
\* one priority, so that none is acknowledged while another is in service.
acknowledge(i) ==
  /\ Trap /\ Resume
  /\ lr[current][i].state = "Pending"
  /\ \A j \in Lrs : lr[current][j].state # "Active"
  /\ lr' = [lr EXCEPT ![current][i].state = "Active"]
  /\ UNCHANGED <<sgis, spis>>

end_of_interrupt(i) ==
  /\ Trap /\ Resume
  /\ lr[current][i].state = "Active"
  /\ lr' = [lr EXCEPT ![current][i] = Free]
  /\ UNCHANGED <<sgis, spis>>

-----------------------------------------------------------------------------

\* run_smp: vCPU 0 was created, added to the scheduler and is marked online.
Init ==
  /\ at = "host"
  /\ states = [v \in Vcpus |-> IF v = 0 THEN "Ready" ELSE "None"]
  /\ current = None /\ next_idx = 0
  /\ exists = {0} /\ online = {0}
  /\ cpu_on = None
  /\ sgis = [v \in Vcpus |-> {}] /\ spis = [v \in Vcpus |-> {}]
  /\ lr = [v \in Vcpus |-> [i \in Lrs |-> Free]]

Next ==
  \/ iteration
  \/ guest_exit
  \/ preemption_timer
  \/ \E target \in Vcpus \cup {MaxVcpus} : psci_cpu_on(target)
  \/ psci_terminal
  \/ \E tick \in BOOLEAN : wfi(tick)
  \/ \E irm \in BOOLEAN, list \in SUBSET Vcpus, intid \in SGIs : handle_sgi_trap(irm, list, intid)
  \/ \E intid \in SGIs : physical_sgi(intid)
  \/ virtual_timer
  \/ \E raised \in Raised : mmio(raised)
  \/ \E i \in Lrs : acknowledge(i) \/ end_of_interrupt(i)

Spec == Init /\ [][Next]_vars

\* The run loop runs, and the armed watchdog fires if nothing else ends the entry.
FairSpec == Spec /\ WF_vars(iteration) /\ WF_vars(preemption_timer)

-----------------------------------------------------------------------------
(* Properties.                                                             *)

\* The types of the state.
SchedTypes ==
  /\ at \in {"host", "guest", "done"}
  /\ states \in [Vcpus -> RunState]
  /\ current \in Vcpus \cup {None}
  /\ exists \subseteq Vcpus /\ online \subseteq Vcpus

\* While a guest runs exactly one vCPU, the current one, is Running, and none is while
\* the host decides what to run: whichever way the guest is left, pick_next never
\* finds a current vCPU and returns it again before the others.
OneRunning ==
  /\ \A v \in Vcpus : states[v] = "Running" <=> v = current
  /\ at = "guest" <=> current # None

\* Only vCPUs that exist are scheduled, so the unwrap() of run_one_iteration never fails,
\* and they are in the online mask, so an SGI to all and the unblocking reach them.
ScheduledExist ==
  \A v \in Vcpus : states[v] # "None" => v \in exists /\ v \in online

\* A CPU_ON is not overwritten by the next: the one slot is empty while a guest runs.
CpuOnKept == at = "guest" => cpu_on = None

\* Scheduler, online mask, CPU_ON slot and run loop agree: the types of what the scheduler
\* and PSCI use, and the three properties above.  It is inductive.
SchedInv ==
  /\ SchedTypes
  /\ OneRunning
  /\ ScheduledExist
  /\ CpuOnKept

\* The types of what is queued and of the List Registers, and that a vCPU that was never
\* booted has nothing in its registers, so that booting it, which clears them, loses nothing.
LrInv ==
  /\ lr \in [Vcpus -> [Lrs -> LrEntries]]
  /\ sgis \in [Vcpus -> SUBSET SGIs] /\ spis \in [Vcpus -> SUBSET SPIs]
  /\ \A v \in Vcpus \ exists : \A i \in Lrs : lr[v][i] = Free

\* What the run loop relies on: the scheduler's view and the registers' agree with the vCPUs
\* that exist.  This is the inductive invariant of the proofs.
VmInv == SchedInv /\ LrInv

Waiting(v) == sgis[v] \cup spis[v] \cup {lr[v][i].intid : i \in {j \in Lrs : lr[v][j].state = "Pending"}}
InService(v) == {lr[v][i].intid : i \in {j \in Lrs : lr[v][j].state = "Active"}}

\* An interrupt that is queued or in a List Register stays there until the guest
\* acknowledges it: moving it between masks and registers loses none, also when
\* the registers are full, the vCPU is switched out, blocked or off, or another vCPU
\* asks to switch it on although it is on.
NoneLost ==
  [][\A v \in Vcpus : Waiting(v) \subseteq (Waiting(v) \cup InService(v))']_vars

\* Round robin: a vCPU that is ready runs.
NoStarvation == \A v \in Vcpus : states[v] = "Ready" ~> states[v] = "Running"

\* A vCPU for which an SGI or an SPI is queued runs, unless it is off: it is woken even if
\* the vCPUs that are not blocked never wait.
PendingWakes ==
  \A v \in Vcpus : sgis[v] \cup spis[v] # {} /\ states[v] # "None" ~> states[v] = "Running"

\* exception.rs 1179: "Exit to host so run_smp() can pick up the request and boot the vCPU".
CpuOnBoots == \A v \in Vcpus : cpu_on = v ~> states[v] # "None"
=============================================================================
