---------------------------- MODULE VmSmpProofs ----------------------------
(***************************************************************************)
(* The scheduler, the CPU_ON slot and the List Registers of VmSmp, for any *)
(* number of vCPUs, of registers and of interrupts.  What concerns the     *)
(* scheduler does not depend on where interrupts are and comes first.      *)
(***************************************************************************)
EXTENDS VmSmp, FiniteSetTheorems, TLAPS

\* None is no vCPU, so "there is a current one" and "the current one is v" exclude it.
LEMMA NoneIsNoVcpu == None \notin Vcpus
BY VmSmpAssumption DEF None, Vcpus

\* Unblocking makes Blocked vCPUs Ready and touches no other.
LEMMA UnblockedStates ==
  ASSUME NEW st \in [Vcpus -> RunState], NEW S
  PROVE  /\ Unblocked(st, S) \in [Vcpus -> RunState]
         /\ \A v \in Vcpus :
              /\ Unblocked(st, S)[v] = "Running" <=> st[v] = "Running"
              /\ Unblocked(st, S)[v] = "None" <=> st[v] = "None"
BY DEF Unblocked, RunState

\* run_smp starts with vCPU 0 ready, existing and online.
LEMMA InitSched == Init => SchedInv
<1> SUFFICES ASSUME Init PROVE SchedInv
  OBVIOUS
<1>1. 0 \in Vcpus
  BY VmSmpAssumption DEF Vcpus
<1> QED
  BY <1>1, NoneIsNoVcpu
  DEF Init, SchedInv, SchedTypes, OneRunning, ScheduledExist, CpuOnKept, RunState

\* The start of an iteration: the CPU_ON slot is emptied, a vCPU it names is created before
\* it is made Ready, and the vCPU that is picked is the only one Running.
LEMMA IterationStep ==
  ASSUME SchedInv, iteration
  PROVE  SchedInv'
<1> DEFINE there == exists \cup Booted
           booted == [v \in Vcpus |-> IF v \in Booted THEN "Ready" ELSE states[v]]
           st == Unblocked(booted, {v \in there : HasPending(v)})
<1>1. /\ at = "host" /\ current = None
      /\ exists' = there /\ online' = online \cup Booted /\ cpu_on' = None
      /\ Booted \subseteq Vcpus
  BY DEF SchedInv, OneRunning, iteration, SetOnline, Booted
<1>2. /\ booted \in [Vcpus -> RunState]
      /\ \A v \in Vcpus : booted[v] # "Running"
      /\ \A v \in Vcpus : booted[v] # "None" => v \in exists' /\ v \in online'
  BY <1>1, NoneIsNoVcpu DEF SchedInv, SchedTypes, OneRunning, ScheduledExist, RunState
<1>3. /\ st \in [Vcpus -> RunState]
      /\ \A v \in Vcpus : st[v] # "Running"
      /\ \A v \in Vcpus : st[v] # "None" => v \in exists' /\ v \in online'
  <2> HIDE DEF booted
  <2> QED
    BY <1>2, UnblockedStates
<1>4. exists' \subseteq Vcpus /\ online' \subseteq Vcpus
  BY <1>1 DEF SchedInv, SchedTypes
<1>5. ASSUME NEW v \in Vcpus, pick_next(st, v), states' = [st EXCEPT ![v] = "Running"],
             current' = v, at' = "guest"
      PROVE  SchedInv'
  <2>1. st[v] = "Ready"
    BY <1>1, <1>5 DEF pick_next, FirstReady
  <2> HIDE DEF st
  <2> QED
    BY <1>1, <1>3, <1>4, <1>5, <2>1, NoneIsNoVcpu
    DEF SchedInv, SchedTypes, OneRunning, ScheduledExist, CpuOnKept, RunState
<1>6. ASSUME states' = Unblocked(st, online' \cap there), at' \in {"host", "done"},
             current' = current
      PROVE  SchedInv'
  <2> HIDE DEF st, there
  <2>1. /\ states' \in [Vcpus -> RunState]
        /\ \A v \in Vcpus : states'[v] # "Running"
        /\ \A v \in Vcpus : states'[v] # "None" => v \in exists' /\ v \in online'
    BY <1>3, <1>6, UnblockedStates
  <2> QED
    BY <1>1, <1>4, <1>6, <2>1, NoneIsNoVcpu
    DEF SchedInv, SchedTypes, OneRunning, ScheduledExist, CpuOnKept
<1> QED
  BY <1>5, <1>6, Zenon DEF iteration

\* A trap after which the guest goes on changes nothing the scheduler knows.
LEMMA ResumeStep ==
  ASSUME SchedInv, Trap, Resume
  PROVE  SchedInv'
BY DEF SchedInv, SchedTypes, OneRunning, ScheduledExist, CpuOnKept, Trap, Resume

\* A trap that leaves the guest: whether the vCPU yields, blocks or is removed, nobody is
\* Running afterwards and there is no current vCPU.
LEMMA ExitStep ==
  ASSUME SchedInv, Trap, Exit, yield_current \/ block_current \/ remove_current
  PROVE  SchedInv'
<1>1. current \in Vcpus /\ states[current] = "Running"
  BY DEF SchedInv, SchedTypes, OneRunning, Trap
<1>2. PICK s \in {"Ready", "Blocked", "None"} :
        states' = [states EXCEPT ![current] = s] /\ current' = None
  BY DEF yield_current, block_current, remove_current
<1>3. /\ states' \in [Vcpus -> RunState]
      /\ \A v \in Vcpus : states'[v] # "Running"
      /\ \A v \in Vcpus : states'[v] # "None" => states[v] # "None"
  BY <1>1, <1>2 DEF SchedInv, SchedTypes, OneRunning, RunState
<1> QED
  BY <1>2, <1>3, NoneIsNoVcpu
  DEF SchedInv, SchedTypes, OneRunning, ScheduledExist, CpuOnKept, Trap, Exit

\* Every action is an iteration, a trap that resumes or a trap that leaves the guest.
LEMMA NextSched == SchedInv /\ [Next]_vars => SchedInv'
<1> SUFFICES ASSUME SchedInv, [Next]_vars PROVE SchedInv'
  OBVIOUS
<1>1. CASE iteration
  BY <1>1, IterationStep
<1>2. CASE guest_exit
  BY <1>2, ExitStep DEF guest_exit
<1>3. CASE preemption_timer
  BY <1>3, ExitStep DEF preemption_timer, guest_exit
<1>4. ASSUME NEW target \in Vcpus \cup {MaxVcpus}, psci_cpu_on(target)
      PROVE  SchedInv'
  BY <1>4, ExitStep DEF psci_cpu_on, CpuOn
<1>5. CASE psci_terminal
  BY <1>5, ExitStep DEF psci_terminal
<1>6. ASSUME NEW tick \in BOOLEAN, wfi(tick)
      PROVE  SchedInv'
  BY <1>6, ExitStep, ResumeStep DEF wfi
<1>7. ASSUME NEW irm \in BOOLEAN, NEW list \in SUBSET Vcpus, NEW intid \in SGIs,
             handle_sgi_trap(irm, list, intid)
      PROVE  SchedInv'
  BY <1>7, ResumeStep DEF handle_sgi_trap
<1>8. ASSUME NEW intid \in SGIs, physical_sgi(intid)
      PROVE  SchedInv'
  BY <1>8, ResumeStep DEF physical_sgi
<1>9. CASE virtual_timer
  BY <1>9, ExitStep, ResumeStep DEF virtual_timer
<1>10. ASSUME NEW raised \in Raised, mmio(raised)
       PROVE  SchedInv'
  BY <1>10, ResumeStep DEF mmio
<1>11. ASSUME NEW i \in Lrs, acknowledge(i) \/ end_of_interrupt(i)
       PROVE  SchedInv'
  BY <1>11, ResumeStep DEF acknowledge, end_of_interrupt
<1>12. CASE UNCHANGED vars
  BY <1>12 DEF vars, SchedInv, SchedTypes, OneRunning, ScheduledExist, CpuOnKept
<1> QED
  BY <1>1, <1>2, <1>3, <1>4, <1>5, <1>6, <1>7, <1>8, <1>9, <1>10, <1>11, <1>12 DEF Next

\* SchedInv is an invariant of the run loop and the traps.
THEOREM SchedInvariance == Spec => []SchedInv
BY InitSched, NextSched, PTL DEF Spec

\* While a guest runs exactly its vCPU is Running, and none otherwise.
THEOREM OneRunningTheorem == Spec => []OneRunning
BY SchedInvariance, PTL DEF SchedInv

\* The scheduler holds only vCPUs that exist and are in the online mask, so the unwrap() of
\* run_one_iteration does not fail.
THEOREM ScheduledExistTheorem == Spec => []ScheduledExist
BY SchedInvariance, PTL DEF SchedInv

\* A CPU_ON request is taken out of its slot before any vCPU can make another.
THEOREM CpuOnKeptTheorem == Spec => []CpuOnKept
BY SchedInvariance, PTL DEF SchedInv

-----------------------------------------------------------------------------
(* Interrupts: nothing that waits is lost.                                 *)

\* Members of a finite set of integers have the ranks from 1 to its size, one each: ranks
\* differ, so numbering is an injection into a set of the same size, hence onto it.
LEMMA Ranks ==
  ASSUME NEW S \in SUBSET Int, IsFiniteSet(S)
  PROVE  /\ Cardinality(S) \in Nat
         /\ \A n \in S : Rank(n, S) \in 1 .. Cardinality(S)
         /\ \A m, n \in S : Rank(m, S) = Rank(n, S) => m = n
         /\ \A k \in 1 .. Cardinality(S) : \E n \in S : Rank(n, S) = k
<1> DEFINE Below(n) == {m \in S : m <= n}
           num == [n \in S |-> Rank(n, S)]
<1>1. Cardinality(S) \in Nat
  BY FS_CardinalityType
<1>2. \A n \in S : /\ IsFiniteSet(Below(n)) /\ Cardinality(Below(n)) \in Nat
                   /\ Cardinality(Below(n)) <= Cardinality(S)
  BY FS_Subset, FS_CardinalityType
<1>3. \A n \in S : Rank(n, S) \in 1 .. Cardinality(S)
  <2> SUFFICES ASSUME NEW n \in S PROVE Cardinality(Below(n)) # 0
    BY <1>1, <1>2 DEF Rank
  <2>1. n \in Below(n)
    OBVIOUS
  <2> HIDE DEF Below
  <2>2. QED
    BY <1>2, <2>1, FS_EmptySet
<1>4. ASSUME NEW m \in S, NEW n \in S, m < n
      PROVE  Rank(m, S) # Rank(n, S)
  <2>1. Below(m) \in SUBSET Below(n) /\ n \in Below(n) /\ n \notin Below(m)
    <3>1. n <= n /\ ~(n <= m) /\ \A k \in S : k <= m => k <= n
      BY <1>4
    <3>2. QED
      BY <3>1, Zenon
  <2> HIDE DEF Below
  <2>2. Cardinality(Below(n)) # Cardinality(Below(m))
    BY <1>2, <2>1, FS_Subset
  <2>3. QED
    BY <2>2 DEF Rank, Below
<1>5. \A m, n \in S : Rank(m, S) = Rank(n, S) => m = n
  BY <1>4
<1>6. \A k \in 1 .. Cardinality(S) : \E n \in S : Rank(n, S) = k
  <2>1. num \in Injection(S, 1 .. Cardinality(S))
    BY <1>3, <1>5 DEF Injection, IsInjective
  <2>2. /\ IsFiniteSet(1 .. Cardinality(S))
        /\ Cardinality(1 .. Cardinality(S)) = Cardinality(S)
    BY <1>1, FS_Interval
  <2> HIDE DEF num
  <2>3. num \in Surjection(S, 1 .. Cardinality(S))
    BY <2>1, <2>2, FS_Injection
  <2>4. QED
    BY <2>3, Zenon DEF Surjection, num
<1> QED
  BY <1>1, <1>3, <1>5, <1>6

\* Placing: registers in use are left alone, and what is not left over is Pending in one.
LEMMA Placing ==
  ASSUME NEW regs \in [Lrs -> LrEntries], NEW S \in SUBSET INTIDs
  PROVE  /\ Filled(regs, S) \in [Lrs -> LrEntries]
         /\ \A i \in Lrs : regs[i] # Free => Filled(regs, S)[i] = regs[i]
         /\ \A n \in S \ Requeued(regs, S) :
              \E i \in Lrs : Filled(regs, S)[i] = [state |-> "Pending", intid |-> n]
<1> DEFINE F == FreeLrs(regs)
<1>1. S \in SUBSET Int /\ IsFiniteSet(S)
  <2>1. S \in SUBSET Nat /\ \A n \in S : n <= 63
    BY VmSmpAssumption DEF INTIDs, VTIMER
  <2>2. QED
    BY <2>1, FS_BoundedSetOfNaturals
<1>2. F \in SUBSET Lrs /\ F \in SUBSET Int /\ IsFiniteSet(F)
  <2>1. F \in SUBSET Lrs /\ Lrs \subseteq Int /\ IsFiniteSet(Lrs)
    BY VmSmpAssumption, FS_Interval DEF FreeLrs, Lrs
  <2>2. QED
    BY <2>1, FS_Subset, Zenon
<1> HIDE DEF F
<1>3. \A i \in F : Rank(i, F) <= Cardinality(S) =>
        LET n == CHOOSE m \in S : Rank(m, S) = Rank(i, F) IN n \in S /\ Rank(n, S) = Rank(i, F)
  BY <1>1, <1>2, Ranks
<1>4. Filled(regs, S) \in [Lrs -> LrEntries]
  BY <1>2, <1>3 DEF Filled, LrEntries, F
<1>5. \A i \in Lrs : regs[i] # Free => Filled(regs, S)[i] = regs[i]
  BY DEF Filled, FreeLrs
<1>6. ASSUME NEW n \in S \ Requeued(regs, S)
      PROVE  \E i \in Lrs : Filled(regs, S)[i] = [state |-> "Pending", intid |-> n]
  <2>1. Rank(n, S) \in 1 .. Cardinality(F) /\ Rank(n, S) <= Cardinality(S)
    BY <1>1, <1>2, <1>6, Ranks DEF Requeued, F
  <2>2. PICK i \in F : Rank(i, F) = Rank(n, S)
    BY <1>2, <2>1, Ranks
  <2>3. (CHOOSE m \in S : Rank(m, S) = Rank(i, F)) = n
    BY <1>1, <1>3, <2>1, <2>2, Ranks
  <2>4. QED
    BY <1>2, <2>1, <2>2, <2>3, Zenon DEF Filled, F
<1> QED
  BY <1>4, <1>5, <1>6

\* A vCPU loses nothing if what was queued for it waits or is in service afterwards, and
\* so does what was Pending in its registers.
LEMMA Keeps ==
  ASSUME NEW v,
         sgis[v] \cup spis[v] \subseteq Waiting(v)',
         \A i \in Lrs : lr[v][i].state = "Pending" =>
           \E j \in Lrs : /\ lr'[v][j].state \in {"Pending", "Active"}
                          /\ lr'[v][j].intid = lr[v][i].intid
  PROVE  Waiting(v) \subseteq (Waiting(v) \cup InService(v))'
<1>1. \A i \in Lrs : lr[v][i].state = "Pending" =>
        lr[v][i].intid \in (Waiting(v) \cup InService(v))'
  BY DEF Waiting, InService
<1>2. QED
  BY <1>1 DEF Waiting

\* What a step has to do with the interrupts of the vCPUs: it keeps LrInv and loses nothing.
Safe == LrInv' /\ \A v \in Vcpus : Waiting(v) \subseteq (Waiting(v) \cup InService(v))'

\* No interrupt moves.
LEMMA QuietStep ==
  ASSUME VmInv, UNCHANGED <<sgis, spis, lr>>, exists \subseteq exists'
  PROVE  Safe
<1>1. \A v \in Vcpus : Waiting(v) \subseteq Waiting(v)'
  BY DEF Waiting
<1>2. LrInv'
  BY DEF VmInv, LrInv
<1>3. QED
  BY <1>1, <1>2 DEF Safe

\* Interrupts are queued, and the registers of the current vCPU change so that a Pending
\* one stays in a register, Pending or Active.
LEMMA CurrentStep ==
  ASSUME VmInv, Trap,
         NEW regs \in [Lrs -> LrEntries], lr' = [lr EXCEPT ![current] = regs],
         sgis' \in [Vcpus -> SUBSET SGIs], spis' \in [Vcpus -> SUBSET SPIs],
         \A v \in Vcpus : sgis[v] \subseteq sgis'[v] /\ spis[v] \subseteq spis'[v],
         \A i \in Lrs : lr[current][i].state = "Pending" =>
           \E j \in Lrs : regs[j].state \in {"Pending", "Active"} /\ regs[j].intid = lr[current][i].intid
  PROVE  Safe
<1>1. current \in Vcpus /\ current \in exists /\ exists' = exists
  BY DEF VmInv, SchedInv, SchedTypes, OneRunning, ScheduledExist, Trap
<1>2. /\ lr' \in [Vcpus -> [Lrs -> LrEntries]]
      /\ lr'[current] = regs
      /\ \A v \in Vcpus \ {current} : lr'[v] = lr[v]
  BY <1>1 DEF VmInv, LrInv
<1>3. LrInv'
  BY <1>1, <1>2 DEF VmInv, LrInv
<1>4. ASSUME NEW v \in Vcpus
      PROVE  Waiting(v) \subseteq (Waiting(v) \cup InService(v))'
  <2>1. sgis[v] \cup spis[v] \subseteq Waiting(v)'
    BY <1>4 DEF Waiting
  <2>2. \A i \in Lrs : lr[v][i].state = "Pending" =>
          \E j \in Lrs : /\ lr'[v][j].state \in {"Pending", "Active"}
                         /\ lr'[v][j].intid = lr[v][i].intid
    BY <1>2
  <2>3. QED
    BY <2>1, <2>2, Keeps
<1>5. QED
  BY <1>3, <1>4 DEF Safe

\* Pending interrupts of v are placed into its registers and the rest is queued again.
LEMMA PlacingStep ==
  ASSUME VmInv, NEW v \in Vcpus, v \in exists',
         NEW regs \in [Vcpus -> [Lrs -> LrEntries]],
         \A w \in Vcpus : regs[w] = lr[w],
         NEW all \in SUBSET (SGIs \cup SPIs),
         lr' = [regs EXCEPT ![v] = Filled(@, all)],
         sgis' \in [Vcpus -> SUBSET SGIs], spis' \in [Vcpus -> SUBSET SPIs],
         exists \subseteq exists',
         \A w \in Vcpus \ {v} : sgis[w] \subseteq sgis'[w] /\ spis[w] \subseteq spis'[w],
         sgis[v] \cup spis[v] \subseteq all \cup sgis'[v] \cup spis'[v],
         Requeued(regs[v], all) \subseteq sgis'[v] \cup spis'[v]
  PROVE  Safe
<1> DEFINE filled == Filled(lr[v], all)
<1>1. /\ filled \in [Lrs -> LrEntries]
      /\ \A i \in Lrs : lr[v][i] # Free => filled[i] = lr[v][i]
      /\ \A n \in all \ Requeued(lr[v], all) :
           \E i \in Lrs : filled[i] = [state |-> "Pending", intid |-> n]
  <2>1. lr[v] \in [Lrs -> LrEntries] /\ all \in SUBSET INTIDs
    BY DEF VmInv, LrInv, INTIDs
  <2>2. QED
    BY <2>1, Placing
<1> HIDE DEF filled
<1>2. /\ lr' \in [Vcpus -> [Lrs -> LrEntries]]
      /\ lr'[v] = filled
      /\ \A w \in Vcpus \ {v} : lr'[w] = lr[w]
  BY <1>1 DEF filled
<1>3. LrInv'
  BY <1>1, <1>2 DEF VmInv, LrInv
<1>4. ASSUME NEW w \in Vcpus \ {v}
      PROVE  Waiting(w) \subseteq Waiting(w)'
  BY <1>2, <1>4 DEF Waiting
<1>5. Waiting(v) \subseteq (Waiting(v) \cup InService(v))'
  <2>1. \A i \in Lrs : lr[v][i].state = "Pending" => filled[i] = lr[v][i]
    <3>1. Free.state # "Pending"
      BY DEF Free
    <3>2. QED
      BY <1>1, <3>1
  <2>2. ASSUME NEW n \in all \ Requeued(lr[v], all)
        PROVE  \E i \in Lrs : filled[i].state = "Pending" /\ filled[i].intid = n
    <3>1. PICK i \in Lrs : filled[i] = [state |-> "Pending", intid |-> n]
      BY <1>1
    <3>2. QED
      BY <3>1
  <2>3. all \ Requeued(lr[v], all) \subseteq Waiting(v)'
    BY <1>2, <2>2 DEF Waiting
  <2>4. sgis[v] \cup spis[v] \subseteq Waiting(v)'
    BY <2>3 DEF Waiting
  <2>5. QED
    BY <1>2, <2>1, <2>4, Keeps, Zenon
<1>6. QED
  BY <1>3, <1>4, <1>5 DEF Safe

\* inject_interrupt for the current vCPU: if no register is free the new interrupt is
\* dropped, but none that waits.
LEMMA InjectStep ==
  ASSUME VmInv, Trap, NEW intid \in INTIDs, inject_interrupt(current, intid),
         sgis' \in [Vcpus -> SUBSET SGIs], spis' \in [Vcpus -> SUBSET SPIs],
         \A v \in Vcpus : sgis[v] \subseteq sgis'[v] /\ spis[v] \subseteq spis'[v]
  PROVE  Safe
<1> DEFINE regs == Filled(lr[current], {intid})
<1>1. current \in Vcpus
  BY DEF VmInv, SchedInv, SchedTypes, OneRunning, Trap
<1>2. /\ regs \in [Lrs -> LrEntries]
      /\ \A i \in Lrs : lr[current][i] # Free => regs[i] = lr[current][i]
  <2>1. lr[current] \in [Lrs -> LrEntries] /\ {intid} \in SUBSET INTIDs
    BY <1>1 DEF VmInv, LrInv
  <2>2. QED
    BY <2>1, Placing
<1>3. lr' = [lr EXCEPT ![current] = regs]
  BY <1>1 DEF inject_interrupt, VmInv, LrInv
<1> HIDE DEF regs
<1>4. Free.state # "Pending"
  BY DEF Free
<1>5. QED
  BY <1>2, <1>3, <1>4, CurrentStep, Zenon

\* inject_hw_interrupt clears only registers that are Active.
LEMMA InjectHwStep ==
  ASSUME VmInv, Trap, NEW intid \in INTIDs, inject_hw_interrupt(current, intid),
         UNCHANGED <<sgis, spis>>
  PROVE  Safe
<1> DEFINE stale == {i \in Lrs : lr[current][i] = [state |-> "Active", intid |-> intid]}
           usable == FreeLrs(lr[current]) \cup stale
           regs == [i \in Lrs |-> IF i \in usable /\ \A j \in usable : i <= j
                                  THEN [state |-> "Pending", intid |-> intid]
                                  ELSE IF i \in stale THEN Free ELSE lr[current][i]]
<1>1. current \in Vcpus
  BY DEF VmInv, SchedInv, SchedTypes, OneRunning, Trap
<1>2. regs \in [Lrs -> LrEntries]
  BY <1>1 DEF VmInv, LrInv, LrEntries
<1>3. \A i \in Lrs : lr[current][i].state = "Pending" => i \notin usable
  BY DEF FreeLrs, Free
<1>4. \A i \in Lrs : lr[current][i].state = "Pending" => regs[i] = lr[current][i]
  BY <1>3
<1>5. lr' = [lr EXCEPT ![current] = regs]
  BY <1>1 DEF inject_hw_interrupt, VmInv, LrInv
<1> HIDE DEF regs
<1>6. /\ sgis' \in [Vcpus -> SUBSET SGIs] /\ spis' \in [Vcpus -> SUBSET SPIs]
      /\ \A v \in Vcpus : sgis[v] \subseteq sgis'[v] /\ spis[v] \subseteq spis'[v]
  BY DEF VmInv, LrInv
<1>7. QED
  BY <1>2, <1>4, <1>5, <1>6, CurrentStep, Zenon

\* Devices only add SPIs to the queues.
LEMMA DevicesAdd ==
  ASSUME LrInv, NEW raised
  PROVE  /\ WithSpis(raised) \in [Vcpus -> SUBSET SPIs]
         /\ \A v \in Vcpus : spis[v] \subseteq WithSpis(raised)[v]
BY DEF WithSpis, LrInv

\* The start of an iteration: booting clears registers that are free anyway, and the
\* queues of the vCPU that is entered go into its registers.
LEMMA IterationSafe ==
  ASSUME VmInv, iteration
  PROVE  Safe
<1> DEFINE regs == [v \in Vcpus |-> IF v \in Booted THEN [i \in Lrs |-> Free] ELSE lr[v]]
<1>1. /\ regs \in [Vcpus -> [Lrs -> LrEntries]]
      /\ \A v \in Vcpus : regs[v] = lr[v]
      /\ regs = lr
  <2>1. \A v \in Vcpus : v \in Booted => lr[v] = [i \in Lrs |-> Free]
    BY DEF VmInv, LrInv, Booted
  <2>2. \A v \in Vcpus : regs[v] = lr[v]
    BY <2>1
  <2>3. lr \in [Vcpus -> [Lrs -> LrEntries]]
    BY DEF VmInv, LrInv
  <2>4. QED
    BY <2>2, <2>3
<1>2. exists \subseteq exists' /\ SchedInv'
  BY IterationStep, Zenon DEF VmInv, iteration
<1>3. ASSUME NEW v \in Vcpus, NEW raised \in Raised, states'[v] = "Running",
             InjectPending(v, regs, WithSpis(raised))
      PROVE  Safe
  <2> DEFINE queued == WithSpis(raised)
             all == sgis[v] \cup queued[v]
             left == Requeued(regs[v], all)
  <2>1. /\ sgis \in [Vcpus -> SUBSET SGIs] /\ queued \in [Vcpus -> SUBSET SPIs]
        /\ \A w \in Vcpus : spis[w] \subseteq queued[w]
    BY DevicesAdd DEF VmInv, LrInv
  <2>2. v \in exists'
    BY <1>2, <1>3 DEF SchedInv, ScheduledExist
  <2>3. /\ lr' = [regs EXCEPT ![v] = Filled(@, all)]
        /\ sgis' = [sgis EXCEPT ![v] = left \cap SGIs]
        /\ spis' = [queued EXCEPT ![v] = left \cap SPIs]
    BY <1>3 DEF InjectPending
  <2>4. left \subseteq all
    BY DEF Requeued
  <2> HIDE DEF regs, queued
  <2>5. all \in SUBSET (SGIs \cup SPIs) /\ sgis[v] \cup spis[v] \subseteq all
    BY <2>1
  <2> HIDE DEF all, left
  <2>6. /\ sgis' \in [Vcpus -> SUBSET SGIs] /\ spis' \in [Vcpus -> SUBSET SPIs]
        /\ \A w \in Vcpus \ {v} : sgis[w] \subseteq sgis'[w] /\ spis[w] \subseteq spis'[w]
        /\ left \subseteq sgis'[v] \cup spis'[v]
    BY <2>1, <2>3, <2>4, <2>5
  <2>7. QED
    BY <1>1, <1>2, <2>2, <2>3, <2>5, <2>6, PlacingStep, Zenon DEF left
<1>4. CASE lr' = regs /\ UNCHANGED <<sgis, spis>>
  BY <1>1, <1>2, <1>4, QuietStep
<1>5. QED
  <2>1. \A st, v : v \in Vcpus /\ states' = [st EXCEPT ![v] = "Running"] /\ current' = v
          => states'[v] = "Running"
    BY <1>2 DEF SchedInv, OneRunning
  <2> HIDE DEF regs
  <2>2. QED
    BY <1>3, <1>4, <2>1, Zenon DEF iteration, regs

\* An MMIO access: what the devices raise for the current vCPU, and what was queued for it,
\* goes into its registers.
LEMMA MmioSafe ==
  ASSUME VmInv, NEW raised \in Raised, mmio(raised)
  PROVE  Safe
<1> DEFINE queued == WithSpis(raised)
           left == Requeued(lr[current], queued[current])
<1>1. current \in Vcpus /\ current \in exists' /\ exists' = exists
  BY DEF VmInv, SchedInv, SchedTypes, OneRunning, ScheduledExist, mmio, Trap
<1>2. /\ queued \in [Vcpus -> SUBSET SPIs]
      /\ \A w \in Vcpus : spis[w] \subseteq queued[w]
      /\ sgis \in [Vcpus -> SUBSET SGIs] /\ lr \in [Vcpus -> [Lrs -> LrEntries]]
  BY DevicesAdd DEF VmInv, LrInv
<1>3. /\ lr' = [lr EXCEPT ![current] = Filled(@, queued[current])]
      /\ spis' = [queued EXCEPT ![current] = Requeued(lr[current], @)]
      /\ sgis' = sgis
  BY DEF mmio
<1>4. left \subseteq queued[current]
  BY DEF Requeued
<1> HIDE DEF queued
<1>5. spis' = [queued EXCEPT ![current] = left]
  BY <1>1, <1>2, <1>3
<1> HIDE DEF left
<1>6. /\ spis' \in [Vcpus -> SUBSET SPIs]
      /\ \A w \in Vcpus \ {current} : spis[w] \subseteq spis'[w]
      /\ left = spis'[current]
  BY <1>1, <1>2, <1>4, <1>5
<1>7. queued[current] \in SUBSET (SGIs \cup SPIs)
  BY <1>1, <1>2
<1>8. QED
  BY <1>1, <1>2, <1>3, <1>6, <1>7, PlacingStep, Zenon DEF left

\* The guest acknowledges an interrupt, which is then in service, or ends one that is.
LEMMA GuestSafe ==
  ASSUME VmInv, NEW i \in Lrs, acknowledge(i) \/ end_of_interrupt(i)
  PROVE  Safe
<1>1. current \in Vcpus /\ Trap /\ lr \in [Vcpus -> [Lrs -> LrEntries]]
  BY DEF VmInv, LrInv, SchedInv, SchedTypes, OneRunning, Trap, acknowledge, end_of_interrupt
<1>2. /\ sgis' \in [Vcpus -> SUBSET SGIs] /\ spis' \in [Vcpus -> SUBSET SPIs]
      /\ \A v \in Vcpus : sgis[v] \subseteq sgis'[v] /\ spis[v] \subseteq spis'[v]
  BY DEF VmInv, LrInv, acknowledge, end_of_interrupt
<1>3. CASE acknowledge(i)
  <2> DEFINE regs == [lr[current] EXCEPT ![i].state = "Active"]
  <2>1. lr' = [lr EXCEPT ![current] = regs]
    BY <1>1, <1>3 DEF acknowledge
  <2>2. lr[current][i] \in [state : {"Pending", "Active"}, intid : INTIDs]
    <3>1. lr[current][i] # Free
      BY <1>3 DEF acknowledge, Free
    <3>2. QED
      BY <1>1, <3>1 DEF LrEntries
  <2>3. /\ regs \in [Lrs -> LrEntries]
        /\ regs[i].state = "Active" /\ regs[i].intid = lr[current][i].intid
        /\ \A j \in Lrs \ {i} : regs[j] = lr[current][j]
    BY <1>1, <2>2 DEF LrEntries
  <2> HIDE DEF regs
  <2>4. \A k \in Lrs : lr[current][k].state = "Pending" =>
          \E j \in Lrs : regs[j].state \in {"Pending", "Active"} /\ regs[j].intid = lr[current][k].intid
    BY <2>3
  <2>5. QED
    BY <1>1, <1>2, <2>1, <2>3, <2>4, CurrentStep, Zenon
<1>4. CASE end_of_interrupt(i)
  <2> DEFINE regs == [lr[current] EXCEPT ![i] = Free]
  <2>1. lr' = [lr EXCEPT ![current] = regs] /\ lr[current][i].state = "Active"
    BY <1>1, <1>4 DEF end_of_interrupt
  <2>2. regs \in [Lrs -> LrEntries] /\ \A j \in Lrs \ {i} : regs[j] = lr[current][j]
    BY <1>1 DEF LrEntries
  <2> HIDE DEF regs
  <2>3. QED
    BY <1>1, <1>2, <2>1, <2>2, CurrentStep, Zenon
<1>5. QED
  BY <1>3, <1>4

\* An SGI is queued for other vCPUs; the current one has it injected.
LEMMA SgiSafe ==
  ASSUME VmInv, NEW intid \in SGIs,
         \/ physical_sgi(intid)
         \/ \E irm \in BOOLEAN, list \in SUBSET Vcpus : handle_sgi_trap(irm, list, intid)
  PROVE  Safe
<1>1. Trap /\ spis' = spis /\ intid \in INTIDs /\ 0 \in Vcpus
  BY VmSmpAssumption DEF physical_sgi, handle_sgi_trap, INTIDs, Vcpus
<1>2. sgis \in [Vcpus -> SUBSET SGIs] /\ spis \in [Vcpus -> SUBSET SPIs]
  BY DEF VmInv, LrInv
<1>3. /\ sgis' \in [Vcpus -> SUBSET SGIs]
      /\ \A v \in Vcpus : sgis[v] \subseteq sgis'[v]
  <2>1. CASE physical_sgi(intid)
    BY <1>1, <1>2, <2>1 DEF physical_sgi
  <2>2. ASSUME NEW irm \in BOOLEAN, NEW list \in SUBSET Vcpus, handle_sgi_trap(irm, list, intid)
        PROVE  /\ sgis' \in [Vcpus -> SUBSET SGIs]
               /\ \A v \in Vcpus : sgis[v] \subseteq sgis'[v]
    <3> DEFINE targets == IF irm THEN online \ {current} ELSE list
    <3>1. sgis' = [v \in Vcpus |->
                     IF v \in targets \ {current} THEN sgis[v] \cup {intid} ELSE sgis[v]]
      BY <2>2 DEF handle_sgi_trap
    <3> HIDE DEF targets
    <3>2. QED
      BY <1>2, <3>1
  <2>3. QED
    BY <2>1, <2>2
<1>4. inject_interrupt(current, intid) \/ UNCHANGED lr
  BY DEF physical_sgi, handle_sgi_trap
<1>5. CASE inject_interrupt(current, intid)
  BY <1>1, <1>2, <1>3, <1>5, InjectStep
<1>6. CASE UNCHANGED lr
  <2>1. lr' = [lr EXCEPT ![current] = lr[current]] /\ lr[current] \in [Lrs -> LrEntries]
    BY <1>1, <1>6 DEF VmInv, LrInv, SchedInv, SchedTypes, OneRunning, Trap
  <2>2. QED
    BY <1>1, <1>2, <1>3, <2>1, CurrentStep, Zenon
<1>7. QED
  BY <1>4, <1>5, <1>6

\* No action loses an interrupt.
LEMMA NextSafe == VmInv /\ [Next]_vars => Safe
<1> SUFFICES ASSUME VmInv, [Next]_vars PROVE Safe
  OBVIOUS
<1>1. CASE iteration
  BY <1>1, IterationSafe
<1>2. CASE guest_exit \/ preemption_timer \/ psci_terminal
  BY <1>2, QuietStep DEF guest_exit, preemption_timer, psci_terminal, Trap
<1>3. ASSUME NEW target, psci_cpu_on(target) PROVE Safe
  BY <1>3, QuietStep DEF psci_cpu_on, Trap
<1>4. ASSUME NEW tick \in BOOLEAN, wfi(tick) PROVE Safe
  <2>1. /\ Trap /\ exists' = exists /\ UNCHANGED <<sgis, spis>> /\ VTIMER \in INTIDs
        /\ inject_interrupt(current, VTIMER) \/ UNCHANGED lr
    BY <1>4 DEF wfi, Trap, INTIDs
  <2>2. sgis \in [Vcpus -> SUBSET SGIs] /\ spis \in [Vcpus -> SUBSET SPIs]
    BY DEF VmInv, LrInv
  <2>3. QED
    BY <2>1, <2>2, QuietStep, InjectStep
<1>5. ASSUME NEW irm \in BOOLEAN, NEW list \in SUBSET Vcpus, NEW intid \in SGIs,
             handle_sgi_trap(irm, list, intid)
      PROVE  Safe
  BY <1>5, SgiSafe
<1>6. ASSUME NEW intid \in SGIs, physical_sgi(intid) PROVE Safe
  BY <1>6, SgiSafe
<1>7. CASE virtual_timer
  BY <1>7, InjectHwStep DEF virtual_timer, INTIDs
<1>8. ASSUME NEW raised \in Raised, mmio(raised) PROVE Safe
  BY <1>8, MmioSafe
<1>9. ASSUME NEW i \in Lrs, acknowledge(i) \/ end_of_interrupt(i) PROVE Safe
  BY <1>9, GuestSafe
<1>10. CASE UNCHANGED vars
  BY <1>10, QuietStep DEF vars
<1> QED
  BY <1>1, <1>2, <1>3, <1>4, <1>5, <1>6, <1>7, <1>8, <1>9, <1>10 DEF Next

\* The scheduler and the List Registers fit the vCPUs that exist, at every step of the run
\* loop and the traps.
THEOREM VmInvariance == Spec => []VmInv
<1>1. Init => LrInv
  BY DEF Init, LrInv, LrEntries
<1>2. Init => VmInv
  BY <1>1, InitSched DEF VmInv
<1>3. VmInv /\ [Next]_vars => VmInv'
  BY NextSched, NextSafe DEF VmInv, Safe
<1>4. QED
  BY <1>2, <1>3, PTL DEF Spec

\* No interrupt that is queued or Pending in a List Register is lost before the guest
\* acknowledges it, however many there are and however few the registers.
THEOREM NoneLostTheorem == Spec => NoneLost
<1>1. VmInv /\ [Next]_vars =>
        [\A v \in Vcpus : Waiting(v) \subseteq (Waiting(v) \cup InService(v))']_vars
  BY NextSafe DEF Safe
<1>2. QED
  BY <1>1, VmInvariance, PTL DEF Spec, NoneLost
=============================================================================
