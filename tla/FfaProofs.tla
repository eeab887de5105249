------------------------------ MODULE FfaProofs ------------------------------
(***************************************************************************)
(* The FF-A services other than memory sharing.                            *)
(*                                                                         *)
(* The mailboxes of any number of VMs and vCPUs, in the builds where one   *)
(* call runs at a time.                                                    *)
(*                                                                         *)
(* The notifications for any number of endpoints, senders, IDs, binding    *)
(* slots and places in the list of INFO_GET.                               *)
(*                                                                         *)
(* The SPMC for every set of SPs and clients, every amount of work and     *)
(* every placing of interrupts: what each state of an SP means for its     *)
(* program and registers, and with it the answers, the preemptions and the *)
(* requests that are refused.                                              *)
(***************************************************************************)
EXTENDS FfaMailbox, FfaNotifications, Spmc, FiniteSetTheorems, TLAPS

-----------------------------------------------------------------------------
(* The SPMC.                                                               *)

\* What the SPMC and the partitions send are messages.
LEMMA MessageTypes ==
  /\ \A r \in Requests : Req(r) \in Messages /\ Resp(r) \in Messages
  /\ \A k \in {"NONE", "MSG_WAIT", "INTERRUPT", "SUCCESS", "BUSY", "DENIED",
               "INVALID_PARAMETERS", "NOT_SUPPORTED"} : Plain(k) \in Messages
  /\ \A r \in Requests : Answer(r) \in Messages
BY DEF Messages, Answer

\* No partition has booted and nobody has called.
LEMMA InitSpmc == SpmcInit => SpmcInv
PROOF
<1> SUFFICES ASSUME SpmcInit PROVE SpmcInv
  OBVIOUS
<1>1. SpmcTypeOK
  <2>1. x \in [SPs -> Messages] /\ answer \in Messages
    BY MessageTypes DEF SpmcInit
  <2>2. state \in [SPs -> SpState]
    BY DEF SpmcInit, SpState
  <2>3. work \in [SPs -> 0 .. SpWork]
    BY SpmcAssumption DEF SpmcInit
  <2> QED
    BY <2>1, <2>2, <2>3, Zenon DEF SpmcInit, SpmcTypeOK
<1> QED
  BY <1>1, SpmcAssumption DEF SpmcInit, SpmcInv, OneRunning

\* A request that is answered without entering an SP.
LEMMA AnswerKeeps ==
  ASSUME SpmcInv, UNCHANGED spVars, answer' \in Messages, rxtx' \in BOOLEAN
  PROVE  SpmcInv'
PROOF
<1>1. SpmcTypeOK'
  BY DEF SpmcInv, SpmcTypeOK, spVars
<1> QED
  BY <1>1 DEF SpmcInv, OneRunning, InService, spVars

\* boot_sp, and the signal that ends boot.
LEMMA BootKeeps ==
  ASSUME SpmcInv, (\E s \in SPs : boot_sp(s)) \/ signal_spmc_ready
  PROVE  SpmcInv'
PROOF
<1>1. CASE \E s \in SPs : boot_sp(s)
  <2>1. SpmcTypeOK'
    BY <1>1 DEF SpmcInv, SpmcTypeOK, boot_sp
  <2> QED
    BY <1>1, <2>1, SpmcAssumption DEF SpmcInv, OneRunning, InService, boot_sp
<1>2. CASE signal_spmc_ready
  <2>1. SpmcTypeOK'
    BY <1>2, MessageTypes DEF SpmcInv, SpmcTypeOK, signal_spmc_ready
  <2> QED
    BY <1>2, <2>1, SpmcAssumption DEF SpmcInv, OneRunning, InService, signal_spmc_ready
<1> QED
  BY <1>1, <1>2

\* Entering an SP, whose registers hold its request or are the ones it was preempted with.
LEMMA EnterKeeps ==
  ASSUME SpmcInv, NEW s \in SPs, loop = "wait", enter_sp(s), UNCHANGED work,
         s \in store,
         state[s] \in {"Idle", "Preempted"},
         x' \in [SPs -> Messages], accepted' \in [SPs -> Requests],
         \A u \in SPs : u # s => x'[u] = x[u] /\ accepted'[u] = accepted[u],
         InService(s)'
  PROVE  SpmcInv'
PROOF
<1>1. state' = [state EXCEPT ![s] = "Running"]
  BY Zenon DEF enter_sp, transition_to, ValidTransition
<1>2. loop' = "sp" /\ cur' = s /\ ~preempted' /\ ~irq' /\ UNCHANGED <<store, pc, rxtx, answer>>
  BY DEF enter_sp
<1>3. SpmcTypeOK'
  BY <1>1, <1>2, Zenon DEF SpmcInv, SpmcTypeOK, SpState, enter_sp
<1>4. \A u \in SPs : u # s => state'[u] = state[u] /\ state[u] # "Running" /\ (InService(u)' <=> InService(u))
  BY <1>1, <1>2 DEF SpmcInv, SpmcTypeOK, OneRunning, InService
<1>5. state'[s] = "Running"
  BY <1>1 DEF SpmcInv, SpmcTypeOK
<1>6. OneRunning'
  BY <1>2, <1>4, <1>5 DEF OneRunning
<1> QED
  BY <1>2, <1>3, <1>4, <1>5, <1>6 DEF SpmcInv

\* A direct request, and the resumption of a preempted partition.
LEMMA RequestKeeps ==
  ASSUME SpmcInv,
         \/ \E r \in Requests, s \in SPs \cup OtherIds : direct_req(r, s)
         \/ \E s \in SPs \cup OtherIds : resume_preempted_sp(s)
  PROVE  SpmcInv'
PROOF
<1>1. ASSUME NEW r \in Requests, NEW s \in SPs \cup OtherIds, direct_req(r, s) PROVE SpmcInv'
  <2>1. CASE s \notin store
    BY <1>1, <2>1, MessageTypes, AnswerKeeps DEF direct_req, Respond, SpmcInv, SpmcTypeOK
  <2>2. CASE s \in store /\ ~AcceptsRequest(s)
    BY <1>1, <2>2, MessageTypes, AnswerKeeps DEF direct_req, dispatch_to_sp, Reply, Respond, SpmcInv, SpmcTypeOK
  <2>3. CASE s \in store /\ AcceptsRequest(s)
    <3>1. /\ s \in SPs /\ loop = "wait" /\ state[s] = "Idle" /\ enter_sp(s) /\ UNCHANGED work
          /\ x' = [x EXCEPT ![s] = Req(r)] /\ accepted' = [accepted EXCEPT ![s] = r]
      BY <1>1, <2>3 DEF direct_req, dispatch_to_sp, AcceptsRequest, SpmcInv, SpmcTypeOK
    <3>2. /\ x' \in [SPs -> Messages] /\ accepted' \in [SPs -> Requests]
          /\ \A u \in SPs : u # s => x'[u] = x[u] /\ accepted'[u] = accepted[u]
          /\ x'[s] = Req(r) /\ accepted'[s] = r
      BY <3>1, MessageTypes DEF SpmcInv, SpmcTypeOK
    <3>3. pc'[s] \in {"boot_smc", "loop"}
      BY <3>1 DEF enter_sp, SpmcInv
    <3>4. InService(s)'
      BY <3>2, <3>3 DEF InService
    <3> QED
      BY <2>3, <3>1, <3>2, <3>4, EnterKeeps
  <2> QED
    BY <2>1, <2>2, <2>3
<1>2. ASSUME NEW s \in SPs \cup OtherIds, resume_preempted_sp(s) PROVE SpmcInv'
  <2>1. CASE s \notin store \/ ~Resumable(s)
    BY <1>2, <2>1, MessageTypes, AnswerKeeps DEF resume_preempted_sp, Reply, Respond, SpmcInv, SpmcTypeOK
  <2>2. CASE s \in store /\ Resumable(s)
    <3>1. /\ s \in SPs /\ loop = "wait" /\ state[s] = "Preempted" /\ enter_sp(s)
          /\ UNCHANGED <<x, work, accepted, pc>>
      BY <1>2, <2>2 DEF resume_preempted_sp, Resumable, enter_sp, SpmcInv, SpmcTypeOK
    <3>2. InService(s)'
      BY <3>1 DEF SpmcInv, InService
    <3> QED
      BY <2>2, <3>1, <3>2, EnterKeeps DEF SpmcInv, SpmcTypeOK
  <2> QED
    BY <2>1, <2>2
<1> QED
  BY <1>1, <1>2

\* The calls of the dispatch loop that no partition serves.
LEMMA RxtxKeeps ==
  ASSUME SpmcInv,
         \/ \E paramsOk \in BOOLEAN : handle_rxtx_map(paramsOk)
         \/ handle_rxtx_unmap \/ handle_rx_release
         \/ \E kind \in {"SUCCESS", "NOT_SUPPORTED"} : dispatch_ffa(kind)
  PROVE  SpmcInv'
PROOF
<1>1. UNCHANGED spVars
  BY DEF handle_rxtx_map, handle_rxtx_unmap, handle_rx_release, dispatch_ffa, Reply, Respond
<1>2. rxtx' \in BOOLEAN
  BY Zenon DEF handle_rxtx_map, handle_rxtx_unmap, handle_rx_release, dispatch_ffa, Reply, Respond, SpmcInv, SpmcTypeOK
<1>3. answer' \in Messages
  BY MessageTypes DEF handle_rxtx_map, handle_rxtx_unmap, handle_rx_release, dispatch_ffa, Reply, Respond
<1> QED
  BY <1>1, <1>2, <1>3, AnswerKeeps

\* The SP that executes is booting or Running.
LEMMA CurrentState ==
  ASSUME SpmcInv, NEW s \in SPs, cur = s
  PROVE  \/ loop = "boot" /\ state[s] = "Reset" /\ s \notin store
         \/ loop = "sp" /\ state[s] = "Running" /\ InService(s) /\ ~preempted /\ ~irq
BY SpmcAssumption DEF SpmcInv, OneRunning, SpmcTypeOK

\* A step of the program of an SP leaves the SPMC and the other SPs alone.
LEMMA MoveKeeps ==
  ASSUME SpmcInv, SpmcTypeOK', NEW s \in SPs, cur = s,
         UNCHANGED <<loop, cur, state, store, preempted, accepted, irq>>,
         \A u \in SPs : u # s => x'[u] = x[u] /\ pc'[u] = pc[u],
         state[s] = "Reset" => pc'[s] = "boot_smc" /\ x'[s] = Plain("MSG_WAIT"),
         state[s] = "Running" => InService(s)'
  PROVE  SpmcInv'
PROOF
<1>1. \A u \in SPs : u # s => (InService(u)' <=> InService(u))
  BY DEF InService
<1>2. state[s] \in {"Reset", "Running"}
  BY CurrentState
<1> QED
  BY <1>1, <1>2 DEF SpmcInv, OneRunning, SpmcTypeOK

\* The instructions of a partition between its exits.
LEMMA InstructionKeeps ==
  ASSUME SpmcInv, NEW s \in SPs, sp_boot(s) \/ sp_msg_loop(s) \/ sp_work(s)
  PROVE  SpmcInv'
PROOF
<1>1. cur = s /\ UNCHANGED <<loop, cur, state, store, preempted, rxtx, answer, accepted, irq>>
  BY DEF sp_boot, sp_msg_loop, sp_work, SpInstruction
<1>2. CASE sp_boot(s)
  <2>1. /\ pc[s] = "boot" /\ pc' = [pc EXCEPT ![s] = "boot_smc"]
        /\ x' = [x EXCEPT ![s] = Plain("MSG_WAIT")] /\ work' = work
    BY <1>2 DEF sp_boot
  <2>2. SpmcTypeOK'
    BY <1>1, <2>1, MessageTypes DEF SpmcInv, SpmcTypeOK
  <2>3. state[s] = "Reset"
    BY <1>1, <2>1, CurrentState DEF InService
  <2>4. pc'[s] = "boot_smc" /\ x'[s] = Plain("MSG_WAIT")
    BY <2>1 DEF SpmcInv, SpmcTypeOK
  <2>5. \A u \in SPs : u # s => x'[u] = x[u] /\ pc'[u] = pc[u]
    BY <2>1 DEF SpmcInv, SpmcTypeOK
  <2> QED
    BY <1>1, <2>2, <2>3, <2>4, <2>5, MoveKeeps
<1>3. CASE sp_msg_loop(s)
  <2>1. pc[s] = "loop"
    BY <1>3 DEF sp_msg_loop
  <2>2. state[s] = "Running" /\ x[s] = Req(accepted[s]) /\ accepted[s] \in Requests
    BY <1>1, <2>1, CurrentState DEF InService, SpmcInv, SpmcTypeOK
  <2>3. x[s].kind = "DIRECT_REQ" /\ x[s].req = accepted[s]
    BY <2>2 DEF Req
  <2>4. CASE accepted[s].width = 32
    <3>1. pc' = [pc EXCEPT ![s] = "work"] /\ work' = [work EXCEPT ![s] = SpWork] /\ x' = x
      BY <1>3, <2>3, <2>4 DEF sp_msg_loop
    <3>2. SpmcTypeOK'
      BY <1>1, <3>1, SpmcAssumption DEF SpmcInv, SpmcTypeOK
    <3>3. pc'[s] = "work" /\ \A u \in SPs : u # s => pc'[u] = pc[u]
      BY <3>1 DEF SpmcInv, SpmcTypeOK
    <3>4. InService(s)'
      BY <1>1, <2>2, <2>4, <3>1, <3>3 DEF InService
    <3> QED
      BY <1>1, <2>2, <3>1, <3>2, <3>3, <3>4, MoveKeeps
  <2>5. CASE accepted[s].width # 32
    <3>1. pc' = [pc EXCEPT ![s] = "smc"] /\ x' = [x EXCEPT ![s] = Plain("MSG_WAIT")] /\ work' = work
      BY <1>3, <2>3, <2>5 DEF sp_msg_loop
    <3>2. SpmcTypeOK'
      BY <1>1, <3>1, MessageTypes DEF SpmcInv, SpmcTypeOK
    <3>3. pc'[s] = "smc" /\ x'[s] = Plain("MSG_WAIT") /\ \A u \in SPs : u # s => pc'[u] = pc[u] /\ x'[u] = x[u]
      BY <3>1 DEF SpmcInv, SpmcTypeOK
    <3>4. InService(s)'
      BY <1>1, <2>5, <3>3 DEF InService, Answer
    <3> QED
      BY <1>1, <2>2, <3>2, <3>3, <3>4, MoveKeeps
  <2> QED
    BY <2>4, <2>5
<1>4. CASE sp_work(s)
  <2>1. pc[s] = "work"
    BY <1>4 DEF sp_work
  <2>2. state[s] = "Running" /\ x[s] = Req(accepted[s]) /\ accepted[s].width = 32 /\ accepted[s] \in Requests
    BY <1>1, <2>1, CurrentState DEF InService, SpmcInv, SpmcTypeOK
  <2>3. x[s].req = accepted[s]
    BY <2>2 DEF Req
  <2>4. CASE work[s] > 0
    <3>1. work' = [work EXCEPT ![s] = @ - 1] /\ UNCHANGED <<pc, x>>
      BY <1>4, <2>4 DEF sp_work
    <3>2. work' \in [SPs -> 0 .. SpWork]
      BY <2>4, <3>1, SpmcAssumption DEF SpmcInv, SpmcTypeOK
    <3>3. SpmcTypeOK'
      BY <1>1, <3>1, <3>2 DEF SpmcInv, SpmcTypeOK
    <3>4. InService(s)'
      BY <1>1, <2>1, <2>2, <3>1 DEF InService
    <3> QED
      BY <1>1, <2>2, <3>1, <3>3, <3>4, MoveKeeps
  <2>5. CASE ~(work[s] > 0)
    <3>1. pc' = [pc EXCEPT ![s] = "smc"] /\ x' = [x EXCEPT ![s] = Resp(accepted[s])] /\ work' = work
      BY <1>4, <2>3, <2>5 DEF sp_work
    <3>2. SpmcTypeOK'
      BY <1>1, <2>2, <3>1, MessageTypes DEF SpmcInv, SpmcTypeOK
    <3>3. pc'[s] = "smc" /\ x'[s] = Resp(accepted[s]) /\ \A u \in SPs : u # s => pc'[u] = pc[u] /\ x'[u] = x[u]
      BY <3>1 DEF SpmcInv, SpmcTypeOK
    <3>4. InService(s)'
      BY <1>1, <2>2, <3>3 DEF InService, Answer
    <3> QED
      BY <1>1, <2>2, <3>2, <3>3, <3>4, MoveKeeps
  <2> QED
    BY <2>4, <2>5
<1> QED
  BY <1>2, <1>3, <1>4, Zenon
\* The boot of an SP ends: it is Idle if it got as far as FFA_MSG_WAIT.
LEMMA LeaveBootKeeps ==
  ASSUME SpmcInv, NEW s \in SPs, cur = s, loop = "boot", NEW flag \in BOOLEAN,
         exit_guest(x[s], flag), irq' \in BOOLEAN,
         \/ pc' = pc
         \/ pc[s] = "boot_smc" /\ pc' = [pc EXCEPT ![s] = "loop"]
  PROVE  SpmcInv'
PROOF
<1>1. state[s] = "Reset" /\ s \notin store
  BY CurrentState
<1>2. /\ preempted' = flag /\ store' = store \cup {s} /\ cur' = NoSP
      /\ UNCHANGED <<loop, answer, x, work, rxtx, accepted>>
  BY DEF exit_guest, leave_boot
<1>3. x[s].kind = "MSG_WAIT" <=> pc[s] = "boot_smc"
  BY <1>1 DEF SpmcInv, Plain
<1>4. state' = IF pc[s] = "boot_smc" THEN [state EXCEPT ![s] = "Idle"] ELSE state
  BY <1>1, <1>3 DEF exit_guest, leave_boot, transition_to, ValidTransition
<1>5. /\ \A u \in SPs : u # s => state'[u] = state[u] /\ pc'[u] = pc[u]
      /\ pc[s] = "boot_smc" => state'[s] = "Idle" /\ pc'[s] \in {"boot_smc", "loop"}
      /\ pc[s] = "boot" => state'[s] = "Reset" /\ pc'[s] = "boot"
  BY <1>1, <1>4 DEF SpmcInv, SpmcTypeOK
<1>6. pc[s] \in {"boot", "boot_smc"}
  BY <1>1 DEF SpmcInv
<1>7. SpmcTypeOK'
  <2>1. state' \in [SPs -> SpState]
    BY <1>4 DEF SpmcInv, SpmcTypeOK, SpState
  <2>2. pc' \in [SPs -> {"boot", "boot_smc", "loop", "work", "smc"}]
    BY DEF SpmcInv, SpmcTypeOK
  <2> QED
    BY <1>2, <2>1, <2>2 DEF SpmcInv, SpmcTypeOK
<1>8. \A u \in SPs : state'[u] \in {"Reset", "Idle"}
  BY <1>5, <1>6 DEF SpmcInv
<1>9. OneRunning'
  BY <1>2, <1>8 DEF OneRunning
<1> QED
  BY <1>1, <1>2, <1>5, <1>6, <1>7, <1>8, <1>9, SpmcAssumption DEF SpmcInv

\* An SP that served a request or was preempted.
LEMMA LeaveSpKeeps ==
  ASSUME SpmcInv, NEW s \in SPs, cur = s, loop = "sp", NEW flag \in BOOLEAN,
         exit_guest(x[s], flag), irq' \in BOOLEAN,
         \/ flag /\ pc' = pc
         \/ ~flag /\ pc' = [pc EXCEPT ![s] = "loop"]
  PROVE  SpmcInv' /\ state'[s] = IF flag THEN "Preempted" ELSE "Idle"
PROOF
<1>1. state[s] = "Running" /\ InService(s)
  BY CurrentState
<1>2. /\ preempted' = FALSE /\ cur' = NoSP /\ loop' = "wait"
      /\ UNCHANGED <<store, x, work, rxtx, accepted>>
      /\ answer' = IF flag THEN Plain("INTERRUPT") ELSE x[s]
  BY DEF exit_guest, leave_sp
<1>3. state' = [state EXCEPT ![s] = IF flag THEN "Preempted" ELSE "Idle"]
  BY <1>1 DEF exit_guest, leave_sp, transition_to, ValidTransition
<1>4. /\ \A u \in SPs : u # s => state'[u] = state[u] /\ state[u] # "Running" /\ pc'[u] = pc[u]
      /\ state'[s] = IF flag THEN "Preempted" ELSE "Idle"
  BY <1>3 DEF SpmcInv, SpmcTypeOK, OneRunning
<1>5. SpmcTypeOK'
  <2>1. state' \in [SPs -> SpState]
    BY <1>3 DEF SpmcInv, SpmcTypeOK, SpState
  <2>2. pc' \in [SPs -> {"boot", "boot_smc", "loop", "work", "smc"}]
    BY DEF SpmcInv, SpmcTypeOK
  <2>3. answer' \in Messages
    BY <1>2, MessageTypes DEF SpmcInv, SpmcTypeOK
  <2> QED
    BY <1>2, <2>1, <2>2, <2>3, SpmcAssumption, Zenon DEF SpmcInv, SpmcTypeOK
<1>6. OneRunning'
  BY <1>2, <1>4 DEF OneRunning
<1>7. \A u \in SPs : u # s => (InService(u)' <=> InService(u))
  BY <1>2, <1>4 DEF InService
<1>8. s \in store
  BY <1>1 DEF SpmcInv
<1>9. CASE flag
  <2>1. InService(s)'
    BY <1>1, <1>2, <1>9 DEF InService
  <2> QED
    BY <1>2, <1>4, <1>5, <1>6, <1>7, <1>8, <1>9, <2>1 DEF SpmcInv
<1>10. CASE ~flag
  <2>1. pc'[s] = "loop"
    BY <1>10 DEF SpmcInv, SpmcTypeOK
  <2> QED
    BY <1>2, <1>4, <1>5, <1>6, <1>7, <1>8, <1>10, <2>1 DEF SpmcInv
<1> QED
  BY <1>9, <1>10

\* A partition leaves by an SMC or an interrupt.
LEMMA ExitKeeps ==
  ASSUME SpmcInv, NEW s \in SPs, sp_smc(s) \/ handle_irq_exception(s)
  PROVE  SpmcInv'
PROOF
<1>1. cur = s
  BY Zenon DEF sp_smc, handle_irq_exception
<1>2. CASE sp_smc(s)
  <2>1. /\ pc[s] \in {"boot_smc", "smc"} /\ pc' = [pc EXCEPT ![s] = "loop"]
        /\ exit_guest(x[s], preempted) /\ irq' \in BOOLEAN /\ preempted \in BOOLEAN
    BY <1>2 DEF sp_smc, SpmcInv, SpmcTypeOK
  <2>2. CASE loop = "boot"
    <3>1. pc[s] = "boot_smc"
      BY <1>1, <2>1, <2>2, CurrentState DEF SpmcInv
    <3> QED
      BY <1>1, <2>1, <2>2, <3>1, LeaveBootKeeps, Zenon
  <2>3. CASE loop = "sp"
    <3>1. ~preempted
      BY <2>3 DEF SpmcInv
    <3> QED
      BY <1>1, <2>1, <2>3, <3>1, LeaveSpKeeps, Zenon
  <2> QED
    BY <1>1, <2>2, <2>3, CurrentState
<1>3. CASE handle_irq_exception(s)
  <2>1. pc' = pc /\ exit_guest(x[s], TRUE) /\ irq' \in BOOLEAN
    BY <1>3, Zenon DEF handle_irq_exception
  <2> QED
    BY <1>1, <2>1, CurrentState, LeaveBootKeeps, LeaveSpKeeps, Zenon
<1> QED
  BY <1>2, <1>3

\* SpmcInv is inductive.
LEMMA NextSpmc == SpmcInv /\ [SpmcNext]_spmcVars => SpmcInv'
PROOF
<1> SUFFICES ASSUME SpmcInv, [SpmcNext]_spmcVars PROVE SpmcInv'
  OBVIOUS
<1>1. CASE UNCHANGED spmcVars
  BY <1>1, AnswerKeeps DEF spmcVars, spVars, SpmcInv, SpmcTypeOK
<1>2. CASE SpmcNext
  BY <1>2, BootKeeps, RequestKeeps, RxtxKeeps, InstructionKeeps, ExitKeeps DEF SpmcNext, SpStep
<1> QED
  BY <1>1, <1>2

\* In every state of the SPMC, one SP at most is Running, the one inside enter_guest(), and
\* every SP's state tells what its program and its registers are at.
THEOREM SpmcInvariance == SpmcSpec => []SpmcInv
BY InitSpmc, NextSpmc, PTL DEF SpmcSpec
\* While an SP is Running, only its own program and interrupts happen.
LEMMA OnlyTheCurrent ==
  ASSUME SpmcInv, SpmcNext, NEW s \in SPs, state[s] = "Running"
  PROVE  SpStep(s) \/ handle_irq_exception(s)
PROOF
<1>1. loop = "sp" /\ cur = s
  BY DEF SpmcInv, OneRunning
<1>2. \A u \in SPs : SpStep(u) \/ handle_irq_exception(u) => u = s
  BY <1>1, Zenon DEF SpStep, sp_boot, sp_msg_loop, sp_work, sp_smc, SpInstruction, handle_irq_exception
<1>3. ~signal_spmc_ready /\ ~handle_rxtx_unmap /\ ~handle_rx_release
  BY <1>1 DEF signal_spmc_ready, handle_rxtx_unmap, handle_rx_release
<1>4. /\ \A u \in SPs : ~boot_sp(u)
      /\ \A r \in Requests, u \in SPs \cup OtherIds : ~direct_req(r, u)
      /\ \A u \in SPs \cup OtherIds : ~resume_preempted_sp(u)
      /\ \A b \in BOOLEAN : ~handle_rxtx_map(b)
      /\ \A k \in {"SUCCESS", "NOT_SUPPORTED"} : ~dispatch_ffa(k)
  BY <1>1 DEF boot_sp, direct_req, resume_preempted_sp, handle_rxtx_map, dispatch_ffa
<1> QED
  BY <1>2, <1>3, <1>4 DEF SpmcNext

\* A partition stops running in these two ways only.
LEMMA LeavesRunning ==
  ASSUME SpmcInv, [SpmcNext]_spmcVars, NEW s \in SPs, state[s] = "Running", state'[s] # "Running"
  PROVE  \/ sp_smc(s) /\ state'[s] = "Idle" /\ ~irq'
         \/ handle_irq_exception(s) /\ state'[s] = "Preempted" /\ irq'
PROOF
<1>1. SpmcNext
  BY DEF spmcVars
<1>2. sp_smc(s) \/ handle_irq_exception(s)
  BY <1>1, OnlyTheCurrent DEF SpStep, sp_boot, sp_msg_loop, sp_work, SpInstruction
<1>3. cur = s /\ loop = "sp" /\ ~preempted /\ ~irq
  BY DEF SpmcInv, OneRunning
<1>4. CASE sp_smc(s)
  <2>1. exit_guest(x[s], preempted) /\ irq' = irq
    BY <1>4 DEF sp_smc
  <2>2. state' = [state EXCEPT ![s] = "Idle"]
    BY <1>3, <2>1 DEF exit_guest, leave_sp, transition_to, ValidTransition
  <2> QED
    BY <1>3, <1>4, <2>1, <2>2 DEF SpmcInv, SpmcTypeOK
<1>5. CASE handle_irq_exception(s)
  <2>1. exit_guest(x[s], TRUE) /\ irq'
    BY <1>5, Zenon DEF handle_irq_exception
  <2>2. state' = [state EXCEPT ![s] = "Preempted"]
    BY <1>3, <2>1 DEF exit_guest, leave_sp, transition_to, ValidTransition
  <2> QED
    BY <1>5, <2>1, <2>2 DEF SpmcInv, SpmcTypeOK
<1> QED
  BY <1>2, <1>4, <1>5

\* Preemptions and answers are never taken for each other.
THEOREM PreemptedIffIrqTheorem == SpmcSpec => PreemptedIffIrq
PROOF
<1>1. SpmcInv /\ [SpmcNext]_spmcVars =>
        \A s \in SPs : state[s] = "Running" /\ state'[s] # "Running" => (state'[s] = "Preempted" <=> irq')
  BY LeavesRunning
<1> QED
  BY <1>1, SpmcInvariance, PTL DEF SpmcSpec, PreemptedIffIrq

\* A program that reached its answer gives back the answer to the request it was entered
\* with, however often it was preempted and whatever the Normal World sent meanwhile.
THEOREM AnswerMatchesTheorem == SpmcSpec => AnswerMatches
PROOF
<1>1. SpmcInv /\ [SpmcNext]_spmcVars =>
        \A s \in SPs : state[s] = "Running" /\ state'[s] = "Idle" /\ pc[s] = "smc" => answer' = Answer(accepted[s])
  <2> SUFFICES ASSUME SpmcInv, [SpmcNext]_spmcVars, NEW s \in SPs,
                      state[s] = "Running", state'[s] = "Idle", pc[s] = "smc"
               PROVE  answer' = Answer(accepted[s])
    OBVIOUS
  <2>1. sp_smc(s)
    BY LeavesRunning
  <2>2. loop = "sp" /\ ~preempted /\ x[s] = Answer(accepted[s])
    BY DEF SpmcInv, OneRunning, InService
  <2> QED
    BY <2>1, <2>2 DEF sp_smc, exit_guest, leave_sp
<1> QED
  BY <1>1, SpmcInvariance, PTL DEF SpmcSpec, AnswerMatches

\* A request that an SP was entered with stays its request until the SP is Idle.
THEOREM NotDisplacedTheorem == SpmcSpec => NotDisplaced
PROOF
<1>1. SpmcInv /\ [SpmcNext]_spmcVars =>
        \A s \in SPs : state[s] \in {"Running", "Preempted"} => accepted'[s] = accepted[s]
  <2> SUFFICES ASSUME SpmcInv, [SpmcNext]_spmcVars, NEW s \in SPs, state[s] \in {"Running", "Preempted"}
               PROVE  accepted'[s] = accepted[s]
    OBVIOUS
  <2>1. CASE UNCHANGED spmcVars
    BY <2>1 DEF spmcVars
  <2>2. ASSUME NEW r \in Requests, NEW u \in SPs \cup OtherIds, direct_req(r, u)
        PROVE  accepted'[s] = accepted[s]
    <3>1. accepted' = accepted \/ (state[u] = "Idle" /\ accepted' = [accepted EXCEPT ![u] = r])
      BY <2>2 DEF direct_req, dispatch_to_sp, AcceptsRequest, Reply, Respond, spVars
    <3> QED
      BY <3>1 DEF SpmcInv, SpmcTypeOK
  <2>3. ASSUME SpmcNext, ~\E r \in Requests, u \in SPs \cup OtherIds : direct_req(r, u)
        PROVE  accepted' = accepted
    BY <2>3, Zenon DEF SpmcNext, boot_sp, signal_spmc_ready, resume_preempted_sp, handle_rxtx_map, handle_rxtx_unmap,
         handle_rx_release, dispatch_ffa, Reply, Respond, spVars, SpStep, sp_boot, sp_msg_loop, sp_work,
         SpInstruction, sp_smc, handle_irq_exception, exit_guest
  <2> QED
    BY <2>1, <2>2, <2>3
<1> QED
  BY <1>1, SpmcInvariance, PTL DEF SpmcSpec, NotDisplaced

-----------------------------------------------------------------------------
(* Mailboxes.                                                              *)

Steps == [op : {"map", "unmap", "release", "info", "infoWritten"}] \cup [op : {"send", "sent"}, to : VMs]

\* A call and a mailbox have the shape that the code expects.
LEMMA Shapes ==
  ASSUME TypeOK, NEW c \in CPUs
  PROVE  /\ VmOf[c] \in VMs
         /\ call[c].op \in {"none", "map", "unmap", "release", "info", "infoWritten", "send", "sent"}
         /\ call[c].op = "none" <=> call[c] = NotInCall
         /\ call[c].op \in {"send", "sent"} => call[c].to \in VMs
BY MailboxAssumption, SMTT(20) DEF TypeOK, NotInCall

\* The mailboxes start unmapped and no call is under way.
LEMMA InitMailbox == Init => MailboxInv
PROOF
<1> SUFFICES ASSUME Init PROVE MailboxInv
  OBVIOUS
<1>1. TypeOK
  BY SMTT(20) DEF Init, TypeOK, FfaMailbox_new, NoVM
<1>2. \A c \in CPUs : call[c].op = "none"
  BY DEF Init, NotInCall
<1> QED
  BY <1>1, <1>2 DEF Init, MailboxInv, AnnouncedMessageIsThere, StillChecked, FfaMailbox_new

\* A call that starts, or ends, without a change of mailboxes and buffers.
LEMMA CallKeeps ==
  ASSUME MailboxInv, OnePcpu, NEW c \in CPUs, MayStart(c), UNCHANGED <<mbox, rx>>,
         NEW step \in Steps \cup {NotInCall}, call' = [call EXCEPT ![c] = step],
         ret' \in {"NONE", "SUCCESS", "DENIED", "BUSY", "NO_DATA", "NO_MEMORY", "INVALID_PARAMETERS", "SPMC_ERROR"},
         StillChecked(c)'
  PROVE  MailboxInv'
PROOF
<1>1. TypeOK'
  BY SMTT(20) DEF MailboxInv, TypeOK, Steps
<1>2. \A d \in CPUs : d # c => call'[d] = NotInCall
  BY SMTT(20) DEF MayStart, MailboxInv, TypeOK
<1>3. \A d \in CPUs : d # c => StillChecked(d)'
  BY <1>2 DEF StillChecked, NotInCall
<1> QED
  BY <1>1, <1>2, <1>3 DEF MailboxInv, AnnouncedMessageIsThere
Codes == {"NONE", "SUCCESS", "DENIED", "BUSY", "NO_DATA", "NO_MEMORY", "INVALID_PARAMETERS", "SPMC_ERROR"}

\* A handler that returns an error leaves the mailboxes alone.
LEMMA FailKeeps ==
  ASSUME MailboxInv, OnePcpu, NEW c \in CPUs, MayStart(c), NEW code \in Codes, Fail(c, code)
  PROVE  MailboxInv'
PROOF
<1>1. call' = [call EXCEPT ![c] = NotInCall] /\ ret' = code /\ UNCHANGED <<mbox, rx>>
  BY DEF Fail, Return
<1>2. call'[c] = NotInCall
  BY <1>1, SMTT(20) DEF MailboxInv, TypeOK
<1>3. StillChecked(c)'
  BY <1>2 DEF StillChecked, NotInCall
<1> QED
  BY <1>1, <1>3, CallKeeps, Zenon DEF Codes

\* A handler goes on to its next step with what it has checked still true.
LEMMA ProceedKeeps ==
  ASSUME MailboxInv, OnePcpu, NEW c \in CPUs, MayStart(c), NEW step \in Steps, Proceed(c, step),
         step.op # "sent",
         step.op = "map" => ~Box(c).mapped,
         step.op \in {"info", "infoWritten"} => Box(c).mapped /\ Box(c).rx_held_by_proxy,
         step.op = "send" => mbox[step.to].mapped /\ mbox[step.to].rx_held_by_proxy
  PROVE  MailboxInv'
PROOF
<1>1. call' = [call EXCEPT ![c] = step] /\ UNCHANGED <<mbox, rx, ret>>
  BY DEF Proceed
<1>2. call'[c] = step
  BY <1>1, SMTT(20) DEF MailboxInv, TypeOK
<1>3. StillChecked(c)'
  BY <1>1, <1>2 DEF StillChecked, Box
<1> QED
  BY <1>1, <1>3, CallKeeps, Zenon DEF MailboxInv, TypeOK

\* The checks of every call.
LEMMA StartKeeps ==
  ASSUME MailboxInv, OnePcpu, NEW c \in CPUs,
         \/ \E ok \in BOOLEAN : rxtx_map(c, ok)
         \/ rxtx_unmap(c) \/ rx_release(c) \/ partition_info_get(c) \/ msg_wait(c)
         \/ \E s \in VMs, r \in VMs \cup {NoVM} : msg_send2(c, s, r)
  PROVE  MailboxInv'
PROOF
<1> USE DEF Codes
<1>1. CASE \E ok \in BOOLEAN : rxtx_map(c, ok)
  <2>1. [op |-> "map"] \in Steps
    BY DEF Steps
  <2> QED
    BY <1>1, <2>1, FailKeeps, ProceedKeeps DEF rxtx_map
<1>2. CASE rxtx_unmap(c) \/ rx_release(c)
  <2>1. [op |-> "unmap"] \in Steps /\ [op |-> "release"] \in Steps
    BY DEF Steps
  <2> QED
    BY <1>2, <2>1, FailKeeps, ProceedKeeps DEF rxtx_unmap, rx_release
<1>3. CASE partition_info_get(c)
  <2>1. [op |-> "info"] \in Steps
    BY DEF Steps
  <2> QED
    BY <1>3, <2>1, FailKeeps, ProceedKeeps, Zenon DEF partition_info_get
<1>4. ASSUME NEW s \in VMs, NEW r \in VMs \cup {NoVM}, msg_send2(c, s, r) PROVE MailboxInv'
  <2>1. CASE \E code \in Codes : Fail(c, code)
    BY <1>4, <2>1, FailKeeps DEF msg_send2
  <2>2. CASE ~\E code \in Codes : Fail(c, code)
    <3>1. /\ MayStart(c) /\ r \in VMs /\ mbox[r].mapped /\ mbox[r].rx_held_by_proxy
          /\ Proceed(c, [op |-> "send", to |-> r])
      BY <1>4, <2>2 DEF msg_send2
    <3>2. [op |-> "send", to |-> r] \in Steps
      BY <3>1 DEF Steps
    <3> QED
      BY <3>1, <3>2, ProceedKeeps
  <2> QED
    BY <2>1, <2>2
<1>5. CASE msg_wait(c)
  BY <1>5, FailKeeps DEF msg_wait
<1> QED
  BY <1>1, <1>2, <1>3, <1>4, <1>5

\* While a call is in progress there is no other, so that nothing but its own steps can
\* undo what it checked.
LEMMA OthersIdle ==
  ASSUME MailboxInv, NEW c \in CPUs, call[c] # NotInCall, NEW step, call' = [call EXCEPT ![c] = step]
  PROVE  /\ \A d \in CPUs : d # c => call'[d] = NotInCall /\ StillChecked(d)'
         /\ call'[c] = step
PROOF
<1>1. \A d \in CPUs : d # c => call'[d] = NotInCall
  BY SMTT(20) DEF MailboxInv, TypeOK
<1>2. call'[c] = step
  BY SMTT(20) DEF MailboxInv, TypeOK
<1> QED
  BY <1>1, <1>2 DEF StillChecked, NotInCall

Boxes == [mapped : BOOLEAN, rx_held_by_proxy : BOOLEAN, msg_pending : BOOLEAN, msg_sender_id : VMs \cup {NoVM}]

\* A call ends by giving the mailbox of v the value b.
LEMMA EndKeeps ==
  ASSUME MailboxInv, NEW c \in CPUs, call[c] # NotInCall, Return(c, "SUCCESS"), UNCHANGED rx,
         NEW v \in VMs, NEW b \in Boxes, mbox' = [mbox EXCEPT ![v] = b],
         b.msg_pending => /\ b.mapped /\ ~b.rx_held_by_proxy
                          /\ rx[v].kind = "msg" /\ rx[v].from = b.msg_sender_id
  PROVE  MailboxInv'
PROOF
<1>1. call' = [call EXCEPT ![c] = NotInCall] /\ ret' = "SUCCESS"
  BY DEF Return
<1>2. TypeOK'
  <2>1. mbox' \in [VMs -> Boxes]
    BY SMTT(20) DEF MailboxInv, TypeOK, Boxes
  <2> QED
    BY <1>1, <2>1, SMTT(20) DEF MailboxInv, TypeOK, Boxes
<1>3. /\ \A d \in CPUs : call'[d] = NotInCall
      /\ \A d \in CPUs : d # c => StillChecked(d)'
  BY <1>1, OthersIdle, Zenon
<1>4. StillChecked(c)'
  <2>1. NotInCall.op = "none"
    BY DEF NotInCall
  <2>2. call'[c].op = "none"
    BY <1>3, <2>1, Zenon
  <2> QED
    BY <2>2, Zenon DEF StillChecked
<1>5. AnnouncedMessageIsThere'
  BY SMTT(20) DEF MailboxInv, TypeOK, AnnouncedMessageIsThere
<1> QED
  BY <1>2, <1>3, <1>4, <1>5 DEF MailboxInv

\* The last step of every call.
LEMMA CommitKeeps ==
  ASSUME MailboxInv, NEW c \in CPUs,
         \/ rxtx_map_commit(c) \/ rxtx_unmap_commit(c) \/ rx_release_commit(c)
         \/ partition_info_get_commit(c) \/ msg_send2_commit(c)
  PROVE  MailboxInv'
PROOF
<1>1. /\ call[c].op \in {"map", "unmap", "release", "infoWritten", "sent"}
      /\ Return(c, "SUCCESS") /\ UNCHANGED rx
  BY DEF rxtx_map_commit, rxtx_unmap_commit, rx_release_commit, partition_info_get_commit, msg_send2_commit
<1>2. call[c] # NotInCall /\ VmOf[c] \in VMs
  BY <1>1, Shapes DEF NotInCall, MailboxInv
<1>3. mbox[VmOf[c]] \in Boxes
  BY <1>2, SMTT(20) DEF MailboxInv, TypeOK, Boxes
<1>4. CASE rxtx_map_commit(c)
  <2> DEFINE b == [Box(c) EXCEPT !.mapped = TRUE, !.rx_held_by_proxy = TRUE]
  <2>1. mbox' = [mbox EXCEPT ![VmOf[c]] = b]
    BY <1>4 DEF rxtx_map_commit, Box
  <2>2. ~Box(c).mapped
    BY <1>4 DEF rxtx_map_commit, MailboxInv, StillChecked
  <2>3. ~Box(c).msg_pending
    BY <1>2, <2>2 DEF MailboxInv, AnnouncedMessageIsThere, Box
  <2>4. b \in Boxes /\ ~b.msg_pending
    BY <1>3, <2>3, Zenon DEF Boxes, Box
  <2> QED
    BY <1>1, <1>2, <2>1, <2>4, EndKeeps, Zenon
<1>5. CASE rxtx_unmap_commit(c)
  <2>1. FfaMailbox_new \in Boxes /\ ~FfaMailbox_new.msg_pending
    BY DEF FfaMailbox_new, Boxes
  <2> QED
    BY <1>1, <1>2, <1>5, <2>1, EndKeeps, Zenon DEF rxtx_unmap_commit
<1>6. CASE rx_release_commit(c)
  <2> DEFINE b == [Box(c) EXCEPT !.rx_held_by_proxy = TRUE, !.msg_pending = FALSE]
  <2>1. mbox' = [mbox EXCEPT ![VmOf[c]] = b]
    BY <1>6 DEF rx_release_commit, Box
  <2>2. b \in Boxes /\ ~b.msg_pending
    BY <1>3, Zenon DEF Boxes, Box
  <2> QED
    BY <1>1, <1>2, <2>1, <2>2, EndKeeps, Zenon
<1>7. CASE partition_info_get_commit(c)
  <2> DEFINE b == [Box(c) EXCEPT !.rx_held_by_proxy = FALSE]
  <2>1. mbox' = [mbox EXCEPT ![VmOf[c]] = b]
    BY <1>7 DEF partition_info_get_commit, Box
  <2>2. Box(c).rx_held_by_proxy
    BY <1>7 DEF partition_info_get_commit, MailboxInv, StillChecked
  <2>3. ~Box(c).msg_pending
    BY <1>2, <2>2 DEF MailboxInv, AnnouncedMessageIsThere, Box
  <2>4. b \in Boxes /\ ~b.msg_pending
    BY <1>3, <2>3, Zenon DEF Boxes, Box
  <2> QED
    BY <1>1, <1>2, <2>1, <2>4, EndKeeps, Zenon
<1>8. CASE msg_send2_commit(c)
  <2> DEFINE v == call[c].to
             b == [mbox[v] EXCEPT !.msg_pending = TRUE, !.msg_sender_id = VmOf[c], !.rx_held_by_proxy = FALSE]
  <2>1. mbox' = [mbox EXCEPT ![v] = b] /\ call[c].op = "sent"
    BY <1>8 DEF msg_send2_commit
  <2>2. v \in VMs /\ mbox[v] \in Boxes
    BY <2>1, Shapes, SMTT(20) DEF MailboxInv, TypeOK, Boxes
  <2>3. mbox[v].mapped /\ rx[v].kind = "msg" /\ rx[v].from = VmOf[c]
    BY <2>1 DEF MailboxInv, StillChecked
  <2>4. b \in Boxes /\ b.mapped /\ ~b.rx_held_by_proxy /\ b.msg_sender_id = VmOf[c]
    BY <1>2, <2>2, <2>3, Zenon DEF Boxes
  <2> HIDE DEF v, b
  <2> QED
    BY <1>1, <1>2, <2>1, <2>2, <2>3, <2>4, EndKeeps, Zenon
<1> QED
  BY <1>4, <1>5, <1>6, <1>7, <1>8

\* The steps that write an RX buffer, which the proxy holds.
LEMMA WriteKeeps ==
  ASSUME MailboxInv, NEW c \in CPUs, partition_info_get_write(c) \/ msg_send2_copy(c)
  PROVE  /\ MailboxInv'
         /\ \E v \in VMs : mbox[v].rx_held_by_proxy /\ \A w \in VMs : w # v => rx'[w] = rx[w]
PROOF
<1>1. PICK v \in VMs, kind \in {"info", "msg"}, from \in VMs \cup {NoVM}, step \in Steps :
        /\ WriteRx(v, kind, from) /\ call' = [call EXCEPT ![c] = step] /\ UNCHANGED <<mbox, ret>>
        /\ mbox[v].mapped /\ mbox[v].rx_held_by_proxy /\ call[c] # NotInCall
        /\ \/ step = [op |-> "infoWritten"] /\ v = VmOf[c]
           \/ step = [op |-> "sent", to |-> v] /\ kind = "msg" /\ from = VmOf[c]
  <2>1. CASE partition_info_get_write(c)
    <3>1. call[c].op = "info" /\ Box(c).mapped /\ Box(c).rx_held_by_proxy /\ VmOf[c] \in VMs /\ call[c] # NotInCall
      BY <2>1, Shapes DEF partition_info_get_write, MailboxInv, StillChecked, NotInCall
    <3>2. [op |-> "infoWritten"] \in Steps
      BY DEF Steps
    <3> QED
      BY <2>1, <3>1, <3>2, Zenon DEF partition_info_get_write, Box
  <2>2. CASE msg_send2_copy(c)
    <3>1. /\ call[c].op = "send" /\ call[c].to \in VMs /\ VmOf[c] \in VMs /\ call[c] # NotInCall
          /\ mbox[call[c].to].mapped /\ mbox[call[c].to].rx_held_by_proxy
      BY <2>2, Shapes DEF msg_send2_copy, MailboxInv, StillChecked, NotInCall
    <3>2. [op |-> "sent", to |-> call[c].to] \in Steps
      BY <3>1 DEF Steps
    <3> QED
      BY <2>2, <3>1, <3>2, Zenon DEF msg_send2_copy
  <2> QED
    BY <2>1, <2>2
<1>2. rx' = [rx EXCEPT ![v] = [kind |-> kind, from |-> from, tag |-> 1 - rx[v].tag]]
  BY <1>1, Zenon DEF WriteRx
<1>3. TypeOK'
  <2>1. 1 - rx[v].tag \in 0 .. 1
    BY SMTT(20) DEF MailboxInv, TypeOK
  <2>2. rx' \in [VMs -> [kind : {"none", "info", "msg"}, from : VMs \cup {NoVM}, tag : 0 .. 1]]
    BY <1>2, <2>1, Zenon DEF MailboxInv, TypeOK
  <2>3. call' \in [CPUs -> {NotInCall} \cup Steps]
    BY <1>1, SMTT(20) DEF MailboxInv, TypeOK, Steps
  <2> QED
    BY <1>1, <2>2, <2>3, Zenon DEF MailboxInv, TypeOK, Steps
<1>4. /\ \A w \in VMs : w # v => rx'[w] = rx[w]
      /\ rx'[v].kind = kind /\ rx'[v].from = from
  <2>1. DOMAIN rx = VMs
    BY Zenon DEF MailboxInv, TypeOK
  <2> QED
    BY <1>2, <2>1
<1>5. /\ \A d \in CPUs : d # c => call'[d] = NotInCall /\ StillChecked(d)'
      /\ call'[c] = step
  BY <1>1, OthersIdle, Zenon
<1>6. StillChecked(c)'
  <2>1. mbox' = mbox
    BY <1>1, Zenon
  <2>2. CASE step = [op |-> "infoWritten"] /\ v = VmOf[c]
    <3>1. step.op = "infoWritten"
      BY <2>2
    <3> QED
      BY <1>1, <1>5, <2>1, <2>2, <3>1, Zenon DEF StillChecked, Box
  <2>3. CASE step = [op |-> "sent", to |-> v] /\ kind = "msg" /\ from = VmOf[c]
    <3>1. step.op = "sent" /\ step.to = v
      BY <2>3
    <3>2. call'[c].op = "sent" /\ call'[c].to = v
      BY <1>5, <3>1, Zenon
    <3>3. rx'[v].kind = "msg" /\ rx'[v].from = VmOf[c]
      BY <1>4, <2>3, Zenon
    <3>4. mbox'[v].mapped /\ mbox'[v].rx_held_by_proxy
      BY <1>1, <2>1, Zenon
    <3> QED
      BY <3>2, <3>3, <3>4, Zenon DEF StillChecked
  <2> QED
    BY <1>1, <2>2, <2>3, Zenon
<1>7. AnnouncedMessageIsThere'
  BY <1>1, <1>4, Zenon DEF MailboxInv, AnnouncedMessageIsThere
<1> QED
  BY <1>1, <1>3, <1>4, <1>5, <1>6, <1>7 DEF MailboxInv

\* MailboxInv is inductive when one pCPU runs guests.
LEMMA NextMailbox ==
  ASSUME OnePcpu
  PROVE  MailboxInv /\ [Next]_vars => MailboxInv'
PROOF
<1> SUFFICES ASSUME MailboxInv, [Next]_vars PROVE MailboxInv'
  OBVIOUS
<1>1. CASE UNCHANGED vars
  BY <1>1, SMTT(20) DEF vars, MailboxInv, TypeOK, AnnouncedMessageIsThere, StillChecked, Box
<1>2. CASE Next
  BY <1>2, StartKeeps, CommitKeeps, WriteKeeps, Zenon DEF Next
<1> QED
  BY <1>1, <1>2

\* In the single-pCPU builds MSG_WAIT announces only messages that are there, and every
\* call acts on mailboxes as it found them.
THEOREM MailboxInvariance == OnePcpu /\ Spec => []MailboxInv
PROOF
<1> SUFFICES ASSUME OnePcpu PROVE Spec => []MailboxInv
  OBVIOUS
<1>1. MailboxInv /\ [Next]_vars => MailboxInv'
  BY NextMailbox
<1> QED
  BY <1>1, InitMailbox, PTL DEF Spec

\* In the single-pCPU builds no RX buffer is written while its VM owns it.
THEOREM OwnedRxIsStableTheorem == OnePcpu /\ Spec => OwnedRxIsStable
PROOF
<1> SUFFICES ASSUME OnePcpu PROVE Spec => OwnedRxIsStable
  OBVIOUS
<1>1. MailboxInv /\ [Next]_vars =>
        \A v \in VMs : mbox[v].mapped /\ ~mbox[v].rx_held_by_proxy => rx'[v] = rx[v]
  <2> SUFFICES ASSUME MailboxInv, [Next]_vars, NEW v \in VMs, ~mbox[v].rx_held_by_proxy
               PROVE  rx'[v] = rx[v]
    OBVIOUS
  <2>1. CASE rx' = rx
    BY <2>1
  <2>2. CASE \E c \in CPUs : partition_info_get_write(c) \/ msg_send2_copy(c)
    BY <2>2, WriteKeeps
  <2>3. ASSUME NEW c \in CPUs,
               \/ \E ok \in BOOLEAN : rxtx_map(c, ok)
               \/ \E s \in VMs, r \in VMs \cup {NoVM} : msg_send2(c, s, r)
               \/ rxtx_unmap(c) \/ rx_release(c) \/ partition_info_get(c) \/ msg_wait(c)
        PROVE  rx' = rx
    BY <2>3, Zenon DEF rxtx_map, msg_send2, rxtx_unmap, rx_release, partition_info_get, msg_wait, Fail, Proceed
  <2>4. ASSUME NEW c \in CPUs,
               \/ rxtx_map_commit(c) \/ rxtx_unmap_commit(c) \/ rx_release_commit(c)
               \/ partition_info_get_commit(c) \/ msg_send2_commit(c)
        PROVE  rx' = rx
    BY <2>4 DEF rxtx_map_commit, rxtx_unmap_commit, rx_release_commit, partition_info_get_commit, msg_send2_commit
  <2> QED
    BY <2>1, <2>2, <2>3, <2>4, Zenon DEF Next, vars
<1> QED
  BY <1>1, MailboxInvariance, PTL DEF Spec, OwnedRxIsStable

-----------------------------------------------------------------------------
(* Notifications.                                                          *)

Binding == {NoBind} \cup [active : {TRUE}, sender : Senders, bitmap : (SUBSET Ids) \ {{}}]

\* No endpoint has the index of an ID that endpoint_index does not map.
LEMMA UnknownIsNone == Unknown \notin Endpoints
BY NotificationsAssumption DEF Unknown, Endpoints

\* The fields of a binding.
LEMMA BindFields ==
  ASSUME NEW sender \in Senders, NEW bitmap \in (SUBSET Ids) \ {{}}
  PROVE  /\ Bind(sender, bitmap) \in Binding
         /\ Bind(sender, bitmap).active /\ Bind(sender, bitmap).bitmap = bitmap
BY DEF Bind, Binding

\* Cutting a binding back yields a binding of fewer IDs, or none.
LEMMA CutBackShrinks ==
  ASSUME NEW b \in Binding, b.active, NEW bitmap \in SUBSET Ids
  PROVE  /\ CutBack(b, bitmap) \in Binding
         /\ CutBack(b, bitmap).active => CutBack(b, bitmap).bitmap \subseteq b.bitmap
<1>1. b.sender \in Senders /\ b.bitmap \in SUBSET Ids
  <2>1. b # NoBind
    BY DEF NoBind
  <2> QED
    BY <2>1, Zenon DEF Binding
<1>2. CASE b.bitmap \subseteq bitmap
  BY <1>2 DEF CutBack, NoBind, Binding
<1>3. CASE ~(b.bitmap \subseteq bitmap)
  <2>1. b.bitmap \ bitmap \in (SUBSET Ids) \ {{}}
    BY <1>1, <1>3
  <2> QED
    BY <1>1, <1>3, <2>1, BindFields DEF CutBack
<1> QED
  BY <1>2, <1>3

\* bind and unbind change one slot of an enabled endpoint.  If what is put there is disjoint
\* from the other bindings, the invariant holds again.
LEMMA OneSlot ==
  ASSUME NotifInv, NEW e \in Endpoints, NEW s \in Slots, NEW b \in Binding,
         enabled[e],
         binds' = [binds EXCEPT ![e][s] = b], UNCHANGED <<enabled, pending>>,
         b.active => \A t \in Slots \ {s} :
           binds[e][t].active => binds[e][t].bitmap \cap b.bitmap = {}
  PROVE  NotifInv'
<1>1. binds \in [Endpoints -> [Slots -> Binding]]
  BY Zenon DEF NotifInv, NotifTypeOK, Binding
<1>2. binds' \in [Endpoints -> [Slots -> Binding]]
  BY <1>1
<1>3. \A f \in Endpoints, t \in Slots :
        binds'[f][t] = IF f = e /\ t = s THEN b ELSE binds[f][t]
  BY <1>1
<1>4. NotifTypeOK'
  BY <1>2, Zenon DEF NotifInv, NotifTypeOK, Binding
<1>5. BindsDisjoint'
  <2> SUFFICES ASSUME NEW f \in Endpoints, NEW t \in Slots, NEW u \in Slots, t # u,
                      binds'[f][t].active, binds'[f][u].active
               PROVE  binds'[f][t].bitmap \cap binds'[f][u].bitmap = {}
    BY DEF BindsDisjoint
  <2>1. CASE f # e
    BY <1>3, <2>1 DEF NotifInv, BindsDisjoint
  <2>2. CASE f = e /\ t # s /\ u # s
    BY <1>3, <2>2 DEF NotifInv, BindsDisjoint
  <2>3. CASE f = e /\ t = s
    <3>1. binds'[f][t] = b /\ binds'[f][u] = binds[e][u]
      BY <1>3, <2>3
    <3> QED
      BY <2>3, <3>1
  <2>4. CASE f = e /\ u = s
    <3>1. binds'[f][u] = b /\ binds'[f][t] = binds[e][t]
      BY <1>3, <2>4
    <3> QED
      BY <2>4, <3>1
  <2> QED
    BY <2>1, <2>2, <2>3, <2>4
<1>6. DisabledIsClean'
  BY <1>3 DEF NotifInv, DisabledIsClean
<1> QED
  BY <1>4, <1>5, <1>6 DEF NotifInv

\* Nothing is enabled, bound or pending at the start.
LEMMA InitNotif == NotifInit => NotifInv
BY DEF NotifInit, NotifInv, NotifTypeOK, BindsDisjoint, DisabledIsClean, NoBind

\* A refused call changes nothing.
LEMMA RefusedStep == ASSUME NotifInv, Refused PROVE NotifInv'
BY Zenon DEF NotifInv, NotifTypeOK, BindsDisjoint, DisabledIsClean, Refused, notifVars

\* create: DisabledIsClean becomes vacuous for the endpoint.
LEMMA CreateStep ==
  ASSUME NotifInv, NEW e \in Endpoints, bitmap_create(e)
  PROVE  NotifInv'
<1>1. CASE Refused
  BY <1>1, RefusedStep
<1>2. CASE enabled' = [enabled EXCEPT ![e] = TRUE] /\ UNCHANGED <<pending, binds>>
  BY <1>2, Zenon DEF NotifInv, NotifTypeOK, BindsDisjoint, DisabledIsClean
<1> QED
  BY <1>1, <1>2 DEF bitmap_create

\* destroy: the pending bits and all bindings of the endpoint go with it.
LEMMA DestroyStep ==
  ASSUME NotifInv, NEW e \in Endpoints, bitmap_destroy(e)
  PROVE  NotifInv'
<1>1. CASE Refused
  BY <1>1, RefusedStep
<1>2. CASE /\ enabled' = [enabled EXCEPT ![e] = FALSE]
           /\ pending' = [pending EXCEPT ![e] = {}]
           /\ binds' = [binds EXCEPT ![e] = [s \in Slots |-> NoBind]]
  <2>1. NotifTypeOK'
    BY <1>2, Zenon DEF NotifInv, NotifTypeOK
  <2>2. \A f \in Endpoints : binds'[f] = IF f = e THEN [s \in Slots |-> NoBind] ELSE binds[f]
    BY <1>2 DEF NotifInv, NotifTypeOK
  <2>3. \A s \in Slots : ~binds'[e][s].active
    BY <2>2 DEF NoBind
  <2>4. BindsDisjoint' /\ DisabledIsClean'
    BY <1>2, <2>2, <2>3 DEF NotifInv, NotifTypeOK, BindsDisjoint, DisabledIsClean
  <2> QED
    BY <2>1, <2>4 DEF NotifInv
<1> QED
  BY <1>1, <1>2 DEF bitmap_destroy

\* bind: the free slot gets IDs that no other slot of the endpoint has.
LEMMA BindStep ==
  ASSUME NotifInv, NEW e \in Endpoints, NEW sender \in Senders, NEW bitmap \in SUBSET Ids,
         bind(sender, e, bitmap)
  PROVE  NotifInv'
<1>1. CASE Refused
  BY <1>1, RefusedStep
<1>2. CASE ~Refused
  <2>1. /\ bitmap # {} /\ enabled[e]
        /\ \A t \in Slots : ~Overlaps(e, t, bitmap)
    BY <1>2 DEF bind
  <2>2. PICK s \in Slots : /\ binds' = [binds EXCEPT ![e][s] = Bind(sender, bitmap)]
                           /\ UNCHANGED <<enabled, pending>>
    BY <1>2 DEF bind
  <2>3. Bind(sender, bitmap) \in Binding /\ Bind(sender, bitmap).bitmap = bitmap
    BY <2>1, BindFields
  <2>4. \A t \in Slots : binds[e][t].active => binds[e][t].bitmap \cap bitmap = {}
    BY <2>1 DEF Overlaps
  <2> DEFINE b == Bind(sender, bitmap)
  <2>5. /\ b \in Binding /\ binds' = [binds EXCEPT ![e][s] = b]
        /\ b.active => \A t \in Slots \ {s} :
             binds[e][t].active => binds[e][t].bitmap \cap b.bitmap = {}
    BY <2>2, <2>3, <2>4
  <2> HIDE DEF b
  <2> QED
    BY <2>1, <2>2, <2>5, OneSlot, Zenon
<1> QED
  BY <1>1, <1>2

\* unbind: one binding loses IDs.  Only an enabled endpoint has bindings.
LEMMA UnbindStep ==
  ASSUME NotifInv, NEW e \in Endpoints, NEW sender \in Senders, NEW bitmap \in SUBSET Ids,
         unbind(sender, e, bitmap)
  PROVE  NotifInv'
<1>1. CASE Refused
  BY <1>1, RefusedStep
<1>2. CASE ~Refused
  <2>1. PICK s \in Slots : /\ UnbindMatches(sender, e, bitmap, s)
                           /\ binds' = [binds EXCEPT ![e][s] = CutBack(@, bitmap)]
                           /\ UNCHANGED <<enabled, pending>>
    BY <1>2 DEF unbind
  <2> DEFINE b == CutBack(binds[e][s], bitmap)
  <2>2. binds[e][s] \in Binding /\ binds[e][s].active /\ enabled[e]
    <3>1. binds \in [Endpoints -> [Slots -> Binding]] /\ enabled \in [Endpoints -> BOOLEAN]
      BY Zenon DEF NotifInv, NotifTypeOK, Binding
    <3>2. binds[e][s].active
      BY <2>1 DEF UnbindMatches
    <3>3. enabled[e]
      BY <3>1, <3>2 DEF NotifInv, DisabledIsClean
    <3> QED
      BY <3>1, <3>2, <3>3
  <2>3. b \in Binding /\ (b.active => b.bitmap \subseteq binds[e][s].bitmap)
    BY <2>2, CutBackShrinks
  <2>4. binds' = [binds EXCEPT ![e][s] = b]
    BY <2>1 DEF NotifInv, NotifTypeOK
  <2> HIDE DEF b
  <2>5. b.active => \A t \in Slots \ {s} :
          binds[e][t].active => binds[e][t].bitmap \cap b.bitmap = {}
    BY <2>2, <2>3 DEF NotifInv, BindsDisjoint
  <2> QED
    BY <2>1, <2>2, <2>3, <2>4, <2>5, OneSlot, Zenon
<1> QED
  BY <1>1, <1>2

\* set and get change the pending bits of an enabled endpoint.
LEMMA PendingStep ==
  ASSUME NotifInv, NEW e \in Endpoints, NEW bits \in SUBSET Ids, enabled[e],
         pending' = [pending EXCEPT ![e] = bits], UNCHANGED <<enabled, binds>>
  PROVE  NotifInv'
BY Zenon DEF NotifInv, NotifTypeOK, BindsDisjoint, DisabledIsClean

\* Every call preserves the invariant.
LEMMA NextNotif == NotifInv /\ [NotifNext]_notifVars => NotifInv'
<1> SUFFICES ASSUME NotifInv, [NotifNext]_notifVars PROVE NotifInv'
  OBVIOUS
<1>1. CASE UNCHANGED notifVars
  BY <1>1, RefusedStep DEF Refused
<1>2. CASE NotifNext
  <2>1. PICK e \in Endpoints \cup {Unknown} :
          \/ bitmap_create(e) \/ bitmap_destroy(e) \/ get(e)
          \/ \E sender \in Senders, bitmap \in SUBSET Ids :
               bind(sender, e, bitmap) \/ unbind(sender, e, bitmap) \/ set(sender, e, bitmap)
    BY <1>2 DEF NotifNext
  <2>2. CASE e = Unknown
    BY <2>1, <2>2, RefusedStep DEF bitmap_create, bitmap_destroy, get, bind, unbind, set
  <2>3. CASE e \in Endpoints
    <3>1. ASSUME get(e) PROVE NotifInv'
      <4>1. Refused \/ (enabled[e] /\ pending' = [pending EXCEPT ![e] = {}]
                          /\ UNCHANGED <<enabled, binds>>)
        BY <2>3, <3>1 DEF get
      <4> QED
        BY <2>3, <4>1, RefusedStep, PendingStep
    <3>2. ASSUME NEW sender \in Senders, NEW bitmap \in SUBSET Ids, set(sender, e, bitmap)
          PROVE  NotifInv'
      <4>1. Refused \/ (enabled[e] /\ pending' = [pending EXCEPT ![e] = pending[e] \cup bitmap]
                          /\ UNCHANGED <<enabled, binds>>)
        BY <2>3, <3>2 DEF set
      <4>2. pending[e] \cup bitmap \in SUBSET Ids
        BY <2>3 DEF NotifInv, NotifTypeOK
      <4> QED
        BY <2>3, <4>1, <4>2, RefusedStep, PendingStep
    <3> QED
      BY <2>1, <2>3, <3>1, <3>2, CreateStep, DestroyStep, BindStep, UnbindStep
  <2> QED
    BY <2>2, <2>3
<1> QED
  BY <1>1, <1>2

\* Notification state keeps its types, no ID of a receiver is bound twice, and a receiver
\* without a bitmap has neither bindings nor pending bits.
THEOREM NotificationSafety == NotifSpec => []NotifInv
BY InitNotif, NextNotif, PTL DEF NotifSpec

-----------------------------------------------------------------------------
(* INFO_GET.                                                               *)

\* How many members of S come before n.
Before(n, S) == Cardinality({m \in S : m < n})

\* In a finite set of integers, each of the numbers below its size counts the predecessors
\* of one member: the counts differ, so counting is an injection into a set of the same
\* size, hence onto it.
LEMMA Counts ==
  ASSUME NEW S \in SUBSET Int, IsFiniteSet(S)
  PROVE  /\ Cardinality(S) \in Nat
         /\ \A n \in S : Before(n, S) \in 0 .. Cardinality(S) - 1
         /\ \A m, n \in S : Before(m, S) = Before(n, S) => m = n
         /\ \A k \in 0 .. Cardinality(S) - 1 : \E n \in S : Before(n, S) = k
<1> DEFINE Below(n) == {m \in S : m < n}
           count == [n \in S |-> Before(n, S)]
<1>1. Cardinality(S) \in Nat
  BY FS_CardinalityType
<1>2. \A n \in S : IsFiniteSet(Below(n)) /\ Cardinality(Below(n)) \in Nat
  BY FS_Subset, FS_CardinalityType
<1>3. \A n \in S : Before(n, S) \in 0 .. Cardinality(S) - 1
  <2> SUFFICES ASSUME NEW n \in S PROVE Cardinality(Below(n)) < Cardinality(S)
    BY <1>1, <1>2 DEF Before
  <2>1. Below(n) \in SUBSET S /\ n \notin Below(n)
    OBVIOUS
  <2> HIDE DEF Below
  <2>2. QED
    BY <1>1, <1>2, <2>1, FS_Subset
<1>4. ASSUME NEW m \in S, NEW n \in S, m < n
      PROVE  Before(m, S) # Before(n, S)
  <2>1. Below(m) \in SUBSET Below(n) /\ m \in Below(n) /\ m \notin Below(m)
    <3>1. ~(m < m) /\ \A k \in S : k < m => k < n
      BY <1>4
    <3>2. QED
      BY <1>4, <3>1, Zenon
  <2> HIDE DEF Below
  <2>2. Cardinality(Below(n)) # Cardinality(Below(m))
    BY <1>2, <2>1, FS_Subset
  <2>3. QED
    BY <2>2 DEF Before, Below
<1>5. \A m, n \in S : Before(m, S) = Before(n, S) => m = n
  BY <1>4
<1>6. \A k \in 0 .. Cardinality(S) - 1 : \E n \in S : Before(n, S) = k
  <2>1. count \in Injection(S, 0 .. Cardinality(S) - 1)
    BY <1>3, <1>5 DEF Injection, IsInjective
  <2>2. /\ IsFiniteSet(0 .. Cardinality(S) - 1)
        /\ Cardinality(0 .. Cardinality(S) - 1) = Cardinality(S)
    BY <1>1, FS_Interval
  <2> HIDE DEF count
  <2>3. count \in Surjection(S, 0 .. Cardinality(S) - 1)
    BY <2>1, <2>2, FS_Injection
  <2>4. QED
    BY <2>3, Zenon DEF Surjection, count
<1> QED
  BY <1>1, <1>3, <1>5, <1>6

\* So the members with fewer than k predecessors are k, or all if there are not so many.
LEMMA FirstOnes ==
  ASSUME NEW S \in SUBSET Int, IsFiniteSet(S), NEW k \in Nat
  PROVE  Cardinality({n \in S : Before(n, S) < k}) = IF Cardinality(S) <= k THEN Cardinality(S) ELSE k
<1> DEFINE c == IF Cardinality(S) <= k THEN Cardinality(S) ELSE k
           T == {n \in S : Before(n, S) < k}
           count == [n \in T |-> Before(n, S)]
<1>1. c \in Nat /\ c <= k /\ c <= Cardinality(S) /\ Cardinality(S) \in Nat
  BY FS_CardinalityType
<1>2. \A n \in T : Before(n, S) \in 0 .. c - 1
  BY <1>1, Counts
<1>3. count \in Injection(T, 0 .. c - 1)
  BY <1>2, Counts, Zenon DEF Injection, IsInjective
<1>4. \A i \in 0 .. c - 1 : \E n \in T : count[n] = i
  <2> SUFFICES ASSUME NEW i \in 0 .. c - 1 PROVE \E n \in T : count[n] = i
    OBVIOUS
  <2>1. i \in 0 .. Cardinality(S) - 1 /\ i < k
    BY <1>1
  <2>2. PICK n \in S : Before(n, S) = i
    BY <2>1, Counts
  <2> QED
    BY <2>1, <2>2
<1>5. count \in Surjection(T, 0 .. c - 1)
  BY <1>3, <1>4 DEF Surjection, Injection
<1> HIDE DEF c, T, count
<1>6. IsFiniteSet(0 .. c - 1) /\ Cardinality(0 .. c - 1) = c
  <2>1. 0 \in Int /\ c - 1 \in Int /\ c = IF 0 > c - 1 THEN 0 ELSE (c - 1) - 0 + 1
    BY <1>1
  <2> QED
    BY <2>1, FS_Interval
<1>7. Cardinality(T) = c
  BY <1>3, <1>5, <1>6, FS_Injection
<1> QED
  BY <1>7 DEF T, c

\* INFO_GET lists endpoints with something pending only, and as many as there are or fit,
\* whatever the state of the bitmaps.
THEOREM InfoGetTheorem == NotifSpec => []InfoGetLists
<1>1. InfoGetLists
  <2> DEFINE all == {e \in Endpoints : HasPending(e)}
  <2>1. all \in SUBSET Int /\ IsFiniteSet(all)
    <3>1. IsFiniteSet(Endpoints) /\ Endpoints \in SUBSET Int
      BY NotificationsAssumption, FS_Interval DEF Endpoints
    <3> QED
      BY <3>1, FS_Subset, Zenon
  <2>2. \A e \in Endpoints : {f \in Endpoints : f < e /\ HasPending(f)} = {f \in all : f < e}
    OBVIOUS
  <2>3. info_get = {e \in all : Before(e, all) < MaxListed}
    BY <2>2 DEF info_get, Before
  <2> HIDE DEF all
  <2>4. Cardinality(info_get) = IF Cardinality(all) <= MaxListed THEN Cardinality(all) ELSE MaxListed
    BY <2>1, <2>3, FirstOnes, NotificationsAssumption
  <2> QED
    BY <2>3, <2>4 DEF InfoGetLists, all
<1> QED
  BY <1>1, PTL
=============================================================================
