-------------------------------- MODULE Spmc --------------------------------
(***************************************************************************)
(* The Secure Partition Manager Core (feature sel2): the event loop and    *)
(* the dispatch of spmc_handler.rs, the SP contexts of sp_context.rs, the  *)
(* boot of an SP in rust_main_sel2 and the IRQ path of exception.rs.       *)
(*                                                                         *)
(* One CPU runs it all.  It waits in an SMC for the next request of the    *)
(* Normal World, or it is inside enter_guest(), where an SP executes until *)
(* it issues an SMC or a physical IRQ is taken.  Neither exit says which   *)
(* of the two it was: the loop reads SP_IRQ_PREEMPTED, the boot reads x0.  *)
(***************************************************************************)
EXTENDS Integers

CONSTANTS
  SPs,       \* the SPs that are booted; rust_main_sel2 boots one
  OtherIds,  \* partition IDs of no SP
  Clients,   \* Normal World endpoints that send requests
  SpWork,    \* steps the program of an SP takes to serve a request
  BootIrqs   \* a physical IRQ may be taken while an SP boots

NoSP == "NoSP"

ASSUME SpmcAssumption ==
  /\ SPs \cap OtherIds = {} /\ NoSP \notin SPs
  /\ SpWork \in Nat
  /\ BootIrqs \in BOOLEAN

VARIABLES
  loop,       \* where the CPU is: "boot", "wait" (SMC to SPMD) or "sp" (enter_guest)
  cur,        \* the SP that executes, NoSP if none does
  state,      \* SpState of each SP; "panic" after an invalid transition
  store,      \* SP_STORE: the registered SPs
  x,          \* x[s]: the message in x0-x7 of s
  pc,         \* pc[s]: where the program of s is
  work,       \* work[s]: steps it still needs for the request it serves
  preempted,  \* SP_IRQ_PREEMPTED
  rxtx,       \* NWD_RXTX.mapped
  answer,     \* the last response sent to SPMD
  accepted,   \* accepted[s]: the last request s was entered with (history)
  irq         \* an IRQ was taken since the last SP entry (history)

spmcVars == <<loop, cur, state, store, x, pc, work, preempted, rxtx, answer, accepted, irq>>
spVars == <<loop, cur, state, store, x, pc, work, preempted, accepted, irq>>

SpState == {"Reset", "Idle", "Running", "Blocked", "Preempted"}

\* FFA_MSG_SEND_DIRECT_REQ/RESP of width 32 or 64, and messages without a payload.
Requests == [from : Clients, width : {32, 64}]
Req(r) == [kind |-> "DIRECT_REQ", req |-> r]
Resp(r) == [kind |-> "DIRECT_RESP", req |-> r]
Plain(kind) == [kind |-> kind]
Messages == {Req(r) : r \in Requests} \cup {Resp(r) : r \in Requests}
            \cup {Plain(k) : k \in {"NONE", "MSG_WAIT", "INTERRUPT", "SUCCESS", "BUSY", "DENIED",
                                    "INVALID_PARAMETERS", "NOT_SUPPORTED"}}

ValidTransition(old, new) ==
  <<old, new>> \in {<<"Reset", "Idle">>, <<"Idle", "Running">>, <<"Running", "Idle">>,
                    <<"Running", "Blocked">>, <<"Blocked", "Running">>,
                    <<"Running", "Preempted">>, <<"Preempted", "Running">>}

\* Every caller unwraps the result, so an invalid transition stops the SPMC.
transition_to(s, new) ==
  state' = [state EXCEPT ![s] = IF ValidTransition(@, new) THEN new ELSE "panic"]

-----------------------------------------------------------------------------
(* Entering and leaving an SP.                                             *)

\* dispatch_to_sp and resume_preempted_sp from the transition to the ERET.
enter_sp_mutant(s) ==
  /\ transition_to(s, "Running")
  /\ loop' = "sp" /\ cur' = s /\ irq' = FALSE
  /\ UNCHANGED <<store, pc, preempted, rxtx, answer>>

enter_sp(s) ==
  /\ transition_to(s, "Running")
  /\ preempted' = FALSE
  /\ loop' = "sp" /\ cur' = s /\ irq' = FALSE
  /\ UNCHANGED <<store, pc, rxtx, answer>>

\* The rest of both, once enter_guest() has returned: flag is what the swap of
\* SP_IRQ_PREEMPTED reads, regs what get_args() reads.
leave_sp_mutant(regs, flag) ==
  /\ preempted' = FALSE
  /\ IF flag THEN transition_to(cur, "Preempted") ELSE UNCHANGED state
  /\ answer' = IF flag THEN Plain("INTERRUPT") ELSE regs
  /\ loop' = "wait" /\ cur' = NoSP
  /\ UNCHANGED store

leave_sp(regs, flag) ==
  /\ preempted' = FALSE
  /\ transition_to(cur, IF flag THEN "Preempted" ELSE "Idle")
  /\ answer' = IF flag THEN Plain("INTERRUPT") ELSE regs
  /\ loop' = "wait" /\ cur' = NoSP
  /\ UNCHANGED store

\* The boot, once enter_guest() has returned: the SP is Idle if x0 is FFA_MSG_WAIT and
\* stays in Reset otherwise, and is registered in both cases.
leave_boot(regs, flag) ==
  /\ preempted' = flag
  /\ IF regs.kind = "MSG_WAIT" THEN transition_to(cur, "Idle") ELSE UNCHANGED state
  /\ store' = store \cup {cur}
  /\ cur' = NoSP
  /\ UNCHANGED <<loop, answer>>

\* enter_guest() returns.
exit_guest(regs, flag) ==
  /\ IF loop = "boot" THEN leave_boot(regs, flag) ELSE leave_sp(regs, flag)
  /\ UNCHANGED <<x, work, rxtx, accepted>>

-----------------------------------------------------------------------------
(* Boot.                                                                   *)

boot_sp(s) ==
  /\ loop = "boot" /\ cur = NoSP /\ s \notin store
  /\ cur' = s
  /\ UNCHANGED <<loop, state, store, x, pc, work, preempted, rxtx, answer, accepted, irq>>

signal_spmc_ready ==
  /\ loop = "boot" /\ cur = NoSP /\ store = SPs
  /\ loop' = "wait"
  /\ answer' = Plain("MSG_WAIT")
  /\ UNCHANGED <<cur, state, store, x, pc, work, preempted, rxtx, accepted, irq>>

-----------------------------------------------------------------------------
(* Requests of the Normal World.  One that enters no SP is answered at once. *)

Respond(msg) == answer' = msg /\ UNCHANGED spVars
Reply(kind) == Respond(Plain(kind)) /\ UNCHANGED rxtx

\* The guard of dispatch_to_sp.
AcceptsRequest_mutant(s) == state[s] \in {"Idle", "Preempted"}
AcceptsRequest(s) == state[s] = "Idle"

\* A mutant that stores the arguments before it looks at the state.
dispatch_to_sp_mutant(r, s) ==
  /\ x' = [x EXCEPT ![s] = Req(r)]
  /\ IF AcceptsRequest(s)
     THEN accepted' = [accepted EXCEPT ![s] = r] /\ UNCHANGED work /\ enter_sp(s)
     ELSE /\ answer' = Plain("BUSY")
          /\ UNCHANGED <<loop, cur, state, store, pc, work, preempted, accepted, irq, rxtx>>

dispatch_to_sp(r, s) ==
  IF AcceptsRequest(s)
  THEN /\ x' = [x EXCEPT ![s] = Req(r)]
       /\ accepted' = [accepted EXCEPT ![s] = r]
       /\ UNCHANGED work
       /\ enter_sp(s)
  ELSE Reply("BUSY")

\* FFA_MSG_SEND_DIRECT_REQ: to a registered SP, else echoed by dispatch_ffa.
direct_req(r, s) ==
  /\ loop = "wait"
  /\ IF s \in store THEN dispatch_to_sp(r, s) ELSE Respond(Resp(r)) /\ UNCHANGED rxtx

\* The guard of resume_preempted_sp.
Resumable_mutant(s) == FALSE
Resumable(s) == state[s] = "Preempted"

\* FFA_RUN.
resume_preempted_sp(s) ==
  /\ loop = "wait"
  /\ IF s \notin store THEN Reply("INVALID_PARAMETERS")
     ELSE IF ~Resumable(s) THEN Reply("DENIED")
     ELSE enter_sp(s) /\ UNCHANGED <<x, work, accepted>>

\* FFA_RXTX_MAP; paramsOk: both addresses are aligned and there is a page.
handle_rxtx_map(paramsOk) ==
  /\ loop = "wait"
  /\ IF ~paramsOk THEN Reply("INVALID_PARAMETERS")
     ELSE IF rxtx THEN Reply("DENIED")
     ELSE Respond(Plain("SUCCESS")) /\ rxtx' = TRUE

handle_rxtx_unmap ==
  /\ loop = "wait"
  /\ IF rxtx THEN Respond(Plain("SUCCESS")) /\ rxtx' = FALSE ELSE Reply("DENIED")

handle_rx_release ==
  /\ loop = "wait"
  /\ Reply(IF rxtx THEN "SUCCESS" ELSE "DENIED")

\* FFA_VERSION, ID_GET, SPM_ID_GET, FEATURES, PARTITION_INFO_GET, the framework messages of
\* SPMD and unknown requests: an answer and no state.
dispatch_ffa(kind) == loop = "wait" /\ Reply(kind)

-----------------------------------------------------------------------------
(* The program of an SP (tfa/sp_hello/start.S).  At "boot" it prints, at   *)
(* "boot_smc" x0 holds FFA_MSG_WAIT and the SMC is next, at "loop" it      *)
(* looks at the message it was entered with, at "work" it serves it, at    *)
(* "smc" the answer is in x0-x7 and the SMC is next.                       *)

SpInstruction(s) ==
  /\ cur = s
  /\ UNCHANGED <<loop, cur, state, store, preempted, rxtx, answer, accepted, irq>>

sp_boot(s) ==
  /\ pc[s] = "boot"
  /\ pc' = [pc EXCEPT ![s] = "boot_smc"]
  /\ x' = [x EXCEPT ![s] = Plain("MSG_WAIT")]
  /\ UNCHANGED work
  /\ SpInstruction(s)

sp_msg_loop(s) ==
  /\ pc[s] = "loop"
  /\ IF x[s].kind = "DIRECT_REQ" /\ x[s].req.width = 32
     THEN /\ pc' = [pc EXCEPT ![s] = "work"]
          /\ work' = [work EXCEPT ![s] = SpWork]
          /\ UNCHANGED x
     ELSE /\ pc' = [pc EXCEPT ![s] = "smc"]
          /\ x' = [x EXCEPT ![s] = Plain("MSG_WAIT")]
          /\ UNCHANGED work
  /\ SpInstruction(s)

sp_work(s) ==
  /\ pc[s] = "work"
  /\ IF work[s] > 0
     THEN work' = [work EXCEPT ![s] = @ - 1] /\ UNCHANGED <<pc, x>>
     ELSE /\ pc' = [pc EXCEPT ![s] = "smc"]
          /\ x' = [x EXCEPT ![s] = Resp(@.req)]
          /\ UNCHANGED work
  /\ SpInstruction(s)

\* The SMC traps: handle_exception advances the PC and exits.
sp_smc(s) ==
  /\ cur = s /\ pc[s] \in {"boot_smc", "smc"}
  /\ pc' = [pc EXCEPT ![s] = "loop"]
  /\ exit_guest(x[s], preempted)
  /\ UNCHANGED irq

\* A physical IRQ: handle_irq_exception sets SP_IRQ_PREEMPTED and exits.  At boot the GIC
\* is initialised but the preemption timer is not armed.
handle_irq_exception(s) ==
  /\ cur = s
  /\ loop = "boot" => BootIrqs
  /\ irq' = TRUE
  /\ exit_guest(x[s], TRUE)
  /\ UNCHANGED pc

-----------------------------------------------------------------------------

SpmcInit ==
  /\ loop = "boot" /\ cur = NoSP
  /\ state = [s \in SPs |-> "Reset"]
  /\ store = {}
  /\ x = [s \in SPs |-> Plain("NONE")]
  /\ pc = [s \in SPs |-> "boot"]
  /\ work = [s \in SPs |-> 0]
  /\ preempted = FALSE /\ rxtx = FALSE /\ irq = FALSE
  /\ answer = Plain("NONE")
  /\ accepted \in [SPs -> Requests]

SpStep(s) == sp_boot(s) \/ sp_msg_loop(s) \/ sp_work(s) \/ sp_smc(s)

SpmcNext ==
  \/ \E s \in SPs : boot_sp(s)
  \/ signal_spmc_ready
  \/ \E r \in Requests, s \in SPs \cup OtherIds : direct_req(r, s)
  \/ \E s \in SPs \cup OtherIds : resume_preempted_sp(s)
  \/ \E paramsOk \in BOOLEAN : handle_rxtx_map(paramsOk)
  \/ handle_rxtx_unmap
  \/ handle_rx_release
  \/ \E kind \in {"SUCCESS", "NOT_SUPPORTED"} : dispatch_ffa(kind)
  \/ \E s \in SPs : SpStep(s)
  \/ \E s \in SPs : handle_irq_exception(s)

SpmcSpec == SpmcInit /\ [][SpmcNext]_spmcVars

\* The program of an SP that executes gets on: enter_sp arms the preemption timer for
\* 10 ms anew, so IRQs do not always come before its next instruction.  The
\* Normal World calls FFA_RUN again and again for an SP that it was told is preempted.
Fairness ==
  \A s \in SPs :
    /\ SF_spmcVars(SpStep(s))
    /\ SF_spmcVars(state[s] = "Preempted" /\ resume_preempted_sp(s))

SpmcFairSpec == SpmcSpec /\ Fairness

-----------------------------------------------------------------------------
(* Properties.                                                             *)

\* The types of the state.
SpmcTypeOK ==
  /\ loop \in {"boot", "wait", "sp"}
  /\ cur \in SPs \cup {NoSP}
  /\ state \in [SPs -> SpState]
  /\ store \subseteq SPs
  /\ x \in [SPs -> Messages]
  /\ pc \in [SPs -> {"boot", "boot_smc", "loop", "work", "smc"}]
  /\ work \in [SPs -> 0..SpWork]
  /\ preempted \in BOOLEAN /\ rxtx \in BOOLEAN /\ irq \in BOOLEAN
  /\ answer \in Messages
  /\ accepted \in [SPs -> Requests]

\* An SP is Running exactly while dispatch_to_sp or resume_preempted_sp is inside
\* enter_guest() for it: no exit leaves an SP Running, which would be BUSY to every
\* request and DENIED to every FFA_RUN from then on.
OneRunning == \A s \in SPs : state[s] = "Running" <=> loop = "sp" /\ cur = s

\* The answer to a request, and what an SP that was entered with a request is doing: it
\* has the request, or its answer, in x0-x7, wherever it was interrupted.  (An SP whose
\* boot was interrupted before its SMC issues that SMC first.)
Answer(r) == IF r.width = 32 THEN Resp(r) ELSE Plain("MSG_WAIT")
InService(s) ==
  \/ pc[s] = "boot_smc"
  \/ pc[s] = "loop" /\ x[s] = Req(accepted[s])
  \/ pc[s] = "work" /\ x[s] = Req(accepted[s]) /\ accepted[s].width = 32
  \/ pc[s] = "smc" /\ x[s] = Answer(accepted[s])

\* The state of every SP says where its program is and what its registers hold, across
\* every preemption, and the SPMC's flag is clear when an SP is entered.  No transition_to()
\* fails (the types of state), so that no expect() of the dispatch or of the boot panics.
SpmcInv ==
  /\ SpmcTypeOK
  /\ OneRunning
  /\ loop = "wait" => cur = NoSP
  /\ loop = "sp" => cur \in SPs /\ ~preempted /\ ~irq
  /\ \A s \in SPs :
       /\ s \notin store => state[s] = "Reset"
       /\ loop = "boot" => state[s] \in {"Reset", "Idle"} /\ (cur = s => s \notin store)
       /\ state[s] # "Blocked"
       /\ state[s] = "Reset" => \/ pc[s] = "boot" /\ x[s] = Plain("NONE")
                                \/ pc[s] = "boot_smc" /\ x[s] = Plain("MSG_WAIT")
       /\ state[s] = "Idle" => pc[s] \in {"boot_smc", "loop"}
       /\ state[s] \in {"Running", "Preempted"} => InService(s)

\* What a program that had reached its answer gives back is the answer to the request it
\* was entered with, whatever was preempted, resumed, refused or served for another SP
\* in between.
AnswerMatches ==
  [][\A s \in SPs :
       state[s] = "Running" /\ state'[s] = "Idle" /\ pc[s] = "smc" =>
         answer' = Answer(accepted[s])]_spmcVars

\* The SPMC takes an exit for a preemption exactly if an IRQ was taken since it entered the
\* SP: a flag left set by an earlier run or by the boot makes no served request look
\* preempted, and no IRQ is taken for an answer.
PreemptedIffIrq ==
  [][\A s \in SPs :
       state[s] = "Running" /\ state'[s] # "Running" => (state'[s] = "Preempted" <=> irq')]_spmcVars

\* A request that was preempted is not displaced by another: until the SP is Idle again
\* requests for it, from whatever endpoint, are refused.
NotDisplaced ==
  [][\A s \in SPs : state[s] \in {"Running", "Preempted"} => accepted'[s] = accepted[s]]_spmcVars

\* A request an SP was entered with is served in the end, however often it is preempted.
Served ==
  \A s \in SPs : state[s] \in {"Running", "Preempted"} ~> state[s] = "Idle"
=============================================================================
