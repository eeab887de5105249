----------------------------- MODULE FfaMailbox -----------------------------
(***************************************************************************)
(* The RXTX mailboxes of the FF-A proxy: ffa/mailbox.rs and the handlers   *)
(* of ffa/proxy.rs that use them (RXTX_MAP, RXTX_UNMAP, RX_RELEASE,        *)
(* PARTITION_INFO_GET, MSG_SEND2, MSG_WAIT).                               *)
(*                                                                         *)
(* A call runs in steps: it checks, it writes a buffer, it updates the     *)
(* mailbox.  No lock is held.  With OnePcpu a call runs to its end before  *)
(* another starts (the VMs take turns on one CPU and EL2 masks             *)
(* interrupts); without it, calls of different CPUs interleave.            *)
(***************************************************************************)
EXTENDS Integers, FiniteSets

CONSTANTS
  VMs,            \* VMs, named by partition ID
  CPUs,           \* vCPUs that issue calls
  VmOf,           \* VmOf[c]: the VM that vCPU c belongs to
  OnePcpu,        \* TRUE in the single-pCPU builds, FALSE with multi_pcpu
  SpmcResults     \* {} without an SPMC; what forwarding to it can yield

ASSUME MailboxAssumption ==
  /\ VmOf \in [CPUs -> VMs]
  /\ OnePcpu \in BOOLEAN
  /\ SpmcResults \subseteq {"ok", "error", "tooBig", "notRegistered"}

NoVM == 0
NotInCall == [op |-> "none"]

VARIABLES
  mbox,   \* MAILBOXES
  rx,     \* rx[v]: what the RX buffer of v holds; tag flips with every write
  call,   \* call[c]: the call in progress on c
  ret     \* what the last call to end returned

vars == <<mbox, rx, call, ret>>

FfaMailbox_new == [mapped |-> FALSE, rx_held_by_proxy |-> TRUE,
                   msg_pending |-> FALSE, msg_sender_id |-> NoVM]

Box(c) == mbox[VmOf[c]]

MayStart(c) ==
  /\ call[c] = NotInCall
  /\ OnePcpu => \A d \in CPUs : call[d] = NotInCall

Return(c, code) ==
  /\ ret' = code
  /\ call' = [call EXCEPT ![c] = NotInCall]

\* A call that ends in its checks.
Fail(c, code) == Return(c, code) /\ UNCHANGED <<mbox, rx>>

\* The checks have passed: the call goes on to its next step.
Proceed(c, step) ==
  /\ call' = [call EXCEPT ![c] = step]
  /\ UNCHANGED <<mbox, rx, ret>>

WriteRx(v, kind, from) ==
  rx' = [rx EXCEPT ![v] = [kind |-> kind, from |-> from, tag |-> 1 - @.tag]]

-----------------------------------------------------------------------------
(* RXTX_MAP: paramsOk stands for the alignment, size and guest-RAM checks. *)
(* The commit sets rx_held_by_proxy and leaves the message fields alone.   *)

rxtx_map(c, paramsOk) ==
  /\ MayStart(c)
  /\ IF ~paramsOk THEN Fail(c, "INVALID_PARAMETERS")
     ELSE IF Box(c).mapped THEN Fail(c, "DENIED")
     ELSE Proceed(c, [op |-> "map"])

rxtx_map_commit(c) ==
  /\ call[c].op = "map"
  /\ mbox' = [mbox EXCEPT ![VmOf[c]] = [@ EXCEPT !.mapped = TRUE, !.rx_held_by_proxy = TRUE]]
  /\ Return(c, "SUCCESS")
  /\ UNCHANGED rx

(* RXTX_UNMAP and RX_RELEASE.                                              *)

rxtx_unmap(c) ==
  /\ MayStart(c)
  /\ IF ~Box(c).mapped THEN Fail(c, "DENIED") ELSE Proceed(c, [op |-> "unmap"])

rxtx_unmap_commit_mutant(c) ==
  /\ call[c].op = "unmap"
  /\ mbox' = [mbox EXCEPT ![VmOf[c]] = [@ EXCEPT !.mapped = FALSE]]
  /\ Return(c, "SUCCESS")
  /\ UNCHANGED rx

rxtx_unmap_commit(c) ==
  /\ call[c].op = "unmap"
  /\ mbox' = [mbox EXCEPT ![VmOf[c]] = FfaMailbox_new]
  /\ Return(c, "SUCCESS")
  /\ UNCHANGED rx

rx_release(c) ==
  /\ MayStart(c)
  /\ IF ~Box(c).mapped THEN Fail(c, "DENIED") ELSE Proceed(c, [op |-> "release"])

rx_release_commit(c) ==
  /\ call[c].op = "release"
  /\ mbox' = [mbox EXCEPT ![VmOf[c]] = [@ EXCEPT !.rx_held_by_proxy = TRUE,
                                                  !.msg_pending = FALSE]]
  /\ Return(c, "SUCCESS")
  /\ UNCHANGED rx

(* PARTITION_INFO_GET writes the partition list to the RX buffer of the    *)
(* caller, from the stub table or, with an SPMC, from what it answered.    *)

partition_info_get(c) ==
  /\ MayStart(c)
  /\ IF ~Box(c).mapped THEN Fail(c, "DENIED")
     ELSE IF ~Box(c).rx_held_by_proxy THEN Fail(c, "BUSY")
     ELSE \/ /\ SpmcResults = {} \/ "ok" \in SpmcResults
             /\ Proceed(c, [op |-> "info"])
          \/ /\ "notRegistered" \in SpmcResults
             /\ Fail(c, "DENIED")
          \/ /\ "error" \in SpmcResults
             /\ Fail(c, "SPMC_ERROR")
          \/ /\ "tooBig" \in SpmcResults
             /\ Fail(c, "NO_MEMORY")

partition_info_get_write(c) ==
  /\ call[c].op = "info"
  /\ WriteRx(VmOf[c], "info", NoVM)
  /\ call' = [call EXCEPT ![c] = [op |-> "infoWritten"]]
  /\ UNCHANGED <<mbox, ret>>

partition_info_get_commit(c) ==
  /\ call[c].op = "infoWritten"
  /\ mbox' = [mbox EXCEPT ![VmOf[c]] = [@ EXCEPT !.rx_held_by_proxy = FALSE]]
  /\ Return(c, "SUCCESS")
  /\ UNCHANGED rx

(* MSG_SEND2.  The header in the TX buffer of the caller names a sender    *)
(* and a receiver; receivers that are not VMs are NoVM.                    *)

msg_send2_mutant(c, sender, receiver) ==
  /\ MayStart(c)
  /\ IF ~Box(c).mapped THEN Fail(c, "DENIED")
     ELSE IF sender # VmOf[c] \/ receiver = NoVM THEN Fail(c, "INVALID_PARAMETERS")
     ELSE IF ~mbox[receiver].mapped THEN Fail(c, "DENIED")
     ELSE IF mbox[receiver].msg_pending THEN Fail(c, "BUSY")
     ELSE Proceed(c, [op |-> "send", to |-> receiver])

msg_send2(c, sender, receiver) ==
  /\ MayStart(c)
  /\ IF ~Box(c).mapped THEN Fail(c, "DENIED")
     ELSE IF sender # VmOf[c] THEN Fail(c, "INVALID_PARAMETERS")
     ELSE IF receiver = NoVM THEN Fail(c, "INVALID_PARAMETERS")
     ELSE IF ~mbox[receiver].mapped THEN Fail(c, "DENIED")
     ELSE IF ~mbox[receiver].rx_held_by_proxy THEN Fail(c, "BUSY")
     ELSE IF mbox[receiver].msg_pending THEN Fail(c, "BUSY")
     ELSE Proceed(c, [op |-> "send", to |-> receiver])

msg_send2_copy(c) ==
  /\ call[c].op = "send"
  /\ WriteRx(call[c].to, "msg", VmOf[c])
  /\ call' = [call EXCEPT ![c] = [op |-> "sent", to |-> call[c].to]]
  /\ UNCHANGED <<mbox, ret>>

msg_send2_commit(c) ==
  /\ call[c].op = "sent"
  /\ mbox' = [mbox EXCEPT ![call[c].to] =
                [@ EXCEPT !.msg_pending = TRUE, !.msg_sender_id = VmOf[c],
                          !.rx_held_by_proxy = FALSE]]
  /\ Return(c, "SUCCESS")
  /\ UNCHANGED rx

\* MSG_WAIT only reads; it reports the sender of the pending message.
msg_wait(c) ==
  /\ MayStart(c)
  /\ IF ~Box(c).mapped THEN Fail(c, "DENIED")
     ELSE IF Box(c).msg_pending THEN Fail(c, "SUCCESS")
     ELSE Fail(c, "NO_DATA")

-----------------------------------------------------------------------------

Init ==
  /\ mbox = [v \in VMs |-> FfaMailbox_new]
  /\ rx = [v \in VMs |-> [kind |-> "none", from |-> NoVM, tag |-> 0]]
  /\ call = [c \in CPUs |-> NotInCall]
  /\ ret = "NONE"

Next ==
  \E c \in CPUs :
    \/ \E ok \in BOOLEAN : rxtx_map(c, ok)
    \/ rxtx_map_commit(c)
    \/ rxtx_unmap(c) \/ rxtx_unmap_commit(c)
    \/ rx_release(c) \/ rx_release_commit(c)
    \/ partition_info_get(c) \/ partition_info_get_write(c) \/ partition_info_get_commit(c)
    \/ \E s \in VMs, r \in VMs \cup {NoVM} : msg_send2(c, s, r)
    \/ msg_send2_copy(c) \/ msg_send2_commit(c)
    \/ msg_wait(c)

Spec == Init /\ [][Next]_vars

-----------------------------------------------------------------------------
(* Properties.                                                             *)

\* The types of the state.
TypeOK ==
  /\ mbox \in [VMs -> [mapped : BOOLEAN, rx_held_by_proxy : BOOLEAN,
                       msg_pending : BOOLEAN, msg_sender_id : VMs \cup {NoVM}]]
  /\ rx \in [VMs -> [kind : {"none", "info", "msg"}, from : VMs \cup {NoVM}, tag : 0..1]]
  /\ call \in [CPUs -> {NotInCall}
                 \cup [op : {"map", "unmap", "release", "info", "infoWritten"}]
                 \cup [op : {"send", "sent"}, to : VMs]]
  /\ ret \in {"NONE", "SUCCESS", "DENIED", "BUSY", "NO_DATA", "NO_MEMORY",
              "INVALID_PARAMETERS", "SPMC_ERROR"}

\* A message MSG_WAIT announces is the one in the RX buffer: the buffer belongs to the
\* VM, holds a message, and the message is from the announced sender, whatever calls
\* came before.
AnnouncedMessageIsThere ==
  \A v \in VMs : mbox[v].msg_pending =>
    /\ mbox[v].mapped /\ ~mbox[v].rx_held_by_proxy
    /\ rx[v].kind = "msg" /\ rx[v].from = mbox[v].msg_sender_id

\* What a call in progress has checked is still so when it acts on it.
StillChecked(c) ==
  LET k == call[c] IN
  /\ k.op = "map" => ~Box(c).mapped
  /\ k.op \in {"info", "infoWritten"} => Box(c).mapped /\ Box(c).rx_held_by_proxy
  /\ k.op \in {"send", "sent"} => mbox[k.to].mapped /\ mbox[k.to].rx_held_by_proxy
  /\ k.op = "sent" => rx[k.to].kind = "msg" /\ rx[k.to].from = VmOf[c]

\* The mailboxes in the single-pCPU builds: an announced message is there, also in the
\* middle of a call, and no call finds that what it checked has changed.  A mailbox that
\* is mapped anew must not announce what its predecessor was sent.
MailboxInv ==
  /\ TypeOK
  /\ \A c, d \in CPUs : call[c] # NotInCall /\ call[d] # NotInCall => c = d
  /\ AnnouncedMessageIsThere
  /\ \A c \in CPUs : StillChecked(c)

\* The proxy writes an RX buffer only while it owns it: what a VM has been given
\* stays as it is until the VM releases the buffer or unregisters it.
OwnedRxIsStable ==
  [][\A v \in VMs : mbox[v].mapped /\ ~mbox[v].rx_held_by_proxy => rx'[v] = rx[v]]_vars
=============================================================================
