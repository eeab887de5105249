--------------------------- MODULE FfaShareSteps ---------------------------
(***************************************************************************)
(* MEM_SHARE, MEM_LEND and MEM_RECLAIM of ffa/proxy.rs as several vCPUs of *)
(* one VM execute them, page by page and record slot by record slot.  No   *)
(* lock is taken between the trap and the return.                          *)
(*                                                                         *)
(* OnePcpu: all vCPUs share one pCPU, and EL2 is not preempted, so a call  *)
(* ends before another begins.  In the multi_pcpu build every vCPU has a   *)
(* pCPU of its own and calls interleave.  FfaMemory has the whole call as  *)
(* one action; the run with OnePcpu shows that this module implements it.  *)
(***************************************************************************)
EXTENDS Integers, Sequences, FiniteSets

CONSTANTS
  CPUs,            \* the vCPUs of the VM
  OnePcpu,         \* see above
  VM, Receivers, BadReceivers, MaxPage, InitialPages, Descriptors,
  MaxShareRanges, MaxShares, MaxHandle  \* as in FfaMemory, for one VM

VARIABLES
  pte, records, next_handle, ret,  \* as in FfaMemory, the Stage-2 of the VM alone
  call,      \* call[c]: where the handler vCPU c executes has got to
  before,    \* the shared state when the last call began (history)
  given      \* handles returned by a share and not yet passed to a reclaim (history)

shared == <<pte, records, next_handle>>
vars == <<pte, records, next_handle, ret, call, before, given>>

Pages == 0..MaxPage
Slots == 1..MaxShares
Range == [base : Nat, count : Nat]
Entry(sw, s2ap) == [sw |-> sw, s2ap |-> s2ap]
Unmapped == Entry("Unmapped", "NONE")
Inactive == [active |-> FALSE]
Idle == [at |-> "idle"]

ASSUME StepsAssumption ==
  /\ OnePcpu \in BOOLEAN
  /\ MaxPage \in Nat /\ MaxShares \in Nat /\ MaxHandle \in Nat
  /\ MaxShareRanges \in Nat \ {0}
  /\ InitialPages \subseteq Pages
  /\ Descriptors \subseteq Seq(Range)

\* The loops over the pages of a list of ranges: k is at page k.j of range k.i.
AllDone(k) == k.i > Len(k.ranges)
RangeDone(k) == k.j = k.ranges[k.i].count
Page(k) == k.ranges[k.i].base + k.j
NextRange(k) == [k EXCEPT !.i = @ + 1, !.j = 0]
NextPage(k) == [k EXCEPT !.j = @ + 1]

\* write_sw_bits and set_s2ap, which fail, unnoticed, on a page that is not mapped.
WritePage(p, e) == pte' = [pte EXCEPT ![p] = IF @ = Unmapped THEN @ ELSE e]

MayBegin(c) ==
  /\ call[c] = Idle
  /\ OnePcpu => \A d \in CPUs : call[d] = Idle

Begin(c, k) ==
  /\ call' = [call EXCEPT ![c] = k]
  /\ before' = [pte |-> pte, records |-> records, next_handle |-> next_handle]
  /\ UNCHANGED <<pte, records, next_handle, ret, given>>

Continue(c, k) == call' = [call EXCEPT ![c] = k] /\ UNCHANGED <<ret, before, given>>
Return(c, code) == ret' = code /\ call' = [call EXCEPT ![c] = Idle] /\ UNCHANGED before

-----------------------------------------------------------------------------
(* handle_mem_share_or_lend.  A request that is rejected before it touches *)
(* shared state is left to FfaMemory.                                      *)

share_begin(c, recv, ranges, is_lend) ==
  /\ MayBegin(c)
  /\ ranges # <<>>
  /\ Begin(c, [at |-> "validate", i |-> 1, j |-> 0,
               recv |-> recv, ranges |-> ranges, is_lend |-> is_lend])

\* The first loop: every page must be mapped and Owned.
share_validate(c) ==
  LET k == call[c] IN
  /\ k.at = "validate"
  /\ UNCHANGED shared
  /\ IF AllDone(k) THEN Continue(c, [k EXCEPT !.at = "transition", !.i = 1, !.j = 0])
     ELSE IF RangeDone(k) THEN Continue(c, NextRange(k))
     ELSE IF Page(k) \in Pages /\ pte[Page(k)].sw = "Owned" THEN Continue(c, NextPage(k))
     ELSE Return(c, "DENIED") /\ UNCHANGED given

\* An atomic fetch_add.
alloc_handle == next_handle' = next_handle + 1

\* The second loop, then alloc_handle.
share_transition(c) ==
  LET k == call[c] IN
  /\ k.at = "transition"
  /\ UNCHANGED records
  /\ IF AllDone(k)
     THEN /\ next_handle < MaxHandle
          /\ alloc_handle
          /\ UNCHANGED pte
          /\ Continue(c, [at |-> "scan", slot |-> 1, handle |-> next_handle,
                          recv |-> k.recv, ranges |-> k.ranges, is_lend |-> k.is_lend])
     ELSE /\ UNCHANGED next_handle
          /\ IF RangeDone(k)
             THEN UNCHANGED pte /\ Continue(c, NextRange(k))
             ELSE /\ WritePage(Page(k), Entry("SharedOwned", IF k.is_lend THEN "NONE" ELSE "RO"))
                  /\ Continue(c, NextPage(k))

\* record_share: the search for a slot that is not active.
SlotUsable(s) == ~records[s].active

share_scan(c) ==
  LET k == call[c] IN
  /\ k.at = "scan"
  /\ UNCHANGED shared
  /\ IF k.slot > MaxShares THEN Return(c, "NO_MEMORY") /\ UNCHANGED given
     ELSE Continue(c, IF SlotUsable(k.slot) THEN [k EXCEPT !.at = "write"]
                                            ELSE [k EXCEPT !.slot = @ + 1])

\* record_share: the slot is written and the handle returned.
share_write(c) ==
  LET k == call[c] IN
  /\ k.at = "write"
  /\ records' = [records EXCEPT ![k.slot] =
       [active |-> TRUE, handle |-> k.handle, sender |-> VM, receiver |-> k.recv,
        ranges |-> IF Len(k.ranges) <= MaxShareRanges THEN k.ranges
                   ELSE SubSeq(k.ranges, 1, MaxShareRanges),
        is_lend |-> k.is_lend, retrieved |-> FALSE]]
  /\ given' = given \cup {k.handle}
  /\ Return(c, "SUCCESS")
  /\ UNCHANGED <<pte, next_handle>>

-----------------------------------------------------------------------------
(* handle_mem_reclaim.  Its check that the share is not retrieved refuses  *)
(* nothing here: the one VM cannot retrieve pages, since map_page fails on *)
(* what is already mapped.                                                 *)

reclaim_begin(c, h) ==
  /\ MayBegin(c)
  /\ Begin(c, [at |-> "lookup", handle |-> h])

\* The record with a handle, which reclaim_lookup copies.
lookup_share_full(s, h) == records[s].active /\ records[s].handle = h

reclaim_lookup(c) ==
  LET k == call[c] IN
  /\ k.at = "lookup"
  /\ UNCHANGED shared
  /\ \/ \E s \in Slots :
          /\ lookup_share_full(s, k.handle)
          /\ call' = [call EXCEPT ![c] = [at |-> "restore", handle |-> k.handle,
                                          i |-> 1, j |-> 0, ranges |-> records[s].ranges]]
          /\ given' = given \ {k.handle}
          /\ UNCHANGED <<ret, before>>
     \/ /\ \A s \in Slots : ~lookup_share_full(s, k.handle)
        /\ Return(c, "INVALID_PARAMETERS")
        /\ UNCHANGED given

\* The loop that restores the pages; a mutant stops one page early.
reclaim_restore_mutant(c) ==
  LET k == call[c] IN
  /\ k.at = "restore"
  /\ UNCHANGED <<records, next_handle>>
  /\ IF AllDone(k) THEN UNCHANGED pte /\ Continue(c, [at |-> "remove", handle |-> k.handle])
     ELSE IF k.j + 1 >= k.ranges[k.i].count THEN UNCHANGED pte /\ Continue(c, NextRange(k))
     ELSE WritePage(Page(k), Entry("Owned", "RW")) /\ Continue(c, NextPage(k))

reclaim_restore(c) ==
  LET k == call[c] IN
  /\ k.at = "restore"
  /\ UNCHANGED <<records, next_handle>>
  /\ IF AllDone(k) THEN UNCHANGED pte /\ Continue(c, [at |-> "remove", handle |-> k.handle])
     ELSE IF RangeDone(k) THEN UNCHANGED pte /\ Continue(c, NextRange(k))
     ELSE WritePage(Page(k), Entry("Owned", "RW")) /\ Continue(c, NextPage(k))

\* reclaim_share, whose result is not looked at.
reclaim_remove(c) ==
  LET k == call[c] IN
  /\ k.at = "remove"
  /\ records' = [s \in Slots |->
       IF lookup_share_full(s, k.handle) THEN Inactive ELSE records[s]]
  /\ Return(c, "SUCCESS")
  /\ UNCHANGED <<pte, next_handle, given>>

-----------------------------------------------------------------------------

Init ==
  /\ pte = [p \in Pages |-> IF p \in InitialPages THEN Entry("Owned", "RW") ELSE Unmapped]
  /\ records = [s \in Slots |-> Inactive]
  /\ next_handle = 1
  /\ ret = "NONE"
  /\ call = [c \in CPUs |-> Idle]
  /\ before = [pte |-> pte, records |-> records, next_handle |-> next_handle]
  /\ given = {}

Next ==
  \E c \in CPUs :
    \/ \E recv \in Receivers, ranges \in Descriptors, is_lend \in BOOLEAN :
         next_handle < MaxHandle /\ share_begin(c, recv, ranges, is_lend)
    \/ share_validate(c) \/ share_transition(c) \/ share_scan(c) \/ share_write(c)
    \/ \E h \in 1..MaxHandle : reclaim_begin(c, h)
    \/ reclaim_lookup(c) \/ reclaim_restore(c) \/ reclaim_remove(c)

Spec == Init /\ [][Next]_vars

-----------------------------------------------------------------------------
(* Properties.                                                             *)

\* A share that returned SUCCESS keeps its record until it is reclaimed: "Access is
\* safe: [...] In multi-pCPU mode, share records are accessed under the FF-A proxy
\* dispatch" (stub_spmc.rs 56-58).
ShareKept ==
  \A h \in given : \E s \in Slots : records[s].active /\ records[s].handle = h

\* With OnePcpu, the calls are those of FfaMemory: nothing of a call that has not returned
\* is seen, and the call then has the whole effect of the action.
Quiet == \A c \in CPUs : call[c] = Idle
Atomic == INSTANCE FfaMemory WITH
  VMs <- {VM},
  InitialPages <- [v \in {VM} |-> InitialPages],
  pte <- [v \in {VM} |-> IF Quiet THEN pte ELSE before.pte],
  records <- IF Quiet THEN records ELSE before.records,
  next_handle <- IF Quiet THEN next_handle ELSE before.next_handle

\* The specification of FfaMemory, for one VM.
ImplementsFfaMemory == Atomic!Spec

-----------------------------------------------------------------------------
(* The inductive invariant of the proof of ImplementsFfaMemory: what has   *)
(* been done when a call is at a certain place.                            *)

\* The pages a loop has been at.
Visited(k) ==
  {p \in Atomic!AllPages(k.ranges) : \E n \in DOMAIN k.ranges :
     /\ p \in Atomic!PagesOf(k.ranges[n])
     /\ n < k.i \/ (n = k.i /\ p < k.ranges[n].base + k.j)}
Cursor(k) == k.i <= Len(k.ranges) => k.j <= k.ranges[k.i].count

\* The Stage-2 when the call began, with e written to the pages of S.
Written(S, e) ==
  [p \in Pages |-> IF p \in S /\ before.pte[p] # Unmapped THEN e ELSE before.pte[p]]

\* A share has its handle to come or taken, and changed no record; the pages of S were Owned.
Share(S) ==
  /\ before.next_handle < MaxHandle
  /\ records = before.records
  /\ \A p \in S : p \in Pages /\ before.pte[p].sw = "Owned"
Grant(k) == Entry("SharedOwned", IF k.is_lend THEN "NONE" ELSE "RO")

ShareLoop(at) == [at : {at}, i : Nat \ {0}, j : Nat, recv : Receivers,
                  ranges : Descriptors \ {<<>>}, is_lend : BOOLEAN]

InValidate(k) ==
  /\ k \in ShareLoop("validate")
  /\ Cursor(k) /\ Share(Visited(k))
  /\ pte = before.pte /\ next_handle = before.next_handle

InTransition(k) ==
  /\ k \in ShareLoop("transition")
  /\ Cursor(k) /\ Share(Atomic!AllPages(k.ranges))
  /\ pte = Written(Visited(k), Grant(k)) /\ next_handle = before.next_handle

InRecord(k) ==
  /\ k \in [at : {"scan", "write"}, slot : Nat \ {0}, handle : {before.next_handle},
             recv : Receivers, ranges : Descriptors \ {<<>>}, is_lend : BOOLEAN]
  /\ Share(Atomic!AllPages(k.ranges))
  /\ pte = Written(Atomic!AllPages(k.ranges), Grant(k))
  /\ next_handle = before.next_handle + 1
  /\ \A t \in Slots : /\ t < k.slot => records[t].active
                      /\ records[t].active => records[t].handle < k.handle
  /\ k.at = "write" => k.slot \in Slots /\ ~records[k.slot].active

\* A reclaim, which has changed no record and no handle.
Reclaim == records = before.records /\ next_handle = before.next_handle

InLookup(k) ==
  /\ k \in [at : {"lookup"}, handle : 1..MaxHandle]
  /\ Reclaim /\ pte = before.pte

RestoreLoop == [at : {"restore"}, handle : 1..MaxHandle, i : Nat \ {0}, j : Nat,
                ranges : Seq(Range)]

InRestore(k) ==
  /\ k \in RestoreLoop
  /\ Cursor(k) /\ Reclaim
  /\ \E s \in Slots : lookup_share_full(s, k.handle) /\ records[s].ranges = k.ranges
  /\ pte = Written(Visited(k), Entry("Owned", "RW"))

InRemove(k) ==
  /\ k \in [at : {"remove"}, handle : 1..MaxHandle] /\ Reclaim
  /\ \E s \in Slots :
       /\ lookup_share_full(s, k.handle)
       /\ pte = Written(Atomic!AllPages(records[s].ranges), Entry("Owned", "RW"))

At(k) ==
  \/ k = Idle
  \/ InValidate(k) \/ InTransition(k) \/ InRecord(k)
  \/ InLookup(k) \/ InRestore(k) \/ InRemove(k)

\* The records are of shares nobody retrieved, with different handles older than the counter.
Tables ==
  /\ pte \in [Pages -> Atomic!Entries] /\ before.pte \in [Pages -> Atomic!Entries]
  /\ records \in [Slots -> Atomic!Record \cup {Inactive}]
  /\ next_handle \in Nat /\ before.next_handle \in Nat
  /\ \A s \in Slots :
       records[s].active => ~records[s].retrieved /\ records[s].handle < next_handle
  /\ \A s, t \in Slots :
       records[s].active /\ records[t].active /\ records[s].handle = records[t].handle => s = t

\* With OnePcpu one call at most is under way, and it has done what its place says.
StepsInv ==
  /\ Tables
  /\ DOMAIN call = CPUs
  /\ \A c, d \in CPUs : call[c] # Idle /\ call[d] # Idle => c = d
  /\ \A c \in CPUs : At(call[c])
=============================================================================
