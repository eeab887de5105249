----------------------------- MODULE FfaMemory -----------------------------
(***************************************************************************)
(* FF-A memory sharing between VMs: ffa/proxy.rs (MEM_SHARE, MEM_LEND,     *)
(* MEM_RETRIEVE_REQ, MEM_RELINQUISH, MEM_RECLAIM), ffa/stub_spmc.rs (the   *)
(* share records), ffa/memory.rs (page ownership) and the effect of        *)
(* ffa/stage2_walker.rs on the leaf entries of each VM's Stage-2.          *)
(*                                                                         *)
(* One action is one SMC, from trap to return: EL2 runs with interrupts    *)
(* masked and in the single-pCPU builds nothing else runs meanwhile.       *)
(* FfaShareSteps models the multi-pCPU build, where that is not so.        *)
(*                                                                         *)
(* Page tables come from the heap.  Its 4096 pages (platform.rs 85) hold   *)
(* every table the VMs of platform.rs can need, so alloc_page() fails in   *)
(* no call that is modelled here.                                          *)
(***************************************************************************)
EXTENDS Integers, Sequences, FiniteSets

CONSTANTS
  VMs,             \* the VMs that exist, named by partition ID
  Receivers,       \* IDs accepted by is_valid_receiver: VM IDs and stub SPs
  BadReceivers,    \* IDs it rejects
  MaxPage,         \* pages are 0..MaxPage, in units of 4KB
  InitialPages,    \* InitialPages[v]: what init_memory mapped for VM v
  Descriptors,     \* the range lists a caller may present
  MaxShareRanges,  \* MAX_SHARE_RANGES
  MaxShares,       \* MAX_SHARES
  MaxHandle        \* bound on NEXT_HANDLE

Pages == 0..MaxPage
Slots == 1..MaxShares
Range == [base : Nat, count : Nat]

\* A home page is a page init_memory mapped for one VM only (guest RAM);
\* the GIC pages left in Stage-2 are mapped for every VM, and RAM for
\* both where the ranges of two VMs overlap.
IsHome(v, p) == p \in InitialPages[v] /\ \A w \in VMs \ {v} : p \notin InitialPages[w]

ASSUME ConstantsAssumption ==
  /\ VMs \subseteq Receivers
  /\ Receivers \cap BadReceivers = {}
  /\ MaxPage \in Nat
  /\ InitialPages \in [VMs -> SUBSET Pages]
  /\ Descriptors \subseteq Seq(Range)
  /\ MaxShareRanges \in Nat \ {0}
  /\ MaxShares \in Nat \ {0}
  /\ MaxHandle \in Nat

VARIABLES
  pte,          \* pte[v][p]: leaf entry of page p in VM v's Stage-2
  records,      \* SHARE_RECORDS
  next_handle,  \* NEXT_HANDLE
  ret           \* what the last call returned in x0/x2

vars == <<pte, records, next_handle, ret>>

-----------------------------------------------------------------------------
(* Stage-2 leaf entries: the SW bits (page ownership) and S2AP.            *)

PageOwnership == {"Owned", "SharedOwned", "SharedBorrowed"}
S2AP == {"NONE", "RO", "RW"}
Entry(sw, s2ap) == [sw |-> sw, s2ap |-> s2ap]
Unmapped == Entry("Unmapped", "NONE")
Entries == [sw : PageOwnership, s2ap : S2AP] \cup {Unmapped}

PagesOf(r) == r.base .. (r.base + r.count - 1)
AllPages(ranges) == UNION {PagesOf(ranges[i]) : i \in DOMAIN ranges}

validate_page_for_share_mutant(e) == e.sw \in {"Owned", "SharedOwned"}
validate_page_for_share(e) == e.sw = "Owned"

\* Mutant: S2AP_NONE written as S2AP_RO.
SetPages_noneIsRo(v, S, sw, s2ap) ==
  [pte EXCEPT ![v] = [p \in Pages |->
     IF p \in S /\ @[p] # Unmapped
     THEN Entry(sw, IF s2ap = "NONE" THEN "RO" ELSE s2ap) ELSE @[p]]]

\* write_sw_bits followed by set_s2ap, whose errors the callers discard: an
\* unmapped page stays as it is.
SetPages(v, S, sw, s2ap) ==
  [pte EXCEPT ![v] = [p \in Pages |->
     IF p \in S /\ @[p] # Unmapped THEN Entry(sw, s2ap) ELSE @[p]]]

-----------------------------------------------------------------------------
(* Share records.                                                          *)

Record == [active : {TRUE}, handle : Nat, sender : VMs, receiver : Receivers,
           ranges : Seq(Range), is_lend : BOOLEAN, retrieved : BOOLEAN]
Inactive == [active |-> FALSE]

lookup_share_full(s, h) == records[s].active /\ records[s].handle = h
FreeSlot(s) == ~records[s].active /\ \A t \in Slots : t < s => records[t].active

Stored(ranges) ==
  IF Len(ranges) <= MaxShareRanges THEN ranges ELSE SubSeq(ranges, 1, MaxShareRanges)

alloc_handle == next_handle' = next_handle + 1

\* The handle is taken before the table is searched.
record_share(v, recv, ranges, is_lend) ==
  /\ alloc_handle
  /\ \/ \E s \in Slots :
          /\ FreeSlot(s)
          /\ records' = [records EXCEPT ![s] =
               [active |-> TRUE, handle |-> next_handle, sender |-> v,
                receiver |-> recv, ranges |-> Stored(ranges),
                is_lend |-> is_lend, retrieved |-> FALSE]]
          /\ ret' = "SUCCESS"
     \/ /\ \A s \in Slots : records[s].active
        /\ UNCHANGED records
        /\ ret' = "NO_MEMORY"

Error(code) == ret' = code /\ UNCHANGED <<pte, records, next_handle>>

-----------------------------------------------------------------------------
(* MEM_SHARE and MEM_LEND.  viaMailbox: the caller has a mapped mailbox,   *)
(* so the ranges come from a descriptor in its TX buffer (an unparsable    *)
(* one is <<>>); otherwise they come from registers, one non-empty range.  *)
(* senderOk: the descriptor names no sender, or the caller.                *)

BadRequest(viaMailbox, senderOk, recv, ranges) ==
  \/ ranges = <<>>
  \/ ~viaMailbox /\ ranges[1].count = 0
  \/ recv \notin Receivers
  \/ ~senderOk

mem_share_or_lend(v, viaMailbox, senderOk, recv, ranges, is_lend) ==
  /\ next_handle < MaxHandle
  /\ viaMailbox \/ (Len(ranges) = 1 /\ senderOk)
  /\ IF BadRequest(viaMailbox, senderOk, recv, ranges)
     THEN Error("INVALID_PARAMETERS")
     ELSE IF \E p \in AllPages(ranges) : p \notin Pages \/ ~validate_page_for_share(pte[v][p])
     THEN Error("DENIED")
     ELSE /\ pte' = SetPages(v, AllPages(ranges), "SharedOwned",
                             IF is_lend THEN "NONE" ELSE "RO")
          /\ record_share(v, recv, ranges, is_lend)

(* MEM_RECLAIM: restores the pages in the Stage-2 of the caller.           *)
StillRetrieved_mutant(s) == FALSE
StillRetrieved(s) == records[s].retrieved

Restored_mutant(v, s) == SetPages(v, AllPages(records[s].ranges), "Owned", "RO")
Restored(v, s) == SetPages(v, AllPages(records[s].ranges), "Owned", "RW")

mem_reclaim(v, h) ==
  \/ /\ \A s \in Slots : ~lookup_share_full(s, h)
     /\ Error("INVALID_PARAMETERS")
  \/ \E s \in Slots :
       /\ lookup_share_full(s, h)
       /\ IF StillRetrieved(s)
          THEN Error("DENIED")
          ELSE /\ pte' = Restored(v, s)
               /\ records' = [records EXCEPT ![s] = Inactive]
               /\ ret' = "SUCCESS"
               /\ UNCHANGED next_handle

(***************************************************************************)
(* MEM_RETRIEVE_REQ maps page by page, range by range.  MappedBefore: the  *)
(* pages mapped when it comes to page p of range i.  map_page fails on an  *)
(* entry that is already valid, whether it was before the call or this     *)
(* call made it so.  RolledBack: the pages the failing call then unmaps.   *)
(***************************************************************************)
MappedBefore(ranges, i, p) ==
  (UNION {PagesOf(ranges[j]) : j \in 1..(i-1)}) \cup (ranges[i].base .. (p-1))

MapFails(v, ranges, i, p) ==
  \/ pte[v][p] # Unmapped
  \/ p \in UNION {PagesOf(ranges[j]) : j \in 1..(i-1)}

FirstFailure(v, ranges, i, p) ==
  /\ p \in PagesOf(ranges[i]) /\ MapFails(v, ranges, i, p)
  /\ \A j \in 1..i : \A q \in PagesOf(ranges[j]) :
       MapFails(v, ranges, j, q) => j = i /\ q >= p

RolledBack_mutant(ranges, i, p) == ranges[i].base .. (p - 1)
RolledBack(ranges, i, p) ==
  UNION {ranges[j].base .. (ranges[j].base + (IF j = i THEN p - ranges[i].base
                                                       ELSE ranges[j].count) - 1) : j \in 1..i}

\* map_page on every page of S, then unmap_page on every page of R.
MapThenUnmap(v, S, R) ==
  [pte EXCEPT ![v] = [p \in Pages |->
     IF p \in R THEN Unmapped
     ELSE IF p \in S THEN Entry("SharedBorrowed", "RW") ELSE @[p]]]

mem_retrieve_req(v, h) ==
  \/ /\ \A s \in Slots : ~lookup_share_full(s, h)
     /\ Error("INVALID_PARAMETERS")
  \/ \E s \in Slots :
       /\ lookup_share_full(s, h)
       /\ UNCHANGED next_handle
       /\ LET r == records[s] IN
          \/ /\ r.receiver # v \/ r.retrieved
             /\ ret' = "DENIED"
             /\ UNCHANGED <<pte, records>>
          \/ /\ r.receiver = v /\ ~r.retrieved
             /\ \E i \in DOMAIN r.ranges : \E p \in PagesOf(r.ranges[i]) :
                  /\ FirstFailure(v, r.ranges, i, p)
                  /\ pte' = MapThenUnmap(v, MappedBefore(r.ranges, i, p),
                                            RolledBack(r.ranges, i, p))
             /\ ret' = "DENIED"
             /\ UNCHANGED records
          \/ /\ r.receiver = v /\ ~r.retrieved
             /\ \A i \in DOMAIN r.ranges : \A p \in PagesOf(r.ranges[i]) :
                  ~MapFails(v, r.ranges, i, p)
             /\ pte' = MapThenUnmap(v, AllPages(r.ranges), {})
             /\ records' = [records EXCEPT ![s] = [r EXCEPT !.retrieved = TRUE]]
             /\ ret' = "SUCCESS"

mem_relinquish(v, h) ==
  \/ /\ \A s \in Slots : ~lookup_share_full(s, h)
     /\ Error("INVALID_PARAMETERS")
  \/ \E s \in Slots :
       /\ lookup_share_full(s, h)
       /\ IF records[s].receiver # v \/ ~records[s].retrieved
          THEN Error("DENIED")
          ELSE /\ pte' = MapThenUnmap(v, {}, AllPages(records[s].ranges))
               /\ records' = [records EXCEPT ![s] = [records[s] EXCEPT !.retrieved = FALSE]]
               /\ ret' = "SUCCESS"
               /\ UNCHANGED next_handle

\* MEM_DONATE is blocked.
mem_donate(v) == Error("NOT_SUPPORTED")

-----------------------------------------------------------------------------

Init ==
  /\ pte = [v \in VMs |-> [p \in Pages |->
              IF p \in InitialPages[v] THEN Entry("Owned", "RW") ELSE Unmapped]]
  /\ records = [s \in Slots |-> Inactive]
  /\ next_handle = 1
  /\ ret = "NONE"

Next ==
  \E v \in VMs :
    \/ \E viaMailbox, senderOk, is_lend \in BOOLEAN,
          recv \in Receivers \cup BadReceivers, ranges \in Descriptors :
         mem_share_or_lend(v, viaMailbox, senderOk, recv, ranges, is_lend)
    \/ \E h \in 0..MaxHandle :
         \/ mem_reclaim(v, h)
         \/ mem_retrieve_req(v, h)
         \/ mem_relinquish(v, h)
    \/ mem_donate(v)

Spec == Init /\ [][Next]_vars

-----------------------------------------------------------------------------
(* Properties.                                                             *)

Codes == {"NONE", "SUCCESS", "INVALID_PARAMETERS", "DENIED", "NO_MEMORY", "NOT_SUPPORTED"}

\* Types of the state, and that a record names only pages a Stage-2 can hold.
TypeOK ==
  /\ pte \in [VMs -> [Pages -> Entries]]
  /\ records \in [Slots -> Record \cup {Inactive}]
  /\ \A s \in Slots : records[s].active => AllPages(records[s].ranges) \subseteq Pages
  /\ next_handle \in Nat \ {0}
  /\ ret \in Codes

Covers(s, p) == records[s].active /\ p \in AllPages(records[s].ranges)

\* A grant is an active share record.  While it lasts, every page of guest RAM it
\* names is SharedOwned in the Stage-2 of the sender, its RAM, and the sender
\* has lost write access, or all access when the page is lent (proxy.rs 581-595).
GrantHoldsPages ==
  \A s \in Slots, v \in VMs, p \in Pages :
    Covers(s, p) /\ IsHome(v, p) =>
      /\ records[s].sender = v
      /\ pte[v][p] = Entry("SharedOwned", IF records[s].is_lend THEN "NONE" ELSE "RO")

\* No page of guest RAM is in two active share records, so no reclaim, retrieve
\* or relinquish of one handle can disturb the pages of another.
GrantsDisjoint ==
  \A s, t \in Slots, v \in VMs, p \in Pages :
    IsHome(v, p) /\ Covers(s, p) /\ Covers(t, p) => s = t

\* A VM has a page of another VM's RAM in its Stage-2 exactly while it has
\* retrieved a share record that names the page: nothing stays mapped after
\* relinquish or after a retrieve that was rolled back (proxy.rs 755-773).
BorrowedIffRetrieved ==
  \A v, w \in VMs, p \in Pages :
    IsHome(v, p) /\ w # v =>
      (pte[w][p] # Unmapped <=>
         \E s \in Slots : Covers(s, p) /\ records[s].receiver = w /\ records[s].retrieved)

\* At most one VM can write a page of guest RAM, whatever was shared, lent,
\* retrieved, relinquished and reclaimed, and by whom.
SingleWriter ==
  \A p \in Pages, v, w \in VMs :
    (\E u \in VMs : IsHome(u, p)) /\ pte[v][p].s2ap = "RW" /\ pte[w][p].s2ap = "RW" => v = w

\* A lent page is accessible to at most one VM: the borrower once it has
\* retrieved it, nobody before (MEM_LEND sets S2AP to NONE, proxy.rs 512).
LentIsExclusive ==
  \A s \in Slots, p \in Pages, v, w \in VMs :
    (\E u \in VMs : IsHome(u, p)) /\ Covers(s, p) /\ records[s].is_lend
      /\ pte[v][p].s2ap # "NONE" /\ pte[w][p].s2ap # "NONE" => v = w

\* Handles identify a share for ever: two records never have the same handle,
\* and a handle that was given out is never given out again (NEXT_HANDLE).
HandlesUnique ==
  \A s, t \in Slots : records[s].active /\ records[t].active =>
    /\ records[s].handle < next_handle
    /\ records[s].handle = records[t].handle => s = t

HomeEntry(e) == e \in {Entry("Owned", "RW"), Entry("SharedOwned", "RO"),
                       Entry("SharedOwned", "NONE")}
BorrowedEntry(e) == e \in {Unmapped, Entry("SharedBorrowed", "RW")}

PageEntries ==
  \A v, w \in VMs, p \in Pages : IsHome(v, p) =>
    /\ HomeEntry(pte[v][p])
    /\ w # v => BorrowedEntry(pte[w][p])

RetrievedByOther ==
  \A s \in Slots, v \in VMs, p \in Pages :
    IsHome(v, p) /\ Covers(s, p) /\ records[s].retrieved => records[s].receiver # v

\* The records and the Stage-2 tables of all VMs tell the same story: the types, the three
\* properties of grants above, which entries a page of guest RAM can have at home and
\* elsewhere, and that a VM never retrieves its own RAM (map_page finds it mapped).
\* This is the inductive invariant of the proofs.
IInv ==
  /\ TypeOK
  /\ PageEntries
  /\ GrantHoldsPages
  /\ GrantsDisjoint
  /\ BorrowedIffRetrieved
  /\ RetrievedByOther

\* A call that fails leaves every Stage-2 and every record as it was, also when
\* a retrieve fails half-way through its ranges.  NO_MEMORY is the exception:
\* the pages are transitioned before the record table is found full.
FailedCallsChangeNothing ==
  [][ret' \in {"DENIED", "INVALID_PARAMETERS", "NOT_SUPPORTED"}
       => UNCHANGED <<pte, records>>]_vars

\* The pages of a sender that reclaims its own share are Owned and writable
\* again, and nobody else has them (doc comment at proxy.rs 667).
SenderReclaimRestores ==
  [][\A s \in Slots, p \in Pages :
       Covers(s, p) /\ ~records'[s].active /\ IsHome(records[s].sender, p)
         /\ pte'[records[s].sender] # pte[records[s].sender]
       => /\ pte'[records[s].sender][p] = Entry("Owned", "RW")
          /\ \A w \in VMs \ {records[s].sender} : pte'[w][p] = Unmapped]_vars

\* The design's MEM_RECLAIM transition SHARED_OWNED -> OWNED needs a handle: every page of
\* guest RAM that was given away is in a share record that can be reclaimed.
SharedIsReclaimable ==
  \A v \in VMs, p \in Pages :
    IsHome(v, p) /\ pte[v][p].sw = "SharedOwned" => \E s \in Slots : Covers(s, p)

\* What the doc comment at proxy.rs 667 says of every successful MEM_RECLAIM:
\* "Restores page ownership to Owned and S2AP to RW".
ReclaimRestores ==
  [][\A s \in Slots, p \in Pages :
       Covers(s, p) /\ ~records'[s].active
       => pte'[records[s].sender][p] = Entry("Owned", "RW")]_vars
=============================================================================
