-------------------------- MODULE FfaMemoryProofs --------------------------
(***************************************************************************)
(* Proofs about FfaMemory, for any number of VMs, pages, records and       *)
(* descriptors.                                                            *)
(***************************************************************************)
EXTENDS FfaMemory, TLAPS

\* record_share keeps a prefix of the ranges, so it names no page the call did not.
LEMMA StoredRanges ==
  ASSUME NEW ranges \in Seq(Range)
  PROVE  /\ Stored(ranges) \in Seq(Range)
         /\ AllPages(Stored(ranges)) \subseteq AllPages(ranges)
<1>1. CASE Len(ranges) <= MaxShareRanges
  BY <1>1 DEF Stored
<1>2. CASE ~(Len(ranges) <= MaxShareRanges)
  <2>1. Len(ranges) \in Nat /\ MaxShareRanges \in Nat /\ MaxShareRanges <= Len(ranges)
    BY <1>2, ConstantsAssumption
  <2>2. /\ SubSeq(ranges, 1, MaxShareRanges) \in Seq(Range)
        /\ Len(SubSeq(ranges, 1, MaxShareRanges)) = MaxShareRanges
        /\ \A i \in 1..MaxShareRanges : SubSeq(ranges, 1, MaxShareRanges)[i] = ranges[i]
    BY <2>1
  <2>3. QED
    BY <1>2, <2>1, <2>2 DEF Stored, AllPages
<1>3. QED
  BY <1>1, <1>2

\* What writing a set of pages of one VM does to every leaf entry.
LEMMA SetPagesEntries ==
  ASSUME TypeOK, NEW v \in VMs, NEW S, NEW sw \in PageOwnership, NEW ap \in S2AP
  PROVE  /\ SetPages(v, S, sw, ap) \in [VMs -> [Pages -> Entries]]
         /\ \A u \in VMs, q \in Pages : SetPages(v, S, sw, ap)[u][q] =
              IF u = v /\ q \in S /\ pte[v][q] # Unmapped THEN Entry(sw, ap) ELSE pte[u][q]
<1>1. Entry(sw, ap) \in Entries
  BY DEF Entry, Entries
<1>2. QED
  BY <1>1 DEF SetPages, TypeOK

\* What mapping S and then unmapping R in one VM does to every leaf entry.
LEMMA MapThenUnmapEntries ==
  ASSUME TypeOK, NEW v \in VMs, NEW S, NEW R
  PROVE  /\ MapThenUnmap(v, S, R) \in [VMs -> [Pages -> Entries]]
         /\ \A u \in VMs, q \in Pages : MapThenUnmap(v, S, R)[u][q] =
              IF u # v THEN pte[u][q]
              ELSE IF q \in R THEN Unmapped
              ELSE IF q \in S THEN Entry("SharedBorrowed", "RW") ELSE pte[u][q]
<1>1. Entry("SharedBorrowed", "RW") \in Entries /\ Unmapped \in Entries
  BY DEF Entry, Entries, PageOwnership, S2AP
<1>2. QED
  BY <1>1 DEF MapThenUnmap, TypeOK

\* The SW bits tell the entries apart.
LEMMA EntryFields ==
  /\ \A sw, ap : Entry(sw, ap).sw = sw /\ Entry(sw, ap).s2ap = ap
  /\ Unmapped.sw = "Unmapped"
  /\ \A a, b, c, d : Entry(a, b) = Entry(c, d) => a = c /\ b = d
BY DEF Entry, Unmapped

\* A page has at most one home.
LEMMA OneHome ==
  ASSUME NEW v \in VMs, NEW w \in VMs, NEW p, IsHome(v, p), IsHome(w, p)
  PROVE  v = w
BY DEF IsHome

\* A call that only returns a code.
LEMMA ErrorStep ==
  ASSUME IInv, ret' \in Codes, UNCHANGED <<pte, records, next_handle>>
  PROVE  IInv'
BY DEF IInv, TypeOK, PageEntries, GrantHoldsPages, GrantsDisjoint,
       BorrowedIffRetrieved, RetrievedByOther, Covers

\* MEM_SHARE and MEM_LEND.  The pages the call transitions were Owned, so no
\* record covered the ones that are guest RAM and their home is the caller.
LEMMA ShareStep ==
  ASSUME IInv, NEW v \in VMs, NEW viaMailbox \in BOOLEAN, NEW senderOk \in BOOLEAN,
         NEW recv \in Receivers \cup BadReceivers, NEW ranges \in Descriptors,
         NEW is_lend \in BOOLEAN,
         mem_share_or_lend(v, viaMailbox, senderOk, recv, ranges, is_lend)
  PROVE  IInv'
<1>1. CASE Error("INVALID_PARAMETERS") \/ Error("DENIED")
  BY <1>1, ErrorStep DEF Error, Codes
<1> DEFINE S == AllPages(ranges)
           ap == IF is_lend THEN "NONE" ELSE "RO"
<1>2. CASE /\ recv \in Receivers
           /\ \A p \in S : p \in Pages /\ pte[v][p].sw = "Owned"
           /\ pte' = SetPages(v, S, "SharedOwned", ap)
           /\ record_share(v, recv, ranges, is_lend)
  <2> USE EntryFields
  <2>1. ap \in S2AP /\ "SharedOwned" \in PageOwnership
    BY DEF S2AP, PageOwnership
  <2>2. pte' \in [VMs -> [Pages -> Entries]]
    BY <1>2, <2>1, SetPagesEntries, Zenon DEF IInv
  <2>3. \A u \in VMs, q \in Pages : pte'[u][q] =
          IF u = v /\ q \in S THEN Entry("SharedOwned", ap) ELSE pte[u][q]
    <3>1. \A q \in S : pte[v][q] # Unmapped
      BY <1>2
    <3> HIDE DEF ap, S
    <3>2. QED
      BY <1>2, <2>1, <3>1, SetPagesEntries DEF IInv
  <2>4. \A u \in VMs, q \in S : IsHome(u, q) =>
          /\ u = v
          /\ \A s \in Slots : ~Covers(s, q)
    BY <1>2 DEF IInv, PageEntries, BorrowedEntry, GrantHoldsPages
  <2>5. PageEntries'
    <3> SUFFICES ASSUME NEW u \in VMs, NEW w \in VMs, NEW p \in Pages, IsHome(u, p)
                 PROVE  HomeEntry(pte'[u][p]) /\ (w # u => BorrowedEntry(pte'[w][p]))
      BY DEF PageEntries
    <3>1. HomeEntry(Entry("SharedOwned", ap))
      BY DEF HomeEntry
    <3>2. QED
      BY <2>3, <2>4, <3>1 DEF IInv, PageEntries
  <2>6. next_handle' \in Nat \ {0} /\ ret' \in Codes
    BY <1>2 DEF record_share, alloc_handle, IInv, TypeOK, Codes
  <2>7. CASE UNCHANGED records
    <3>1. \A s, q : Covers(s, q)' <=> Covers(s, q)
      BY <2>7 DEF Covers
    <3>2. TypeOK'
      BY <2>2, <2>6, <2>7 DEF IInv, TypeOK
    <3>3. GrantHoldsPages' /\ GrantsDisjoint' /\ RetrievedByOther'
      BY <2>3, <2>4, <2>7, <3>1 DEF IInv, GrantHoldsPages, GrantsDisjoint, RetrievedByOther
    <3>4. BorrowedIffRetrieved'
      BY <2>3, <2>4, <2>7, <3>1 DEF IInv, BorrowedIffRetrieved
    <3>5. QED
      BY <2>5, <3>2, <3>3, <3>4 DEF IInv
  <2>8. ASSUME NEW s \in Slots, ~records[s].active,
               records' = [records EXCEPT ![s] =
                 [active |-> TRUE, handle |-> next_handle, sender |-> v,
                  receiver |-> recv, ranges |-> Stored(ranges),
                  is_lend |-> is_lend, retrieved |-> FALSE]]
        PROVE  IInv'
    <3> DEFINE r == [active |-> TRUE, handle |-> next_handle, sender |-> v,
                     receiver |-> recv, ranges |-> Stored(ranges),
                     is_lend |-> is_lend, retrieved |-> FALSE]
    <3>0. Stored(ranges) \in Seq(Range) /\ AllPages(Stored(ranges)) \subseteq S
      BY StoredRanges, ConstantsAssumption
    <3>1. r \in Record
      BY <1>2, <3>0 DEF Record, IInv, TypeOK
    <3>2. /\ records'[s] = r
          /\ \A t \in Slots \ {s} : records'[t] = records[t]
          /\ records' \in [Slots -> Record \cup {Inactive}]
      BY <2>8, <3>1 DEF IInv, TypeOK
    <3>3. TypeOK'
      BY <1>2, <2>2, <2>6, <3>0, <3>2 DEF IInv, TypeOK
    <3>4. /\ \A q : Covers(s, q)' => q \in S
          /\ \A t \in Slots \ {s} : \A q : Covers(t, q)' <=> Covers(t, q)
          /\ \A q : ~Covers(s, q)
      BY <2>8, <3>0, <3>2 DEF Covers
    <3>5. GrantHoldsPages'
      BY <2>3, <2>4, <3>2, <3>4 DEF IInv, GrantHoldsPages
    <3>6. GrantsDisjoint'
      BY <2>4, <3>4 DEF IInv, GrantsDisjoint
    <3>7. RetrievedByOther'
      BY <3>2, <3>4 DEF IInv, RetrievedByOther
    <3>8. BorrowedIffRetrieved'
      <4> SUFFICES ASSUME NEW u \in VMs, NEW w \in VMs, NEW p \in Pages, IsHome(u, p), w # u
                   PROVE  pte'[w][p] # Unmapped <=>
                            \E t \in Slots : Covers(t, p)' /\ records'[t].receiver = w
                                             /\ records'[t].retrieved
        BY DEF BorrowedIffRetrieved
      <4>1. pte'[w][p] = pte[w][p]
        BY <2>3, <2>4
      <4>2. (\E t \in Slots : Covers(t, p)' /\ records'[t].receiver = w /\ records'[t].retrieved)
              <=> (\E t \in Slots : Covers(t, p) /\ records[t].receiver = w /\ records[t].retrieved)
        BY <3>2, <3>4
      <4>3. QED
        BY <4>1, <4>2 DEF IInv, BorrowedIffRetrieved
    <3>9. QED
      BY <2>5, <3>3, <3>5, <3>6, <3>7, <3>8 DEF IInv
  <2>9. QED
    BY <1>2, <2>7, <2>8 DEF record_share, alloc_handle, FreeSlot
<1>3. QED
  BY <1>1, <1>2 DEF mem_share_or_lend, BadRequest, validate_page_for_share

\* A record that changes only in its retrieved flag, or becomes inactive, covers
\* no page it did not cover; the other records cover what they covered.
LEMMA RecordChange ==
  ASSUME TypeOK, NEW s \in Slots, records[s].active,
         NEW r \in Record \cup {Inactive}, r.active => r.ranges = records[s].ranges,
         records' = [records EXCEPT ![s] = r]
  PROVE  /\ records' \in [Slots -> Record \cup {Inactive}]
         /\ records'[s] = r
         /\ \A t \in Slots \ {s} : records'[t] = records[t]
         /\ \A t \in Slots \ {s} : \A q : Covers(t, q)' <=> Covers(t, q)
         /\ \A q : Covers(s, q)' <=> r.active /\ Covers(s, q)
<1>1. /\ records' \in [Slots -> Record \cup {Inactive}]
      /\ records'[s] = r
      /\ \A t \in Slots \ {s} : records'[t] = records[t]
  BY DEF TypeOK
<1>2. QED
  BY <1>1 DEF Covers

\* An active record is a share of pages that exist.
LEMMA ActiveRecord ==
  ASSUME TypeOK, NEW s \in Slots, records[s].active
  PROVE  /\ records[s] \in Record
         /\ records[s].ranges \in Seq(Range)
         /\ AllPages(records[s].ranges) \subseteq Pages
<1>1. records[s] \in Record
  <2>1. records[s] \in Record \cup {Inactive}
    BY DEF TypeOK
  <2>2. ~Inactive.active
    BY DEF Inactive
  <2>3. QED
    BY <2>1, <2>2
<1>2. QED
  BY <1>1, Zenon DEF TypeOK, Record

\* mark_retrieved and mark_relinquished change one flag of the record.
LEMMA SetRetrieved ==
  ASSUME NEW r \in Record, NEW b \in BOOLEAN
  PROVE  LET n == [r EXCEPT !.retrieved = b] IN
         /\ n \in Record /\ n.active /\ n.retrieved = b
         /\ n.ranges = r.ranges /\ n.receiver = r.receiver
         /\ n.sender = r.sender /\ n.is_lend = r.is_lend
BY Zenon DEF Record

\* MEM_RECLAIM.  The pages of guest RAM go back to Owned when the caller is
\* their home; in any other Stage-2 they are unmapped, since the share is not
\* retrieved, and stay so.
LEMMA ReclaimStep ==
  ASSUME IInv, NEW v \in VMs, NEW h, mem_reclaim(v, h)
  PROVE  IInv'
<1>1. CASE Error("INVALID_PARAMETERS") \/ Error("DENIED")
  BY <1>1, ErrorStep DEF Error, Codes
<1>2. ASSUME NEW s \in Slots, records[s].active, ~records[s].retrieved,
             pte' = SetPages(v, AllPages(records[s].ranges), "Owned", "RW"),
             records' = [records EXCEPT ![s] = Inactive],
             ret' = "SUCCESS", UNCHANGED next_handle
      PROVE  IInv'
  <2> DEFINE S == AllPages(records[s].ranges)
  <2>1. /\ pte' \in [VMs -> [Pages -> Entries]]
        /\ \A u \in VMs, q \in Pages : pte'[u][q] =
             IF u = v /\ q \in S /\ pte[v][q] # Unmapped THEN Entry("Owned", "RW") ELSE pte[u][q]
    <3>1. "Owned" \in PageOwnership /\ "RW" \in S2AP
      BY DEF PageOwnership, S2AP
    <3>2. pte' = SetPages(v, S, "Owned", "RW")
      BY <1>2
    <3>3. TypeOK
      BY DEF IInv
    <3> HIDE DEF S
    <3>4. /\ SetPages(v, S, "Owned", "RW") \in [VMs -> [Pages -> Entries]]
          /\ \A u \in VMs, q \in Pages : SetPages(v, S, "Owned", "RW")[u][q] =
               IF u = v /\ q \in S /\ pte[v][q] # Unmapped THEN Entry("Owned", "RW")
               ELSE pte[u][q]
      BY <3>1, <3>3, SetPagesEntries
    <3>5. QED
      BY <3>2, <3>4
  <2>2. /\ records' \in [Slots -> Record \cup {Inactive}]
        /\ records'[s] = Inactive
        /\ \A t \in Slots \ {s} : records'[t] = records[t]
        /\ \A t \in Slots \ {s} : \A q : Covers(t, q)' <=> Covers(t, q)
        /\ \A q : ~Covers(s, q)'
    <3>1. Inactive \in Record \cup {Inactive} /\ ~Inactive.active
      BY DEF Inactive
    <3> HIDE DEF S
    <3>2. QED
      BY <1>2, <3>1, RecordChange, Zenon DEF IInv
  <2>3. \A q \in S : Covers(s, q)
    BY <1>2 DEF Covers
  <2>4. TypeOK'
    BY <1>2, <2>1, <2>2 DEF IInv, TypeOK, Inactive, Codes
  <2>5. \A u, w \in VMs, q \in Pages : IsHome(u, q) /\ w # u => pte'[w][q] = pte[w][q]
    BY <1>2, <2>1, <2>3 DEF IInv, BorrowedIffRetrieved, GrantsDisjoint
  <2>6. PageEntries'
    <3>1. HomeEntry(Entry("Owned", "RW"))
      BY DEF HomeEntry
    <3>2. QED
      BY <2>1, <2>5, <3>1 DEF IInv, PageEntries
  <2>7. \A u \in VMs, q \in Pages, t \in Slots :
          IsHome(u, q) /\ Covers(t, q)' => pte'[u][q] = pte[u][q]
    BY <2>1, <2>2, <2>3 DEF IInv, GrantsDisjoint
  <2>8. GrantHoldsPages' /\ GrantsDisjoint' /\ RetrievedByOther'
    BY <2>2, <2>7 DEF IInv, GrantHoldsPages, GrantsDisjoint, RetrievedByOther
  <2>9. BorrowedIffRetrieved'
    BY <1>2, <2>2, <2>5 DEF IInv, BorrowedIffRetrieved
  <2>10. QED
    BY <2>4, <2>6, <2>8, <2>9 DEF IInv
<1>3. QED
  BY <1>1, <1>2 DEF mem_reclaim, lookup_share_full, StillRetrieved, Restored

\* The pages a failing retrieve has mapped are the pages it unmaps, and they
\* were unmapped before: the rollback leaves no trace.
LEMMA Rollback ==
  ASSUME TypeOK, NEW v \in VMs, NEW ranges \in Seq(Range), NEW i \in DOMAIN ranges,
         NEW p \in PagesOf(ranges[i]), AllPages(ranges) \subseteq Pages,
         FirstFailure(v, ranges, i, p)
  PROVE  MapThenUnmap(v, MappedBefore(ranges, i, p), RolledBack(ranges, i, p)) = pte
<1> DEFINE MB == MappedBefore(ranges, i, p)
           RB == RolledBack(ranges, i, p)
           new == MapThenUnmap(v, MB, RB)
<1>0. /\ i \in 1..Len(ranges) /\ Len(ranges) \in Nat
      /\ \A j \in 1..Len(ranges) : ranges[j].base \in Nat /\ ranges[j].count \in Nat
      /\ p \in Int /\ p >= ranges[i].base /\ p < ranges[i].base + ranges[i].count
  <2>1. i \in 1..Len(ranges) /\ Len(ranges) \in Nat
    OBVIOUS
  <2>2. \A j \in 1..Len(ranges) : ranges[j] \in Range
    OBVIOUS
  <2>3. \A j \in 1..Len(ranges) : ranges[j].base \in Nat /\ ranges[j].count \in Nat
    BY <2>2 DEF Range
  <2>4. QED
    BY <2>1, <2>3 DEF PagesOf
<1>1. ASSUME NEW q \in RB PROVE pte[v][q] = Unmapped
  <2>1. PICK j \in 1..i : q \in ranges[j].base .. (ranges[j].base +
               (IF j = i THEN p - ranges[i].base ELSE ranges[j].count) - 1)
    BY <1>1 DEF RolledBack
  <2>2. q \in PagesOf(ranges[j]) /\ (j = i => q < p)
    BY <1>0, <2>1 DEF PagesOf
  <2>3. ~MapFails(v, ranges, j, q)
    BY <1>0, <2>2 DEF FirstFailure, PagesOf
  <2>4. QED
    BY <2>3 DEF MapFails
<1>2. ASSUME NEW q \in MB PROVE q \in RB
  <2>1. CASE q \in ranges[i].base .. (p-1)
    <3>1. q \in ranges[i].base .. (ranges[i].base + (p - ranges[i].base) - 1)
      BY <1>0, <2>1
    <3>2. QED
      BY <1>0, <3>1 DEF RolledBack
  <2>2. ASSUME NEW j \in 1..(i-1), q \in PagesOf(ranges[j])
        PROVE  q \in RB
    <3>1. j \in 1..i /\ j # i
      BY <1>0
    <3>2. q \in ranges[j].base .. (ranges[j].base + ranges[j].count - 1)
      BY <2>2 DEF PagesOf
    <3>3. QED
      BY <3>1, <3>2 DEF RolledBack
  <2>3. QED
    BY <1>2, <2>1, <2>2 DEF MappedBefore
<1>3. /\ new \in [VMs -> [Pages -> Entries]]
      /\ \A u \in VMs, q \in Pages : new[u][q] = pte[u][q]
  <2> HIDE DEF MB, RB
  <2>1. QED
    BY <1>1, <1>2, MapThenUnmapEntries
<1>4. pte \in [VMs -> [Pages -> Entries]]
  BY DEF TypeOK
<1> HIDE DEF new
<1>5. \A u \in VMs : new[u] = pte[u]
  BY <1>3, <1>4
<1>6. new = pte
  BY <1>3, <1>4, <1>5
<1>7. QED
  BY <1>6 DEF new

\* MEM_RETRIEVE_REQ.  When no page fails to map, all of them were unmapped for
\* the caller, which is therefore not the home of any.
LEMMA RetrieveStep ==
  ASSUME IInv, NEW v \in VMs, NEW h, mem_retrieve_req(v, h)
  PROVE  IInv'
<1>1. CASE Error("INVALID_PARAMETERS")
  BY <1>1, ErrorStep DEF Error, Codes
<1>2. ASSUME NEW s \in Slots, ret' = "DENIED", UNCHANGED <<pte, records, next_handle>>
      PROVE  IInv'
  BY <1>2, ErrorStep DEF Codes
<1>3. ASSUME NEW s \in Slots, records[s].active,
             NEW i \in DOMAIN records[s].ranges, NEW p \in PagesOf(records[s].ranges[i]),
             FirstFailure(v, records[s].ranges, i, p),
             pte' = MapThenUnmap(v, MappedBefore(records[s].ranges, i, p),
                                    RolledBack(records[s].ranges, i, p)),
             ret' = "DENIED", UNCHANGED <<records, next_handle>>
      PROVE  IInv'
  <2>1. records[s].ranges \in Seq(Range) /\ AllPages(records[s].ranges) \subseteq Pages
    BY <1>3, ActiveRecord DEF IInv
  <2>2. TypeOK
    BY DEF IInv
  <2>3. pte' = pte
    BY <1>3, <2>1, <2>2, Rollback
  <2>4. QED
    BY <1>3, <2>3, ErrorStep DEF Codes
<1>4. ASSUME NEW s \in Slots, records[s].active, records[s].receiver = v, ~records[s].retrieved,
             \A i \in DOMAIN records[s].ranges : \A p \in PagesOf(records[s].ranges[i]) :
               ~MapFails(v, records[s].ranges, i, p),
             pte' = MapThenUnmap(v, AllPages(records[s].ranges), {}),
             records' = [records EXCEPT ![s] = [records[s] EXCEPT !.retrieved = TRUE]],
             ret' = "SUCCESS", UNCHANGED next_handle
      PROVE  IInv'
  <2> DEFINE S == AllPages(records[s].ranges)
             r == [records[s] EXCEPT !.retrieved = TRUE]
  <2>1. \A q \in S : pte[v][q] = Unmapped
    BY <1>4 DEF AllPages, MapFails
  <2>2. /\ pte' \in [VMs -> [Pages -> Entries]]
        /\ \A u \in VMs, q \in Pages : pte'[u][q] =
             IF u = v /\ q \in S THEN Entry("SharedBorrowed", "RW") ELSE pte[u][q]
    <3>1. TypeOK /\ pte' = MapThenUnmap(v, S, {})
      BY <1>4 DEF IInv
    <3> HIDE DEF S
    <3>2. pte' \in [VMs -> [Pages -> Entries]]
      BY <3>1, MapThenUnmapEntries
    <3>3. \A u \in VMs, q \in Pages : pte'[u][q] =
             IF u = v /\ q \in S THEN Entry("SharedBorrowed", "RW") ELSE pte[u][q]
      BY <3>1, MapThenUnmapEntries
    <3>4. QED
      BY <3>2, <3>3
  <2>3. /\ r \in Record /\ r.active /\ r.retrieved
        /\ r.ranges = records[s].ranges /\ r.receiver = v
        /\ r.sender = records[s].sender /\ r.is_lend = records[s].is_lend
    BY <1>4, ActiveRecord, SetRetrieved, Zenon DEF IInv
  <2>4. /\ records' \in [Slots -> Record \cup {Inactive}]
        /\ records'[s] = r
        /\ \A t \in Slots \ {s} : records'[t] = records[t]
        /\ \A t \in Slots : \A q : Covers(t, q)' <=> Covers(t, q)
    <3>1. TypeOK /\ records' = [records EXCEPT ![s] = r]
      BY <1>4 DEF IInv
    <3>2. r \in Record \cup {Inactive} /\ (r.active => r.ranges = records[s].ranges)
      BY <2>3
    <3>3. records[s].active
      BY <1>4
    <3> HIDE DEF S, r
    <3>4. QED
      BY <2>3, <3>1, <3>2, <3>3, RecordChange, Zenon
  <2> HIDE DEF r
  <2>5. \A q : Covers(s, q) <=> q \in S
    BY <1>4 DEF Covers
  <2>6. TypeOK'
    BY <1>4, <2>2, <2>3, <2>4 DEF IInv, TypeOK, Inactive, Codes
  <2>7. \A u \in VMs, q \in Pages : IsHome(u, q) =>
          /\ pte'[u][q] = pte[u][q]
          /\ q \in S => u # v
    BY <2>1, <2>2, EntryFields DEF IInv, PageEntries, HomeEntry
  <2>8. PageEntries'
    <3>1. BorrowedEntry(Entry("SharedBorrowed", "RW"))
      BY DEF BorrowedEntry
    <3>2. QED
      BY <2>2, <2>7, <3>1 DEF IInv, PageEntries
  <2>9. GrantHoldsPages'
    BY <2>3, <2>4, <2>7 DEF IInv, GrantHoldsPages
  <2>10. GrantsDisjoint'
    BY <2>4 DEF IInv, GrantsDisjoint
  <2>11. RetrievedByOther'
    BY <2>3, <2>4, <2>5, <2>7 DEF IInv, RetrievedByOther
  <2>12. BorrowedIffRetrieved'
    <3> SUFFICES ASSUME NEW u \in VMs, NEW w \in VMs, NEW q \in Pages, IsHome(u, q), w # u
                 PROVE  pte'[w][q] # Unmapped <=>
                          \E t \in Slots : /\ Covers(t, q)'
                                          /\ records'[t].receiver = w /\ records'[t].retrieved
      BY DEF BorrowedIffRetrieved
    <3>1. CASE w = v /\ q \in S
      <4>1. pte'[w][q] # Unmapped
        BY <2>2, <3>1, EntryFields
      <4>2. QED
        BY <2>3, <2>4, <2>5, <3>1, <4>1
    <3>2. CASE ~(w = v /\ q \in S)
      <4>1. pte'[w][q] = pte[w][q]
        BY <2>2, <3>2
      <4>2. \A t \in Slots : Covers(t, q)' /\ records'[t].receiver = w /\ records'[t].retrieved
              <=> Covers(t, q) /\ records[t].receiver = w /\ records[t].retrieved
        BY <1>4, <2>3, <2>4, <2>5, <3>2
      <4>3. QED
        BY <4>1, <4>2 DEF IInv, BorrowedIffRetrieved
    <3>3. QED
      BY <3>1, <3>2
  <2>13. QED
    BY <2>6, <2>8, <2>9, <2>10, <2>11, <2>12 DEF IInv
<1>5. QED
  BY <1>1, <1>2, <1>3, <1>4 DEF mem_retrieve_req, lookup_share_full

\* MEM_RELINQUISH.  The pages leave the Stage-2 of the caller, which is not their
\* home, and no other record covers them.
LEMMA RelinquishStep ==
  ASSUME IInv, NEW v \in VMs, NEW h, mem_relinquish(v, h)
  PROVE  IInv'
<1>1. CASE Error("INVALID_PARAMETERS") \/ Error("DENIED")
  BY <1>1, ErrorStep DEF Error, Codes
<1>2. ASSUME NEW s \in Slots, records[s].active, records[s].receiver = v, records[s].retrieved,
             pte' = MapThenUnmap(v, {}, AllPages(records[s].ranges)),
             records' = [records EXCEPT ![s] = [records[s] EXCEPT !.retrieved = FALSE]],
             ret' = "SUCCESS", UNCHANGED next_handle
      PROVE  IInv'
  <2> DEFINE S == AllPages(records[s].ranges)
             r == [records[s] EXCEPT !.retrieved = FALSE]
  <2>1. \A q : Covers(s, q) <=> q \in S
    BY <1>2 DEF Covers
  <2>2. /\ pte' \in [VMs -> [Pages -> Entries]]
        /\ \A u \in VMs, q \in Pages : pte'[u][q] =
             IF u = v /\ q \in S THEN Unmapped ELSE pte[u][q]
    <3>1. TypeOK /\ pte' = MapThenUnmap(v, {}, S)
      BY <1>2 DEF IInv
    <3> HIDE DEF S
    <3>2. pte' \in [VMs -> [Pages -> Entries]]
      BY <3>1, MapThenUnmapEntries
    <3>3. \A u \in VMs, q \in Pages : pte'[u][q] =
             IF u = v /\ q \in S THEN Unmapped ELSE pte[u][q]
      BY <3>1, MapThenUnmapEntries
    <3>4. QED
      BY <3>2, <3>3
  <2>3. /\ r \in Record /\ r.active /\ ~r.retrieved
        /\ r.ranges = records[s].ranges /\ r.receiver = v
        /\ r.sender = records[s].sender /\ r.is_lend = records[s].is_lend
    BY <1>2, ActiveRecord, SetRetrieved, Zenon DEF IInv
  <2>4. /\ records' \in [Slots -> Record \cup {Inactive}]
        /\ records'[s] = r
        /\ \A t \in Slots \ {s} : records'[t] = records[t]
        /\ \A t \in Slots : \A q : Covers(t, q)' <=> Covers(t, q)
    <3>1. TypeOK /\ records' = [records EXCEPT ![s] = r]
      BY <1>2 DEF IInv
    <3>2. r \in Record \cup {Inactive} /\ (r.active => r.ranges = records[s].ranges)
      BY <2>3
    <3>3. records[s].active
      BY <1>2
    <3> HIDE DEF S, r
    <3>4. QED
      BY <2>3, <3>1, <3>2, <3>3, RecordChange, Zenon
  <2> HIDE DEF r
  <2>5. TypeOK'
    BY <1>2, <2>2, <2>3, <2>4 DEF IInv, TypeOK, Inactive, Codes
  <2>6. \A u \in VMs, q \in Pages : IsHome(u, q) => pte'[u][q] = pte[u][q]
    BY <1>2, <2>1, <2>2 DEF IInv, RetrievedByOther
  <2>7. PageEntries'
    <3>1. BorrowedEntry(Unmapped)
      BY DEF BorrowedEntry
    <3>2. QED
      BY <2>2, <2>6, <3>1 DEF IInv, PageEntries
  <2>8. GrantHoldsPages'
    BY <2>3, <2>4, <2>6 DEF IInv, GrantHoldsPages
  <2>9. GrantsDisjoint' /\ RetrievedByOther'
    BY <2>3, <2>4 DEF IInv, GrantsDisjoint, RetrievedByOther
  <2>10. BorrowedIffRetrieved'
    <3> SUFFICES ASSUME NEW u \in VMs, NEW w \in VMs, NEW q \in Pages, IsHome(u, q), w # u
                 PROVE  pte'[w][q] # Unmapped <=>
                          \E t \in Slots : /\ Covers(t, q)'
                                          /\ records'[t].receiver = w /\ records'[t].retrieved
      BY DEF BorrowedIffRetrieved
    <3>1. CASE w = v /\ q \in S
      <4>1. \A t \in Slots : Covers(t, q)' => t = s
        BY <2>1, <2>4, <3>1 DEF IInv, GrantsDisjoint
      <4>2. QED
        BY <2>2, <2>3, <2>4, <3>1, <4>1
    <3>2. CASE ~(w = v /\ q \in S)
      <4>1. pte'[w][q] = pte[w][q]
        BY <2>2, <3>2
      <4>2. \A t \in Slots : Covers(t, q)' /\ records'[t].receiver = w /\ records'[t].retrieved
              <=> Covers(t, q) /\ records[t].receiver = w /\ records[t].retrieved
        BY <1>2, <2>1, <2>3, <2>4, <3>2
      <4>3. QED
        BY <4>1, <4>2 DEF IInv, BorrowedIffRetrieved
    <3>3. QED
      BY <3>1, <3>2
  <2>11. QED
    BY <2>5, <2>7, <2>8, <2>9, <2>10 DEF IInv
<1>3. QED
  BY <1>1, <1>2 DEF mem_relinquish, lookup_share_full

\* What init_memory leaves: every page Owned where it is mapped, no record.
LEMMA InitInv == Init => IInv
<1> SUFFICES ASSUME Init PROVE IInv
  OBVIOUS
<1>1. Entry("Owned", "RW") \in Entries /\ Unmapped \in Entries
  BY DEF Entry, Entries, PageOwnership, S2AP
<1>2. \A s \in Slots : records[s] = Inactive /\ ~records[s].active
  BY DEF Init, Inactive
<1>3. TypeOK
  BY <1>1, <1>2 DEF Init, TypeOK, Codes
<1>4. \A s \in Slots : \A p : ~Covers(s, p)
  BY <1>2 DEF Covers
<1>5. \A v \in VMs, p \in Pages :
        pte[v][p] = IF p \in InitialPages[v] THEN Entry("Owned", "RW") ELSE Unmapped
  BY DEF Init
<1>6. PageEntries
  BY <1>5 DEF PageEntries, HomeEntry, BorrowedEntry, IsHome
<1>7. BorrowedIffRetrieved
  BY <1>4, <1>5 DEF BorrowedIffRetrieved, IsHome
<1>8. GrantHoldsPages /\ GrantsDisjoint /\ RetrievedByOther
  BY <1>4 DEF GrantHoldsPages, GrantsDisjoint, RetrievedByOther
<1>9. QED
  BY <1>3, <1>6, <1>7, <1>8 DEF IInv

\* Every call preserves the invariant.
LEMMA NextInv == IInv /\ [Next]_vars => IInv'
<1> SUFFICES ASSUME IInv, [Next]_vars PROVE IInv'
  OBVIOUS
<1>1. CASE UNCHANGED vars
  <2>1. ret' \in Codes /\ UNCHANGED <<pte, records, next_handle>>
    BY <1>1 DEF vars, IInv, TypeOK
  <2>2. QED
    BY <2>1, ErrorStep
<1>2. ASSUME NEW v \in VMs, NEW viaMailbox \in BOOLEAN, NEW senderOk \in BOOLEAN,
             NEW is_lend \in BOOLEAN, NEW recv \in Receivers \cup BadReceivers,
             NEW ranges \in Descriptors,
             mem_share_or_lend(v, viaMailbox, senderOk, recv, ranges, is_lend)
      PROVE  IInv'
  BY <1>2, ShareStep
<1>3. ASSUME NEW v \in VMs, NEW h, mem_reclaim(v, h) PROVE IInv'
  BY <1>3, ReclaimStep
<1>4. ASSUME NEW v \in VMs, NEW h, mem_retrieve_req(v, h) PROVE IInv'
  BY <1>4, RetrieveStep
<1>5. ASSUME NEW v \in VMs, NEW h, mem_relinquish(v, h) PROVE IInv'
  BY <1>5, RelinquishStep
<1>6. ASSUME NEW v \in VMs, mem_donate(v) PROVE IInv'
  BY <1>6, ErrorStep DEF mem_donate, Error, Codes
<1>7. QED
  BY <1>1, <1>2, <1>3, <1>4, <1>5, <1>6 DEF Next

\* The inductive invariant holds in every reachable state.
THEOREM Invariance == Spec => []IInv
BY InitInv, NextInv, PTL DEF Spec

\* The types of the state, for every call sequence.
THEOREM TypeCorrectness == Spec => []TypeOK
BY Invariance, PTL DEF IInv

\* An active record holds its pages SharedOwned at their home, no page is in two
\* records, and a foreign page is mapped exactly while it is retrieved.
THEOREM GrantSafety == Spec => [](GrantHoldsPages /\ GrantsDisjoint /\ BorrowedIffRetrieved)
BY Invariance, PTL DEF IInv

\* No page of guest RAM is ever writable by two VMs.
THEOREM SingleWriterTheorem == Spec => []SingleWriter
<1>1. IInv => SingleWriter
  <2> SUFFICES ASSUME IInv, NEW p \in Pages, NEW v \in VMs, NEW w \in VMs, NEW u \in VMs,
                      IsHome(u, p), pte[v][p].s2ap = "RW", pte[w][p].s2ap = "RW"
               PROVE  v = w
    BY DEF SingleWriter
  <2> USE EntryFields
  <2>1. ASSUME NEW x \in VMs, x # u, pte[x][p].s2ap = "RW"
        PROVE  /\ pte[u][p].s2ap # "RW"
               /\ \E s \in Slots : Covers(s, p) /\ records[s].receiver = x
    <3>1. pte[x][p] # Unmapped
      BY <2>1 DEF Unmapped
    <3>2. PICK s \in Slots : Covers(s, p) /\ records[s].receiver = x
      BY <2>1, <3>1 DEF IInv, BorrowedIffRetrieved
    <3>3. pte[u][p].s2ap # "RW"
      BY <3>2 DEF IInv, GrantHoldsPages
    <3>4. QED
      BY <3>2, <3>3
  <2>2. QED
    BY <2>1 DEF IInv, GrantsDisjoint
<1>2. QED
  BY <1>1, Invariance, PTL

\* A lent page is accessible to at most one VM.
THEOREM LentIsExclusiveTheorem == Spec => []LentIsExclusive
<1>1. IInv => LentIsExclusive
  <2> SUFFICES ASSUME IInv, NEW s \in Slots, NEW p \in Pages, NEW v \in VMs, NEW w \in VMs,
                      NEW u \in VMs, IsHome(u, p), Covers(s, p), records[s].is_lend,
                      pte[v][p].s2ap # "NONE", pte[w][p].s2ap # "NONE"
               PROVE  v = w
    BY DEF LentIsExclusive
  <2>1. pte[u][p].s2ap = "NONE"
    BY EntryFields DEF IInv, GrantHoldsPages
  <2>2. ASSUME NEW x \in VMs, x # u, pte[x][p].s2ap # "NONE"
        PROVE  records[s].receiver = x
    <3>1. pte[x][p] # Unmapped
      BY <2>2, EntryFields DEF Unmapped
    <3>2. QED
      BY <2>2, <3>1 DEF IInv, BorrowedIffRetrieved, GrantsDisjoint
  <2>3. QED
    BY <2>1, <2>2
<1>2. QED
  BY <1>1, Invariance, PTL

\* Handles are never reused: the counter is above every handle in use.
THEOREM HandlesUniqueTheorem == Spec => []HandlesUnique
<1>1. Init => HandlesUnique
  BY DEF Init, HandlesUnique, Inactive
<1>2. ASSUME IInv, HandlesUnique, [Next]_vars
      PROVE  HandlesUnique'
  <2>1. next_handle \in Nat /\ \A s \in Slots : records[s].active => records[s].handle \in Nat
    <3>1. \A s \in Slots : records[s].active => records[s] \in Record
      BY <1>2, ActiveRecord DEF IInv
    <3>2. QED
      BY <1>2, <3>1, Zenon DEF IInv, TypeOK, Record
  <2>2. CASE UNCHANGED <<records, next_handle>>
    BY <1>2, <2>2 DEF HandlesUnique
  <2>3. ASSUME NEW s \in Slots, NEW r, records' = [records EXCEPT ![s] = r],
               r.active => records[s].active /\ r.handle = records[s].handle,
               UNCHANGED next_handle
        PROVE  HandlesUnique'
    <3>1. /\ records'[s] = r
          /\ \A t \in Slots \ {s} : records'[t] = records[t]
      BY <1>2, <2>3 DEF IInv, TypeOK
    <3>2. QED
      BY <1>2, <2>3, <3>1 DEF HandlesUnique
  <2>4. ASSUME NEW v, NEW recv, NEW ranges, NEW is_lend, record_share(v, recv, ranges, is_lend)
        PROVE  HandlesUnique'
    <3>1. CASE UNCHANGED records
      BY <1>2, <2>1, <2>4, <3>1 DEF HandlesUnique, record_share, alloc_handle
    <3>2. ASSUME NEW s \in Slots, ~records[s].active,
                 NEW r, r.handle = next_handle, records' = [records EXCEPT ![s] = r]
          PROVE  HandlesUnique'
      <4>1. /\ records'[s] = r
            /\ \A t \in Slots \ {s} : records'[t] = records[t]
        BY <1>2, <3>2 DEF IInv, TypeOK
      <4>2. next_handle' = next_handle + 1
        BY <2>4 DEF record_share, alloc_handle
      <4>3. QED
        BY <1>2, <2>1, <3>2, <4>1, <4>2 DEF HandlesUnique
    <3>3. QED
      BY <2>4, <3>1, <3>2, Zenon DEF record_share, alloc_handle, FreeSlot
  <2>5. CASE UNCHANGED vars
    BY <2>2, <2>5 DEF vars
  <2>6. ASSUME NEW v, NEW viaMailbox, NEW senderOk, NEW is_lend, NEW recv, NEW ranges,
               mem_share_or_lend(v, viaMailbox, senderOk, recv, ranges, is_lend)
        PROVE  HandlesUnique'
    BY <2>2, <2>4, <2>6 DEF mem_share_or_lend, Error
  <2>7. ASSUME NEW v, NEW h, mem_reclaim(v, h) PROVE HandlesUnique'
    <3>1. ~Inactive.active
      BY DEF Inactive
    <3>2. QED
      BY <2>2, <2>3, <2>7, <3>1 DEF mem_reclaim, Restored, StillRetrieved, Error
  <2>8. \A s \in Slots, b \in BOOLEAN : records[s].active =>
          [records[s] EXCEPT !.retrieved = b].handle = records[s].handle
    <3>1. \A s \in Slots : records[s].active => records[s] \in Record
      BY <1>2, ActiveRecord DEF IInv
    <3>2. QED
      BY <3>1 DEF Record
  <2>9. ASSUME NEW v, NEW h, mem_retrieve_req(v, h) PROVE HandlesUnique'
    BY <2>2, <2>3, <2>8, <2>9, Zenon DEF mem_retrieve_req, lookup_share_full, Error
  <2>10. ASSUME NEW v, NEW h, mem_relinquish(v, h) PROVE HandlesUnique'
    BY <2>2, <2>3, <2>8, <2>10, Zenon DEF mem_relinquish, lookup_share_full, Error
  <2>11. ASSUME NEW v, mem_donate(v) PROVE HandlesUnique'
    BY <2>2, <2>11 DEF mem_donate, Error
  <2>12. QED
    BY <1>2, <2>5, <2>6, <2>7, <2>9, <2>10, <2>11 DEF Next
<1>3. QED
  BY <1>1, <1>2, Invariance, PTL DEF Spec

\* A call that returns DENIED, INVALID_PARAMETERS or NOT_SUPPORTED leaves every
\* Stage-2 and every record as they were; for MEM_RETRIEVE_REQ because the
\* rollback unmaps exactly what the call had mapped.
THEOREM FailedCallsTheorem == Spec => FailedCallsChangeNothing
<1>1. ASSUME TypeOK, [Next]_vars, ret' \in {"DENIED", "INVALID_PARAMETERS", "NOT_SUPPORTED"}
      PROVE  UNCHANGED <<pte, records>> \/ UNCHANGED vars
  <2>1. ASSUME NEW v \in VMs, NEW h, mem_retrieve_req(v, h)
        PROVE  UNCHANGED <<pte, records>>
    <3>1. ASSUME NEW s \in Slots, records[s].active,
                 NEW i \in DOMAIN records[s].ranges, NEW p \in PagesOf(records[s].ranges[i]),
                 FirstFailure(v, records[s].ranges, i, p),
                 pte' = MapThenUnmap(v, MappedBefore(records[s].ranges, i, p),
                                        RolledBack(records[s].ranges, i, p))
          PROVE  pte' = pte
      <4>1. records[s].ranges \in Seq(Range) /\ AllPages(records[s].ranges) \subseteq Pages
        BY <1>1, <3>1, ActiveRecord
      <4>2. QED
        BY <1>1, <3>1, <4>1, Rollback
    <3>2. QED
      BY <1>1, <2>1, <3>1 DEF mem_retrieve_req, lookup_share_full, Error
  <2>2. QED
    BY <1>1, <2>1 DEF Next, mem_share_or_lend, record_share, mem_reclaim, mem_relinquish,
                      mem_donate, Error
<1>2. ASSUME TypeOK, [Next]_vars
      PROVE  [ret' \in {"DENIED", "INVALID_PARAMETERS", "NOT_SUPPORTED"}
                => UNCHANGED <<pte, records>>]_vars
  BY <1>1, <1>2
<1>3. QED
  BY <1>2, TypeCorrectness, PTL DEF Spec, FailedCallsChangeNothing

\* Only MEM_RECLAIM frees a record.  If its caller is the sender, the pages of the
\* record that are its RAM become Owned and writable again; the record was not
\* retrieved and no other names those pages, so no other VM maps them.
THEOREM SenderReclaimTheorem == Spec => SenderReclaimRestores
<1> DEFINE Restores ==
      \A s \in Slots, p \in Pages :
        Covers(s, p) /\ ~records'[s].active /\ IsHome(records[s].sender, p)
          /\ pte'[records[s].sender] # pte[records[s].sender]
        => /\ pte'[records[s].sender][p] = Entry("Owned", "RW")
           /\ \A w \in VMs \ {records[s].sender} : pte'[w][p] = Unmapped
<1>1. ASSUME IInv, NEW v \in VMs, NEW h, mem_reclaim(v, h)
      PROVE  Restores
  <2> SUFFICES ASSUME NEW s \in Slots, NEW p \in Pages, Covers(s, p), ~records'[s].active,
                      IsHome(records[s].sender, p),
                      pte'[records[s].sender] # pte[records[s].sender]
               PROVE  /\ pte'[records[s].sender][p] = Entry("Owned", "RW")
                      /\ \A w \in VMs \ {records[s].sender} : pte'[w][p] = Unmapped
    OBVIOUS
  <2> DEFINE u == records[s].sender
             S == AllPages(records[s].ranges)
  <2>1. /\ records[s].active /\ p \in S
        /\ records[s] \in Record /\ u \in VMs
    BY <1>1, ActiveRecord, Zenon DEF Covers, IInv, Record
  <2>2. /\ ~records[s].retrieved
        /\ pte' = SetPages(v, S, "Owned", "RW")
    <3>1. PICK t \in Slots : /\ ~records[t].retrieved
                             /\ pte' = SetPages(v, AllPages(records[t].ranges), "Owned", "RW")
                             /\ records' = [records EXCEPT ![t] = Inactive]
      BY <1>1, <2>1 DEF mem_reclaim, Error, StillRetrieved, Restored
    <3>2. t = s
      BY <1>1, <2>1, <3>1 DEF IInv, TypeOK
    <3>3. QED
      BY <3>1, <3>2
  <2>3. \A x \in VMs, q \in Pages : pte'[x][q] =
          IF x = v /\ q \in S /\ pte[v][q] # Unmapped THEN Entry("Owned", "RW") ELSE pte[x][q]
    <3>1. "Owned" \in PageOwnership /\ "RW" \in S2AP /\ TypeOK
      BY <1>1 DEF PageOwnership, S2AP, IInv
    <3> HIDE DEF S
    <3>2. QED
      BY <2>2, <3>1, SetPagesEntries
  <2>4. pte' \in [VMs -> [Pages -> Entries]] /\ pte \in [VMs -> [Pages -> Entries]]
    <3>1. "Owned" \in PageOwnership /\ "RW" \in S2AP /\ TypeOK
      BY <1>1 DEF PageOwnership, S2AP, IInv
    <3> HIDE DEF S
    <3>2. QED
      BY <2>2, <3>1, SetPagesEntries, Zenon DEF TypeOK
  <2> HIDE DEF S
  <2>5. u = v
    <3>1. ASSUME u # v PROVE pte'[u] = pte[u]
      BY <2>1, <2>3, <2>4, <3>1
    <3>2. QED
      BY <3>1
  <2>6. pte[u][p] # Unmapped
    <3>1. pte[u][p] = Entry("SharedOwned", IF records[s].is_lend THEN "NONE" ELSE "RO")
      BY <1>1, <2>1 DEF IInv, GrantHoldsPages
    <3>2. QED
      BY <3>1, EntryFields DEF Unmapped
  <2>7. \A w \in VMs \ {u} : pte[w][p] = Unmapped
    BY <1>1, <2>1, <2>2 DEF IInv, BorrowedIffRetrieved, GrantsDisjoint
  <2>8. QED
    BY <2>1, <2>3, <2>5, <2>6, <2>7
<1>2. ASSUME \A s \in Slots : records[s].active => records'[s].active
      PROVE  Restores
  BY <1>2 DEF Covers
<1>3. ASSUME IInv, NEW s \in Slots, records[s].active, NEW b \in BOOLEAN,
             records' = [records EXCEPT ![s] = [records[s] EXCEPT !.retrieved = b]]
      PROVE  \A t \in Slots : records[t].active => records'[t].active
  <2>1. [records[s] EXCEPT !.retrieved = b].active
    BY <1>3, ActiveRecord, SetRetrieved DEF IInv
  <2>2. QED
    BY <1>3, <2>1 DEF IInv, TypeOK
<1>4. ASSUME IInv, NEW v \in VMs, NEW recv, NEW ranges, NEW is_lend,
             record_share(v, recv, ranges, is_lend)
      PROVE  \A t \in Slots : records[t].active => records'[t].active
  BY <1>4 DEF record_share, FreeSlot, IInv, TypeOK
<1>5. ASSUME IInv, Next
      PROVE  Restores
  <2> HIDE DEF Restores
  <2>1. ASSUME UNCHANGED records PROVE Restores
    BY <1>2, <2>1
  <2>2. ASSUME NEW v \in VMs, NEW viaMailbox, NEW senderOk, NEW is_lend, NEW recv, NEW ranges,
               mem_share_or_lend(v, viaMailbox, senderOk, recv, ranges, is_lend)
        PROVE  Restores
    BY <1>2, <1>4, <1>5, <2>1, <2>2 DEF mem_share_or_lend, Error
  <2>3. ASSUME NEW v \in VMs, NEW h, mem_retrieve_req(v, h) PROVE Restores
    BY <1>2, <1>3, <1>5, <2>1, <2>3, Zenon DEF mem_retrieve_req, lookup_share_full, Error
  <2>4. ASSUME NEW v \in VMs, NEW h, mem_relinquish(v, h) PROVE Restores
    BY <1>2, <1>3, <1>5, <2>1, <2>4, Zenon DEF mem_relinquish, lookup_share_full, Error
  <2>5. ASSUME NEW v \in VMs, mem_donate(v) PROVE Restores
    BY <2>1, <2>5 DEF mem_donate, Error
  <2>6. QED
    BY <1>1, <1>5, <2>2, <2>3, <2>4, <2>5 DEF Next
<1>6. IInv /\ [Next]_vars => [Restores]_vars
  BY <1>5
<1>7. QED
  BY <1>6, Invariance, PTL DEF Spec, SenderReclaimRestores
=============================================================================
