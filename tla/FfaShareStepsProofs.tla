------------------------ MODULE FfaShareStepsProofs ------------------------
(***************************************************************************)
(* Where one call runs at a time, MEM_SHARE, MEM_LEND and MEM_RECLAIM done *)
(* page by page and slot by slot implement the atomic calls of FfaMemory,  *)
(* for any number of vCPUs, pages, records and descriptors.                *)
(***************************************************************************)
EXTENDS FfaShareSteps, TLAPS

-----------------------------------------------------------------------------
(* The loops over the pages of a descriptor.                               *)

\* The numbers in a descriptor and the pages of a range.
LEMMA Shapes ==
  ASSUME NEW ranges \in Seq(Range)
  PROVE  /\ Len(ranges) \in Nat /\ DOMAIN ranges = 1 .. Len(ranges)
         /\ \A n \in DOMAIN ranges : ranges[n].base \in Nat /\ ranges[n].count \in Nat
         /\ \A n \in DOMAIN ranges : \A p : p \in Atomic!PagesOf(ranges[n]) <=>
              p \in Int /\ ranges[n].base <= p /\ p < ranges[n].base + ranges[n].count
<1>1. /\ Len(ranges) \in Nat /\ DOMAIN ranges = 1 .. Len(ranges)
      /\ \A n \in DOMAIN ranges : ranges[n] \in Range
  OBVIOUS
<1>2. \A r \in Range : r.base \in Nat /\ r.count \in Nat
  BY DEF Range
<1>3. ASSUME NEW b \in Nat, NEW e \in Nat, NEW p
      PROVE  p \in b .. (b + e - 1) <=> p \in Int /\ b <= p /\ p < b + e
  OBVIOUS
<1>4. \A r \in Range : \A p :
        p \in Atomic!PagesOf(r) <=> p \in Int /\ r.base <= p /\ p < r.base + r.count
  BY <1>2, <1>3 DEF Atomic!PagesOf
<1>5. QED
  BY <1>1, <1>2, <1>4

\* Before its first page a loop has been nowhere.
LEMMA VisitedStart ==
  ASSUME NEW k, k.ranges \in Seq(Range), k.i = 1, k.j = 0
  PROVE  Visited(k) = {} /\ Cursor(k)
<1>1. \A n \in DOMAIN k.ranges : ~(n < 1) /\ k.ranges[n].count \in Nat
  BY Shapes
<1>2. \A n \in DOMAIN k.ranges : \A p \in Atomic!PagesOf(k.ranges[n]) : ~(p < k.ranges[n].base + 0)
  BY Shapes
<1>3. Visited(k) = {}
  BY <1>1, <1>2 DEF Visited
<1>4. Cursor(k)
  BY <1>1, Shapes DEF Cursor
<1>5. QED
  BY <1>3, <1>4

\* After its last range it has been everywhere.
LEMMA VisitedAll ==
  ASSUME NEW k, k.ranges \in Seq(Range), k.i \in Nat, AllDone(k)
  PROVE  Visited(k) = Atomic!AllPages(k.ranges)
<1>1. \A n \in DOMAIN k.ranges : n < k.i
  BY DEF AllDone
<1>2. QED
  BY <1>1 DEF Visited, Atomic!AllPages

\* Going on to the next range, at the end of one, it has been at no other page.
LEMMA VisitedRange ==
  ASSUME NEW k, k.ranges \in Seq(Range), k.i \in Nat \ {0}, k.j \in Nat,
         ~AllDone(k), RangeDone(k),
         NEW m, m.ranges = k.ranges, m.i = k.i + 1, m.j = 0
  PROVE  Visited(m) = Visited(k) /\ Cursor(m)
<1>1. \A n \in DOMAIN k.ranges : \A p \in Atomic!PagesOf(k.ranges[n]) :
        /\ ~(p < k.ranges[n].base + 0)
        /\ n = k.i => p < k.ranges[n].base + k.j
  BY Shapes DEF RangeDone
<1>2. \A n \in DOMAIN k.ranges : n < k.i + 1 <=> n < k.i \/ n = k.i
  BY Shapes
<1>3. \A n \in DOMAIN k.ranges : \A p \in Atomic!PagesOf(k.ranges[n]) :
        (n < m.i \/ (n = m.i /\ p < m.ranges[n].base + m.j))
           <=> (n < k.i \/ (n = k.i /\ p < k.ranges[n].base + k.j))
  BY <1>1, <1>2
<1>4. Visited(m) = Visited(k)
  BY <1>3 DEF Visited
<1>5. Cursor(m)
  BY Shapes DEF Cursor
<1>6. QED
  BY <1>4, <1>5

\* Going on to the next page, it has been at one page more.
LEMMA VisitedPage ==
  ASSUME NEW k, k.ranges \in Seq(Range), k.i \in Nat \ {0}, k.j \in Nat,
         ~AllDone(k), ~RangeDone(k), Cursor(k),
         NEW m, m.ranges = k.ranges, m.i = k.i, m.j = k.j + 1
  PROVE  /\ Visited(m) = Visited(k) \cup {Page(k)}
         /\ Cursor(m)
         /\ Page(k) \in Atomic!AllPages(k.ranges)
<1>1. k.i \in DOMAIN k.ranges
  BY Shapes DEF AllDone
<1>2. k.j < k.ranges[k.i].count
  <2>1. k.ranges[k.i].count \in Nat
    BY <1>1, Shapes
  <2>2. QED
    BY <2>1, <1>1, Shapes DEF RangeDone, Cursor
<1>3. Page(k) \in Atomic!PagesOf(k.ranges[k.i])
  <2>1. k.ranges[k.i].base \in Nat /\ k.ranges[k.i].count \in Nat
    BY <1>1, Shapes
  <2>2. Page(k) \in Int /\ k.ranges[k.i].base <= Page(k)
          /\ Page(k) < k.ranges[k.i].base + k.ranges[k.i].count
    BY <1>2, <2>1 DEF Page
  <2>3. QED
    BY <1>1, <2>2, Shapes
<1>4. Page(k) \in Atomic!AllPages(k.ranges)
  BY <1>1, <1>3 DEF Atomic!AllPages
<1>5. \A p \in Atomic!PagesOf(k.ranges[k.i]) :
        p < k.ranges[k.i].base + (k.j + 1) <=> p < k.ranges[k.i].base + k.j \/ p = Page(k)
  <2>1. k.ranges[k.i].base \in Nat
    BY <1>1, Shapes
  <2>2. Page(k) = k.ranges[k.i].base + k.j
    BY DEF Page
  <2>3. \A p \in Int :
        p < k.ranges[k.i].base + (k.j + 1) <=> p < k.ranges[k.i].base + k.j \/ p = Page(k)
    BY <2>1, <2>2
  <2>4. QED
    BY <1>1, <2>3, Shapes
<1>6. \A p \in Visited(m) : p \in Visited(k) \/ p = Page(k)
  BY <1>5 DEF Visited
<1>7. \A p \in Visited(k) : p \in Visited(m)
  BY <1>5, Zenon DEF Visited
<1>8. Page(k) \in Visited(m)
  BY <1>1, <1>3, <1>4, <1>5 DEF Visited
<1>9. Cursor(m)
  <2>1. k.ranges[k.i].count \in Nat
    BY <1>1, Shapes
  <2>2. QED
    BY <1>2, <2>1 DEF Cursor
<1>10. QED
  BY <1>4, <1>6, <1>7, <1>8, <1>9

-----------------------------------------------------------------------------
(* A step of a call, and what FfaMemory sees of it.                        *)

\* The place of a call says which of the cases of At it is in.
LEMMA Places ==
  ASSUME StepsInv, NEW c \in CPUs
  PROVE  /\ call[c].at = "validate" => InValidate(call[c])
         /\ call[c].at = "transition" => InTransition(call[c])
         /\ call[c].at \in {"scan", "write"} => InRecord(call[c])
         /\ call[c].at = "lookup" => InLookup(call[c])
         /\ call[c].at = "restore" => InRestore(call[c])
         /\ call[c].at = "remove" => InRemove(call[c])
         /\ call[c].at # "idle" => call[c] # Idle
<1>1. At(call[c])
  BY DEF StepsInv
<1>2. Idle.at = "idle"
  BY DEF Idle
<1>3. /\ InValidate(call[c]) => call[c].at = "validate"
      /\ InTransition(call[c]) => call[c].at = "transition"
      /\ InRecord(call[c]) => call[c].at \in {"scan", "write"}
      /\ InLookup(call[c]) => call[c].at = "lookup"
      /\ InRestore(call[c]) => call[c].at = "restore"
      /\ InRemove(call[c]) => call[c].at = "remove"
  BY DEF InValidate, InTransition, InRecord, InLookup, InRestore, InRemove, ShareLoop, RestoreLoop
<1>4. QED
  BY <1>1, <1>2, <1>3 DEF At

\* A call begins: FfaMemory sees the state it had.
LEMMA Begins ==
  ASSUME StepsInv, Quiet, NEW c \in CPUs, NEW m, m # Idle, call' = [call EXCEPT ![c] = m],
         before' = [pte |-> pte, records |-> records, next_handle |-> next_handle],
         UNCHANGED <<pte, records, next_handle, ret>>, At(call[c])'
  PROVE  StepsInv' /\ Atomic!vars' = Atomic!vars
<1>1. call'[c] = m /\ DOMAIN call' = CPUs /\ \A d \in CPUs \ {c} : call'[d] = Idle
  BY DEF StepsInv, Quiet
<1>2. before'.pte = pte /\ before'.records = records /\ before'.next_handle = next_handle
  OBVIOUS
<1>3. Tables'
  BY <1>2 DEF StepsInv, Tables
<1>4. \A d \in CPUs : At(call[d])'
  BY <1>1 DEF At
<1>5. StepsInv'
  BY <1>1, <1>3, <1>4 DEF StepsInv
<1>6. ~Quiet'
  BY <1>1 DEF Quiet
<1>7. QED
  BY <1>2, <1>5, <1>6 DEF Atomic!vars

\* It goes on: FfaMemory sees the state it began with.
LEMMA GoesOn ==
  ASSUME StepsInv, NEW c \in CPUs, call[c] # Idle, NEW m, m # Idle,
         call' = [call EXCEPT ![c] = m], UNCHANGED <<ret, before>>, Tables', At(call[c])'
  PROVE  StepsInv' /\ Atomic!vars' = Atomic!vars
<1>1. call'[c] = m /\ DOMAIN call' = CPUs /\ \A d \in CPUs \ {c} : call'[d] = Idle
  BY DEF StepsInv
<1>2. \A d \in CPUs : At(call[d])'
  BY <1>1 DEF At
<1>3. StepsInv'
  BY <1>1, <1>2 DEF StepsInv
<1>4. ~Quiet /\ ~Quiet'
  BY <1>1 DEF Quiet
<1>5. QED
  BY <1>3, <1>4 DEF Atomic!vars

\* It returns: FfaMemory sees all it has done.
LEMMA Returns ==
  ASSUME StepsInv, NEW c \in CPUs, call[c] # Idle, call' = [call EXCEPT ![c] = Idle], Tables'
  PROVE  StepsInv' /\ ~Quiet /\ Quiet'
<1>1. DOMAIN call' = CPUs /\ \A d \in CPUs : call'[d] = Idle
  BY DEF StepsInv
<1>2. \A d \in CPUs : At(call[d])'
  BY <1>1 DEF At
<1>3. QED
  BY <1>1, <1>2 DEF StepsInv, Quiet

\* A call that changed nothing.
LEMMA ReturnsError ==
  ASSUME ~Quiet, Quiet', NEW code, ret' = code,
         pte' = before.pte, records' = before.records, next_handle' = before.next_handle
  PROVE  Atomic!Error(code)
BY DEF Atomic!Error

\* What FfaMemory does to the pages of S.
LEMMA AtomicSet ==
  ASSUME ~Quiet, NEW S, NEW sw, NEW ap
  PROVE  Atomic!SetPages(VM, S, sw, ap) = [v \in {VM} |-> Written(S, Entry(sw, ap))]
BY Zenon DEF Atomic!SetPages, Written, Entry, Unmapped, Pages, Atomic!Entry, Atomic!Unmapped, Atomic!Pages

\* A page is written in a loop.
LEMMA Writes ==
  ASSUME Tables, NEW S, NEW e \in Atomic!Entries, NEW p,
         pte = Written(S, e), WritePage(p, e), UNCHANGED before
  PROVE  pte' = Written(S \cup {p}, e)' /\ pte' \in [Pages -> Atomic!Entries]
<1>1. /\ pte \in [Pages -> Atomic!Entries]
      /\ pte' = [pte EXCEPT ![p] = IF @ = Unmapped THEN @ ELSE e]
      /\ before.pte \in [Pages -> Atomic!Entries]
  BY DEF Tables, WritePage
<1>2. pte' \in [Pages -> Atomic!Entries]
  BY <1>1, Zenon
<1>3. \A q \in Pages : pte'[q] = IF q = p /\ pte[q] # Unmapped THEN e ELSE pte[q]
  BY <1>1
<1>4. \A q \in Pages : pte[q] = IF q \in S /\ before.pte[q] # Unmapped THEN e ELSE before.pte[q]
  BY DEF Written
<1>5. \A q \in Pages : pte'[q] =
        IF q \in S \cup {p} /\ before.pte[q] # Unmapped THEN e ELSE before.pte[q]
  BY <1>3, <1>4
<1>6. pte' = [q \in Pages |->
        IF q \in S \cup {p} /\ before.pte[q] # Unmapped THEN e ELSE before.pte[q]]
  BY <1>2, <1>5
<1>7. QED
  BY <1>2, <1>6 DEF Written

\* What each step has to do: keep the invariant, and be a step of FfaMemory or none.
Simulates == StepsInv' /\ (Atomic!Next \/ Atomic!vars' = Atomic!vars)

-----------------------------------------------------------------------------
(* MEM_SHARE and MEM_LEND.                                                 *)

\* Going on changes the cursor alone.
LEMMA LoopRecord ==
  ASSUME NEW at, NEW k \in ShareLoop(at)
  PROVE  /\ NextRange(k) \in ShareLoop(at)
         /\ NextRange(k).i = k.i + 1 /\ NextRange(k).j = 0 /\ NextRange(k).ranges = k.ranges
         /\ NextRange(k).at = at /\ NextRange(k).is_lend = k.is_lend
         /\ NextPage(k) \in ShareLoop(at)
         /\ NextPage(k).i = k.i /\ NextPage(k).j = k.j + 1 /\ NextPage(k).ranges = k.ranges
         /\ NextPage(k).at = at /\ NextPage(k).is_lend = k.is_lend
         /\ k.recv \in Receivers /\ k.is_lend \in BOOLEAN
         /\ k.ranges \in Descriptors \ {<<>>} /\ k.ranges \in Seq(Range)
         /\ k.i \in Nat \ {0} /\ k.j \in Nat /\ k.at = at
<1>1. k = [at |-> at, i |-> k.i, j |-> k.j, recv |-> k.recv, ranges |-> k.ranges,
           is_lend |-> k.is_lend]
  BY DEF ShareLoop
<1>2. NextRange(k) = [at |-> at, i |-> k.i + 1, j |-> 0, recv |-> k.recv, ranges |-> k.ranges,
                      is_lend |-> k.is_lend]
  <2>1. PICK m : m = [k EXCEPT !.i = k.i + 1]
    BY Zenon
  <2>2. m = [at |-> at, i |-> k.i + 1, j |-> k.j, recv |-> k.recv, ranges |-> k.ranges,
             is_lend |-> k.is_lend]
    BY <1>1, <2>1
  <2>3. NextRange(k) = [m EXCEPT !.j = 0]
    BY <2>1 DEF NextRange
  <2>4. QED
    BY <2>2, <2>3
<1>3. NextPage(k) = [at |-> at, i |-> k.i, j |-> k.j + 1, recv |-> k.recv, ranges |-> k.ranges,
                     is_lend |-> k.is_lend]
  BY <1>1 DEF NextPage
<1>4. QED
  BY <1>2, <1>3, StepsAssumption DEF ShareLoop

\* The second loop starts at the first page.
LEMMA SecondLoop ==
  ASSUME NEW k \in ShareLoop("validate"),
         NEW m, m = [k EXCEPT !.at = "transition", !.i = 1, !.j = 0]
  PROVE  /\ m \in ShareLoop("transition")
         /\ m.i = 1 /\ m.j = 0 /\ m.ranges = k.ranges /\ m.at = "transition"
<1>1. PICK n : n = [k EXCEPT !.at = "transition"]
  BY Zenon
<1>2. PICK o : o = [n EXCEPT !.i = 1]
  BY Zenon
<1>3. n \in ShareLoop("transition") /\ n.ranges = k.ranges
  BY <1>1 DEF ShareLoop
<1>4. o \in ShareLoop("transition") /\ o.ranges = k.ranges /\ o.i = 1
  BY <1>2, <1>3 DEF ShareLoop
<1>5. m = [o EXCEPT !.j = 0]
  BY <1>1, <1>2
<1>6. QED
  BY <1>4, <1>5 DEF ShareLoop

\* share_begin: the record of the call is at the first page of the first loop.
LEMMA ShareBegins ==
  ASSUME StepsInv, OnePcpu, NEW c \in CPUs, NEW recv \in Receivers, NEW ranges \in Descriptors,
         NEW is_lend \in BOOLEAN, next_handle < MaxHandle, share_begin(c, recv, ranges, is_lend)
  PROVE  Simulates
<1> DEFINE m == [at |-> "validate", i |-> 1, j |-> 0,
                 recv |-> recv, ranges |-> ranges, is_lend |-> is_lend]
<1>1. Quiet /\ ranges # <<>>
  BY DEF share_begin, MayBegin, Quiet
<1>2. /\ call' = [call EXCEPT ![c] = m]
      /\ before' = [pte |-> pte, records |-> records, next_handle |-> next_handle]
      /\ UNCHANGED <<pte, records, next_handle, ret>>
  BY DEF share_begin, Begin
<1>3. /\ m.at = "validate" /\ m.i = 1 /\ m.j = 0 /\ m.ranges = ranges
      /\ m \in ShareLoop("validate")
      /\ m # Idle
  BY <1>1 DEF Idle, ShareLoop
<1> HIDE DEF m
<1>4. Visited(m) = {} /\ Cursor(m)
  BY <1>3, VisitedStart, StepsAssumption
<1>5. call'[c] = m
  BY <1>2 DEF StepsInv
<1>6. InValidate(call[c])'
  BY <1>2, <1>3, <1>4, <1>5 DEF InValidate, Share
<1>7. QED
  BY <1>1, <1>2, <1>3, <1>6, Begins, Zenon DEF Simulates, At

\* share_validate: a refusal is an error of FfaMemory, anything else invisible to it.
LEMMA ShareValidates ==
  ASSUME StepsInv, NEW c \in CPUs, share_validate(c)
  PROVE  Simulates
<1>1. PICK k : k = call[c]
  OBVIOUS
<1>2. k.at = "validate" /\ UNCHANGED shared /\ k # Idle /\ InValidate(k)
  BY <1>1, Places DEF share_validate
<1>3. /\ k \in ShareLoop("validate")
      /\ k.ranges \in Seq(Range) /\ k.i \in Nat \ {0} /\ k.j \in Nat /\ Cursor(k)
      /\ k.recv \in Receivers /\ k.ranges \in Descriptors \ {<<>>} /\ k.is_lend \in BOOLEAN
      /\ before.next_handle < MaxHandle /\ records = before.records
      /\ \A p \in Visited(k) : p \in Pages /\ before.pte[p].sw = "Owned"
      /\ pte = before.pte /\ next_handle = before.next_handle
  BY <1>2, LoopRecord DEF InValidate, Share
<1>4. UNCHANGED <<pte, records, next_handle>>
  BY <1>2 DEF shared
<1>5. ASSUME NEW m, call' = [call EXCEPT ![c] = m], UNCHANGED <<ret, before>>, m # Idle,
             At(call[c])'
      PROVE  Simulates
  <2>1. Tables'
    BY <1>4, <1>5 DEF StepsInv, Tables
  <2>2. QED
    BY <1>1, <1>2, <1>5, <2>1, GoesOn, Zenon DEF Simulates
<1>6. CASE AllDone(k)
  <2>1. PICK m : m = [k EXCEPT !.at = "transition", !.i = 1, !.j = 0]
    OBVIOUS
  <2>2. call' = [call EXCEPT ![c] = m] /\ UNCHANGED <<ret, before>> /\ call'[c] = m
    BY <1>1, <1>6, <2>1 DEF share_validate, Continue, StepsInv
  <2>3. /\ m \in ShareLoop("transition")
        /\ m.i = 1 /\ m.j = 0 /\ m.ranges = k.ranges /\ m.at # "idle"
    BY <1>3, <2>1, SecondLoop, Zenon
  <2>4. Visited(m) = {} /\ Cursor(m) /\ Visited(k) = Atomic!AllPages(k.ranges)
    BY <1>3, <1>6, <2>3, VisitedStart, VisitedAll
  <2>5. before.pte = Written({}, Grant(m))
    BY DEF Written, StepsInv, Tables
  <2>6. InTransition(call[c])'
    BY <1>3, <1>4, <2>2, <2>3, <2>4, <2>5 DEF InTransition, Share, Written, Grant
  <2>7. At(call[c])' /\ m # Idle
    BY <2>3, <2>6 DEF At, Idle
  <2>8. QED
    BY <1>5, <2>2, <2>7, Zenon
<1>7. CASE ~AllDone(k) /\ RangeDone(k)
  <2>1. PICK m : m = NextRange(k)
    OBVIOUS
  <2>2. call' = [call EXCEPT ![c] = m] /\ UNCHANGED <<ret, before>> /\ call'[c] = m
    BY <1>1, <1>7, <2>1 DEF share_validate, Continue, StepsInv
  <2>3. /\ m \in ShareLoop("validate")
        /\ m.i = k.i + 1 /\ m.j = 0 /\ m.ranges = k.ranges /\ m.at # "idle"
    BY <1>3, <2>1, LoopRecord
  <2>4. Visited(m) = Visited(k) /\ Cursor(m)
    BY <1>3, <1>7, <2>3, VisitedRange
  <2>5. InValidate(call[c])'
    BY <1>3, <1>4, <2>2, <2>3, <2>4 DEF InValidate, Share
  <2>6. At(call[c])' /\ m # Idle
    BY <2>3, <2>5 DEF At, Idle
  <2>7. QED
    BY <1>5, <2>2, <2>6, Zenon
<1>8. CASE ~AllDone(k) /\ ~RangeDone(k) /\ Page(k) \in Pages /\ pte[Page(k)].sw = "Owned"
  <2>1. PICK m : m = NextPage(k)
    OBVIOUS
  <2>2. call' = [call EXCEPT ![c] = m] /\ UNCHANGED <<ret, before>> /\ call'[c] = m
    BY <1>1, <1>8, <2>1 DEF share_validate, Continue, StepsInv
  <2>3. /\ m \in ShareLoop("validate")
        /\ m.i = k.i /\ m.j = k.j + 1 /\ m.ranges = k.ranges /\ m.at # "idle"
    BY <1>3, <2>1, LoopRecord
  <2>4. Visited(m) = Visited(k) \cup {Page(k)} /\ Cursor(m)
    BY <1>3, <1>8, <2>3, VisitedPage
  <2>5. InValidate(call[c])'
    BY <1>3, <1>4, <1>8, <2>2, <2>3, <2>4 DEF InValidate, Share
  <2>6. At(call[c])' /\ m # Idle
    BY <2>3, <2>5 DEF At, Idle
  <2>7. QED
    BY <1>5, <2>2, <2>6, Zenon
<1>9. CASE ~AllDone(k) /\ ~RangeDone(k) /\ ~(Page(k) \in Pages /\ pte[Page(k)].sw = "Owned")
  <2>1. call' = [call EXCEPT ![c] = Idle] /\ ret' = "DENIED" /\ before' = before
    BY <1>1, <1>9 DEF share_validate, Return
  <2>2. Tables'
    BY <1>4, <2>1 DEF StepsInv, Tables
  <2>3. StepsInv' /\ ~Quiet /\ Quiet'
    BY <1>1, <1>2, <2>1, <2>2, Returns, Zenon
  <2>4. Atomic!Error("DENIED")
    BY <1>3, <1>4, <2>1, <2>3, ReturnsError
  <2>5. Page(k) \in Atomic!AllPages(k.ranges)
    <3>1. PICK m : m = NextPage(k)
      OBVIOUS
    <3>2. m.i = k.i /\ m.j = k.j + 1 /\ m.ranges = k.ranges
      BY <1>3, <3>1, LoopRecord
    <3>3. QED
      BY <1>3, <1>9, <3>2, VisitedPage
  <2>6. Atomic!mem_share_or_lend(VM, TRUE, TRUE, k.recv, k.ranges, k.is_lend)
    BY <1>3, <1>9, <2>3, <2>4, <2>5
    DEF Atomic!mem_share_or_lend, Atomic!BadRequest, Atomic!validate_page_for_share, Pages,
        Atomic!Pages
  <2>7. Atomic!Next
    BY <1>3, <2>6, Zenon DEF Atomic!Next
  <2>8. QED
    BY <2>3, <2>7 DEF Simulates
<1>10. QED
  BY <1>6, <1>7, <1>8, <1>9

\* share_transition: a page more of the descriptor is written; FfaMemory sees nothing.
LEMMA ShareTransitions ==
  ASSUME StepsInv, NEW c \in CPUs, share_transition(c)
  PROVE  Simulates
<1>1. PICK k : k = call[c]
  OBVIOUS
<1>2. k.at = "transition" /\ k # Idle /\ InTransition(k) /\ UNCHANGED records
  BY <1>1, Places DEF share_transition
<1>3. /\ k \in ShareLoop("transition")
      /\ k.ranges \in Seq(Range) /\ k.i \in Nat \ {0} /\ k.j \in Nat /\ Cursor(k)
      /\ k.recv \in Receivers /\ k.ranges \in Descriptors \ {<<>>} /\ k.is_lend \in BOOLEAN
      /\ before.next_handle < MaxHandle /\ records = before.records
      /\ \A p \in Atomic!AllPages(k.ranges) : p \in Pages /\ before.pte[p].sw = "Owned"
      /\ pte = Written(Visited(k), Grant(k)) /\ next_handle = before.next_handle
  BY <1>2, LoopRecord DEF InTransition, Share
<1>4. ASSUME NEW m, call' = [call EXCEPT ![c] = m], UNCHANGED <<ret, before>>, m # Idle,
             At(call[c])', pte' \in [Pages -> Atomic!Entries],
             next_handle' \in {next_handle, next_handle + 1}
      PROVE  Simulates
  <2>1. next_handle \in Nat /\ \A s \in Slots : records[s].active => records[s].handle \in Nat
    <3>1. \A s \in Slots : records[s].active => records[s] \in Atomic!Record
      BY DEF StepsInv, Tables, Inactive
    <3>2. QED
      BY <3>1, Zenon DEF StepsInv, Tables, Atomic!Record
  <2>2. Tables'
    BY <1>2, <1>4, <2>1 DEF StepsInv, Tables
  <2>3. QED
    BY <1>1, <1>2, <1>4, <2>2, GoesOn, Zenon DEF Simulates
<1>5. pte \in [Pages -> Atomic!Entries] /\ Grant(k) \in Atomic!Entries
  BY <1>3 DEF StepsInv, Tables, Grant, Entry, Atomic!Entries, Atomic!PageOwnership, Atomic!S2AP
<1>6. CASE AllDone(k)
  <2>1. PICK m : m = [at |-> "scan", slot |-> 1, handle |-> next_handle,
                      recv |-> k.recv, ranges |-> k.ranges, is_lend |-> k.is_lend]
    BY Zenon
  <2>2. /\ call' = [call EXCEPT ![c] = m] /\ UNCHANGED <<ret, before, pte>> /\ call'[c] = m
        /\ next_handle' = next_handle + 1
    BY <1>1, <1>6, <2>1 DEF share_transition, alloc_handle, Continue, StepsInv
  <2>3. /\ m \in [at : {"scan", "write"}, slot : Nat \ {0}, handle : {before.next_handle},
                  recv : Receivers, ranges : Descriptors \ {<<>>}, is_lend : BOOLEAN]
        /\ m.at = "scan" /\ m.slot = 1 /\ m.ranges = k.ranges /\ m.is_lend = k.is_lend
        /\ m.handle = next_handle
    BY <1>3, <2>1
  <2>4. Visited(k) = Atomic!AllPages(k.ranges)
    BY <1>3, <1>6, VisitedAll
  <2>5. \A t \in Slots : ~(t < 1) /\ (records[t].active => records[t].handle < m.handle)
    BY <2>3 DEF Slots, StepsInv, Tables
  <2>6. Grant(m) = Grant(k)
    BY <2>3 DEF Grant
  <2>7. InRecord(call[c])'
    BY <1>2, <1>3, <2>2, <2>3, <2>4, <2>5, <2>6 DEF InRecord, Share, Written
  <2>8. At(call[c])' /\ m # Idle
    BY <2>3, <2>7 DEF At, Idle
  <2>9. QED
    BY <1>4, <1>5, <2>2, <2>8, Zenon
<1>7. CASE ~AllDone(k) /\ RangeDone(k)
  <2>1. PICK m : m = NextRange(k)
    OBVIOUS
  <2>2. /\ call' = [call EXCEPT ![c] = m] /\ UNCHANGED <<ret, before, pte, next_handle>>
        /\ call'[c] = m
    BY <1>1, <1>7, <2>1 DEF share_transition, Continue, StepsInv
  <2>3. /\ m \in ShareLoop("transition") /\ m.is_lend = k.is_lend
        /\ m.i = k.i + 1 /\ m.j = 0 /\ m.ranges = k.ranges /\ m.at # "idle"
    BY <1>3, <2>1, LoopRecord
  <2>4. Visited(m) = Visited(k) /\ Cursor(m) /\ Grant(m) = Grant(k)
    BY <1>3, <1>7, <2>3, VisitedRange DEF Grant
  <2>5. InTransition(call[c])'
    BY <1>2, <1>3, <2>2, <2>3, <2>4 DEF InTransition, Share, Written
  <2>6. At(call[c])' /\ m # Idle
    BY <2>3, <2>5 DEF At, Idle
  <2>7. QED
    BY <1>4, <1>5, <2>2, <2>6, Zenon
<1>8. CASE ~AllDone(k) /\ ~RangeDone(k)
  <2>1. PICK m : m = NextPage(k)
    OBVIOUS
  <2>2. /\ call' = [call EXCEPT ![c] = m] /\ UNCHANGED <<ret, before, next_handle>>
        /\ WritePage(Page(k), Grant(k))
        /\ call'[c] = m
    BY <1>1, <1>8, <2>1 DEF share_transition, Continue, StepsInv, Grant
  <2>3. /\ m \in ShareLoop("transition") /\ m.is_lend = k.is_lend
        /\ m.i = k.i /\ m.j = k.j + 1 /\ m.ranges = k.ranges /\ m.at # "idle"
    BY <1>3, <2>1, LoopRecord
  <2>4. Visited(m) = Visited(k) \cup {Page(k)} /\ Cursor(m) /\ Grant(m) = Grant(k)
    BY <1>3, <1>8, <2>3, VisitedPage DEF Grant
  <2>5. /\ pte' \in [Pages -> Atomic!Entries]
        /\ pte' = [q \in Pages |-> IF q \in Visited(k) \cup {Page(k)} /\ before'.pte[q] # Unmapped
                                   THEN Grant(k) ELSE before'.pte[q]]
    <3>1. PICK S, e, p : S = Visited(k) /\ e = Grant(k) /\ p = Page(k)
      OBVIOUS
    <3>2. Tables /\ e \in Atomic!Entries /\ pte = Written(S, e) /\ WritePage(p, e)
      BY <1>3, <1>5, <2>2, <3>1 DEF StepsInv, WritePage
    <3>3. pte' = Written(S \cup {p}, e)' /\ pte' \in [Pages -> Atomic!Entries]
      BY <2>2, <3>2, Writes
    <3>4. QED
      BY <3>1, <3>3 DEF Written
  <2>6. InTransition(call[c])'
    BY <1>2, <1>3, <2>2, <2>3, <2>4, <2>5 DEF InTransition, Share, Written
  <2>7. At(call[c])' /\ m # Idle
    BY <2>3, <2>6 DEF At, Idle
  <2>8. QED
    BY <1>4, <2>2, <2>5, <2>7, Zenon
<1>9. QED
  BY <1>6, <1>7, <1>8

\* The call of FfaMemory that a share is, once its pages are written.
LEMMA ShareCompletes ==
  ASSUME StepsInv, NEW k, InRecord(k), ~Quiet, Quiet', pte' = pte,
         Atomic!record_share(VM, k.recv, k.ranges, k.is_lend)
  PROVE  Atomic!Next
<1>1. /\ k.recv \in Receivers /\ k.ranges \in Descriptors \ {<<>>} /\ k.is_lend \in BOOLEAN
      /\ before.next_handle < MaxHandle
      /\ \A p \in Atomic!AllPages(k.ranges) : p \in Pages /\ before.pte[p].sw = "Owned"
      /\ pte = Written(Atomic!AllPages(k.ranges), Grant(k))
  BY DEF InRecord, Share
<1>2. [v \in {VM} |-> pte'] =
        Atomic!SetPages(VM, Atomic!AllPages(k.ranges), "SharedOwned", IF k.is_lend THEN "NONE" ELSE "RO")
  BY <1>1, AtomicSet DEF Grant
<1>3. Atomic!mem_share_or_lend(VM, TRUE, TRUE, k.recv, k.ranges, k.is_lend)
  BY <1>1, <1>2
  DEF Atomic!mem_share_or_lend, Atomic!BadRequest, Atomic!validate_page_for_share, Pages,
      Atomic!Pages
<1>4. QED
  BY <1>1, <1>3, Zenon DEF Atomic!Next

\* share_scan: a full table is the failure of FfaMemory, with its pages written.
LEMMA ShareScans ==
  ASSUME StepsInv, NEW c \in CPUs, share_scan(c)
  PROVE  Simulates
<1>1. PICK k : k = call[c]
  OBVIOUS
<1>2. k.at = "scan" /\ k # Idle /\ InRecord(k) /\ UNCHANGED <<pte, records, next_handle>>
  BY <1>1, Places DEF share_scan, shared
<1> DEFINE Searches == [at : {"scan", "write"}, slot : Nat \ {0}, handle : {before.next_handle},
                        recv : Receivers, ranges : Descriptors \ {<<>>}, is_lend : BOOLEAN]
<1>3. /\ k \in Searches /\ k.slot \in Nat \ {0}
      /\ k.ranges \in Descriptors \ {<<>>} /\ k.is_lend \in BOOLEAN
      /\ Share(Atomic!AllPages(k.ranges))
      /\ pte = Written(Atomic!AllPages(k.ranges), Grant(k))
      /\ next_handle = before.next_handle + 1
      /\ \A t \in Slots : /\ t < k.slot => records[t].active
                          /\ records[t].active => records[t].handle < k.handle
  BY <1>2 DEF InRecord
<1>4. CASE k.slot > MaxShares
  <2>1. call' = [call EXCEPT ![c] = Idle] /\ ret' = "NO_MEMORY" /\ before' = before
    BY <1>1, <1>4 DEF share_scan, Return
  <2>2. Tables'
    BY <1>2, <2>1 DEF StepsInv, Tables
  <2>3. StepsInv' /\ ~Quiet /\ Quiet'
    BY <1>1, <1>2, <2>1, <2>2, Returns, Zenon
  <2>4. \A t \in Slots : records[t].active
    BY <1>3, <1>4, StepsAssumption DEF Slots
  <2>5. Atomic!record_share(VM, k.recv, k.ranges, k.is_lend)
    BY <1>2, <1>3, <2>1, <2>3, <2>4
    DEF Atomic!record_share, Atomic!alloc_handle, Atomic!Slots, Slots, Share
  <2>6. QED
    BY <1>2, <2>3, <2>5, ShareCompletes DEF Simulates
<1>5. ASSUME NEW m \in Searches, call' = [call EXCEPT ![c] = m], UNCHANGED <<ret, before>>,
             m.ranges = k.ranges, m.is_lend = k.is_lend, m.handle = k.handle,
             \A t \in Slots : t < m.slot => records[t].active,
             m.at = "write" => m.slot \in Slots /\ ~records[m.slot].active
      PROVE  Simulates
  <2>1. call'[c] = m /\ m # Idle /\ Grant(m) = Grant(k)
    BY <1>5 DEF StepsInv, Idle, Grant
  <2>2. Tables'
    BY <1>2, <1>5 DEF StepsInv, Tables
  <2>3. InRecord(call[c])'
    BY <1>2, <1>3, <1>5, <2>1 DEF InRecord, Share, Written
  <2>4. At(call[c])'
    BY <2>3 DEF At
  <2>5. QED
    BY <1>1, <1>2, <1>5, <2>1, <2>2, <2>4, GoesOn, Zenon DEF Simulates
<1>6. CASE ~(k.slot > MaxShares) /\ SlotUsable(k.slot)
  <2>1. PICK m : m = [k EXCEPT !.at = "write"]
    BY Zenon
  <2>2. call' = [call EXCEPT ![c] = m] /\ UNCHANGED <<ret, before>>
    BY <1>1, <1>6, <2>1 DEF share_scan, Continue
  <2>3. /\ m \in Searches /\ m.ranges = k.ranges /\ m.is_lend = k.is_lend
        /\ m.handle = k.handle /\ m.slot = k.slot
    BY <1>3, <2>1
  <2>4. k.slot \in Slots /\ ~records[k.slot].active
    BY <1>3, <1>6, StepsAssumption DEF Slots, SlotUsable
  <2>5. QED
    BY <1>3, <1>5, <2>2, <2>3, <2>4, Zenon
<1>7. CASE ~(k.slot > MaxShares) /\ ~SlotUsable(k.slot)
  <2>1. PICK m : m = [k EXCEPT !.slot = @ + 1]
    BY Zenon
  <2>2. call' = [call EXCEPT ![c] = m] /\ UNCHANGED <<ret, before>>
    BY <1>1, <1>7, <2>1 DEF share_scan, Continue
  <2>3. /\ m \in Searches /\ m.ranges = k.ranges /\ m.is_lend = k.is_lend
        /\ m.handle = k.handle /\ m.slot = k.slot + 1 /\ m.at = "scan"
    BY <1>2, <1>3, <2>1
  <2>4. \A t \in Slots : t < m.slot => records[t].active
    BY <1>3, <1>7, <2>3 DEF Slots, SlotUsable
  <2>5. QED
    BY <1>5, <2>2, <2>3, <2>4, Zenon
<1>8. QED
  BY <1>4, <1>6, <1>7

\* share_write: the slot that was found is still free, so it is the one FfaMemory takes.
LEMMA ShareWrites ==
  ASSUME StepsInv, NEW c \in CPUs, share_write(c)
  PROVE  Simulates
<1>1. PICK k : k = call[c]
  OBVIOUS
<1>2. k.at = "write" /\ k # Idle /\ InRecord(k)
  BY <1>1, Places DEF share_write
<1>3. /\ k.ranges \in Descriptors /\ k.recv \in Receivers /\ k.is_lend \in BOOLEAN
      /\ k.handle = before.next_handle /\ next_handle = before.next_handle + 1
      /\ k.slot \in Slots /\ ~records[k.slot].active
      /\ \A t \in Slots : /\ t < k.slot => records[t].active
                          /\ records[t].active => records[t].handle < k.handle
      /\ records = before.records
  BY <1>2 DEF InRecord, Share
<1>4. PICK kept : kept = IF Len(k.ranges) <= MaxShareRanges THEN k.ranges
                         ELSE SubSeq(k.ranges, 1, MaxShareRanges)
  BY Zenon
<1>5. PICK r : r = [active |-> TRUE, handle |-> k.handle, sender |-> VM, receiver |-> k.recv,
                    ranges |-> kept, is_lend |-> k.is_lend, retrieved |-> FALSE]
  BY Zenon
<1>6. /\ records' = [records EXCEPT ![k.slot] = r] /\ UNCHANGED <<pte, next_handle, before>>
      /\ call' = [call EXCEPT ![c] = Idle] /\ ret' = "SUCCESS"
  BY <1>1, <1>4, <1>5 DEF share_write, Return
<1>7. /\ next_handle \in Nat /\ before.next_handle \in Nat
      /\ \A s \in Slots : records[s].active => records[s].handle \in Nat
  <2>1. \A s \in Slots : records[s].active => records[s] \in Atomic!Record
    BY DEF StepsInv, Tables, Inactive
  <2>2. QED
    BY <2>1, Zenon DEF StepsInv, Tables, Atomic!Record
<1>8. kept \in Seq(Range)
  <2>1. k.ranges \in Seq(Range)
    BY <1>3, StepsAssumption
  <2>2. CASE Len(k.ranges) <= MaxShareRanges
    BY <1>4, <2>1, <2>2
  <2>3. CASE ~(Len(k.ranges) <= MaxShareRanges)
    BY <1>4, <2>1, <2>3, StepsAssumption
  <2>4. QED
    BY <2>2, <2>3
<1>9. r \in Atomic!Record /\ r.active /\ ~r.retrieved /\ r.handle = k.handle
  BY <1>3, <1>5, <1>7, <1>8 DEF Atomic!Record, Atomic!Range, Range
<1>10. /\ records' \in [Slots -> Atomic!Record \cup {Inactive}]
       /\ records'[k.slot] = r /\ \A t \in Slots \ {k.slot} : records'[t] = records[t]
  BY <1>3, <1>6, <1>9 DEF StepsInv, Tables
<1>11. Tables'
  <2>1. \A s \in Slots : records'[s].active => ~records'[s].retrieved /\ records'[s].handle < next_handle
    BY <1>3, <1>7, <1>9, <1>10 DEF StepsInv, Tables
  <2>2. \A s, t \in Slots : records'[s].active /\ records'[t].active
                              /\ records'[s].handle = records'[t].handle => s = t
    BY <1>3, <1>7, <1>9, <1>10 DEF StepsInv, Tables
  <2>3. QED
    BY <1>6, <1>10, <2>1, <2>2 DEF StepsInv, Tables
<1>12. StepsInv' /\ ~Quiet /\ Quiet'
  BY <1>1, <1>2, <1>6, <1>11, Returns, Zenon
<1>13. Atomic!record_share(VM, k.recv, k.ranges, k.is_lend)
  <2>1. k.slot \in Atomic!Slots /\ Atomic!FreeSlot(k.slot)
    BY <1>3, <1>12 DEF Atomic!Slots, Slots, Atomic!FreeSlot
  <2>2. kept = Atomic!Stored(k.ranges)
    BY <1>4 DEF Atomic!Stored
  <2>3. records' = [before.records EXCEPT ![k.slot] =
          [active |-> TRUE, handle |-> before.next_handle, sender |-> VM, receiver |-> k.recv,
           ranges |-> Atomic!Stored(k.ranges), is_lend |-> k.is_lend, retrieved |-> FALSE]]
    BY <1>3, <1>5, <1>6, <2>2
  <2>4. Atomic!alloc_handle
    BY <1>3, <1>6, <1>12 DEF Atomic!alloc_handle
  <2>5. QED
    BY <1>6, <1>12, <2>1, <2>3, <2>4, Zenon DEF Atomic!record_share
<1>14. QED
  BY <1>2, <1>6, <1>12, <1>13, ShareCompletes DEF Simulates

-----------------------------------------------------------------------------
(* MEM_RECLAIM.                                                            *)

\* reclaim_begin: nothing is done yet.
LEMMA ReclaimBegins ==
  ASSUME StepsInv, OnePcpu, NEW c \in CPUs, NEW h \in 1..MaxHandle, reclaim_begin(c, h)
  PROVE  Simulates
<1>1. PICK m : m = [at |-> "lookup", handle |-> h]
  BY Zenon
<1>2. /\ Quiet /\ call' = [call EXCEPT ![c] = m]
      /\ before' = [pte |-> pte, records |-> records, next_handle |-> next_handle]
      /\ UNCHANGED <<pte, records, next_handle, ret>>
  BY <1>1 DEF reclaim_begin, MayBegin, Quiet, Begin
<1>3. m \in [at : {"lookup"}, handle : 1..MaxHandle] /\ m # Idle /\ call'[c] = m
  BY <1>1, <1>2 DEF Idle, StepsInv
<1>4. InLookup(call[c])'
  BY <1>2, <1>3 DEF InLookup, Reclaim
<1>5. At(call[c])'
  BY <1>4 DEF At
<1>6. QED
  BY <1>2, <1>3, <1>5, Begins, Zenon DEF Simulates

\* reclaim_lookup: an unknown handle is an error of FfaMemory.
LEMMA ReclaimLooks ==
  ASSUME StepsInv, NEW c \in CPUs, reclaim_lookup(c)
  PROVE  Simulates
<1>1. PICK k : k = call[c]
  OBVIOUS
<1>2. k.at = "lookup" /\ k # Idle /\ InLookup(k) /\ UNCHANGED <<pte, records, next_handle>>
  BY <1>1, Places DEF reclaim_lookup, shared
<1>3. /\ k.handle \in 1..MaxHandle /\ pte = before.pte
      /\ records = before.records /\ next_handle = before.next_handle
  BY <1>2 DEF InLookup, Reclaim
<1>4. ASSUME NEW s \in Slots, lookup_share_full(s, k.handle),
             NEW m, m = [at |-> "restore", handle |-> k.handle,
                         i |-> 1, j |-> 0, ranges |-> records[s].ranges],
             call' = [call EXCEPT ![c] = m], UNCHANGED <<ret, before>>
      PROVE  Simulates
  <2>1. records[s].ranges \in Seq(Range)
    <3>1. records[s] \in Atomic!Record
      BY <1>4 DEF StepsInv, Tables, Inactive, lookup_share_full
    <3>2. QED
      BY <3>1, Zenon DEF Atomic!Record, Atomic!Range, Range
  <2>2. /\ m \in RestoreLoop /\ m.i = 1 /\ m.j = 0 /\ m.ranges = records[s].ranges
        /\ m.handle = k.handle /\ m # Idle /\ call'[c] = m
    BY <1>3, <1>4, <2>1 DEF RestoreLoop, Idle, StepsInv
  <2>3. Visited(m) = {} /\ Cursor(m)
    BY <2>1, <2>2, VisitedStart
  <2>4. before.pte = Written({}, Entry("Owned", "RW"))
    BY DEF Written, StepsInv, Tables
  <2>5. InRestore(call[c])'
    BY <1>2, <1>3, <1>4, <2>2, <2>3, <2>4 DEF InRestore, Reclaim, lookup_share_full, Written
  <2>6. Tables' /\ At(call[c])'
    BY <1>2, <1>4, <2>5, Zenon DEF At, StepsInv, Tables
  <2>7. QED
    BY <1>1, <1>2, <1>4, <2>2, <2>6, GoesOn, Zenon DEF Simulates
<1>5. CASE /\ \A s \in Slots : ~lookup_share_full(s, k.handle)
           /\ Return(c, "INVALID_PARAMETERS")
  <2>1. Tables' /\ ret' = "INVALID_PARAMETERS" /\ call' = [call EXCEPT ![c] = Idle]
    BY <1>2, <1>5 DEF Return, StepsInv, Tables
  <2>2. StepsInv' /\ ~Quiet /\ Quiet'
    BY <1>1, <1>2, <2>1, Returns, Zenon
  <2>3. Atomic!Error("INVALID_PARAMETERS")
    BY <1>2, <1>3, <2>1, <2>2, ReturnsError
  <2>4. Atomic!mem_reclaim(VM, k.handle)
    BY <1>3, <1>5, <2>2, <2>3
    DEF Atomic!mem_reclaim, Atomic!lookup_share_full, lookup_share_full, Slots, Atomic!Slots
  <2>5. Atomic!Next
    BY <1>3, <2>4, StepsAssumption DEF Atomic!Next
  <2>6. QED
    BY <2>2, <2>5 DEF Simulates
<1>6. QED
  BY <1>1, <1>4, <1>5, Zenon DEF reclaim_lookup

\* Going on changes the cursor alone, here too.
LEMMA RestoreRecord ==
  ASSUME NEW k \in RestoreLoop
  PROVE  /\ NextRange(k) \in RestoreLoop /\ NextRange(k).handle = k.handle
         /\ NextRange(k).i = k.i + 1 /\ NextRange(k).j = 0 /\ NextRange(k).ranges = k.ranges
         /\ NextPage(k) \in RestoreLoop /\ NextPage(k).handle = k.handle
         /\ NextPage(k).i = k.i /\ NextPage(k).j = k.j + 1 /\ NextPage(k).ranges = k.ranges
<1>1. PICK m : m = [k EXCEPT !.i = k.i + 1]
  BY Zenon
<1>2. m \in RestoreLoop /\ m.i = k.i + 1 /\ m.ranges = k.ranges /\ m.handle = k.handle
  BY <1>1 DEF RestoreLoop
<1>3. NextRange(k) = [m EXCEPT !.j = 0]
  BY <1>1 DEF NextRange
<1>4. /\ NextRange(k) \in RestoreLoop /\ NextRange(k).handle = k.handle
      /\ NextRange(k).i = k.i + 1 /\ NextRange(k).j = 0 /\ NextRange(k).ranges = k.ranges
  BY <1>2, <1>3 DEF RestoreLoop
<1>5. /\ NextPage(k) \in RestoreLoop /\ NextPage(k).handle = k.handle
      /\ NextPage(k).i = k.i /\ NextPage(k).j = k.j + 1 /\ NextPage(k).ranges = k.ranges
  BY DEF NextPage, RestoreLoop
<1>6. QED
  BY <1>4, <1>5

\* reclaim_restore: a page more of the record is restored; FfaMemory sees nothing.
LEMMA ReclaimRestores ==
  ASSUME StepsInv, NEW c \in CPUs, reclaim_restore(c)
  PROVE  Simulates
<1>1. PICK k : k = call[c]
  OBVIOUS
<1>2. k.at = "restore" /\ k # Idle /\ InRestore(k) /\ UNCHANGED <<records, next_handle>>
  BY <1>1, Places DEF reclaim_restore
<1>3. PICK e : e = Entry("Owned", "RW")
  OBVIOUS
<1>4. /\ k \in RestoreLoop /\ k.handle \in 1..MaxHandle
      /\ k.ranges \in Seq(Range) /\ k.i \in Nat \ {0} /\ k.j \in Nat /\ Cursor(k)
      /\ records = before.records /\ next_handle = before.next_handle
      /\ \E s \in Slots : lookup_share_full(s, k.handle) /\ records[s].ranges = k.ranges
      /\ pte = Written(Visited(k), e)
  BY <1>2, <1>3 DEF InRestore, Reclaim, RestoreLoop
<1>5. pte \in [Pages -> Atomic!Entries] /\ e \in Atomic!Entries
  BY <1>3 DEF StepsInv, Tables, Entry, Atomic!Entries, Atomic!PageOwnership, Atomic!S2AP
<1>6. ASSUME NEW m, call' = [call EXCEPT ![c] = m], UNCHANGED <<ret, before>>, m # Idle,
             At(call[c])', pte' \in [Pages -> Atomic!Entries]
      PROVE  Simulates
  <2>1. Tables'
    BY <1>2, <1>6 DEF StepsInv, Tables
  <2>2. QED
    BY <1>1, <1>2, <1>6, <2>1, GoesOn, Zenon DEF Simulates
<1>7. CASE AllDone(k)
  <2>1. PICK m : m = [at |-> "remove", handle |-> k.handle]
    BY Zenon
  <2>2. call' = [call EXCEPT ![c] = m] /\ UNCHANGED <<ret, before, pte>> /\ call'[c] = m
    BY <1>1, <1>7, <2>1 DEF reclaim_restore, Continue, StepsInv
  <2>3. m \in [at : {"remove"}, handle : 1..MaxHandle] /\ m.handle = k.handle /\ m # Idle
    BY <1>4, <2>1 DEF Idle
  <2>4. Visited(k) = Atomic!AllPages(k.ranges)
    BY <1>4, <1>7, VisitedAll
  <2>5. InRemove(call[c])'
    BY <1>2, <1>3, <1>4, <2>2, <2>3, <2>4 DEF InRemove, Reclaim, lookup_share_full, Written
  <2>6. At(call[c])'
    BY <2>5 DEF At
  <2>7. QED
    BY <1>5, <1>6, <2>2, <2>3, <2>6, Zenon
<1>8. CASE ~AllDone(k) /\ RangeDone(k)
  <2>1. PICK m : m = NextRange(k)
    OBVIOUS
  <2>2. call' = [call EXCEPT ![c] = m] /\ UNCHANGED <<ret, before, pte>> /\ call'[c] = m
    BY <1>1, <1>8, <2>1 DEF reclaim_restore, Continue, StepsInv
  <2>3. /\ m \in RestoreLoop /\ m.handle = k.handle
        /\ m.i = k.i + 1 /\ m.j = 0 /\ m.ranges = k.ranges
    BY <1>4, <2>1, RestoreRecord
  <2>4. Visited(m) = Visited(k) /\ Cursor(m)
    BY <1>4, <1>8, <2>3, VisitedRange
  <2>5. InRestore(call[c])'
    BY <1>2, <1>3, <1>4, <2>2, <2>3, <2>4 DEF InRestore, Reclaim, lookup_share_full, Written
  <2>6. At(call[c])' /\ m # Idle
    BY <2>3, <2>5 DEF At, Idle, RestoreLoop
  <2>7. QED
    BY <1>5, <1>6, <2>2, <2>6, Zenon
<1>9. CASE ~AllDone(k) /\ ~RangeDone(k)
  <2>1. PICK m : m = NextPage(k)
    OBVIOUS
  <2>2. /\ call' = [call EXCEPT ![c] = m] /\ UNCHANGED <<ret, before>> /\ call'[c] = m
        /\ WritePage(Page(k), e)
    BY <1>1, <1>3, <1>9, <2>1 DEF reclaim_restore, Continue, StepsInv
  <2>3. /\ m \in RestoreLoop /\ m.handle = k.handle
        /\ m.i = k.i /\ m.j = k.j + 1 /\ m.ranges = k.ranges
    BY <1>4, <2>1, RestoreRecord
  <2>4. Visited(m) = Visited(k) \cup {Page(k)} /\ Cursor(m)
    BY <1>4, <1>9, <2>3, VisitedPage
  <2>5. /\ pte' \in [Pages -> Atomic!Entries]
        /\ pte' = [q \in Pages |-> IF q \in Visited(k) \cup {Page(k)} /\ before'.pte[q] # Unmapped
                                   THEN e ELSE before'.pte[q]]
    <3>1. PICK S, p : S = Visited(k) /\ p = Page(k)
      OBVIOUS
    <3>2. Tables /\ pte = Written(S, e) /\ WritePage(p, e)
      BY <1>4, <2>2, <3>1 DEF StepsInv, WritePage
    <3>3. pte' = Written(S \cup {p}, e)' /\ pte' \in [Pages -> Atomic!Entries]
      BY <1>5, <2>2, <3>2, Writes
    <3>4. QED
      BY <3>1, <3>3 DEF Written
  <2>6. InRestore(call[c])'
    BY <1>2, <1>3, <1>4, <2>2, <2>3, <2>4, <2>5 DEF InRestore, Reclaim, lookup_share_full, Written
  <2>7. At(call[c])' /\ m # Idle
    BY <2>3, <2>6 DEF At, Idle, RestoreLoop
  <2>8. QED
    BY <1>6, <2>2, <2>5, <2>7, Zenon
<1>10. QED
  BY <1>7, <1>8, <1>9

\* reclaim_remove: one record has the handle, and its removal ends the call of FfaMemory.
LEMMA ReclaimRemoves ==
  ASSUME StepsInv, NEW c \in CPUs, reclaim_remove(c)
  PROVE  Simulates
<1>1. PICK k : k = call[c]
  OBVIOUS
<1>2. k.at = "remove" /\ k # Idle /\ InRemove(k)
  BY <1>1, Places DEF reclaim_remove
<1>3. /\ k.handle \in 1..MaxHandle
      /\ records = before.records /\ next_handle = before.next_handle
  BY <1>2 DEF InRemove, Reclaim
<1>4. PICK s \in Slots : /\ lookup_share_full(s, k.handle)
                         /\ pte = Written(Atomic!AllPages(records[s].ranges), Entry("Owned", "RW"))
  BY <1>2 DEF InRemove
<1>5. /\ records' = [t \in Slots |-> IF lookup_share_full(t, k.handle) THEN Inactive ELSE records[t]]
      /\ call' = [call EXCEPT ![c] = Idle] /\ ret' = "SUCCESS"
      /\ UNCHANGED <<pte, next_handle, before>>
  BY <1>1 DEF reclaim_remove, Return
<1>6. \A t \in Slots : lookup_share_full(t, k.handle) <=> t = s
  BY <1>4 DEF StepsInv, Tables, lookup_share_full
<1>7. records' = [records EXCEPT ![s] = Inactive]
  BY <1>5, <1>6, Zenon DEF StepsInv, Tables
<1>8. /\ records' \in [Slots -> Atomic!Record \cup {Inactive}]
      /\ ~records'[s].active /\ \A t \in Slots \ {s} : records'[t] = records[t]
  BY <1>7 DEF StepsInv, Tables, Inactive
<1>9. Tables'
  BY <1>5, <1>8 DEF StepsInv, Tables
<1>10. StepsInv' /\ ~Quiet /\ Quiet'
  BY <1>1, <1>2, <1>5, <1>9, Returns, Zenon
<1>11. Atomic!mem_reclaim(VM, k.handle)
  <2>1. s \in Atomic!Slots /\ Atomic!lookup_share_full(s, k.handle) /\ ~Atomic!StillRetrieved(s)
    BY <1>3, <1>4, <1>10, Zenon
    DEF Atomic!Slots, Slots, Atomic!lookup_share_full, lookup_share_full, Atomic!StillRetrieved,
        StepsInv, Tables
  <2>2. [v \in {VM} |-> pte'] = Atomic!Restored(VM, s)
    BY <1>3, <1>4, <1>5, <1>10, AtomicSet DEF Atomic!Restored
  <2>3. records' = [before.records EXCEPT ![s] = Atomic!Inactive]
    BY <1>3, <1>7 DEF Inactive, Atomic!Inactive
  <2>4. QED
    BY <1>3, <1>5, <1>10, <2>1, <2>2, <2>3, Zenon DEF Atomic!mem_reclaim
<1>12. Atomic!Next
  BY <1>3, <1>11, StepsAssumption DEF Atomic!Next
<1>13. QED
  BY <1>10, <1>12 DEF Simulates

-----------------------------------------------------------------------------

\* Both start with no call under way, the same pages and no records.
LEMMA InitSteps == Init => StepsInv /\ Atomic!Init
<1> SUFFICES ASSUME Init PROVE StepsInv /\ Atomic!Init
  OBVIOUS
<1>1. Quiet /\ DOMAIN call = CPUs
  BY DEF Init, Quiet
<1>2. /\ before.pte = pte /\ before.next_handle = 1
      /\ \A s \in Slots : ~records[s].active
  BY DEF Init, Inactive
<1>3. Tables
  BY <1>2 DEF Init, Tables, Entry, Unmapped, Atomic!Entries, Atomic!Entry, Atomic!Unmapped,
              Atomic!PageOwnership, Atomic!S2AP
<1>4. StepsInv
  BY <1>1, <1>3 DEF StepsInv, Quiet, At
<1>5. Atomic!Init
  BY <1>1 DEF Init, Atomic!Init, Atomic!Pages, Pages, Atomic!Slots, Slots, Atomic!Inactive, Inactive,
              Atomic!Entry, Entry, Atomic!Unmapped, Unmapped
<1>6. QED
  BY <1>4, <1>5

\* Every step keeps the invariant and is a step of FfaMemory or invisible to it.
LEMMA NextSteps ==
  ASSUME OnePcpu, StepsInv, [Next]_vars
  PROVE  Simulates
<1>1. ASSUME NEW c \in CPUs, NEW recv \in Receivers, NEW ranges \in Descriptors,
             NEW is_lend \in BOOLEAN, next_handle < MaxHandle, share_begin(c, recv, ranges, is_lend)
      PROVE  Simulates
  BY <1>1, ShareBegins
<1>2. ASSUME NEW c \in CPUs,
             share_validate(c) \/ share_transition(c) \/ share_scan(c) \/ share_write(c)
      PROVE  Simulates
  BY <1>2, ShareValidates, ShareTransitions, ShareScans, ShareWrites
<1>3. ASSUME NEW c \in CPUs, NEW h \in 1..MaxHandle, reclaim_begin(c, h) PROVE Simulates
  BY <1>3, ReclaimBegins
<1>4. ASSUME NEW c \in CPUs, reclaim_lookup(c) \/ reclaim_restore(c) \/ reclaim_remove(c)
      PROVE  Simulates
  BY <1>4, ReclaimLooks, ReclaimRestores, ReclaimRemoves
<1>5. CASE UNCHANGED vars
  <2>1. StepsInv'
    <3>1. Tables' /\ UNCHANGED call
      BY <1>5 DEF vars, StepsInv, Tables
    <3>2. ASSUME NEW c \in CPUs PROVE At(call[c])'
      <4>1. At(call[c])
        BY DEF StepsInv
      <4>2. CASE call[c] = Idle
        BY <3>1, <4>2 DEF At
      <4>3. CASE InValidate(call[c])
        BY <1>5, <4>3 DEF vars, At, InValidate, Share
      <4>4. CASE InTransition(call[c])
        BY <1>5, <4>4 DEF vars, At, InTransition, Share, Written
      <4>5. CASE InRecord(call[c])
        BY <1>5, <4>5 DEF vars, At, InRecord, Share, Written
      <4>6. CASE InLookup(call[c])
        BY <1>5, <4>6 DEF vars, At, InLookup, Reclaim
      <4>7. CASE InRestore(call[c])
        BY <1>5, <4>7 DEF vars, At, InRestore, Reclaim, Written, lookup_share_full
      <4>8. CASE InRemove(call[c])
        BY <1>5, <4>8 DEF vars, At, InRemove, Reclaim, Written, lookup_share_full
      <4>9. QED
        BY <4>1, <4>2, <4>3, <4>4, <4>5, <4>6, <4>7, <4>8, Zenon DEF At
    <3>3. QED
      BY <3>1, <3>2 DEF StepsInv
  <2>2. Atomic!vars' = Atomic!vars
    BY <1>5 DEF vars, Atomic!vars, Quiet
  <2>3. QED
    BY <2>1, <2>2 DEF Simulates
<1>6. QED
  BY <1>1, <1>2, <1>3, <1>4, <1>5 DEF Next

\* In the single-pCPU builds one call at most is under way, and the tables are what its
\* place says: which pages are written, which slot is free, which record has the handle.
THEOREM StepsInvariance == OnePcpu /\ Spec => []StepsInv
PROOF
<1> SUFFICES ASSUME OnePcpu PROVE Spec => []StepsInv
  OBVIOUS
<1>1. StepsInv /\ [Next]_vars => StepsInv'
  BY NextSteps DEF Simulates
<1>2. Init => StepsInv
  BY InitSteps
<1> QED
  BY <1>1, <1>2, PTL DEF Spec

\* In the single-pCPU builds MEM_SHARE, MEM_LEND and MEM_RECLAIM, executed step by step, are
\* the atomic calls of FfaMemory: a return is one of its actions, any other step is
\* invisible to it.
THEOREM StepsImplement == OnePcpu /\ Spec => ImplementsFfaMemory
PROOF
<1> SUFFICES ASSUME OnePcpu PROVE Spec => ImplementsFfaMemory
  OBVIOUS
<1>1. Init => Atomic!Init
  BY InitSteps
<1>2. StepsInv /\ [Next]_vars => [Atomic!Next]_(Atomic!vars)
  BY NextSteps DEF Simulates
<1> QED
  BY <1>1, <1>2, StepsInvariance, PTL DEF Spec, ImplementsFfaMemory, Atomic!Spec

====
