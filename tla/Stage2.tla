------------------------------- MODULE Stage2 -------------------------------
(***************************************************************************)
(* Stage-2 translation tables: DynamicIdentityMapper (mm/mmu.rs) builds    *)
(* them at boot, as Vm::init_memory or build_sp_stage2 asks, from pages of *)
(* the heap (mm/allocator.rs); Stage2Walker (ffa/stage2_walker.rs) changes *)
(* single pages later, splitting blocks break-before-make, while CPUs      *)
(* translate through the tables and cache what they find.                  *)
(*                                                                         *)
(* A table has K entries.  Pages, blocks (of K pages) and heap pages are   *)
(* numbered.  The level-0 table does nothing but link to the level-1 one.  *)
(* The free list of the allocator is left out: nothing calls free_page.    *)
(***************************************************************************)
EXTENDS Integers, FiniteSets

CONSTANTS
  K,          \* entries of a table (512)
  MaxL2,      \* l2_tables.len() (4)
  HeapPages,  \* pages of the heap
  HeapStart, HeapEnd,  \* the heap takes the blocks HeapStart .. HeapEnd - 1
  GicBlocks,  \* blocks of the GIC region
  TrapPages,  \* pages of GICD and the GICRs
  UartBlock,  \* the block of SP_UART_BASE
  Guests,     \* what is built: kind "vm" or "sp", start and size in pages
  OpPages,    \* pages that walker operations name
  Touched,    \* pages that the guest touches
  Walkers,    \* CPUs that may run a walker operation
  Kinds,      \* operations that they run, of "sw", "s2ap", "map", "unmap"
  MaxOps      \* bound on walker operations

VARIABLES
  guest,    \* the member of Guests that the tables are built for
  boot,     \* what is still to be mapped, as normal or device memory, and to be unmapped
  m,        \* the tables and the heap, see New
  op,       \* the walker operation of each CPU
  ops,      \* number of walker operations begun
  tlb,      \* leaf entries that CPUs have cached
  saved,    \* not in the code: what the tables mapped before the operations under way
  applied   \* not in the code: what completed writes left in a page

vars == <<guest, boot, m, op, ops, tlb, saved, applied>>

Pages == 0 .. K * K * K - 1
BlockNos == 0 .. K * K - 1
Index == 0 .. K - 1
BlockOf(page) == page \div K

Invalid == [t |-> "invalid"]
Junk == [t |-> "junk"]  \* what a page of the heap holds before anything is written
Table(h) == [t |-> "table", to |-> h]
Leaf(t, pa, mem, ap, sw) == [t |-> t, pa |-> pa, mem |-> mem, ap |-> ap, sw |-> sw]
make_block_entry(block, mem) == Leaf("block", block * K, mem, "rw", 0)

Aps == {"none", "ro", "rw"}
Sws == 0 .. 3

-----------------------------------------------------------------------------
(* The heap and the tables.                                                *)

\* Whether alloc_page returns a page (which is s.next), and the heap afterwards.
\* Mutant: the last page of the heap is given out again.
CanAlloc(s) == s.next <= HeapPages
alloc_page_mutant(s) == IF s.next = HeapPages THEN s ELSE [s EXCEPT !.next = @ + 1]
alloc_page(s) == [s EXCEPT !.next = @ + 1]

\* A page taken from the heap and filled.
Fill(s, entries) == [alloc_page(s) EXCEPT !.tab[s.next] = entries]
Zeroed(s) == Fill(s, [i \in Index |-> Invalid])
Store(s, h, i, e) == [s EXCEPT !.tab[h][i] = e]

\* DynamicIdentityMapper::new: heap page 1 is the level-0 table, 2 the level-1 table.
L1 == 2
New ==
  Zeroed(Zeroed([tab |-> [h \in 1 .. HeapPages |-> [i \in Index |-> Junk]],
                 next |-> 1, count |-> 0, ok |-> TRUE]))

Failed(s) == [s EXCEPT !.ok = FALSE]

L1Entry(s, block) == s.tab[L1][block \div K]
HasL2(s, block) == L1Entry(s, block).t = "table"
L2Entry(s, block) == IF HasL2(s, block) THEN s.tab[L1Entry(s, block).to][block % K] ELSE Invalid
SetL2(s, block, e) == Store(s, L1Entry(s, block).to, block % K, e)
SetL3(s, page, e) == Store(s, L2Entry(s, BlockOf(page)).to, page % K, e)

\* The leaf entry for a page, as hardware and walk_to_leaf find it.
Walk(s, page) ==
  LET e == L2Entry(s, BlockOf(page))
  IN  IF e.t = "table" THEN s.tab[e.to][page % K] ELSE e

-----------------------------------------------------------------------------
(* DynamicIdentityMapper at boot, when no guest runs.                      *)

get_or_create_l2(s, block) ==
  IF HasL2(s, block) THEN s
  ELSE IF s.count >= MaxL2 \/ ~CanAlloc(s) THEN Failed(s)
  ELSE [Store(Zeroed(s), L1, block \div K, Table(s.next)) EXCEPT !.count = @ + 1]

\* The body of map_region's loop.
map_block(s, block, mem) ==
  LET l2 == get_or_create_l2(s, block)
  IN  IF l2.ok THEN SetL2(l2, block, make_block_entry(block, mem)) ELSE l2

\* The level-3 table of a split: every page keeps the attributes of the block.
\* A mutant gives every page the address of the block.
PagesOf_mutant(e) == [i \in Index |-> Leaf("page", e.pa, e.mem, e.ap, e.sw)]
PagesOf(e) == [i \in Index |-> Leaf("page", e.pa + i, e.mem, e.ap, e.sw)]
Filled(s, e) == Fill(s, PagesOf(e))

split_2mb_block(s, block) ==
  IF CanAlloc(s) THEN SetL2(Filled(s, L2Entry(s, block)), block, Table(s.next)) ELSE Failed(s)

unmap_4kb_page(s, page) ==
  LET b == BlockOf(page)
      t == IF L2Entry(s, b).t = "block" THEN split_2mb_block(s, b) ELSE s
  IN  IF L2Entry(s, b).t = "invalid" THEN Failed(s)
      ELSE IF t.ok THEN SetL3(t, page, Invalid) ELSE t

\* The calls of Vm::init_memory (init_memory_dynamic) and build_sp_stage2: what they map and
\* what they unmap afterwards.
Later(a, b) == IF a > b THEN a ELSE b
Earlier(a, b) == IF a < b THEN a ELSE b
RoundUp(size) == (size + K - 1) \div K
Memory(g) == [from |-> g.start \div K, to |-> g.start \div K + RoundUp(g.size)]

\* The guest's memory without what the heap takes of it.
Ram(from, to) ==
  LET overlap_start == Later(HeapStart, from)
      overlap_end == Earlier(HeapEnd, to)
  IN  IF overlap_start < overlap_end
      THEN (from .. overlap_start - 1) \cup (overlap_end .. to - 1)
      ELSE from .. to - 1

init_memory(g) ==
  [normal |-> Ram(Memory(g).from, Memory(g).to), device |-> GicBlocks, traps |-> TrapPages]
build_sp_stage2(g) ==
  [normal |-> Memory(g).from .. Memory(g).to - 1, device |-> {UartBlock}, traps |-> {}]
Calls(g) == IF g.kind = "vm" THEN init_memory(g) ELSE build_sp_stage2(g)

\* The numbers of what there is.  The pages of the GICs are in the GIC region, and a guest's
\* memory in the address space.  The level-2 tables of a guest and the level-3 tables of its
\* trapped pages find room, among the former and in the heap.
Slots(g) == {b \div K : b \in Calls(g).normal \cup Calls(g).device}
Splits(g) == {BlockOf(p) : p \in Calls(g).traps}
ASSUME Stage2Assumption ==
  /\ K \in Nat \ {0} /\ HeapPages \in Nat \ {0, 1}
  /\ MaxL2 \in Nat /\ MaxOps \in Nat /\ HeapStart \in Nat /\ HeapEnd \in Nat
  /\ GicBlocks \subseteq BlockNos /\ UartBlock \in BlockNos
  /\ TrapPages \subseteq Pages /\ {BlockOf(p) : p \in TrapPages} \subseteq GicBlocks
  /\ OpPages \subseteq Pages /\ Touched \subseteq Pages
  /\ \A g \in Guests :
       /\ g.start \in Nat /\ g.size \in Nat
       /\ Memory(g).from .. Memory(g).to - 1 \subseteq BlockNos
       /\ Cardinality(Slots(g)) <= MaxL2
       /\ 2 + Cardinality(Slots(g)) + Cardinality(Splits(g)) <= HeapPages

\* One block of a map_region, in ascending order, or one unmap_4kb_page.  An error is a
\* panic: nothing more happens.
First(x, S) == \A y \in S : x <= y
mapper_call ==
  /\ m.ok
  /\ \/ \E b \in boot.normal :
          /\ First(b, boot.normal)
          /\ m' = map_block(m, b, "normal")
          /\ boot' = [boot EXCEPT !.normal = @ \ {b}]
     \/ \E b \in boot.device :
          /\ boot.normal = {} /\ First(b, boot.device)
          /\ m' = map_block(m, b, "device")
          /\ boot' = [boot EXCEPT !.device = @ \ {b}]
     \/ \E p \in boot.traps :
          /\ boot.normal \cup boot.device = {} /\ First(p, boot.traps)
          /\ m' = unmap_4kb_page(m, p)
          /\ boot' = [boot EXCEPT !.traps = @ \ {p}]
  /\ UNCHANGED <<guest, op, ops, tlb, saved, applied>>

-----------------------------------------------------------------------------
(* Stage2Walker.  An operation goes through the states                     *)
(*   break   the level-3 table is filled, the block entry still stands     *)
(*   flush1  the level-2 entry is zero, the TLBs are not flushed yet       *)
(*   link    flushed                                                       *)
(*   flush2  the level-2 entry is the table                                *)
(*   leaf    the entry of the page is to be written                        *)
(*   tlbi    written, to be flushed                                        *)
(* On an error it returns and the tables keep what was done so far; of the *)
(* callers in proxy.rs only the one of map_page looks at the result.       *)

Idle == [at |-> "idle"]
Booted == boot.normal \cup boot.device \cup boot.traps = {} /\ m.ok
AllIdle == \A c \in Walkers : op[c] = Idle

\* A page and what is behind it; SW bits are the software's own.
Behind(e, page) ==
  IF e.t \in {"block", "page"}
  THEN [pa |-> IF e.t = "block" THEN e.pa + (page % K) ELSE e.pa, mem |-> e.mem, ap |-> e.ap, sw |-> e.sw]
  ELSE e
View(s) == [p \in Pages |-> Behind(Walk(s, p), p)]

Request(k, page, ap, sw) == [k |-> k, page |-> page, ap |-> ap, sw |-> sw]
Requests ==
  [k : Kinds \cap {"sw"}, page : OpPages, ap : {"rw"}, sw : {0, 1}]
    \cup [k : Kinds \cap {"s2ap"}, page : OpPages, ap : {"ro", "rw"}, sw : {0}]

Doing(at, r, h) == [at |-> at, r |-> r, l3 |-> h]
Begin(c, o) ==
  /\ Booted /\ guest.kind = "vm" /\ op[c] = Idle /\ ops < MaxOps
  /\ ops' = ops + 1
  /\ op' = [op EXCEPT ![c] = o]
  /\ saved' = IF AllIdle THEN View(m) ELSE saved
  /\ UNCHANGED <<guest, boot>>

\* write_sw_bits and set_s2ap of a block: split_block_if_needed allocates and fills a table.
split(c) == \E r \in Requests :
  LET e == L2Entry(m, BlockOf(r.page)) IN
  /\ e.t = "block" /\ CanAlloc(m)
  /\ Begin(c, Doing("break", r, m.next))
  /\ m' = Filled(m, e)
  /\ UNCHANGED <<tlb, applied>>

\* write_sw_bits, set_s2ap or unmap_page of a page that is mapped as such.
change(c) == \E r \in Requests \cup [k : Kinds \cap {"unmap"}, page : OpPages, ap : {"rw"}, sw : {0}] :
  /\ L2Entry(m, BlockOf(r.page)).t = "table" /\ Walk(m, r.page).t = "page"
  /\ Begin(c, Doing("leaf", r, 0))
  /\ UNCHANGED <<m, tlb, applied>>

\* What map_page leaves: no level-2 table, no level-3 table or no page, if the heap runs out.
LinkL2(s, page) ==
  IF HasL2(s, BlockOf(page)) \/ ~CanAlloc(s) THEN s
  ELSE Store(Zeroed(s), L1, BlockOf(page) \div K, Table(s.next))
LinkL3(s, page) ==
  IF ~HasL2(s, BlockOf(page)) \/ L2Entry(s, BlockOf(page)).t = "table" \/ ~CanAlloc(s) THEN s
  ELSE SetL2(Zeroed(s), BlockOf(page), Table(s.next))
Linked(s, page) == LinkL3(LinkL2(s, page), page)

\* map_page up to the write of the entry; invalid entries are not cached, so a CPU that
\* walks the new tables meanwhile sees what it saw before.
map_page(c) == \E page \in OpPages :
  LET sw == 1  \* owned by another
      s == Linked(m, page)
      ok == L2Entry(s, BlockOf(page)).t = "table"
  IN
  /\ "map" \in Kinds /\ Walk(m, page) = Invalid
  /\ Begin(c, IF ok THEN Doing("tlbi", Request("map", page, "rw", sw), 0) ELSE Idle)
  /\ m' = IF ok THEN SetL3(s, page, Leaf("page", page, "normal", "rw", sw)) ELSE s
  /\ applied' = IF ok THEN [applied EXCEPT ![page] = [ap |-> "rw", sw |-> sw]] ELSE applied
  /\ UNCHANGED tlb

At(c, step) == op[c].at = step
GoTo(c, step) == op' = [op EXCEPT ![c].at = step]
Return(c) == op' = [op EXCEPT ![c] = Idle]

\* Break: the entry is invalid before the table takes its place.
\* A mutant writes the table at once.
Broken_mutant(h) == Table(h)
Broken(h) == Invalid
break(c) ==
  /\ At(c, "break")
  /\ m' = SetL2(m, BlockOf(op[c].r.page), Broken(op[c].l3))
  /\ GoTo(c, "flush1")
  /\ UNCHANGED <<guest, boot, ops, tlb, saved, applied>>

\* tlbi_all and tlbi_ipa: what stays in the TLBs.
Covers(x, page) == IF x.e.t = "block" THEN BlockOf(x.page) = BlockOf(page) ELSE x.page = page
tlbi_all == {}
tlbi_ipa(page) == {x \in tlb : ~Covers(x, page)}

flush(c) ==
  /\ \/ At(c, "flush1") /\ GoTo(c, "link")
     \/ At(c, "flush2") /\ GoTo(c, "leaf")
  /\ tlb' = tlbi_all
  /\ UNCHANGED <<guest, boot, m, ops, saved, applied>>

link(c) ==
  /\ At(c, "link")
  /\ m' = SetL2(m, BlockOf(op[c].r.page), Table(op[c].l3))
  /\ GoTo(c, "flush2")
  /\ UNCHANGED <<guest, boot, ops, tlb, saved, applied>>

\* The new entry.  A mutant's set_s2ap clears the SW bits.
Written_mutant(r, e) ==
  IF r.k = "sw" THEN [e EXCEPT !.sw = r.sw]
  ELSE IF r.k = "s2ap" THEN [e EXCEPT !.ap = r.ap, !.sw = 0] ELSE Invalid
Written(r, e) ==
  IF r.k = "sw" THEN [e EXCEPT !.sw = r.sw]
  ELSE IF r.k = "s2ap" THEN [e EXCEPT !.ap = r.ap] ELSE Invalid

Nothing == [ap |-> "any", sw |-> -1]
Gone == [ap |-> "gone", sw |-> -1]
leaf(c) ==
  LET r == op[c].r IN
  /\ At(c, "leaf")
  /\ IF Walk(m, r.page).t \in {"block", "page"}
     THEN /\ m' = SetL3(m, r.page, Written(r, Walk(m, r.page)))
          /\ applied' = [applied EXCEPT ![r.page] =
                           CASE r.k = "sw" -> [@ EXCEPT !.sw = r.sw]
                             [] r.k = "s2ap" -> [@ EXCEPT !.ap = r.ap]
                             [] r.k = "unmap" -> Gone]
          /\ IF r.k = "sw" THEN Return(c) ELSE GoTo(c, "tlbi")
     ELSE Return(c) /\ UNCHANGED <<m, applied>>
  /\ UNCHANGED <<guest, boot, ops, tlb, saved>>

tlbi(c) ==
  /\ At(c, "tlbi")
  /\ tlb' = tlbi_ipa(op[c].r.page)
  /\ Return(c)
  /\ UNCHANGED <<guest, boot, m, ops, saved, applied>>

-----------------------------------------------------------------------------
(* Everyone else.                                                          *)

\* The guest touches a page on some CPU: a valid leaf may be cached, without the SW bits.
\* An invalid one is not, and the access is a data abort.
Cached(page) ==
  LET e == Walk(m, page)
  IN  [page |-> IF e.t = "block" THEN BlockOf(page) * K ELSE page, e |-> [e EXCEPT !.sw = 0]]
access == \E p \in Touched :
  /\ Booted
  /\ tlb' = IF Walk(m, p).t \in {"block", "page"} THEN tlb \cup {Cached(p)} ELSE tlb
  /\ UNCHANGED <<guest, boot, m, op, ops, saved, applied>>

\* Another guest's tables take a page of the heap.
other_alloc ==
  /\ Booted /\ AllIdle /\ CanAlloc(m)
  /\ m' = alloc_page(m)
  /\ UNCHANGED <<guest, boot, op, ops, tlb, saved, applied>>

Init ==
  /\ guest \in Guests
  /\ boot = Calls(guest)
  /\ m = New
  /\ op = [c \in Walkers |-> Idle]
  /\ ops = 0
  /\ tlb = {}
  /\ saved = View(New)
  /\ applied = [p \in OpPages |-> Nothing]

Walker(c) ==
  split(c) \/ change(c) \/ map_page(c) \/ break(c) \/ flush(c) \/ link(c) \/ leaf(c) \/ tlbi(c)
Next == mapper_call \/ access \/ other_alloc \/ \E c \in Walkers : Walker(c)
Spec == Init /\ [][Next]_vars

-----------------------------------------------------------------------------
Heap == 1 .. HeapPages
Tables == [t : {"table"}, to : Heap]
Leaves(t, addresses) ==
  [t : {t}, pa : addresses, mem : {"normal", "device"}, ap : {"ro", "rw"}, sw : {0, 1}]
BlockLeaves == Leaves("block", {b * K : b \in BlockNos})
PageLeaves == Leaves("page", Pages)
Entries == {Invalid, Junk} \cup Tables \cup BlockLeaves \cup PageLeaves

\* Every page of the heap holds entries that can be told apart, the bump pointer stays in
\* the heap, and the boot calls never fail.
TypeOK ==
  /\ guest \in Guests /\ m.ok /\ m.next \in 3 .. HeapPages + 1 /\ m.count \in 0 .. MaxL2
  /\ m.tab \in [Heap -> [Index -> Entries]]
  /\ ops \in 0 .. MaxOps /\ DOMAIN op = Walkers
  /\ \A c \in Walkers : op[c] # Idle => op[c].at \in {"break", "flush1", "link", "flush2", "leaf", "tlbi"}

\* What a guest is meant to have, page by page: its memory rounded to blocks and without the
\* heap, the GIC region without the trapped pages, or a partition's memory and UART.
Layout(g) ==
  LET ram == Memory(g).from .. Memory(g).to - 1
      mapped(mem, p) == [pa |-> p, mem |-> mem, ap |-> "rw", sw |-> 0]
      device == IF g.kind = "vm" THEN GicBlocks ELSE {UartBlock}
      heap == IF g.kind = "vm" THEN HeapStart .. HeapEnd - 1 ELSE {}
  IN  [p \in Pages |->
         IF g.kind = "vm" /\ p \in TrapPages THEN Invalid
         ELSE IF BlockOf(p) \in device THEN mapped("device", p)
         ELSE IF BlockOf(p) \in ram \ heap THEN mapped("normal", p)
         ELSE Invalid]

Meaning == IF ~Booted THEN Layout(guest) ELSE IF AllIdle THEN View(m) ELSE saved
Values == {Invalid} \cup [pa : Pages, mem : {"normal", "device"}, ap : {"ro", "rw"}, sw : {0, 1}]
Map == INSTANCE AddressMap WITH map <- Meaning

\* The tables that boot builds map exactly the guest's layout, and whatever an operation of
\* the walker splits, links or fails to allocate, it changes the page it names and no other.
ImplementsAddressMap == Map!Spec

\* Between operations a page is as the last completed writes of its access permission and of
\* its SW bits left it: no other operation, on its block or on itself, has undone one.
WritesKept ==
  Booted /\ AllIdle => \A p \in OpPages :
    LET e == Walk(m, p) IN
    /\ applied[p].ap \in Aps => e.t = "page" /\ e.ap = applied[p].ap
    /\ applied[p].sw \in Sws => e.t = "page" /\ e.sw = applied[p].sw
    /\ applied[p] = Gone => e = Invalid

\* A cached entry is the one in the tables, except between the write and the TLB
\* invalidation of an operation on that very page or block.  And no block is ever cached
\* together with another entry for its pages, which is what break-before-make is for.
TlbConsistent ==
  /\ \A x \in tlb :
       \/ [Walk(m, x.page) EXCEPT !.sw = 0] = x.e
       \/ \E c \in Walkers : op[c] # Idle /\ Covers(x, op[c].r.page) /\ op[c].at \in {"flush1", "tlbi"}
  /\ \A x, y \in tlb : x.e.t = "block" /\ x # y => ~Covers(x, y.page)

\* No page of the heap is two tables, nor a table and free: no two entries of the tables
\* link to the same page, none links back to the first two, and all are allocated.
Links == {a \in Heap \X Index : m.tab[a[1]][a[2]].t = "table"}
TablesDisjoint ==
  /\ TypeOK
  /\ \A a, b \in Links : a # b => m.tab[a[1]][a[2]].to # m.tab[b[1]][b[2]].to
  /\ \A a \in Links : m.tab[a[1]][a[2]].to \in 3 .. m.next - 1

\* stage2_walker.rs says that a block is split "so that only the target page is modified":
\* the other pages of the block stay mapped throughout.
OthersUndisturbed ==
  Booted /\ ~AllIdle => \A p \in Touched :
    (\A c \in Walkers : op[c] # Idle => op[c].r.page # p) /\ saved[p] # Invalid
      => (\E x \in tlb : Covers(x, p)) \/ Walk(m, p) # Invalid
=============================================================================
