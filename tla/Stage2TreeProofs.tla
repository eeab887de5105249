-------------------------- MODULE Stage2TreeProofs --------------------------
(***************************************************************************)
(* The Stage-2 tables are a tree, for every size of a table, every heap    *)
(* and layout in which the boot calls find room, and every choice of       *)
(* pages.                                                                  *)
(*                                                                         *)
(* Tree says that the tables are a tree of three levels with a table of    *)
(* pages or blocks at each place, and TreeInv adds what an operation under *)
(* way holds and how far boot has got.  It is inductive for any number of  *)
(* walkers, and no page of the heap is two tables.                         *)
(***************************************************************************)
EXTENDS Stage2, FiniteSetTheorems, TLAPS

-----------------------------------------------------------------------------
(* Numbers.                                                                *)

\* A page is in a block and has a place in it, a block has a slot and a place in it.
LEMMA DivMod ==
  ASSUME NEW k \in Nat \ {0}, NEW n \in Nat, NEW x \in 0 .. n * k - 1
  PROVE  /\ x \div k \in 0 .. n - 1
         /\ x % k \in 0 .. k - 1
         /\ x = (x \div k) * k + (x % k)
  <1>1. x \div k \in Int /\ x % k \in 0 .. k - 1 BY Z3
  <1>2. PICK q \in Int, r \in 0 .. k - 1 : q = x \div k /\ r = x % k BY <1>1
  <1>3. x = k * q + r BY <1>2, Z3
  <1>4. q >= 0 BY <1>3, Z3
  <1>5. q < n
    <2>1. SUFFICES ASSUME q >= n PROVE FALSE OBVIOUS
    <2>2. PICK d \in Nat : q = n + d BY <2>1, Z3
    <2>3. k * (n + d) = n * k + k * d /\ k * d >= 0 BY Z3
    <2>4. x = k * (n + d) + r BY <1>3, <2>2
    <2> QED BY <2>3, <2>4, Z3
  <1> QED BY <1>2, <1>3, <1>4, <1>5, Z3

\* What is in a block is a page.
LEMMA MulMono ==
  ASSUME NEW k \in Nat \ {0}, NEW n \in Nat, NEW b \in 0 .. n - 1, NEW i \in 0 .. k - 1
  PROVE  b * k + i \in 0 .. n * k - 1
  <1>1. (b + 1) * k <= n * k BY Z3
  <1>2. (b + 1) * k = b * k + k BY Z3
  <1>3. b * k \in Nat BY Z3
  <1> QED BY <1>1, <1>2, <1>3, Z3

\* The sizes of the tables are numbers.
LEMMA KFacts == K \in Nat \ {0} /\ K * K \in Nat /\ (K * K) * K \in Nat /\ (K * K) * K = K * K * K
  <1>1. K \in Nat \ {0} BY Stage2Assumption
  <1> QED BY <1>1, Z3

\* The block of a page and its place there.
LEMMA PageParts ==
  ASSUME NEW p \in Pages
  PROVE  /\ BlockOf(p) \in BlockNos /\ p % K \in Index
         /\ p = BlockOf(p) * K + (p % K)
  <1>1. PICK n \in Nat : n = K * K BY KFacts
  <1>2. p \in 0 .. n * K - 1 BY <1>1, KFacts DEF Pages
  <1> QED BY <1>1, <1>2, DivMod, KFacts, Zenon DEF BlockOf, BlockNos, Index

\* The slot of a block and its place there.
LEMMA BlockParts ==
  ASSUME NEW b \in BlockNos
  PROVE  /\ b \div K \in Index /\ b % K \in Index
         /\ b = (b \div K) * K + (b % K)
  BY DivMod, KFacts, Zenon DEF BlockNos, Index

\* Two pages with the same block and place are one, as are two blocks.
LEMMA SamePage ==
  ASSUME NEW p \in Pages, NEW q \in Pages, BlockOf(p) = BlockOf(q), p % K = q % K
  PROVE  p = q
  BY PageParts

\* So is a block, of its slot and place.
LEMMA SameBlock ==
  ASSUME NEW b \in BlockNos, NEW c \in BlockNos, b \div K = c \div K, b % K = c % K
  PROVE  b = c
  BY BlockParts

\* The page at a place of a block.
LEMMA PageAt ==
  ASSUME NEW b \in BlockNos, NEW i \in Index
  PROVE  b * K + i \in Pages
  <1>1. PICK n \in Nat : n = K * K BY KFacts
  <1> QED BY <1>1, MulMono, KFacts DEF BlockNos, Index, Pages

-----------------------------------------------------------------------------
(* The tables are a tree.                                                  *)

Mapper == [tab : [Heap -> [Index -> Entries]], next : 3 .. HeapPages + 1, count : Nat, ok : BOOLEAN]
IsLink(s, h, i) == s.tab[h][i].t = "table"
PageEntries == {Invalid} \cup PageLeaves

\* The level-1 table links to level-2 tables, whose entries are blocks or link to level-3
\* tables of pages.  Links are in these tables, to different ones, that were allocated.
Root(s) == \A j \in Index : s.tab[L1][j] = Invalid \/ IsLink(s, L1, j)
Allocated(s) == \A h \in Heap, i \in Index : IsLink(s, h, i) => s.tab[h][i].to \in 3 .. s.next - 1
InTree(s) == \A h \in Heap, i \in Index : IsLink(s, h, i) =>
               h = L1 \/ \E j \in Index : IsLink(s, L1, j) /\ s.tab[L1][j].to = h
Different(s) == \A h, g \in Heap, i, j \in Index :
                  IsLink(s, h, i) /\ IsLink(s, g, j) /\ s.tab[h][i].to = s.tab[g][j].to => h = g /\ i = j
Level2(s) == \A j, i \in Index : IsLink(s, L1, j) =>
               s.tab[s.tab[L1][j].to][i] \in {Invalid} \cup Tables \cup BlockLeaves
Level3(s) == \A j, i, k \in Index : IsLink(s, L1, j) /\ IsLink(s, s.tab[L1][j].to, i) =>
               s.tab[s.tab[s.tab[L1][j].to][i].to][k] \in PageEntries
Tree(s) ==
  /\ s \in Mapper /\ Root(s) /\ Allocated(s) /\ InTree(s) /\ Different(s)
  /\ Level2(s) /\ Level3(s)

\* A table of pages that nothing links to yet.
Loose(s, l) ==
  /\ l \in 3 .. s.next - 1
  /\ \A h \in Heap, i \in Index : IsLink(s, h, i) => s.tab[h][i].to # l
  /\ \A k \in Index : s.tab[l][k] \in PageEntries

\* The heap has at least the two pages of the level-0 and the level-1 table.
LEMMA HeapNat == HeapPages \in Nat /\ L1 \in Heap /\ Heap \subseteq Nat
  BY Stage2Assumption DEF Heap, L1

\* What one store and one allocation do.
Stored(s, t, h, i, e) ==
  /\ t \in Mapper /\ t.next = s.next /\ t.count = s.count /\ t.ok = s.ok
  /\ \A g \in Heap, j \in Index : t.tab[g][j] = IF g = h /\ j = i THEN e ELSE s.tab[g][j]
\* Store and Fill, entry by entry.
LEMMA StoreIs ==
  ASSUME NEW s \in Mapper, NEW h \in Heap, NEW i \in Index, NEW e \in Entries,
         NEW t, t = Store(s, h, i, e)
  PROVE  Stored(s, t, h, i, e)
  <1>1. PICK f : f = [s.tab[h] EXCEPT ![i] = e] BY Zenon
  <1>2. f \in [Index -> Entries] /\ \A j \in Index : f[j] = IF j = i THEN e ELSE s.tab[h][j]
    BY <1>1 DEF Mapper
  <1>3. PICK T : T = [s.tab EXCEPT ![h] = f] BY Zenon
  <1>4. T \in [Heap -> [Index -> Entries]] /\ \A g \in Heap : T[g] = IF g = h THEN f ELSE s.tab[g]
    BY <1>2, <1>3 DEF Mapper
  <1>5. Store(s, h, i, e) = [s EXCEPT !.tab = T]
    BY <1>1, <1>3 DEF Store, Mapper
  <1> HIDE DEF Store
  <1>6. Store(s, h, i, e) = [tab |-> T, next |-> s.next, count |-> s.count, ok |-> s.ok]
    BY <1>5 DEF Mapper
  <1> QED BY <1>2, <1>4, <1>6 DEF Mapper, Stored

\* Fill takes the next page of the heap and leaves the others.
LEMMA FillIs ==
  ASSUME NEW s \in Mapper, CanAlloc(s), NEW f \in [Index -> Entries],
         NEW t, t = Fill(s, f)
  PROVE  /\ t \in Mapper /\ t.next = s.next + 1 /\ t.count = s.count /\ t.ok = s.ok
         /\ s.next \in Heap
         /\ \A g \in Heap : t.tab[g] = IF g = s.next THEN f ELSE s.tab[g]
  <1>1. s.next \in Heap /\ s.next + 1 \in 3 .. HeapPages + 1 BY HeapNat DEF Mapper, CanAlloc, Heap
  <1>2. PICK T : T = [s.tab EXCEPT ![s.next] = f] BY Zenon
  <1>3. T \in [Heap -> [Index -> Entries]] /\ \A g \in Heap : T[g] = IF g = s.next THEN f ELSE s.tab[g]
    BY <1>1, <1>2 DEF Mapper
  <1>4. PICK a : a = alloc_page(s) OBVIOUS
  <1>5. a = [tab |-> s.tab, next |-> s.next + 1, count |-> s.count, ok |-> s.ok]
    BY <1>4 DEF alloc_page, Mapper
  <1>6. Fill(s, f) = [a EXCEPT !.tab = T] BY <1>2, <1>4, <1>5 DEF Fill
  <1>7. Fill(s, f) = [tab |-> T, next |-> s.next + 1, count |-> s.count, ok |-> s.ok]
    BY <1>5, <1>6
  <1> QED BY <1>1, <1>3, <1>7 DEF Mapper

\* What kind an entry is of tells what it is.
LEMMA EntryKinds ==
  /\ Invalid \in Entries /\ Invalid.t = "invalid"
  /\ \A h \in Heap : Table(h) \in Tables /\ Table(h).t = "table" /\ Table(h).to = h
  /\ Tables \subseteq Entries /\ \A e \in Tables : e.t = "table" /\ e.to \in Heap
  /\ BlockLeaves \subseteq Entries /\ \A e \in BlockLeaves : e.t = "block"
  /\ PageLeaves \subseteq Entries /\ \A e \in PageLeaves : e.t = "page"
  /\ PageEntries \subseteq Entries /\ \A e \in PageEntries : e.t # "table" /\ e.t # "block"
  BY DEF Entries, Invalid, Tables, Table, BlockLeaves, PageLeaves, Leaves, PageEntries

\* A link leads to a page of the heap that is not the level-1 table.
LEMMA LinkIs ==
  ASSUME NEW s \in Mapper, Allocated(s), NEW h \in Heap, NEW i \in Index, IsLink(s, h, i)
  PROVE  s.tab[h][i].to \in Heap /\ s.tab[h][i].to # L1 /\ s.tab[h][i].to < s.next
  BY HeapNat DEF Mapper, Allocated, Heap, L1

\* A tree stays one when an entry of a level-2 table becomes invalid, a block or a link to
\* a loose table.
LEMMA TreeStoreL2 ==
  ASSUME NEW s, Tree(s), NEW j \in Index, NEW i \in Index, IsLink(s, L1, j), NEW h, h = s.tab[L1][j].to,
         NEW e, \/ e \in {Invalid} \cup BlockLeaves
                \/ e \in Tables /\ Loose(s, e.to)
  PROVE  Tree(Store(s, h, i, e))
  <1>1. PICK t : t = Store(s, h, i, e) OBVIOUS
  <1>0. /\ s \in Mapper /\ Root(s) /\ Allocated(s) /\ InTree(s) /\ Different(s)
        /\ Level2(s) /\ Level3(s)
    BY DEF Tree
  <1>2. h \in Heap /\ h # L1 /\ e \in Entries
    BY <1>0, HeapNat, LinkIs, EntryKinds
  <1>3. /\ t \in Mapper /\ t.next = s.next /\ t.count = s.count /\ t.ok = s.ok
        /\ \A g \in Heap, k \in Index : t.tab[g][k] = IF g = h /\ k = i THEN e ELSE s.tab[g][k]
    <2>1. Stored(s, t, h, i, e) BY <1>0, <1>1, <1>2, StoreIs
    <2> QED BY <2>1 DEF Stored
  <1>4. \A k \in Index : t.tab[L1][k] = s.tab[L1][k] /\ (IsLink(t, L1, k) <=> IsLink(s, L1, k))
    BY <1>2, <1>3, HeapNat DEF IsLink
  <1>5. \A g \in Heap, k \in Index : IsLink(t, g, k) =>
          \/ g = h /\ k = i /\ e \in Tables /\ t.tab[g][k] = e /\ Loose(s, e.to)
          \/ ~(g = h /\ k = i) /\ t.tab[g][k] = s.tab[g][k] /\ IsLink(s, g, k)
    BY <1>2, <1>3, EntryKinds DEF IsLink
  <1>r. Root(t) BY <1>0, <1>4 DEF Root
  <1>6. Allocated(t) BY <1>0, <1>3, <1>5 DEF Allocated, Loose
  <1>7. InTree(t)
    <2> SUFFICES ASSUME NEW g \in Heap, NEW k \in Index, IsLink(t, g, k)
                 PROVE  g = L1 \/ \E l \in Index : IsLink(t, L1, l) /\ t.tab[L1][l].to = g
      BY DEF InTree
    <2>1. CASE g = h BY <2>1, <1>4
    <2>2. CASE g # h BY <2>2, <1>0, <1>4, <1>5 DEF InTree
    <2> QED BY <2>1, <2>2
  <1>8. Different(t)
    <2> SUFFICES ASSUME NEW g \in Heap, NEW f \in Heap, NEW k \in Index, NEW l \in Index,
                        IsLink(t, g, k), IsLink(t, f, l), t.tab[g][k].to = t.tab[f][l].to
                 PROVE  g = f /\ k = l
      BY DEF Different
    <2>1. CASE g = h /\ k = i /\ ~(f = h /\ l = i)
      <3>1. t.tab[g][k] = e /\ Loose(s, e.to) BY <1>5, <2>1, Zenon
      <3>2. t.tab[f][l] = s.tab[f][l] /\ IsLink(s, f, l) BY <1>5, <2>1, Zenon
      <3> QED BY <3>1, <3>2 DEF Loose
    <2>2. CASE f = h /\ l = i /\ ~(g = h /\ k = i)
      <3>1. t.tab[f][l] = e /\ Loose(s, e.to) BY <1>5, <2>2, Zenon
      <3>2. t.tab[g][k] = s.tab[g][k] /\ IsLink(s, g, k) BY <1>5, <2>2
      <3> QED BY <3>1, <3>2 DEF Loose
    <2>3. CASE ~(g = h /\ k = i) /\ ~(f = h /\ l = i) BY <1>0, <1>5, <2>3 DEF Different
    <2>4. CASE g = h /\ k = i /\ f = h /\ l = i BY <2>4
    <2> QED BY <2>1, <2>2, <2>3, <2>4
  <1>9. Level2(t)
    <2> SUFFICES ASSUME NEW l \in Index, NEW k \in Index, IsLink(t, L1, l)
                 PROVE  t.tab[t.tab[L1][l].to][k] \in {Invalid} \cup Tables \cup BlockLeaves
      BY DEF Level2
    <2>1. PICK g : g = t.tab[L1][l].to OBVIOUS
    <2>2. g = s.tab[L1][l].to /\ IsLink(s, L1, l) /\ g \in Heap BY <1>0, <1>4, <2>1, LinkIs, HeapNat
    <2>3. s.tab[g][k] \in {Invalid} \cup Tables \cup BlockLeaves BY <1>0, <2>2 DEF Level2
    <2> QED BY <1>3, <2>1, <2>2, <2>3
  <1>10. ASSUME NEW l \in Index, NEW k \in Index, NEW o \in Index, IsLink(t, L1, l), IsLink(t, t.tab[L1][l].to, k)
         PROVE  t.tab[t.tab[t.tab[L1][l].to][k].to][o] \in PageEntries
    <2>1. PICK g : g = t.tab[L1][l].to OBVIOUS
    <2>5. g = s.tab[L1][l].to /\ IsLink(s, L1, l) /\ g \in Heap /\ g # L1
      BY <1>0, <1>4, <1>10, <2>1, LinkIs, HeapNat
    <2>6. IsLink(t, g, k) BY <1>10, <2>1
    <2>2. PICK f : f = t.tab[g][k].to OBVIOUS
    <2>3. CASE g = h /\ k = i
      <3>1. f = e.to /\ Loose(s, f) /\ f \in Heap BY <1>5, <2>2, <2>3, <2>5, <2>6, EntryKinds, Zenon
      <3>2. f # h BY <3>1, HeapNat DEF Loose
      <3>3. s.tab[f][o] \in PageEntries BY <3>1, <1>10 DEF Loose
      <3> QED BY <1>3, <2>1, <2>2, <3>1, <3>2, <3>3
    <2>4. CASE ~(g = h /\ k = i)
      <3>1. t.tab[g][k] = s.tab[g][k] /\ IsLink(s, g, k) BY <1>5, <2>4, <2>5, <2>6
      <3>2. f = s.tab[g][k].to /\ f \in Heap BY <1>0, <2>2, <2>5, <3>1, LinkIs, Zenon
      <3>3. f # h BY <1>0, <2>5, <3>1, <3>2, HeapNat, Zenon DEF Different
      <3>4. s.tab[f][o] \in PageEntries BY <1>0, <2>5, <3>1, <3>2, Zenon DEF Level3
      <3> QED BY <1>3, <2>1, <2>2, <3>2, <3>3, <3>4, Zenon
    <2> QED BY <2>3, <2>4, Zenon
  <1>11. Level3(t) BY <1>10, Zenon DEF Level3
  <1> QED BY <1>1, <1>3, <1>r, <1>6, <1>7, <1>8, <1>9, <1>11, Zenon DEF Tree

\* ... when an entry of a level-3 table becomes a page or invalid.
LEMMA TreeStoreL3 ==
  ASSUME NEW s, Tree(s), NEW j \in Index, NEW i \in Index, NEW n \in Index, IsLink(s, L1, j),
         NEW h, h = s.tab[L1][j].to, IsLink(s, h, i), NEW l, l = s.tab[h][i].to, NEW e \in PageEntries
  PROVE  Tree(Store(s, l, n, e))
  <1>0. /\ s \in Mapper /\ Root(s) /\ Allocated(s) /\ InTree(s) /\ Different(s)
        /\ Level2(s) /\ Level3(s)
    BY DEF Tree
  <1>1. PICK t : t = Store(s, l, n, e) OBVIOUS
  <1>2. h \in Heap /\ h # L1 /\ l \in Heap /\ l # L1 /\ e \in Entries /\ e.t # "table"
    <2>1. h \in Heap /\ h # L1 BY <1>0, HeapNat, LinkIs
    <2>2. l \in Heap /\ l # L1 BY <1>0, <2>1, LinkIs
    <2> QED BY <2>1, <2>2, EntryKinds
  <1>3. /\ t \in Mapper /\ t.next = s.next /\ t.count = s.count /\ t.ok = s.ok
        /\ \A g \in Heap, k \in Index : t.tab[g][k] = IF g = l /\ k = n THEN e ELSE s.tab[g][k]
    <2>1. Stored(s, t, l, n, e) BY <1>0, <1>1, <1>2, StoreIs, Zenon
    <2> QED BY <2>1 DEF Stored
  <1>4. \A k \in Index : t.tab[L1][k] = s.tab[L1][k] /\ (IsLink(t, L1, k) <=> IsLink(s, L1, k))
    BY <1>2, <1>3, HeapNat, Zenon DEF IsLink
  <1>5. \A g \in Heap, k \in Index : IsLink(t, g, k) => t.tab[g][k] = s.tab[g][k] /\ IsLink(s, g, k)
    BY <1>2, <1>3, Zenon DEF IsLink
  <1>6. Root(t) BY <1>0, <1>4 DEF Root
  <1>7. Allocated(t) BY <1>0, <1>3, <1>5 DEF Allocated
  <1>8. InTree(t) BY <1>0, <1>4, <1>5 DEF InTree
  <1>9. Different(t) BY <1>0, <1>5 DEF Different
  <1>10. Level2(t)
    <2> SUFFICES ASSUME NEW o \in Index, NEW k \in Index, IsLink(t, L1, o)
                 PROVE  t.tab[t.tab[L1][o].to][k] \in {Invalid} \cup Tables \cup BlockLeaves
      BY DEF Level2
    <2>1. PICK g : g = t.tab[L1][o].to OBVIOUS
    <2>2. g = s.tab[L1][o].to /\ IsLink(s, L1, o) /\ g \in Heap BY <1>0, <1>4, <2>1, LinkIs, HeapNat
    <2>3. g # l BY <1>0, <1>2, <2>2, HeapNat, Zenon DEF Different
    <2>4. s.tab[g][k] \in {Invalid} \cup Tables \cup BlockLeaves BY <1>0, <2>2 DEF Level2
    <2>5. t.tab[g][k] = s.tab[g][k] BY <1>3, <2>2, <2>3, Zenon
    <2> QED BY <2>1, <2>4, <2>5, Zenon
  <1>11. ASSUME NEW q \in Index, NEW k \in Index, NEW o \in Index, IsLink(t, L1, q), IsLink(t, t.tab[L1][q].to, k)
         PROVE  t.tab[t.tab[t.tab[L1][q].to][k].to][o] \in PageEntries
    <2>1. PICK g : g = t.tab[L1][q].to OBVIOUS
    <2>2. g = s.tab[L1][q].to /\ IsLink(s, L1, q) /\ g \in Heap
      BY <1>0, <1>4, <1>11, <2>1, LinkIs, HeapNat
    <2>3. t.tab[g][k] = s.tab[g][k] /\ IsLink(s, g, k) BY <1>5, <1>11, <2>1, <2>2
    <2>4. PICK f : f = s.tab[g][k].to OBVIOUS
    <2>5. f \in Heap BY <1>0, <2>2, <2>3, <2>4, LinkIs, Zenon
    <2>6. s.tab[f][o] \in PageEntries BY <1>0, <1>11, <2>2, <2>3, <2>4, Zenon DEF Level3
    <2>7. t.tab[f][o] \in PageEntries BY <1>3, <1>11, <2>5, <2>6
    <2> QED BY <2>1, <2>3, <2>4, <2>7, Zenon
  <1>12. Level3(t) BY <1>11, Zenon DEF Level3
  <1> QED BY <1>1, <1>3, <1>6, <1>7, <1>8, <1>9, <1>10, <1>12, Zenon DEF Tree

\* ... and when a page of the heap is taken and filled with entries of pages.
LEMMA TreeFill ==
  ASSUME NEW s, Tree(s), CanAlloc(s), NEW f \in [Index -> PageEntries]
  PROVE  Tree(Fill(s, f)) /\ Loose(Fill(s, f), s.next)
  <1>0. /\ s \in Mapper /\ Root(s) /\ Allocated(s) /\ InTree(s) /\ Different(s)
        /\ Level2(s) /\ Level3(s)
    BY DEF Tree
  <1>1. PICK t : t = Fill(s, f) OBVIOUS
  <1>2. f \in [Index -> Entries] /\ \A k \in Index : f[k] \in PageEntries /\ f[k].t # "table"
    BY EntryKinds
  <1>3. /\ t \in Mapper /\ t.next = s.next + 1 /\ t.count = s.count /\ t.ok = s.ok
        /\ s.next \in Heap
        /\ \A g \in Heap : t.tab[g] = IF g = s.next THEN f ELSE s.tab[g]
    BY <1>0, <1>1, <1>2, FillIs
  <1>4. s.next # L1 /\ s.next >= 3 BY <1>0, HeapNat DEF Mapper, L1
  <1>5. \A g \in Heap, k \in Index : IsLink(t, g, k) =>
          t.tab[g][k] = s.tab[g][k] /\ IsLink(s, g, k) /\ g # s.next
    BY <1>2, <1>3 DEF IsLink
  <1>6. \A k \in Index : t.tab[L1][k] = s.tab[L1][k] /\ (IsLink(t, L1, k) <=> IsLink(s, L1, k))
    BY <1>3, <1>4, HeapNat DEF IsLink
  <1>7. \A g \in Heap, k \in Index : IsLink(s, g, k) => /\ s.tab[g][k].to \in Heap /\ s.tab[g][k].to # s.next
                                                        /\ t.tab[s.tab[g][k].to] = s.tab[s.tab[g][k].to]
    <2> SUFFICES ASSUME NEW g \in Heap, NEW k \in Index, IsLink(s, g, k)
                 PROVE  /\ s.tab[g][k].to \in Heap /\ s.tab[g][k].to # s.next
                        /\ t.tab[s.tab[g][k].to] = s.tab[s.tab[g][k].to]
      OBVIOUS
    <2>1. PICK x : x = s.tab[g][k].to OBVIOUS
    <2>2. x \in Heap /\ x < s.next BY <1>0, <2>1, LinkIs
    <2>3. x # s.next BY <2>2, <1>3, HeapNat
    <2> QED BY <1>3, <2>1, <2>2, <2>3
  <1>8. Root(t) BY <1>0, <1>6 DEF Root
  <1>9. Allocated(t)
    <2>1. \A x \in 3 .. s.next - 1 : x \in 3 .. t.next - 1 BY <1>0, <1>3 DEF Mapper
    <2> QED BY <1>0, <1>5, <2>1 DEF Allocated
  <1>10. InTree(t) BY <1>0, <1>5, <1>6 DEF InTree
  <1>11. Different(t) BY <1>0, <1>5 DEF Different
  <1>12. Level2(t) BY <1>0, <1>6, <1>7, HeapNat DEF Level2
  <1>13. Level3(t)
    <2> SUFFICES ASSUME NEW q \in Index, NEW k \in Index, NEW o \in Index, IsLink(t, L1, q), IsLink(t, t.tab[L1][q].to, k)
                 PROVE  t.tab[t.tab[t.tab[L1][q].to][k].to][o] \in PageEntries
      BY Zenon DEF Level3
    <2>1. PICK g : g = t.tab[L1][q].to OBVIOUS
    <2>2. g = s.tab[L1][q].to /\ IsLink(s, L1, q) /\ g \in Heap BY <1>6, <1>7, <2>1, HeapNat
    <2>3. t.tab[g][k] = s.tab[g][k] /\ IsLink(s, g, k) BY <1>5, <2>1, <2>2
    <2>4. PICK x : x = s.tab[g][k].to OBVIOUS
    <2>5. t.tab[x] = s.tab[x] BY <1>7, <2>2, <2>3, <2>4, Zenon
    <2>6. s.tab[x][o] \in PageEntries BY <1>0, <2>2, <2>3, <2>4, Zenon DEF Level3
    <2> QED BY <2>1, <2>3, <2>4, <2>5, <2>6, Zenon
  <1>14. Loose(t, s.next)
    <2>1. s.next \in 3 .. t.next - 1 BY <1>0, <1>3, <1>4 DEF Mapper
    <2>2. \A h \in Heap, i \in Index : IsLink(t, h, i) => t.tab[h][i].to # s.next BY <1>5, <1>7
    <2>3. \A k \in Index : t.tab[s.next][k] \in PageEntries BY <1>2, <1>3
    <2> QED BY <2>1, <2>2, <2>3 DEF Loose
  <1> QED BY <1>1, <1>3, <1>8, <1>9, <1>10, <1>11, <1>12, <1>13, <1>14 DEF Tree

\* A new level-2 table.
LEMMA TreeStoreL1 ==
  ASSUME NEW s, Tree(s), NEW j \in Index, s.tab[L1][j] = Invalid, NEW l, Loose(s, l),
         \A k \in Index : s.tab[l][k] = Invalid
  PROVE  Tree(Store(s, L1, j, Table(l)))
  <1>0. /\ s \in Mapper /\ Root(s) /\ Allocated(s) /\ InTree(s) /\ Different(s)
        /\ Level2(s) /\ Level3(s)
    BY DEF Tree
  <1>1. PICK t : t = Store(s, L1, j, Table(l)) OBVIOUS
  <1>2. /\ l \in Heap /\ l # L1 /\ Table(l) \in Entries /\ Table(l).t = "table" /\ Table(l).to = l
        /\ ~IsLink(s, L1, j) /\ Invalid.t # "table"
    <2>1. l \in Heap /\ l # L1 BY <1>0, HeapNat DEF Loose, Mapper, Heap, L1
    <2> QED BY <2>1, EntryKinds DEF IsLink
  <1>3. /\ t \in Mapper /\ t.next = s.next /\ t.count = s.count /\ t.ok = s.ok
        /\ \A g \in Heap, k \in Index : t.tab[g][k] = IF g = L1 /\ k = j THEN Table(l) ELSE s.tab[g][k]
    <2>1. Stored(s, t, L1, j, Table(l)) BY <1>0, <1>1, <1>2, StoreIs, HeapNat
    <2> QED BY <2>1 DEF Stored
  <1>4. \A g \in Heap, k \in Index :
          IsLink(t, g, k) => \/ g = L1 /\ k = j /\ t.tab[g][k].to = l
                             \/ ~(g = L1 /\ k = j) /\ t.tab[g][k] = s.tab[g][k] /\ IsLink(s, g, k)
    BY <1>2, <1>3 DEF IsLink
  <1>5. \A g \in Heap, k \in Index :
          IsLink(s, g, k) => ~(g = L1 /\ k = j) /\ t.tab[g][k] = s.tab[g][k] /\ IsLink(t, g, k)
    BY <1>2, <1>3 DEF IsLink
  <1>6. Root(t) BY <1>0, <1>2, <1>3, HeapNat DEF Root, IsLink
  <1>7. Allocated(t) BY <1>0, <1>3, <1>4 DEF Allocated, Loose
  <1>8. InTree(t) BY <1>0, <1>4, <1>5, HeapNat DEF InTree
  <1>9. Different(t)
    <2> SUFFICES ASSUME NEW g \in Heap, NEW f \in Heap, NEW k \in Index, NEW i \in Index,
                        IsLink(t, g, k), IsLink(t, f, i), t.tab[g][k].to = t.tab[f][i].to
                 PROVE  g = f /\ k = i
      BY DEF Different
    <2>1. \A h \in Heap, o \in Index : IsLink(s, h, o) => s.tab[h][o].to # l BY DEF Loose
    <2>2. CASE g = L1 /\ k = j BY <1>4, <2>1, <2>2
    <2>3. CASE f = L1 /\ i = j BY <1>4, <2>1, <2>3
    <2>4. CASE ~(g = L1 /\ k = j) /\ ~(f = L1 /\ i = j) BY <1>0, <1>4, <2>4 DEF Different
    <2> QED BY <2>2, <2>3, <2>4
  <1>10. ASSUME NEW q \in Index, IsLink(t, L1, q)
         PROVE  \/ t.tab[L1][q].to = l /\ \A k \in Index : t.tab[l][k] = Invalid
                \/ /\ t.tab[L1][q] = s.tab[L1][q] /\ IsLink(s, L1, q) /\ s.tab[L1][q].to \in Heap
                   /\ s.tab[L1][q].to # L1
                   /\ \A k \in Index : t.tab[s.tab[L1][q].to][k] = s.tab[s.tab[L1][q].to][k]
    <2>1. CASE q = j BY <1>2, <1>3, <1>4, <1>10, <2>1, HeapNat
    <2>2. CASE q # j
      <3>1. t.tab[L1][q] = s.tab[L1][q] /\ IsLink(s, L1, q) BY <1>4, <1>10, <2>2, HeapNat
      <3>2. s.tab[L1][q].to \in Heap /\ s.tab[L1][q].to # L1 BY <1>0, <3>1, <1>10, LinkIs, HeapNat
      <3> QED BY <1>3, <3>1, <3>2
    <2> QED BY <2>1, <2>2, Zenon
  <1>11. Level2(t)
    <2> SUFFICES ASSUME NEW q \in Index, NEW i \in Index, IsLink(t, L1, q)
                 PROVE  t.tab[t.tab[L1][q].to][i] \in {Invalid} \cup Tables \cup BlockLeaves
      BY Zenon DEF Level2
    <2>1. CASE t.tab[L1][q].to = l /\ \A k \in Index : t.tab[l][k] = Invalid BY <2>1, Zenon
    <2>2. CASE /\ t.tab[L1][q] = s.tab[L1][q] /\ IsLink(s, L1, q)
               /\ \A k \in Index : t.tab[s.tab[L1][q].to][k] = s.tab[s.tab[L1][q].to][k]
      <3>1. s.tab[s.tab[L1][q].to][i] \in {Invalid} \cup Tables \cup BlockLeaves BY <1>0, <2>2, Zenon DEF Level2
      <3> QED BY <2>2, <3>1
    <2> QED BY <1>10, <2>1, <2>2, Zenon
  <1>12. Level3(t)
    <2> SUFFICES ASSUME NEW q \in Index, NEW k \in Index, NEW o \in Index, IsLink(t, L1, q), IsLink(t, t.tab[L1][q].to, k)
                 PROVE  t.tab[t.tab[t.tab[L1][q].to][k].to][o] \in PageEntries
      BY Zenon DEF Level3
    <2>1. PICK g : g = t.tab[L1][q].to OBVIOUS
    <2>2. /\ g = s.tab[L1][q].to /\ IsLink(s, L1, q) /\ g \in Heap /\ g # L1 /\ t.tab[g][k] = s.tab[g][k]
          /\ IsLink(s, g, k)
      <3>1. CASE g = l /\ t.tab[l][k] = Invalid BY <1>2, <2>1, <3>1 DEF IsLink
      <3>2. CASE /\ t.tab[L1][q] = s.tab[L1][q] /\ IsLink(s, L1, q) /\ s.tab[L1][q].to \in Heap
                 /\ s.tab[L1][q].to # L1
                 /\ \A i \in Index : t.tab[s.tab[L1][q].to][i] = s.tab[s.tab[L1][q].to][i]
        BY <2>1, <3>2, Zenon DEF IsLink
      <3> QED BY <1>10, <2>1, <3>1, <3>2, Zenon
    <2>3. PICK x : x = s.tab[g][k].to OBVIOUS
    <2>4. x \in Heap /\ x # L1 BY <1>0, <2>2, <2>3, LinkIs, Zenon
    <2>5. s.tab[x][o] \in PageEntries BY <1>0, <2>2, <2>3, Zenon DEF Level3
    <2>6. t.tab[x][o] \in PageEntries BY <1>3, <2>4, <2>5
    <2> QED BY <2>1, <2>2, <2>3, <2>6, Zenon
  <1> QED BY <1>1, <1>3, <1>6, <1>7, <1>8, <1>9, <1>11, <1>12 DEF Tree

-----------------------------------------------------------------------------
(* What a walk finds, before and after a change of the tables.             *)

Place(s, b) == s.tab[L1][b \div K].to

\* The level-2 entry of a block.
LEMMA L2Is ==
  ASSUME NEW s, Tree(s), NEW b \in BlockNos
  PROVE  /\ L2Entry(s, b) \in {Invalid} \cup Tables \cup BlockLeaves
         /\ L2Entry(s, b).t \in {"invalid", "table", "block"}
         /\ HasL2(s, b) <=> IsLink(s, L1, b \div K)
         /\ ~HasL2(s, b) => L2Entry(s, b) = Invalid /\ s.tab[L1][b \div K] = Invalid
         /\ HasL2(s, b) => /\ Place(s, b) \in Heap /\ Place(s, b) # L1 /\ Place(s, b) < s.next
                           /\ L2Entry(s, b) = s.tab[Place(s, b)][b % K]
         /\ L2Entry(s, b).t = "table" =>
              /\ HasL2(s, b) /\ IsLink(s, Place(s, b), b % K)
              /\ L2Entry(s, b).to \in Heap /\ L2Entry(s, b).to # L1 /\ L2Entry(s, b).to < s.next
              /\ L2Entry(s, b) \in Tables
              /\ \A k \in Index : s.tab[L2Entry(s, b).to][k] \in PageEntries
  <1>0. s \in Mapper /\ Root(s) /\ Allocated(s) /\ Level2(s) /\ Level3(s) BY DEF Tree
  <1>1. PICK j \in Index, i \in Index : j = b \div K /\ i = b % K BY BlockParts
  <1>2. HasL2(s, b) <=> IsLink(s, L1, j) BY <1>1 DEF HasL2, L1Entry, IsLink
  <1>3. PICK h : h = Place(s, b) OBVIOUS
  <1>4. h = s.tab[L1][j].to BY <1>1, <1>3 DEF Place
  <1>5. L2Entry(s, b) = IF HasL2(s, b) THEN s.tab[h][i] ELSE Invalid
    BY <1>1, <1>4 DEF L2Entry, L1Entry
  <1>6. CASE ~HasL2(s, b)
    <2>1. s.tab[L1][j] = Invalid BY <1>0, <1>2, <1>6 DEF Root
    <2> QED BY <1>1, <1>2, <1>5, <1>6, <2>1, EntryKinds
  <1>7. CASE HasL2(s, b)
    <2>1. h \in Heap /\ h # L1 /\ h < s.next BY <1>0, <1>2, <1>4, <1>7, LinkIs, HeapNat
    <2>2. s.tab[h][i] \in {Invalid} \cup Tables \cup BlockLeaves BY <1>0, <1>2, <1>4, <1>7 DEF Level2
    <2>3. ASSUME s.tab[h][i].t = "table"
          PROVE  /\ IsLink(s, h, i) /\ s.tab[h][i].to \in Heap /\ s.tab[h][i].to # L1 /\ s.tab[h][i].to < s.next
                 /\ s.tab[h][i] \in Tables
                 /\ \A k \in Index : s.tab[s.tab[h][i].to][k] \in PageEntries
      <3>1. IsLink(s, h, i) BY <2>3 DEF IsLink
      <3>2. s.tab[h][i].to \in Heap /\ s.tab[h][i].to # L1 /\ s.tab[h][i].to < s.next
        BY <1>0, <2>1, <3>1, LinkIs
      <3>3. \A k \in Index : s.tab[s.tab[h][i].to][k] \in PageEntries
        BY <1>0, <1>2, <1>4, <1>7, <3>1, Zenon DEF Level3
      <3> QED BY <2>2, <2>3, <3>1, <3>2, <3>3, EntryKinds
    <2>4. s.tab[h][i].t \in {"invalid", "table", "block"} BY <2>2, EntryKinds
    <2> QED BY <1>1, <1>2, <1>3, <1>5, <1>7, <2>1, <2>2, <2>3, <2>4, Zenon
  <1> QED BY <1>6, <1>7, Zenon

\* What a walk finds for a page.
LEMMA WalkIs ==
  ASSUME NEW s, Tree(s), NEW p \in Pages
  PROVE  /\ Walk(s, p) \in PageEntries \cup BlockLeaves
         /\ L2Entry(s, BlockOf(p)).t = "table" =>
              Walk(s, p) = s.tab[L2Entry(s, BlockOf(p)).to][p % K] /\ Walk(s, p) \in PageEntries
         /\ L2Entry(s, BlockOf(p)).t # "table" => Walk(s, p) = L2Entry(s, BlockOf(p))
         /\ L2Entry(s, BlockOf(p)).t = "invalid" => Walk(s, p) = Invalid
         /\ Walk(s, p).t = "block" <=> L2Entry(s, BlockOf(p)).t = "block"
         /\ Walk(s, p).t \in {"invalid", "page", "block"}
         /\ Walk(s, p).t = "page" => L2Entry(s, BlockOf(p)).t = "table" /\ Walk(s, p) \in PageLeaves
         /\ Walk(s, p).t = "invalid" => Walk(s, p) = Invalid
  <1>1. PICK b \in BlockNos, i \in Index : b = BlockOf(p) /\ i = p % K BY PageParts
  <1>2. PICK e : e = L2Entry(s, b) OBVIOUS
  <1>3. /\ e \in {Invalid} \cup Tables \cup BlockLeaves
        /\ e.t = "table" => s.tab[e.to][i] \in PageEntries
    BY <1>2, L2Is
  <1>4. Walk(s, p) = IF e.t = "table" THEN s.tab[e.to][i] ELSE e BY <1>1, <1>2 DEF Walk
  <1>5. /\ Invalid.t = "invalid" /\ Invalid \in PageEntries
        /\ \A x \in Tables : x.t = "table"
        /\ \A x \in BlockLeaves : x.t = "block"
        /\ \A x \in PageEntries : x = Invalid \/ (x.t = "page" /\ x \in PageLeaves)
    BY EntryKinds DEF PageEntries
  <1> QED BY <1>1, <1>2, <1>3, <1>4, <1>5, Zenon

\* A store in a level-2 table.
SameSizes(s, t) == t.next = s.next /\ t.count = s.count /\ t.ok = s.ok
SameWalks(s, t) ==
  /\ \A c \in BlockNos : L2Entry(t, c) = L2Entry(s, c)
  /\ \A p \in Pages : Walk(t, p) = Walk(s, p)
StillLoose(s, t, l) == Loose(t, l) /\ \A k \in Index : t.tab[l][k] = s.tab[l][k]
SetL2Effect(s, t, b, e) ==
  /\ Tree(t) /\ SameSizes(s, t)
  /\ \A c \in BlockNos : /\ HasL2(t, c) <=> HasL2(s, c)
                         /\ L2Entry(t, c) = IF c = b THEN e ELSE L2Entry(s, c)
  /\ \A j \in Index : IsLink(t, L1, j) <=> IsLink(s, L1, j)
  /\ \A p \in Pages : BlockOf(p) # b => Walk(t, p) = Walk(s, p)
  /\ \A p \in Pages : BlockOf(p) = b => Walk(t, p) = IF e.t = "table" THEN s.tab[e.to][p % K] ELSE e
  /\ \A l \in Heap : Loose(s, l) /\ e # Table(l) => StillLoose(s, t, l)

\* What a write of a level-2 entry does to the walks, block by block.
LEMMA SetL2Works ==
  ASSUME NEW s, Tree(s), NEW b \in BlockNos, HasL2(s, b),
         NEW e, \/ e \in {Invalid} \cup BlockLeaves
                \/ e \in Tables /\ Loose(s, e.to),
         NEW t, t = SetL2(s, b, e)
  PROVE  SetL2Effect(s, t, b, e)
  <1>0. s \in Mapper /\ Allocated(s) /\ Different(s) BY DEF Tree
  <1>1. PICK j \in Index, i \in Index : j = b \div K /\ i = b % K BY BlockParts
  <1>2. PICK h : h = Place(s, b) OBVIOUS
  <1>3. /\ h = s.tab[L1][j].to /\ IsLink(s, L1, j) /\ h \in Heap /\ h # L1
        /\ h = s.tab[L1][b \div K].to
    BY <1>1, <1>2, L2Is, Zenon DEF Place
  <1>4. t = Store(s, h, i, e) BY <1>1, <1>3 DEF SetL2, L1Entry
  <1>5. Tree(t) BY <1>3, <1>4, TreeStoreL2, Zenon
  <1>6. e \in Entries BY EntryKinds
  <1>7. Stored(s, t, h, i, e) BY <1>0, <1>3, <1>4, <1>6, StoreIs, Zenon
  <1>8. /\ SameSizes(s, t)
        /\ \A g \in Heap, k \in Index : t.tab[g][k] = IF g = h /\ k = i THEN e ELSE s.tab[g][k]
        /\ \A k \in Index : t.tab[L1][k] = s.tab[L1][k]
    BY <1>3, <1>7, HeapNat DEF Stored, SameSizes
  <1>l. \A k \in Index : IsLink(t, L1, k) <=> IsLink(s, L1, k) BY <1>8 DEF IsLink
  <1>9. ASSUME NEW c \in BlockNos
        PROVE  /\ HasL2(t, c) <=> HasL2(s, c)
               /\ L2Entry(t, c) = IF c = b THEN e ELSE L2Entry(s, c)
    <2>1. PICK jj \in Index, ii \in Index : jj = c \div K /\ ii = c % K BY BlockParts
    <2>2. t.tab[L1][c \div K] = s.tab[L1][c \div K] BY <1>8, <2>1
    <2>3. (HasL2(t, c) <=> HasL2(s, c)) /\ Place(t, c) = Place(s, c) BY <2>2 DEF HasL2, L1Entry, Place
    <2>4. CASE ~HasL2(s, c)
      <3>1. c # b BY <2>4
      <3> QED BY <2>3, <2>4, <3>1, <1>5, L2Is
    <2>5. CASE HasL2(s, c)
      <3>1. L2Entry(t, c) = t.tab[Place(s, c)][ii] /\ L2Entry(s, c) = s.tab[Place(s, c)][ii]
        BY <1>5, <2>1, <2>3, <2>5, L2Is
      <3>2. Place(s, c) \in Heap BY <2>5, L2Is
      <3>3. CASE c = b
        BY <1>1, <1>2, <1>8, <2>1, <2>3, <3>1, <3>2, <3>3
      <3>4. CASE c # b
        <4>1. ~(Place(s, c) = h /\ ii = i)
          <5>1. SUFFICES ASSUME Place(s, c) = h, ii = i PROVE FALSE OBVIOUS
          <5>2. IsLink(s, L1, jj) /\ s.tab[L1][jj].to = h BY <2>1, <2>5, <5>1, L2Is, Zenon DEF Place
          <5>3. jj = j BY <1>0, <1>3, <5>2, HeapNat, Zenon DEF Different
          <5> QED BY <1>1, <2>1, <3>4, <5>1, <5>3, SameBlock
        <4> QED BY <1>8, <2>1, <2>3, <3>1, <3>2, <3>4, <4>1
      <3> QED BY <3>3, <3>4
    <2> QED BY <2>4, <2>5
  <1>10. ASSUME NEW p \in Pages, BlockOf(p) # b PROVE Walk(t, p) = Walk(s, p)
    <2>1. PICK c \in BlockNos, k \in Index : c = BlockOf(p) /\ k = p % K BY PageParts
    <2>2. PICK x : x = L2Entry(s, c) OBVIOUS
    <2>3. L2Entry(t, c) = x BY <1>9, <1>10, <2>1, <2>2
    <2>4. CASE x.t # "table" BY <2>1, <2>2, <2>3, <2>4 DEF Walk
    <2>5. CASE x.t = "table"
      <3>1. x.to \in Heap /\ IsLink(s, Place(s, c), c % K) /\ x = s.tab[Place(s, c)][c % K] /\ Place(s, c) \in Heap
            /\ Place(s, c) # L1
        BY <2>2, <2>5, L2Is
      <3>2. x.to # h BY <1>0, <1>3, <3>1, HeapNat, BlockParts, Zenon DEF Different
      <3>3. t.tab[x.to][k] = s.tab[x.to][k] BY <1>8, <3>1, <3>2, Zenon
      <3> QED BY <2>1, <2>2, <2>3, <2>5, <3>3 DEF Walk
    <2> QED BY <2>4, <2>5
  <1>11. ASSUME NEW p \in Pages, BlockOf(p) = b
         PROVE  Walk(t, p) = IF e.t = "table" THEN s.tab[e.to][p % K] ELSE e
    <2>1. L2Entry(t, BlockOf(p)) = e BY <1>9, <1>11
    <2>2. CASE e.t # "table" BY <2>1, <2>2 DEF Walk
    <2>3. CASE e.t = "table"
      <3>1. e.to \in Heap /\ Loose(s, e.to) BY <2>3, EntryKinds
      <3>2. e.to # h BY <1>3, <3>1, HeapNat, Zenon DEF Loose
      <3>3. t.tab[e.to][p % K] = s.tab[e.to][p % K] BY <1>8, <3>1, <3>2, PageParts
      <3> QED BY <2>1, <2>3, <3>3 DEF Walk
    <2> QED BY <2>2, <2>3
  <1>12. ASSUME NEW l \in Heap, Loose(s, l), e # Table(l) PROVE StillLoose(s, t, l)
    <2>1. l # h BY <1>3, <1>12, HeapNat, Zenon DEF Loose
    <2>2. \A k \in Index : t.tab[l][k] = s.tab[l][k] BY <1>8, <2>1
    <2>3. e \in Tables => e.to # l BY <1>12 DEF Tables, Table
    <2>4. \A g \in Heap, k \in Index : IsLink(t, g, k) => t.tab[g][k].to # l
      BY <1>8, <1>12, <2>3, EntryKinds DEF IsLink, Loose
    <2> QED BY <1>8, <1>12, <2>2, <2>4 DEF Loose, StillLoose, SameSizes
  <1> QED BY <1>5, <1>8, <1>l, <1>9, <1>10, <1>11, <1>12 DEF SetL2Effect

SameL1(s, t) ==
  /\ \A c \in BlockNos : HasL2(t, c) <=> HasL2(s, c)
  /\ \A j \in Index : IsLink(t, L1, j) <=> IsLink(s, L1, j)

\* A store in a level-3 table.
SetL3Effect(s, t, p, e) ==
  /\ Tree(t) /\ SameSizes(s, t) /\ SameL1(s, t)
  /\ \A c \in BlockNos : L2Entry(t, c) = L2Entry(s, c)
  /\ \A q \in Pages : Walk(t, q) = IF q = p THEN e ELSE Walk(s, q)
  /\ \A l \in Heap : Loose(s, l) => StillLoose(s, t, l)

\* What a write of a page's entry does to the walks.
LEMMA SetL3Works ==
  ASSUME NEW s, Tree(s), NEW p \in Pages, L2Entry(s, BlockOf(p)).t = "table", NEW e \in PageEntries,
         NEW t, t = SetL3(s, p, e)
  PROVE  SetL3Effect(s, t, p, e)
  <1>0. s \in Mapper /\ Allocated(s) /\ Different(s) BY DEF Tree
  <1>1. PICK b \in BlockNos, n \in Index : b = BlockOf(p) /\ n = p % K BY PageParts
  <1>2. PICK j \in Index, i \in Index : j = b \div K /\ i = b % K BY BlockParts
  <1>3. PICK h, l : h = Place(s, b) /\ l = L2Entry(s, b).to OBVIOUS
  <1>4. /\ IsLink(s, L1, j) /\ h = s.tab[L1][j].to /\ h \in Heap /\ h # L1
        /\ IsLink(s, h, i) /\ L2Entry(s, b) = s.tab[h][i] /\ l = s.tab[h][i].to /\ l \in Heap /\ l # L1
    <2>1. HasL2(s, b) /\ IsLink(s, h, i) /\ l \in Heap /\ l # L1 BY <1>1, <1>2, <1>3, L2Is
    <2>2. IsLink(s, L1, j) /\ h \in Heap /\ h # L1 /\ L2Entry(s, b) = s.tab[h][i]
      BY <1>2, <1>3, <2>1, L2Is
    <2> QED BY <1>2, <1>3, <2>1, <2>2, Zenon DEF Place
  <1>5. t = Store(s, l, n, e) BY <1>1, <1>3 DEF SetL3
  <1>6. Tree(t) BY <1>4, <1>5, TreeStoreL3, Zenon
  <1>7. e \in Entries /\ e.t # "table" BY EntryKinds
  <1>8. Stored(s, t, l, n, e) BY <1>0, <1>4, <1>5, <1>7, StoreIs, Zenon
  <1>9. /\ SameSizes(s, t)
        /\ \A g \in Heap, k \in Index : t.tab[g][k] = IF g = l /\ k = n THEN e ELSE s.tab[g][k]
        /\ \A k \in Index : t.tab[L1][k] = s.tab[L1][k]
    BY <1>4, <1>8, HeapNat, Zenon DEF Stored, SameSizes
  <1>10. \A k \in Index : IsLink(t, L1, k) <=> IsLink(s, L1, k) BY <1>9 DEF IsLink
  <1>11. ASSUME NEW c \in BlockNos
         PROVE  (HasL2(t, c) <=> HasL2(s, c)) /\ L2Entry(t, c) = L2Entry(s, c)
    <2>1. PICK jj \in Index, ii \in Index : jj = c \div K /\ ii = c % K BY BlockParts
    <2>2. t.tab[L1][c \div K] = s.tab[L1][c \div K] BY <1>9, <2>1
    <2>3. (HasL2(t, c) <=> HasL2(s, c)) /\ Place(t, c) = Place(s, c) BY <2>2 DEF HasL2, L1Entry, Place
    <2>4. CASE ~HasL2(s, c) BY <1>6, <2>3, <2>4, L2Is
    <2>5. CASE HasL2(s, c)
      <3>1. L2Entry(t, c) = t.tab[Place(s, c)][ii] /\ L2Entry(s, c) = s.tab[Place(s, c)][ii]
        BY <1>6, <2>1, <2>3, <2>5, L2Is
      <3>2. Place(s, c) \in Heap /\ IsLink(s, L1, jj) /\ s.tab[L1][jj].to = Place(s, c)
        BY <2>1, <2>5, L2Is, Zenon DEF Place
      <3>3. Place(s, c) # l BY <1>0, <1>4, <3>2, HeapNat, Zenon DEF Different
      <3> QED BY <1>9, <2>1, <2>3, <3>1, <3>2, <3>3, Zenon
    <2> QED BY <2>4, <2>5
  <1>12. ASSUME NEW q \in Pages PROVE Walk(t, q) = IF q = p THEN e ELSE Walk(s, q)
    <2>1. PICK c \in BlockNos, k \in Index : c = BlockOf(q) /\ k = q % K BY PageParts
    <2>2. PICK x : x = L2Entry(s, c) OBVIOUS
    <2>3. L2Entry(t, c) = x BY <1>11, <2>1, <2>2
    <2>4. CASE x.t # "table"
      <3>1. q # p BY <1>1, <2>1, <2>2, <2>4
      <3> QED BY <2>1, <2>2, <2>3, <2>4, <3>1 DEF Walk
    <2>5. CASE x.t = "table"
      <3>1. Walk(t, q) = t.tab[x.to][k] /\ Walk(s, q) = s.tab[x.to][k] BY <2>1, <2>2, <2>3, <2>5 DEF Walk
      <3>2. /\ x.to \in Heap /\ IsLink(s, Place(s, c), c % K) /\ x = s.tab[Place(s, c)][c % K]
            /\ HasL2(s, c) /\ Place(s, c) \in Heap
        BY <2>2, <2>5, L2Is
      <3>3. CASE q = p BY <1>1, <1>3, <1>9, <2>1, <2>2, <3>1, <3>2, <3>3, Zenon
      <3>4. CASE q # p
        <4>1. ~(x.to = l /\ k = n)
          <5> SUFFICES ASSUME x.to = l, k = n PROVE FALSE OBVIOUS
          <5>0. c % K \in Index /\ s.tab[Place(s, c)][c % K].to = s.tab[h][i].to BY <1>4, <3>2, BlockParts, Zenon
          <5>a. PICK a, o : a = Place(s, c) /\ o = c % K OBVIOUS
          <5>b. /\ a \in Heap /\ o \in Index /\ IsLink(s, a, o) /\ s.tab[a][o].to = s.tab[h][i].to
                /\ IsLink(s, h, i) /\ h \in Heap
            BY <1>4, <3>2, <5>0, <5>a, Zenon
          <5>c. a = h /\ o = i BY <1>0, <5>b DEF Different
          <5>1. Place(s, c) = h /\ c % K = i BY <5>a, <5>c
          <5>2. IsLink(s, L1, c \div K) /\ s.tab[L1][c \div K].to = h BY <3>2, <5>1, L2Is, Zenon DEF Place
          <5>3. c \div K = j BY <1>0, <1>4, <5>2, HeapNat, BlockParts, Zenon DEF Different
          <5>4. c = b BY <1>2, <5>1, <5>3, SameBlock
          <5> QED BY <1>1, <2>1, <3>4, <5>4, SamePage, Zenon
        <4> QED BY <1>9, <2>1, <3>1, <3>2, <3>4, <4>1, Zenon
      <3> QED BY <3>3, <3>4
    <2> QED BY <2>4, <2>5
  <1>13. ASSUME NEW g \in Heap, Loose(s, g) PROVE StillLoose(s, t, g)
    <2>1. l # g BY <1>4, <1>13, Zenon DEF Loose
    <2>2. \A k \in Index : t.tab[g][k] = s.tab[g][k] BY <1>9, <2>1
    <2>3. \A f \in Heap, k \in Index : IsLink(t, f, k) => t.tab[f][k].to # g
      BY <1>7, <1>9, <1>13 DEF IsLink, Loose
    <2> QED BY <1>9, <1>13, <2>2, <2>3, Zenon DEF Loose, StillLoose, SameSizes
  <1> QED BY <1>6, <1>9, <1>10, <1>11, <1>12, <1>13 DEF SetL3Effect, SameL1

\* An allocation.
FillEffect(s, t, f) ==
  /\ Tree(t) /\ t.next = s.next + 1 /\ t.count = s.count /\ t.ok = s.ok /\ SameL1(s, t) /\ SameWalks(s, t)
  /\ s.next \in Heap /\ Loose(t, s.next) /\ \A k \in Index : t.tab[s.next][k] = f[k]
  /\ \A l \in Heap : Loose(s, l) => l # s.next /\ StillLoose(s, t, l)
  /\ \A b \in BlockNos : L1Entry(t, b) = L1Entry(s, b)

\* A table that is filled and linked nowhere changes no walk.
LEMMA FillWorks ==
  ASSUME NEW s, Tree(s), CanAlloc(s), NEW f \in [Index -> PageEntries], NEW t, t = Fill(s, f)
  PROVE  FillEffect(s, t, f)
  <1>0. s \in Mapper /\ Allocated(s) BY DEF Tree
  <1>1. f \in [Index -> Entries] /\ \A k \in Index : f[k].t # "table" BY EntryKinds
  <1>2. /\ t.next = s.next + 1 /\ t.count = s.count /\ t.ok = s.ok
        /\ s.next \in Heap
        /\ \A g \in Heap : t.tab[g] = IF g = s.next THEN f ELSE s.tab[g]
    BY <1>0, <1>1, FillIs
  <1>3. Tree(t) /\ Loose(t, s.next) BY TreeFill
  <1>4. s.next # L1 /\ s.next \in Nat BY <1>0, HeapNat DEF Mapper, L1
  <1>5. t.tab[L1] = s.tab[L1] BY <1>2, <1>4, HeapNat
  <1>6. SameL1(s, t) /\ \A b \in BlockNos : L1Entry(t, b) = L1Entry(s, b)
    BY <1>5 DEF SameL1, HasL2, L1Entry, IsLink
  <1>7. ASSUME NEW c \in BlockNos PROVE L2Entry(t, c) = L2Entry(s, c)
    <2>1. (HasL2(t, c) <=> HasL2(s, c)) /\ Place(t, c) = Place(s, c) BY <1>5 DEF HasL2, L1Entry, Place
    <2>2. CASE ~HasL2(s, c) BY <1>3, <2>1, <2>2, L2Is
    <2>3. CASE HasL2(s, c)
      <3>1. PICK g : g = Place(s, c) OBVIOUS
      <3>2. g \in Heap /\ g < s.next BY <2>3, <3>1, L2Is, Zenon
      <3>3. t.tab[g] = s.tab[g] BY <1>2, <1>4, <3>2, HeapNat
      <3> QED BY <1>3, <2>1, <2>3, <3>1, <3>3, L2Is
    <2> QED BY <2>2, <2>3
  <1>8. ASSUME NEW q \in Pages PROVE Walk(t, q) = Walk(s, q)
    <2>1. PICK x : x = L2Entry(s, BlockOf(q)) OBVIOUS
    <2>2. L2Entry(t, BlockOf(q)) = x BY <1>7, <2>1, PageParts
    <2>3. x.t = "table" => x.to \in Heap /\ x.to < s.next BY <2>1, PageParts, L2Is, Zenon
    <2>4. ASSUME x.t = "table" PROVE t.tab[x.to] = s.tab[x.to]
      <3>1. PICK g \in Heap : g = x.to /\ g < s.next BY <2>3, <2>4
      <3>2. g # s.next BY <1>4, <3>1, HeapNat
      <3> QED BY <1>2, <3>1, <3>2
    <2> QED BY <2>1, <2>2, <2>4 DEF Walk
  <1>9. ASSUME NEW l \in Heap, Loose(s, l) PROVE l # s.next /\ StillLoose(s, t, l)
    <2>1. l # s.next /\ l \in 3 .. t.next - 1 BY <1>0, <1>2, <1>9 DEF Loose, Mapper
    <2>2. \A k \in Index : t.tab[l][k] = s.tab[l][k] BY <1>2, <2>1
    <2>3. \A g \in Heap, k \in Index : IsLink(t, g, k) => t.tab[g][k].to # l
      BY <1>1, <1>2, <1>9 DEF IsLink, Loose
    <2> QED BY <1>9, <2>1, <2>2, <2>3 DEF Loose, StillLoose
  <1> QED BY <1>2, <1>3, <1>6, <1>7, <1>8, <1>9, Zenon DEF FillEffect, SameWalks

\* A new level-2 table.
NewL2Effect(s, t, b) ==
  /\ Tree(t) /\ t.next = s.next + 1 /\ t.count = s.count /\ t.ok = s.ok /\ SameWalks(s, t)
  /\ \A c \in BlockNos : HasL2(t, c) <=> HasL2(s, c) \/ c \div K = b \div K
  /\ \A j \in Index : IsLink(t, L1, j) <=> IsLink(s, L1, j) \/ j = b \div K
  /\ \A l \in Heap : Loose(s, l) => StillLoose(s, t, l)

\* Linking an empty level-2 table changes no walk.
LEMMA NewL2Works ==
  ASSUME NEW s, Tree(s), CanAlloc(s), NEW b \in BlockNos, ~HasL2(s, b),
         NEW t, t = Store(Zeroed(s), L1, b \div K, Table(s.next))
  PROVE  NewL2Effect(s, t, b)
  <1>1. PICK z : z = Zeroed(s) OBVIOUS
  <1>2. PICK f : f = [i \in Index |-> Invalid] BY Zenon
  <1>3. f \in [Index -> PageEntries] BY <1>2 DEF PageEntries
  <1>4. FillEffect(s, z, f) BY <1>1, <1>2, <1>3, FillWorks DEF Zeroed
  <1>5. PICK l \in Heap : l = s.next BY <1>4, Zenon DEF FillEffect
  <1>6. /\ Tree(z) /\ z.next = s.next + 1 /\ z.count = s.count /\ z.ok = s.ok /\ SameL1(s, z) /\ SameWalks(s, z)
        /\ Loose(z, l) /\ \A k \in Index : z.tab[l][k] = Invalid
    BY <1>2, <1>4, <1>5, Zenon DEF FillEffect
  <1>7. PICK j \in Index : j = b \div K BY BlockParts
  <1>8. z.tab[L1][j] = Invalid /\ ~HasL2(z, b) BY <1>6, <1>7, L2Is, Zenon DEF SameL1
  <1>9. t = Store(z, L1, j, Table(l)) BY <1>1, <1>5, <1>7
  <1>10. Tree(t) BY <1>6, <1>8, <1>9, TreeStoreL1, Zenon
  <1>11. Stored(z, t, L1, j, Table(l)) BY <1>6, <1>9, StoreIs, HeapNat, EntryKinds, Zenon DEF Tree
  <1>12. /\ t.next = z.next /\ t.count = z.count /\ t.ok = z.ok
         /\ \A g \in Heap, k \in Index : t.tab[g][k] = IF g = L1 /\ k = j THEN Table(l) ELSE z.tab[g][k]
    BY <1>11, Zenon DEF Stored
  <1>13. l # L1 /\ Table(l).t = "table" /\ Table(l).to = l
    <2>a. l \in 3 .. z.next - 1 BY <1>6, Zenon DEF Loose
    <2>1. l # L1 BY <2>a DEF L1
    <2>2. l \in Heap BY <1>6, Zenon
    <2> QED BY <2>1, <2>2, EntryKinds, Zenon
  <1>14. \A k \in Index : IsLink(t, L1, k) <=> IsLink(z, L1, k) \/ k = j
    BY <1>12, <1>13, HeapNat, Zenon DEF IsLink
  <1>15. ASSUME NEW c \in BlockNos
         PROVE  /\ HasL2(t, c) <=> HasL2(z, c) \/ c \div K = j
                /\ L2Entry(t, c) = L2Entry(z, c)
    <2>1. PICK jj \in Index, ii \in Index : jj = c \div K /\ ii = c % K BY BlockParts
    <2>2. HasL2(t, c) <=> HasL2(z, c) \/ c \div K = j BY <1>6, <1>10, <1>14, <2>1, L2Is, Zenon
    <2>3. CASE jj = j
      <3>1. ~HasL2(z, c) BY <1>6, <1>7, <1>8, <2>1, <2>3, L2Is, Zenon
      <3>2. L2Entry(z, c) = Invalid BY <1>6, <3>1, L2Is, Zenon
      <3>3. Place(t, c) = l BY <1>12, <1>13, <2>1, <2>3, HeapNat DEF Place
      <3>4. L2Entry(t, c) = t.tab[l][ii] BY <1>10, <2>1, <2>2, <2>3, <3>3, L2Is, Zenon
      <3>5. t.tab[l][ii] = Invalid BY <1>6, <1>12, <1>13, <2>1, Zenon
      <3> QED BY <2>2, <3>2, <3>4, <3>5
    <2>4. CASE jj # j
      <3>1. Place(t, c) = Place(z, c) /\ (HasL2(t, c) <=> HasL2(z, c))
        BY <1>12, <2>1, <2>2, <2>4, HeapNat DEF Place
      <3>2. CASE ~HasL2(z, c) BY <1>6, <1>10, <2>2, <3>1, <3>2, L2Is, Zenon
      <3>3. CASE HasL2(z, c)
        <4>1. PICK g : g = Place(z, c) OBVIOUS
        <4>2. g \in Heap /\ g # L1 BY <1>6, <3>3, <4>1, L2Is, Zenon
        <4>3. t.tab[g][ii] = z.tab[g][ii] BY <1>12, <4>2, <2>1
        <4>4. L2Entry(z, c) = z.tab[g][ii] BY <1>6, <2>1, <3>3, <4>1, L2Is, Zenon
        <4>5. L2Entry(t, c) = t.tab[g][ii] BY <1>10, <2>1, <3>1, <3>3, <4>1, L2Is, Zenon
        <4> QED BY <2>2, <4>3, <4>4, <4>5
      <3> QED BY <3>2, <3>3
    <2> QED BY <2>3, <2>4
  <1>16. ASSUME NEW q \in Pages PROVE Walk(t, q) = Walk(z, q)
    <2>1. PICK k \in Index : k = q % K BY PageParts
    <2>5. PICK x : x = L2Entry(z, BlockOf(q)) OBVIOUS
    <2>2. L2Entry(t, BlockOf(q)) = x BY <1>15, <2>5, PageParts
    <2>3. x.t = "table" => x.to \in Heap /\ x.to # L1 BY <1>6, <2>5, PageParts, L2Is, Zenon
    <2>4. x.t = "table" => t.tab[x.to][k] = z.tab[x.to][k] BY <1>12, <2>1, <2>3
    <2> QED BY <2>1, <2>2, <2>4, <2>5, Zenon DEF Walk
  <1>17. ASSUME NEW g \in Heap, Loose(s, g) PROVE StillLoose(s, t, g)
    <2>1. g # l /\ Loose(z, g) /\ \A k \in Index : z.tab[g][k] = s.tab[g][k]
      BY <1>4, <1>5, <1>17, Zenon DEF FillEffect, StillLoose
    <2>2. g # L1 BY <2>1, HeapNat DEF Loose, L1
    <2>3. \A k \in Index : t.tab[g][k] = z.tab[g][k] BY <1>12, <2>2
    <2>4. \A h \in Heap, k \in Index : IsLink(t, h, k) => t.tab[h][k].to # g
      BY <1>12, <1>13, <2>1 DEF IsLink, Loose
    <2> QED BY <1>12, <2>1, <2>3, <2>4, Zenon DEF Loose, StillLoose
  <1> QED BY <1>5, <1>6, <1>7, <1>10, <1>12, <1>14, <1>15, <1>16, <1>17, Zenon DEF NewL2Effect, SameWalks, SameL1

-----------------------------------------------------------------------------
(* The invariant of the tables, for any number of walkers.                 *)

Ops ==
  [at : {"break", "flush1", "link", "flush2", "leaf", "tlbi"},
   r : [k : {"sw", "s2ap", "map", "unmap"}, page : OpPages, ap : {"ro", "rw"}, sw : {0, 1}],
   l3 : Nat]
Types ==
  /\ guest \in Guests /\ m.ok = TRUE /\ m.count \in 0 .. MaxL2 /\ ops \in 0 .. MaxOps
  /\ op \in [Walkers -> {Idle} \cup Ops]

\* A table that an operation has yet to link is its own, and it has a level-2 table to link
\* it in.  A block that it has broken does not come back.
Held(o) == o.at \in {"break", "flush1", "link"}
Block(o) == BlockOf(o.r.page)
OpGood(s, o) ==
  /\ Held(o) => o.l3 \in Heap /\ Loose(s, o.l3)
  /\ o.at \in {"break", "flush1", "link", "flush2", "leaf"} => HasL2(s, Block(o)) /\ o.r.k # "map"
  /\ o.at \in {"flush1", "link", "flush2", "leaf"} => L2Entry(s, Block(o)).t # "block"
OpsGood == \A c \in Walkers : OpGood(m, op[c])
HeldApart == \A c, d \in Walkers : Held(op[c]) /\ Held(op[d]) /\ op[c].l3 = op[d].l3 => c = d

SlotsOf(s) == {j \in Index : IsLink(s, L1, j)}
SplitsOf(s) == {b \in BlockNos : L2Entry(s, b).t = "table"}
Mapped(mem, p) == [pa |-> p, mem |-> mem, ap |-> "rw", sw |-> 0]
Planned(g, todo, p) ==
  IF p \in Calls(g).traps \ todo.traps THEN Invalid
  ELSE IF BlockOf(p) \in Calls(g).device \ todo.device THEN Mapped("device", p)
  ELSE IF BlockOf(p) \in Calls(g).normal \ todo.normal THEN Mapped("normal", p)
  ELSE Invalid
Order(g, todo) ==
  /\ todo \in [normal : SUBSET Calls(g).normal, device : SUBSET Calls(g).device, traps : SUBSET Calls(g).traps]
  /\ todo.normal # {} => todo.device = Calls(g).device
  /\ todo.normal \cup todo.device # {} => todo.traps = Calls(g).traps
Progress(g, todo, s) ==
  /\ Order(g, todo)
  /\ SlotsOf(s) \subseteq Slots(g) /\ s.count = Cardinality(SlotsOf(s))
  /\ SplitsOf(s) \subseteq Splits(g)
  /\ s.next = 3 + Cardinality(SlotsOf(s)) + Cardinality(SplitsOf(s))
  /\ todo.normal \cup todo.device # {} => SplitsOf(s) = {}
  /\ \A p \in Pages : Behind(Walk(s, p), p) = Planned(g, todo, p)

AtBoot == ~Booted => /\ Progress(guest, boot, m) /\ AllIdle /\ tlb = {}
                     /\ applied = [p \in OpPages |-> Nothing]
AfterBoot == Booted => boot = [normal |-> {}, device |-> {}, traps |-> {}]
TreeInv == Types /\ Tree(m) /\ OpsGood /\ HeldApart /\ AtBoot /\ AfterBoot

-----------------------------------------------------------------------------
(* Boot.                                                                   *)

\* What is assumed of a guest.
LEMMA GuestFacts ==
  ASSUME NEW g \in Guests
  PROVE  /\ g.start \in Nat /\ g.size \in Nat
         /\ Memory(g).from .. Memory(g).to - 1 \subseteq BlockNos
         /\ Cardinality(Slots(g)) <= MaxL2
         /\ 2 + Cardinality(Slots(g)) + Cardinality(Splits(g)) <= HeapPages
  BY Stage2Assumption

\* The memory of a guest lies between two blocks.
LEMMA MemoryIs ==
  ASSUME NEW g \in Guests
  PROVE  Memory(g).from \in Int /\ Memory(g).to \in Int
  <1>1. K \in Nat \ {0} /\ g.start \in Nat /\ g.size \in Nat BY KFacts, GuestFacts
  <1>2. g.start \div K \in Int /\ RoundUp(g.size) \in Int BY <1>1 DEF RoundUp
  <1> QED BY <1>2 DEF Memory

\* The heap is cut out of a virtual machine's memory.
LEMMA RamIs ==
  ASSUME NEW from \in Int, NEW to \in Int
  PROVE  Ram(from, to) = (from .. to - 1) \ (HeapStart .. HeapEnd - 1)
  <1>1. HeapStart \in Nat /\ HeapEnd \in Nat BY Stage2Assumption
  <1> QED BY <1>1 DEF Ram, Later, Earlier

\* The boot calls name blocks and pages that exist, and trapped pages of mapped blocks.
LEMMA CallsIs ==
  ASSUME NEW g \in Guests
  PROVE  /\ Calls(g) = [normal |-> Calls(g).normal, device |-> Calls(g).device, traps |-> Calls(g).traps]
         /\ Calls(g).normal \subseteq BlockNos /\ Calls(g).device \subseteq BlockNos
         /\ Calls(g).traps \subseteq Pages
         /\ \A p \in Calls(g).traps : BlockOf(p) \in Calls(g).device
         /\ Calls(g).device = IF g.kind = "vm" THEN GicBlocks ELSE {UartBlock}
         /\ Calls(g).traps = IF g.kind = "vm" THEN TrapPages ELSE {}
         /\ Calls(g).normal = (Memory(g).from .. Memory(g).to - 1)
                              \ (IF g.kind = "vm" THEN HeapStart .. HeapEnd - 1 ELSE {})
  <1>1. PICK f, t : f = Memory(g).from /\ t = Memory(g).to OBVIOUS
  <1>2. f \in Int /\ t \in Int /\ f .. t - 1 \subseteq BlockNos BY <1>1, MemoryIs, GuestFacts
  <1>3. Ram(f, t) = (f .. t - 1) \ (HeapStart .. HeapEnd - 1) BY <1>2, RamIs
  <1>4. /\ GicBlocks \subseteq BlockNos /\ UartBlock \in BlockNos /\ TrapPages \subseteq Pages
        /\ \A p \in TrapPages : BlockOf(p) \in GicBlocks
    BY Stage2Assumption
  <1>5. CASE g.kind = "vm"
    <2>1. Calls(g) = [normal |-> Ram(f, t), device |-> GicBlocks, traps |-> TrapPages]
      BY <1>1, <1>5 DEF Calls, init_memory
    <2>2. Calls(g).normal = Ram(f, t) /\ Calls(g).device = GicBlocks /\ Calls(g).traps = TrapPages BY <2>1
    <2> QED BY <1>1, <1>2, <1>3, <1>4, <1>5, <2>1, <2>2
  <1>6. CASE g.kind # "vm"
    <2>1. Calls(g) = [normal |-> f .. t - 1, device |-> {UartBlock}, traps |-> {}]
      BY <1>1, <1>6 DEF Calls, build_sp_stage2
    <2>2. Calls(g).normal = f .. t - 1 /\ Calls(g).device = {UartBlock} /\ Calls(g).traps = {} BY <2>1
    <2> QED BY <1>1, <1>2, <1>4, <1>6, <2>1, <2>2
  <1> QED BY <1>5, <1>6

\* Sets of blocks and slots are finite.
LEMMA Finite ==
  /\ IsFiniteSet(Index) /\ IsFiniteSet(BlockNos) /\ IsFiniteSet(Pages)
  <1>1. 0 \in Int /\ K - 1 \in Int /\ K * K - 1 \in Int /\ K * K * K - 1 \in Int BY KFacts
  <1> QED BY <1>1, FS_Interval DEF Index, BlockNos, Pages

\* The sets that Room counts are finite.
LEMMA SetsFinite ==
  ASSUME NEW g \in Guests, NEW s
  PROVE  /\ IsFiniteSet(Slots(g)) /\ IsFiniteSet(Splits(g)) /\ IsFiniteSet(SlotsOf(s)) /\ IsFiniteSet(SplitsOf(s))
         /\ Cardinality(Slots(g)) \in Nat /\ Cardinality(Splits(g)) \in Nat
         /\ Cardinality(SlotsOf(s)) \in Nat /\ Cardinality(SplitsOf(s)) \in Nat
         /\ \A b \in Calls(g).normal \cup Calls(g).device : b \div K \in Slots(g)
         /\ \A p \in Calls(g).traps : BlockOf(p) \in Splits(g)
  <1>1. Slots(g) \in SUBSET Index BY CallsIs, BlockParts DEF Slots
  <1>2. Splits(g) \in SUBSET BlockNos BY CallsIs, PageParts DEF Splits
  <1>3. SlotsOf(s) \in SUBSET Index BY DEF SlotsOf
  <1>4. SplitsOf(s) \in SUBSET BlockNos BY DEF SplitsOf
  <1>5. /\ IsFiniteSet(Slots(g)) /\ IsFiniteSet(Splits(g)) /\ IsFiniteSet(SlotsOf(s)) /\ IsFiniteSet(SplitsOf(s))
    BY <1>1, <1>2, <1>3, <1>4, Finite, FS_Subset
  <1>6. /\ \A b \in Calls(g).normal \cup Calls(g).device : b \div K \in Slots(g)
        /\ \A p \in Calls(g).traps : BlockOf(p) \in Splits(g)
    BY DEF Slots, Splits
  <1> QED BY <1>5, <1>6, FS_CardinalityType

\* One more of them: it was not there, so there was room for it.
LEMMA OneMore ==
  ASSUME NEW S, NEW T, IsFiniteSet(T), S \in SUBSET T, NEW x \in T \ S
  PROVE  /\ Cardinality(S \cup {x}) = Cardinality(S) + 1
         /\ Cardinality(S) + 1 <= Cardinality(T)
         /\ Cardinality(S) \in Nat /\ Cardinality(T) \in Nat
  <1>1. IsFiniteSet(S) BY FS_Subset
  <1>2. Cardinality(S \cup {x}) = Cardinality(S) + 1 BY <1>1, FS_AddElement
  <1>3. S \cup {x} \in SUBSET T OBVIOUS
  <1>4. Cardinality(S \cup {x}) <= Cardinality(T) BY <1>3, FS_Subset
  <1> QED BY <1>1, <1>2, <1>4, FS_CardinalityType

Holding(s, T, n, c, o) == s = [tab |-> T, next |-> n, count |-> c, ok |-> o]
\* Fill, field by field.
LEMMA FillRecord ==
  ASSUME NEW T, NEW U, NEW n, NEW n1, NEW c, NEW o, NEW f, NEW s,
         Holding(s, T, n, c, o), n1 = n + 1, U = [T EXCEPT ![n] = f]
  PROVE  Holding(Fill(s, f), U, n1, c, o)
  <1>1. PICK a : a = alloc_page(s) OBVIOUS
  <1>2. a = [tab |-> T, next |-> n1, count |-> c, ok |-> o] BY <1>1 DEF alloc_page, Holding
  <1>3. [a EXCEPT !.tab = U] = [tab |-> U, next |-> n1, count |-> c, ok |-> o] BY <1>2
  <1>5. s.next = n /\ a.tab = T BY <1>2 DEF Holding
  <1>4. Fill(s, f) = [a EXCEPT !.tab = U] BY <1>1, <1>5 DEF Fill
  <1> QED BY <1>3, <1>4 DEF Holding

\* DynamicIdentityMapper::new leaves an empty tree.
LEMMA NewIs ==
  /\ Tree(New) /\ New.ok = TRUE /\ New.count = 0 /\ New.next = 3
  /\ \A j \in Index : ~IsLink(New, L1, j)
  /\ \A b \in BlockNos : L2Entry(New, b) = Invalid
  /\ \A p \in Pages : Walk(New, p) = Invalid
  <1>0. PICK yes : yes = TRUE BY Zenon
  <1>1. PICK z, jk : z = [i \in Index |-> Invalid] /\ jk = [i \in Index |-> Junk] BY Zenon
  <1>2. z \in [Index -> Entries] /\ jk \in [Index -> Entries]
    BY <1>1 DEF Entries
  <1>3. PICK T0 : T0 = [h \in Heap |-> jk] BY Zenon
  <1>4. PICK T1 : T1 = [T0 EXCEPT ![1] = z] BY Zenon
  <1>5. PICK T2 : T2 = [T1 EXCEPT ![2] = z] BY Zenon
  <1>6. /\ T2 \in [Heap -> [Index -> Entries]]
        /\ \A h \in Heap : T2[h] = IF h \in {1, 2} THEN z ELSE jk
    BY <1>2, <1>3, <1>4, <1>5, Zenon
  <1>a. \A s : Zeroed(s) = Fill(s, z) BY <1>1 DEF Zeroed
  <1>b. PICK n1, n2, n3, n0 : n1 = 1 /\ n2 = 2 /\ n3 = 3 /\ n0 = 0 OBVIOUS
  <1>c. n2 = n1 + 1 /\ n3 = n2 + 1 /\ T1 = [T0 EXCEPT ![n1] = z] /\ T2 = [T1 EXCEPT ![n2] = z]
    BY <1>4, <1>5, <1>b
  <1>d. PICK s0, s1, s2 : /\ s0 = [tab |-> T0, next |-> n1, count |-> n0, ok |-> yes]
                          /\ s1 = [tab |-> T1, next |-> n2, count |-> n0, ok |-> yes]
                          /\ s2 = [tab |-> T2, next |-> n3, count |-> n0, ok |-> yes]
    BY Zenon
  <1>7. Fill(s0, z) = s1
    <2>1. Holding(s0, T0, n1, n0, yes) BY <1>d DEF Holding
    <2>2. Holding(Fill(s0, z), T1, n2, n0, yes) BY <1>c, <2>1, FillRecord, Zenon
    <2> QED BY <1>d, <2>2 DEF Holding
  <1>8. Fill(s1, z) = s2
    <2>1. Holding(s1, T1, n2, n0, yes) BY <1>d DEF Holding
    <2>2. Holding(Fill(s1, z), T2, n3, n0, yes) BY <1>c, <2>1, FillRecord, Zenon
    <2> QED BY <1>d, <2>2 DEF Holding
  <1>e. s0 = [tab |-> [h \in 1 .. HeapPages |-> [i \in Index |-> Junk]], next |-> 1, count |-> 0, ok |-> TRUE]
    BY <1>0, <1>1, <1>3, <1>b, <1>d, Zenon DEF Heap
  <1>f. New = s2 BY <1>a, <1>7, <1>8, <1>e, Zenon DEF New
  <1>9. New = [tab |-> T2, next |-> 3, count |-> 0, ok |-> yes] BY <1>b, <1>d, <1>f
  <1>10. New \in Mapper /\ New.tab = T2 /\ New.next = 3 /\ New.count = 0 /\ New.ok = TRUE
    <2>1. 3 \in 3 .. HeapPages + 1 /\ 0 \in Nat BY HeapNat, Stage2Assumption
    <2>2. New \in Mapper BY <1>0, <1>6, <1>9, <2>1 DEF Mapper
    <2> QED BY <1>0, <1>9, <2>2
  <1>11. \A h \in Heap, i \in Index : ~IsLink(New, h, i)
    BY <1>1, <1>6, <1>10 DEF IsLink, Invalid, Junk
  <1>12. \A j \in Index : New.tab[L1][j] = Invalid BY <1>1, <1>6, <1>10, HeapNat DEF L1
  <1>13. Tree(New)
    BY <1>10, <1>11, <1>12, HeapNat, Zenon DEF Tree, Root, Allocated, InTree, Different, Level2, Level3
  <1>14. \A b \in BlockNos : L2Entry(New, b) = Invalid BY <1>11, <1>13, HeapNat, L2Is, BlockParts, Zenon
  <1>15. \A p \in Pages : Walk(New, p) = Invalid BY <1>13, <1>14, WalkIs, PageParts, EntryKinds, Zenon
  <1> QED BY <1>10, <1>11, <1>13, <1>14, <1>15, HeapNat

\* The tables are what counts.
LEMMA SameTables ==
  ASSUME NEW s, Tree(s), NEW u \in Mapper, u.tab = s.tab, u.next >= s.next
  PROVE  /\ Tree(u) /\ SameWalks(s, u) /\ SameL1(s, u)
         /\ \A l \in Heap : Loose(s, l) => StillLoose(s, u, l)
  <1>0. /\ s \in Mapper /\ Root(s) /\ Allocated(s) /\ InTree(s) /\ Different(s)
        /\ Level2(s) /\ Level3(s)
    BY DEF Tree
  <1>1. \A h, i : IsLink(u, h, i) <=> IsLink(s, h, i) BY DEF IsLink
  <1>2. \A x \in 3 .. s.next - 1 : x \in 3 .. u.next - 1 BY <1>0 DEF Mapper
  <1>3. Allocated(u) BY <1>0, <1>1, <1>2 DEF Allocated
  <1>4. Root(u) /\ InTree(u) BY <1>0, <1>1, Zenon DEF Root, InTree
  <1>5. Different(u) BY <1>0, <1>1 DEF Different
  <1>6. Level2(u) /\ Level3(u) BY <1>0, <1>1, Zenon DEF Level2, Level3
  <1>7. \A b : (HasL2(u, b) <=> HasL2(s, b)) /\ L2Entry(u, b) = L2Entry(s, b)
    BY DEF HasL2, L2Entry, L1Entry
  <1>8. \A p : Walk(u, p) = Walk(s, p) BY <1>7 DEF Walk
  <1>9. \A l \in Heap : Loose(s, l) => StillLoose(s, u, l) BY <1>1, <1>2 DEF Loose, StillLoose
  <1> QED BY <1>1, <1>3, <1>4, <1>5, <1>6, <1>7, <1>8, <1>9 DEF Tree, SameWalks, SameL1

Room(g, s) ==
  /\ SlotsOf(s) \subseteq Slots(g) /\ s.count = Cardinality(SlotsOf(s))
  /\ s.next = 3 + Cardinality(SlotsOf(s)) + Cardinality(SplitsOf(s))

\* get_or_create_l2 succeeds: there is room for the level-2 tables of a guest.
LEMMA GetL2 ==
  ASSUME NEW g \in Guests, NEW s, Tree(s), s.ok = TRUE, Room(g, s), SplitsOf(s) = {},
         NEW b \in BlockNos, b \div K \in Slots(g), NEW t, t = get_or_create_l2(s, b)
  PROVE  /\ Tree(t) /\ t.ok = TRUE /\ Room(g, t) /\ HasL2(t, b) /\ SameWalks(s, t)
  <1>1. CASE HasL2(s, b)
    <2>1. t = s BY <1>1 DEF get_or_create_l2
    <2> QED BY <1>1, <2>1 DEF SameWalks
  <1>2. CASE ~HasL2(s, b)
    <2>1. PICK j \in Index : j = b \div K BY BlockParts
    <2>2. j \notin SlotsOf(s) BY <1>2, <2>1, L2Is, Zenon DEF SlotsOf
    <2>3. PICK S : S = SlotsOf(s) OBVIOUS
    <2>4. /\ Cardinality(S \cup {j}) = Cardinality(S) + 1 /\ Cardinality(S) + 1 <= Cardinality(Slots(g))
          /\ Cardinality(S) \in Nat /\ Cardinality(Slots(g)) \in Nat
      BY <2>1, <2>2, <2>3, SetsFinite, OneMore, Zenon DEF Room
    <2>5. Cardinality(SplitsOf(s)) = 0 BY FS_EmptySet
    <2>6. Cardinality(Slots(g)) <= MaxL2 /\ 2 + Cardinality(Slots(g)) + Cardinality(Splits(g)) <= HeapPages
          /\ MaxL2 \in Nat /\ HeapPages \in Nat /\ Cardinality(Splits(g)) \in Nat
      BY GuestFacts, Stage2Assumption, SetsFinite, Zenon
    <2>7. s.count = Cardinality(S) /\ s.next = 3 + Cardinality(S) BY <2>3, <2>4, <2>5 DEF Room
    <2>8. ~(s.count >= MaxL2) /\ CanAlloc(s) BY <2>4, <2>6, <2>7 DEF CanAlloc
    <2>9. PICK u : u = Store(Zeroed(s), L1, b \div K, Table(s.next)) OBVIOUS
    <2>10. NewL2Effect(s, u, b) BY <1>2, <2>8, <2>9, NewL2Works
    <2>11. Tree(u) /\ u.next = s.next + 1 /\ u.count = s.count /\ u.ok = TRUE /\ u \in Mapper /\ SameWalks(s, u)
      BY <2>10 DEF NewL2Effect, Tree
    <2>12. t = [u EXCEPT !.count = @ + 1] BY <1>2, <2>8, <2>9 DEF get_or_create_l2
    <2>13. /\ t \in Mapper /\ t.tab = u.tab /\ t.next = u.next /\ t.count = u.count + 1 /\ t.ok = TRUE
      <3>1. t = [tab |-> u.tab, next |-> u.next, count |-> u.count + 1, ok |-> u.ok] BY <2>11, <2>12 DEF Mapper
      <3>2. u.count + 1 \in Nat BY <2>11 DEF Mapper
      <3> QED BY <2>11, <3>1, <3>2 DEF Mapper
    <2>14. t.next >= u.next BY <2>11, <2>13 DEF Mapper
    <2>15. Tree(t) /\ SameWalks(u, t) /\ SameL1(u, t) BY <2>11, <2>13, <2>14, SameTables
    <2>16. SameWalks(s, t) BY <2>11, <2>15 DEF SameWalks
    <2>17. SlotsOf(t) = S \cup {j} BY <2>1, <2>3, <2>10, <2>15, Zenon DEF SlotsOf, NewL2Effect, SameL1
    <2>18. SplitsOf(t) = {} BY <2>16 DEF SplitsOf, SameWalks
    <2>19. Cardinality(SplitsOf(t)) = 0 BY <2>18, FS_EmptySet
    <2>20. SlotsOf(t) \subseteq Slots(g) BY <2>1, <2>3, <2>17 DEF Room
    <2>a. PICK x : x = Cardinality(S) /\ x \in Nat /\ s.count = x /\ s.next = 3 + x BY <2>4, <2>7
    <2>b. t.count = x + 1 /\ t.next = 3 + x + 1 BY <2>11, <2>13, <2>a
    <2>c. PICK y, z : y = Cardinality(SlotsOf(t)) /\ z = Cardinality(SplitsOf(t)) BY Zenon
    <2>d. y = x + 1 /\ z = 0 BY <2>4, <2>17, <2>19, <2>a, <2>c
    <2>e. t.count = y /\ t.next = 3 + y + z BY <2>a, <2>b, <2>d
    <2>21. Room(g, t) BY <2>20, <2>c, <2>e, Zenon DEF Room
    <2>22. HasL2(t, b) BY <2>10, <2>15 DEF NewL2Effect, SameL1
    <2> QED BY <2>13, <2>15, <2>16, <2>21, <2>22
  <1> QED BY <1>1, <1>2, Zenon

MapBlockEffect(g, s, t, b, mem) ==
  /\ Tree(t) /\ t.ok = TRUE /\ Room(g, t) /\ SplitsOf(t) = {}
  /\ \A p \in Pages : Walk(t, p) = IF BlockOf(p) = b THEN make_block_entry(b, mem) ELSE Walk(s, p)
\* The body of map_region's loop maps its block and nothing else.
LEMMA MapBlock ==
  ASSUME NEW g \in Guests, NEW s, Tree(s), s.ok = TRUE, Room(g, s), SplitsOf(s) = {},
         NEW b \in BlockNos, b \div K \in Slots(g), NEW mem \in {"normal", "device"},
         NEW t, t = map_block(s, b, mem)
  PROVE  MapBlockEffect(g, s, t, b, mem)
  <1>1. PICK u : u = get_or_create_l2(s, b) OBVIOUS
  <1>2. Tree(u) /\ u.ok = TRUE /\ Room(g, u) /\ HasL2(u, b) /\ SameWalks(s, u) BY <1>1, GetL2, Zenon
  <1>3. PICK e : e = make_block_entry(b, mem) OBVIOUS
  <1>4. e \in BlockLeaves /\ e.t = "block" BY <1>3, Zenon DEF make_block_entry, Leaf, BlockLeaves, Leaves
  <1>5. t = SetL2(u, b, e) BY <1>1, <1>2, <1>3 DEF map_block
  <1>6. SetL2Effect(u, t, b, e) BY <1>2, <1>4, <1>5, SetL2Works
  <1>7. /\ Tree(t) /\ t.next = u.next /\ t.count = u.count /\ t.ok = TRUE
        /\ \A c \in BlockNos : L2Entry(t, c) = IF c = b THEN e ELSE L2Entry(u, c)
        /\ \A j \in Index : IsLink(t, L1, j) <=> IsLink(u, L1, j)
        /\ \A p \in Pages : BlockOf(p) # b => Walk(t, p) = Walk(u, p)
        /\ \A p \in Pages : BlockOf(p) = b => Walk(t, p) = e
    BY <1>2, <1>4, <1>6, Zenon DEF SetL2Effect, SameSizes
  <1>8. SlotsOf(t) = SlotsOf(u) BY <1>7 DEF SlotsOf
  <1>9. SplitsOf(t) = {} /\ SplitsOf(u) = {} BY <1>2, <1>4, <1>7 DEF SplitsOf, SameWalks
  <1>10. Room(g, t) BY <1>2, <1>7, <1>8, <1>9, Zenon DEF Room
  <1> QED BY <1>2, <1>3, <1>7, <1>9, <1>10 DEF SameWalks, MapBlockEffect

\* A split leaves every page of the block where it was.
LEMMA PagesOfIs ==
  ASSUME NEW e \in BlockLeaves
  PROVE  /\ PagesOf(e) \in [Index -> PageEntries]
         /\ \A k \in Index : PagesOf(e)[k].t = "page"
         /\ \A p \in Pages : Behind(PagesOf(e)[p % K], p) = Behind(e, p)
  <1>1. PICK b \in BlockNos : e.pa = b * K BY DEF BlockLeaves, Leaves
  <1>2. \A k \in Index : e.pa + k \in Pages BY <1>1, PageAt
  <1>3. \A k \in Index : PagesOf(e)[k] = Leaf("page", e.pa + k, e.mem, e.ap, e.sw) BY DEF PagesOf
  <1>4. \A k \in Index : PagesOf(e)[k] \in PageLeaves
    <2>1. e.mem \in {"normal", "device"} /\ e.ap \in {"ro", "rw"} /\ e.sw \in {0, 1}
      BY DEF BlockLeaves, Leaves
    <2>2. \A pa \in Pages : Leaf("page", pa, e.mem, e.ap, e.sw) \in PageLeaves
      BY <2>1 DEF Leaf, PageLeaves, Leaves
    <2> QED BY <1>2, <1>3, <2>2
  <1>5. PagesOf(e) \in [Index -> PageEntries] BY <1>4 DEF PageEntries, PagesOf
  <1>6. \A k \in Index : PagesOf(e)[k].t = "page" BY <1>4, EntryKinds
  <1>7. ASSUME NEW p \in Pages PROVE Behind(PagesOf(e)[p % K], p) = Behind(e, p)
    <2>1. PICK k \in Index : k = p % K BY PageParts
    <2>2. e.t = "block" BY EntryKinds
    <2>3. \A pa : Behind(Leaf("page", pa, e.mem, e.ap, e.sw), p)
                   = [pa |-> pa, mem |-> e.mem, ap |-> e.ap, sw |-> e.sw]
      BY Zenon DEF Behind, Leaf
    <2>4. Behind(e, p) = [pa |-> e.pa + k, mem |-> e.mem, ap |-> e.ap, sw |-> e.sw]
      BY <2>1, <2>2 DEF Behind
    <2> QED BY <1>3, <2>1, <2>3, <2>4
  <1> QED BY <1>5, <1>6, <1>7

UnmapPageEffect(g, s, t, p) ==
  /\ Tree(t) /\ t.ok = TRUE /\ Room(g, t) /\ SplitsOf(t) \subseteq Splits(g)
  /\ \A q \in Pages : Behind(Walk(t, q), q) = IF q = p THEN Invalid ELSE Behind(Walk(s, q), q)
\* unmap_4kb_page splits a block at most once, and removes its page and no other.
LEMMA UnmapPage ==
  ASSUME NEW g \in Guests, NEW s, Tree(s), s.ok = TRUE, Room(g, s), SplitsOf(s) \subseteq Splits(g),
         NEW p \in Calls(g).traps, L2Entry(s, BlockOf(p)).t # "invalid",
         NEW t, t = unmap_4kb_page(s, p)
  PROVE  UnmapPageEffect(g, s, t, p)
  <1>1. p \in Pages BY CallsIs
  <1>2. PICK b \in BlockNos : b = BlockOf(p) BY <1>1, PageParts
  <1>3. PICK e : e = L2Entry(s, b) OBVIOUS
  <1>4. /\ e \in {Invalid} \cup Tables \cup BlockLeaves /\ e.t \in {"table", "block"}
        /\ HasL2(s, b)
    BY <1>2, <1>3, L2Is, EntryKinds, Zenon
  <1>5. PICK u : u = IF e.t = "block" THEN split_2mb_block(s, b) ELSE s BY Zenon
  <1>6. /\ Tree(u) /\ u.ok = TRUE /\ Room(g, u) /\ SplitsOf(u) \subseteq Splits(g)
        /\ L2Entry(u, b).t = "table"
        /\ \A q \in Pages : Behind(Walk(u, q), q) = Behind(Walk(s, q), q)
    <2>1. CASE e.t # "block"
      <3>1. u = s BY <1>5, <2>1, Zenon
      <3> QED BY <1>3, <1>4, <2>1, <3>1, Zenon
    <2>2. CASE e.t = "block"
      <3>1. e \in BlockLeaves BY <1>4, <2>2, EntryKinds, Zenon
      <3>2. PICK S : S = SplitsOf(s) OBVIOUS
      <3>3. b \notin S /\ b \in Splits(g) BY <1>2, <1>3, <2>2, <3>2, SetsFinite, Zenon DEF SplitsOf
      <3>4. /\ Cardinality(S \cup {b}) = Cardinality(S) + 1 /\ Cardinality(S) + 1 <= Cardinality(Splits(g))
            /\ Cardinality(S) \in Nat /\ Cardinality(Splits(g)) \in Nat
        BY <3>2, <3>3, SetsFinite, OneMore, Zenon
      <3>5. PICK x, y : x = Cardinality(SlotsOf(s)) /\ y = Cardinality(Slots(g)) BY Zenon
      <3>6. x \in Nat /\ y \in Nat /\ x <= y
        <4>1. IsFiniteSet(Slots(g)) /\ SlotsOf(s) \in SUBSET Slots(g) BY SetsFinite, Zenon DEF Room
        <4> QED BY <3>5, <4>1, FS_Subset, SetsFinite, Zenon
      <3>7. s.next = 3 + x + Cardinality(S) /\ 2 + y + Cardinality(Splits(g)) <= HeapPages /\ HeapPages \in Nat
        BY <3>2, <3>5, GuestFacts, HeapNat, Zenon DEF Room
      <3>a. PICK had, most, has : /\ had = Cardinality(S) /\ most = Cardinality(Splits(g))
                                /\ has = Cardinality(S \cup {b})
        BY Zenon
      <3>b. /\ had \in Nat /\ most \in Nat /\ has = had + 1 /\ had + 1 <= most
             /\ s.next = 3 + x + had /\ 2 + y + most <= HeapPages
        BY <3>4, <3>7, <3>a, Zenon
      <3>c. HeapPages \in Nat BY <3>7, Zenon
      <3>8. CanAlloc(s) BY <3>6, <3>b, <3>c DEF CanAlloc
      <3>9. PICK f : f = PagesOf(e) BY Zenon
      <3>10. /\ f \in [Index -> PageEntries]
             /\ \A q \in Pages : Behind(f[q % K], q) = Behind(e, q)
        BY <3>1, <3>9, PagesOfIs, Zenon
      <3>11. PICK z : z = Fill(s, f) BY Zenon
      <3>12. FillEffect(s, z, f) BY <3>8, <3>10, <3>11, FillWorks, Zenon
      <3>13. /\ Tree(z) /\ z.next = s.next + 1 /\ z.count = s.count /\ z.ok = s.ok /\ SameL1(s, z) /\ SameWalks(s, z)
             /\ s.next \in Heap /\ Loose(z, s.next) /\ \A k \in Index : z.tab[s.next][k] = f[k]
        BY <3>12, Zenon DEF FillEffect
      <3>14. u = SetL2(z, b, Table(s.next))
        BY <1>3, <1>5, <2>2, <3>8, <3>9, <3>11, Zenon DEF split_2mb_block, Filled
      <3>15. PICK d : d = Table(s.next) BY Zenon
      <3>16. d \in Tables /\ d.t = "table" /\ d.to = s.next BY <3>13, <3>15, EntryKinds, Zenon
      <3>17. HasL2(z, b) BY <1>4, <3>13, Zenon DEF SameL1
      <3>18. SetL2Effect(z, u, b, d) BY <3>13, <3>14, <3>15, <3>16, <3>17, SetL2Works, Zenon
      <3>19. /\ Tree(u) /\ u.next = z.next /\ u.count = z.count /\ u.ok = z.ok
             /\ \A c \in BlockNos : L2Entry(u, c) = IF c = b THEN d ELSE L2Entry(z, c)
             /\ \A j \in Index : IsLink(u, L1, j) <=> IsLink(z, L1, j)
             /\ \A q \in Pages : BlockOf(q) # b => Walk(u, q) = Walk(z, q)
             /\ \A q \in Pages : BlockOf(q) = b => Walk(u, q) = z.tab[s.next][q % K]
        BY <3>16, <3>18, Zenon DEF SetL2Effect, SameSizes
      <3>20. SplitsOf(u) = S \cup {b} BY <3>2, <3>13, <3>16, <3>19, Zenon DEF SplitsOf, SameWalks
      <3>21. SlotsOf(u) = SlotsOf(s) BY <3>13, <3>19, Zenon DEF SlotsOf, SameL1
      <3>22. Room(g, u)
        <4>1. s.count = x /\ SlotsOf(s) \subseteq Slots(g) BY <3>5 DEF Room
        <4>a. u.next = s.next + 1 BY <3>13, <3>19, Zenon
        <4>b. u.next = 3 + x + has BY <3>6, <3>b, <4>a
        <4>2. u.next = 3 + x + Cardinality(S \cup {b}) BY <3>a, <4>b, Zenon
        <4> QED BY <3>5, <3>13, <3>19, <3>20, <3>21, <4>1, <4>2, Zenon DEF Room
      <3>23. ASSUME NEW q \in Pages PROVE Behind(Walk(u, q), q) = Behind(Walk(s, q), q)
        <4>1. CASE BlockOf(q) # b BY <3>13, <3>19, <4>1, Zenon DEF SameWalks
        <4>2. CASE BlockOf(q) = b
          <5>1. Walk(s, q) = e BY <1>3, <2>2, <4>2, Zenon DEF Walk
          <5>2. Walk(u, q) = f[q % K] BY <3>13, <3>19, <4>2, PageParts, Zenon
          <5> QED BY <3>10, <5>1, <5>2, Zenon
        <4> QED BY <4>1, <4>2, Zenon
      <3> QED BY <3>2, <3>3, <3>13, <3>16, <3>19, <3>20, <3>22, <3>23, Zenon
    <2> QED BY <2>1, <2>2, Zenon
  <1>7. t = SetL3(u, p, Invalid)
    BY <1>2, <1>3, <1>4, <1>5, <1>6, Zenon DEF unmap_4kb_page
  <1>8. Invalid \in PageEntries BY Zenon DEF PageEntries
  <1>9. SetL3Effect(u, t, p, Invalid) BY <1>1, <1>2, <1>6, <1>7, <1>8, SetL3Works, Zenon
  <1>10. /\ Tree(t) /\ SameSizes(u, t) /\ SameL1(u, t)
         /\ \A c \in BlockNos : L2Entry(t, c) = L2Entry(u, c)
         /\ \A q \in Pages : Walk(t, q) = IF q = p THEN Invalid ELSE Walk(u, q)
    BY <1>9, Zenon DEF SetL3Effect
  <1>11. SlotsOf(t) = SlotsOf(u) /\ SplitsOf(t) = SplitsOf(u) BY <1>10, Zenon DEF SlotsOf, SplitsOf, SameL1
  <1>12. Room(g, t) /\ t.ok = TRUE BY <1>6, <1>10, <1>11, Zenon DEF Room, SameSizes
  <1>13. Behind(Invalid, p) = Invalid BY Zenon DEF Behind, Invalid
  <1> QED BY <1>6, <1>10, <1>11, <1>12, <1>13, Zenon DEF UnmapPageEffect

\* What a block entry of map_region maps.
LEMMA BehindBlock ==
  ASSUME NEW q \in Pages, NEW b, b = BlockOf(q), NEW mem
  PROVE  Behind(make_block_entry(b, mem), q) = Mapped(mem, q)
  <1>1. q = b * K + (q % K) BY PageParts
  <1>2. PICK x : x = b * K OBVIOUS
  <1>3. Behind(Leaf("block", x, mem, "rw", 0), q) = [pa |-> x + (q % K), mem |-> mem, ap |-> "rw", sw |-> 0]
    BY DEF Behind, Leaf
  <1> QED BY <1>1, <1>2, <1>3 DEF make_block_entry, Mapped

\* Boot goes through without an error, and the tables map what is planned so far.
LEMMA BootStep ==
  ASSUME TreeInv, mapper_call
  PROVE  Tree(m') /\ m'.ok = TRUE /\ m'.count \in 0 .. MaxL2 /\ Progress(guest, boot', m')
  <1> DEFINE g == guest
  <1>0. g \in Guests /\ m.ok = TRUE /\ Tree(m) BY DEF TreeInv, Types
  <1>1. /\ g \in Guests /\ m.ok = TRUE /\ Tree(m) /\ Progress(g, boot, m)
    <2>1. boot.normal # {} \/ boot.device # {} \/ boot.traps # {} BY DEF mapper_call
    <2>2. ~Booted BY <2>1 DEF Booted
    <2> QED BY <1>0, <2>2 DEF TreeInv, AtBoot
  <1>2. /\ Order(g, boot) /\ Room(g, m) /\ SplitsOf(m) \subseteq Splits(g)
        /\ boot.normal \cup boot.device # {} => SplitsOf(m) = {}
        /\ \A p \in Pages : Behind(Walk(m, p), p) = Planned(g, boot, p)
    BY <1>1, Zenon DEF Progress, Room
  <1>3. /\ boot \in [normal : SUBSET Calls(g).normal, device : SUBSET Calls(g).device, traps : SUBSET Calls(g).traps]
        /\ boot.normal # {} => boot.device = Calls(g).device
        /\ boot.normal \cup boot.device # {} => boot.traps = Calls(g).traps
    BY <1>2, Zenon DEF Order
  <1>4. /\ boot.normal \in SUBSET Calls(g).normal /\ boot.device \in SUBSET Calls(g).device
        /\ boot.traps \in SUBSET Calls(g).traps
        /\ boot = [normal |-> boot.normal, device |-> boot.device, traps |-> boot.traps]
    BY <1>3
  <1>5. /\ Calls(g).normal \subseteq BlockNos /\ Calls(g).device \subseteq BlockNos
        /\ Calls(g).traps \subseteq Pages
        /\ \A p \in Calls(g).traps : BlockOf(p) \in Calls(g).device
        /\ \A b \in Calls(g).normal \cup Calls(g).device : b \div K \in Slots(g)
    BY <1>1, CallsIs, SetsFinite
  <1> HIDE DEF g
  <1>6. \A s : Tree(s) /\ s.ok = TRUE /\ Room(g, s) =>
          Tree(s) /\ s.ok = TRUE /\ s.count \in 0 .. MaxL2
    <2> SUFFICES ASSUME NEW s, Tree(s), s.ok = TRUE, Room(g, s) PROVE s.count \in 0 .. MaxL2 BY Zenon
    <2>1. IsFiniteSet(Slots(g)) /\ SlotsOf(s) \in SUBSET Slots(g) BY <1>1, SetsFinite, Zenon DEF Room
    <2>2. Cardinality(SlotsOf(s)) <= Cardinality(Slots(g)) BY <2>1, FS_Subset
    <2>3. s.count = Cardinality(SlotsOf(s)) BY DEF Room
    <2>4. Cardinality(Slots(g)) <= MaxL2 BY <1>1, GuestFacts
    <2>5. Cardinality(SlotsOf(s)) \in Nat /\ Cardinality(Slots(g)) \in Nat BY <1>1, SetsFinite, Zenon
    <2>6. MaxL2 \in Nat BY Stage2Assumption
    <2> QED BY <2>2, <2>3, <2>4, <2>5, <2>6
  <1>7. \A s : Room(g, s) /\ SplitsOf(s) \subseteq Splits(g) =>
          /\ SlotsOf(s) \subseteq Slots(g) /\ s.count = Cardinality(SlotsOf(s))
          /\ SplitsOf(s) \subseteq Splits(g)
          /\ s.next = 3 + Cardinality(SlotsOf(s)) + Cardinality(SplitsOf(s))
    BY DEF Room
  <1>8. ASSUME NEW b \in boot.normal, m' = map_block(m, b, "normal"), boot' = [boot EXCEPT !.normal = @ \ {b}]
        PROVE  Tree(m') /\ m'.ok = TRUE /\ m'.count \in 0 .. MaxL2 /\ Progress(g, boot', m')
    <2>1. b \in BlockNos /\ b \div K \in Slots(g) /\ b \in Calls(g).normal BY <1>4, <1>5
    <2>2. SplitsOf(m) = {} /\ boot.device = Calls(g).device /\ boot.traps = Calls(g).traps BY <1>2, <1>3, Zenon
    <2>3. /\ Tree(m') /\ m'.ok = TRUE /\ Room(g, m') /\ SplitsOf(m') = {}
          /\ \A p \in Pages : Walk(m', p) = IF BlockOf(p) = b THEN make_block_entry(b, "normal") ELSE Walk(m, p)
      <3>1. PICK mem \in {"normal", "device"} : mem = "normal" OBVIOUS
      <3>2. m' = map_block(m, b, mem) BY <1>8, <3>1
      <3>3. PICK t : t = m' OBVIOUS
      <3>4. t = map_block(m, b, mem) BY <3>2, <3>3
      <3>5. MapBlockEffect(g, m, t, b, mem) BY <1>1, <1>2, <2>1, <2>2, <3>4, MapBlock, Zenon
      <3> QED BY <3>1, <3>3, <3>5, Zenon DEF MapBlockEffect
    <2>4. boot' = [normal |-> boot.normal \ {b}, device |-> boot.device, traps |-> boot.traps]
      BY <1>4, <1>8
    <2>5. boot'.normal = boot.normal \ {b} /\ boot'.device = boot.device /\ boot'.traps = boot.traps BY <2>4
    <2>6. Order(g, boot') BY <1>4, <2>2, <2>4, <2>5 DEF Order
    <2>7. ASSUME NEW p \in Pages PROVE Behind(Walk(m', p), p) = Planned(g, boot', p)
      <3>1. CASE BlockOf(p) = b
        <4>1. Behind(Walk(m', p), p) = Mapped("normal", p) BY <2>3, <3>1, BehindBlock
        <4>2. Planned(g, boot', p) = Mapped("normal", p) BY <2>1, <2>2, <2>5, <3>1, Zenon DEF Planned
        <4> QED BY <4>1, <4>2
      <3>2. CASE BlockOf(p) # b
        <4>1. Planned(g, boot', p) = Planned(g, boot, p) BY <2>5, <3>2, Zenon DEF Planned
        <4> QED BY <1>2, <2>3, <3>2, <4>1, Zenon
      <3> QED BY <3>1, <3>2
    <2> QED BY <1>6, <1>7, <2>3, <2>6, <2>7, Zenon DEF Progress
  <1>9. ASSUME NEW b \in boot.device, boot.normal = {}, m' = map_block(m, b, "device"),
               boot' = [boot EXCEPT !.device = @ \ {b}]
        PROVE  Tree(m') /\ m'.ok = TRUE /\ m'.count \in 0 .. MaxL2 /\ Progress(g, boot', m')
    <2>1. b \in BlockNos /\ b \div K \in Slots(g) /\ b \in Calls(g).device BY <1>4, <1>5
    <2>2. SplitsOf(m) = {} /\ boot.traps = Calls(g).traps BY <1>2, <1>3, Zenon
    <2>3. /\ Tree(m') /\ m'.ok = TRUE /\ Room(g, m') /\ SplitsOf(m') = {}
          /\ \A p \in Pages : Walk(m', p) = IF BlockOf(p) = b THEN make_block_entry(b, "device") ELSE Walk(m, p)
      <3>1. PICK mem \in {"normal", "device"} : mem = "device" OBVIOUS
      <3>2. m' = map_block(m, b, mem) BY <1>9, <3>1
      <3>3. PICK t : t = m' OBVIOUS
      <3>4. t = map_block(m, b, mem) BY <3>2, <3>3
      <3>5. MapBlockEffect(g, m, t, b, mem) BY <1>1, <1>2, <2>1, <2>2, <3>4, MapBlock, Zenon
      <3> QED BY <3>1, <3>3, <3>5, Zenon DEF MapBlockEffect
    <2>4. boot' = [normal |-> boot.normal, device |-> boot.device \ {b}, traps |-> boot.traps]
      BY <1>4, <1>9
    <2>5. boot'.normal = boot.normal /\ boot'.device = boot.device \ {b} /\ boot'.traps = boot.traps BY <2>4
    <2>6. Order(g, boot') BY <1>4, <1>9, <2>2, <2>4, <2>5 DEF Order
    <2>7. ASSUME NEW p \in Pages PROVE Behind(Walk(m', p), p) = Planned(g, boot', p)
      <3>1. CASE BlockOf(p) = b
        <4>1. Behind(Walk(m', p), p) = Mapped("device", p) BY <2>3, <3>1, BehindBlock
        <4>2. Planned(g, boot', p) = Mapped("device", p) BY <2>1, <2>2, <2>5, <3>1 DEF Planned
        <4> QED BY <4>1, <4>2
      <3>2. CASE BlockOf(p) # b
        <4>1. Planned(g, boot', p) = Planned(g, boot, p) BY <2>5, <3>2, Zenon DEF Planned
        <4> QED BY <1>2, <2>3, <3>2, <4>1, Zenon
      <3> QED BY <3>1, <3>2
    <2> QED BY <1>6, <1>7, <2>3, <2>6, <2>7, Zenon DEF Progress
  <1>10. ASSUME NEW p \in boot.traps, boot.normal \cup boot.device = {}, m' = unmap_4kb_page(m, p),
                boot' = [boot EXCEPT !.traps = @ \ {p}]
         PROVE  Tree(m') /\ m'.ok = TRUE /\ m'.count \in 0 .. MaxL2 /\ Progress(g, boot', m')
    <2>1. p \in Calls(g).traps /\ p \in Pages /\ BlockOf(p) \in Calls(g).device /\ boot.device = {} BY <1>4, <1>5, <1>10
    <2>2. Planned(g, boot, p) = Mapped("device", p) BY <1>10, <2>1 DEF Planned
    <2>3. L2Entry(m, BlockOf(p)).t # "invalid"
      <3>1. SUFFICES ASSUME L2Entry(m, BlockOf(p)).t = "invalid" PROVE FALSE OBVIOUS
      <3>2. Walk(m, p) = Invalid BY <1>1, <2>1, <3>1, WalkIs, Zenon
      <3>3. Behind(Walk(m, p), p) = Invalid BY <3>2 DEF Behind, Invalid
      <3>4. Mapped("device", p) = Invalid BY <1>2, <2>1, <2>2, <3>3, Zenon
      <3>5. Mapped("device", p).ap = "rw" /\ DOMAIN Mapped("device", p) = {"pa", "mem", "ap", "sw"} BY Zenon DEF Mapped
      <3>6. DOMAIN Invalid = {"t"} BY Zenon DEF Invalid
      <3> QED BY <3>4, <3>5, <3>6
    <2>4. /\ Tree(m') /\ m'.ok = TRUE /\ Room(g, m') /\ SplitsOf(m') \subseteq Splits(g)
          /\ \A q \in Pages : Behind(Walk(m', q), q) = IF q = p THEN Invalid ELSE Behind(Walk(m, q), q)
      <3>1. PICK t : t = m' OBVIOUS
      <3>2. t = unmap_4kb_page(m, p) BY <1>10, <3>1
      <3>3. UnmapPageEffect(g, m, t, p) BY <1>1, <1>2, <2>1, <2>3, <3>2, UnmapPage, Zenon
      <3> QED BY <3>1, <3>3, Zenon DEF UnmapPageEffect
    <2>5. boot' = [normal |-> boot.normal, device |-> boot.device, traps |-> boot.traps \ {p}]
      BY <1>4, <1>10
    <2>6. boot'.normal = {} /\ boot'.device = {} /\ boot'.normal = boot.normal /\ boot'.device = boot.device
          /\ boot'.traps = boot.traps \ {p}
      BY <1>10, <2>5
    <2>7. Order(g, boot') BY <1>4, <2>5, <2>6 DEF Order
    <2>8. ASSUME NEW q \in Pages PROVE Behind(Walk(m', q), q) = Planned(g, boot', q)
      <3>1. CASE q = p
        <4>1. Planned(g, boot', q) = Invalid BY <2>1, <2>6, <3>1 DEF Planned
        <4> QED BY <2>4, <3>1, <4>1, Zenon
      <3>2. CASE q # p
        <4>1. Planned(g, boot', q) = Planned(g, boot, q) BY <2>6, <3>2, Zenon DEF Planned
        <4> QED BY <1>2, <2>4, <3>2, <4>1, Zenon
      <3> QED BY <3>1, <3>2
    <2> QED BY <1>6, <1>7, <2>4, <2>6, <2>7, <2>8, Zenon DEF Progress
  <1> QED BY <1>8, <1>9, <1>10, Zenon DEF mapper_call, g

-----------------------------------------------------------------------------
(* The tables stay a tree.                                                 *)

\* Operations and the idle state.
LEMMA OpFacts ==
  /\ Idle.at = "idle" /\ Idle \notin Ops
  /\ \A o \in Ops : /\ o = [at |-> o.at, r |-> o.r, l3 |-> o.l3]
                    /\ o.r.page \in OpPages /\ o.r.page \in Pages /\ o.at # "idle"
                    /\ Block(o) \in BlockNos
  <1>1. \A o \in Ops : o = [at |-> o.at, r |-> o.r, l3 |-> o.l3] /\ o.at # "idle" /\ o.r.page \in OpPages
    BY DEF Ops
  <1>2. OpPages \subseteq Pages BY Stage2Assumption
  <1>3. Idle.at = "idle" BY DEF Idle
  <1> QED BY <1>1, <1>2, <1>3, PageParts DEF Block

\* The mapper starts with an empty tree and everything to do.
LEMMA InitTree == Init => TreeInv
  <1> SUFFICES ASSUME Init PROVE TreeInv OBVIOUS
  <1>1. /\ guest \in Guests /\ boot = Calls(guest) /\ m = New /\ op = [c \in Walkers |-> Idle] /\ ops = 0
        /\ tlb = {} /\ applied = [p \in OpPages |-> Nothing]
    BY DEF Init
  <1>2. \A c \in Walkers : op[c] = Idle BY <1>1
  <1>3. Types BY <1>1, NewIs, Stage2Assumption DEF Types
  <1>4. OpsGood /\ HeldApart BY <1>2, OpFacts DEF OpsGood, OpGood, Held, HeldApart
  <1>5. AllIdle BY <1>2 DEF AllIdle
  <1>6. Progress(guest, boot, m)
    <2>1. boot = [normal |-> boot.normal, device |-> boot.device, traps |-> boot.traps] BY <1>1, CallsIs
    <2>2. Order(guest, boot)
      <3>1. boot \in [normal : SUBSET boot.normal, device : SUBSET boot.device, traps : SUBSET boot.traps]
        BY <2>1
      <3> QED BY <1>1, <3>1 DEF Order
    <2>3. SlotsOf(m) = {} /\ SplitsOf(m) = {} BY <1>1, NewIs, EntryKinds DEF SlotsOf, SplitsOf
    <2>4. Cardinality({}) = 0 BY FS_EmptySet
    <2>5. \A p \in Pages : Behind(Walk(m, p), p) = Invalid BY <1>1, NewIs DEF Behind, Invalid
    <2>6. \A p \in Pages : Planned(guest, boot, p) = Invalid BY <1>1 DEF Planned
    <2>7. m.count = 0 /\ m.next = 3 BY <1>1, NewIs
    <2>8. /\ SlotsOf(m) \subseteq Slots(guest) /\ m.count = Cardinality(SlotsOf(m))
          /\ m.next = 3 + Cardinality(SlotsOf(m)) + Cardinality(SplitsOf(m))
      BY <2>3, <2>4, <2>7
    <2> QED BY <2>2, <2>3, <2>5, <2>6, <2>8, Zenon DEF Progress
  <1>7. AtBoot BY <1>1, <1>5, <1>6 DEF AtBoot
  <1>8. AfterBoot BY <1>1, CallsIs DEF AfterBoot, Booted
  <1> QED BY <1>1, <1>3, <1>4, <1>7, <1>8, NewIs DEF TreeInv

\* What a step of a walker may do to the tables of others.
Gentle(s, t) ==
  /\ Tree(t) /\ t.ok = TRUE /\ t.count = s.count
  /\ \A b \in BlockNos : HasL2(s, b) => HasL2(t, b)
  /\ \A b \in BlockNos : L2Entry(s, b).t # "block" => L2Entry(t, b).t # "block"

\* An operation keeps what it relies on when another walker takes such a step.
LEMMA OpGoodKept ==
  ASSUME NEW s, NEW t, Gentle(s, t), NEW o \in Ops \cup {Idle}, OpGood(s, o),
         Held(o) => StillLoose(s, t, o.l3)
  PROVE  OpGood(t, o)
  <1>1. CASE o = Idle BY <1>1, OpFacts DEF OpGood, Held
  <1>2. CASE o \in Ops BY <1>2, OpFacts DEF OpGood, Gentle, StillLoose
  <1> QED BY <1>1, <1>2

\* A step of one walker that is gentle with the others' tables.
LEMMA WalkerStep ==
  ASSUME TreeInv, Booted, NEW c \in Walkers, NEW o \in Ops \cup {Idle}, op' = [op EXCEPT ![c] = o],
         Gentle(m, m'), OpGood(m', o), guest' = guest, boot' = boot, ops' \in 0 .. MaxOps,
         \A d \in Walkers : d # c /\ Held(op[d]) => StillLoose(m, m', op[d].l3),
         \A d \in Walkers : d # c /\ Held(op[d]) /\ Held(o) => op[d].l3 # o.l3
  PROVE  TreeInv'
  <1>1. Types /\ Tree(m) /\ OpsGood /\ HeldApart /\ AfterBoot BY DEF TreeInv
  <1>2. op \in [Walkers -> {Idle} \cup Ops] BY <1>1 DEF Types
  <1>3. /\ op' \in [Walkers -> {Idle} \cup Ops]
        /\ \A d \in Walkers : op'[d] = IF d = c THEN o ELSE op[d]
    BY <1>2
  <1>4. Types' BY <1>1, <1>3 DEF Types, Gentle
  <1>5. OpsGood'
    <2> SUFFICES ASSUME NEW d \in Walkers PROVE OpGood(m', op'[d]) BY DEF OpsGood
    <2>1. CASE d = c BY <1>3, <2>1
    <2>2. CASE d # c
      <3>1. OpGood(m, op[d]) /\ op[d] \in Ops \cup {Idle} BY <1>1, <1>2 DEF OpsGood
      <3>2. OpGood(m', op[d]) BY <2>2, <3>1, OpGoodKept
      <3> QED BY <1>3, <2>2, <3>2
    <2> QED BY <2>1, <2>2
  <1>6. HeldApart' BY <1>1, <1>3 DEF HeldApart
  <1>7. Booted' BY Zenon DEF Booted, Gentle
  <1>8. AtBoot' BY <1>7 DEF AtBoot
  <1>9. AfterBoot' BY <1>1 DEF AfterBoot
  <1> QED BY <1>4, <1>5, <1>6, <1>8, <1>9 DEF TreeInv, Gentle

\* Operations begin after boot.
LEMMA ActiveBooted ==
  ASSUME TreeInv, NEW c \in Walkers, op[c].at # "idle"
  PROVE  Booted /\ op[c] \in Ops /\ OpGood(m, op[c])
  BY OpFacts DEF TreeInv, Types, AtBoot, AllIdle, OpsGood

\* An operation that goes on.
LEMMA GoToIs ==
  ASSUME NEW o \in Ops, NEW a \in {"break", "flush1", "link", "flush2", "leaf", "tlbi"}
  PROVE  /\ [o EXCEPT !.at = a] \in Ops /\ [o EXCEPT !.at = a].at = a
         /\ [o EXCEPT !.at = a].r = o.r /\ [o EXCEPT !.at = a].l3 = o.l3
         /\ Block([o EXCEPT !.at = a]) = Block(o)
  BY DEF Ops, Block

\* A boot call.
LEMMA MapperTree ==
  ASSUME TreeInv, mapper_call
  PROVE  TreeInv'
  <1>1. Tree(m') /\ m'.ok = TRUE /\ m'.count \in 0 .. MaxL2 /\ Progress(guest, boot', m') BY BootStep, Zenon
  <1>2. UNCHANGED <<guest, op, ops, tlb, applied>> BY DEF mapper_call
  <1>3. Types /\ OpsGood /\ HeldApart /\ AtBoot BY DEF TreeInv
  <1>4. ~Booted BY DEF mapper_call, Booted
  <1>5. AllIdle /\ tlb = {} /\ applied = [p \in OpPages |-> Nothing] BY <1>3, <1>4 DEF AtBoot
  <1>6. Types' BY <1>1, <1>2, <1>3 DEF Types
  <1>7. AllIdle' BY <1>2, <1>5 DEF AllIdle
  <1>8. OpsGood' /\ HeldApart' BY <1>7, OpFacts DEF OpsGood, OpGood, Held, HeldApart, AllIdle
  <1>9. AtBoot' BY <1>1, <1>2, <1>5, <1>7 DEF AtBoot
  <1>10. AfterBoot'
    <2>1. boot' \in [normal : SUBSET Calls(guest).normal, device : SUBSET Calls(guest).device, traps : SUBSET Calls(guest).traps]
      BY <1>1, Zenon DEF Progress, Order
    <2>2. boot' = [normal |-> boot'.normal, device |-> boot'.device, traps |-> boot'.traps] BY <2>1, Zenon
    <2> QED BY <2>2 DEF AfterBoot, Booted
  <1> QED BY <1>1, <1>6, <1>8, <1>9, <1>10 DEF TreeInv

\* A step that writes no table is gentle.
LEMMA SameGentle ==
  ASSUME TreeInv
  PROVE  Gentle(m, m) /\ \A l \in Heap : Loose(m, l) => StillLoose(m, m, l)
  BY DEF TreeInv, Types, Gentle, StillLoose

\* An operation goes on without touching the tables.
LEMMA WalkerStays ==
  ASSUME TreeInv, Booted, NEW c \in Walkers, NEW o \in Ops \cup {Idle}, op' = [op EXCEPT ![c] = o],
         m' = m, OpGood(m, o), UNCHANGED <<guest, boot>>, ops' \in 0 .. MaxOps,
         Held(o) => Held(op[c]) /\ o.l3 = op[c].l3
  PROVE  TreeInv'
  <1>1. Gentle(m, m') /\ \A l \in Heap : Loose(m, l) => StillLoose(m, m', l) BY SameGentle
  <1>2. \A d \in Walkers : d # c /\ Held(op[d]) => StillLoose(m, m', op[d].l3)
    BY <1>1, Zenon DEF TreeInv, OpsGood, OpGood
  <1>3. \A d \in Walkers : d # c /\ Held(op[d]) /\ Held(o) => op[d].l3 # o.l3
    BY DEF TreeInv, HeldApart
  <1>4. OpGood(m', o) OBVIOUS
  <1> QED BY <1>1, <1>2, <1>3, <1>4, WalkerStep, Zenon

\* The operation of a request.
LEMMA RequestIs ==
  ASSUME NEW r \in Requests \cup [k : Kinds \cap {"unmap"}, page : OpPages, ap : {"rw"}, sw : {0}],
         NEW a \in {"break", "leaf"}, NEW h \in Nat
  PROVE  /\ Doing(a, r, h) \in Ops /\ Doing(a, r, h).at = a /\ Doing(a, r, h).r = r /\ Doing(a, r, h).l3 = h
         /\ r.k # "map" /\ r.page \in OpPages /\ r.page \in Pages /\ BlockOf(r.page) \in BlockNos
         /\ Block(Doing(a, r, h)) = BlockOf(r.page)
  <1>1. r \in [k : {"sw", "s2ap", "unmap"}, page : OpPages, ap : {"ro", "rw"}, sw : {0, 1}] BY DEF Requests
  <1>2. r.page \in Pages BY <1>1, Stage2Assumption
  <1> QED BY <1>1, <1>2, PageParts, Zenon DEF Doing, Ops, Block

\* An operation that begins with a split.
LEMMA BreakIs == \A r \in Requests, h \in Nat : Doing("break", r, h) \in Ops
  BY RequestIs

\* An operation that begins with the write of the entry.
LEMMA LeafIs ==
  \A r \in Requests \cup [k : Kinds \cap {"unmap"}, page : OpPages, ap : {"rw"}, sw : {0}] :
    Doing("leaf", r, 0) \in Ops
  BY RequestIs

\* An operation begins.
LEMMA BeginOps ==
  ASSUME TreeInv, NEW c \in Walkers, NEW o, Begin(c, o)
  PROVE  Booted /\ op[c] = Idle /\ op' = [op EXCEPT ![c] = o] /\ ops' \in 0 .. MaxOps /\ UNCHANGED <<guest, boot>>
  <1>1. Booted /\ op[c] = Idle /\ op' = [op EXCEPT ![c] = o] /\ UNCHANGED <<guest, boot>> BY DEF Begin
  <1>2. ops' = ops + 1 /\ ops < MaxOps BY DEF Begin
  <1>3. ops \in 0 .. MaxOps /\ MaxOps \in Nat BY Stage2Assumption DEF TreeInv, Types
  <1>4. ops' \in 0 .. MaxOps BY <1>2, <1>3
  <1> QED BY <1>1, <1>4

\* write_sw_bits, set_s2ap or unmap_page of a page.
LEMMA ChangeTree ==
  ASSUME TreeInv, NEW c \in Walkers, change(c)
  PROVE  TreeInv'
  <1>1. PICK r \in Requests \cup [k : Kinds \cap {"unmap"}, page : OpPages, ap : {"rw"}, sw : {0}] :
          /\ L2Entry(m, BlockOf(r.page)).t = "table"
          /\ Begin(c, Doing("leaf", r, 0)) /\ m' = m
    BY DEF change
  <1>2. PICK o : o = Doing("leaf", r, 0) OBVIOUS
  <1>3. o \in Ops /\ o.at = "leaf" /\ o.r = r /\ r.k # "map" /\ Block(o) = BlockOf(r.page) /\ Block(o) \in BlockNos
    BY <1>2, RequestIs
  <1>4. Tree(m) BY DEF TreeInv
  <1>5. HasL2(m, Block(o)) BY <1>1, <1>3, <1>4, L2Is, Zenon
  <1>6. OpGood(m, o) /\ ~Held(o) BY <1>1, <1>3, <1>5 DEF OpGood, Held
  <1>7. Booted /\ op' = [op EXCEPT ![c] = o] /\ ops' \in 0 .. MaxOps /\ UNCHANGED <<guest, boot>>
    BY <1>1, <1>2, BeginOps
  <1> QED BY <1>1, <1>3, <1>6, <1>7, WalkerStays, Zenon

\* split_block_if_needed takes and fills a table that nobody else holds.
LEMMA SplitTree ==
  ASSUME TreeInv, NEW c \in Walkers, split(c)
  PROVE  TreeInv'
  <1>1. PICK r \in Requests :
          /\ L2Entry(m, BlockOf(r.page)).t = "block" /\ CanAlloc(m)
          /\ Begin(c, Doing("break", r, m.next))
          /\ m' = Filled(m, L2Entry(m, BlockOf(r.page)))
    BY DEF split
  <1>2. Tree(m) /\ m.ok = TRUE BY DEF TreeInv, Types
  <1>3. m.next \in Nat BY <1>2 DEF Tree, Mapper
  <1>4. PICK o : o = Doing("break", r, m.next) OBVIOUS
  <1>5. /\ o \in Ops /\ o.at = "break" /\ o.r = r /\ o.l3 = m.next /\ r.k # "map"
        /\ Block(o) = BlockOf(r.page) /\ Block(o) \in BlockNos
    BY <1>3, <1>4, RequestIs
  <1>6. PICK e : e = L2Entry(m, Block(o)) OBVIOUS
  <1>7. e \in BlockLeaves /\ HasL2(m, Block(o)) BY <1>1, <1>2, <1>5, <1>6, L2Is, EntryKinds, Zenon
  <1>8. PICK f \in [Index -> PageEntries] : f = PagesOf(e) BY <1>7, PagesOfIs
  <1>9. PICK t : t = m' OBVIOUS
  <1>10. t = Fill(m, f) BY <1>1, <1>5, <1>6, <1>8, <1>9, Zenon DEF Filled
  <1>11. FillEffect(m, t, f) BY <1>1, <1>2, <1>10, FillWorks
  <1>12. Gentle(m, t) BY <1>2, <1>11, Zenon DEF FillEffect, Gentle, SameL1, SameWalks
  <1>13. OpGood(t, o) BY <1>5, <1>7, <1>11, Zenon DEF OpGood, Held, FillEffect, SameL1
  <1>14. /\ \A d \in Walkers : d # c /\ Held(op[d]) => StillLoose(m, t, op[d].l3)
         /\ \A d \in Walkers : d # c /\ Held(op[d]) /\ Held(o) => op[d].l3 # o.l3
    BY <1>5, <1>11, Zenon DEF FillEffect, TreeInv, OpsGood, OpGood
  <1>15. Booted /\ op' = [op EXCEPT ![c] = o] /\ ops' \in 0 .. MaxOps /\ UNCHANGED <<guest, boot>>
    BY <1>1, <1>4, BeginOps
  <1> QED BY <1>5, <1>9, <1>12, <1>13, <1>14, <1>15, WalkerStep, Zenon

\* What map_page does to the tables before it writes the entry.
LinkedEffect(s, t, p) ==
  /\ Gentle(s, t) /\ \A q \in Pages : Walk(t, q) = Walk(s, q)
  /\ \A l \in Heap : Loose(s, l) => StillLoose(s, t, l)
  /\ \A b \in BlockNos : b # BlockOf(p) => L2Entry(t, b) = L2Entry(s, b)
  /\ L2Entry(t, BlockOf(p)) = L2Entry(s, BlockOf(p)) \/ L2Entry(t, BlockOf(p)).t = "table"

\* map_page links a level-2 table if there is none.
LEMMA LinkL2Works ==
  ASSUME NEW s, Tree(s), s.ok = TRUE, NEW p \in Pages, NEW t, t = LinkL2(s, p)
  PROVE  LinkedEffect(s, t, p) /\ SameWalks(s, t)
  <1>0. PICK b \in BlockNos : b = BlockOf(p) BY PageParts
  <1>1. CASE HasL2(s, b) \/ ~CanAlloc(s)
    <2>1. t = s BY <1>0, <1>1 DEF LinkL2
    <2> QED BY <2>1 DEF LinkedEffect, Gentle, StillLoose, SameWalks
  <1>2. CASE ~(HasL2(s, b) \/ ~CanAlloc(s))
    <2>1. t = Store(Zeroed(s), L1, b \div K, Table(s.next)) BY <1>0, <1>2 DEF LinkL2
    <2>2. NewL2Effect(s, t, b) BY <1>2, <2>1, NewL2Works
    <2> QED BY <1>0, <2>2 DEF NewL2Effect, LinkedEffect, Gentle, SameWalks
  <1> QED BY <1>1, <1>2

\* map_page links an empty level-3 table if there is none.
LEMMA LinkL3Works ==
  ASSUME NEW s, Tree(s), s.ok = TRUE, NEW p \in Pages, Walk(s, p) = Invalid, NEW t, t = LinkL3(s, p)
  PROVE  LinkedEffect(s, t, p)
  <1>0. PICK b \in BlockNos : b = BlockOf(p) BY PageParts
  <1>1. CASE ~HasL2(s, b) \/ L2Entry(s, b).t = "table" \/ ~CanAlloc(s)
    <2>1. t = s BY <1>0, <1>1 DEF LinkL3
    <2> QED BY <2>1 DEF LinkedEffect, Gentle, StillLoose, SameWalks
  <1>2. CASE ~(~HasL2(s, b) \/ L2Entry(s, b).t = "table" \/ ~CanAlloc(s))
    <2>1. t = SetL2(Zeroed(s), b, Table(s.next)) BY <1>0, <1>2 DEF LinkL3
    <2>2. PICK f : f = [i \in Index |-> Invalid] BY Zenon
    <2>3. f \in [Index -> PageEntries] /\ \A i \in Index : f[i] = Invalid BY <2>2 DEF PageEntries
    <2>4. PICK z : z = Fill(s, f) OBVIOUS
    <2>5. FillEffect(s, z, f) BY <1>2, <2>3, <2>4, FillWorks
    <2>6. PICK l \in Heap : l = s.next BY <2>5, Zenon DEF FillEffect
    <2>7. PICK e : e = Table(l) OBVIOUS
    <2>8. e \in Tables /\ e.to = l /\ e.t = "table" BY <2>7 DEF Table, Tables
    <2>9. t = SetL2(z, b, e) BY <2>1, <2>2, <2>4, <2>6, <2>7 DEF Zeroed
    <2>10. Tree(z) /\ HasL2(z, b) /\ Loose(z, l) BY <1>2, <2>5, <2>6, Zenon DEF FillEffect, SameL1
    <2>11. SetL2Effect(z, t, b, e) BY <2>8, <2>9, <2>10, SetL2Works
    <2>12. L2Entry(s, b) = Invalid /\ Invalid.t = "invalid"
      <3>1. Walk(s, p) = L2Entry(s, BlockOf(p)) BY <1>0, <1>2, WalkIs, Zenon
      <3> QED BY <1>0, <3>1, EntryKinds
    <2>13. \A q \in Pages : BlockOf(q) = b => Walk(s, q) = Invalid BY <2>12, WalkIs, Zenon
    <2>14. ASSUME NEW q \in Pages PROVE Walk(t, q) = Walk(s, q)
      <3>1. Walk(z, q) = Walk(s, q) BY <2>5, Zenon DEF FillEffect, SameWalks
      <3>2. CASE BlockOf(q) # b BY <2>11, <3>1, <3>2, Zenon DEF SetL2Effect
      <3>3. CASE BlockOf(q) = b
        <4>1. Walk(t, q) = z.tab[l][q % K] BY <2>8, <2>11, <3>3, Zenon DEF SetL2Effect
        <4>2. q % K \in Index BY PageParts
        <4>3. z.tab[l][q % K] = Invalid BY <2>3, <2>5, <2>6, <4>2, Zenon DEF FillEffect
        <4> QED BY <2>13, <3>3, <4>1, <4>3, Zenon
      <3> QED BY <3>2, <3>3
    <2>15. ASSUME NEW g \in Heap, Loose(s, g) PROVE StillLoose(s, t, g)
      <3>1. g # l /\ StillLoose(s, z, g) BY <2>5, <2>6, <2>15, Zenon DEF FillEffect
      <3>2. e # Table(g) BY <2>7, <3>1 DEF Table
      <3>3. StillLoose(z, t, g) BY <2>11, <3>1, <3>2, Zenon DEF SetL2Effect, StillLoose
      <3> QED BY <3>1, <3>3, Zenon DEF StillLoose
    <2>16. \A c \in BlockNos : L2Entry(t, c) = IF c = b THEN e ELSE L2Entry(s, c)
      BY <2>5, <2>11, Zenon DEF FillEffect, SameWalks, SetL2Effect
    <2>17. Gentle(s, t)
      <3>1. Tree(t) /\ t.ok = TRUE /\ t.count = s.count BY <2>5, <2>11, Zenon DEF FillEffect, SetL2Effect, SameSizes
      <3>2. \A c \in BlockNos : HasL2(s, c) => HasL2(t, c) BY <2>5, <2>11, Zenon DEF FillEffect, SameL1, SetL2Effect
      <3> QED BY <2>8, <2>16, <3>1, <3>2 DEF Gentle
    <2> QED BY <1>0, <2>8, <2>14, <2>15, <2>16, <2>17 DEF LinkedEffect
  <1> QED BY <1>1, <1>2

\* The two together.
LEMMA LinkedWorks ==
  ASSUME NEW s, Tree(s), s.ok = TRUE, NEW p \in Pages, Walk(s, p) = Invalid, NEW t, t = Linked(s, p)
  PROVE  LinkedEffect(s, t, p)
  <1>1. PICK u : u = LinkL2(s, p) OBVIOUS
  <1>2. LinkedEffect(s, u, p) /\ SameWalks(s, u) BY <1>1, LinkL2Works, Zenon
  <1>3. t = LinkL3(u, p) BY <1>1 DEF Linked
  <1>4. Tree(u) /\ u.ok = TRUE /\ Walk(u, p) = Invalid BY <1>2 DEF LinkedEffect, Gentle
  <1>5. LinkedEffect(u, t, p) BY <1>3, <1>4, LinkL3Works, Zenon
  <1>6. Gentle(s, t) BY <1>2, <1>5, Zenon DEF LinkedEffect, Gentle
  <1>7. \A q \in Pages : Walk(t, q) = Walk(s, q) BY <1>2, <1>5 DEF LinkedEffect
  <1>8. ASSUME NEW l \in Heap, Loose(s, l) PROVE StillLoose(s, t, l)
    BY <1>2, <1>5, <1>8 DEF LinkedEffect, StillLoose
  <1>9. BlockOf(p) \in BlockNos BY PageParts
  <1>10. /\ \A b \in BlockNos : b # BlockOf(p) => L2Entry(t, b) = L2Entry(s, b)
         /\ L2Entry(t, BlockOf(p)) = L2Entry(s, BlockOf(p)) \/ L2Entry(t, BlockOf(p)).t = "table"
    BY <1>2, <1>5, <1>9 DEF LinkedEffect, SameWalks
  <1> QED BY <1>6, <1>7, <1>8, <1>10 DEF LinkedEffect

\* The operation of map_page.
LEMMA MapRequest ==
  ASSUME NEW p \in OpPages
  PROVE  LET o == Doing("tlbi", Request("map", p, "rw", 1), 0)
         IN  o \in Ops /\ o.at = "tlbi" /\ o.r.page = p /\ o.r.k = "map"
  BY DEF Doing, Request, Ops

\* The write of a page's entry leaves the tables of others alone.
LEMMA SetL3Gentle ==
  ASSUME NEW s, s.ok = TRUE, NEW t, NEW p, NEW e, SetL3Effect(s, t, p, e)
  PROVE  Gentle(s, t)
  BY DEF SetL3Effect, Gentle, SameL1, SameSizes

\* What map_page does, when it comes to write the entry.
MapEffect(s, t, p) ==
  /\ Gentle(s, t) /\ Walk(t, p) = Leaf("page", p, "normal", "rw", 1)
  /\ \A q \in Pages : q # p => Walk(t, q) = Walk(s, q)
  /\ \A l \in Heap : Loose(s, l) => StillLoose(s, t, l)

\* The entry that map_page writes is that of a page.
LEMMA MapLeaf ==
  ASSUME NEW p \in Pages
  PROVE  Leaf("page", p, "normal", "rw", 1) \in PageLeaves
  BY DEF Leaf, PageLeaves, Leaves

\* map_page as a whole: the page is mapped and no other walk changes.
LEMMA MapWorks ==
  ASSUME NEW s, Tree(s), s.ok = TRUE, NEW p \in Pages, Walk(s, p) = Invalid, NEW u, u = Linked(s, p),
         L2Entry(u, BlockOf(p)).t = "table", NEW t, t = SetL3(u, p, Leaf("page", p, "normal", "rw", 1))
  PROVE  MapEffect(s, t, p)
  <1>1. LinkedEffect(s, u, p) BY LinkedWorks, Zenon
  <1>2. Tree(u) /\ u.ok = TRUE BY <1>1 DEF LinkedEffect, Gentle
  <1>3. PICK e : e = Leaf("page", p, "normal", "rw", 1) OBVIOUS
  <1>4. e \in PageEntries BY <1>3, MapLeaf DEF PageEntries
  <1>5. SetL3Effect(u, t, p, e) BY <1>2, <1>3, <1>4, SetL3Works
  <1>6. Gentle(u, t) BY <1>2, <1>5, SetL3Gentle, Zenon
  <1>7. Gentle(s, t) BY <1>1, <1>6 DEF LinkedEffect, Gentle
  <1>8. ASSUME NEW l \in Heap, Loose(s, l) PROVE StillLoose(s, t, l)
    BY <1>1, <1>5, <1>8 DEF LinkedEffect, SetL3Effect, StillLoose
  <1>9. \A q \in Pages : Walk(t, q) = IF q = p THEN e ELSE Walk(s, q)
    BY <1>1, <1>5 DEF LinkedEffect, SetL3Effect
  <1> QED BY <1>3, <1>7, <1>8, <1>9 DEF MapEffect

\* map_page.
LEMMA MapTree ==
  ASSUME TreeInv, NEW c \in Walkers, map_page(c)
  PROVE  TreeInv'
  <1>0. Tree(m) /\ m.ok = TRUE BY DEF TreeInv, Types
  <1>p. PICK p \in OpPages :
          LET u == Linked(m, p)
              ok == L2Entry(u, BlockOf(p)).t = "table"
          IN  /\ Walk(m, p) = Invalid
              /\ Begin(c, IF ok THEN Doing("tlbi", Request("map", p, "rw", 1), 0) ELSE Idle)
              /\ m' = IF ok THEN SetL3(u, p, Leaf("page", p, "normal", "rw", 1)) ELSE u
    BY DEF map_page
  <1>u. PICK u : u = Linked(m, p) OBVIOUS
  <1>o. PICK o : o = IF L2Entry(u, BlockOf(p)).t = "table"
                     THEN Doing("tlbi", Request("map", p, "rw", 1), 0) ELSE Idle
    OBVIOUS
  <1>1. /\ u = Linked(m, p) /\ Walk(m, p) = Invalid /\ Begin(c, o)
        /\ o = IF L2Entry(u, BlockOf(p)).t = "table" THEN Doing("tlbi", Request("map", p, "rw", 1), 0) ELSE Idle
        /\ m' = IF L2Entry(u, BlockOf(p)).t = "table" THEN SetL3(u, p, Leaf("page", p, "normal", "rw", 1)) ELSE u
    BY <1>p, <1>u, <1>o
  <1>2. p \in Pages BY Stage2Assumption
  <1>3. PICK t : t = m' OBVIOUS
  <1>4. /\ o \in Ops \cup {Idle} /\ o.at \in {"idle", "tlbi"} BY <1>1, MapRequest, OpFacts
  <1>5. OpGood(t, o) /\ ~Held(o) BY <1>4 DEF OpGood, Held
  <1>6. Gentle(m, t) /\ \A l \in Heap : Loose(m, l) => StillLoose(m, t, l)
    <2>1. CASE L2Entry(u, BlockOf(p)).t = "table"
      <3>1. t = SetL3(u, p, Leaf("page", p, "normal", "rw", 1)) BY <1>1, <1>3, <2>1
      <3>2. MapEffect(m, t, p) BY <1>0, <1>1, <1>2, <2>1, <3>1, MapWorks, Zenon
      <3> QED BY <3>2 DEF MapEffect
    <2>2. CASE L2Entry(u, BlockOf(p)).t # "table"
      <3>1. t = u BY <1>1, <1>3, <2>2
      <3>2. LinkedEffect(m, t, p) BY <1>0, <1>1, <1>2, <3>1, LinkedWorks, Zenon
      <3> QED BY <3>2 DEF LinkedEffect
    <2> QED BY <2>1, <2>2
  <1>7. \A d \in Walkers : d # c /\ Held(op[d]) => StillLoose(m, t, op[d].l3)
    BY <1>6, Zenon DEF TreeInv, OpsGood, OpGood
  <1>8. Booted /\ op' = [op EXCEPT ![c] = o] /\ ops' \in 0 .. MaxOps /\ UNCHANGED <<guest, boot>>
    BY <1>1, BeginOps
  <1> QED BY <1>3, <1>4, <1>5, <1>6, <1>7, <1>8, WalkerStep, Zenon

\* The block entry becomes invalid.
LEMMA BreakTree ==
  ASSUME TreeInv, NEW c \in Walkers, break(c)
  PROVE  TreeInv' /\ SetL2Effect(m, m', Block(op[c]), Invalid)
  <1>0. Tree(m) /\ m.ok = TRUE /\ ops \in 0 .. MaxOps BY DEF TreeInv, Types
  <1>1. /\ op[c].at = "break" /\ m' = SetL2(m, Block(op[c]), Invalid)
        /\ op' = [op EXCEPT ![c] = [op[c] EXCEPT !.at = "flush1"]] /\ UNCHANGED <<guest, boot, ops>>
    BY DEF break, At, GoTo, Broken, Block
  <1>2. Booted /\ op[c] \in Ops /\ OpGood(m, op[c]) BY <1>1, ActiveBooted
  <1>3. PICK o \in Ops : o = [op[c] EXCEPT !.at = "flush1"] BY <1>2, GoToIs, Zenon
  <1>4. o.at = "flush1" /\ o.r = op[c].r /\ o.l3 = op[c].l3 /\ Block(o) = Block(op[c]) BY <1>2, <1>3, GoToIs, Zenon
  <1>5. Block(o) \in BlockNos BY <1>3, OpFacts
  <1>6. /\ o.l3 \in Heap /\ Loose(m, o.l3) /\ HasL2(m, Block(o)) /\ o.r.k # "map"
    BY <1>1, <1>2, <1>4 DEF OpGood, Held
  <1>7. PICK t : t = m' OBVIOUS
  <1>8. SetL2Effect(m, t, Block(o), Invalid) BY <1>0, <1>1, <1>4, <1>5, <1>6, <1>7, SetL2Works
  <1>9. Invalid.t = "invalid" /\ \A l : Invalid # Table(l) BY DEF Invalid, Table
  <1>10. Gentle(m, t) BY <1>0, <1>8, <1>9, Zenon DEF SetL2Effect, Gentle, SameSizes
  <1>11. \A l \in Heap : Loose(m, l) => StillLoose(m, t, l) BY <1>8, <1>9, Zenon DEF SetL2Effect
  <1>12. OpGood(t, o) BY <1>4, <1>5, <1>6, <1>8, <1>9, <1>11, Zenon DEF OpGood, Held, SetL2Effect, StillLoose
  <1>13. \A d \in Walkers : d # c /\ Held(op[d]) => StillLoose(m, t, op[d].l3)
    BY <1>11, Zenon DEF TreeInv, OpsGood, OpGood
  <1>14. \A d \in Walkers : d # c /\ Held(op[d]) /\ Held(o) => op[d].l3 # o.l3
    BY <1>1, <1>4 DEF TreeInv, HeldApart, Held
  <1>15. op' = [op EXCEPT ![c] = o] BY <1>1, <1>3
  <1>x. ops' \in 0 .. MaxOps /\ guest' = guest /\ boot' = boot BY <1>0, <1>1
  <1>y. Gentle(m, m') /\ OpGood(m', o) BY <1>7, <1>10, <1>12
  <1>z. \A d \in Walkers : d # c /\ Held(op[d]) => StillLoose(m, m', op[d].l3) BY <1>7, <1>13
  <1>16. TreeInv' BY <1>2, <1>14, <1>15, <1>x, <1>y, <1>z, WalkerStep, Zenon
  <1> QED BY <1>4, <1>7, <1>8, <1>16

\* The level-3 table, which only this operation holds, takes the place of the block.
LEMMA LinkTree ==
  ASSUME TreeInv, NEW c \in Walkers, link(c)
  PROVE  TreeInv' /\ SetL2Effect(m, m', Block(op[c]), Table(op[c].l3))
  <1>0. Tree(m) /\ m.ok = TRUE /\ ops \in 0 .. MaxOps BY DEF TreeInv, Types
  <1>1. /\ op[c].at = "link" /\ m' = SetL2(m, Block(op[c]), Table(op[c].l3))
        /\ op' = [op EXCEPT ![c] = [op[c] EXCEPT !.at = "flush2"]] /\ UNCHANGED <<guest, boot, ops>>
    BY DEF link, At, GoTo, Block
  <1>2. Booted /\ op[c] \in Ops /\ OpGood(m, op[c]) BY <1>1, ActiveBooted
  <1>3. PICK o \in Ops : o = [op[c] EXCEPT !.at = "flush2"] BY <1>2, GoToIs, Zenon
  <1>4. o.at = "flush2" /\ o.r = op[c].r /\ o.l3 = op[c].l3 /\ Block(o) = Block(op[c]) BY <1>2, <1>3, GoToIs, Zenon
  <1>5. Block(o) \in BlockNos BY <1>3, OpFacts
  <1>6. /\ o.l3 \in Heap /\ Loose(m, o.l3) /\ HasL2(m, Block(o)) /\ o.r.k # "map"
    BY <1>1, <1>2, <1>4 DEF OpGood, Held
  <1>7. PICK t : t = m' OBVIOUS
  <1>8. PICK e : e = Table(o.l3) OBVIOUS
  <1>9. e \in Tables /\ e.to = o.l3 /\ e.t = "table" BY <1>6, <1>8 DEF Table, Tables
  <1>10. SetL2Effect(m, t, Block(o), e) BY <1>0, <1>1, <1>4, <1>5, <1>6, <1>7, <1>8, <1>9, SetL2Works
  <1>11. Gentle(m, t) BY <1>0, <1>9, <1>10, Zenon DEF SetL2Effect, Gentle, SameSizes
  <1>12. \A l \in Heap : Loose(m, l) /\ l # o.l3 => StillLoose(m, t, l) BY <1>8, <1>10, Zenon DEF SetL2Effect, Table
  <1>13. OpGood(t, o) /\ ~Held(o) BY <1>4, <1>5, <1>6, <1>9, <1>10, Zenon DEF OpGood, Held, SetL2Effect
  <1>14. \A d \in Walkers : d # c /\ Held(op[d]) => op[d].l3 # o.l3
    BY <1>1, <1>4 DEF TreeInv, HeldApart, Held
  <1>15. \A d \in Walkers : d # c /\ Held(op[d]) => StillLoose(m, t, op[d].l3)
    BY <1>12, <1>14, Zenon DEF TreeInv, OpsGood, OpGood
  <1>16. op' = [op EXCEPT ![c] = o] BY <1>1, <1>3
  <1>17. TreeInv' BY <1>0, <1>1, <1>2, <1>3, <1>7, <1>11, <1>13, <1>14, <1>15, <1>16, WalkerStep, Zenon
  <1> QED BY <1>4, <1>7, <1>8, <1>10, <1>17, Zenon

\* A flush leaves the tables alone.
LEMMA FlushTree ==
  ASSUME TreeInv, NEW c \in Walkers, flush(c)
  PROVE  TreeInv'
  <1>1. PICK a \in {"link", "leaf"} :
          /\ op' = [op EXCEPT ![c] = [op[c] EXCEPT !.at = a]]
          /\ op[c].at = IF a = "link" THEN "flush1" ELSE "flush2"
    BY DEF flush, At, GoTo
  <1>2. m' = m /\ UNCHANGED <<guest, boot, ops>> /\ ops \in 0 .. MaxOps BY DEF flush, TreeInv, Types
  <1>3. Booted /\ op[c] \in Ops /\ OpGood(m, op[c]) BY <1>1, ActiveBooted
  <1>4. PICK o \in Ops : o = [op[c] EXCEPT !.at = a] BY <1>3, GoToIs, Zenon
  <1>a. a \in {"break", "flush1", "link", "flush2", "leaf", "tlbi"} OBVIOUS
  <1>5. o.at = a /\ o.r = op[c].r /\ o.l3 = op[c].l3 /\ Block(o) = Block(op[c])
    BY <1>3, <1>4, <1>a DEF Ops, Block
  <1>6. OpGood(m, o) /\ (Held(o) => Held(op[c])) BY <1>1, <1>3, <1>5 DEF OpGood, Held
  <1>7. op' = [op EXCEPT ![c] = o] BY <1>1, <1>4
  <1> QED BY <1>2, <1>3, <1>4, <1>5, <1>6, <1>7, WalkerStays, Zenon

\* So does a return.
LEMMA ReturnTree ==
  ASSUME TreeInv, NEW c \in Walkers, Booted, Return(c), m' = m, UNCHANGED <<guest, boot, ops>>
  PROVE  TreeInv'
  <1>1. OpGood(m, Idle) /\ ~Held(Idle) BY OpFacts DEF OpGood, Held
  <1>2. ops' \in 0 .. MaxOps BY DEF TreeInv, Types
  <1>3. op' = [op EXCEPT ![c] = Idle] BY DEF Return
  <1> QED BY <1>1, <1>2, <1>3, WalkerStays, Zenon

\* tlbi_ipa leaves the tables alone.
LEMMA TlbiTree ==
  ASSUME TreeInv, NEW c \in Walkers, tlbi(c)
  PROVE  TreeInv'
  BY ActiveBooted, ReturnTree DEF tlbi, At

\* What a leaf becomes.
LEMMA WrittenIs ==
  ASSUME NEW r \in [k : {"sw", "s2ap", "map", "unmap"}, page : OpPages, ap : {"ro", "rw"}, sw : {0, 1}],
         NEW e \in PageLeaves
  PROVE  /\ Written(r, e) \in PageEntries
         /\ r.k = "sw" => /\ Written(r, e) \in PageLeaves /\ Written(r, e).sw = r.sw /\ Written(r, e).ap = e.ap
                          /\ [Written(r, e) EXCEPT !.sw = 0] = [e EXCEPT !.sw = 0]
         /\ r.k = "s2ap" => /\ Written(r, e) \in PageLeaves /\ Written(r, e).ap = r.ap /\ Written(r, e).sw = e.sw
         /\ r.k = "unmap" => Written(r, e) = Invalid
  BY DEF Written, PageEntries, PageLeaves, Leaves

\* The write of the entry.
LEMMA LeafTree ==
  ASSUME TreeInv, NEW c \in Walkers, leaf(c)
  PROVE  /\ TreeInv'
         /\ \/ m' = m /\ Walk(m, op[c].r.page).t \notin {"block", "page"}
            \/ /\ Walk(m, op[c].r.page) \in PageLeaves
               /\ SetL3Effect(m, m', op[c].r.page, Written(op[c].r, Walk(m, op[c].r.page)))
  <1>0. Tree(m) /\ m.ok = TRUE /\ ops \in 0 .. MaxOps BY DEF TreeInv, Types
  <1>1. op[c].at = "leaf" /\ UNCHANGED <<guest, boot, ops>> BY DEF leaf, At
  <1>2. Booted /\ op[c] \in Ops /\ OpGood(m, op[c]) BY <1>1, ActiveBooted
  <1>3. PICK p \in Pages : p = op[c].r.page BY <1>2, OpFacts
  <1>4. BlockOf(p) \in BlockNos /\ L2Entry(m, BlockOf(p)).t # "block"
    BY <1>1, <1>2, <1>3, PageParts, Zenon DEF OpGood, Block
  <1>5. CASE Walk(m, p).t \notin {"block", "page"}
    <2>1. m' = m /\ Return(c) BY <1>3, <1>5 DEF leaf
    <2> QED BY <1>1, <1>2, <1>3, <1>5, <2>1, ReturnTree, Zenon
  <1>6. CASE Walk(m, p).t \in {"block", "page"}
    <2>1. PICK e : e = Walk(m, p) OBVIOUS
    <2>2. e \in PageLeaves /\ L2Entry(m, BlockOf(p)).t = "table" BY <1>0, <1>4, <1>6, <2>1, WalkIs, Zenon
    <2>3. PICK w : w = Written(op[c].r, e) OBVIOUS
    <2>4. op[c].r \in [k : {"sw", "s2ap", "map", "unmap"}, page : OpPages, ap : {"ro", "rw"}, sw : {0, 1}]
      BY <1>2 DEF Ops
    <2>5. w \in PageEntries BY <2>2, <2>3, <2>4, WrittenIs, Zenon
    <2>6. PICK t : t = m' OBVIOUS
    <2>7. t = SetL3(m, p, w) BY <1>3, <1>6, <2>1, <2>3, <2>6 DEF leaf
    <2>8. SetL3Effect(m, t, p, w) BY <1>0, <2>2, <2>5, <2>7, SetL3Works
    <2>9. Gentle(m, t) BY <1>0, <2>8, SetL3Gentle, Zenon
    <2>10. PICK o \in Ops \cup {Idle} : op' = [op EXCEPT ![c] = o] /\ o.at \in {"idle", "tlbi"}
      <3>1. CASE op[c].r.k = "sw"
        <4>1. op' = [op EXCEPT ![c] = Idle] BY <1>3, <1>6, <3>1 DEF leaf, Return
        <4> QED BY <4>1, OpFacts, Zenon
      <3>2. CASE op[c].r.k # "sw"
        <4>1. op' = [op EXCEPT ![c] = [op[c] EXCEPT !.at = "tlbi"]] BY <1>3, <1>6, <3>2 DEF leaf, GoTo
        <4>2. [op[c] EXCEPT !.at = "tlbi"] \in Ops /\ [op[c] EXCEPT !.at = "tlbi"].at = "tlbi" BY <1>2, GoToIs, Zenon
        <4> QED BY <4>1, <4>2, Zenon
      <3> QED BY <3>1, <3>2
    <2>11. OpGood(t, o) /\ ~Held(o) BY <2>10, Zenon DEF OpGood, Held
    <2>12. \A d \in Walkers : d # c /\ Held(op[d]) => StillLoose(m, t, op[d].l3)
      BY <2>8, Zenon DEF SetL3Effect, TreeInv, OpsGood, OpGood
    <2>13. TreeInv' BY <1>0, <1>1, <1>2, <2>6, <2>9, <2>10, <2>11, <2>12, WalkerStep, Zenon
    <2> QED BY <1>3, <2>1, <2>2, <2>3, <2>6, <2>8, <2>13
  <1> QED BY <1>5, <1>6

\* Another guest takes a page of the heap.
LEMMA AllocTree ==
  ASSUME TreeInv, other_alloc
  PROVE  TreeInv' /\ SameWalks(m, m')
  <1>1. Booted /\ AllIdle /\ CanAlloc(m) /\ UNCHANGED <<guest, boot, op, ops>> BY DEF other_alloc
  <1>2. PICK u : u = m' OBVIOUS
  <1>3. u = [m EXCEPT !.next = @ + 1] BY <1>2 DEF other_alloc, alloc_page
  <1>4. Types /\ Tree(m) /\ OpsGood /\ HeldApart /\ AfterBoot BY DEF TreeInv
  <1>5. m \in Mapper BY <1>4 DEF Tree
  <1>6. /\ u \in Mapper /\ u.tab = m.tab /\ u.next = m.next + 1 /\ u.ok = m.ok /\ u.count = m.count
    BY <1>1, <1>3, <1>5, HeapNat DEF Mapper, CanAlloc
  <1>7. u.next >= m.next BY <1>5, <1>6 DEF Mapper
  <1>8. Tree(u) /\ SameWalks(m, u) BY <1>4, <1>6, <1>7, SameTables
  <1>9. Types' BY <1>1, <1>2, <1>4, <1>6 DEF Types
  <1>10. AllIdle' BY <1>1 DEF AllIdle
  <1>11. OpsGood' /\ HeldApart' BY <1>10, OpFacts DEF OpsGood, OpGood, Held, HeldApart, AllIdle
  <1>12. Booted' BY <1>1, <1>2, <1>6 DEF Booted
  <1>13. AtBoot' /\ AfterBoot' BY <1>1, <1>4, <1>12, Zenon DEF AtBoot, AfterBoot
  <1> QED BY <1>2, <1>8, <1>9, <1>11, <1>13 DEF TreeInv

\* Everything else.
LEMMA QuietTree ==
  ASSUME TreeInv, Booted \/ UNCHANGED <<tlb, applied>>, UNCHANGED <<guest, boot, m, op, ops>>
  PROVE  TreeInv'
  <1>1. Types /\ Tree(m) /\ OpsGood /\ HeldApart /\ AfterBoot /\ AtBoot BY DEF TreeInv
  <1>2. Booted' <=> Booted BY DEF Booted
  <1>3. Types' /\ OpsGood' /\ HeldApart' /\ AfterBoot' BY <1>1, <1>2, Zenon DEF Types, OpsGood, HeldApart, AfterBoot
  <1>4. AtBoot' BY <1>1, <1>2 DEF AtBoot, AllIdle
  <1> QED BY <1>1, <1>3, <1>4 DEF TreeInv

\* TreeInv is inductive.
LEMMA StepTree == TreeInv /\ [Next]_vars => TreeInv'
  <1> SUFFICES ASSUME TreeInv, [Next]_vars PROVE TreeInv' OBVIOUS
  <1>1. CASE mapper_call BY <1>1, MapperTree
  <1>2. CASE access BY <1>2, QuietTree DEF access
  <1>3. CASE other_alloc BY <1>3, AllocTree
  <1>4. ASSUME NEW c \in Walkers, Walker(c) PROVE TreeInv'
    BY <1>4, SplitTree, ChangeTree, MapTree, BreakTree, FlushTree, LinkTree, LeafTree, TlbiTree DEF Walker
  <1>5. CASE UNCHANGED vars BY <1>5, QuietTree DEF vars
  <1> QED BY <1>1, <1>2, <1>3, <1>4, <1>5 DEF Next

\* The tables that DynamicIdentityMapper builds and Stage2Walker changes are a tree of
\* three levels at every step, however many walkers work on them at once.
THEOREM TreeTheorem == Spec => []TreeInv
  <1> QED BY InitTree, StepTree, PTL DEF Spec

\* In a tree no page is two tables.
LEMMA TreeDisjoint == TreeInv => TablesDisjoint
  <1> SUFFICES ASSUME TreeInv PROVE TablesDisjoint OBVIOUS
  <1>1. Types /\ Tree(m) BY DEF TreeInv
  <1>2. m \in Mapper /\ Different(m) BY <1>1 DEF Tree
  <1>3. m.next \in 3 .. HeapPages + 1 /\ m.tab \in [Heap -> [Index -> Entries]] BY <1>2 DEF Mapper
  <1>4. \A c \in Walkers : op[c] # Idle => op[c].at \in {"break", "flush1", "link", "flush2", "leaf", "tlbi"}
    BY <1>1 DEF Types, Ops
  <1>d. m.ok /\ DOMAIN op = Walkers /\ guest \in Guests /\ m.count \in 0 .. MaxL2 /\ ops \in 0 .. MaxOps
    BY <1>1 DEF Types
  <1>5. TypeOK BY <1>3, <1>4, <1>d DEF TypeOK
  <1>6. ASSUME NEW a \in Links, NEW b \in Links, m.tab[a[1]][a[2]].to = m.tab[b[1]][b[2]].to PROVE a = b
    <2>1. a \in Heap \X Index /\ b \in Heap \X Index /\ IsLink(m, a[1], a[2]) /\ IsLink(m, b[1], b[2])
      BY DEF Links, IsLink
    <2>2. a[1] = b[1] /\ a[2] = b[2] BY <1>2, <1>6, <2>1 DEF Different
    <2>3. a = <<a[1], a[2]>> /\ b = <<b[1], b[2]>> BY <2>1
    <2> QED BY <2>2, <2>3, Zenon
  <1>7. \A a, b \in Links : a # b => m.tab[a[1]][a[2]].to # m.tab[b[1]][b[2]].to BY <1>6, Zenon
  <1>8. \A a \in Links : m.tab[a[1]][a[2]].to \in 3 .. m.next - 1
    BY <1>1, Zenon DEF Links, IsLink, Tree, Allocated
  <1> QED BY <1>5, <1>7, <1>8, Zenon DEF TablesDisjoint

\* However the operations of Stage2Walker race, no page of the heap is two tables.
THEOREM DisjointTheorem == Spec => []TablesDisjoint
  <1> QED BY TreeTheorem, TreeDisjoint, PTL
=============================================================================
