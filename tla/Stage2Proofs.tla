---------------------------- MODULE Stage2Proofs ----------------------------
(***************************************************************************)
(* What the Stage-2 tables map, when one walker works at a time, for every *)
(* size of a table, every heap and layout in which the boot calls find     *)
(* room, and every choice of pages.                                        *)
(*                                                                         *)
(* The tables are the tree of Stage2TreeProofs.  UnderWay says what each   *)
(* state of the walker's operation means for them, WritesInv and TlbInv    *)
(* what they keep of completed writes and how they differ from what is     *)
(* cached, and the tables implement AddressMap.                            *)
(***************************************************************************)
EXTENDS Stage2TreeProofs

-----------------------------------------------------------------------------
(* What is true when one walker works at a time.                           *)

OneWalker == \A c, d \in Walkers : c = d

\* How far an operation o has got with the tables s, that mapped v when it began.
Seen(s, p) == Behind(Walk(s, p), p)
Filling(s, o, v) ==
  /\ L2Entry(s, Block(o)).t = "block"
  /\ \A k \in Index : s.tab[o.l3][k] = PagesOf(L2Entry(s, Block(o)))[k]
  /\ \A p \in Pages : Seen(s, p) = v[p]
Breaking(s, o, v) ==
  /\ L2Entry(s, Block(o)) = Invalid
  /\ \A p \in Pages : BlockOf(p) = Block(o) => /\ Behind(s.tab[o.l3][p % K], p) = v[p]
                                               /\ s.tab[o.l3][p % K].t = "page"
  /\ \A p \in Pages : BlockOf(p) # Block(o) => Seen(s, p) = v[p]
Linking(s, o, v) ==
  /\ L2Entry(s, Block(o)).t = "table" /\ Walk(s, o.r.page).t = "page"
  /\ \A p \in Pages : Seen(s, p) = v[p]
Writing(s, o, v) ==
  /\ L2Entry(s, Block(o)).t = "table"
  /\ \A p \in Pages : p # o.r.page => Seen(s, p) = v[p]
Under(s, o, v) ==
  /\ o.at = "break" => Filling(s, o, v)
  /\ o.at \in {"flush1", "link"} => Breaking(s, o, v)
  /\ o.at \in {"flush2", "leaf"} => Linking(s, o, v)
  /\ o.at = "tlbi" => Writing(s, o, v)
UnderWay == /\ saved = [p \in Pages |-> saved[p]]
            /\ \A c \in Walkers : Under(m, op[c], saved)

Kept(s, a, p) ==
  /\ a.ap \in Aps => Walk(s, p).t = "page" /\ Walk(s, p).ap = a.ap
  /\ a.sw \in Sws => Walk(s, p).t = "page" /\ Walk(s, p).sw = a.sw
  /\ a = Gone => Walk(s, p) = Invalid
WritesInv ==
  /\ applied \in [OpPages -> [ap : {"any", "ro", "rw"}, sw : {-1, 0, 1}] \cup {Gone}]
  /\ \A p \in OpPages : Kept(m, applied[p], p)
  /\ \A c \in Walkers, p \in OpPages : Held(op[c]) /\ BlockOf(p) = Block(op[c]) => applied[p] = Nothing

Plain(e) == [e EXCEPT !.sw = 0]
CachedWell(x) ==
  /\ x.page \in Pages /\ x.e.t \in {"block", "page"}
  /\ x.e.t = "block" => x.page = BlockOf(x.page) * K
  /\ x = [page |-> x.page, e |-> x.e]
Fresh(s, x) == Plain(Walk(s, x.page)) = x.e
Stale(o, x) ==
  \/ o.at = "flush1" /\ x.e.t = "block" /\ BlockOf(x.page) = Block(o)
  \/ o.at = "tlbi" /\ x.e.t = "page" /\ x.page = o.r.page
Apart(x, y) == x.e.t = "block" /\ x # y => ~Covers(x, y.page)
TlbInv ==
  /\ \A x \in tlb : CachedWell(x) /\ (Fresh(m, x) \/ \E c \in Walkers : Stale(op[c], x))
  /\ \A x, y \in tlb : Apart(x, y)

\* The steps of an operation, from the request to the return.
LEMMA IdleUnder == \A s, v : Under(s, Idle, v)
  BY OpFacts DEF Under

\* A step of the one walker.
LEMMA OneStep ==
  ASSUME OneWalker, TreeInv, UnderWay, NEW c \in Walkers, NEW o, op' = [op EXCEPT ![c] = o],
         saved' = [p \in Pages |-> saved'[p]], Under(m', o, saved')
  PROVE  UnderWay'
  <1>1. op'[c] = o BY DEF TreeInv, Types
  <1>2. \A d \in Walkers : d = c BY DEF OneWalker
  <1>3. \A d \in Walkers : Under(m', op'[d], saved') BY <1>1, <1>2, Zenon
  <1> QED BY <1>3, Zenon DEF UnderWay

\* What was mapped at the begin is an address map.
LEMMA SavedStays ==
  ASSUME UnderWay, saved' = saved
  PROVE  saved' = [p \in Pages |-> saved'[p]]
  BY DEF UnderWay

\* What was mapped when the operation began.
LEMMA BeginSaves ==
  ASSUME OneWalker, NEW c \in Walkers, NEW o, Begin(c, o)
  PROVE  /\ AllIdle /\ op[c] = Idle /\ saved' = View(m) /\ saved' = [p \in Pages |-> saved'[p]]
         /\ \A p \in Pages : saved'[p] = Seen(m, p)
  <1>1. op[c] = Idle BY DEF Begin
  <1>2. AllIdle BY <1>1 DEF OneWalker, AllIdle
  <1>3. saved' = View(m) BY <1>2 DEF Begin
  <1> QED BY <1>1, <1>2, <1>3 DEF View, Seen

\* With one walker, nothing but its operation changes what it has done so far.
LEMMA QuietUnder ==
  ASSUME TreeInv, UnderWay, UNCHANGED <<op, saved>>, m' = m \/ AllIdle
  PROVE  UnderWay'
  <1>1. saved' = [p \in Pages |-> saved'[p]] BY SavedStays
  <1>2. \A c \in Walkers : Under(m', op[c], saved) BY IdleUnder DEF UnderWay, AllIdle
  <1> QED BY <1>1, <1>2 DEF UnderWay

\* What split does, beside the tables of others.
LEMMA SplitDoes ==
  ASSUME TreeInv, NEW c \in Walkers, split(c)
  PROVE  \E r \in Requests :
           /\ L2Entry(m, BlockOf(r.page)).t = "block"
           /\ Begin(c, Doing("break", r, m.next))
           /\ SameWalks(m, m')
           /\ \A k \in Index : m'.tab[m.next][k] = PagesOf(L2Entry(m, BlockOf(r.page)))[k]
  <1>1. PICK r \in Requests :
          /\ L2Entry(m, BlockOf(r.page)).t = "block" /\ CanAlloc(m)
          /\ Begin(c, Doing("break", r, m.next))
          /\ m' = Filled(m, L2Entry(m, BlockOf(r.page)))
    BY DEF split
  <1>2. Tree(m) BY DEF TreeInv
  <1>3. BlockOf(r.page) \in BlockNos
    <2>1. r.page \in OpPages BY DEF Requests
    <2> QED BY <2>1, PageParts, Stage2Assumption, Zenon
  <1>4. PICK e : e = L2Entry(m, BlockOf(r.page)) OBVIOUS
  <1>5. e \in BlockLeaves BY <1>1, <1>2, <1>3, <1>4, L2Is, EntryKinds, Zenon
  <1>6. PICK f \in [Index -> PageEntries] : f = PagesOf(e) BY <1>5, PagesOfIs, Zenon
  <1>7. PICK t : t = m' OBVIOUS
  <1>8. t = Fill(m, f) BY <1>1, <1>4, <1>6, <1>7 DEF Filled
  <1>9. FillEffect(m, t, f) BY <1>1, <1>2, <1>8, FillWorks
  <1>10. SameWalks(m, m') /\ \A k \in Index : m'.tab[m.next][k] = f[k] BY <1>7, <1>9, Zenon DEF FillEffect
  <1> QED BY <1>1, <1>4, <1>6, <1>10, Zenon

\* split_block_if_needed fills the table with what the block maps.
LEMMA SplitUnder ==
  ASSUME OneWalker, TreeInv, UnderWay, NEW c \in Walkers, split(c)
  PROVE  UnderWay'
  <1>1. PICK r \in Requests :
           /\ L2Entry(m, BlockOf(r.page)).t = "block"
           /\ Begin(c, Doing("break", r, m.next))
           /\ SameWalks(m, m')
           /\ \A k \in Index : m'.tab[m.next][k] = PagesOf(L2Entry(m, BlockOf(r.page)))[k]
    BY SplitDoes, Zenon
  <1>2. m.next \in Nat BY DEF TreeInv, Tree, Mapper
  <1>3. PICK o : o = Doing("break", r, m.next) OBVIOUS
  <1>4. /\ o.at = "break" /\ o.l3 = m.next /\ Block(o) = BlockOf(r.page) /\ BlockOf(r.page) \in BlockNos
    BY <1>2, <1>3, RequestIs
  <1>5. /\ saved' = [p \in Pages |-> saved'[p]] /\ \A p \in Pages : saved'[p] = Seen(m, p)
        /\ op' = [op EXCEPT ![c] = o]
    BY <1>1, <1>3, BeginSaves, BeginOps
  <1>6. \A p \in Pages : Seen(m', p) = saved'[p] BY <1>1, <1>5 DEF SameWalks, Seen
  <1>7. L2Entry(m', Block(o)) = L2Entry(m, Block(o)) BY <1>1, <1>4, Zenon DEF SameWalks
  <1>8. Filling(m', o, saved') BY <1>1, <1>4, <1>6, <1>7, Zenon DEF Filling
  <1>9. Under(m', o, saved') BY <1>4, <1>8, Zenon DEF Under
  <1> QED BY <1>5, <1>9, OneStep, Zenon

\* The other operations begin at the write of an entry that is a page's.
LEMMA ChangeUnder ==
  ASSUME OneWalker, TreeInv, UnderWay, NEW c \in Walkers, change(c)
  PROVE  UnderWay'
  <1>1. PICK r \in Requests \cup [k : Kinds \cap {"unmap"}, page : OpPages, ap : {"rw"}, sw : {0}] :
          /\ L2Entry(m, BlockOf(r.page)).t = "table" /\ Walk(m, r.page).t = "page"
          /\ Begin(c, Doing("leaf", r, 0)) /\ m' = m
    BY DEF change
  <1>2. PICK o : o = Doing("leaf", r, 0) OBVIOUS
  <1>3. o.at = "leaf" /\ o.r = r /\ Block(o) = BlockOf(r.page) BY <1>2, RequestIs
  <1>4. /\ saved' = [p \in Pages |-> saved'[p]] /\ \A p \in Pages : saved'[p] = Seen(m, p)
        /\ op' = [op EXCEPT ![c] = o]
    BY <1>1, <1>2, BeginSaves, BeginOps
  <1>5. Linking(m', o, saved') BY <1>1, <1>3, <1>4 DEF Linking
  <1>6. Under(m', o, saved') BY <1>3, <1>5, Zenon DEF Under
  <1> QED BY <1>4, <1>6, OneStep, Zenon

\* What map_page does, beside the tables of others.
LEMMA MapDoes ==
  ASSUME TreeInv, NEW c \in Walkers, map_page(c)
  PROVE  \E p \in OpPages :
           /\ Walk(m, p) = Invalid
           /\ \/ /\ Begin(c, Doing("tlbi", Request("map", p, "rw", 1), 0))
                 /\ L2Entry(m', BlockOf(p)).t = "table"
                 /\ Walk(m', p) = Leaf("page", p, "normal", "rw", 1)
                 /\ \A q \in Pages : q # p => Walk(m', q) = Walk(m, q)
                 /\ applied' = [applied EXCEPT ![p] = [ap |-> "rw", sw |-> 1]]
              \/ /\ Begin(c, Idle) /\ UNCHANGED applied
                 /\ \A q \in Pages : Walk(m', q) = Walk(m, q)
  <1>0. Tree(m) /\ m.ok = TRUE BY DEF TreeInv, Types
  <1>1. PICK p \in OpPages :
          LET u == Linked(m, p)
              ok == L2Entry(u, BlockOf(p)).t = "table"
          IN  /\ Walk(m, p) = Invalid
              /\ Begin(c, IF ok THEN Doing("tlbi", Request("map", p, "rw", 1), 0) ELSE Idle)
              /\ m' = IF ok THEN SetL3(u, p, Leaf("page", p, "normal", "rw", 1)) ELSE u
              /\ applied' = IF ok THEN [applied EXCEPT ![p] = [ap |-> "rw", sw |-> 1]] ELSE applied
    BY Zenon DEF map_page
  <1>2. p \in Pages BY Stage2Assumption
  <1>3. PICK u : u = Linked(m, p) OBVIOUS
  <1>4. PICK t : t = m' OBVIOUS
  <1>5. LinkedEffect(m, u, p) BY <1>0, <1>1, <1>2, <1>3, LinkedWorks, Zenon
  <1>6. CASE L2Entry(u, BlockOf(p)).t = "table"
    <2>1. t = SetL3(u, p, Leaf("page", p, "normal", "rw", 1)) BY <1>1, <1>3, <1>4, <1>6
    <2>2. MapEffect(m, t, p) BY <1>0, <1>1, <1>2, <1>3, <1>6, <2>1, MapWorks, Zenon
    <2>3. Tree(t) BY <2>2 DEF MapEffect, Gentle
    <2>4. Walk(t, p).t = "page" BY <2>2 DEF MapEffect, Leaf
    <2>5. L2Entry(t, BlockOf(p)).t = "table" BY <1>2, <2>3, <2>4, WalkIs, Zenon
    <2>6. /\ Begin(c, Doing("tlbi", Request("map", p, "rw", 1), 0))
          /\ applied' = [applied EXCEPT ![p] = [ap |-> "rw", sw |-> 1]]
      BY <1>1, <1>3, <1>6
    <2> QED BY <1>1, <1>4, <2>2, <2>5, <2>6, Zenon DEF MapEffect
  <1>7. CASE L2Entry(u, BlockOf(p)).t # "table"
    <2>1. t = u /\ Begin(c, Idle) /\ applied' = applied BY <1>1, <1>3, <1>4, <1>7
    <2> QED BY <1>1, <1>4, <1>5, <2>1, Zenon DEF LinkedEffect
  <1> QED BY <1>6, <1>7, Zenon

\* map_page is one step.
LEMMA MapUnder ==
  ASSUME OneWalker, TreeInv, UnderWay, NEW c \in Walkers, map_page(c)
  PROVE  UnderWay'
  <1>1. PICK p \in OpPages :
           \/ /\ Begin(c, Doing("tlbi", Request("map", p, "rw", 1), 0))
              /\ L2Entry(m', BlockOf(p)).t = "table"
              /\ \A q \in Pages : q # p => Walk(m', q) = Walk(m, q)
           \/ Begin(c, Idle)
    BY MapDoes
  <1>2. CASE Begin(c, Idle)
    <2>1. saved' = [q \in Pages |-> saved'[q]] /\ op' = [op EXCEPT ![c] = Idle] BY <1>2, BeginSaves, BeginOps
    <2>2. Under(m', Idle, saved') BY IdleUnder
    <2> QED BY <2>1, <2>2, OneStep, Zenon
  <1>3. CASE /\ Begin(c, Doing("tlbi", Request("map", p, "rw", 1), 0))
             /\ L2Entry(m', BlockOf(p)).t = "table"
             /\ \A q \in Pages : q # p => Walk(m', q) = Walk(m, q)
    <2>1. PICK o : o = Doing("tlbi", Request("map", p, "rw", 1), 0) OBVIOUS
    <2>2. o.at = "tlbi" /\ o.r.page = p /\ Block(o) = BlockOf(p) BY <2>1, MapRequest DEF Block
    <2>3. /\ saved' = [q \in Pages |-> saved'[q]] /\ \A q \in Pages : saved'[q] = Seen(m, q)
          /\ op' = [op EXCEPT ![c] = o]
      BY <1>3, <2>1, BeginSaves, BeginOps
    <2>4. Writing(m', o, saved') BY <1>3, <2>2, <2>3 DEF Writing, Seen
    <2>5. Under(m', o, saved') BY <2>2, <2>4 DEF Under
    <2> QED BY <2>3, <2>5, OneStep, Zenon
  <1> QED BY <1>1, <1>2, <1>3

\* The operation's own table, which nobody else touches.
OwnTable(s, t, o) == \A k \in Index : t.tab[o.l3][k] = s.tab[o.l3][k]

\* The break leaves the table that the operation holds alone.
LEMMA BreakOwn ==
  ASSUME TreeInv, NEW c \in Walkers, break(c)
  PROVE  OwnTable(m, m', op[c])
  <1>1. SetL2Effect(m, m', Block(op[c]), Invalid) BY BreakTree
  <1>2. op[c].at = "break" BY DEF break, At
  <1>3. op[c].l3 \in Heap /\ Loose(m, op[c].l3) BY <1>2, Zenon DEF TreeInv, OpsGood, OpGood, Held
  <1>4. Invalid # Table(op[c].l3) BY DEF Invalid, Table
  <1>5. StillLoose(m, m', op[c].l3) BY <1>1, <1>3, <1>4, Zenon DEF SetL2Effect
  <1> QED BY <1>5 DEF StillLoose, OwnTable

\* The pages of the broken block are in the table that waits to be linked.
LEMMA BreakUnder ==
  ASSUME OneWalker, TreeInv, UnderWay, NEW c \in Walkers, break(c)
  PROVE  UnderWay'
  <1>1. SetL2Effect(m, m', Block(op[c]), Invalid) /\ OwnTable(m, m', op[c]) BY BreakTree, BreakOwn
  <1>2. /\ op[c].at = "break" /\ saved' = saved
        /\ op' = [op EXCEPT ![c] = [op[c] EXCEPT !.at = "flush1"]]
    BY DEF break, At, GoTo
  <1>3. Tree(m) /\ op[c] \in Ops BY <1>2, ActiveBooted DEF TreeInv
  <1>4. PICK o \in Ops : o = [op[c] EXCEPT !.at = "flush1"] BY <1>3, GoToIs, Zenon
  <1>5. o.at = "flush1" /\ o.r = op[c].r /\ o.l3 = op[c].l3 /\ Block(o) = Block(op[c]) /\ Block(o) \in BlockNos
    BY <1>3, <1>4, GoToIs, OpFacts, Zenon
  <1>6. Filling(m, op[c], saved) BY <1>2 DEF UnderWay, Under
  <1>7. PICK e : e = L2Entry(m, Block(o)) OBVIOUS
  <1>8. e \in BlockLeaves BY <1>3, <1>5, <1>6, <1>7, L2Is, EntryKinds, Zenon DEF Filling
  <1>9. L2Entry(m', Block(o)) = Invalid BY <1>1, <1>5, Zenon DEF SetL2Effect
  <1>10. ASSUME NEW p \in Pages, BlockOf(p) = Block(o)
         PROVE  Behind(m'.tab[o.l3][p % K], p) = saved[p] /\ m'.tab[o.l3][p % K].t = "page"
    <2>1. PICK k \in Index : k = p % K BY PageParts
    <2>2. m'.tab[o.l3][k] = PagesOf(e)[k] BY <1>1, <1>5, <1>6, <1>7, Zenon DEF Filling, OwnTable
    <2>3. PagesOf(e)[k].t = "page" /\ Behind(PagesOf(e)[p % K], p) = Behind(e, p) BY <1>8, PagesOfIs
    <2>4. Walk(m, p) = e BY <1>3, <1>6, <1>7, <1>5, <1>10, WalkIs, Zenon DEF Filling
    <2>5. saved[p] = Behind(e, p) BY <1>6, <2>4, Zenon DEF Filling, Seen
    <2> QED BY <2>1, <2>2, <2>3, <2>5, Zenon
  <1>11. ASSUME NEW p \in Pages, BlockOf(p) # Block(o) PROVE Seen(m', p) = saved[p]
    BY <1>1, <1>5, <1>6, <1>11, Zenon DEF SetL2Effect, Filling, Seen
  <1>12. Breaking(m', o, saved) BY <1>9, <1>10, <1>11, Zenon DEF Breaking
  <1>13. Under(m', o, saved') BY <1>2, <1>5, <1>12 DEF Under
  <1>14. saved' = [p \in Pages |-> saved'[p]] BY <1>2, SavedStays
  <1>15. op' = [op EXCEPT ![c] = o] BY <1>2, <1>4
  <1> QED BY <1>13, <1>14, <1>15, OneStep, Zenon

\* A flush moves the operation on.
LEMMA FlushUnder ==
  ASSUME OneWalker, TreeInv, UnderWay, NEW c \in Walkers, flush(c)
  PROVE  UnderWay'
  <1>1. PICK a \in {"link", "leaf"} :
          /\ op' = [op EXCEPT ![c] = [op[c] EXCEPT !.at = a]]
          /\ op[c].at = IF a = "link" THEN "flush1" ELSE "flush2"
    BY DEF flush, At, GoTo
  <1>2. m' = m /\ saved' = saved BY DEF flush
  <1>3. op[c] \in Ops BY <1>1, ActiveBooted
  <1>4. PICK o : o = [op[c] EXCEPT !.at = a] BY Zenon
  <1>5. o.at = a /\ o.r = op[c].r /\ o.l3 = op[c].l3 /\ Block(o) = Block(op[c]) BY <1>3, <1>4 DEF Ops, Block
  <1>6. Under(m, op[c], saved) BY DEF UnderWay
  <1>7. CASE a = "link"
    <2>1. Breaking(m, op[c], saved) BY <1>1, <1>6, <1>7 DEF Under
    <2>2. Breaking(m, o, saved) BY <1>5, <2>1, Zenon DEF Breaking
    <2> QED BY <1>1, <1>2, <1>4, <1>5, <1>7, <2>2, OneStep, SavedStays, Zenon DEF Under
  <1>8. CASE a = "leaf"
    <2>1. Linking(m, op[c], saved) BY <1>1, <1>6, <1>8 DEF Under
    <2>2. Linking(m, o, saved) BY <1>5, <2>1, Zenon DEF Linking
    <2> QED BY <1>1, <1>2, <1>4, <1>5, <1>8, <2>2, OneStep, SavedStays, Zenon DEF Under
  <1> QED BY <1>7, <1>8

\* The table that link puts in place of the broken block.
LEMMA LinkDoes ==
  ASSUME TreeInv, UnderWay, NEW c \in Walkers, link(c)
  PROVE  /\ Breaking(m, op[c], saved) /\ op[c] \in Ops
         /\ L2Entry(m', Block(op[c])).t = "table"
         /\ \A p \in Pages : BlockOf(p) # Block(op[c]) => Walk(m', p) = Walk(m, p)
         /\ \A p \in Pages : BlockOf(p) = Block(op[c]) => Walk(m', p) = m.tab[op[c].l3][p % K]
  <1>1. SetL2Effect(m, m', Block(op[c]), Table(op[c].l3)) BY LinkTree
  <1>2. op[c].at = "link" BY Zenon DEF link, At
  <1>3. op[c] \in Ops BY <1>2, ActiveBooted, Zenon
  <1>4. Block(op[c]) \in BlockNos BY <1>3, OpFacts
  <1>5. Table(op[c].l3).t = "table" /\ Table(op[c].l3).to = op[c].l3 BY DEF Table
  <1>6. Breaking(m, op[c], saved) BY <1>2 DEF UnderWay, Under
  <1> QED BY <1>1, <1>3, <1>4, <1>5, <1>6, Zenon DEF SetL2Effect

\* The table maps what the block did.
LEMMA LinkUnder ==
  ASSUME OneWalker, TreeInv, UnderWay, NEW c \in Walkers, link(c)
  PROVE  UnderWay'
  <1>1. /\ Breaking(m, op[c], saved) /\ op[c] \in Ops
        /\ L2Entry(m', Block(op[c])).t = "table"
        /\ \A p \in Pages : BlockOf(p) # Block(op[c]) => Walk(m', p) = Walk(m, p)
        /\ \A p \in Pages : BlockOf(p) = Block(op[c]) => Walk(m', p) = m.tab[op[c].l3][p % K]
    BY LinkDoes, Zenon
  <1>2. saved' = saved /\ op' = [op EXCEPT ![c] = [op[c] EXCEPT !.at = "flush2"]] BY DEF link, GoTo
  <1>3. PICK o : o = [op[c] EXCEPT !.at = "flush2"] BY Zenon
  <1>4. o.at = "flush2" /\ o.r = op[c].r /\ Block(o) = Block(op[c]) BY <1>1, <1>3, GoToIs, Zenon
  <1>5. \A p \in Pages : Seen(m', p) = saved[p] BY <1>1, Zenon DEF Breaking, Seen
  <1>6. o.r.page \in Pages /\ BlockOf(o.r.page) = Block(o) BY <1>1, <1>4, OpFacts, Zenon DEF Block
  <1>7. Walk(m', o.r.page).t = "page" BY <1>1, <1>4, <1>6, Zenon DEF Breaking
  <1>8. Linking(m', o, saved') BY <1>1, <1>2, <1>4, <1>5, <1>7 DEF Linking
  <1>9. Under(m', o, saved') BY <1>4, <1>8, Zenon DEF Under
  <1> QED BY <1>2, <1>3, <1>9, OneStep, SavedStays, Zenon

\* The write of an entry.
LEMMA LeafDoes ==
  ASSUME TreeInv, UnderWay, NEW c \in Walkers, leaf(c)
  PROVE  LET r == op[c].r
             e == Walk(m, r.page)
         IN  /\ Linking(m, op[c], saved) /\ op[c] \in Ops /\ r.k # "map" /\ op[c].at = "leaf"
             /\ e \in PageLeaves /\ SetL3Effect(m, m', r.page, Written(r, e))
             /\ applied' = [applied EXCEPT ![r.page] = CASE r.k = "sw" -> [@ EXCEPT !.sw = r.sw]
                                                         [] r.k = "s2ap" -> [@ EXCEPT !.ap = r.ap]
                                                         [] r.k = "unmap" -> Gone]
             /\ IF r.k = "sw" THEN Return(c) ELSE GoTo(c, "tlbi")
  <1>1. op[c].at = "leaf" BY DEF leaf, At
  <1>2. Linking(m, op[c], saved) BY <1>1 DEF UnderWay, Under
  <1>3. op[c] \in Ops /\ op[c].r.k # "map" BY <1>1, ActiveBooted, Zenon DEF OpGood
  <1>4. Walk(m, op[c].r.page).t = "page" BY <1>2 DEF Linking
  <1>5. /\ Walk(m, op[c].r.page) \in PageLeaves
        /\ SetL3Effect(m, m', op[c].r.page, Written(op[c].r, Walk(m, op[c].r.page)))
    BY <1>4, LeafTree
  <1> QED BY <1>1, <1>2, <1>3, <1>4, <1>5, Zenon DEF leaf

\* The write changes the page that was named.
LEMMA LeafUnder ==
  ASSUME OneWalker, TreeInv, UnderWay, NEW c \in Walkers, leaf(c)
  PROVE  UnderWay'
  <1>1. /\ Linking(m, op[c], saved) /\ op[c] \in Ops
        /\ SetL3Effect(m, m', op[c].r.page, Written(op[c].r, Walk(m, op[c].r.page)))
        /\ IF op[c].r.k = "sw" THEN Return(c) ELSE GoTo(c, "tlbi")
    BY LeafDoes, Zenon
  <1>2. saved' = saved /\ saved' = [p \in Pages |-> saved'[p]] BY SavedStays DEF leaf
  <1>3. CASE op[c].r.k = "sw"
    <2>1. op' = [op EXCEPT ![c] = Idle] BY <1>1, <1>3, Zenon DEF Return
    <2> QED BY <1>2, <2>1, IdleUnder, OneStep, Zenon
  <1>4. CASE op[c].r.k # "sw"
    <2>1. op' = [op EXCEPT ![c] = [op[c] EXCEPT !.at = "tlbi"]] BY <1>1, <1>4 DEF GoTo
    <2>2. PICK o : o = [op[c] EXCEPT !.at = "tlbi"] BY Zenon
    <2>3. o.at = "tlbi" /\ o.r = op[c].r /\ Block(o) = Block(op[c]) BY <1>1, <2>2, GoToIs, Zenon
    <2>4. \A p \in Pages : p # o.r.page => Seen(m', p) = saved[p]
      BY <1>1, <2>3, Zenon DEF SetL3Effect, Linking, Seen
    <2>5. L2Entry(m', Block(o)).t = "table" BY <1>1, <2>3, OpFacts DEF SetL3Effect, Linking
    <2>6. Under(m', o, saved') BY <1>2, <2>3, <2>4, <2>5 DEF Under, Writing
    <2> QED BY <1>2, <2>1, <2>2, <2>6, OneStep, Zenon
  <1> QED BY <1>3, <1>4

\* After tlbi_ipa no operation is under way.
LEMMA TlbiUnder ==
  ASSUME OneWalker, TreeInv, UnderWay, NEW c \in Walkers, tlbi(c)
  PROVE  UnderWay'
  <1>1. saved' = saved /\ op' = [op EXCEPT ![c] = Idle] BY DEF tlbi, Return
  <1> QED BY <1>1, IdleUnder, OneStep, SavedStays, Zenon

\* At the start no operation is under way.
LEMMA InitUnder == Init => UnderWay
  <1> SUFFICES ASSUME Init PROVE UnderWay OBVIOUS
  <1>1. saved = View(New) /\ op = [c \in Walkers |-> Idle] BY DEF Init
  <1>2. saved = [p \in Pages |-> saved[p]] BY <1>1 DEF View
  <1> QED BY <1>1, <1>2, IdleUnder DEF UnderWay

\* UnderWay is inductive.
LEMMA StepUnder == OneWalker /\ TreeInv /\ UnderWay /\ [Next]_vars => UnderWay'
  <1> SUFFICES ASSUME OneWalker, TreeInv, UnderWay, [Next]_vars PROVE UnderWay' OBVIOUS
  <1>1. CASE mapper_call
    <2>1. AllIdle BY <1>1 DEF mapper_call, TreeInv, AtBoot, Booted
    <2> QED BY <1>1, <2>1, QuietUnder DEF mapper_call
  <1>2. CASE access BY <1>2, QuietUnder DEF access
  <1>3. CASE other_alloc BY <1>3, QuietUnder DEF other_alloc
  <1>4. ASSUME NEW c \in Walkers, Walker(c) PROVE UnderWay'
    BY <1>4, SplitUnder, ChangeUnder, MapUnder, BreakUnder, FlushUnder, LinkUnder, LeafUnder, TlbiUnder DEF Walker
  <1>5. CASE UNCHANGED vars BY <1>5, QuietUnder DEF vars
  <1> QED BY <1>1, <1>2, <1>3, <1>4, <1>5 DEF Next

\* With one walker, the state of its operation tells what the tables map.
LEMMA UnderTheorem == OneWalker => (Spec => []UnderWay)
  <1>1. OneWalker /\ TreeInv /\ UnderWay /\ [Next]_vars => UnderWay' BY StepUnder
  <1>2. CASE OneWalker
    <2>1. TreeInv /\ UnderWay /\ [Next]_vars => UnderWay' BY <1>1, <1>2
    <2>2. Spec => []UnderWay BY <2>1, InitUnder, TreeTheorem, PTL DEF Spec
    <2> QED BY <2>2
  <1> QED BY <1>2

-----------------------------------------------------------------------------
(* Completed writes are kept.                                              *)

Applied == [ap : {"any", "ro", "rw"}, sw : {-1, 0, 1}] \cup {Gone}

\* What may have been written in a page.
LEMMA AppliedIs ==
  /\ Nothing \in Applied /\ Nothing # Gone /\ Gone \in Applied
  /\ \A a \in Applied : a = Gone \/ a \in [ap : {"any", "ro", "rw"}, sw : {-1, 0, 1}]
  /\ \A a \in [ap : {"any", "ro", "rw"}, sw : {-1, 0, 1}] :
       (a.ap = "any" /\ a.sw = -1 => a = Nothing) /\ (a.ap # "any" => a.ap \in Aps) /\ (a.sw # -1 => a.sw \in Sws)
  /\ Gone.ap \notin Aps /\ Gone.sw \notin Sws /\ Nothing.ap \notin Aps /\ Nothing.sw \notin Sws
  BY DEF Applied, Nothing, Gone, Aps, Sws

\* Nothing has been written, nothing need be kept.
LEMMA NothingKept == \A s, p : Kept(s, Nothing, p)
  BY AppliedIs DEF Kept

\* Pages of which nothing was written, as those of a block.
LEMMA BlockUnwritten ==
  ASSUME NEW s, NEW p, NEW a \in Applied, Kept(s, a, p), Walk(s, p).t = "block"
  PROVE  a = Nothing
  <1>1. a # Gone BY DEF Kept, Invalid
  <1>2. a \in [ap : {"any", "ro", "rw"}, sw : {-1, 0, 1}] BY <1>1, AppliedIs
  <1>3. a.ap \notin Aps /\ a.sw \notin Sws BY DEF Kept
  <1> QED BY <1>2, <1>3, AppliedIs

\* A page whose entry does not change.
LEMMA SameKept ==
  ASSUME NEW s, NEW t, NEW a, NEW p, Kept(s, a, p), Walk(t, p) = Walk(s, p)
  PROVE  Kept(t, a, p)
  BY Zenon DEF Kept

\* What has been written to each page.
LEMMA WritesTypes == WritesInv => applied \in [OpPages -> Applied]
  BY DEF WritesInv, Applied

\* Steps that change no entry.
LEMMA QuietWrites ==
  ASSUME TreeInv, WritesInv, applied' = applied,
         \A p \in OpPages : Walk(m', p) = Walk(m, p),
         \A c \in Walkers : Held(op'[c]) => Held(op[c]) /\ Block(op'[c]) = Block(op[c])
  PROVE  WritesInv'
  <1>1. applied' \in [OpPages -> Applied] BY WritesTypes, Zenon
  <1>2. \A p \in OpPages : Kept(m', applied'[p], p) BY SameKept, Zenon DEF WritesInv
  <1>3. \A c \in Walkers, p \in OpPages : Held(op'[c]) /\ BlockOf(p) = Block(op'[c]) => applied'[p] = Nothing
    BY Zenon DEF WritesInv
  <1> QED BY <1>1, <1>2, <1>3, Zenon DEF WritesInv, Applied

\* How the operation of the one walker goes on.
LEMMA OneOp ==
  ASSUME OneWalker, TreeInv, NEW c \in Walkers, NEW o, op' = [op EXCEPT ![c] = o]
  PROVE  \A d \in Walkers : d = c /\ op'[d] = o
  <1>1. op'[c] = o BY DEF TreeInv, Types
  <1> QED BY <1>1 DEF OneWalker

\* The block that is split holds no completed write.
LEMMA SplitWrites ==
  ASSUME OneWalker, TreeInv, WritesInv, NEW c \in Walkers, split(c)
  PROVE  WritesInv'
  <1>1. PICK r \in Requests :
           /\ L2Entry(m, BlockOf(r.page)).t = "block"
           /\ Begin(c, Doing("break", r, m.next)) /\ SameWalks(m, m')
    BY SplitDoes, Zenon
  <1>2. Tree(m) /\ m.next \in Nat BY DEF TreeInv, Tree, Mapper
  <1>3. PICK o : o = Doing("break", r, m.next) OBVIOUS
  <1>4. Block(o) = BlockOf(r.page) BY <1>2, <1>3, RequestIs
  <1>5. op' = [op EXCEPT ![c] = o] BY <1>1, <1>3, BeginOps
  <1>6. \A d \in Walkers : op'[d] = o BY <1>5, OneOp, Zenon
  <1>7. applied' = applied BY DEF split
  <1>8. OpPages \subseteq Pages BY Stage2Assumption
  <1>9. applied \in [OpPages -> Applied] BY WritesTypes
  <1>10. \A p \in OpPages : Kept(m, applied[p], p) BY DEF WritesInv
  <1>11. \A p \in OpPages : Kept(m', applied'[p], p) BY <1>1, <1>7, <1>8, <1>10, SameKept DEF SameWalks
  <1>12. ASSUME NEW p \in OpPages, BlockOf(p) = Block(o) PROVE applied[p] = Nothing
    <2>1. Walk(m, p).t = "block" BY <1>1, <1>2, <1>4, <1>8, <1>12, WalkIs, Zenon
    <2> QED BY <1>9, <1>10, <2>1, BlockUnwritten
  <1> QED BY <1>6, <1>7, <1>9, <1>11, <1>12, Zenon DEF WritesInv, Applied

\* The begin of an operation writes nothing.
LEMMA ChangeWrites ==
  ASSUME OneWalker, TreeInv, WritesInv, NEW c \in Walkers, change(c)
  PROVE  WritesInv'
  <1>1. PICK r \in Requests \cup [k : Kinds \cap {"unmap"}, page : OpPages, ap : {"rw"}, sw : {0}] :
          Begin(c, Doing("leaf", r, 0))
    BY DEF change
  <1>2. PICK o : o = Doing("leaf", r, 0) OBVIOUS
  <1>3. ~Held(o) BY <1>2, RequestIs DEF Held
  <1>4. op' = [op EXCEPT ![c] = o] BY <1>1, <1>2, BeginOps
  <1>5. \A d \in Walkers : op'[d] = o BY <1>4, OneOp, Zenon
  <1>6. m' = m /\ applied' = applied BY DEF change
  <1> QED BY <1>3, <1>5, <1>6, QuietWrites, Zenon

\* map_page.
LEMMA MapWrites ==
  ASSUME OneWalker, TreeInv, WritesInv, NEW c \in Walkers, map_page(c)
  PROVE  WritesInv'
  <1>1. PICK p \in OpPages :
           \/ /\ Begin(c, Doing("tlbi", Request("map", p, "rw", 1), 0))
              /\ Walk(m', p) = Leaf("page", p, "normal", "rw", 1)
              /\ \A q \in Pages : q # p => Walk(m', q) = Walk(m, q)
              /\ applied' = [applied EXCEPT ![p] = [ap |-> "rw", sw |-> 1]]
           \/ /\ Begin(c, Idle) /\ UNCHANGED applied
              /\ \A q \in Pages : Walk(m', q) = Walk(m, q)
    BY MapDoes
  <1>2. OpPages \subseteq Pages BY Stage2Assumption
  <1>3. CASE /\ Begin(c, Idle) /\ UNCHANGED applied
             /\ \A q \in Pages : Walk(m', q) = Walk(m, q)
    <2>1. op' = [op EXCEPT ![c] = Idle] BY <1>3, BeginOps
    <2>2. \A d \in Walkers : op'[d] = Idle BY <2>1, OneOp, Zenon
    <2>3. ~Held(Idle) BY OpFacts DEF Held
    <2> QED BY <1>2, <1>3, <2>2, <2>3, QuietWrites
  <1>4. CASE /\ Begin(c, Doing("tlbi", Request("map", p, "rw", 1), 0))
             /\ Walk(m', p) = Leaf("page", p, "normal", "rw", 1)
             /\ \A q \in Pages : q # p => Walk(m', q) = Walk(m, q)
             /\ applied' = [applied EXCEPT ![p] = [ap |-> "rw", sw |-> 1]]
    <2>1. PICK o : o = Doing("tlbi", Request("map", p, "rw", 1), 0) OBVIOUS
    <2>2. ~Held(o) BY <2>1, MapRequest DEF Held
    <2>3. op' = [op EXCEPT ![c] = o] BY <1>4, <2>1, BeginOps
    <2>4. \A d \in Walkers : op'[d] = o BY <2>3, OneOp, Zenon
    <2>5. PICK a : a = [ap |-> "rw", sw |-> 1] BY Zenon
    <2>6. a \in Applied /\ a # Gone /\ a.ap = "rw" /\ a.sw = 1 BY <2>5 DEF Applied, Gone
    <2>7. applied \in [OpPages -> Applied] /\ \A q \in OpPages : Kept(m, applied[q], q)
      BY WritesTypes DEF WritesInv
    <2>8. applied' \in [OpPages -> Applied] /\ \A q \in OpPages : applied'[q] = IF q = p THEN a ELSE applied[q]
      BY <1>4, <2>5, <2>6, <2>7
    <2>9. /\ Leaf("page", p, "normal", "rw", 1).t = "page" /\ Leaf("page", p, "normal", "rw", 1).ap = "rw"
          /\ Leaf("page", p, "normal", "rw", 1).sw = 1
      BY DEF Leaf
    <2>10. Kept(m', a, p) BY <1>4, <2>6, <2>9 DEF Kept
    <2>11. \A q \in OpPages : q # p => Kept(m', applied[q], q) BY <1>2, <1>4, <2>7, SameKept
    <2>12. \A q \in OpPages : Kept(m', applied'[q], q) BY <2>8, <2>10, <2>11
    <2> QED BY <2>2, <2>4, <2>8, <2>12, Zenon DEF WritesInv, Applied
  <1> QED BY <1>1, <1>3, <1>4

\* A block and the table that takes its place: nothing was written in their pages.
LEMMA SwapWrites ==
  ASSUME OneWalker, TreeInv, WritesInv, NEW c \in Walkers, op[c] \in Ops, Held(op[c]), applied' = applied,
         NEW a \in {"flush1", "flush2"}, op' = [op EXCEPT ![c] = [op[c] EXCEPT !.at = a]],
         \A p \in Pages : BlockOf(p) # Block(op[c]) => Walk(m', p) = Walk(m, p)
  PROVE  WritesInv'
  <1>1. PICK o : o = [op[c] EXCEPT !.at = a] BY Zenon
  <1>2. Block(o) = Block(op[c]) BY <1>1 DEF Ops, Block
  <1>3. \A d \in Walkers : op'[d] = o BY <1>1, OneOp, Zenon
  <1>4. OpPages \subseteq Pages BY Stage2Assumption
  <1>5. \A p \in OpPages : BlockOf(p) = Block(op[c]) => applied[p] = Nothing BY DEF WritesInv
  <1>6. ASSUME NEW p \in OpPages PROVE Kept(m', applied[p], p)
    <2>1. CASE BlockOf(p) = Block(op[c]) BY <1>5, <2>1, NothingKept
    <2>2. CASE BlockOf(p) # Block(op[c]) BY <1>4, <2>2, SameKept DEF WritesInv
    <2> QED BY <2>1, <2>2
  <1>7. applied \in [OpPages -> Applied] BY WritesTypes
  <1> QED BY <1>2, <1>3, <1>5, <1>6, <1>7 DEF WritesInv, Applied

\* A block that is broken holds no completed write.
LEMMA BreakWrites ==
  ASSUME OneWalker, TreeInv, WritesInv, NEW c \in Walkers, break(c)
  PROVE  WritesInv'
  <1>1. SetL2Effect(m, m', Block(op[c]), Invalid) BY BreakTree
  <1>2. /\ op[c].at = "break" /\ applied' = applied
        /\ op' = [op EXCEPT ![c] = [op[c] EXCEPT !.at = "flush1"]]
    BY DEF break, At, GoTo
  <1>3. op[c] \in Ops BY <1>2, ActiveBooted
  <1>4. Held(op[c]) BY <1>2 DEF Held
  <1>5. \A p \in Pages : BlockOf(p) # Block(op[c]) => Walk(m', p) = Walk(m, p) BY <1>1, Zenon DEF SetL2Effect
  <1> QED BY <1>2, <1>3, <1>4, <1>5, SwapWrites, Zenon

\* Nor does the table that takes its place.
LEMMA LinkWrites ==
  ASSUME OneWalker, TreeInv, WritesInv, NEW c \in Walkers, link(c)
  PROVE  WritesInv'
  <1>1. SetL2Effect(m, m', Block(op[c]), Table(op[c].l3)) BY LinkTree
  <1>2. /\ op[c].at = "link" /\ applied' = applied
        /\ op' = [op EXCEPT ![c] = [op[c] EXCEPT !.at = "flush2"]]
    BY DEF link, At, GoTo
  <1>3. op[c] \in Ops BY <1>2, ActiveBooted
  <1>4. Held(op[c]) BY <1>2 DEF Held
  <1>5. \A p \in Pages : BlockOf(p) # Block(op[c]) => Walk(m', p) = Walk(m, p) BY <1>1, Zenon DEF SetL2Effect
  <1> QED BY <1>2, <1>3, <1>4, <1>5, SwapWrites, Zenon

\* Flushes write nothing.
LEMMA FlushWrites ==
  ASSUME OneWalker, TreeInv, WritesInv, NEW c \in Walkers, flush(c)
  PROVE  WritesInv'
  <1>1. PICK a \in {"link", "leaf"} :
          /\ op' = [op EXCEPT ![c] = [op[c] EXCEPT !.at = a]]
          /\ op[c].at = IF a = "link" THEN "flush1" ELSE "flush2"
    BY DEF flush, At, GoTo
  <1>2. m' = m /\ applied' = applied BY DEF flush
  <1>3. op[c] \in Ops BY <1>1, ActiveBooted
  <1>4. PICK o : o = [op[c] EXCEPT !.at = a] BY Zenon
  <1>5. o.at = a /\ Block(o) = Block(op[c]) BY <1>3, <1>4 DEF Ops, Block
  <1>6. Held(o) => Held(op[c]) BY <1>1, <1>5 DEF Held
  <1>7. \A d \in Walkers : d = c /\ op'[d] = o BY <1>1, <1>4, OneOp, Zenon
  <1> QED BY <1>2, <1>5, <1>6, <1>7, QuietWrites, Zenon

\* What a completed write is remembered as.
Noted(r, a) == CASE r.k = "sw" -> [a EXCEPT !.sw = r.sw]
                 [] r.k = "s2ap" -> [a EXCEPT !.ap = r.ap]
                 [] r.k = "unmap" -> Gone

\* What is remembered of a write.
LEMMA NotedIs ==
  ASSUME NEW r \in [k : {"sw", "s2ap", "unmap"}, page : OpPages, ap : {"ro", "rw"}, sw : {0, 1}],
         NEW a \in [ap : {"any", "ro", "rw"}, sw : {-1, 0, 1}]
  PROVE  /\ Noted(r, a) \in Applied
         /\ r.k = "sw" => Noted(r, a) # Gone /\ Noted(r, a).sw = r.sw /\ Noted(r, a).ap = a.ap
         /\ r.k = "s2ap" => Noted(r, a) # Gone /\ Noted(r, a).ap = r.ap /\ Noted(r, a).sw = a.sw
         /\ r.k = "unmap" => Noted(r, a) = Gone
  <1>1. CASE r.k = "sw"
    <2>1. Noted(r, a) = [a EXCEPT !.sw = r.sw] BY <1>1 DEF Noted
    <2> QED BY <1>1, <2>1 DEF Applied, Gone
  <1>2. CASE r.k = "s2ap"
    <2>1. Noted(r, a) = [a EXCEPT !.ap = r.ap] BY <1>2 DEF Noted
    <2> QED BY <1>2, <2>1 DEF Applied, Gone
  <1>3. CASE r.k = "unmap"
    <2>1. Noted(r, a) = Gone BY <1>3 DEF Noted
    <2> QED BY <1>3, <2>1 DEF Applied
  <1> QED BY <1>1, <1>2, <1>3

\* The write of the entry does what it is remembered as, and keeps the other field.
LEMMA WriteKept ==
  ASSUME NEW s, NEW t, NEW p, NEW a \in Applied, Kept(s, a, p), Walk(s, p) \in PageLeaves,
         NEW r \in [k : {"sw", "s2ap", "unmap"}, page : OpPages, ap : {"ro", "rw"}, sw : {0, 1}],
         Walk(t, p) = Written(r, Walk(s, p))
  PROVE  Noted(r, a) \in Applied /\ Kept(t, Noted(r, a), p)
  <1>1. PICK e \in PageLeaves : e = Walk(s, p) OBVIOUS
  <1>2. PICK w : w = Walk(t, p) OBVIOUS
  <1>3. e.t = "page" /\ e # Invalid BY EntryKinds DEF PageLeaves, Leaves, Invalid
  <1>4. /\ r.k = "sw" => w \in PageLeaves /\ w.sw = r.sw /\ w.ap = e.ap
        /\ r.k = "s2ap" => w \in PageLeaves /\ w.ap = r.ap /\ w.sw = e.sw
        /\ r.k = "unmap" => w = Invalid
    <2>1. r \in [k : {"sw", "s2ap", "map", "unmap"}, page : OpPages, ap : {"ro", "rw"}, sw : {0, 1}] OBVIOUS
    <2>2. w = Written(r, e) BY <1>1, <1>2
    <2> QED BY <2>1, <2>2, WrittenIs, Zenon
  <1>5. a # Gone BY <1>1, <1>3 DEF Kept
  <1>6. a \in [ap : {"any", "ro", "rw"}, sw : {-1, 0, 1}] BY <1>5, AppliedIs
  <1>7. (a.ap \in Aps => e.ap = a.ap) /\ (a.sw \in Sws => e.sw = a.sw) BY <1>1, Zenon DEF Kept
  <1>8. PICK n : n = Noted(r, a) OBVIOUS
  <1>9. /\ n \in Applied
        /\ r.k = "sw" => n # Gone /\ n.sw = r.sw /\ n.ap = a.ap
        /\ r.k = "s2ap" => n # Gone /\ n.ap = r.ap /\ n.sw = a.sw
        /\ r.k = "unmap" => n = Gone
    BY <1>6, <1>8, NotedIs
  <1>10. w \in PageLeaves => w.t = "page" BY DEF PageLeaves, Leaves
  <1>11. r.k \in {"sw", "s2ap", "unmap"} OBVIOUS
  <1>12. (n.ap \in Aps => w.t = "page" /\ w.ap = n.ap) /\ (n.sw \in Sws => w.t = "page" /\ w.sw = n.sw)
         /\ (n = Gone => w = Invalid)
    BY <1>4, <1>7, <1>9, <1>10, <1>11, AppliedIs, Zenon
  <1> QED BY <1>2, <1>8, <1>9, <1>12 DEF Kept

\* The write of the entry.
LEMMA LeafWrites ==
  ASSUME OneWalker, TreeInv, UnderWay, WritesInv, NEW c \in Walkers, leaf(c)
  PROVE  WritesInv'
  <1>1. PICK r, e : r = op[c].r /\ e = Walk(m, op[c].r.page) OBVIOUS
  <1>2. /\ op[c] \in Ops /\ r.k # "map" /\ e \in PageLeaves /\ SetL3Effect(m, m', r.page, Written(r, e))
        /\ applied' = [applied EXCEPT ![r.page] = CASE r.k = "sw" -> [@ EXCEPT !.sw = r.sw]
                                                    [] r.k = "s2ap" -> [@ EXCEPT !.ap = r.ap]
                                                    [] r.k = "unmap" -> Gone]
        /\ IF r.k = "sw" THEN Return(c) ELSE GoTo(c, "tlbi")
    BY <1>1, LeafDoes, Zenon
  <1>3. r \in [k : {"sw", "s2ap", "unmap"}, page : OpPages, ap : {"ro", "rw"}, sw : {0, 1}]
    BY <1>1, <1>2 DEF Ops
  <1>4. PICK p \in OpPages : p = r.page BY <1>3
  <1>5. p \in Pages /\ OpPages \subseteq Pages BY Stage2Assumption
  <1>6. applied \in [OpPages -> Applied] /\ \A q \in OpPages : Kept(m, applied[q], q)
    BY WritesTypes DEF WritesInv
  <1>7. PICK n : n = Noted(r, applied[p]) OBVIOUS
  <1>8. applied' = [applied EXCEPT ![p] = n] BY <1>2, <1>4, <1>7 DEF Noted
  <1>9. Walk(m', p) = Written(r, Walk(m, p)) /\ \A q \in Pages : q # p => Walk(m', q) = Walk(m, q)
    BY <1>1, <1>2, <1>4, <1>5 DEF SetL3Effect
  <1>10. n \in Applied /\ Kept(m', n, p) BY <1>1, <1>2, <1>3, <1>4, <1>6, <1>7, <1>9, WriteKept
  <1>11. applied' \in [OpPages -> Applied] /\ \A q \in OpPages : applied'[q] = IF q = p THEN n ELSE applied[q]
    BY <1>6, <1>8, <1>10
  <1>12. \A q \in OpPages : q # p => Kept(m', applied[q], q) BY <1>5, <1>6, <1>9, SameKept
  <1>13. \A q \in OpPages : Kept(m', applied'[q], q) BY <1>10, <1>11, <1>12
  <1>14. \A d \in Walkers : ~Held(op'[d])
    <2>1. CASE r.k = "sw"
      <3>1. op' = [op EXCEPT ![c] = Idle] BY <1>2, <2>1 DEF Return
      <3>2. \A d \in Walkers : op'[d] = Idle BY <3>1, OneOp, Zenon
      <3> QED BY <3>2, OpFacts DEF Held
    <2>2. CASE r.k # "sw"
      <3>1. op' = [op EXCEPT ![c] = [op[c] EXCEPT !.at = "tlbi"]] BY <1>2, <2>2 DEF GoTo
      <3>2. \A d \in Walkers : op'[d] = [op[c] EXCEPT !.at = "tlbi"] BY <3>1, OneOp, Zenon
      <3>3. [op[c] EXCEPT !.at = "tlbi"].at = "tlbi" BY <1>2, GoToIs
      <3> QED BY <3>2, <3>3, Zenon DEF Held
    <2> QED BY <2>1, <2>2
  <1> QED BY <1>11, <1>13, <1>14, Zenon DEF WritesInv, Applied

\* tlbi_ipa writes nothing.
LEMMA TlbiWrites ==
  ASSUME OneWalker, TreeInv, WritesInv, NEW c \in Walkers, tlbi(c)
  PROVE  WritesInv'
  <1>1. op' = [op EXCEPT ![c] = Idle] /\ m' = m /\ applied' = applied BY DEF tlbi, Return
  <1>2. \A d \in Walkers : op'[d] = Idle BY <1>1, OneOp, Zenon
  <1>3. ~Held(Idle) BY OpFacts DEF Held
  <1> QED BY <1>1, <1>2, <1>3, QuietWrites

\* Nothing has been written at the start.
LEMMA InitWrites == Init => WritesInv
  <1> SUFFICES ASSUME Init PROVE WritesInv OBVIOUS
  <1>1. applied = [p \in OpPages |-> Nothing] /\ op = [c \in Walkers |-> Idle] BY DEF Init
  <1>2. ~Held(Idle) BY OpFacts DEF Held
  <1>3. applied \in [OpPages -> Applied] BY <1>1, AppliedIs
  <1> QED BY <1>1, <1>2, <1>3, NothingKept DEF WritesInv, Applied

\* Boot writes nothing that an operation must keep.
LEMMA BootWrites ==
  ASSUME TreeInv, mapper_call
  PROVE  WritesInv'
  <1>1. ~Booted /\ UNCHANGED <<op, applied>> BY DEF mapper_call, Booted
  <1>2. applied = [p \in OpPages |-> Nothing] /\ AllIdle BY <1>1 DEF TreeInv, AtBoot
  <1>3. ~Held(Idle) BY OpFacts DEF Held
  <1>4. applied \in [OpPages -> Applied] BY <1>2, AppliedIs
  <1> QED BY <1>1, <1>2, <1>3, <1>4, NothingKept DEF WritesInv, Applied, AllIdle

\* WritesInv is inductive.
LEMMA StepWrites == OneWalker /\ TreeInv /\ UnderWay /\ WritesInv /\ [Next]_vars => WritesInv'
  <1> SUFFICES ASSUME OneWalker, TreeInv, UnderWay, WritesInv, [Next]_vars PROVE WritesInv' OBVIOUS
  <1>1. CASE mapper_call BY <1>1, BootWrites
  <1>2. CASE access BY <1>2, QuietWrites DEF access
  <1>3. CASE other_alloc
    <2>1. SameWalks(m, m') /\ op' = op /\ applied' = applied BY <1>3, AllocTree DEF other_alloc
    <2>2. OpPages \subseteq Pages BY Stage2Assumption
    <2> QED BY <2>1, <2>2, QuietWrites DEF SameWalks
  <1>4. ASSUME NEW c \in Walkers, Walker(c) PROVE WritesInv'
    BY <1>4, SplitWrites, ChangeWrites, MapWrites, BreakWrites, FlushWrites, LinkWrites, LeafWrites, TlbiWrites DEF Walker
  <1>5. CASE UNCHANGED vars BY <1>5, QuietWrites DEF vars
  <1> QED BY <1>1, <1>2, <1>3, <1>4, <1>5 DEF Next

\* WritesInv says what is claimed.
LEMMA KeptAll == WritesInv => WritesKept
  BY DEF WritesInv, WritesKept, Kept

\* With one walker at a time, what a write_sw_bits, set_s2ap or map_page of Stage2Walker
\* wrote to a page stays there until the next write of the same field or an unmap_page.
THEOREM WritesTheorem == OneWalker => (Spec => []WritesKept)
  <1>1. CASE OneWalker
    <2>1. TreeInv /\ UnderWay /\ WritesInv /\ [Next]_vars => WritesInv' BY <1>1, StepWrites
    <2>2. Spec => []UnderWay BY <1>1, UnderTheorem
    <2>3. Spec => []WritesKept BY <2>1, <2>2, InitWrites, TreeTheorem, KeptAll, PTL DEF Spec
    <2> QED BY <2>3
  <1> QED BY <1>1

-----------------------------------------------------------------------------
(* The TLBs.                                                               *)

\* Entries without their SW bits.
LEMMA PlainIs ==
  ASSUME NEW e \in PageLeaves \cup BlockLeaves
  PROVE  Plain(e).t = e.t /\ e.t \in {"page", "block"} /\ e # Invalid
  BY DEF Plain, PageLeaves, BlockLeaves, Leaves, Invalid

\* What the tables hold for a page that is cached: the walk ends at an entry of the kind
\* that was cached.
LEMMA FreshKind ==
  ASSUME NEW s, Tree(s), NEW x, CachedWell(x), Fresh(s, x)
  PROVE  /\ x.page \in Pages /\ BlockOf(x.page) \in BlockNos
         /\ Walk(s, x.page).t = x.e.t /\ Walk(s, x.page) # Invalid
         /\ x.e.t = "block" <=> L2Entry(s, BlockOf(x.page)).t = "block"
  <1>1. x.page \in Pages /\ x.e.t \in {"block", "page"} BY DEF CachedWell
  <1>2. BlockOf(x.page) \in BlockNos BY <1>1, PageParts
  <1>3. PICK e : e = Walk(s, x.page) OBVIOUS
  <1>4. e \in PageEntries \cup BlockLeaves /\ (e.t = "block" <=> L2Entry(s, BlockOf(x.page)).t = "block")
    BY <1>1, <1>3, WalkIs, Zenon
  <1>5. Plain(e) = x.e BY <1>3 DEF Fresh
  <1>6. CASE e = Invalid
    <2>1. Plain(e).t = "invalid" BY <1>6 DEF Plain, Invalid
    <2> QED BY <1>1, <1>5, <2>1, Zenon
  <1>7. CASE e \in PageLeaves \cup BlockLeaves BY <1>1, <1>2, <1>3, <1>4, <1>5, <1>7, PlainIs, Zenon
  <1> QED BY <1>4, <1>6, <1>7, Zenon DEF PageEntries

\* What is cached stays fresh when no walk changes.
LEMMA SameFresh ==
  ASSUME NEW s, NEW t, NEW x, Fresh(s, x), Walk(t, x.page) = Walk(s, x.page)
  PROVE  Fresh(t, x)
  BY DEF Fresh

\* Nothing is stale unless the walker is between a write and its flush.
LEMMA NoStale ==
  ASSUME NEW o, o.at \notin {"flush1", "tlbi"}
  PROVE  \A x : ~Stale(o, x)
  BY DEF Stale

\* An operation of the one walker that leaves the TLBs alone.
LEMMA TlbStep ==
  ASSUME OneWalker, TreeInv, TlbInv, NEW c \in Walkers, NEW o, op' = [op EXCEPT ![c] = o], tlb' = tlb,
         \A x \in tlb : CachedWell(x) /\ (Fresh(m, x) \/ Stale(op[c], x)) => Fresh(m', x) \/ Stale(o, x)
  PROVE  TlbInv'
  <1>1. \A d \in Walkers : d = c /\ op'[d] = o BY OneOp, Zenon
  <1>2. ASSUME NEW x \in tlb PROVE CachedWell(x) /\ (Fresh(m', x) \/ \E d \in Walkers : Stale(op'[d], x))
    <2>1. CachedWell(x) /\ (Fresh(m, x) \/ \E d \in Walkers : Stale(op[d], x)) BY Zenon DEF TlbInv
    <2>2. Fresh(m, x) \/ Stale(op[c], x) BY <1>1, <2>1
    <2>3. Fresh(m', x) \/ Stale(o, x) BY <2>1, <2>2
    <2> QED BY <1>1, <2>1, <2>3
  <1>3. \A x, y \in tlb : Apart(x, y) BY Zenon DEF TlbInv
  <1> QED BY <1>2, <1>3, Zenon DEF TlbInv

\* Others leave the TLBs alone, and the tables that they are filled from.
LEMMA QuietTlb ==
  ASSUME TreeInv, TlbInv, UNCHANGED <<op, tlb>>, \A p \in Pages : Walk(m', p) = Walk(m, p)
  PROVE  TlbInv'
  <1>1. ASSUME NEW x \in tlb PROVE CachedWell(x) /\ (Fresh(m', x) \/ \E d \in Walkers : Stale(op[d], x))
    <2>1. CachedWell(x) /\ (Fresh(m, x) \/ \E d \in Walkers : Stale(op[d], x)) BY DEF TlbInv
    <2>2. x.page \in Pages BY <2>1 DEF CachedWell
    <2> QED BY <2>1, <2>2, SameFresh
  <1> QED BY <1>1 DEF TlbInv

\* Empty TLBs are consistent.
LEMMA EmptyTlb == tlb = {} => TlbInv
  BY DEF TlbInv

\* The table that is filled is not linked yet.
LEMMA SplitTlb ==
  ASSUME OneWalker, TreeInv, TlbInv, NEW c \in Walkers, split(c)
  PROVE  TlbInv'
  <1>1. PICK r \in Requests : Begin(c, Doing("break", r, m.next)) /\ SameWalks(m, m') BY SplitDoes, Zenon
  <1>2. PICK o : o = Doing("break", r, m.next) OBVIOUS
  <1>3. op[c] = Idle /\ op' = [op EXCEPT ![c] = o] /\ tlb' = tlb BY <1>1, <1>2, BeginOps DEF split
  <1>4. \A x : ~Stale(op[c], x) BY <1>3, OpFacts, NoStale
  <1>5. \A x \in tlb : CachedWell(x) /\ Fresh(m, x) => Fresh(m', x)
    BY <1>1, SameFresh DEF SameWalks, CachedWell
  <1> QED BY <1>3, <1>4, <1>5, TlbStep, Zenon

\* The begin of an operation leaves the TLBs alone.
LEMMA ChangeTlb ==
  ASSUME OneWalker, TreeInv, TlbInv, NEW c \in Walkers, change(c)
  PROVE  TlbInv'
  <1>1. PICK r \in Requests \cup [k : Kinds \cap {"unmap"}, page : OpPages, ap : {"rw"}, sw : {0}] :
          Begin(c, Doing("leaf", r, 0))
    BY DEF change
  <1>2. PICK o : o = Doing("leaf", r, 0) OBVIOUS
  <1>3. op[c] = Idle /\ op' = [op EXCEPT ![c] = o] /\ tlb' = tlb /\ m' = m BY <1>1, <1>2, BeginOps DEF change
  <1>4. \A x : ~Stale(op[c], x) BY <1>3, OpFacts, NoStale
  <1> QED BY <1>3, <1>4, TlbStep, Zenon

\* map_page writes an entry that was invalid, which is in no TLB.
LEMMA MapTlb ==
  ASSUME OneWalker, TreeInv, TlbInv, NEW c \in Walkers, map_page(c)
  PROVE  TlbInv'
  <1>1. PICK p \in OpPages :
          /\ Walk(m, p) = Invalid
          /\ \E o : Begin(c, o)
          /\ \A q \in Pages : q # p => Walk(m', q) = Walk(m, q)
    BY MapDoes
  <1>2. PICK o : Begin(c, o) BY <1>1
  <1>3. op[c] = Idle /\ op' = [op EXCEPT ![c] = o] /\ tlb' = tlb BY <1>2, BeginOps, Zenon DEF map_page
  <1>4. \A x : ~Stale(op[c], x) BY <1>3, OpFacts, NoStale
  <1>5. Tree(m) BY DEF TreeInv
  <1>6. ASSUME NEW x \in tlb, CachedWell(x), Fresh(m, x) PROVE Fresh(m', x)
    <2>1. x.page \in Pages /\ Walk(m, x.page) # Invalid BY <1>5, <1>6, FreshKind, Zenon
    <2>2. x.page # p BY <1>1, <2>1
    <2> QED BY <1>1, <1>6, <2>1, <2>2, SameFresh, Zenon
  <1> QED BY <1>3, <1>4, <1>6, TlbStep, Zenon

\* What is cached of the block becomes stale.
LEMMA BreakTlb ==
  ASSUME OneWalker, TreeInv, UnderWay, TlbInv, NEW c \in Walkers, break(c)
  PROVE  TlbInv'
  <1>1. SetL2Effect(m, m', Block(op[c]), Invalid) BY BreakTree
  <1>2. /\ op[c].at = "break" /\ tlb' = tlb
        /\ op' = [op EXCEPT ![c] = [op[c] EXCEPT !.at = "flush1"]]
    BY DEF break, At, GoTo
  <1>3. Tree(m) /\ op[c] \in Ops BY <1>2, ActiveBooted DEF TreeInv
  <1>4. PICK o : o = [op[c] EXCEPT !.at = "flush1"] BY Zenon
  <1>5. o.at = "flush1" /\ Block(o) = Block(op[c]) BY <1>3, <1>4, GoToIs, Zenon
  <1>6. L2Entry(m, Block(op[c])).t = "block" BY <1>2 DEF UnderWay, Under, Filling
  <1>7. \A x : ~Stale(op[c], x) BY <1>2, NoStale
  <1>8. ASSUME NEW x \in tlb, CachedWell(x), Fresh(m, x) PROVE Fresh(m', x) \/ Stale(o, x)
    <2>1. x.page \in Pages /\ (x.e.t = "block" <=> L2Entry(m, BlockOf(x.page)).t = "block")
      BY <1>3, <1>8, FreshKind, Zenon
    <2>2. CASE BlockOf(x.page) = Block(op[c]) BY <1>5, <1>6, <2>1, <2>2, Zenon DEF Stale
    <2>3. CASE BlockOf(x.page) # Block(op[c]) BY <1>1, <1>8, <2>1, <2>3, SameFresh, Zenon DEF SetL2Effect
    <2> QED BY <2>2, <2>3
  <1> QED BY <1>2, <1>4, <1>7, <1>8, TlbStep, Zenon

\* Nothing is cached of the broken block after the flush.
LEMMA LinkTlb ==
  ASSUME OneWalker, TreeInv, UnderWay, TlbInv, NEW c \in Walkers, link(c)
  PROVE  TlbInv'
  <1>1. /\ Breaking(m, op[c], saved) /\ op[c] \in Ops
        /\ \A p \in Pages : BlockOf(p) # Block(op[c]) => Walk(m', p) = Walk(m, p)
    BY LinkDoes, Zenon
  <1>2. /\ op[c].at = "link" /\ tlb' = tlb
        /\ op' = [op EXCEPT ![c] = [op[c] EXCEPT !.at = "flush2"]]
    BY DEF link, At, GoTo
  <1>3. Tree(m) BY DEF TreeInv
  <1>4. \A x : ~Stale(op[c], x) BY <1>2, NoStale
  <1>5. L2Entry(m, Block(op[c])) = Invalid BY <1>1, Zenon DEF Breaking
  <1>6. ASSUME NEW x \in tlb, CachedWell(x), Fresh(m, x) PROVE Fresh(m', x)
    <2>1. x.page \in Pages /\ Walk(m, x.page) # Invalid BY <1>3, <1>6, FreshKind, Zenon
    <2>2. L2Entry(m, BlockOf(x.page)).t # "invalid" BY <1>3, <2>1, WalkIs, Zenon
    <2>3. BlockOf(x.page) # Block(op[c]) BY <1>5, <2>2 DEF Invalid
    <2> QED BY <1>1, <1>6, <2>1, <2>3, SameFresh
  <1> QED BY <1>2, <1>4, <1>6, TlbStep, Zenon

\* The first page of a block is in it.
LEMMA MulDiv ==
  ASSUME NEW k \in Nat \ {0}, NEW b \in Nat
  PROVE  (b * k) \div k = b
  <1>1. PICK x \in Nat : x = b * k BY Z3
  <1>2. x \div k \in Int /\ x % k \in 0 .. k - 1 BY Z3
  <1>3. PICK q \in Int, r \in 0 .. k - 1 : q = x \div k /\ r = x % k BY <1>2
  <1>4. b * k = k * q + r BY <1>1, <1>3, Z3
  <1>5. CASE q < b
    <2>1. PICK d \in Nat : b = q + 1 + d BY <1>5, Z3
    <2>2. (q + 1 + d) * k = k * q + k + k * d /\ k * d >= 0 BY Z3
    <2> QED BY <1>4, <2>1, <2>2, Z3
  <1>6. CASE q > b
    <2>1. PICK d \in Nat : q = b + 1 + d BY <1>6, Z3
    <2>2. k * (b + 1 + d) = b * k + k + k * d /\ k * d >= 0 BY Z3
    <2> QED BY <1>4, <2>1, <2>2, Z3
  <1> QED BY <1>1, <1>3, <1>5, <1>6, Z3

\* What is cached of the page becomes stale, unless only its SW bits change.
LEMMA LeafTlb ==
  ASSUME OneWalker, TreeInv, UnderWay, TlbInv, NEW c \in Walkers, leaf(c)
  PROVE  TlbInv'
  <1>1. PICK r, e : r = op[c].r /\ e = Walk(m, op[c].r.page) OBVIOUS
  <1>2. /\ op[c] \in Ops /\ op[c].at = "leaf" /\ e \in PageLeaves /\ SetL3Effect(m, m', r.page, Written(r, e))
        /\ IF r.k = "sw" THEN Return(c) ELSE GoTo(c, "tlbi")
    BY <1>1, LeafDoes, Zenon
  <1>3. tlb' = tlb BY DEF leaf
  <1>4. Tree(m) BY DEF TreeInv
  <1>5. \A x : ~Stale(op[c], x) BY <1>2, NoStale
  <1>6. r \in [k : {"sw", "s2ap", "map", "unmap"}, page : OpPages, ap : {"ro", "rw"}, sw : {0, 1}]
    BY <1>1, <1>2, Zenon DEF Ops
  <1>7. PICK p \in Pages : p = r.page BY <1>6, Stage2Assumption
  <1>8. Walk(m', p) = Written(r, e) /\ \A q \in Pages : q # p => Walk(m', q) = Walk(m, q)
    BY <1>2, <1>7, Zenon DEF SetL3Effect
  <1>9. \A x \in tlb : CachedWell(x) /\ Fresh(m, x) /\ x.page # p => Fresh(m', x)
    BY <1>8, SameFresh DEF CachedWell
  <1>10. CASE r.k = "sw"
    <2>1. op' = [op EXCEPT ![c] = Idle] BY <1>2, <1>10 DEF Return
    <2>2. Plain(Walk(m', p)) = Plain(Walk(m, p)) BY <1>1, <1>2, <1>6, <1>7, <1>8, <1>10, WrittenIs DEF Plain
    <2>3. \A x \in tlb : CachedWell(x) /\ Fresh(m, x) /\ x.page = p => Fresh(m', x) BY <2>2 DEF Fresh
    <2> QED BY <1>3, <1>5, <1>9, <2>1, <2>3, TlbStep, Zenon
  <1>11. CASE r.k # "sw"
    <2>1. op' = [op EXCEPT ![c] = [op[c] EXCEPT !.at = "tlbi"]] BY <1>2, <1>11 DEF GoTo
    <2>2. PICK o : o = [op[c] EXCEPT !.at = "tlbi"] BY Zenon
    <2>3. o.at = "tlbi" /\ o.r = r BY <1>1, <1>2, <2>2, GoToIs
    <2>4. ASSUME NEW x \in tlb, CachedWell(x), Fresh(m, x), x.page = p PROVE Stale(o, x)
      <3>1. Walk(m, x.page).t = x.e.t BY <1>4, <2>4, FreshKind, Zenon
      <3>2. e.t = "page" BY <1>2, Zenon DEF PageLeaves, Leaves
      <3> QED BY <1>1, <1>7, <2>3, <2>4, <3>1, <3>2, Zenon DEF Stale
    <2> QED BY <1>3, <1>5, <1>9, <2>1, <2>2, <2>4, TlbStep, Zenon
  <1> QED BY <1>10, <1>11

\* A flush empties the TLBs.
LEMMA FlushTlb ==
  ASSUME NEW c \in Walkers, flush(c)
  PROVE  TlbInv'
  BY DEF flush, tlbi_all, TlbInv

\* tlbi_ipa removes what is stale.
LEMMA TlbiTlb ==
  ASSUME OneWalker, TreeInv, TlbInv, NEW c \in Walkers, tlbi(c)
  PROVE  TlbInv'
  <1>1. /\ op[c].at = "tlbi" /\ m' = m /\ op' = [op EXCEPT ![c] = Idle]
        /\ tlb' = {x \in tlb : ~Covers(x, op[c].r.page)}
    BY DEF tlbi, At, Return, tlbi_ipa
  <1>2. \A d \in Walkers : d = c BY DEF OneWalker
  <1>3. ASSUME NEW x \in tlb' PROVE CachedWell(x) /\ Fresh(m', x)
    <2>1. x \in tlb /\ ~Covers(x, op[c].r.page) BY <1>1
    <2>2. CachedWell(x) /\ (Fresh(m, x) \/ \E d \in Walkers : Stale(op[d], x)) BY <2>1 DEF TlbInv
    <2>3. ~Stale(op[c], x) BY <1>1, <2>1, Zenon DEF Stale, Covers
    <2> QED BY <1>1, <1>2, <2>2, <2>3
  <1>4. \A x, y \in tlb' : Apart(x, y) BY <1>1 DEF TlbInv
  <1> QED BY <1>3, <1>4, Zenon DEF TlbInv

\* What is stale is not what a walk finds for the same block.
LEMMA StaleBlock ==
  ASSUME UnderWay, NEW c \in Walkers, op[c] \in Ops, NEW x, Stale(op[c], x)
  PROVE  /\ L2Entry(m, BlockOf(x.page)).t # "block"
         /\ x.e.t = "block" => L2Entry(m, BlockOf(x.page)) = Invalid
  <1>1. Under(m, op[c], saved) BY DEF UnderWay
  <1>2. CASE op[c].at = "flush1" /\ x.e.t = "block" /\ BlockOf(x.page) = Block(op[c])
    <2>1. L2Entry(m, BlockOf(x.page)) = Invalid BY <1>1, <1>2, Zenon DEF Under, Breaking
    <2>2. Invalid.t # "block" BY EntryKinds
    <2> QED BY <2>1, <2>2, Zenon
  <1>3. CASE op[c].at = "tlbi" /\ x.e.t = "page" /\ x.page = op[c].r.page
    <2>1. L2Entry(m, BlockOf(x.page)).t = "table" BY <1>1, <1>3, Zenon DEF Under, Writing, Block
    <2> QED BY <1>3, <2>1, Zenon
  <1> QED BY <1>2, <1>3, Zenon DEF Stale

\* What a walk of the hardware caches.
LEMMA CachedIs ==
  ASSUME TreeInv, NEW p \in Pages, Walk(m, p).t \in {"block", "page"}, NEW y, y = Cached(p)
  PROVE  /\ CachedWell(y) /\ Fresh(m, y) /\ y.e.t = Walk(m, p).t /\ BlockOf(y.page) = BlockOf(p)
         /\ y.e = Plain(Walk(m, p))
  <1>0. Tree(m) BY DEF TreeInv
  <1>1. PICK e : e = Walk(m, p) OBVIOUS
  <1>2. e \in PageLeaves \cup BlockLeaves
    <2>1. e \in PageEntries \cup BlockLeaves BY <1>0, <1>1, WalkIs, Zenon
    <2> QED BY <1>1, <2>1 DEF PageEntries, Invalid
  <1>3. Plain(e).t = e.t BY <1>2, PlainIs
  <1>4. PICK b \in BlockNos : b = BlockOf(p) BY PageParts
  <1>5. PICK q : q = IF e.t = "block" THEN b * K ELSE p OBVIOUS
  <1>6. y = [page |-> q, e |-> Plain(e)] BY <1>1, <1>4, <1>5 DEF Cached, Plain
  <1>7. y.page = q /\ y.e = Plain(e) BY <1>6
  <1>8. q \in Pages /\ BlockOf(q) = b
    <2>1. CASE e.t = "block"
      <3>1. q = b * K BY <1>5, <2>1
      <3>2. PICK i \in Index : i = 0 BY KFacts DEF Index
      <3>3. b * K + i \in Pages BY PageAt
      <3>4. b \in Int /\ K \in Int BY KFacts DEF BlockNos
      <3>5. b * K + i = b * K BY <3>2, <3>4
      <3>6. BlockOf(b * K) = b BY KFacts, MulDiv DEF BlockOf, BlockNos
      <3> QED BY <3>1, <3>3, <3>5, <3>6
    <2>2. CASE e.t # "block" BY <1>4, <1>5, <2>2
    <2> QED BY <2>1, <2>2
  <1>9. Walk(m, q) = e
    <2>1. CASE e.t = "block"
      <3>1. L2Entry(m, b).t = "block" BY <1>0, <1>1, <1>4, <2>1, WalkIs, Zenon
      <3>2. Walk(m, q) = L2Entry(m, b) /\ Walk(m, p) = L2Entry(m, b) BY <1>0, <1>4, <1>8, <3>1, WalkIs, Zenon
      <3> QED BY <1>1, <3>2
    <2>2. CASE e.t # "block" BY <1>1, <1>5, <2>2
    <2> QED BY <2>1, <2>2
  <1>10. Fresh(m, y) BY <1>7, <1>9 DEF Fresh
  <1>11. y.e.t = "block" => y.page = BlockOf(y.page) * K BY <1>3, <1>5, <1>7, <1>8
  <1>12. CachedWell(y) BY <1>1, <1>3, <1>6, <1>7, <1>8, <1>11 DEF CachedWell
  <1> QED BY <1>1, <1>3, <1>4, <1>7, <1>8, <1>10, <1>12, Zenon

\* Two entries that the tables hold and that cover the same block are the same.
LEMMA SameEntry ==
  ASSUME NEW s, Tree(s), NEW x, NEW y, CachedWell(x), CachedWell(y), Fresh(s, x), Fresh(s, y),
         BlockOf(x.page) = BlockOf(y.page), x.e.t = "block" \/ y.e.t = "block"
  PROVE  x = y
  <1>1. L2Entry(s, BlockOf(x.page)).t = "block" /\ x.page \in Pages /\ y.page \in Pages BY FreshKind, Zenon
  <1>2. x.e.t = "block" /\ y.e.t = "block" BY <1>1, FreshKind, Zenon
  <1>3. x.page = y.page BY <1>2 DEF CachedWell
  <1>4. x.e = y.e BY <1>3 DEF Fresh
  <1>5. x = [page |-> x.page, e |-> x.e] /\ y = [page |-> y.page, e |-> y.e] BY DEF CachedWell
  <1> QED BY <1>3, <1>4, <1>5, Zenon

\* A CPU caches what the tables hold now: no other entry covers that block.
LEMMA AccessTlb ==
  ASSUME TreeInv, UnderWay, TlbInv, access
  PROVE  TlbInv'
  <1>0. Tree(m) /\ m' = m /\ op' = op BY DEF TreeInv, access
  <1>1. PICK p \in Touched : tlb' = IF Walk(m, p).t \in {"block", "page"} THEN tlb \cup {Cached(p)} ELSE tlb
    BY Zenon DEF access
  <1>2. p \in Pages BY Stage2Assumption
  <1>3. CASE Walk(m, p).t \notin {"block", "page"}
    <2>1. tlb' = tlb BY <1>1, <1>3
    <2> QED BY <1>0, <2>1, QuietTlb
  <1>4. CASE Walk(m, p).t \in {"block", "page"}
    <2>1. PICK y : y = Cached(p) OBVIOUS
    <2>2. tlb' = tlb \cup {y} BY <1>1, <1>4, <2>1
    <2>3. CachedWell(y) /\ Fresh(m, y) /\ y.e.t = Walk(m, p).t /\ BlockOf(y.page) = BlockOf(p)
      BY <1>2, <1>4, <2>1, CachedIs, Zenon
    <2>4. L2Entry(m, BlockOf(p)).t \in {"block", "table"}
      <3>1. BlockOf(p) \in BlockNos BY <1>2, PageParts
      <3>2. L2Entry(m, BlockOf(p)).t \in {"invalid", "table", "block"} BY <1>0, <3>1, L2Is, Zenon
      <3>3. L2Entry(m, BlockOf(p)).t # "invalid" BY <1>0, <1>2, <1>4, WalkIs, Zenon DEF Invalid
      <3> QED BY <3>2, <3>3
    <2>5. y.e.t = "block" => L2Entry(m, BlockOf(p)).t = "block" BY <1>0, <1>2, <2>3, WalkIs, Zenon
    <2>6. \A d \in Walkers : op[d] \in Ops \cup {Idle} BY DEF TreeInv, Types
    <2>7. ASSUME NEW x \in tlb, BlockOf(x.page) = BlockOf(y.page), x.e.t = "block" \/ y.e.t = "block"
          PROVE  x = y
      <3>1. CachedWell(x) /\ (Fresh(m, x) \/ \E d \in Walkers : Stale(op[d], x)) BY DEF TlbInv
      <3>2. ASSUME NEW d \in Walkers, Stale(op[d], x) PROVE FALSE
        <4>1. op[d] \in Ops BY <2>6, <3>2, NoStale, OpFacts
        <4>2. /\ L2Entry(m, BlockOf(p)).t # "block"
              /\ x.e.t = "block" => L2Entry(m, BlockOf(p)) = Invalid
          BY <2>3, <2>7, <3>2, <4>1, StaleBlock, Zenon
        <4>3. L2Entry(m, BlockOf(p)) # Invalid BY <2>4, EntryKinds
        <4> QED BY <2>5, <2>7, <4>2, <4>3, Zenon
      <3>3. Fresh(m, x) BY <3>1, <3>2
      <3> QED BY <1>0, <2>3, <2>7, <3>1, <3>3, SameEntry, Zenon
    <2>8. ASSUME NEW x \in tlb PROVE Apart(x, y) /\ Apart(y, x) BY <2>7, Zenon DEF Apart, Covers
    <2>9. Apart(y, y) BY Zenon DEF Apart
    <2>10. \A x, z \in tlb : Apart(x, z) BY DEF TlbInv
    <2>11. \A x, z \in tlb' : Apart(x, z) BY <2>2, <2>8, <2>9, <2>10
    <2>12. \A x \in tlb : CachedWell(x) /\ (Fresh(m, x) \/ \E d \in Walkers : Stale(op[d], x)) BY DEF TlbInv
    <2>13. \A x \in tlb' : CachedWell(x) /\ (Fresh(m', x) \/ \E d \in Walkers : Stale(op'[d], x))
      BY <1>0, <2>2, <2>3, <2>12, Zenon
    <2> QED BY <2>11, <2>13, Zenon DEF TlbInv
  <1> QED BY <1>3, <1>4

\* TlbInv is inductive.
LEMMA StepTlb == OneWalker /\ TreeInv /\ UnderWay /\ TlbInv /\ [Next]_vars => TlbInv'
  <1> SUFFICES ASSUME OneWalker, TreeInv, UnderWay, TlbInv, [Next]_vars PROVE TlbInv' OBVIOUS
  <1>1. CASE mapper_call
    <2>1. tlb' = tlb /\ ~Booted BY <1>1 DEF mapper_call, Booted
    <2>2. tlb' = {} BY <2>1 DEF TreeInv, AtBoot
    <2> QED BY <2>2, Zenon DEF TlbInv
  <1>2. CASE access BY <1>2, AccessTlb
  <1>3. CASE other_alloc
    <2>1. SameWalks(m, m') /\ op' = op /\ tlb' = tlb BY <1>3, AllocTree DEF other_alloc
    <2> QED BY <2>1, QuietTlb DEF SameWalks
  <1>4. ASSUME NEW c \in Walkers, Walker(c) PROVE TlbInv'
    BY <1>4, SplitTlb, ChangeTlb, MapTlb, BreakTlb, FlushTlb, LinkTlb, LeafTlb, TlbiTlb DEF Walker
  <1>5. CASE UNCHANGED vars BY <1>5, QuietTlb DEF vars
  <1> QED BY <1>1, <1>2, <1>3, <1>4, <1>5 DEF Next

\* What TlbInv says of the TLBs.
LEMMA TlbAll == TreeInv /\ TlbInv => TlbConsistent
  <1> SUFFICES ASSUME TreeInv, TlbInv PROVE TlbConsistent OBVIOUS
  <1>1. ASSUME NEW x \in tlb
        PROVE  \/ [Walk(m, x.page) EXCEPT !.sw = 0] = x.e
               \/ \E c \in Walkers : op[c] # Idle /\ Covers(x, op[c].r.page) /\ op[c].at \in {"flush1", "tlbi"}
    <2>1. Fresh(m, x) \/ \E c \in Walkers : Stale(op[c], x) BY DEF TlbInv
    <2>2. CASE Fresh(m, x) BY <2>2 DEF Fresh, Plain
    <2>3. ASSUME NEW c \in Walkers, Stale(op[c], x)
          PROVE  op[c] # Idle /\ Covers(x, op[c].r.page) /\ op[c].at \in {"flush1", "tlbi"}
      BY <2>3, OpFacts DEF Stale, Covers, Block
    <2> QED BY <2>1, <2>2, <2>3
  <1>2. \A x, y \in tlb : x.e.t = "block" /\ x # y => ~Covers(x, y.page) BY DEF TlbInv, Apart
  <1> QED BY <1>1, <1>2 DEF TlbConsistent

\* With one walker at a time, the break-before-make of split_block_if_needed and the
\* flushes of Stage2Walker keep the TLBs true to the tables: they hold what a walk finds,
\* but for what the walker is about to flush, and never a block beside another entry for
\* its pages.
THEOREM TlbTheorem == OneWalker => (Spec => []TlbConsistent)
  <1>1. CASE OneWalker
    <2>1. TreeInv /\ UnderWay /\ TlbInv /\ [Next]_vars => TlbInv' BY <1>1, StepTlb
    <2>2. Spec => []UnderWay BY <1>1, UnderTheorem
    <2>3. Init => TlbInv BY EmptyTlb DEF Init
    <2>4. Spec => []TlbConsistent BY <2>1, <2>2, <2>3, TreeTheorem, TlbAll, PTL DEF Spec
    <2> QED BY <2>4
  <1> QED BY <1>1

-----------------------------------------------------------------------------
(* The tables implement the address map.                                   *)

\* Once all is done, the plan is the layout.
LEMMA PlannedLayout ==
  ASSUME NEW g \in Guests, NEW p \in Pages, NEW todo, todo.normal = {}, todo.device = {}, todo.traps = {}
  PROVE  Planned(g, todo, p) = Layout(g)[p]
  <1>1. CASE g.kind = "vm"
    <2>1. /\ Calls(g).traps = TrapPages /\ Calls(g).device = GicBlocks
          /\ Calls(g).normal = Ram(Memory(g).from, Memory(g).to)
      BY <1>1, Zenon DEF Calls, init_memory
    <2>2. Memory(g).from \in Int /\ Memory(g).to \in Int BY MemoryIs
    <2>3. Calls(g).normal = (Memory(g).from .. Memory(g).to - 1) \ (HeapStart .. HeapEnd - 1)
      BY <2>1, <2>2, RamIs
    <2> QED BY <1>1, <2>1, <2>3, Zenon DEF Planned, Layout, Mapped
  <1>2. CASE g.kind # "vm"
    <2>1. /\ Calls(g).traps = {} /\ Calls(g).device = {UartBlock}
          /\ Calls(g).normal = Memory(g).from .. Memory(g).to - 1
      BY <1>2, Zenon DEF Calls, build_sp_stage2
    <2> QED BY <1>2, <2>1, Zenon DEF Planned, Layout, Mapped
  <1> QED BY <1>1, <1>2

\* Boot ends with the layout.
LEMMA ViewLayout ==
  ASSUME NEW g \in Guests, NEW todo, todo.normal = {}, todo.device = {}, todo.traps = {},
         NEW s, Progress(g, todo, s)
  PROVE  View(s) = Layout(g)
  <1>1. \A p \in Pages : View(s)[p] = Layout(g)[p] BY PlannedLayout, Zenon DEF Progress, View
  <1>2. View(s) = [p \in Pages |-> View(s)[p]] BY DEF View
  <1>3. Layout(g) = [p \in Pages |-> Layout(g)[p]] BY Zenon DEF Layout
  <1> QED BY <1>1, <1>2, <1>3

\* The same walks show the same map.
LEMMA SameView ==
  ASSUME NEW s, NEW t, \A p \in Pages : Walk(t, p) = Walk(s, p)
  PROVE  View(t) = View(s)
  BY DEF View

\* What a page may be mapped to.
LEMMA SeenIs ==
  ASSUME NEW s, Tree(s), NEW p \in Pages
  PROVE  View(s)[p] \in Values
  <1>1. PICK e : e = Walk(s, p) OBVIOUS
  <1>2. e \in {Invalid} \cup PageLeaves \cup BlockLeaves BY <1>1, WalkIs, Zenon DEF PageEntries
  <1>3. View(s)[p] = Behind(e, p) BY <1>1 DEF View
  <1>4. CASE e = Invalid BY <1>3, <1>4, Zenon DEF Behind, Invalid, Values
  <1>5. CASE e \in PageLeaves
    <2>1. Behind(e, p) = [pa |-> e.pa, mem |-> e.mem, ap |-> e.ap, sw |-> e.sw]
      BY <1>5, Zenon DEF Behind, PageLeaves, Leaves
    <2>2. e.pa \in Pages /\ e.mem \in {"normal", "device"} /\ e.ap \in {"ro", "rw"} /\ e.sw \in {0, 1}
      BY <1>5 DEF PageLeaves, Leaves
    <2>3. Behind(e, p) \in [pa : Pages, mem : {"normal", "device"}, ap : {"ro", "rw"}, sw : {0, 1}] BY <2>1, <2>2
    <2> QED BY <1>3, <2>3, Zenon DEF Values
  <1>6. CASE e \in BlockLeaves
    <2>1. Behind(e, p) = [pa |-> e.pa + (p % K), mem |-> e.mem, ap |-> e.ap, sw |-> e.sw]
      BY <1>6, Zenon DEF Behind, BlockLeaves, Leaves
    <2>2. PICK b \in BlockNos : e.pa = b * K BY <1>6 DEF BlockLeaves, Leaves
    <2>3. e.pa + (p % K) \in Pages BY <2>2, PageParts, PageAt
    <2>4. e.mem \in {"normal", "device"} /\ e.ap \in {"ro", "rw"} /\ e.sw \in {0, 1}
      BY <1>6 DEF BlockLeaves, Leaves
    <2>5. Behind(e, p) \in [pa : Pages, mem : {"normal", "device"}, ap : {"ro", "rw"}, sw : {0, 1}]
      BY <2>1, <2>3, <2>4
    <2> QED BY <1>3, <2>5, Zenon DEF Values
  <1> QED BY <1>2, <1>4, <1>5, <1>6

MapStep == UNCHANGED <<guest, Meaning>> \/ Map!Next

\* Boot calls are not seen.
LEMMA BootMeaning ==
  ASSUME TreeInv, mapper_call
  PROVE  UNCHANGED <<guest, Meaning>>
  <1>1. guest' = guest /\ ~Booted /\ guest \in Guests BY DEF mapper_call, Booted, TreeInv, Types
  <1>2. Meaning = Layout(guest) BY <1>1 DEF Meaning
  <1>3. CASE ~Booted' BY <1>1, <1>2, <1>3 DEF Meaning
  <1>4. CASE Booted'
    <2>1. AllIdle /\ op' = op BY <1>1 DEF TreeInv, AtBoot, mapper_call
    <2>2. Meaning' = View(m') BY <1>4, <2>1 DEF Meaning, AllIdle
    <2>3. PICK todo : todo = boot' OBVIOUS
    <2>4. todo.normal = {} /\ todo.device = {} /\ todo.traps = {} BY <1>4, <2>3 DEF Booted
    <2>5. PICK t : t = m' OBVIOUS
    <2>6. Progress(guest, todo, t) BY <2>3, <2>5, BootStep
    <2>7. View(t) = Layout(guest) BY <1>1, <2>4, <2>6, ViewLayout, Zenon
    <2> QED BY <1>1, <1>2, <2>2, <2>5, <2>7
  <1> QED BY <1>3, <1>4

\* An operation that begins keeps what was mapped for the others to see.
LEMMA BeginMeaning ==
  ASSUME OneWalker, TreeInv, NEW c \in Walkers, NEW o, Begin(c, o), m'.ok = TRUE,
         o # Idle \/ \A p \in Pages : Walk(m', p) = Walk(m, p)
  PROVE  UNCHANGED <<guest, Meaning>>
  <1>1. /\ AllIdle /\ Booted /\ saved' = View(m) /\ op' = [op EXCEPT ![c] = o] /\ UNCHANGED <<guest, boot>>
    BY BeginSaves, BeginOps
  <1>2. Meaning = View(m) BY <1>1 DEF Meaning
  <1>3. Booted' BY <1>1, Zenon DEF Booted
  <1>4. \A d \in Walkers : d = c /\ op'[d] = o BY <1>1, OneOp, Zenon
  <1>5. CASE o = Idle
    <2>1. AllIdle' BY <1>4, <1>5 DEF AllIdle
    <2>2. View(m') = View(m)
      <3>1. CASE \A p \in Pages : Walk(m', p) = Walk(m, p) BY <3>1, SameView
      <3> QED BY <1>5, <3>1
    <2> QED BY <1>1, <1>2, <1>3, <2>1, <2>2 DEF Meaning
  <1>6. CASE o # Idle
    <2>1. ~AllIdle' BY <1>4, <1>6 DEF AllIdle
    <2> QED BY <1>1, <1>2, <1>3, <2>1 DEF Meaning
  <1> QED BY <1>5, <1>6

\* An operation under way changes nothing, as far as others see.
LEMMA GoingOn ==
  ASSUME TreeInv, TreeInv', NEW c \in Walkers, op[c] \in Ops, op'[c] \in Ops, UNCHANGED <<guest, saved>>
  PROVE  UNCHANGED <<guest, Meaning>>
  <1>1. op[c] # Idle /\ op'[c] # Idle BY OpFacts
  <1>2. ~AllIdle /\ ~AllIdle' BY <1>1 DEF AllIdle
  <1>3. Booted BY <1>2, Zenon DEF TreeInv, AtBoot
  <1>4. Booted' BY <1>2 DEF TreeInv, AtBoot
  <1> QED BY <1>2, <1>3, <1>4 DEF Meaning

\* An operation that returns has changed its page and no other.
LEMMA Returning ==
  ASSUME OneWalker, TreeInv, TreeInv', UnderWay, NEW c \in Walkers, op[c] \in Ops, op' = [op EXCEPT ![c] = Idle],
         UNCHANGED <<guest, boot>>, \A p \in Pages : p # op[c].r.page => Seen(m', p) = saved[p]
  PROVE  Map!Next
  <1>1. op[c] # Idle /\ op[c].r.page \in Pages BY OpFacts
  <1>2. ~AllIdle BY <1>1 DEF AllIdle
  <1>3. Booted BY <1>2, Zenon DEF TreeInv, AtBoot
  <1>4. Booted' BY <1>3, Zenon DEF TreeInv, Types, Booted
  <1>5. \A d \in Walkers : op'[d] = Idle BY OneOp, Zenon
  <1>6. AllIdle' BY <1>5 DEF AllIdle
  <1>7. Meaning = saved /\ Meaning' = View(m') BY <1>2, <1>3, <1>4, <1>6, Zenon DEF Meaning
  <1>8. PICK p \in Pages : p = op[c].r.page BY <1>1
  <1>9. PICK v : v = View(m') OBVIOUS
  <1>10. v = [q \in Pages |-> v[q]] /\ \A q \in Pages : v[q] = Seen(m', q) BY <1>9 DEF View, Seen
  <1>11. PICK s : s = saved OBVIOUS
  <1>a. s = [q \in Pages |-> s[q]] BY <1>11, Zenon DEF UnderWay
  <1>12. s = [q \in Pages |-> s[q]] /\ \A q \in Pages : q # p => v[q] = s[q] BY <1>8, <1>10, <1>11, <1>a
  <1>13. v = [s EXCEPT ![p] = v[p]] BY <1>10, <1>12
  <1>14. v[p] \in Values
    <2>1. PICK t : t = m' OBVIOUS
    <2>2. Tree(t) BY <2>1 DEF TreeInv
    <2> QED BY <1>9, <2>1, <2>2, SeenIs, Zenon
  <1>15. Map!Change(p) BY <1>7, <1>9, <1>11, <1>13, <1>14 DEF Map!Change
  <1> QED BY <1>15 DEF Map!Next

\* The address map starts as the layout.
LEMMA InitMap == Init => Map!Init
  <1> SUFFICES ASSUME Init PROVE Map!Init OBVIOUS
  <1>1. guest \in Guests /\ m = New /\ op = [c \in Walkers |-> Idle] /\ boot = Calls(guest) BY DEF Init
  <1>2. CASE ~Booted BY <1>1, <1>2 DEF Meaning, Map!Init
  <1>3. CASE Booted
    <2>1. AllIdle BY <1>1 DEF AllIdle
    <2>2. Meaning = View(m) BY <1>3, <2>1 DEF Meaning
    <2>3. boot.normal = {} /\ boot.device = {} /\ boot.traps = {} BY <1>3 DEF Booted
    <2>4. ASSUME NEW p \in Pages PROVE View(m)[p] = Layout(guest)[p]
      <3>a. Walk(m, p) = Invalid BY <1>1, NewIs, Zenon
      <3>b. View(m)[p] = Behind(Walk(m, p), p) BY DEF View
      <3>1. View(m)[p] = Invalid BY <3>a, <3>b, EntryKinds, Zenon DEF Behind
      <3>2. Planned(guest, boot, p) = Invalid BY <1>1, Zenon DEF Planned
      <3>3. Planned(guest, boot, p) = Layout(guest)[p] BY <1>1, <2>3, PlannedLayout, Zenon
      <3> QED BY <3>1, <3>2, <3>3
    <2>5. View(m) = [p \in Pages |-> View(m)[p]] /\ Layout(guest) = [p \in Pages |-> Layout(guest)[p]]
      BY Zenon DEF View, Layout
    <2>6. View(m) = Layout(guest) BY <2>4, <2>5
    <2> QED BY <1>1, <2>2, <2>6 DEF Map!Init
  <1> QED BY <1>2, <1>3

\* No boot call fails.
LEMMA BootedOk == TreeInv => m.ok = TRUE
  BY DEF TreeInv, Types

\* The begin of an operation is not seen.
LEMMA BeginMap ==
  ASSUME OneWalker, TreeInv, TreeInv', NEW c \in Walkers, split(c) \/ change(c) \/ map_page(c)
  PROVE  UNCHANGED <<guest, Meaning>>
  <1>0. m'.ok = TRUE BY BootedOk DEF TreeInv, Types
  <1>1. CASE split(c)
    <2>1. PICK r \in Requests : Begin(c, Doing("break", r, m.next)) BY <1>1, SplitDoes, Zenon
    <2>a. m \in Mapper BY Zenon DEF TreeInv, Tree
    <2>2. m.next \in Nat BY <2>a, HeapNat DEF Mapper
    <2>b. Doing("break", r, m.next) \in Ops BY <2>2, BreakIs, Zenon
    <2>3. Doing("break", r, m.next) # Idle BY <2>b, OpFacts, Zenon
    <2> QED BY <1>0, <2>1, <2>3, BeginMeaning, Zenon
  <1>2. CASE change(c)
    <2>1. PICK r \in Requests \cup [k : Kinds \cap {"unmap"}, page : OpPages, ap : {"rw"}, sw : {0}] :
            Begin(c, Doing("leaf", r, 0))
      BY <1>2 DEF change
    <2>2. Doing("leaf", r, 0) # Idle BY LeafIs, OpFacts, Zenon
    <2> QED BY <1>0, <2>1, <2>2, BeginMeaning, Zenon
  <1>3. CASE map_page(c)
    <2>1. PICK p \in OpPages :
            \/ Begin(c, Doing("tlbi", Request("map", p, "rw", 1), 0))
            \/ Begin(c, Idle) /\ \A q \in Pages : Walk(m', q) = Walk(m, q)
      BY <1>3, MapDoes, Zenon
    <2>2. Doing("tlbi", Request("map", p, "rw", 1), 0) # Idle BY MapRequest, OpFacts
    <2>3. CASE Begin(c, Doing("tlbi", Request("map", p, "rw", 1), 0)) BY <1>0, <2>2, <2>3, BeginMeaning, Zenon
    <2>4. CASE Begin(c, Idle) /\ \A q \in Pages : Walk(m', q) = Walk(m, q) BY <1>0, <2>4, BeginMeaning, Zenon
    <2> QED BY <2>1, <2>3, <2>4
  <1> QED BY <1>1, <1>2, <1>3

\* Nor is the splitting of a block.
LEMMA WorkMap ==
  ASSUME TreeInv, TreeInv', NEW c \in Walkers, break(c) \/ flush(c) \/ link(c)
  PROVE  UNCHANGED <<guest, Meaning>>
  <1>1. PICK a \in {"flush1", "link", "flush2", "leaf"} :
          op' = [op EXCEPT ![c] = [op[c] EXCEPT !.at = a]] /\ op[c].at \in {"break", "flush1", "link", "flush2"}
    BY DEF break, flush, link, At, GoTo
  <1>2. op[c] \in Ops BY <1>1, ActiveBooted
  <1>3. [op[c] EXCEPT !.at = a] \in Ops BY <1>2 DEF Ops
  <1>4. op'[c] = [op[c] EXCEPT !.at = a] BY <1>1 DEF TreeInv, Types
  <1>5. UNCHANGED <<guest, saved>> BY DEF break, flush, link
  <1> QED BY <1>2, <1>3, <1>4, <1>5, GoingOn

\* A write of SW bits ends the operation, other writes are flushed first.
LEMMA LeafMap ==
  ASSUME OneWalker, TreeInv, TreeInv', UnderWay, NEW c \in Walkers, leaf(c)
  PROVE  MapStep
  <1>1. /\ Linking(m, op[c], saved) /\ op[c] \in Ops
        /\ SetL3Effect(m, m', op[c].r.page, Written(op[c].r, Walk(m, op[c].r.page)))
        /\ IF op[c].r.k = "sw" THEN Return(c) ELSE GoTo(c, "tlbi")
    BY LeafDoes, Zenon
  <1>2. UNCHANGED <<guest, boot, saved>> BY DEF leaf
  <1>3. CASE op[c].r.k = "sw"
    <2>1. op' = [op EXCEPT ![c] = Idle] BY <1>1, <1>3, Zenon DEF Return
    <2>2. \A p \in Pages : p # op[c].r.page => Seen(m', p) = saved[p]
      BY <1>1, Zenon DEF SetL3Effect, Linking, Seen
    <2>3. Map!Next BY <1>1, <1>2, <2>1, <2>2, Returning, Zenon
    <2> QED BY <2>3 DEF MapStep
  <1>4. CASE op[c].r.k # "sw"
    <2>1. op' = [op EXCEPT ![c] = [op[c] EXCEPT !.at = "tlbi"]] BY <1>1, <1>4 DEF GoTo
    <2>2. [op[c] EXCEPT !.at = "tlbi"] \in Ops BY <1>1, GoToIs, Zenon
    <2>3. op'[c] \in Ops BY <2>1, <2>2 DEF TreeInv, Types
    <2>4. UNCHANGED <<guest, Meaning>> BY <1>1, <1>2, <2>3, GoingOn, Zenon
    <2> QED BY <2>4 DEF MapStep
  <1> QED BY <1>3, <1>4

\* The end of an operation is seen, as the change of its page.
LEMMA TlbiMap ==
  ASSUME OneWalker, TreeInv, TreeInv', UnderWay, NEW c \in Walkers, tlbi(c)
  PROVE  MapStep
  <1>1. op[c].at = "tlbi" /\ op' = [op EXCEPT ![c] = Idle] /\ m' = m /\ UNCHANGED <<guest, boot>>
    BY DEF tlbi, At, Return
  <1>2. op[c] \in Ops BY <1>1, ActiveBooted
  <1>3. \A p \in Pages : p # op[c].r.page => Seen(m', p) = saved[p] BY <1>1 DEF UnderWay, Under, Writing
  <1>4. Map!Next BY <1>1, <1>2, <1>3, Returning, Zenon
  <1> QED BY <1>4 DEF MapStep

\* Everything else is not seen.
LEMMA QuietMap ==
  ASSUME TreeInv, TreeInv', UNCHANGED <<guest, boot, op, saved>>, \A p \in Pages : Walk(m', p) = Walk(m, p)
  PROVE  UNCHANGED <<guest, Meaning>>
  <1>1. m.ok = TRUE /\ m'.ok = TRUE BY DEF TreeInv, Types
  <1>2. (Booted' <=> Booted) /\ (AllIdle' <=> AllIdle) BY <1>1 DEF Booted, AllIdle
  <1>3. View(m') = View(m) BY SameView
  <1> QED BY <1>2, <1>3 DEF Meaning

\* Every step is a step of AddressMap, or none.
LEMMA StepMap == OneWalker /\ TreeInv /\ TreeInv' /\ UnderWay /\ [Next]_vars => MapStep
  <1> SUFFICES ASSUME OneWalker, TreeInv, TreeInv', UnderWay, [Next]_vars PROVE MapStep OBVIOUS
  <1>1. CASE mapper_call BY <1>1, BootMeaning DEF MapStep
  <1>2. CASE access BY <1>2, QuietMap DEF access, MapStep
  <1>3. CASE other_alloc
    <2>1. SameWalks(m, m') /\ UNCHANGED <<guest, boot, op, saved>> BY <1>3, AllocTree DEF other_alloc
    <2>2. UNCHANGED <<guest, Meaning>> BY <2>1, QuietMap DEF SameWalks
    <2> QED BY <2>2 DEF MapStep
  <1>4. ASSUME NEW c \in Walkers, Walker(c) PROVE MapStep
    BY <1>4, BeginMap, WorkMap, LeafMap, TlbiMap DEF Walker, MapStep
  <1>5. CASE UNCHANGED vars BY <1>5, QuietMap DEF vars, MapStep
  <1> QED BY <1>1, <1>2, <1>3, <1>4, <1>5 DEF Next

\* With one walker at a time, the tables implement the address map of AddressMap: the
\* map_region and unmap_4kb_page calls of boot build the guest's layout, and an operation
\* of Stage2Walker changes the page it names and no other.
THEOREM MapTheorem == OneWalker => (Spec => ImplementsAddressMap)
  <1>1. CASE OneWalker
    <2>1. TreeInv /\ TreeInv' /\ UnderWay /\ [Next]_vars => [Map!Next]_<<guest, Meaning>>
      BY <1>1, StepMap DEF MapStep
    <2>2. Spec => []UnderWay BY <1>1, UnderTheorem
    <2>3. Spec => Map!Spec BY <2>1, <2>2, InitMap, TreeTheorem, PTL DEF Spec, Map!Spec
    <2> QED BY <2>3 DEF ImplementsAddressMap
  <1> QED BY <1>1
=============================================================================
