-------------------------------- MODULE Gic --------------------------------
(***************************************************************************)
(* The emulated interrupt controller (devices/gic): the distributor, whose *)
(* writes go to the physical distributor and to a shadow copy, and the     *)
(* redistributors, which are a shadow only.  A register bank with one bit  *)
(* per interrupt is the set of interrupts whose bit is one, and an access  *)
(* names the bank and the bits written.                                    *)
(***************************************************************************)
EXTENDS Integers, FiniteSets

CONSTANT Spis  \* INTIDs of the shared interrupts in use

\* The accesses of a guest to the distributor: IROUTER with 64 bits or in halves, priorities
\* with 8 bits too, all others with 32 bits.
CtlrBits == {"EnableGrp0", "EnableGrp1", "ARE"}
BankRegs ==
  {"IGROUPR", "ISENABLER", "ICENABLER", "ISPENDR", "ICPENDR", "ISACTIVER", "ICACTIVER", "ICFGR"}
GicdAccesses ==
  [dev : {"gicd"}, reg : {"IROUTER"}, size : {8}, intid : Spis, val : [lo : Nat, hi : Nat]]
  \cup [dev : {"gicd"}, reg : {"IROUTER"}, size : {4}, intid : Spis, half : {"low", "high"}, val : Nat]
  \cup [dev : {"gicd"}, reg : {"IPRIORITYR"}, size : {1, 4}, bits : SUBSET Spis, val : Nat]
  \cup [dev : {"gicd"}, reg : {"CTLR"}, size : {4}, bits : SUBSET CtlrBits]
  \cup [dev : {"gicd"}, reg : BankRegs, size : {4}, bits : SUBSET Spis]

\* A distributor.
Gicd ==
  [ctlr : SUBSET CtlrBits, group : SUBSET Spis, enabled : SUBSET Spis, pending : SUBSET Spis,
   active : SUBSET Spis, cfg : SUBSET Spis, prio : [Spis -> Nat],
   irouter : [Spis -> [lo : Nat, hi : Nat]]]

\* VirtualGicd::new; CTLR reads with ARE_NS set.
NewGicd ==
  [ctlr |-> {"ARE"}, group |-> {}, enabled |-> {}, pending |-> {}, active |-> {}, cfg |-> {},
   prio |-> [i \in Spis |-> 0], irouter |-> [i \in Spis |-> [lo |-> 0, hi |-> 0]]]

\* The banks that are stored as written.
Bank(g, a) ==
  CASE a.reg = "CTLR"      -> [g EXCEPT !.ctlr = a.bits \cup {"ARE"}]
    [] a.reg = "IGROUPR"   -> [g EXCEPT !.group = a.bits]
    [] a.reg = "ISENABLER" -> [g EXCEPT !.enabled = @ \cup a.bits]
    [] a.reg = "ICENABLER" -> [g EXCEPT !.enabled = @ \ a.bits]
    [] a.reg = "ISPENDR"   -> [g EXCEPT !.pending = @ \cup a.bits]
    [] a.reg = "ICPENDR"   -> [g EXCEPT !.pending = @ \ a.bits]
    [] a.reg = "ISACTIVER" -> [g EXCEPT !.active = @ \cup a.bits]
    [] a.reg = "ICACTIVER" -> [g EXCEPT !.active = @ \ a.bits]
    [] a.reg = "ICFGR"     -> [g EXCEPT !.cfg = a.bits]

\* IROUTER: a 64-bit write, or 32-bit writes of its halves.
write_irouter(g, a) ==
  CASE a.size = 8                    -> [g EXCEPT !.irouter[a.intid] = a.val]
    [] a.size = 4 /\ a.half = "low"  -> [g EXCEPT !.irouter[a.intid].lo = a.val]
    [] a.size = 4 /\ a.half = "high" -> [g EXCEPT !.irouter[a.intid].hi = a.val]

\* What a write does to the physical distributor.
phys_write(g, a) ==
  CASE a.reg = "IROUTER"    -> write_irouter(g, a)
    [] a.reg = "IPRIORITYR" -> [g EXCEPT !.prio = [i \in Spis |-> IF i \in a.bits THEN a.val ELSE @[i]]]
    [] a.reg = "TYPER"      -> g  \* read-only, not forwarded
    [] OTHER                -> Bank(g, a)

\* What it does to the shadow: registers other than IROUTER take 32-bit writes only.
shadow_write(g, a) ==
  CASE a.reg = "IROUTER"                   -> write_irouter(g, a)
    [] a.reg # "IROUTER" /\ a.size # 4     -> g
    [] a.reg = "TYPER" /\ a.size = 4       -> g
    [] a.reg = "IPRIORITYR" /\ a.size = 4  ->
         [g EXCEPT !.prio = [i \in Spis |-> IF i \in a.bits THEN a.val ELSE @[i]]]
    [] OTHER                               -> Bank(g, a)

\* route_spi, and the same from the physical register in inject_spi: Aff0.
route_spi(g, intid) == g.irouter[intid].lo

\* A redistributor: GicrState::new, and the writes to its two frames.
NewGicr ==
  [ctlr |-> {}, asleep |-> TRUE, group |-> {}, enabled |-> {}, pending |-> {}, active |-> {}, cfg |-> {}]
gicr_write(r, a) ==
  CASE a.reg = "CTLR"       -> [r EXCEPT !.ctlr = a.bits]
    [] a.reg = "WAKER"      -> [r EXCEPT !.asleep = "ProcessorSleep" \in a.bits]
    [] a.reg = "IGROUPR0"   -> [r EXCEPT !.group = a.bits]
    [] a.reg = "ISENABLER0" -> [r EXCEPT !.enabled = @ \cup a.bits]
    [] a.reg = "ICENABLER0" -> [r EXCEPT !.enabled = @ \ a.bits]
    [] a.reg = "ISPENDR0"   -> [r EXCEPT !.pending = @ \cup a.bits]
    [] a.reg = "ICPENDR0"   -> [r EXCEPT !.pending = @ \ a.bits]
    [] a.reg = "ISACTIVER0" -> [r EXCEPT !.active = @ \cup a.bits]
    [] a.reg = "ICACTIVER0" -> [r EXCEPT !.active = @ \ a.bits]
    [] a.reg = "ICFGR1"     -> [r EXCEPT !.cfg = a.bits]
    [] a.reg = "ICFGR0"     -> r  \* SGIs are always edge-triggered

\* decode_offset: an access beyond the last vCPU's frames changes nothing.
gicr_access(rs, a) == IF a.vcpu \in DOMAIN rs THEN [rs EXCEPT ![a.vcpu] = gicr_write(@, a)] ELSE rs
=============================================================================
