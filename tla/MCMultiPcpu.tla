---------------------------- MODULE MCMultiPcpu ----------------------------
EXTENDS MultiPcpu, SequencesExt

\* The operations of the guests.
On(t) == [dev |-> "cpu_on", target |-> t]
Off(p) == [dev |-> "cpu_off", vcpu |-> p]
SgiOf(i, S) == [dev |-> "sgi", irm |-> FALSE, list |-> S, intid |-> i]
Sgi(S) == SgiOf(1, S)
SgiAll == [dev |-> "sgi", irm |-> TRUE, list |-> {}, intid |-> 1]
Uart(r, v) == [dev |-> "uart", reg |-> r, val |-> v]
GicdBits(r, S) == [dev |-> "gicd", reg |-> r, size |-> 4, bits |-> S]
Route(i, p) == [dev |-> "gicd", reg |-> "IROUTER", size |-> 8, intid |-> i, val |-> [lo |-> p, hi |-> 0]]
Half(i, h, v) == [dev |-> "gicd", reg |-> "IROUTER", size |-> 4, intid |-> i, half |-> h, val |-> v]
Gicr(r, p, S) == [dev |-> "gicr", reg |-> r, vcpu |-> p, bits |-> S]
Notify == [dev |-> "blk", intid |-> 48]

Load(S, n) == [o \in S |-> n]

\* What the guests of the instance do: boot and IPIs, hotplug, console input on one CPU
\* and with its interrupt routed to another, disk completions for another CPU, three
\* CPUs at the lock, and interrupt controller and console set-up.
MCLoads ==
  { Load({On(1), On(2), SgiAll}, 1),
    Load({On(1), Off(1)}, 2) @@ Load({Sgi({0, 1}), SgiAll}, 1),
    Load({Byte}, 3) @@ Load({Uart("read", 0)}, 2),
    Load({On(1), Half(33, "low", 1)}, 1) @@ Load({Byte}, 2),
    Load({On(2), Notify, Route(48, 2)}, 1),
    Load({On(1), On(2)}, 1) @@ Load({Uart("write", 0)}, 3),
    Load({GicdBits("ICENABLER", {33}), GicdBits("ISENABLER", {33}), Half(48, "high", 1),
          Uart("imsc", {"RX", "TX"}), Uart("icr", {"TX"}), Byte}, 1),
    Load({Gicr("ICENABLER0", 0, {27}), On(9), Uart("write", 0), Byte, Off(0)}, 1) }

\* push_all is what the loop over push_rx computes.
ASSUME PushAllIsLoop ==
  \A old, new \in SeqOf(0 .. 1, RxBufSize), r \in SUBSET Ints :
    LET u == [rx |-> old, ris |-> r, imsc |-> {}]
    IN  Len(old) < RxBufSize => push_all(u, new) = FoldLeft(push_rx, u, new)

\* Two SGIs for one vCPU, one of them while the other is in its only List Register.
MCFullLoads == { Load({On(1), SgiOf(1, {1}), SgiOf(2, {1})}, 1) }
=============================================================================
