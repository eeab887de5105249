------------------------------- MODULE Virtio -------------------------------
(***************************************************************************)
(* Virtio devices of VMs that share one physical CPU: the MMIO transport   *)
(* (devices/virtio/mmio.rs), the network and block backends (net.rs,       *)
(* blk.rs), the switch between the network devices (VSwitch) and the loop  *)
(* run_multi_vm of vm.rs that drains the receive rings and runs the VMs.   *)
(*                                                                         *)
(* Guests are Linux drivers.  Every register write is a trap and one       *)
(* action; guest memory is written between traps; the guest may be left    *)
(* for the host after any step.  EL2 runs with interrupts masked.  What is *)
(* raised stays in spis until the guest takes it: the way through          *)
(* pending_spis and the List Registers is that of VmSmp.                   *)
(***************************************************************************)
EXTENDS Virtqueue, VSwitch
LOCAL INSTANCE SequencesExt

CONSTANTS
  Devices,   \* the devices attached, as <<vm, "net">> or <<vm, "blk">>
  Loads,     \* the devices that guests have a driver for, with a bound on what each sends
  QNum,      \* QNum[d][k]: the size the driver of d chooses for queue k
  QAddr,     \* QAddr[k]: the address of its rings, as [lo, hi]
  Programs,  \* Programs[d]: the sequences of register writes by which the driver sets d up
  HdrLen,    \* VIRTIO_NET_HDR_SIZE
  EthLen,    \* length of an Ethernet header, 14
  MaxFrame,  \* MAX_FRAME_SIZE
  Packets,   \* Packets[d]: packets its driver sends, as [descs, smac, dst]
  RxChains,  \* RxChains[d]: descriptor lengths of the buffers it receives into
  DiskSize,  \* sectors of a disk image
  Requests,  \* block requests: [type, sector, segs, val]
  Unbinding, \* bound: the devices whose driver may be removed
  MultiVcpu  \* the VMs with several vCPUs online

VARIABLES
  cur,      \* CURRENT_VM_ID
  at,       \* "pick" a VM, "drain" its ring, or run its "guest"
  blocked,  \* the VMs with all vCPUs blocked in WFI
  done,     \* the VMs that have finished
  load,     \* the load: load[d] packets, requests and removals for a device d with a driver
  t,        \* t[d]: the transport of d
  mem,      \* mem[d][k]: the rings and buffers of queue k
  drv,      \* drv[d]: the state of the driver
  sw,       \* the switch: its MAC table and the receive ring of each port
  disk,     \* disk[d]: the contents of the image
  spis,     \* spis[v]: the devices of v whose SPI is pending
  sent,     \* sent[v]: the number of the last packet or request of v
  fwd       \* fwd[v]: number of the last packet of v that reached the switch

host == <<cur, at, blocked, done, load>>
vars == <<cur, at, blocked, done, load, t, mem, drv, sw, disk, spis, sent, fwd>>

Vm(d) == d[1]
IsNet(d) == d[2] = "net"
NumQueues(d) == IF IsNet(d) THEN 2 ELSE 1
Queues == {0, 1}  \* MAX_QUEUES; RX = 0 and TX = 1 of a network device
Nothing == [none |-> TRUE]

-----------------------------------------------------------------------------
(* The transport.                                                          *)

\* VirtioMmioTransport::new
NewTransport ==
  [status |-> 0, istat |-> 0, sel |-> 0, hi |-> [p \in Parts |-> 0],
   q |-> [k \in Queues |-> NewQueue]]

\* reset: the stored high words stay.
reset(tr) == [NewTransport EXCEPT !.hi = tr.hi]

\* QUEUE_SEL; a mutant keeps the high words of the queue set up before.
QueueSel_mutant(tr, val) == [tr EXCEPT !.sel = val]
QueueSel(tr, val) == [tr EXCEPT !.sel = val, !.hi = [p \in Parts |-> 0]]

\* Registers of the selected queue; there is none if the selector is out of range.
OnQueue(d, tr, Op(_)) ==
  IF tr.sel < NumQueues(d) THEN [tr EXCEPT !.q[tr.sel] = Op(@)] ELSE tr
AddrLow(d, tr, p, val) == OnQueue(d, tr, LAMBDA q : [q EXCEPT !.addr[p] = [lo |-> val, hi |-> tr.hi[p]]])
AddrHigh(d, tr, p, val) ==
  OnQueue(d, [tr EXCEPT !.hi[p] = val], LAMBDA q : [q EXCEPT !.addr[p].hi = val])

\* A write to a register other than QUEUE_NOTIFY.
write(d, tr, w) ==
  CASE w.reg = "status"    -> IF w.val = 0 THEN reset(tr) ELSE [tr EXCEPT !.status = w.val]
    [] w.reg = "ack"       -> IF w.val = 1 THEN [tr EXCEPT !.istat = 0] ELSE tr
    [] w.reg = "sel"       -> QueueSel(tr, w.val)
    [] w.reg = "num"       -> OnQueue(d, tr, LAMBDA q : [q EXCEPT !.num = w.val])
    [] w.reg = "ready"     -> OnQueue(d, tr, LAMBDA q : [q EXCEPT !.ready = (w.val # 0)])
    [] w.reg = "low"       -> AddrLow(d, tr, w.part, w.val)
    [] w.reg = "high"      -> AddrHigh(d, tr, w.part, w.val)

\* signal_interrupt: the status bit, and inject_spi to the VM that CURRENT_VM_ID names.
\* A mutant forgets the bit.
signalled_mutant(tr) == tr
signalled(tr) == [tr EXCEPT !.istat = 1]
SpiOf(d) == [spis EXCEPT ![cur] = @ \cup {d[2]}]

\* The chains on the available ring, in the order get_avail_desc returns them.
Waiting(q, m) ==
  IF ~has_avail(q, m) THEN <<>>
  ELSE [i \in 1 .. (m.avail_idx - q.last + IdxMod(q.num)) % IdxMod(q.num) |-> i]

-----------------------------------------------------------------------------
(* The network backend.                                                    *)

\* process_tx: how much of the frame is copied.  The header may be split over descriptors;
\* a part that does not fit into the frame buffer is left out.
HeaderBytes_mutant(total, len) == IF total = 0 THEN len ELSE 0
HeaderBytes(total, len) ==
  IF total >= HdrLen THEN 0 ELSE IF HdrLen - total < len THEN HdrLen - total ELSE len
FrameLen(descs) ==
  FoldLeft(LAMBDA acc, len :
             LET data == len - HeaderBytes(acc.total, len) IN
             [total |-> acc.total + len,
              frame |-> IF acc.frame + data <= MaxFrame THEN acc.frame + data ELSE acc.frame],
           [total |-> 0, frame |-> 0], descs).frame

\* One chain of the transmit queue: forwarded if it holds an Ethernet header, and used.
Sent(s, src) ==
  LET descs == get_avail_desc(s.q, s.m)
      frame == [s.m.buf[head(s.q, s.m)] EXCEPT !.len = FrameLen(descs)]
  IN  [q |-> Taken(s.q),
       m |-> put_used(s.q, s.m, [id |-> head(s.q, s.m), data |-> Nothing]),
       sw |-> IF frame.len >= EthLen THEN forward(s.sw, src, frame) ELSE s.sw,
       fwd |-> frame.n]

process_tx(d) ==
  FoldLeft(LAMBDA s, i : Sent(s, Vm(d)),
           [q |-> t[d].q[1], m |-> mem[d][1], sw |-> sw, fwd |-> fwd[Vm(d)]],
           Waiting(t[d].q[1], mem[d][1]))

\* inject_rx: into the first available buffer, if it is large enough; one that is too small
\* goes back with length 0, and the guest is not interrupted.
Capacity(descs) == FoldLeft(LAMBDA sum, len : sum + len, 0, descs)
inject_rx(d, f) ==
  LET q == t[d].q[0]
      m == mem[d][0]
      descs == get_avail_desc(q, m)
      fits == Capacity(descs) >= HdrLen + f.len
      elem == [id |-> head(q, m), data |-> IF fits THEN f ELSE Nothing]
  IN
  IF ~has_avail(q, m) THEN UNCHANGED <<t, mem, spis>>
  ELSE IF descs = <<>> THEN t' = [t EXCEPT ![d].q[0] = Taken(q)] /\ UNCHANGED <<mem, spis>>
  ELSE /\ mem' = [mem EXCEPT ![d][0] = put_used(q, m, elem)]
       /\ LET tr == [t[d] EXCEPT !.q[0] = Taken(q)]
          IN  t' = [t EXCEPT ![d] = IF fits THEN signalled(tr) ELSE tr]
       /\ spis' = IF fits THEN SpiOf(d) ELSE spis

-----------------------------------------------------------------------------
(* The block backend.  A request is a header, data descriptors, whose      *)
(* lengths are in sectors, and a descriptor for the status byte.           *)

\* The data descriptors are those between the first and the last of the chain.
DataDescs(descs) == IF Len(descs) < 3 THEN <<>> ELSE SubSeq(descs, 2, Len(descs) - 1)

\* The copy loop stops at the descriptor that goes past the image; a mutant refuses the
\* last sector.
PastEnd_mutant(off, len) == off + len >= DiskSize
PastEnd(off, len) == off + len > DiskSize
Transfer(descs, sector) ==
  FoldLeft(LAMBDA acc, len :
             IF acc.status = "IOERR" \/ PastEnd(acc.off, len)
             THEN [acc EXCEPT !.status = "IOERR"]
             ELSE [acc EXCEPT !.off = @ + len],
           [off |-> sector, status |-> "OK"], DataDescs(descs))

\* process_request on one chain; the sectors sector .. off - 1 are copied.
Done(s, d) ==
  LET h == head(s.q, s.m)
      descs == get_avail_desc(s.q, s.m)
      req == s.m.buf[h]
      run == Transfer(descs, req.sector)
      copied == req.sector .. run.off - 1
      status == CASE req.type \in {"in", "out"} -> run.status
                  [] req.type = "get_id" -> "OK"
                  [] OTHER -> "UNSUPP"
      elem == [id |-> h,
               data |-> [status |-> status, status_at |-> Len(descs),
                         read |-> IF req.type = "in" THEN [b \in copied |-> s.disk[b]] ELSE <<>>]]
  IN  IF Len(descs) < 2 THEN [s EXCEPT !.q = Taken(@)]
      ELSE [q |-> Taken(s.q),
            m |-> put_used(s.q, s.m, elem),
            disk |-> [b \in DOMAIN s.disk |->
                        IF req.type = "out" /\ b \in copied THEN req.val ELSE s.disk[b]]]

process_requests(d) ==
  FoldLeft(LAMBDA s, i : Done(s, d),
           [q |-> t[d].q[0], m |-> mem[d][0], disk |-> disk[d]],
           Waiting(t[d].q[0], mem[d][0]))
-----------------------------------------------------------------------------
(* QUEUE_NOTIFY.  Nothing happens unless the queue is ready; the guest is  *)
(* interrupted afterwards, also when there was nothing to do.              *)

Guest(d) == at = "guest" /\ cur = Vm(d)
Live(d) == drv[d].step = Len(drv[d].prog)

notify_rx(d) ==
  /\ t' = [t EXCEPT ![d] = signalled(@)]
  /\ UNCHANGED <<mem, sw, disk, fwd>>

notify_tx(d) ==
  LET r == process_tx(d) IN
  /\ t' = [t EXCEPT ![d] = [signalled(@) EXCEPT !.q[1] = r.q]]
  /\ mem' = [mem EXCEPT ![d][1] = r.m]
  /\ sw' = r.sw
  /\ fwd' = [fwd EXCEPT ![Vm(d)] = r.fwd]
  /\ UNCHANGED disk

notify_blk(d) ==
  LET r == process_requests(d) IN
  /\ t' = [t EXCEPT ![d] = [signalled(@) EXCEPT !.q[0] = r.q]]
  /\ mem' = [mem EXCEPT ![d][0] = r.m]
  /\ disk' = [disk EXCEPT ![d] = r.disk]
  /\ UNCHANGED <<sw, fwd>>

notify(d, k) ==
  /\ Guest(d) /\ Live(d)
  /\ k < NumQueues(d) /\ t[d].q[k].ready /\ mem[d][k].avail_idx # t[d].q[k].last
  /\ \/ ~IsNet(d) /\ notify_blk(d)
     \/ IsNet(d) /\ k = 0 /\ notify_rx(d)
     \/ IsNet(d) /\ k = 1 /\ notify_tx(d)
  /\ spis' = SpiOf(d)
  /\ UNCHANGED <<host, drv, sent>>

-----------------------------------------------------------------------------
(* Drivers.                                                                *)

NewRings(d, k) ==
  [avail_idx |-> 0, avail |-> [i \in 0 .. QNum[d][k] - 1 |-> 0],
   used_idx |-> 0, used |-> [i \in 0 .. QNum[d][k] - 1 |-> Nothing],
   chain |-> [i \in 0 .. QNum[d][k] - 1 |-> <<>>], buf |-> [i \in 0 .. QNum[d][k] - 1 |-> Nothing]]
NewDriver(prog) ==
  [prog |-> prog, step |-> 0, out |-> [k \in Queues |-> {}], seen |-> [k \in Queues |-> 0], irq |-> "none"]

\* Probing: the registers are written one by one.
setup(d) ==
  /\ Guest(d) /\ ~Live(d)
  /\ drv' = [drv EXCEPT ![d].step = @ + 1]
  /\ t' = [t EXCEPT ![d] = write(d, @, drv[d].prog[drv[d].step + 1])]
  /\ UNCHANGED <<host, mem, sw, disk, spis, sent, fwd>>

\* A chain is put on the available ring at a head that is not in use.
post(d, k, h, descs, buf) ==
  /\ Guest(d) /\ Live(d)
  /\ h \in 0 .. QNum[d][k] - 1 /\ h \notin drv[d].out[k]
  /\ \A g \in 0 .. h - 1 : g \in drv[d].out[k]
  /\ drv' = [drv EXCEPT ![d].out[k] = @ \cup {h}]
  /\ mem' = [mem EXCEPT ![d][k].avail[mem[d][k].avail_idx % QNum[d][k]] = h,
                        ![d][k].avail_idx = (@ + 1) % IdxMod(QNum[d][k]),
                        ![d][k].chain[h] = descs, ![d][k].buf[h] = buf]
  /\ UNCHANGED <<host, t, sw, disk, spis, fwd>>

post_rx(d, h, descs) == IsNet(d) /\ post(d, 0, h, descs, Nothing) /\ UNCHANGED sent

send(d, h, p) ==
  LET size == Capacity(p.descs) - HdrLen
      frame == [src |-> Vm(d), n |-> sent[Vm(d)] + 1, smac |-> p.smac, dst |-> p.dst, size |-> size, len |-> size]
  IN
  /\ IsNet(d) /\ sent[Vm(d)] < load[d]
  /\ post(d, 1, h, p.descs, frame)
  /\ sent' = [sent EXCEPT ![Vm(d)] = @ + 1]

request(d, h, req) ==
  /\ ~IsNet(d) /\ sent[Vm(d)] < load[d]
  /\ post(d, 0, h, <<0>> \o req.segs \o <<0>>, req)
  /\ sent' = [sent EXCEPT ![Vm(d)] = @ + 1]

\* The interrupt handler: it takes the SPI, reads and acknowledges INTERRUPT_STATUS, and
\* if the bit was set goes through the used rings.
take_irq(d) ==
  /\ Guest(d) /\ d[2] \in spis[cur] /\ drv[d].irq = "none"
  /\ spis' = [spis EXCEPT ![cur] = @ \ {d[2]}]
  /\ drv' = [drv EXCEPT ![d].irq = IF Live(d) THEN "ack" ELSE "none"]
  /\ UNCHANGED <<host, t, mem, sw, disk, sent, fwd>>

ack(d) ==
  /\ Guest(d) /\ drv[d].irq = "ack"
  /\ drv' = [drv EXCEPT ![d].irq = IF t[d].istat = 1 THEN "poll" ELSE "none"]
  /\ t' = [t EXCEPT ![d] = write(d, @, [reg |-> "ack", val |-> t[d].istat])]
  /\ UNCHANGED <<host, mem, sw, disk, spis, sent, fwd>>

Unseen(d, k) == mem[d][k].used_idx # drv[d].seen[k]
NextUsed(d, k) == mem[d][k].used[drv[d].seen[k] % QNum[d][k]]

\* What the driver has taken back is not looked at again, and forgotten here.
reap(d, k) ==
  LET elem == NextUsed(d, k) IN
  /\ Guest(d) /\ drv[d].irq = "poll" /\ Unseen(d, k)
  /\ mem' = [mem EXCEPT ![d][k].used[drv[d].seen[k] % QNum[d][k]] = Nothing,
                        ![d][k].chain[elem.id] = <<>>, ![d][k].buf[elem.id] = Nothing]
  /\ drv' = [drv EXCEPT ![d].seen[k] = (@ + 1) % IdxMod(QNum[d][k]), ![d].out[k] = @ \ {elem.id}]
  /\ UNCHANGED <<host, t, sw, disk, spis, sent, fwd>>

irq_done(d) ==
  /\ Guest(d) /\ drv[d].irq = "poll" /\ ~\E k \in Queues : Unseen(d, k)
  /\ drv' = [drv EXCEPT ![d].irq = "none"]
  /\ UNCHANGED <<host, t, mem, sw, disk, spis, sent, fwd>>

\* The driver is removed, and bound again later: the device is reset first, then the rings
\* are freed.  (The packet numbers skip one, to bound both by the load.)
remove(d, prog) ==
  /\ Guest(d) /\ Live(d) /\ drv[d].irq = "none" /\ d \in Unbinding
  /\ sent[Vm(d)] < load[d] /\ sent' = [sent EXCEPT ![Vm(d)] = @ + 1]
  /\ t' = [t EXCEPT ![d] = write(d, @, [reg |-> "status", val |-> 0])]
  /\ mem' = [mem EXCEPT ![d] = [k \in Queues |-> NewRings(d, k)]]
  /\ drv' = [drv EXCEPT ![d] = NewDriver(prog)]
  /\ UNCHANGED <<host, sw, disk, spis, fwd>>

-----------------------------------------------------------------------------
(* The host.                                                               *)

\* run_multi_vm turns to the next VM that has not finished.  If its vCPUs are all blocked
\* and nothing is in their pending masks, they are unblocked for the next round; a mutant
\* leaves them blocked.
NextVm == CHOOSE v \in Ports \ done :
            \A w \in Ports \ done : (v - cur - 1) % Cardinality(Ports) <= (w - cur - 1) % Cardinality(Ports)
pick_mutant ==
  /\ at = "pick" /\ done # Ports
  /\ cur' = NextVm
  /\ \/ NextVm \in blocked /\ at' = "pick" /\ UNCHANGED blocked
     \/ (NextVm \notin blocked \/ spis[NextVm] # {}) /\ at' = "drain" /\ blocked' = blocked \ {NextVm}
  /\ UNCHANGED <<done, load, t, mem, drv, sw, disk, spis, sent, fwd>>
pick ==
  /\ at = "pick" /\ done # Ports
  /\ cur' = NextVm /\ blocked' = blocked \ {NextVm}
  /\ \/ NextVm \in blocked /\ at' = "pick"
     \/ (NextVm \notin blocked \/ spis[NextVm] # {}) /\ at' = "drain"
  /\ UNCHANGED <<done, load, t, mem, drv, sw, disk, spis, sent, fwd>>

\* All VMs have finished, and run_multi_vm returns.
all_done == at = "pick" /\ done = Ports /\ UNCHANGED vars

\* drain_net_rx: a frame that is taken and cannot be delivered is lost.
drain ==
  /\ at = "drain" /\ ~is_empty(sw.ring[cur])
  /\ sw' = [sw EXCEPT !.ring[cur] = Took(@)]
  /\ IF <<cur, "net">> \in Devices
     THEN inject_rx(<<cur, "net">>, first(sw.ring[cur])) ELSE UNCHANGED <<t, mem, spis>>
  /\ UNCHANGED <<host, drv, disk, sent, fwd>>

enter ==
  /\ at = "drain" /\ is_empty(sw.ring[cur])
  /\ at' = "guest"
  /\ UNCHANGED <<cur, blocked, done, load, t, mem, drv, sw, disk, spis, sent, fwd>>

\* The guest is left: by a physical interrupt for the host or a hypercall, by the CNTHP
\* watchdog, or by WFI; the last two only if several vCPUs are online.  A guest waits when
\* it is idle, and WFI does not trap while an interrupt is pending.
Leave == at = "guest" /\ at' = "pick" /\ UNCHANGED <<cur, load, t, mem, drv, sw, disk, spis, sent, fwd>>
leave == Leave /\ UNCHANGED <<blocked, done>>
preempt == cur \in MultiVcpu /\ leave
wfi ==
  /\ cur \in MultiVcpu /\ spis[cur] = {} /\ \A d \in DOMAIN load : Vm(d) = cur => drv[d].irq = "none"
  /\ Leave /\ blocked' = blocked \cup {cur} /\ UNCHANGED done

\* The guest shuts down, with no driver bound: run_one_iteration returns true.
finish ==
  /\ \A d \in DOMAIN load : Vm(d) = cur => ~Live(d)
  /\ Leave /\ done' = done \cup {cur} /\ UNCHANGED blocked

-----------------------------------------------------------------------------

\* The loop of run_multi_vm has turned to VM 0; no driver is bound yet.
Init ==
  /\ cur = 0 /\ at = "drain" /\ blocked = {} /\ done = {} /\ load \in Loads
  /\ t = [d \in Devices |-> NewTransport]
  /\ mem = [d \in Devices |-> [k \in Queues |-> NewRings(d, k)]]
  /\ drv \in [Devices -> {NewDriver(p) : p \in UNION {Programs[d] : d \in Devices}}]
  /\ \A d \in Devices : drv[d].prog \in Programs[d]
  /\ sw = [table |-> [m \in Macs |-> Unknown], ring |-> [p \in Ports |-> EmptyRing]]
  /\ disk = [d \in Devices |-> [b \in 0 .. DiskSize - 1 |-> 0]]
  /\ spis = [v \in Ports |-> {}]
  /\ sent = [v \in Ports |-> 0] /\ fwd = [v \in Ports |-> 0]

DriverStep(d) ==
  \/ setup(d)
  \/ \E h \in 0 .. QNum[d][0] - 1, descs \in RxChains[d] : post_rx(d, h, descs)
  \/ \E h \in 0 .. QNum[d][1] - 1, p \in Packets[d] : send(d, h, p)
  \/ \E h \in 0 .. QNum[d][0] - 1, req \in Requests : request(d, h, req)
  \/ \E k \in Queues : notify(d, k)
  \/ take_irq(d)
  \/ ack(d)
  \/ \E k \in Queues : reap(d, k)
  \/ irq_done(d)
  \/ \E prog \in Programs[d] : remove(d, prog)

Next ==
  \/ pick \/ drain \/ enter \/ all_done
  \/ leave \/ preempt \/ wfi \/ finish
  \/ \E d \in DOMAIN load : DriverStep(d)

Spec == Init /\ [][Next]_vars

\* The loop runs, and the armed watchdog ends an entry that nothing else ends.
FairSpec == Spec /\ WF_vars(pick) /\ WF_vars(drain) /\ WF_vars(enter) /\ WF_vars(preempt)

-----------------------------------------------------------------------------
(* Properties.                                                             *)

\* Ring indices and interrupt bits stay in their types.
TypeOK ==
  /\ cur \in Ports /\ at \in {"pick", "drain", "guest"} /\ blocked \subseteq Ports /\ done \subseteq Ports
  /\ \A d \in Devices : t[d].istat \in {0, 1}
  /\ \A d \in Devices, k \in Queues :
       /\ t[d].q[k].last \in 0 .. IdxMod(QNum[d][k]) - 1
       /\ mem[d][k].used_idx \in 0 .. IdxMod(QNum[d][k]) - 1
       /\ drv[d].out[k] \subseteq 0 .. QNum[d][k] - 1
  /\ spis \in [Ports -> SUBSET {"net", "blk"}]

\* The ring positions from one index up to another.
Positions(num, i, j) ==
  {(i + n) % IdxMod(num) : n \in 0 .. ((j - i + IdxMod(num)) % IdxMod(num)) - 1}

\* A chain the driver has handed over is in exactly one place: still on the available ring,
\* or on the used ring and not seen yet.  The device loses no chain, returns none twice
\* and none the driver has taken back, over wrap-around, reset and a second probe.
HeadsAccounted ==
  /\ TypeOK
  /\ \A d \in Devices, k \in Queues :
       LET m == mem[d][k]
           avail == Positions(QNum[d][k], t[d].q[k].last, m.avail_idx)
           used == Positions(QNum[d][k], drv[d].seen[k], m.used_idx)
           heads == {m.avail[i % QNum[d][k]] : i \in avail}
           ids == {m.used[i % QNum[d][k]].id : i \in used}
       IN  Live(d) => /\ heads \cup ids = drv[d].out[k]
                      /\ Cardinality(avail) + Cardinality(used) = Cardinality(drv[d].out[k])

\* A ready queue has the addresses the driver meant, in whichever order the two words were
\* written: the high word of a queue set up before is not mixed in.
QueueAddresses ==
  \A d \in Devices, k \in Queues :
    t[d].q[k].ready => \A p \in Parts : t[d].q[k].addr[p] = QAddr[k]

\* The frames on their way to v: those that its driver has not taken yet, then its ring.
Received(d) ==
  SelectSeq([i \in 1 .. ((mem[d][0].used_idx - drv[d].seen[0] + IdxMod(QNum[d][0])) % IdxMod(QNum[d][0])) |->
               mem[d][0].used[(drv[d].seen[0] + i - 1) % QNum[d][0]].data], LAMBDA f : f # Nothing)
InFlight(v) == (IF <<v, "net">> \in Devices THEN Received(<<v, "net">>) ELSE <<>>) \o Stored(sw.ring[v])

\* A driver gets the frames of another VM whole, in the order in which they were sent and
\* none twice: process_tx drops the virtio header and nothing else, however the packet is
\* cut into descriptors, and neither ring turns frames round.
FramesIntact ==
  \A v \in Ports : LET fs == InFlight(v) IN
    /\ \A i \in DOMAIN fs : fs[i].len = fs[i].size /\ fs[i].src # v
    /\ \A i, j \in DOMAIN fs : i < j /\ fs[i].src = fs[j].src => fs[i].n < fs[j].n

\* A frame or a completed request on a used ring that the driver has not seen is announced:
\* the status bit is set and the SPI pending or about to be handled, or the driver is
\* going through the used rings.
UsedIsSignalled ==
  \A d \in Devices, k \in Queues :
    Live(d) /\ Unseen(d, k) /\ (\E i \in Positions(QNum[d][k], drv[d].seen[k], mem[d][k].used_idx) :
                                 mem[d][k].used[i % QNum[d][k]].data # Nothing)
    => \/ drv[d].irq = "poll"
       \/ t[d].istat = 1 /\ (drv[d].irq = "ack" \/ d[2] \in spis[Vm(d)])

Completed(d) == {mem[d][0].used[i % QNum[d][0]] : i \in Positions(QNum[d][0], drv[d].seen[0], mem[d][0].used_idx)}
InRange(req) == req.sector + Capacity(req.segs) <= DiskSize

\* What a request returns: an I/O error exactly if it goes past the image, and otherwise a
\* read returns every sector asked for, however it is cut into descriptors.
BlkResultRight ==
  \A d \in DOMAIN load : ~IsNet(d) /\ Live(d) =>
    \A elem \in Completed(d) :
      LET req == mem[d][0].buf[elem.id]
          asked == req.sector .. req.sector + Capacity(req.segs) - 1
      IN  CASE req.type \in {"in", "out"} /\ ~InRange(req) -> elem.data.status = "IOERR"
            [] req.type = "in" /\ InRange(req) -> elem.data.status = "OK" /\ DOMAIN elem.data.read = asked
            [] req.type = "out" /\ InRange(req) -> elem.data.status = "OK"
            [] req.type = "get_id" -> elem.data.status = "OK"
            [] OTHER -> elem.data.status = "UNSUPP"

\* blk.rs 152: "Last descriptor: status byte (device-writable, 1 byte)".
StatusAtEnd ==
  \A d \in DOMAIN load : ~IsNet(d) /\ Live(d) =>
    \A elem \in Completed(d) : elem.data.status_at = Len(mem[d][0].chain[elem.id])

\* The switch with its rings is the link of LossyLink.
Link == INSTANCE LossyLink
          WITH Ends <- Ports, Limit <- Slots - 1, last <- fwd,
               chan <- [p \in Ports |-> Stored(sw.ring[p])]
ImplementsLink == Link!Spec

\* Frames do not stay in a ring: the VM they are for gets its turn, unless it finishes.
RingServed == \A p \in Ports : ~is_empty(sw.ring[p]) ~> is_empty(sw.ring[p]) \/ p \in done

\* vm.rs 730: "Run multiple VMs time-sliced on a single pCPU (round-robin)".
TimeSliced == \A v \in Ports : []<>(cur = v \/ v \in done)
=============================================================================
