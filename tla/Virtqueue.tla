----------------------------- MODULE Virtqueue -----------------------------
(***************************************************************************)
(* The split virtqueue of devices/virtio/queue.rs, as operators on two     *)
(* records: q, the queue state the transport keeps, and m, the rings and   *)
(* the descriptor table in guest memory.                                   *)
(*                                                                         *)
(* m.chain[h] is the sequence of descriptors that starts at index h: the   *)
(* links between descriptors are followed once, when the driver writes it. *)
(* Indices run freely and wrap at IdxMod(num).  The code has 2^16 there;   *)
(* they are only compared at a distance of at most num and reduced by num, *)
(* a power of two, so that twice num tells the same cases apart.           *)
(***************************************************************************)
EXTENDS Integers, Sequences

CONSTANT MaxDescs  \* descriptors of a DescChain, 4 in the code

IdxMod(num) == 2 * num

\* The three address registers of a queue, each written as two words.
Parts == {"desc", "avail", "used"}
Unset == [lo |-> 0, hi |-> 0]

\* Virtqueue::new, and the state reset returns to.
NewQueue ==
  [addr |-> [p \in Parts |-> Unset], num |-> 0, last |-> 0, ready |-> FALSE]

has_avail(q, m) == q.ready /\ q.addr["avail"] # Unset /\ m.avail_idx # q.last

\* get_avail_desc: the head is taken from the ring, and a chain is cut at MaxDescs
\* descriptors; a head outside the table gives no descriptor at all.
ring_idx(q) == q.last % q.num
head(q, m) == m.avail[ring_idx(q)]
get_avail_desc(q, m) ==
  IF head(q, m) >= q.num THEN <<>>
  ELSE LET all == m.chain[head(q, m)] IN SubSeq(all, 1, IF Len(all) < MaxDescs THEN Len(all) ELSE MaxDescs)

\* The queue after get_avail_desc.
Taken(q) == [q EXCEPT !.last = (@ + 1) % IdxMod(q.num)]

\* put_used: without a used ring nothing is written.  A mutant writes the element and
\* does not advance the index.
put_used_mutant(q, m, elem) ==
  IF q.addr["used"] = Unset THEN m
  ELSE [m EXCEPT !.used[m.used_idx % q.num] = elem]
put_used(q, m, elem) ==
  IF q.addr["used"] = Unset THEN m
  ELSE [m EXCEPT !.used[m.used_idx % q.num] = elem, !.used_idx = (@ + 1) % IdxMod(q.num)]
=============================================================================
