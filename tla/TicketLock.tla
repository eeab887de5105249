----------------------------- MODULE TicketLock -----------------------------
(***************************************************************************)
(* SpinLock of sync.rs: a ticket is drawn with fetch_add, the lock is had  *)
(* when now_serving reaches it, and dropping the guard stores ticket + 1.  *)
(* Every step of the three is one atomic access.                           *)
(***************************************************************************)
EXTENDS Integers, FiniteSets

CONSTANTS
  Cpus,       \* the physical CPUs
  TicketMod,  \* tickets are u32: 2^32
  Checked     \* overflow checks are compiled in: ticket + 1 panics, fetch_add wraps anyway

ASSUME TicketAssumption ==
  /\ IsFiniteSet(Cpus)
  /\ TicketMod \in Nat \ {0}
  /\ Cardinality(Cpus) < TicketMod
  /\ Checked \in BOOLEAN

VARIABLES
  next_ticket,
  now_serving,
  ticket,  \* ticket[p]: the last ticket that p has drawn
  lk       \* lk[p]: "out", "wait", "held", or "panic" in drop with the lock held

lockvars == <<next_ticket, now_serving, ticket, lk>>

Succ(n) == IF n = TicketMod - 1 THEN 0 ELSE n + 1

LockInit ==
  /\ next_ticket = 0 /\ now_serving = 0
  /\ ticket = [p \in Cpus |-> 0]
  /\ lk = [p \in Cpus |-> "out"]

lock(p) ==
  /\ lk[p] = "out"
  /\ ticket' = [ticket EXCEPT ![p] = next_ticket]
  /\ next_ticket' = Succ(next_ticket)
  /\ lk' = [lk EXCEPT ![p] = "wait"]
  /\ UNCHANGED now_serving

\* The loop ends; a mutant compares with <= instead of !=.
acquire_mutant(p) ==
  /\ lk[p] = "wait" /\ now_serving <= ticket[p]
  /\ lk' = [lk EXCEPT ![p] = "held"]
  /\ UNCHANGED <<next_ticket, now_serving, ticket>>
acquire(p) ==
  /\ lk[p] = "wait" /\ now_serving = ticket[p]
  /\ lk' = [lk EXCEPT ![p] = "held"]
  /\ UNCHANGED <<next_ticket, now_serving, ticket>>

\* drop.  A mutant stores the ticket that was drawn last, and lets everyone else wait.
Overflows(p) == Checked /\ ticket[p] = TicketMod - 1
drop_mutant(p) ==
  /\ lk[p] = "held" /\ ~Overflows(p)
  /\ now_serving' = next_ticket
  /\ lk' = [lk EXCEPT ![p] = "out"]
  /\ UNCHANGED <<next_ticket, ticket>>
drop(p) ==
  /\ lk[p] = "held" /\ ~Overflows(p)
  /\ now_serving' = Succ(ticket[p])
  /\ lk' = [lk EXCEPT ![p] = "out"]
  /\ UNCHANGED <<next_ticket, ticket>>
panic(p) ==
  /\ lk[p] = "held" /\ Overflows(p)
  /\ lk' = [lk EXCEPT ![p] = "panic"]
  /\ UNCHANGED <<next_ticket, now_serving, ticket>>

LockNext == \E p \in Cpus : lock(p) \/ acquire(p) \/ drop(p) \/ panic(p)
LockSpec == LockInit /\ [][LockNext]_lockvars

-----------------------------------------------------------------------------
(* Properties.                                                             *)

LockTypeOK ==
  /\ next_ticket \in 0 .. TicketMod - 1
  /\ now_serving \in 0 .. TicketMod - 1
  /\ ticket \in [Cpus -> 0 .. TicketMod - 1]
  /\ lk \in [Cpus -> {"out", "wait", "held", "panic"}]

\* The guard gives exclusive access to the data, also when tickets wrap around and after
\* a panic in drop.
MutualExclusion ==
  \A p, q \in Cpus : p # q => ~(lk[p] \in {"held", "panic"} /\ lk[q] \in {"held", "panic"})

\* How far a ticket is from its turn, and the CPUs with a ticket that is not used up.
Dist(n) == IF n >= now_serving THEN n - now_serving ELSE n - now_serving + TicketMod
Busy == {p \in Cpus : lk[p] # "out"}

\* The inductive invariant: the tickets in use are the ones from now_serving up to
\* next_ticket, each is drawn once, and the lock is held with the one being served.
TicketsInOrder ==
  /\ LockTypeOK
  /\ Dist(next_ticket) = Cardinality(Busy)
  /\ \A p \in Busy : Dist(ticket[p]) < Cardinality(Busy)
  /\ \A i \in 1 .. Cardinality(Busy) : \E p \in Busy : Dist(ticket[p]) = i - 1
  /\ \A p, q \in Busy : p # q => ticket[p] # ticket[q]
  /\ \A p \in Cpus : lk[p] \in {"held", "panic"} => ticket[p] = now_serving

\* The lock serves the CPUs in the order in which they drew their tickets, one at a time.
Line == [i \in 1 .. Cardinality(Busy) |-> CHOOSE p \in Busy : Dist(ticket[p]) = i - 1]
Inside == {p \in Cpus : lk[p] \in {"held", "panic"}}
Fifo == INSTANCE FifoLock WITH Procs <- Cpus, line <- Line, in <- Inside
ImplementsFifoLock == Fifo!Spec
=============================================================================
