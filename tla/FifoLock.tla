------------------------------ MODULE FifoLock ------------------------------
(* What a spin lock with tickets promises: those who ask are served in the *)
(* order in which they asked, one at a time.                               *)
EXTENDS Sequences

CONSTANT Procs

VARIABLES
  line,  \* those who have asked, the first of them first
  in     \* who has the lock: a set with at most one member

Init == line = <<>> /\ in = {}

Ask(p) == p \notin {line[i] : i \in DOMAIN line} /\ line' = Append(line, p) /\ UNCHANGED in
Get == in = {} /\ line # <<>> /\ in' = {Head(line)} /\ UNCHANGED line
Release == in # {} /\ in' = {} /\ line' = Tail(line)

Next == (\E p \in Procs : Ask(p)) \/ Get \/ Release

Spec == Init /\ [][Next]_<<line, in>>
=============================================================================
