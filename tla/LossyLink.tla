----------------------------- MODULE LossyLink -----------------------------
(***************************************************************************)
(* What the switch promises: between every two ports a lossy link of       *)
(* bounded capacity that neither duplicates nor reorders, and no port      *)
(* hears itself.  A port numbers its frames; chan[w] holds those on the    *)
(* way to w.                                                               *)
(***************************************************************************)
EXTENDS Integers, Sequences

CONSTANTS Ends, Limit  \* the ports, and how many frames may be on the way to one

VARIABLES
  chan,  \* chan[w]: the frames on the way to w, as [src, n]
  last   \* last[v]: number of the last frame v handed over

Init == chan = [w \in Ends |-> <<>>] /\ last = [v \in Ends |-> 0]

\* v hands over one or more frames, and each of the others gets some of them, in order.
Hand(v) ==
  /\ last'[v] > last[v] /\ \A w \in Ends \ {v} : last'[w] = last[w]
  /\ chan'[v] = chan[v]
  /\ \A w \in Ends \ {v} :
       LET old == Len(chan[w]) IN
       /\ old <= Len(chan'[w]) /\ Len(chan'[w]) <= Limit
       /\ \A i \in 1 .. old : chan'[w][i] = chan[w][i]
       /\ \A i \in old + 1 .. Len(chan'[w]) :
            /\ chan'[w][i].src = v
            /\ chan'[w][i].n \in last[v] + 1 .. last'[v]
            /\ i > old + 1 => chan'[w][i - 1].n < chan'[w][i].n

\* The oldest frame leaves the link: it is delivered, or there is no buffer for it.
Take(w) ==
  /\ chan[w] # <<>>
  /\ chan' = [chan EXCEPT ![w] = Tail(@)]
  /\ UNCHANGED last

Next == \E v \in Ends : Hand(v) \/ Take(v)

Spec == Init /\ [][Next]_<<chan, last>>
=============================================================================
