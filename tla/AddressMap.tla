----------------------------- MODULE AddressMap -----------------------------
(* What a guest's Stage-2 tables stand for: a map from guest pages to what *)
(* is behind them.  It starts as the layout of the guest, and an operation *)
(* changes one page of it or nothing.                                      *)

CONSTANTS Guests, Pages, Values, Layout(_)

VARIABLES guest, map

Init == guest \in Guests /\ map = Layout(guest)
Change(p) ==
  /\ map' = [map EXCEPT ![p] = map'[p]]
  /\ map'[p] \in Values
  /\ UNCHANGED guest
Next == \E p \in Pages : Change(p)
Spec == Init /\ [][Next]_<<guest, map>>
=============================================================================
