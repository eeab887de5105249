------------------------------ MODULE MCVirtio ------------------------------
(* Small instances of Virtio.                                              *)
EXTENDS Virtio, TLC

CONSTANTS m0, m1

W(reg, val) == [reg |-> reg, val |-> val]
WP(reg, part, val) == [reg |-> reg, part |-> part, val |-> val]

A == <<0, "net">>
B == <<1, "net">>
C == <<0, "blk">>

MCQNum == A :> (0 :> 1 @@ 1 :> 1) @@ B :> (0 :> 2 @@ 1 :> 1) @@ C :> (0 :> 2 @@ 1 :> 1)
MCQAddr == [k \in {0, 1} |-> [lo |-> 1, hi |-> 1 - k]]

\* Low word first, as Linux does; or high word first and left out where it is zero.
LowFirst(d, k) ==
  <<W("sel", k), W("num", MCQNum[d][k])>>
  \o <<WP("low", "desc", 1), WP("high", "desc", 1 - k)>>
  \o <<WP("low", "avail", 1), WP("high", "avail", 1 - k)>>
  \o <<WP("low", "used", 1), WP("high", "used", 1 - k)>> \o <<W("ready", 1)>>
HighFirst(d, k) ==
  <<W("sel", k), W("num", MCQNum[d][k])>>
  \o (IF k = 0 THEN <<WP("high", "desc", 1), WP("high", "avail", 1), WP("high", "used", 1)>> ELSE <<>>)
  \o <<WP("low", "desc", 1), WP("low", "avail", 1), WP("low", "used", 1), W("ready", 1)>>

OK == <<W("status", 1)>>  \* DRIVER_OK
MCPrograms == A :> {LowFirst(A, 0) \o LowFirst(A, 1) \o OK} @@ B :> {HighFirst(B, 0) \o HighFirst(B, 1) \o OK}
           @@ C :> {LowFirst(C, 0) \o OK, HighFirst(C, 0) \o OK}

MCDevices == {A, B, C}
MCLoads == {A :> 3 @@ B :> 0, A :> 1 @@ B :> 1, C :> 2}

P(descs, smac, dst) == [descs |-> descs, smac |-> smac, dst |-> dst]
MCPackets == A :> {P(<<1, 3>>, m0, m1)} @@ B :> {P(<<2, 2>>, m1, Broadcast)} @@ C :> {}
MCRxChains == A :> {} @@ B :> {<<4>>} @@ C :> {}
MCUnbinding == {B, C}
MCLongLoads == {C :> 1}

R(type, sector, segs, val) == [type |-> type, sector |-> sector, segs |-> segs, val |-> val]
MCRequests == {R("out", 0, <<1>>, 1), R("out", 1, <<1, 1>>, 2), R("in", 0, <<1, 1>>, 0), R("in", 2, <<1>>, 0),
               R("get_id", 0, <<1>>, 0), R("flush", 0, <<>>, 0)}
MCLongRequests == {R("in", 0, <<1, 1, 1>>, 0)}
=============================================================================
