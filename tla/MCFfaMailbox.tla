--------------------------- MODULE MCFfaMailbox ---------------------------
(* Two VMs, the second with two vCPUs, on one pCPU with an SPMC.           *)
EXTENDS FfaMailbox

MCVMs == {1, 2}
MCCPUs == {11, 12, 13}
MCVmOf == [c \in MCCPUs |-> IF c = 11 THEN 1 ELSE 2]
MCSpmc == {"ok", "error", "tooBig", "notRegistered"}
=============================================================================
