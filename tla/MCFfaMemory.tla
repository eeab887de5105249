---------------------------- MODULE MCFfaMemory ----------------------------
(***************************************************************************)
(* Two VMs with two pages and one page of RAM of their own, a page both    *)
(* have mapped, one SP and one unknown endpoint.  The common page stands   *)
(* for a GIC page and for RAM where the ranges of the VMs overlap: with    *)
(* the addresses of platform.rs the range of the second VM lies inside     *)
(* that of the first.  Its own page is what guest_loader.rs 177 intends.   *)
(***************************************************************************)
EXTENDS FfaMemory

MCVMs == {1, 2}
MCReceivers == {1, 2, 5}
MCBadReceivers == {9}
MCMaxPage == 3
MCInitialPages == [v \in MCVMs |-> IF v = 1 THEN {0, 1, 3} ELSE {2, 3}]

R(b, c) == [base |-> b, count |-> c]

\* Unparsable; empty; two pages; a page twice; three ranges where two are
\* kept; RAM and a GIC page; the RAM of the second VM.
MCDescriptors ==
  { <<>>, <<R(0, 0)>>, <<R(0, 2)>>, <<R(1, 1), R(0, 2)>>,
    <<R(0, 0), R(0, 1), R(1, 1)>>, <<R(1, 1), R(3, 1)>>, <<R(2, 1)>> }

\* Descriptors of single pages, which the records keep whole.
MCSinglePages == { <<R(0, 1)>>, <<R(1, 1)>> }

=============================================================================
