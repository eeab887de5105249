-------------------------- MODULE MCFfaShareSteps --------------------------
(***************************************************************************)
(* Two vCPUs of a VM with two pages of RAM; a third page is not mapped.    *)
(***************************************************************************)
EXTENDS FfaShareSteps

R(b, c) == [base |-> b, count |-> c]

\* Either page; both, the second first; a page past the RAM; three ranges where two are kept.
MCDescriptors ==
  { <<R(0, 1)>>, <<R(1, 1)>>, <<R(1, 1), R(0, 1)>>, <<R(1, 2)>>,
    <<R(0, 0), R(0, 1), R(1, 1)>> }
=============================================================================
