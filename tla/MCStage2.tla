------------------------------ MODULE MCStage2 ------------------------------
(* Tables of 3 entries: 27 pages in 9 blocks, of which 0 and 1 are the GIC *)
(* region, 2 is the UART, 3 .. 8 memory and 5 the heap.                    *)
EXTENDS Stage2

MCGicBlocks == {0, 1}
MCTrapPages == {0, 3, 4}
Vm(start, size) == [kind |-> "vm", start |-> start, size |-> size]

\* Around the heap, before, after, up to and from it, apart from it, with a size that is
\* no multiple of a block, and a partition that starts inside a block.
MCGuests == {Vm(9, 18), Vm(9, 6), Vm(9, 8), Vm(15, 12), Vm(18, 5), [kind |-> "sp", start |-> 19, size |-> 2]}

\* Two pages of a block and a page that some guests have in a block and some not at all.
MCOpPages == {18, 19, 9}
MCTouched == {18, 19, 9}
=============================================================================
