------------------------------- MODULE MCPmap -------------------------------
(* Page tables of three levels and four entries: a walk can run out of     *)
(* memory between two tables, and the kernel's half of a PML4 has a slot   *)
(* that the boot loader filled and one that is empty.                      *)
EXTENDS Pmap, TLC

PmapSymmetry == Permutations(Pmaps)

RW == {{"W", "NX"}, {"NX"}}

\* Of 64 pages, 0 and 4 are the lower half's, in different tables; 60 is in
\* the kernel's slot that boot filled, 32 in the other one.
SomePages == {0, 4, 32, 60}
=============================================================================
