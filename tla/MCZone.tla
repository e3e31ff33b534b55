------------------------------- MODULE MCZone -------------------------------
(* Zones and the physical memory manager on pages of 8 bytes and pointers  *)
(* of 2.                                                                   *)
EXTENDS Zone

Region(base, length) == [base |-> base, length |-> length, usable |-> TRUE]
Hole(base, length) == [base |-> base, length |-> length, usable |-> FALSE]

\* Aligned and unaligned regions, a region below LowMemory, a region beyond
\* the tracked pages, and maps without a place for the bitmap.
MCMemMaps ==
  { << Region(0, 40) >>,
    << Region(0, 20), Hole(20, 10), Region(30, 28), Region(58, 40) >>,
    << Hole(0, 16), Region(18, 18), Region(40, 24) >>,
    << Region(0, 6), Hole(6, 80) >>,
    << Region(4, 10), Region(24, 120) >>,
    << Hole(0, 32), Region(32, 20) >>,
    << Hole(0, 16), Region(16, 8) >> }

MCKernelImages == { [start |-> 8, end |-> 8], [start |-> 24, end |-> 34] }
=============================================================================
