------------------------------ MODULE MCVmMap ------------------------------
(* Address maps on small instances: 16 pages of 2 bytes, the kernel's from *)
(* address 16 on, its image in the page of 28 and 29.                      *)
EXTENDS VmMap, TLC

RO == {"R"}
RW == {"R", "W"}
TwoProts == {RO, RW}
OneProt == {RW}
NoFlags == {}
=============================================================================
