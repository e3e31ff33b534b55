------------------------------- MODULE MCExec -------------------------------
(* Program loading on 36 pages of 2 bytes: most programs lie in the        *)
(* physical pages 1 to 6, the allocator's pages are those from 8 on, the   *)
(* boot loader's tables in 8 and 9, the kernel image in 10, and the        *)
(* identity mapping ends among them, at address 32.                        *)
EXTENDS Exec, TLC

Seg(vmaddr, vmsize, fileoff, filesize, prot) ==
  [cmd |-> "SEGMENT_64", vmaddr |-> vmaddr, vmsize |-> vmsize, fileoff |-> fileoff,
   filesize |-> filesize, initprot |-> prot]
Main(off) == [cmd |-> "MAIN", entryoff |-> off]
Unix == [cmd |-> "UNIXTHREAD"]
Image(cmds) ==
  [magic |-> "MH_MAGIC_64", filetype |-> "MH_EXECUTE", cputype |-> "X86_64", header |-> 1,
   size |-> 9, cmds |-> cmds]

RX == {"R", "X"}
RW == {"R", "W"}

\* Data, and then text of two pages that begins with the file and is longer
\* than its part of it.
App   == Image(<<Seg(8, 2, 4, 1, RW), Seg(4, 4, 0, 3, RX), Main(1)>>)
\* A command the loader skips, a segment without a file part, and an empty
\* one: it is the only one that begins with the file, and is passed over.
Small == Image(<<Unix, Seg(10, 2, 4, 2, RX), Seg(2, 0, 0, 0, RW), Seg(6, 2, 2, 0, RW), Main(0)>>)
\* Its data is beyond the identity mapping.
Far   == Image(<<Seg(4, 2, 0, 2, RX), Seg(32, 2, 2, 2, RW), Main(0)>>)
\* What the linker makes: nothing may be mapped at address 0.
PageZero == Image(<<Seg(0, 2, 0, 0, {}), Seg(4, 2, 0, 2, RX), Main(0)>>)
\* Its second segment is in the kernel's half.
High  == Image(<<Seg(4, 2, 0, 2, RW), Seg(38, 2, 2, 2, RW), Main(0)>>)
Other == [App EXCEPT !.cputype = "ARM64"]

\* At addresses of the page allocator's memory: the first page the kernel map
\* may be given; the kernel image up to that page, and a page that a load of
\* another program is given.
OnHeap  == Image(<<Seg(22, 2, 0, 2, RX), Main(0)>>)
OnOther == Image(<<Seg(20, 2, 0, 1, RX), Seg(26, 2, 2, 1, RW), Main(0)>>)

SomeImages == {App, Small, Far, PageZero, High, Other, OnHeap, OnOther}

LowImages     == {Image(<<Seg(4, 2, 0, 2, RX), Main(0)>>)}
TableImages   == {Image(<<Seg(16, 2, 0, 2, RX), Main(0)>>)}
ObliqueImages == {Image(<<Seg(5, 2, 0, 2, RX), Main(0)>>)}
OneProt == {RW}
Nothing == {}
=============================================================================
