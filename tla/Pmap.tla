-------------------------------- MODULE Pmap --------------------------------
(***************************************************************************)
(* The page tables of hal/x86_64/pmap.c.  A table is a physical frame that *)
(* holds entries; the tree of an address space is reached from the frame   *)
(* of its PML4, and the upper half of every PML4 is meant to be the        *)
(* kernel's.  Frames are followed as the code follows them, through the    *)
(* memory, so a frame that is freed or linked twice is seen.               *)
(*                                                                         *)
(* Virtual addresses are page numbers here.  Frame 0 is PMM_NULL; an entry *)
(* is present when its frame is not 0.  The large pages that the boot      *)
(* loader may have left in the kernel's tables are not modelled: the range *)
(* they cover is not given to these functions.  A pmap_t lives in a frame  *)
(* of its own, which pmap_create() addresses by its physical address, as   *)
(* the identity mapping that pmap.c:8-11 relies on allows.                 *)
(***************************************************************************)
EXTENDS Integers, FiniteSets

CONSTANTS
  LEVELS,       \* levels of tables, 4 on x86_64; level 1 is the PT
  FANOUT,       \* entries of a table, 512
  NFrames,      \* frames of physical memory
  Pmaps,        \* the pmap_t that pmap_create() may return
  KernelPmap,   \* pmap_kernel
  Flags,        \* the flags callers ask for, sets of "W" and "NX"
  MaxRefs,      \* bound: ref_count is not taken beyond it
  MapRange,     \* the virtual pages callers map
  LastRelease   \* may callers drop the last reference to a pmap?

VARIABLES
  mem,      \* the entries in every frame
  free,     \* the frames pmm_alloc_page() may return
  pmaps     \* pml4_phys, ref_count and the frame of every pmap_t; 0 when unused

pmapVars == <<mem, free, pmaps>>

Frames   == 1 .. NFrames
VPages   == 0 .. FANOUT^LEVELS - 1
Indices  == 0 .. FANOUT - 1
AllPmaps == Pmaps \cup {KernelPmap}

Absent   == [frame |-> 0, flags |-> {}]
Zeroed   == [i \in Indices |-> Absent]
TableFlags == {"W", "U"}

\* The virtual page of the kernel image that the boot loader mapped.
KernelPage == FANOUT^LEVELS - 2

KernelHalf == FANOUT \div 2 .. FANOUT - 1

Live == {m \in AllPmaps : pmaps[m].root # 0}

\* PML4_IDX for level LEVELS down to PT_IDX for level 1.
Idx(l, va) == (va \div FANOUT^(l-1)) % FANOUT

InKernelHalf(va) == Idx(LEVELS, va) \in KernelHalf

\* kernel_map lies in the upper half, the map of a task in the lower one.
Within(m, va) == InKernelHalf(va) <=> m = KernelPmap

\* The powers of FANOUT are spelt out for the provers, which do not know ^.
ASSUME PmapAssumption ==
  /\ LEVELS \in Nat \ {0, 1}
  /\ FANOUT \in Nat \ {0} /\ FANOUT % 2 = 0
  /\ FANOUT^0 = 1 /\ \A l \in 1..LEVELS : FANOUT^l = FANOUT^(l-1) * FANOUT
  /\ Flags \subseteq SUBSET {"W", "NX"}
  /\ NFrames \in Nat /\ NFrames > LEVELS + 1
  /\ KernelPmap \notin Pmaps
  /\ MaxRefs \in Nat \ {0}
  /\ MapRange \subseteq VPages \ {KernelPage}
  /\ LastRelease \in BOOLEAN

-----------------------------------------------------------------------------
(* The functions of the code take and return the part s of the machine     *)
(* they change: s.mem, s.free, and in s.got the frame they came up with,   *)
(* 0 for failure.                                                          *)

Machine == [mem |-> mem, free |-> free, got |-> 0]

\* pmm_alloc_page() returns the lowest free page; whoever asks for it,
\* pmap_alloc_table() or vm_map.c, zeroes it.
pmap_alloc_table(s) ==
  IF s.free = {}
    THEN [s EXCEPT !.got = 0]
    ELSE LET f == CHOOSE f \in s.free : \A g \in s.free : f <= g
         IN  [mem |-> [s.mem EXCEPT ![f] = Zeroed], free |-> s.free \ {f}, got |-> f]

\* From the table s.got of level l to the one below it on the way to va,
\* which is allocated if it is missing.
WalkDown(s, l, va) ==
  LET e == s.mem[s.got][Idx(l, va)]
      a == pmap_alloc_table(s)
  IN  IF e.frame # 0 THEN [s EXCEPT !.got = e.frame]
      ELSE IF a.got = 0 THEN a
      ELSE [a EXCEPT !.mem[s.got][Idx(l, va)] = [frame |-> a.got, flags |-> TableFlags]]

\* pmap_walk() with create = 1: the PT for va, or 0 when memory ran out; the
\* tables it did allocate by then stay.
pmap_walk_create(s, root, va) ==
  LET at[l \in 1..LEVELS] ==
        IF l = LEVELS THEN [s EXCEPT !.got = root]
        ELSE IF at[l+1].got = 0 THEN at[l+1]
        ELSE WalkDown(at[l+1], l+1, va)
  IN  at[1]

\* pmap_walk() with create = 0: the PT for va, or 0.
pmap_walk(memory, root, va) ==
  LET at[l \in 1..LEVELS] ==
        IF l = LEVELS THEN root
        ELSE IF at[l+1] = 0 THEN 0
        ELSE memory[at[l+1]][Idx(l+1, va)].frame
  IN  at[1]

\* The PTE for va, as pmap_query() reads it.
pmap_query(memory, root, va) ==
  LET pt == pmap_walk(memory, root, va)
  IN  IF pt = 0 THEN Absent ELSE memory[pt][Idx(1, va)]

\* pmap_map(); fails, with got = 0, when a table is missing and no page left.
pmap_map(s, root, va, frame, flags) ==
  LET w == pmap_walk_create(s, root, va)
  IN  IF w.got = 0 THEN w
      ELSE [w EXCEPT !.mem[w.got][Idx(1, va)] = [frame |-> frame, flags |-> flags]]

\* Mutant: an entry that is cleared takes its table with it.
SetPteTable(memory, root, va, pte) ==
  [memory EXCEPT ![pmap_walk(memory, root, va)] =
     IF pte = Absent THEN Zeroed ELSE [@ EXCEPT ![Idx(1, va)] = pte]]

\* The memory after pmap_unmap(), or pmap_protect(), set the PTE of va.
SetPte(memory, root, va, pte) ==
  [memory EXCEPT ![pmap_walk(memory, root, va)][Idx(1, va)] = pte]

\* Every table reached from root, the tables of the kernel's half included:
\* what pmap_free_tables() frees.
pmap_free_tables(memory, root) ==
  LET reach[l \in 1..LEVELS] ==
        IF l = LEVELS THEN {root}
        ELSE {memory[f][i].frame : f \in reach[l+1], i \in Indices} \ {0}
  IN  UNION {reach[l] : l \in 1..LEVELS}

-----------------------------------------------------------------------------
(* The boot loader's tables: one chain down to the page of the kernel, in  *)
(* frames that pmm_init() never counted as usable.                         *)
BootFrames == 1 .. LEVELS + 1

PmapInit ==
  /\ mem = [f \in Frames |->
              IF f <= LEVELS
                THEN [Zeroed EXCEPT ![Idx(LEVELS - f + 1, KernelPage)] =
                                      [frame |-> f + 1, flags |-> TableFlags]]
                ELSE Zeroed]
  /\ free = Frames \ BootFrames
  /\ pmaps = [m \in AllPmaps |-> IF m = KernelPmap THEN [root |-> 1, refs |-> 1, frame |-> 0]
                                 ELSE [root |-> 0, refs |-> 0, frame |-> 0]]

\* Mutant: the kernel's half is not copied.
NewSpaceBare(s) ==
  LET a == pmap_alloc_table(s)
      d == pmap_alloc_table(a)
  IN  [s |-> d, root |-> IF d.got = 0 THEN 0 ELSE a.got, frame |-> d.got]

\* pmap_create() on machine s: a PML4 with the kernel's half, and the page of
\* the pmap_t.  Without two free frames it keeps none and returns NULL.
NewSpace(s) ==
  LET a    == pmap_alloc_table(s)
      d    == pmap_alloc_table(a)
      half == [i \in Indices |-> IF i \in KernelHalf THEN s.mem[pmaps[KernelPmap].root][i]
                                                     ELSE Absent]
  IN  IF a.got = 0 \/ d.got = 0
        THEN [s |-> s, root |-> 0, frame |-> 0]
        ELSE [s |-> [d EXCEPT !.mem[a.got] = half], root |-> a.got, frame |-> d.got]

pmap_create(m) ==
  LET n == NewSpace(Machine)
  IN  /\ m \in Pmaps \ Live
      /\ n.root # 0
      /\ mem' = n.s.mem /\ free' = n.s.free
      /\ pmaps' = [pmaps EXCEPT ![m] = [root |-> n.root, refs |-> 1, frame |-> n.frame]]

pmap_reference(m) ==
  /\ m \in Live /\ pmaps[m].refs < MaxRefs
  /\ pmaps' = [pmaps EXCEPT ![m].refs = @ + 1]
  /\ UNCHANGED <<mem, free>>

\* pmap_destroy(); the last reference frees the tables.  The frame of the
\* pmap_t itself is not freed: VIRT_TO_PHYS() of what is a physical address
\* already names a page beyond PMM_MAX_PAGES, which pmm_free_page() ignores.
pmap_destroy(m) ==
  /\ m \in Live \ {KernelPmap}
  /\ IF pmaps[m].refs > 1
       THEN /\ pmaps' = [pmaps EXCEPT ![m].refs = @ - 1]
            /\ UNCHANGED <<mem, free>>
       ELSE /\ LastRelease
            /\ pmaps' = [pmaps EXCEPT ![m] = [root |-> 0, refs |-> 0, frame |-> 0]]
            /\ free' = free \cup pmap_free_tables(mem, pmaps[m].root)
            /\ UNCHANGED mem

\* A caller that maps a page of its own at va, as vm_fault() does: the page
\* is given back when pmap_map() fails.
MapPage(m, va, flags) ==
  LET a == pmap_alloc_table(Machine)
      s == pmap_map(a, pmaps[m].root, va, a.got, flags)
  IN  /\ m \in Live
      /\ Within(m, va)
      /\ pmap_query(mem, pmaps[m].root, va) = Absent
      /\ a.got # 0
      /\ mem' = s.mem
      /\ free' = IF s.got = 0 THEN s.free \cup {a.got} ELSE s.free
      /\ UNCHANGED pmaps

\* Mutant: the page is freed and its mapping stays.
UnmapPageStale(m, va) ==
  LET pte == pmap_query(mem, pmaps[m].root, va)
  IN  /\ m \in Live /\ Within(m, va)
      /\ pte # Absent
      /\ free' = free \cup {pte.frame}
      /\ UNCHANGED <<mem, pmaps>>

\* A caller that unmaps va and frees the page, as vm_map_remove() does.
UnmapPage(m, va) ==
  LET pte == pmap_query(mem, pmaps[m].root, va)
  IN  /\ m \in Live /\ Within(m, va)
      /\ pte # Absent
      /\ mem' = SetPte(mem, pmaps[m].root, va, Absent)
      /\ free' = free \cup {pte.frame}
      /\ UNCHANGED pmaps

pmap_protect(m, va, flags) ==
  LET pte == pmap_query(mem, pmaps[m].root, va)
  IN  /\ m \in Live /\ Within(m, va)
      /\ pte # Absent
      /\ mem' = SetPte(mem, pmaps[m].root, va, [pte EXCEPT !.flags = flags])
      /\ UNCHANGED <<free, pmaps>>

PmapNext ==
  \E m \in AllPmaps :
    \/ pmap_create(m)
    \/ pmap_reference(m)
    \/ pmap_destroy(m)
    \/ \E va \in MapRange :
         \/ UnmapPage(m, va)
         \/ \E flags \in Flags : MapPage(m, va, flags) \/ pmap_protect(m, va, flags)

PmapSpec == PmapInit /\ [][PmapNext]_pmapVars

-----------------------------------------------------------------------------
(* Properties                                                              *)

Pte == [frame : Frames \cup {0}, flags : SUBSET {"W", "NX", "U"}]

(* Every entry of every table names a frame of memory, or none.            *)
PmapTypeOK ==
  /\ mem \in [Frames -> [Indices -> Pte]]
  /\ free \subseteq Frames
  /\ pmaps \in [AllPmaps -> [root : Frames \cup {0}, refs : 0..MaxRefs, frame : Frames \cup {0}]]

Translate(memory, m, va) == pmap_query(memory, pmaps[m].root, va)

(* No frame is lost and none is used twice: each is free, or is linked by  *)
(* exactly one entry of a live table, or is the PML4 or the pmap_t of one  *)
(* address space; only the entries of the kernel's half are repeated, in   *)
(* the PML4 of each address space (pmap.c:53-128, 144-180).                *)
FramesAccounted ==
  LET tables  == UNION {pmap_free_tables(mem, pmaps[m].root) : m \in Live}
      copies  == {pmaps[m].root : m \in Live \ {KernelPmap}} \X KernelHalf
      links   == {l \in (tables \X Indices) \ copies : mem[l[1]][l[2]].frame # 0}
      linked  == {mem[l[1]][l[2]].frame : l \in links}
      own     == ({pmaps[m].root : m \in Live} \cup {pmaps[m].frame : m \in Live}) \ {0}
  IN  /\ Cardinality(linked) = Cardinality(links)
      /\ Cardinality(own) = 2 * Cardinality(Live) - 1
      /\ linked \cap own = {}
      /\ (linked \cup own) \cap free = {}
      /\ linked \cup own \cup free = Frames

(* "The boot-time mappings (identity 0-1 GB + higher-half) are kept        *)
(* intact" (pmap.c:9-10): no table that the kernel's own PML4 leads to is  *)
(* free, whichever address space is destroyed (pmap.c:105-128, 171-180).   *)
BootTablesKept == pmap_free_tables(mem, pmaps[KernelPmap].root) \cap free = {}

(* "Kernel memory is visible from any address space" (pmap.c:139-142):     *)
(* what the kernel maps in its half is mapped in every address space.      *)
KernelVisible ==
  \A m \in Live, va \in VPages :
    InKernelHalf(va) => Translate(mem, m, va) = Translate(mem, KernelPmap, va)

Slot(m, va) == mem[pmaps[m].root][Idx(LEVELS, va)]

\* The kernel has filled the PML4 slot of va, address space m has not got it.
Late(m, va) ==
  Slot(m, va) = Absent /\ Slot(KernelPmap, va) # Absent

(* What pmap_create() copies is enough for what the kernel maps below it   *)
(* later on: an address space translates every address of the kernel's     *)
(* half as the kernel does at the same moment, but for those of a PML4     *)
(* slot that the kernel began to use after the space was made              *)
(* (pmap.c:67-77, 149-154, 192-229).                                       *)
KernelSharedSinceCopy ==
  [][\A m \in Live', va \in VPages : InKernelHalf(va) =>
       /\ Late(m, va)' => m \in Live /\ (Late(m, va) \/ Slot(KernelPmap, va) = Absent)
       /\ ~ Late(m, va)' => Translate(mem, m, va)' = Translate(mem, KernelPmap, va)']_pmapVars

(* pmap_map, pmap_unmap and pmap_protect touch the one address they are    *)
(* given: no step changes the translation of two addresses, nor that of an *)
(* address of the lower half in two address spaces (pmap.c:67-99,          *)
(* 192-229).                                                               *)
OneAddressChanges ==
  [][LET changed == {x \in Live \X VPages :
                       /\ pmaps'[x[1]].root = pmaps[x[1]].root
                       /\ Translate(mem', x[1], x[2]) # Translate(mem, x[1], x[2])}
     IN  \A x, y \in changed : x[2] = y[2] /\ (x[1] = y[1] \/ InKernelHalf(x[2]))]_pmapVars
=============================================================================
