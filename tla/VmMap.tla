------------------------------- MODULE VmMap -------------------------------
(***************************************************************************)
(* The address maps of vm/vm_map.c with the page-fault handler vm_fault()  *)
(* of vm/vm_fault.c, on top of the page tables.  A map is the sequence of  *)
(* its entries from header.next on; addresses are byte addresses that wrap *)
(* around at AddressSpace, which stands for 2^64.                          *)
(*                                                                         *)
(* kernel_map covers the upper half.  The map of a task is the one that    *)
(* exec_load() creates with a new pmap and exec_unload() destroys; nothing *)
(* takes a second reference to a map.  Entries and maps come from zones,   *)
(* whose pages are counted apart from the frames here.                     *)
(***************************************************************************)
EXTENDS Pmap, Sequences

CONSTANTS
  PAGE_SIZE,     \* PMM_PAGE_SIZE, in bytes
  Starts,        \* the addresses callers pass, to vm_fault() too
  Sizes,         \* the sizes callers pass
  Prots,         \* the protections, sets of "R", "W" and "X"
  MaxEntries,    \* bound: entries a map is given
  WholeEntries   \* do callers remove ranges that cut no entry?

VARIABLES
  maps,          \* entries and nentries of every map; a map belongs to a pmap
  hung           \* a loop over the addresses of a range does not end

vmVars == <<pmapVars, maps, hung>>

AddressSpace == PAGE_SIZE * FANOUT^LEVELS
Half         == PAGE_SIZE * (FANOUT^LEVELS \div 2)

min_offset(m) == IF m = KernelPmap THEN Half ELSE PAGE_SIZE
max_offset(m) == IF m = KernelPmap THEN AddressSpace - 1 ELSE Half - 1

Page(a) == a \div PAGE_SIZE

ASSUME VmMapAssumption ==
  /\ PAGE_SIZE \in Nat \ {0} /\ AddressSpace \in Nat \ {0}
  /\ Starts \subseteq 0 .. AddressSpace - 1 /\ Sizes \subseteq 0 .. AddressSpace - 1
  /\ Prots \subseteq SUBSET {"R", "W", "X"}
  /\ MaxEntries \in Nat
  /\ WholeEntries \in BOOLEAN

-----------------------------------------------------------------------------
prot_to_pte(prot) ==
  (IF "W" \in prot THEN {"W"} ELSE {}) \cup (IF "X" \in prot THEN {} ELSE {"NX"})

(* for (a = from; a < to; a += PMM_PAGE_SIZE), in vm_address_t arithmetic  *)

\* Mutant: the loop ends one page early.
StepsShort(from, to) == IF from < to THEN (to - from - 1) \div PAGE_SIZE ELSE 0

Steps(from, to) == IF from < to THEN (to - from + PAGE_SIZE - 1) \div PAGE_SIZE ELSE 0

\* The address after the last one is not representable, and a < to again.
LoopWraps(from, to) == from + PAGE_SIZE * Steps(from, to) >= AddressSpace

PagesOf(from, to) == {Page(from + i * PAGE_SIZE) : i \in 0 .. Steps(from, to) - 1}

\* Mutant: the page is kept when it could not be mapped.
MapZeroPageLeaky(s, root, va, flags) ==
  LET a == pmap_alloc_table(s)
  IN  IF a.got = 0 THEN a ELSE pmap_map(a, root, va, a.got, flags)

\* One turn of the loops that map a fresh page at va; got is 0 on failure.
MapZeroPage(s, root, va, flags) ==
  LET a == pmap_alloc_table(s)
      b == pmap_map(a, root, va, a.got, flags)
  IN  IF a.got = 0 THEN a
      ELSE IF b.got = 0 THEN [b EXCEPT !.free = @ \cup {a.got}]
      ELSE b

\* The loop, up to its end or to the turn that failed; done counts the turns
\* that succeeded.
MapPages(s, root, from, to, flags) ==
  LET run[i \in 0 .. Steps(from, to)] ==
        IF i = 0 THEN [s |-> s, done |-> 0]
        ELSE LET r == run[i-1]
                 t == MapZeroPage(r.s, root, Page(from + (i-1) * PAGE_SIZE), flags)
             IN  IF r.done < i - 1 THEN r
                 ELSE [s |-> t, done |-> IF t.got = 0 THEN r.done ELSE i]
  IN  run[Steps(from, to)]

\* The loop that unmaps and frees what is mapped.
UnmapPages(s, root, from, to) ==
  LET run[i \in 0 .. Steps(from, to)] ==
        IF i = 0 THEN s
        ELSE LET va  == Page(from + (i-1) * PAGE_SIZE)
                 pte == pmap_query(run[i-1].mem, root, va)
             IN  IF pte = Absent THEN run[i-1]
                 ELSE [run[i-1] EXCEPT !.mem = SetPte(@, root, va, Absent),
                                       !.free = @ \cup {pte.frame}]
  IN  run[Steps(from, to)]

-----------------------------------------------------------------------------
Overlaps(e, start, end) == ~ (e.start >= end \/ e.end <= start)

Larger(a, b)  == IF a > b THEN a ELSE b
Smaller(a, b) == IF a < b THEN a ELSE b

\* The list when the entries that overlap the range were taken out of it.
Kept(ents, start, end) ==
  LET kept[i \in 0 .. Len(ents)] ==
        IF i = 0 THEN << >>
        ELSE IF Overlaps(ents[i], start, end) THEN kept[i-1] ELSE Append(kept[i-1], ents[i])
  IN  kept[Len(ents)]

\* Mutant: the pages of a removed entry are left mapped.
RemoveFromUnmapped(s, root, ents, start, end) ==
  [s |-> s, entries |-> Kept(ents, start, end), wraps |-> FALSE]

\* vm_map_remove() over [start, end): an entry that overlaps the range is
\* unmapped in the range and dropped whole.  wraps: one of the loops over
\* the addresses does not end.
RemoveFrom(s, root, ents, start, end) ==
  LET from(e) == Larger(e.start, start)
      to(e)   == Smaller(e.end, end)
      run[i \in 0 .. Len(ents)] ==
        IF i = 0 THEN s
        ELSE IF Overlaps(ents[i], start, end)
               THEN UnmapPages(run[i-1], root, from(ents[i]), to(ents[i]))
               ELSE run[i-1]
  IN  [ s |-> run[Len(ents)],
        entries |-> Kept(ents, start, end),
        wraps |-> \E i \in 1..Len(ents) :
                    /\ Overlaps(ents[i], start, end)
                    /\ LoopWraps(from(ents[i]), to(ents[i])) ]

\* What vm_map_enter() and vm_map_page_range() require of a range.
ValidRange(m, start, size) ==
  LET end == (start + size) % AddressSpace
  IN  /\ size # 0 /\ start >= min_offset(m)
      /\ end <= max_offset(m) /\ end >= start

\* vm_map_lookup_entry(): the entries with that address, one at most.
vm_map_lookup_entry(ents, addr) ==
  {i \in 1..Len(ents) : ents[i].start <= addr /\ addr < ents[i].end}

\* Mutant: the new entry goes to the end of the list.
InsertedLast(ents, ne) == ents \o <<ne>>

\* The list after map_list_insert_after() before the first entry that does
\* not start below the new one.
Inserted(ents, ne) ==
  LET pos == CHOOSE k \in 0 .. Len(ents) :
               /\ \A i \in 1..k : ents[i].start < ne.start
               /\ k < Len(ents) => ents[k + 1].start >= ne.start
  IN  SubSeq(ents, 1, pos) \o <<ne>> \o SubSeq(ents, pos + 1, Len(ents))

UsesMachine(s) == mem' = s.mem /\ free' = s.free

SetMap(m, ents, n) == maps' = [maps EXCEPT ![m] = [entries |-> ents, nentries |-> n]]
Root(m) == pmaps[m].root

-----------------------------------------------------------------------------
VmInit ==
  /\ PmapInit
  /\ maps = [m \in AllPmaps |-> [entries |-> << >>, nentries |-> 0]]
  /\ hung = FALSE

\* A task gets a map: pmap_create() and vm_map_create().
vm_map_create(m) ==
  /\ pmap_create(m)
  /\ SetMap(m, << >>, 0)
  /\ UNCHANGED hung

\* vm_map_enter() that does not refuse its arguments; callers stay away from
\* the kernel image, which has no entry.  A wired entry is mapped at once or,
\* when memory runs out, removed again.  When the loop wraps around it goes
\* on from address 0 until no page is left, and then the removal never ends.
vm_map_enter(m, start, size, prot, wired) ==
  LET end  == (start + size) % AddressSpace
      ents == maps[m].entries
      list == Inserted(ents, [start |-> start, end |-> end, prot |-> prot, wired |-> wired])
      run  == MapPages(Machine, Root(m), start, end, prot_to_pte(prot))
      undo == RemoveFrom(run.s, Root(m), list, start, end)
      n    == maps[m].nentries + 1
  IN  /\ m \in Live
      /\ ValidRange(m, start, size)
      /\ \A i \in 1..Len(ents) : ~ (start < ents[i].end /\ end > ents[i].start)
      /\ Len(ents) < MaxEntries
      /\ KernelPage \notin PagesOf(start, end)
      /\ UNCHANGED pmaps
      /\ hung' = (wired /\ LoopWraps(start, end))
      /\ IF ~ wired \/ hung'
           THEN SetMap(m, list, n) /\ UNCHANGED <<mem, free>>
           ELSE IF run.done = Steps(start, end)
                  THEN SetMap(m, list, n) /\ UsesMachine(run.s)
                  ELSE /\ SetMap(m, undo.entries, n - (Len(list) - Len(undo.entries)))
                       /\ UsesMachine(undo.s)

\* vm_map_remove(), and vm_deallocate(), which is the same call.
vm_map_remove(m, start, size) ==
  LET end  == (start + size) % AddressSpace
      ents == maps[m].entries
      r    == RemoveFrom(Machine, Root(m), ents, start, end)
  IN  /\ m \in Live
      /\ WholeEntries => \A i \in 1..Len(ents) :
                           Overlaps(ents[i], start, end) =>
                             start <= ents[i].start /\ ents[i].end <= end
      /\ UNCHANGED pmaps
      /\ hung' = r.wraps
      /\ IF r.wraps
           THEN UNCHANGED <<mem, free, maps>>
           ELSE /\ UsesMachine(r.s)
                /\ SetMap(m, r.entries, maps[m].nentries - (Len(ents) - Len(r.entries)))

\* vm_map_page_range() with map entries ents on machine s: pages are mapped
\* whether or not an entry covers them, and what was mapped there is
\* overwritten.  On failure the entries of the part that succeeded are removed.
PageRange(s, root, ents, start, size, prot) ==
  LET end  == (start + size) % AddressSpace
      run  == MapPages(s, root, start, end, prot_to_pte(prot))
      undo == RemoveFrom(run.s, root, ents, start, start + run.done * PAGE_SIZE)
  IN  IF run.done = Steps(start, end)
        THEN [s |-> run.s, entries |-> ents, ok |-> TRUE]
        ELSE [s |-> undo.s, entries |-> undo.entries, ok |-> FALSE]

vm_map_page_range(m, start, size, prot) ==
  LET ents == maps[m].entries
      r    == PageRange(Machine, Root(m), ents, start, size, prot)
  IN  /\ m \in Live \ {KernelPmap}
      /\ ValidRange(m, start, size)
      /\ UNCHANGED <<pmaps, hung>>
      /\ UsesMachine(r.s)
      /\ SetMap(m, r.entries, maps[m].nentries - (Len(ents) - Len(r.entries)))

\* exec_unload(): vm_map_destroy() frees the pages of the entries, then
\* pmap_destroy() the tables.
vm_map_destroy(m) ==
  LET ents == maps[m].entries
      run[i \in 0 .. Len(ents)] ==
        IF i = 0 THEN Machine
        ELSE UnmapPages(run[i-1], Root(m), ents[i].start, ents[i].end)
      s == run[Len(ents)]
  IN  /\ m \in Live \ {KernelPmap}
      /\ LastRelease
      /\ mem' = s.mem
      /\ free' = s.free \cup pmap_free_tables(s.mem, Root(m))
      /\ pmaps' = [pmaps EXCEPT ![m] = [root |-> 0, refs |-> 0, frame |-> 0]]
      /\ SetMap(m, << >>, 0)
      /\ UNCHANGED hung

\* The verdict of vm_fault() before it allocates anything; type is "R", "W"
\* or "X".  A page that is mapped counts as a spurious fault.
vm_fault_verdict(m, addr, type) ==
  LET found == vm_map_lookup_entry(maps[m].entries, addr)
  IN  IF pmap_query(mem, Root(m), Page(addr)) # Absent THEN "SUCCESS"
      ELSE IF found = {} THEN "BAD_ADDRESS"
      ELSE IF \E i \in found : type # "R" /\ type \notin maps[m].entries[i].prot THEN "PROTECTION"
      ELSE "ALLOCATE"

\* vm_fault() that gets as far as pmm_alloc_page(); isr_14 always passes it
\* kernel_map.  On failure the machine stops with the fault reported.
vm_fault(addr, type) ==
  /\ vm_fault_verdict(KernelPmap, addr, type) = "ALLOCATE"
  /\ \E i \in vm_map_lookup_entry(maps[KernelPmap].entries, addr) :
       LET prot == maps[KernelPmap].entries[i].prot
           s == MapZeroPage(Machine, Root(KernelPmap), Page(addr), prot_to_pte(prot))
       IN  s.got # 0 /\ UsesMachine(s)
  /\ UNCHANGED <<pmaps, maps, hung>>

\* The calls on a map that exists.
VmNext ==
  /\ ~ hung
  /\ \E m \in AllPmaps :
       \/ \E a \in Starts, size \in Sizes :
            \/ vm_map_remove(m, a, size)
            \/ \E prot \in Prots, wired \in BOOLEAN : vm_map_enter(m, a, size, prot, wired)
       \/ \E a \in Starts, type \in {"R", "W", "X"} : m = KernelPmap /\ vm_fault(a, type)

VmSpec == VmInit /\ [][VmNext]_vmVars

\* Tasks come and go too, and ranges of their maps are mapped.
VmTaskNext ==
  \/ VmNext
  \/ /\ ~ hung
     /\ \E m \in AllPmaps :
          \/ vm_map_create(m)
          \/ vm_map_destroy(m)
          \/ \E a \in Starts, size \in Sizes, prot \in Prots : vm_map_page_range(m, a, size, prot)

VmTaskSpec == VmInit /\ [][VmTaskNext]_vmVars

-----------------------------------------------------------------------------
(* Properties                                                              *)

(* Entries are ranges of addresses with a protection; nentries, unsigned,  *)
(* never goes below zero.                                                  *)
VmTypeOK ==
  /\ PmapTypeOK
  /\ hung \in BOOLEAN
  /\ \A m \in AllPmaps :
       /\ maps[m].nentries \in Nat
       /\ \A i \in 1..Len(maps[m].entries) :
            maps[m].entries[i] \in [start : 0..AddressSpace-1, end : 0..AddressSpace-1,
                                    prot : SUBSET {"R", "W", "X"}, wired : BOOLEAN]

(* An address space is a list of entries, sorted by start address          *)
(* (vm_map.c:5-6), none empty, no two of them overlapping, all inside the  *)
(* limits of the map, and counted by nentries - whatever ranges callers    *)
(* enter, remove or run out of memory in (vm_map.c:128-181, 219-252).      *)
MapSorted ==
  \A m \in Live :
    LET ents == maps[m].entries
    IN  /\ \A i \in 1..Len(ents) :
             /\ min_offset(m) <= ents[i].start /\ ents[i].start < ents[i].end
             /\ ents[i].end <= max_offset(m)
        /\ \A i \in 1..Len(ents)-1 : ents[i].end <= ents[i+1].start
        /\ maps[m].nentries = Len(ents)

Covers(e, va) == e.start < (va + 1) * PAGE_SIZE /\ va * PAGE_SIZE < e.end

MapPagesOf(m) == {va \in VPages \ {KernelPage} : Within(m, va)}

(* The page tables follow the map: a page is mapped only where an entry    *)
(* covers it, and with the rights of that entry (vm_map.c:5-7, 50-58,      *)
(* 163-178, 233-245, vm_fault.c:38-62).                                    *)
MappedIsCovered ==
  \A m \in Live : \A va \in MapPagesOf(m) :
    LET pte == pmap_query(mem, Root(m), va)
    IN  pte # Absent =>
          \E i \in 1..Len(maps[m].entries) :
            /\ Covers(maps[m].entries[i], va)
            /\ pte.flags = prot_to_pte(maps[m].entries[i].prot)

(* "Wired pages never fault" (vm_fault.c:13): a page of a wired entry is   *)
(* mapped for as long as the entry exists (vm_map.c:163-178).              *)
WiredIsMapped ==
  \A m \in Live : \A i \in 1..Len(maps[m].entries) : \A va \in MapPagesOf(m) :
    maps[m].entries[i].wired /\ Covers(maps[m].entries[i], va) =>
      pmap_query(mem, Root(m), va) # Absent

(* vm_fault() verifies "the access is allowed by the entry's protection"   *)
(* (vm_fault.c:9): an access that it does not allow is refused.            *)
FaultVerdict ==
  \A addr \in Starts : \A type \in {"W", "X"} :
    \A i \in vm_map_lookup_entry(maps[KernelPmap].entries, addr) :
      type \notin maps[KernelPmap].entries[i].prot =>
        vm_fault_verdict(KernelPmap, addr, type) = "PROTECTION"

(* Freeing the mapped pages of an address space "is the vm_map layer's     *)
(* job" (pmap.c:103): when a map is destroyed, so are its pages.           *)
DestroyFreesPages ==
  [][\A m \in Live \ {KernelPmap} :
       pmaps'[m].root = 0 =>
         \A va \in MapPagesOf(m) :
           pmap_query(mem, Root(m), va).frame \in free' \cup {0}]_vmVars

(* The kernel map reaches up to 0xffffffffffffffff (vm_map.c:9): a call on *)
(* a range that the map accepts returns (vm_map.c:133-138, 165, 236).      *)
CallsReturn == ~ hung
=============================================================================
