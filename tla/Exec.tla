-------------------------------- MODULE Exec --------------------------------
(***************************************************************************)
(* Program loading: exec_load() of kern/exec.c over the Mach-O loader of   *)
(* kern/macho.c.  An image is its header and its load commands; what a     *)
(* file holds at an offset is that offset.                                 *)
(*                                                                         *)
(* Segments are mapped in the page tables of the task, and copied to their *)
(* virtual address in the address space the CPU is in.  That is the boot   *)
(* loader's: nothing calls pmap_switch().  There a low address is, up to   *)
(* IDENTITY, the physical address of the same number, and faults beyond.   *)
(* Physical memory is therefore kept by bytes here; frame f of Pmap is the *)
(* physical page PhysBase + f.                                             *)
(***************************************************************************)
EXTENDS VmMap, SequencesExt

CONSTANTS
  Images,    \* the images exec_load() is given
  PhysBase,  \* physical pages below the ones the page allocator has
  IDENTITY   \* bytes of the identity mapping (pmap.c:9)

VARIABLES
  bytes,     \* physical memory: an offset of a file, Zero or Stale
  loaded,    \* history: image and entry point of the last load of each task
             \* that succeeded, None when the last one failed
  stopped    \* "no", "fault": the copy hit an address that is not mapped,
             \* "wrecked": it went over a page table or a pmap_t,
             \* "released": the kernel's own tables were freed

execVars == <<bytes, loaded, stopped>>

None  == [nothing |-> TRUE]
Zero  == -1
Stale == -2

PhysBytes == 0 .. PAGE_SIZE * (PhysBase + NFrames + 1) - 1
BytesOf(frames) == {a \in PhysBytes : Page(a) - PhysBase \in frames}

\* Pages are zeroed when they are taken.
Taken(b, frames) == [a \in PhysBytes |-> IF Page(a) - PhysBase \in frames THEN Zero ELSE b[a]]

ASSUME ExecAssumption ==
  /\ PhysBase \in Nat /\ IDENTITY \in Nat
  /\ IDENTITY <= PAGE_SIZE * (PhysBase + NFrames + 1)

Segments(image) == SelectSeq(image.cmds, LAMBDA c : c.cmd = "SEGMENT_64" /\ c.vmsize > 0)

-----------------------------------------------------------------------------
(* libkern/string.c, on the bytes b of physical memory.                    *)

\* Mutant: one byte too many is cleared.
kmemset_past(b, dst, n) ==
  [a \in PhysBytes |-> IF dst <= a /\ a <= dst + n THEN Zero ELSE b[a]]

kmemset(b, dst, n) ==
  [a \in PhysBytes |-> IF dst <= a /\ a < dst + n THEN Zero ELSE b[a]]

kmemcpy(b, dst, src, n) ==
  [a \in PhysBytes |-> IF dst <= a /\ a < dst + n THEN src + (a - dst) ELSE b[a]]

-----------------------------------------------------------------------------
(* macho.c                                                                 *)

macho_validate(image) ==
  /\ image.magic = "MH_MAGIC_64"
  /\ image.filetype \in {"MH_EXECUTE", "MH_OBJECT"}
  /\ image.cputype = "X86_64"

\* Frames whose contents the kernel itself follows.
KernelFrames(s, root) ==
  (UNION {pmap_free_tables(s.mem, x) : x \in {Root(m) : m \in Live} \cup {root}})
    \cup ({pmaps[m].frame : m \in Live} \ {0})

\* Mutant: the result of one segment is forgotten with the next.
GoesOnAnyway(r) == r.stopped = "no"

\* The loop over the commands returns at the first segment that failed.
GoesOn(r) == r.ok /\ r.stopped = "no"

\* The end of the loader's work on one segment: with r it reached so far
\* (machine, entries of the map, physical memory, base_address) and p what
\* vm_map_page_range() made of it, the segment is copied and its rest zeroed.
CopySegment(r, p, root, seg) ==
  LET fresh  == Taken(r.bytes, r.s.free \ p.s.free)
      n      == IF seg.filesize = 0 THEN 0 ELSE Larger(seg.filesize, seg.vmsize)
      within == Larger(0, Smaller(n, IDENTITY - seg.vmaddr))
      copied == kmemcpy(fresh, seg.vmaddr, seg.fileoff, Smaller(seg.filesize, within))
      hit    == {Page(a) - PhysBase : a \in seg.vmaddr .. seg.vmaddr + within - 1}
  IN  IF ~ p.ok THEN [r EXCEPT !.s = p.s, !.entries = p.entries, !.bytes = fresh, !.ok = FALSE]
      ELSE [ s |-> p.s, entries |-> p.entries, ok |-> TRUE,
             bytes |-> kmemset(copied, seg.vmaddr + seg.filesize, within - seg.filesize),
             base |-> IF seg.fileoff = 0 /\ r.base = 0 THEN seg.vmaddr ELSE r.base,
             stopped |-> IF hit \cap KernelFrames(p.s, root) # {} THEN "wrecked"
                         ELSE IF within < n THEN "fault" ELSE "no" ]

LoadSegment(r, m, root, seg) ==
  CopySegment(r, IF ValidRange(m, seg.vmaddr, seg.vmsize)
                   THEN PageRange(r.s, root, r.entries, seg.vmaddr, seg.vmsize, seg.initprot)
                   ELSE [s |-> r.s, entries |-> r.entries, ok |-> FALSE], root, seg)

macho_parse_segments(r0, m, root, image) ==
  LET segs == Segments(image)
      run[i \in 0 .. Len(segs)] ==
        IF i = 0 THEN r0
        ELSE LET r == run[i-1] IN IF GoesOn(r) THEN LoadSegment(r, m, root, segs[i]) ELSE r
  IN  run[Len(segs)]

\* Mutant: the offset is taken for the address.
macho_find_entry_relative(image, base) ==
  LET mains == SelectSeq(image.cmds, LAMBDA c : c.cmd = "MAIN")
  IN  IF mains = << >> THEN 0 ELSE mains[1].entryoff

\* LC_UNIXTHREAD is not looked for.
macho_find_entry(image, base) ==
  LET mains == SelectSeq(image.cmds, LAMBDA c : c.cmd = "MAIN")
  IN  IF mains = << >> THEN 0 ELSE base + mains[1].entryoff

\* macho_load() into the address space given: nothing is done for an image
\* that is refused.
macho_load(space, m, image) ==
  macho_parse_segments(
    [ s |-> space.s, entries |-> maps[m].entries, base |-> 0, stopped |-> "no",
      ok |-> image.size >= image.header /\ macho_validate(image),
      bytes |-> Taken(bytes, free \ space.s.free) ],
    m, space.root, image)

-----------------------------------------------------------------------------
(* exec.c                                                                  *)

ExecInit ==
  /\ VmInit
  /\ bytes = [a \in PhysBytes |-> Stale]
  /\ loaded = [m \in Pmaps |-> None]
  /\ stopped = "no"

\* The address space of task m, or a new one; root is 0 if there is none.
Space(m) ==
  IF m \in Live THEN [s |-> Machine, root |-> Root(m), frame |-> pmaps[m].frame]
                ELSE NewSpace(Machine)

\* exec_load(): a task without a map gets one, which it keeps when the image
\* is refused, and so do the segments loaded before one that fails.
exec_load(m, image) ==
  \E space \in {x \in {Space(m)} : x.root # 0} :
  \E r \in {macho_load(space, m, image)} :
    /\ UsesMachine(r.s)
    /\ pmaps' = [pmaps EXCEPT ![m] = [root |-> space.root, refs |-> 1, frame |-> space.frame]]
    /\ SetMap(m, r.entries, Len(r.entries))
    /\ bytes' = r.bytes
    /\ stopped' = r.stopped
    /\ loaded' = [loaded EXCEPT ![m] =
                    IF r.ok /\ r.stopped = "no"
                      THEN [image |-> image, entry |-> macho_find_entry(image, r.base)]
                      ELSE None]
    /\ UNCHANGED hung

\* exec_load() for a task that gets its pmap but no map, the zone of maps
\* being exhausted: pmap_destroy() takes back the tables reached from the new
\* PML4, and those of the kernel's half are among them.
exec_load_no_map(m) ==
  LET space == Space(m)
  IN  /\ m \notin Live /\ space.root # 0
      /\ mem' = space.s.mem
      /\ free' = space.s.free \cup pmap_free_tables(space.s.mem, space.root)
      /\ bytes' = Taken(bytes, free \ space.s.free)
      /\ stopped' = "released"
      /\ UNCHANGED <<pmaps, maps, hung, loaded>>

\* The kernel goes on using its own map.
KernelMapCalls ==
  /\ VmNext
  /\ bytes' = Taken(bytes, free \ free')
  /\ UNCHANGED <<loaded, stopped>>

ExecNext ==
  /\ stopped = "no"
  /\ \/ \E m \in Pmaps, image \in Images : exec_load(m, image)
     \/ \E m \in Pmaps : exec_load_no_map(m)
     \/ KernelMapCalls

ExecSpec == ExecInit /\ [][ExecNext]_<<vmVars, execVars>>

-----------------------------------------------------------------------------
(* What no code calls yet.                                                 *)

\* exec_unload(): the map of the task goes, its segments with it.
exec_unload(m) ==
  /\ vm_map_destroy(m)
  /\ loaded' = [loaded EXCEPT ![m] = None]
  /\ UNCHANGED <<bytes, stopped>>

\* macho_unload(): the segments' ranges are removed from the kernel's map,
\* whatever map they were loaded into.
macho_unload(m) ==
  LET segs == Segments(loaded[m].image)
      run[i \in 0 .. Len(segs)] ==
        IF i = 0 THEN [s |-> Machine, entries |-> maps[KernelPmap].entries]
        ELSE RemoveFrom(run[i-1].s, Root(KernelPmap), run[i-1].entries, segs[i].vmaddr,
                        (segs[i].vmaddr + segs[i].vmsize) % AddressSpace)
      r == run[Len(segs)]
  IN  /\ loaded[m] # None
      /\ UsesMachine(r.s)
      /\ SetMap(KernelPmap, r.entries, Len(r.entries))
      /\ loaded' = [loaded EXCEPT ![m] = None]
      /\ UNCHANGED <<pmaps, hung, bytes, stopped>>

ExecUnloadSpec ==
  ExecInit /\ [][ \/ ExecNext
                  \/ stopped = "no" /\ \E m \in Pmaps : exec_unload(m) \/ macho_unload(m)
                ]_<<vmVars, execVars>>

-----------------------------------------------------------------------------
(* Properties                                                              *)

Loaded == {m \in Pmaps : loaded[m] # None}

\* The last segment of a loaded image over page va, which decides its rights.
SegmentAt(m, va) ==
  LET segs == Segments(loaded[m].image)
      over == {i \in 1..Len(segs) : /\ segs[i].vmaddr < (va + 1) * PAGE_SIZE
                                    /\ va * PAGE_SIZE < segs[i].vmaddr + segs[i].vmsize}
  IN  IF over = {} THEN {} ELSE {segs[Max(over)]}

(* When exec_load() returns success, every page of every segment is mapped *)
(* in the task's address space with the rights the segment asks for, and   *)
(* stays so while other images are loaded or refused, memory runs out and  *)
(* the kernel uses its map (macho.c:31-76, vm_map.c:183-211).              *)
LoadedIsMapped ==
  stopped = "no" =>
    \A m \in Loaded, va \in VPages : \A seg \in SegmentAt(m, va) :
      LET pte == Translate(mem, m, va)
      IN  pte.frame # 0 /\ pte.flags = prot_to_pte(seg.initprot)

\* The physical memory that the copy of a segment may reach.
CopyRange(seg) ==
  IF seg.filesize = 0 THEN {}
  ELSE seg.vmaddr .. Smaller(IDENTITY, seg.vmaddr + Larger(seg.filesize, seg.vmsize)) - 1

CopyRanges(image) ==
  LET segs == Segments(image) IN UNION {CopyRange(segs[i]) : i \in 1..Len(segs)}

(* Loading a program changes the address space of one task, whether the    *)
(* load succeeds or fails half way: every address of another task and of   *)
(* the kernel is translated as before, and its page holds what it held but *)
(* for the physical memory that the segments' addresses name, which may be *)
(* anyone's (exec.c:16-46, macho.c:61-68, pmap.c:67-99).                   *)
LoadIsolated ==
  [][\E m \in AllPmaps, w \in {{}} \cup {CopyRanges(image) : image \in Images} :
       \A x \in Live \ {m} : \A va \in VPages : Within(x, va) =>
         /\ Translate(mem', x, va) = Translate(mem, x, va)
         /\ \A a \in BytesOf({Translate(mem, x, va).frame} \ {0}) : bytes'[a] = bytes[a] \/ a \in w
    ]_<<vmVars, execVars>>

(* A loaded image with an LC_MAIN starts in a page of its own that is      *)
(* mapped and may be executed; one without a segment at file offset 0 to   *)
(* count from starts at the bare offset, wherever that is                  *)
(* (macho.c:58-59, 78-95).                                                 *)
EntryInImage ==
  \A m \in Loaded :
    LET image == loaded[m].image
        segs  == Segments(image)
        va    == Page(loaded[m].entry)
    IN  stopped = "no" /\ (\E i \in 1..Len(image.cmds) : image.cmds[i].cmd = "MAIN") =>
          IF \E i \in 1..Len(segs) : segs[i].fileoff = 0
            THEN /\ SegmentAt(m, va) # {}
                 /\ Translate(mem, m, va).frame # 0
                 /\ "NX" \notin Translate(mem, m, va).flags
            ELSE loaded[m].entry = macho_find_entry(image, 0)

(* The tables that boot left "are kept intact so that physical addresses   *)
(* [...] remain directly addressable" (pmap.c:9-11): no copy of a segment  *)
(* goes over a table that the kernel follows (macho.c:61-68).              *)
TablesKept == stopped # "wrecked"

(* The structures are "for loading Darwin/macOS binaries" (macho.h:5): the *)
(* pages of a loaded program hold the bytes of its file (macho.c:61-65).   *)
SegmentsCopied ==
  \A m \in Loaded : \A i \in 1 .. Len(Segments(loaded[m].image)) :
    LET seg == Segments(loaded[m].image)[i]
    IN  \A k \in 0 .. seg.filesize - 1 :
          LET a == seg.vmaddr + k
              f == Translate(mem, m, Page(a)).frame
          IN  bytes[(PhysBase + f) * PAGE_SIZE + (a % PAGE_SIZE)] = seg.fileoff + k
=============================================================================
