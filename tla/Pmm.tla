-------------------------------- MODULE Pmm --------------------------------
(***************************************************************************)
(* The physical memory manager of vm/pmm.c: pmm_init() builds a bitmap of  *)
(* used pages from the boot loader's memory map, pmm_alloc_page() hands    *)
(* out the lowest free page, pmm_free_page() takes one back.  The bitmap   *)
(* is the set of the pages whose bit is 1; its words and bits only make    *)
(* "lowest zero bit" fast.                                                 *)
(***************************************************************************)
EXTENDS Integers, FiniteSets, Sequences

CONSTANTS
  PAGE_SIZE,     \* PMM_PAGE_SIZE, in bytes
  MAX_PAGES,     \* PMM_MAX_PAGES
  BITMAP_BYTES,  \* PMM_BITMAP_BYTES
  LowMemory,     \* 0x100000: the bitmap is not placed below it
  MemMaps,       \* memory maps: sequences of [base, length, usable]
  KernelImages   \* [start, end): where the boot loader put the kernel

AllPages == 0 .. MAX_PAGES - 1

RoundUp(a)   == ((a + PAGE_SIZE - 1) \div PAGE_SIZE) * PAGE_SIZE
RoundDown(a) == (a \div PAGE_SIZE) * PAGE_SIZE

\* The pages of the addresses from, from + PAGE_SIZE, ... below to.
PagesFrom(from, to) ==
  {p \in AllPages : from \div PAGE_SIZE <= p /\ (p * PAGE_SIZE) + (from % PAGE_SIZE) < to}

Usable(mm) == {mm[i] : i \in {j \in 1..Len(mm) : mm[j].usable}}

\* The whole pages of a region, as the loop that frees them steps through.
RegionPages(e) == PagesFrom(RoundUp(e.base), RoundDown(e.base + e.length))

UsablePages(mm) == UNION {RegionPages(e) : e \in Usable(mm)}

\* What total_pages counts: the pages of the usable regions one after the
\* other, a page once for every region it is in.
PageCount(mm) ==
  LET count[i \in 0..Len(mm)] ==
        IF i = 0 THEN 0
        ELSE count[i-1] + IF mm[i].usable THEN Cardinality(RegionPages(mm[i])) ELSE 0
  IN  count[Len(mm)]

\* Where the bitmap goes: the first usable region with room for it.
BitmapStart(e) == IF RoundUp(e.base) < LowMemory THEN LowMemory ELSE RoundUp(e.base)

FitsBitmap(e) == e.usable /\ BitmapStart(e) + BITMAP_BYTES <= e.base + e.length

BitmapRegions(mm) == {i \in 1..Len(mm) : FitsBitmap(mm[i])}

FirstRegion(mm) == CHOOSE i \in BitmapRegions(mm) : \A j \in BitmapRegions(mm) : i <= j

bitmap_phys(mm) == BitmapStart(mm[FirstRegion(mm)])

BitmapPages(mm) == PagesFrom(bitmap_phys(mm), bitmap_phys(mm) + BITMAP_BYTES)

\* Mutant: the pages of the bitmap are not reserved.
ReservedNoBitmap(mm, k) == ({0} \cap AllPages) \cup PagesFrom(k.start, k.end)

\* Page 0, the bitmap and the kernel image are taken back after the usable
\* pages were freed.
Reserved(mm, k) ==
  ({0} \cap AllPages) \cup BitmapPages(mm) \cup PagesFrom(k.start, k.end)

(* Limine's usable regions do not overlap each other, so that counting     *)
(* their pages region by region counts no page twice (pmm.c:7-8).          *)
ASSUME PmmAssumption ==
  /\ PAGE_SIZE \in Nat \ {0}
  /\ MAX_PAGES \in Nat
  /\ \A mm \in MemMaps : PageCount(mm) = Cardinality(UsablePages(mm))

(* The addresses are numbers, LowMemory (0x100000) is the start of a page, *)
(* and so is the address at which Limine puts the kernel (main.c:106-113). *)
ASSUME LoaderAssumption ==
  /\ BITMAP_BYTES \in Nat
  /\ LowMemory \in Nat /\ LowMemory % PAGE_SIZE = 0
  /\ MemMaps \subseteq Seq([base : Nat, length : Nat, usable : BOOLEAN])
  /\ KernelImages \subseteq [start : Nat, end : Nat]
  /\ \A k \in KernelImages : k.start % PAGE_SIZE = 0

-----------------------------------------------------------------------------
VARIABLES
  mmap,        \* the memory map and the kernel's place, given by the loader
  used,        \* the pages whose bit in the bitmap is 1
  free_count,
  total_pages,
  up,          \* "boot", "up" after pmm_init(), "failed": no place for the bitmap
  held         \* the pages callers got from pmm_alloc_page() and still have

pmmVars == <<mmap, used, free_count, total_pages, up, held>>

FreePages == AllPages \ used

PmmInit ==
  /\ mmap \in [map : MemMaps, kernel : KernelImages]
  /\ used = {}
  /\ free_count = 0 /\ total_pages = 0
  /\ up = "boot"
  /\ held = {}

\* pmm_init()
InitBitmap ==
  LET mm == mmap.map
      freed == UsablePages(mm)
      reserved == Reserved(mm, mmap.kernel)
  IN  /\ up = "boot"
      /\ UNCHANGED <<mmap, held>>
      /\ IF BitmapRegions(mm) = {}
           THEN /\ up' = "failed"
                /\ UNCHANGED <<used, free_count, total_pages>>
           ELSE /\ up' = "up"
                /\ used' = (AllPages \ freed) \cup reserved
                /\ total_pages' = PageCount(mm)
                /\ free_count' = PageCount(mm) - Cardinality(freed \cap reserved)

\* Mutant: the counter is not taken down.
pmm_alloc_page_uncounted(p) ==
  /\ p \in FreePages
  /\ \A q \in FreePages : p <= q
  /\ used' = used \cup {p}
  /\ free_count' = free_count

\* pmm_alloc_page() that returns page p.  With no page left it returns
\* PMM_NULL and changes nothing.
pmm_alloc_page(p) ==
  /\ p \in FreePages
  /\ \A q \in FreePages : p <= q
  /\ used' = used \cup {p}
  /\ free_count' = IF free_count > 0 THEN free_count - 1 ELSE free_count

AllocPage(p) ==
  /\ up = "up"
  /\ pmm_alloc_page(p)
  /\ held' = held \cup {p}
  /\ UNCHANGED <<mmap, total_pages, up>>

\* Mutant: page 0 is not refused.
pmm_free_page_any(p) ==
  IF p >= MAX_PAGES
    THEN UNCHANGED <<used, free_count>>
    ELSE /\ used' = used \ {p}
         /\ free_count' = free_count + 1

pmm_free_page(p) ==
  IF p = 0 \/ p >= MAX_PAGES
    THEN UNCHANGED <<used, free_count>>
    ELSE /\ used' = used \ {p}
         /\ free_count' = free_count + 1

\* A caller gives back a page it holds, or passes on the PMM_NULL it got.
FreePage(p) ==
  /\ up = "up"
  /\ p \in held \cup {0}
  /\ pmm_free_page(p)
  /\ held' = held \ {p}
  /\ UNCHANGED <<mmap, total_pages, up>>

PmmNext ==
  \/ InitBitmap
  \/ \E p \in AllPages : AllocPage(p) \/ FreePage(p)

PmmSpec == PmmInit /\ [][PmmNext]_pmmVars

-----------------------------------------------------------------------------
(* Properties                                                              *)

(* The bitmap covers the tracked pages, and free_count is never negative.  *)
PmmTypeOK ==
  /\ mmap \in [map : MemMaps, kernel : KernelImages]
  /\ used \subseteq AllPages
  /\ free_count \in Nat
  /\ up \in {"boot", "up", "failed"}
  /\ held \subseteq AllPages

(* free_count is the number of zero bits of the bitmap (pmm.c:82-115,      *)
(* 123-146).                                                               *)
FreeCountExact == up = "up" => free_count = Cardinality(FreePages)

(* No page is lost or handed out twice: the used pages are the ones that   *)
(* were never usable, the reserved ones, and the ones callers hold; page   *)
(* 0, the bitmap and the kernel image are nobody's (pmm.c:93-115, 123-146).*)
PagesAccounted ==
  up = "up" =>
    LET reserved == Reserved(mmap.map, mmap.kernel)
    IN  /\ used = (AllPages \ UsablePages(mmap.map)) \cup reserved \cup held
        /\ held \subseteq UsablePages(mmap.map) \ reserved

(* A page that was handed out lies with all its bytes in a usable region,  *)
(* touches neither the bytes of the bitmap nor those of the kernel image,  *)
(* and is not page 0 (pmm.c:5-8, 80-115).                                  *)
HandedOutIsSafe ==
  \A p \in held :
    LET from == p * PAGE_SIZE
        to == from + PAGE_SIZE
        bm == bitmap_phys(mmap.map)
    IN  /\ p # 0
        /\ \E e \in Usable(mmap.map) : e.base <= from /\ to <= e.base + e.length
        /\ to <= bm \/ bm + BITMAP_BYTES <= from
        /\ to <= mmap.kernel.start \/ mmap.kernel.end <= from
=============================================================================
