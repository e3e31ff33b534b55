---------------------------- MODULE MemoryProofs ----------------------------
(***************************************************************************)
(* Proofs about physical memory: the page allocator, for every memory map  *)
(* whose usable regions do not overlap and every number of pages, and the  *)
(* zone allocator on top of it, for every page size that pointers fit      *)
(* into, every number of zones and every element size.                     *)
(***************************************************************************)
EXTENDS Zone, NaturalLemmas

-----------------------------------------------------------------------------
(* The page allocator.                                                     *)

LEMMA PagesFinite == IsFiniteSet(AllPages) /\ AllPages \subseteq Nat
  BY PmmAssumption, FS_Interval DEF AllPages

LEMMA UsableInRange == ASSUME NEW mm PROVE UsablePages(mm) \subseteq AllPages
  BY DEF UsablePages, RegionPages, PagesFrom

LEMMA ReservedInRange == ASSUME NEW mm, NEW k PROVE Reserved(mm, k) \subseteq AllPages
  BY DEF Reserved, BitmapPages, PagesFrom

\* The inductive invariant; page 0 is reserved, which is why refusing to
\* free it loses no page.
PmmInv == PmmTypeOK /\ FreeCountExact /\ PagesAccounted /\ (up # "up" => held = {})

LEMMA PmmInitInv == PmmInit => PmmInv
  BY DEF PmmInit, PmmInv, PmmTypeOK, FreeCountExact, PagesAccounted

LEMMA InitBitmapInv == ASSUME PmmInv, InitBitmap PROVE PmmInv'
<1> DEFINE mm == mmap.map
           freed == UsablePages(mm)
           reserved == Reserved(mm, mmap.kernel)
<1>1. PmmTypeOK /\ held = {} /\ UNCHANGED <<mmap, held>>
  BY DEF PmmInv, InitBitmap
<1>2. CASE BitmapRegions(mm) = {}
  BY <1>1, <1>2 DEF InitBitmap, PmmInv, PmmTypeOK, FreeCountExact, PagesAccounted
<1>3. CASE BitmapRegions(mm) # {}
  <2>1. /\ up' = "up"
        /\ used' = (AllPages \ freed) \cup reserved
        /\ free_count' = PageCount(mm) - Cardinality(freed \cap reserved)
    BY <1>3 DEF InitBitmap
  <2>2. PageCount(mm) = Cardinality(freed)
    BY <1>1, PmmAssumption DEF PmmTypeOK
  <2>3. freed \subseteq AllPages /\ reserved \subseteq AllPages
    BY UsableInRange, ReservedInRange
  <2>4. IsFiniteSet(freed) /\ IsFiniteSet(freed \ reserved)
    BY <2>3, PagesFinite, FS_Subset
  <2>5. /\ Cardinality(freed \ reserved) = Cardinality(freed) - Cardinality(freed \cap reserved)
        /\ Cardinality(freed \ reserved) \in Nat
    BY <2>4, FS_Difference, FS_CardinalityType
  <2>6. FreePages' = freed \ reserved
    BY <2>1, <2>3 DEF FreePages
  <2>7. FreeCountExact' /\ free_count' \in Nat
    BY <2>1, <2>2, <2>5, <2>6 DEF FreeCountExact
  <2>8. PagesAccounted'
    BY <2>1, <1>1 DEF PagesAccounted
  <2> QED
    BY <2>1, <2>3, <2>7, <2>8, <1>1 DEF PmmInv, PmmTypeOK
<1> QED
  BY <1>2, <1>3

LEMMA AllocPageInv ==
  ASSUME PmmInv, NEW p \in AllPages, AllocPage(p)
  PROVE  PmmInv'
<1>1. /\ PmmTypeOK /\ FreeCountExact /\ PagesAccounted
      /\ up = "up" /\ UNCHANGED <<mmap, up>> /\ held' = held \cup {p}
      /\ p \in FreePages /\ used' = used \cup {p}
      /\ free_count' = IF free_count > 0 THEN free_count - 1 ELSE free_count
  BY DEF PmmInv, AllocPage, pmm_alloc_page
<1>2. FreePages' = FreePages \ {p}
  BY <1>1 DEF FreePages
<1>3. IsFiniteSet(FreePages) /\ IsFiniteSet(FreePages \ {p})
  BY PagesFinite, FS_Subset DEF FreePages
<1>4. /\ Cardinality(FreePages \ {p}) = Cardinality(FreePages) - 1
      /\ Cardinality(FreePages \ {p}) \in Nat
  BY <1>1, <1>3, FS_RemoveElement, FS_CardinalityType
<1>5. FreeCountExact' /\ free_count' \in Nat
  BY <1>1, <1>2, <1>4 DEF FreeCountExact, PmmTypeOK
<1>6. PagesAccounted'
  BY <1>1 DEF PagesAccounted, FreePages
<1> QED
  BY <1>1, <1>5, <1>6 DEF PmmInv, PmmTypeOK

LEMMA FreePageInv ==
  ASSUME PmmInv, NEW p \in AllPages, FreePage(p)
  PROVE  PmmInv'
<1>1. /\ PmmTypeOK /\ FreeCountExact /\ PagesAccounted
      /\ up = "up" /\ UNCHANGED <<mmap, up>> /\ held' = held \ {p}
      /\ p \in held \cup {0} /\ pmm_free_page(p)
  BY DEF PmmInv, FreePage
<1>2. 0 \notin held
  <2>1. 0 \in AllPages => 0 \in Reserved(mmap.map, mmap.kernel)
    BY DEF Reserved
  <2> QED
    BY <2>1, <1>1 DEF PagesAccounted, PmmTypeOK
<1>3. CASE p = 0
  BY <1>1, <1>2, <1>3 DEF pmm_free_page, PmmInv, PmmTypeOK, FreeCountExact, PagesAccounted, FreePages
<1>4. CASE p # 0
  <2>1. p \in held /\ p < MAX_PAGES
    BY <1>1, <1>4, PmmAssumption DEF AllPages
  <2>2. used' = used \ {p} /\ free_count' = free_count + 1
    BY <1>1, <1>4, <2>1, PagesFinite, PmmAssumption DEF pmm_free_page
  <2>3. p \in used /\ p \notin FreePages /\ FreePages' = FreePages \cup {p}
    BY <1>1, <2>1, <2>2 DEF PagesAccounted, FreePages
  <2>4. IsFiniteSet(FreePages)
    BY PagesFinite, FS_Subset DEF FreePages
  <2>5. Cardinality(FreePages \cup {p}) = Cardinality(FreePages) + 1
    BY <2>3, <2>4, FS_AddElement
  <2>6. FreeCountExact' /\ free_count' \in Nat
    BY <1>1, <2>2, <2>3, <2>5 DEF FreeCountExact, PmmTypeOK
  <2>7. PagesAccounted'
    BY <1>1, <2>1, <2>2 DEF PagesAccounted
  <2> QED
    BY <1>1, <2>2, <2>6, <2>7 DEF PmmInv, PmmTypeOK
<1> QED
  BY <1>3, <1>4

LEMMA PmmNextInv == ASSUME PmmInv, [PmmNext]_pmmVars PROVE PmmInv'
<1>1. CASE PmmNext
  BY <1>1, InitBitmapInv, AllocPageInv, FreePageInv DEF PmmNext
<1>2. CASE UNCHANGED pmmVars
  BY <1>2 DEF pmmVars, PmmInv, PmmTypeOK, FreeCountExact, PagesAccounted, FreePages
<1> QED
  BY <1>1, <1>2

-----------------------------------------------------------------------------
(* free_count is exact, and it never falls below zero: the test that keeps *)
(* pmm_alloc_page() from decrementing zero is never needed.                *)
THEOREM PmmFreeCount == PmmSpec => [](PmmTypeOK /\ FreeCountExact)
<1>1. PmmInv => PmmTypeOK /\ FreeCountExact
  BY DEF PmmInv
<1> QED
  BY <1>1, PmmInitInv, PmmNextInv, PTL DEF PmmSpec

(* No page is lost, handed out twice, or taken from page 0, the bitmap or  *)
(* the kernel image.                                                       *)
THEOREM PmmPagesAccounted == PmmSpec => []PagesAccounted
<1>1. PmmInv => PagesAccounted
  BY DEF PmmInv
<1> QED
  BY <1>1, PmmInitInv, PmmNextInv, PTL DEF PmmSpec

-----------------------------------------------------------------------------
(* Bytes and pages.                                                        *)

(* The whole pages of a region lie in it.                                  *)
LEMMA RegionPageInside ==
  ASSUME NEW e \in [base : Nat, length : Nat, usable : BOOLEAN], NEW p \in RegionPages(e)
  PROVE  e.base <= p * PAGE_SIZE /\ p * PAGE_SIZE + PAGE_SIZE <= e.base + e.length
<1> DEFINE n == PAGE_SIZE
           b == e.base
           l == e.length
           a == (b + n - 1) \div n
           z == (b + l) \div n
<1>1. n \in Nat \ {0} /\ b \in Nat /\ l \in Nat /\ p \in Nat
  BY PmmAssumption, PagesFinite DEF RegionPages, PagesFrom
<1>2. /\ (a * n) \div n <= p
      /\ p * n + ((a * n) % n) < z * n
  BY DEF RegionPages, PagesFrom, RoundUp, RoundDown
<1>3. /\ a \in Nat /\ (b + n - 1) % n \in 0 .. n-1 /\ b + n - 1 = a * n + ((b + n - 1) % n)
      /\ z \in Nat /\ (b + l) % n \in 0 .. n-1 /\ b + l = z * n + ((b + l) % n)
  <2>1. b + n - 1 \in Nat /\ b + l \in Nat
    BY <1>1
  <2> QED
    BY <1>1, <2>1, DivMod
<1> HIDE DEF n, b, l, a, z
<1>4. (a * n) \div n = a /\ (a * n) % n = 0
  BY <1>1, <1>3
<1>5. b <= a * n /\ z * n <= b + l
  BY <1>1, <1>3
<1>6. a * n <= p * n
  BY <1>1, <1>2, <1>3, <1>4
<1>7. p < z
  <2>1. p * n < z * n
    BY <1>1, <1>2, <1>3, <1>4
  <2> QED
    BY <1>1, <1>3, <2>1, PageOrder
<1>8. p * n + n <= z * n
  BY <1>1, <1>3, <1>7, PageAbove
<1>9. a * n \in Int /\ p * n \in Int /\ z * n \in Int
  BY <1>1, <1>3
<1>10. b <= p * n /\ p * n + n <= b + l
  BY <1>1, <1>5, <1>6, <1>8, <1>9
<1> QED
  BY <1>10 DEF n, b, l

(* A page that the loop over [from, to) does not reserve shares no byte    *)
(* with it, if from is the start of a page.                                *)
LEMMA PageOutside ==
  ASSUME NEW from \in Nat, NEW to \in Nat, from % PAGE_SIZE = 0,
         NEW p \in AllPages, p \notin PagesFrom(from, to)
  PROVE  p * PAGE_SIZE + PAGE_SIZE <= from \/ to <= p * PAGE_SIZE
<1> DEFINE n == PAGE_SIZE
           f == from \div n
<1>1. n \in Nat \ {0} /\ p \in Nat
  BY PmmAssumption, PagesFinite
<1>2. f \in Nat /\ from = f * n
  <2>1. f \in Nat /\ from = f * n + (from % n)
    BY <1>1, DivMod
  <2> QED
    BY <1>1, <2>1
<1>3. ~ (f <= p) \/ ~ (p * n + (from % n) < to)
  BY DEF PagesFrom
<1> HIDE DEF n, f
<1>4. CASE ~ (f <= p)
  <2>1. p < f
    BY <1>1, <1>2, <1>4
  <2>2. p * n + n <= from
    BY <1>1, <1>2, <2>1, PageAbove
  <2> QED
    BY <2>2 DEF n
<1>5. CASE ~ (p * n + (from % n) < to)
  <2>1. from % n = 0 /\ p * n \in Nat
    BY <1>1 DEF n
  <2>2. to <= p * n
    BY <1>5, <2>1
  <2> QED
    BY <2>2 DEF n
<1> QED
  BY <1>3, <1>4, <1>5

LEMMA EntryOfMap ==
  ASSUME NEW R, NEW s \in Seq(R), NEW i \in 1..Len(s)
  PROVE  s[i] \in R
  OBVIOUS

(* The bitmap starts at the start of a page.                               *)
LEMMA BitmapAligned ==
  ASSUME NEW mm \in MemMaps, BitmapRegions(mm) # {}
  PROVE  bitmap_phys(mm) \in Nat /\ bitmap_phys(mm) % PAGE_SIZE = 0
<1>1. PAGE_SIZE \in Nat \ {0} /\ LowMemory \in Nat /\ LowMemory % PAGE_SIZE = 0
  BY PmmAssumption, LoaderAssumption
<1>2. mm \in Seq([base : Nat, length : Nat, usable : BOOLEAN])
  BY LoaderAssumption
<1>3. FirstRegion(mm) \in BitmapRegions(mm)
  <2>1. BitmapRegions(mm) \in SUBSET Nat
    BY <1>2 DEF BitmapRegions
  <2>2. \E i \in BitmapRegions(mm) : \A j \in BitmapRegions(mm) : i <= j
    BY <2>1, LeastNatural
  <2> QED
    BY <2>2 DEF FirstRegion
<1> DEFINE b == mm[FirstRegion(mm)].base
<1>4. b \in Nat
  <2>1. FirstRegion(mm) \in 1..Len(mm)
    BY <1>3 DEF BitmapRegions
  <2>2. mm[FirstRegion(mm)] \in [base : Nat, length : Nat, usable : BOOLEAN]
    BY <1>2, <2>1, EntryOfMap
  <2> QED
    BY <2>2
<1>5. RoundUp(b) \in Nat /\ RoundUp(b) % PAGE_SIZE = 0
  <2>1. b + PAGE_SIZE - 1 \in Nat
    BY <1>1, <1>4
  <2>2. (b + PAGE_SIZE - 1) \div PAGE_SIZE \in Nat
    BY <1>1, <2>1, DivMod
  <2>3. \A a \in Nat : a * PAGE_SIZE \in Nat /\ (a * PAGE_SIZE) % PAGE_SIZE = 0
    BY <1>1
  <2> QED
    BY <2>2, <2>3 DEF RoundUp
<1> QED
  BY <1>1, <1>5 DEF bitmap_phys, BitmapStart

-----------------------------------------------------------------------------
(* A page that was handed out is usable memory with all its bytes, and     *)
(* neither the bitmap nor the kernel is in it (HandedOutIsSafe:            *)
(* pmm.c:80-115).                                                          *)
LEMMA HeldIsSafe ==
  ASSUME PmmInv, up = "up" => BitmapRegions(mmap.map) # {}
  PROVE  HandedOutIsSafe
<1> SUFFICES ASSUME NEW p \in held
             PROVE  LET from == p * PAGE_SIZE
                        to == from + PAGE_SIZE
                        bm == bitmap_phys(mmap.map)
                    IN  /\ p # 0
                        /\ \E e \in Usable(mmap.map) : e.base <= from /\ to <= e.base + e.length
                        /\ to <= bm \/ bm + BITMAP_BYTES <= from
                        /\ to <= mmap.kernel.start \/ mmap.kernel.end <= from
  BY DEF HandedOutIsSafe
<1> DEFINE mm == mmap.map
           k == mmap.kernel
<1>1. /\ up = "up" /\ mm \in MemMaps /\ k \in KernelImages /\ p \in AllPages
      /\ p \in UsablePages(mm) /\ p \notin Reserved(mm, k)
  BY DEF PmmInv, PmmTypeOK, PagesAccounted
<1>2. /\ p # 0 /\ p \notin PagesFrom(bitmap_phys(mm), bitmap_phys(mm) + BITMAP_BYTES)
      /\ p \notin PagesFrom(k.start, k.end)
  BY <1>1 DEF Reserved, BitmapPages
<1>3. PICK e \in Usable(mm) : p \in RegionPages(e)
  BY <1>1 DEF UsablePages
<1>4. e \in [base : Nat, length : Nat, usable : BOOLEAN]
  <2>1. mm \in Seq([base : Nat, length : Nat, usable : BOOLEAN])
    BY <1>1, LoaderAssumption
  <2>2. PICK i \in 1..Len(mm) : e = mm[i]
    BY <1>3 DEF Usable
  <2> QED
    BY <2>1, <2>2, EntryOfMap
<1>5. e.base <= p * PAGE_SIZE /\ p * PAGE_SIZE + PAGE_SIZE <= e.base + e.length
  BY <1>3, <1>4, RegionPageInside
<1>6. bitmap_phys(mm) \in Nat /\ bitmap_phys(mm) % PAGE_SIZE = 0
  BY <1>1, BitmapAligned
<1>7. \/ p * PAGE_SIZE + PAGE_SIZE <= bitmap_phys(mm)
      \/ bitmap_phys(mm) + BITMAP_BYTES <= p * PAGE_SIZE
  <2>1. bitmap_phys(mm) + BITMAP_BYTES \in Nat
    BY <1>6, LoaderAssumption
  <2> QED
    BY <1>1, <1>2, <1>6, <2>1, PageOutside
<1>8. p * PAGE_SIZE + PAGE_SIZE <= k.start \/ k.end <= p * PAGE_SIZE
  <2>1. k.start \in Nat /\ k.end \in Nat /\ k.start % PAGE_SIZE = 0
    BY <1>1, LoaderAssumption
  <2> QED
    BY <1>1, <1>2, <2>1, PageOutside
<1> QED
  BY <1>2, <1>3, <1>5, <1>7, <1>8

(* pmm_alloc_page() never hands out a page that is not wholly usable, that  *)
(* holds a byte of the bitmap or of the kernel, or page 0 (pmm.c:80-146).   *)
THEOREM PmmHandedOut == PmmSpec => []HandedOutIsSafe
<1> DEFINE Inv == PmmInv /\ (up = "up" => BitmapRegions(mmap.map) # {})
<1>1. PmmInit => Inv
  BY PmmInitInv DEF PmmInit
<1>2. Inv /\ [PmmNext]_pmmVars => Inv'
  <2> SUFFICES ASSUME Inv, [PmmNext]_pmmVars PROVE Inv'
    OBVIOUS
  <2>1. PmmInv'
    BY PmmNextInv
  <2>2. (up = "up" => BitmapRegions(mmap.map) # {})'
    BY DEF PmmNext, InitBitmap, AllocPage, FreePage, pmmVars
  <2> QED
    BY <2>1, <2>2
<1>3. Inv => HandedOutIsSafe
  BY HeldIsSafe
<1> QED
  BY <1>1, <1>2, <1>3, PTL DEF PmmSpec

-----------------------------------------------------------------------------
(* The zone allocator.                                                     *)

ZoneRecord ==
  [ elem_size : Nat \ {0}, max_size : Nat, cur_size : Nat, free_list : Seq(Nat),
    count_free : Nat, count_alloc : Nat, pages : SUBSET AllPages, out : SUBSET Nat ]

\* d is one of the elements that zone_grow() cuts from page p.
CutFrom(z, p, d) == \E j \in 0 .. ElementsPerPage(z) - 1 : d = p * PAGE_SIZE + j * z.elem_size

\* What holds of one zone.  The free list has no repetition, no element is
\* free and with a caller, the counters count them, the elements were cut
\* from the zone's pages, and none of a page was lost.
ZoneWF(z) ==
  /\ z \in ZoneRecord
  /\ z.elem_size % POINTER_SIZE = 0
  /\ \A k, l \in 1..Len(z.free_list) : z.free_list[k] = z.free_list[l] => k = l
  /\ \A k \in 1..Len(z.free_list) : z.free_list[k] \notin z.out
  /\ \A k \in 1..Len(z.free_list) : \E p \in z.pages : CutFrom(z, p, z.free_list[k])
  /\ \A d \in z.out : \E p \in z.pages : CutFrom(z, p, d)
  /\ z.count_free = Len(z.free_list)
  /\ IsFiniteSet(z.out) /\ z.count_alloc = Cardinality(z.out)
  /\ z.count_free + z.count_alloc = Cardinality(z.pages) * ElementsPerPage(z)
  /\ z.cur_size = PAGE_SIZE * Cardinality(z.pages)
  /\ z.max_size # 0 => z.cur_size < z.max_size + PAGE_SIZE

\* The pages of the zones are held and are not shared; every zone is as above.
PagesApart ==
  /\ \A i \in 1..Len(zones) : zones[i].pages \subseteq held
  /\ \A i, j \in 1..Len(zones) : i # j => zones[i].pages \cap zones[j].pages = {}

ZoneInv ==
  /\ zones \in Seq(ZoneRecord)
  /\ \A i \in 1..Len(zones) : ZoneWF(zones[i])
  /\ PagesApart

-----------------------------------------------------------------------------
(* The zones use the physical memory manager and nothing else of it: every *)
(* step of a zone is a step of it, or none (zalloc.c:46-66).               *)
LEMMA ZoneStepIsPmmStep == [ZoneNext]_<<pmmVars, zoneVars>> => [PmmNext]_pmmVars
<1> SUFFICES ASSUME [ZoneNext]_<<pmmVars, zoneVars>>
             PROVE  [PmmNext]_pmmVars
  OBVIOUS
<1>1. CASE ZoneNext
  <2>1. CASE InitBitmap /\ UNCHANGED zoneVars
    BY <2>1 DEF PmmNext
  <2>2. CASE \E p \in AllPages : AllocPage(p) /\ UNCHANGED zoneVars
    BY <2>2 DEF PmmNext
  <2>3. CASE \E p \in AllPages \ ZonePages : FreePage(p) /\ UNCHANGED zoneVars
    BY <2>3 DEF PmmNext
  <2>4. CASE \E size \in ElemSizes, max \in MaxSizes : zinit(size, max)
    BY <2>4 DEF zinit
  <2>5. CASE \E i \in 1..Len(zones) : ZallocFree(i)
    BY <2>5 DEF ZallocFree
  <2>6. CASE \E i \in 1..Len(zones) : \E p \in AllPages : ZallocGrow(i, p)
    BY <2>6 DEF ZallocGrow, PmmNext
  <2>7. CASE \E i \in 1..Len(zones) : \E e \in zones[i].out : zfree(i, e)
    BY <2>7 DEF zfree
  <2> QED
    BY <1>1, <2>1, <2>2, <2>3, <2>4, <2>5, <2>6, <2>7 DEF ZoneNext
<1>2. CASE UNCHANGED <<pmmVars, zoneVars>>
  BY <1>2
<1> QED
  BY <1>1, <1>2

(* The physical memory manager works for the zones as it does alone, so    *)
(* that free_count, the account of the pages and the safety of what is     *)
(* handed out hold of the kernel with zones (zalloc.c:46-66, pmm.c:80-146).*)
THEOREM ZoneUsesPmm == ZoneSpec => PmmSpec
<1>1. ZoneInit => PmmInit
  BY DEF ZoneInit
<1> QED
  BY <1>1, ZoneStepIsPmmStep, PTL DEF ZoneSpec, PmmSpec

-----------------------------------------------------------------------------
(* One zone.                                                               *)

LEMMA ElemSizeOK ==
  ASSUME NEW size \in Nat
  PROVE  ElemSize(size) \in Nat \ {0} /\ ElemSize(size) % POINTER_SIZE = 0
<1> DEFINE n == POINTER_SIZE
           s == IF size < n THEN n ELSE size
           q == (s + n - 1) \div n
<1>1. n \in Nat \ {0} /\ s \in Nat /\ s >= n
  BY ZoneAssumption
<1>2. q \in Nat /\ (s + n - 1) % n \in 0 .. n-1 /\ s + n - 1 = q * n + ((s + n - 1) % n)
  <2>1. s + n - 1 \in Nat
    BY <1>1
  <2> QED
    BY <1>1, <2>1, DivMod
<1>3. ElemSize(size) = q * n
  BY DEF ElemSize
<1> HIDE DEF n, s, q
<1>4. q * n \in Nat /\ q * n > 0
  BY <1>1, <1>2
<1>5. (q * n) % n = 0
  BY <1>1, <1>2, MultipleMod
<1> QED
  BY <1>3, <1>4, <1>5 DEF n

LEMMA FreshZone ==
  ASSUME NEW size \in ElemSizes, NEW max \in MaxSizes
  PROVE  ZoneWF([ elem_size |-> ElemSize(size), max_size |-> max, cur_size |-> 0,
                  free_list |-> << >>, count_free |-> 0, count_alloc |-> 0,
                  pages |-> {}, out |-> {} ])
<1> DEFINE z == [ elem_size |-> ElemSize(size), max_size |-> max, cur_size |-> 0,
                  free_list |-> << >>, count_free |-> 0, count_alloc |-> 0,
                  pages |-> {}, out |-> {} ]
<1>1. size \in Nat /\ max \in Nat /\ PAGE_SIZE \in Nat \ {0}
  BY ZoneAssumption, PmmAssumption
<1>2. ElemSize(size) \in Nat \ {0} /\ ElemSize(size) % POINTER_SIZE = 0
  BY <1>1, ElemSizeOK
<1>3. << >> \in Seq(Nat)
  OBVIOUS
<1>4. z \in ZoneRecord
  BY <1>1, <1>2, <1>3 DEF ZoneRecord
<1>5. /\ z.elem_size = ElemSize(size) /\ z.max_size = max /\ z.cur_size = 0 /\ z.free_list = << >>
      /\ z.count_free = 0 /\ z.count_alloc = 0 /\ z.pages = {} /\ z.out = {}
  OBVIOUS
<1> HIDE DEF z
<1>6. Len(z.free_list) = 0 /\ Cardinality({}) = 0 /\ IsFiniteSet({})
  BY <1>5, FS_EmptySet
<1>7. ElementsPerPage(z) \in Nat
  BY <1>1, <1>2, <1>5, DivMod DEF ElementsPerPage
<1>8. ZoneWF(z)
  BY <1>1, <1>2, <1>4, <1>5, <1>6, <1>7 DEF ZoneWF
<1> QED
  BY <1>8 DEF z

\* zfree() of e, as seen by its zone.
PushFree(z, e) ==
  [z EXCEPT !.free_list = <<e>> \o @, !.count_free = @ + 1, !.count_alloc = @ - 1,
            !.out = @ \ {e}]

LEMMA ListUpdate ==
  ASSUME NEW z \in ZoneRecord, NEW f \in Seq(Nat), NEW n \in Nat, NEW m \in Nat,
         NEW o \in SUBSET Nat
  PROVE  [z EXCEPT !.free_list = f, !.count_free = n, !.count_alloc = m, !.out = o] \in ZoneRecord
  BY DEF ZoneRecord

LEMMA ZonePageCount ==
  ASSUME NEW z, ZoneWF(z)
  PROVE  /\ IsFiniteSet(z.pages) /\ Cardinality(z.pages) \in Nat
         /\ ElementsPerPage(z) \in Nat /\ Cardinality(z.out) \in Nat
<1>1. z.pages \subseteq AllPages /\ z.elem_size \in Nat \ {0}
  BY DEF ZoneWF, ZoneRecord
<1>2. IsFiniteSet(z.pages) /\ IsFiniteSet(z.out)
  BY <1>1, PagesFinite, FS_Subset DEF ZoneWF
<1> QED
  BY <1>1, <1>2, FS_CardinalityType, PmmAssumption, DivMod DEF ElementsPerPage

LEMMA PopZone ==
  ASSUME NEW z, ZoneWF(z), z.free_list # << >>
  PROVE  /\ ZoneWF(PopFree(z))
         /\ PopFree(z).pages = z.pages /\ PopFree(z).elem_size = z.elem_size
<1> DEFINE y == PopFree(z)
           f == z.free_list
           e == Head(f)
<1>1. /\ z \in ZoneRecord /\ f \in Seq(Nat) /\ z.count_free \in Nat /\ z.count_alloc \in Nat
      /\ z.out \in SUBSET Nat
  BY DEF ZoneWF, ZoneRecord
<1>2. /\ Len(f) \in Nat /\ Len(f) > 0 /\ e = f[1] /\ e \in Nat /\ Tail(f) \in Seq(Nat)
      /\ Len(Tail(f)) = Len(f) - 1
      /\ \A k \in 1..Len(Tail(f)) : Tail(f)[k] = f[k+1] /\ k+1 \in 1..Len(f)
  BY <1>1
<1>3. /\ y.free_list = Tail(f) /\ y.out = z.out \cup {e}
      /\ y.count_free = z.count_free - 1 /\ y.count_alloc = z.count_alloc + 1
      /\ y.elem_size = z.elem_size /\ y.max_size = z.max_size
      /\ y.cur_size = z.cur_size /\ y.pages = z.pages
  BY <1>1 DEF PopFree, ZoneRecord
<1>4. y \in ZoneRecord
  <2>1. z.count_free - 1 \in Nat
    BY <1>1, <1>2 DEF ZoneWF
  <2>2. z.count_alloc + 1 \in Nat /\ z.out \cup {e} \in SUBSET Nat
    BY <1>1, <1>2
  <2>3. y = [z EXCEPT !.free_list = Tail(f), !.count_free = z.count_free - 1,
                      !.count_alloc = z.count_alloc + 1, !.out = z.out \cup {e}]
    BY DEF PopFree
  <2> HIDE DEF y, e, f
  <2> QED
    BY <1>1, <1>2, <2>1, <2>2, <2>3, ListUpdate
<1>5. e \notin z.out /\ (\E p \in z.pages : CutFrom(z, p, e))
  BY <1>2 DEF ZoneWF
<1>6. \A p, d : CutFrom(y, p, d) <=> CutFrom(z, p, d)
  BY <1>3 DEF CutFrom, ElementsPerPage
<1>7. ElementsPerPage(y) = ElementsPerPage(z)
  BY <1>3 DEF ElementsPerPage
<1>8. IsFiniteSet(y.out) /\ y.count_alloc = Cardinality(y.out)
  <2>1. IsFiniteSet(z.out) /\ z.count_alloc = Cardinality(z.out)
    BY DEF ZoneWF
  <2>2. IsFiniteSet(z.out \cup {e}) /\ Cardinality(z.out \cup {e}) = Cardinality(z.out) + 1
    BY <1>5, <2>1, FS_AddElement
  <2> QED
    BY <1>3, <2>1, <2>2
<1> HIDE DEF y
<1>9. /\ \A k, l \in 1..Len(Tail(f)) : Tail(f)[k] = Tail(f)[l] => k = l
      /\ \A k \in 1..Len(Tail(f)) : Tail(f)[k] \notin z.out \cup {e}
      /\ \A k \in 1..Len(Tail(f)) : \E p \in z.pages : CutFrom(z, p, Tail(f)[k])
  <2>1. /\ \A k, l \in 1..Len(f) : f[k] = f[l] => k = l
        /\ \A k \in 1..Len(f) : f[k] \notin z.out
        /\ \A k \in 1..Len(f) : \E p \in z.pages : CutFrom(z, p, f[k])
    BY DEF ZoneWF
  <2> HIDE DEF f
  <2>2. \A k, l \in 1..Len(Tail(f)) : Tail(f)[k] = Tail(f)[l] => k = l
    BY <1>2, <2>1
  <2>3. \A k \in 1..Len(Tail(f)) : Tail(f)[k] \notin z.out /\ Tail(f)[k] # e
    BY <1>2, <2>1
  <2> QED
    BY <1>2, <2>1, <2>2, <2>3
<1>10. y.count_free = Len(y.free_list) /\ y.count_free + y.count_alloc = z.count_free + z.count_alloc
  <2>1. z.count_free = Len(f)
    BY DEF ZoneWF
  <2> HIDE DEF f
  <2> QED
    BY <1>1, <1>2, <1>3, <2>1
<1>11. ZoneWF(y)
  <2>1. /\ z.elem_size % POINTER_SIZE = 0
        /\ \A d \in z.out : \E p \in z.pages : CutFrom(z, p, d)
        /\ z.count_free + z.count_alloc = Cardinality(z.pages) * ElementsPerPage(z)
        /\ z.cur_size = PAGE_SIZE * Cardinality(z.pages)
        /\ z.max_size # 0 => z.cur_size < z.max_size + PAGE_SIZE
    BY DEF ZoneWF
  <2>2. \A d \in y.out : \E p \in z.pages : CutFrom(y, p, d)
    BY <1>3, <1>5, <1>6, <2>1
  <2>3. \A k \in 1..Len(y.free_list) : \E p \in y.pages : CutFrom(y, p, y.free_list[k])
    BY <1>3, <1>6, <1>9
  <2> QED
    BY <1>3, <1>4, <1>7, <1>8, <1>9, <1>10, <2>1, <2>2, <2>3 DEF ZoneWF
<1> QED
  BY <1>3, <1>11 DEF y

LEMMA PushZone ==
  ASSUME NEW z, ZoneWF(z), NEW e \in z.out
  PROVE  /\ ZoneWF(PushFree(z, e))
         /\ PushFree(z, e).pages = z.pages /\ PushFree(z, e).elem_size = z.elem_size
<1> DEFINE y == PushFree(z, e)
           f == z.free_list
           g == <<e>> \o f
<1>1. /\ z \in ZoneRecord /\ f \in Seq(Nat) /\ z.count_free \in Nat /\ z.count_alloc \in Nat
      /\ z.out \in SUBSET Nat /\ e \in Nat
  BY DEF ZoneWF, ZoneRecord
<1>2. /\ Len(f) \in Nat /\ g \in Seq(Nat) /\ Len(g) = Len(f) + 1
      /\ g[1] = e
      /\ \A k \in 1..Len(g) : k # 1 => g[k] = f[k-1] /\ k-1 \in 1..Len(f)
  BY <1>1
<1>3. /\ y.free_list = g /\ y.out = z.out \ {e}
      /\ y.count_free = z.count_free + 1 /\ y.count_alloc = z.count_alloc - 1
      /\ y.elem_size = z.elem_size /\ y.max_size = z.max_size
      /\ y.cur_size = z.cur_size /\ y.pages = z.pages
  BY <1>1 DEF PushFree, ZoneRecord
<1>4. /\ IsFiniteSet(z.out \ {e}) /\ Cardinality(z.out \ {e}) = z.count_alloc - 1
      /\ z.count_alloc - 1 \in Nat
  <2>1. IsFiniteSet(z.out) /\ z.count_alloc = Cardinality(z.out)
    BY DEF ZoneWF
  <2>2. IsFiniteSet(z.out \ {e}) /\ Cardinality(z.out \ {e}) = Cardinality(z.out) - 1
    BY <2>1, FS_RemoveElement
  <2>3. Cardinality(z.out \ {e}) \in Nat
    BY <2>2, FS_CardinalityType
  <2> QED
    BY <2>1, <2>2, <2>3
<1>5. y \in ZoneRecord
  <2>1. z.count_free + 1 \in Nat /\ z.out \ {e} \in SUBSET Nat
    BY <1>1
  <2>2. y = [z EXCEPT !.free_list = g, !.count_free = z.count_free + 1,
                      !.count_alloc = z.count_alloc - 1, !.out = z.out \ {e}]
    BY DEF PushFree
  <2> HIDE DEF y, g
  <2> QED
    BY <1>1, <1>2, <1>4, <2>1, <2>2, ListUpdate
<1>6. \A p, d : CutFrom(y, p, d) <=> CutFrom(z, p, d)
  BY <1>3 DEF CutFrom, ElementsPerPage
<1>7. ElementsPerPage(y) = ElementsPerPage(z)
  BY <1>3 DEF ElementsPerPage
<1> HIDE DEF y
<1>8. /\ z.elem_size % POINTER_SIZE = 0
      /\ \A d \in z.out : \E p \in z.pages : CutFrom(z, p, d)
      /\ z.count_free = Len(f)
      /\ z.count_free + z.count_alloc = Cardinality(z.pages) * ElementsPerPage(z)
      /\ z.cur_size = PAGE_SIZE * Cardinality(z.pages)
      /\ z.max_size # 0 => z.cur_size < z.max_size + PAGE_SIZE
      /\ \A k, l \in 1..Len(f) : f[k] = f[l] => k = l
      /\ \A k \in 1..Len(f) : f[k] \notin z.out
      /\ \A k \in 1..Len(f) : \E p \in z.pages : CutFrom(z, p, f[k])
  BY DEF ZoneWF
<1> HIDE DEF f, g
<1>9. \A k, l \in 1..Len(g) : g[k] = g[l] => k = l
  <2> SUFFICES ASSUME NEW k \in 1..Len(g), NEW l \in 1..Len(g), g[k] = g[l], k # l
               PROVE  FALSE
    OBVIOUS
  <2>0. \A m \in 1..Len(g) : m # 1 => g[m] # g[1]
    <3> TAKE m \in 1..Len(g)
    <3> HAVE m # 1
    <3>1. g[m] = f[m-1] /\ m-1 \in 1..Len(f)
      BY <1>2
    <3>2. f[m-1] \notin z.out
      BY <1>8, <3>1
    <3> QED
      BY <1>2, <3>1, <3>2
  <2>1. CASE k = 1
    BY <2>0, <2>1
  <2>2. CASE l = 1
    BY <2>0, <2>2
  <2>3. CASE k # 1 /\ l # 1
    <3>1. k - 1 = l - 1
      BY <1>2, <1>8, <2>3
    <3> QED
      BY <1>2, <3>1
  <2> QED
    BY <2>1, <2>2, <2>3
<1>10. \A k \in 1..Len(g) : g[k] \notin z.out \ {e} /\ (\E p \in z.pages : CutFrom(z, p, g[k]))
  <2> TAKE k \in 1..Len(g)
  <2>1. CASE k = 1
    BY <1>2, <1>8, <2>1
  <2>2. CASE k # 1
    BY <1>2, <1>8, <2>2
  <2> QED
    BY <2>1, <2>2
<1>11. y.count_free = Len(y.free_list) /\ y.count_free + y.count_alloc = z.count_free + z.count_alloc
  BY <1>1, <1>2, <1>3, <1>8
<1>12. ZoneWF(y)
  <2>1. \A d \in y.out : \E p \in y.pages : CutFrom(y, p, d)
    BY <1>3, <1>6, <1>8
  <2>2. \A k \in 1..Len(y.free_list) : \E p \in y.pages : CutFrom(y, p, y.free_list[k])
    BY <1>3, <1>6, <1>10
  <2>3. \A k \in 1..Len(y.free_list) : y.free_list[k] \notin y.out
    BY <1>3, <1>10
  <2> QED
    BY <1>3, <1>4, <1>5, <1>7, <1>8, <1>9, <1>11, <2>1, <2>2, <2>3 DEF ZoneWF
<1> QED
  BY <1>3, <1>12 DEF y

LEMMA PageUpdate ==
  ASSUME NEW z \in ZoneRecord, NEW f \in Seq(Nat), NEW n \in Nat, NEW c \in Nat,
         NEW s \in SUBSET AllPages
  PROVE  [z EXCEPT !.free_list = f, !.count_free = n, !.cur_size = c, !.pages = s] \in ZoneRecord
  BY DEF ZoneRecord

LEMMA CutDistinct ==
  ASSUME NEW a \in Nat, NEW s \in Nat \ {0}, NEW j \in Nat, NEW k \in Nat,
         a + j * s = a + k * s
  PROVE  j = k
<1>1. j * s \in Nat /\ k * s \in Nat
  OBVIOUS
<1>2. j * s = k * s
  BY <1>1
<1>3. ~ (j < k) /\ ~ (k < j)
  BY <1>1, <1>2, PageAbove
<1> QED
  BY <1>3

(* What is cut from a page lies in it.                                     *)
LEMMA CutInPage ==
  ASSUME NEW n \in Nat \ {0}, NEW s \in Nat \ {0}, NEW p \in Nat, NEW j \in 0 .. (n \div s) - 1
  PROVE  /\ p * n + j * s \in Nat /\ p * n <= p * n + j * s
         /\ p * n + j * s + s <= p * n + n
<1> DEFINE q == n \div s
<1>1. q \in Nat /\ n % s \in 0 .. s-1 /\ n = q * s + (n % s) /\ j \in Nat
  BY DivMod
<1>2. j < q
  BY <1>1
<1> HIDE DEF q
<1>3. j * s + s <= q * s
  BY <1>1, <1>2, PageAbove
<1>4. p * n \in Nat /\ j * s \in Nat /\ q * s \in Nat
  BY <1>1
<1>5. q * s <= n
  BY <1>1, <1>4
<1> QED
  BY <1>3, <1>4, <1>5

LEMMA GrowZone ==
  ASSUME NEW z, ZoneWF(z), z.free_list = << >>, MayGrow(z),
         NEW p \in AllPages, p \notin z.pages
  PROVE  /\ ZoneWF(zone_grow(z, p))
         /\ zone_grow(z, p).pages = z.pages \cup {p}
         /\ zone_grow(z, p).elem_size = z.elem_size
         /\ Len(zone_grow(z, p).free_list) = ElementsPerPage(z)
<1> DEFINE y == zone_grow(z, p)
           P == PAGE_SIZE
           s == z.elem_size
           n == ElementsPerPage(z)
           f == [i \in 1..n |-> p * PAGE_SIZE + (n - i) * z.elem_size]
<1>1. /\ z \in ZoneRecord /\ z.count_free \in Nat /\ z.count_alloc \in Nat /\ z.cur_size \in Nat
      /\ z.max_size \in Nat /\ z.out \in SUBSET Nat /\ z.pages \in SUBSET AllPages
      /\ s \in Nat \ {0}
  BY DEF ZoneWF, ZoneRecord
<1>2. /\ P \in Nat \ {0} /\ p \in Nat /\ n \in Nat /\ n = P \div s
      /\ IsFiniteSet(z.pages) /\ Cardinality(z.pages) \in Nat
  BY PmmAssumption, PagesFinite, ZonePageCount DEF ElementsPerPage
<1>3. /\ z.elem_size % POINTER_SIZE = 0
      /\ \A d \in z.out : \E q \in z.pages : CutFrom(z, q, d)
      /\ z.count_free = 0 /\ IsFiniteSet(z.out) /\ z.count_alloc = Cardinality(z.out)
      /\ z.count_free + z.count_alloc = Cardinality(z.pages) * n
      /\ z.cur_size = P * Cardinality(z.pages)
  BY DEF ZoneWF
<1>4. f \in Seq(Nat) /\ Len(f) = n
  <2>1. \A i \in 1..n : p * P + (n - i) * s \in Nat
    <3> TAKE i \in 1..n
    <3>1. n - i \in Nat
      BY <1>2
    <3>2. p * P \in Nat /\ (n - i) * s \in Nat
      BY <1>1, <1>2, <3>1
    <3> QED
      BY <3>2
  <2> QED
    BY <1>2, <2>1
<1>5. f \o << >> = f
  BY <1>4
<1>6. y = [z EXCEPT !.free_list = f, !.count_free = z.count_free + n,
                    !.cur_size = z.cur_size + P, !.pages = z.pages \cup {p}]
  BY <1>5 DEF zone_grow
<1>7. /\ y.free_list = f /\ y.out = z.out
      /\ y.count_free = n /\ y.count_alloc = z.count_alloc
      /\ y.elem_size = s /\ y.max_size = z.max_size
      /\ y.cur_size = z.cur_size + P /\ y.pages = z.pages \cup {p}
  <2> HIDE DEF y, f, n, P
  <2> QED
    BY <1>1, <1>2, <1>3, <1>6 DEF ZoneRecord
<1>8. y \in ZoneRecord
  <2>1. z.count_free + n \in Nat /\ z.cur_size + P \in Nat /\ z.pages \cup {p} \in SUBSET AllPages
    BY <1>1, <1>2
  <2> HIDE DEF y, f, n, P
  <2> QED
    BY <1>1, <1>4, <1>6, <2>1, PageUpdate
<1>9. \A i \in 1..n : f[i] = p * P + (n - i) * s /\ n - i \in 0 .. n-1
  BY <1>2
<1>10. ElementsPerPage(y) = n
  BY <1>7 DEF ElementsPerPage
<1>11. \A q, d : CutFrom(y, q, d) <=> CutFrom(z, q, d)
  <2> HIDE DEF y
  <2> QED
    BY <1>7, <1>10 DEF CutFrom
<1>12. \A i \in 1..n : CutFrom(z, p, f[i])
  BY <1>9 DEF CutFrom
<1> HIDE DEF y, f
<1>13. \A k, l \in 1..n : f[k] = f[l] => k = l
  <2> SUFFICES ASSUME NEW k \in 1..n, NEW l \in 1..n, f[k] = f[l] PROVE k = l
    OBVIOUS
  <2>1. p * P + (n - k) * s = p * P + (n - l) * s /\ n - k \in Nat /\ n - l \in Nat /\ p * P \in Nat
    BY <1>2, <1>9
  <2>2. n - k = n - l
    BY <1>1, <2>1, CutDistinct
  <2> QED
    BY <1>2, <2>2
<1>14. \A k \in 1..n : f[k] \notin z.out
  <2> SUFFICES ASSUME NEW k \in 1..n, f[k] \in z.out PROVE FALSE
    OBVIOUS
  <2>1. PICK q \in z.pages : CutFrom(z, q, f[k])
    BY <1>3
  <2>2. q \in Nat /\ q # p
    BY <1>1, <2>1, PagesFinite
  <2>3. PICK i \in 0 .. n-1 : f[k] = p * P + i * s
    BY <1>12 DEF CutFrom
  <2>4. PICK j \in 0 .. n-1 : f[k] = q * P + j * s
    BY <2>1 DEF CutFrom
  <2>5. p * P <= f[k] /\ f[k] + s <= p * P + P /\ q * P <= f[k] /\ f[k] + s <= q * P + P /\ f[k] \in Nat
    <3> HIDE DEF P, s, n
    <3>1. i \in 0 .. (P \div s) - 1 /\ j \in 0 .. (P \div s) - 1
      BY <1>2, <2>3, <2>4
    <3>2. /\ p * P + i * s \in Nat /\ p * P <= p * P + i * s
          /\ p * P + i * s + s <= p * P + P
      BY <1>1, <1>2, <3>1, CutInPage
    <3>3. /\ q * P + j * s \in Nat /\ q * P <= q * P + j * s
          /\ q * P + j * s + s <= q * P + P
      BY <1>1, <1>2, <2>2, <3>1, CutInPage
    <3> QED
      BY <2>3, <2>4, <3>2, <3>3
  <2>6. p * P \in Nat /\ q * P \in Nat
    BY <1>2, <2>2
  <2>7. p < q \/ q < p
    BY <1>2, <2>2
  <2>8. p * P + P <= q * P \/ q * P + P <= p * P
    BY <1>2, <2>2, <2>7, PageAbove
  <2> HIDE DEF P, s, n
  <2> QED
    BY <1>1, <1>2, <2>5, <2>6, <2>8
<1>15. /\ IsFiniteSet(y.pages) /\ Cardinality(y.pages) = Cardinality(z.pages) + 1
  <2>1. /\ IsFiniteSet(z.pages \cup {p})
        /\ Cardinality(z.pages \cup {p}) = Cardinality(z.pages) + 1
    BY <1>2, FS_AddElement
  <2> QED
    BY <1>7, <2>1
<1> DEFINE c == Cardinality(z.pages)
<1>16. y.count_free + y.count_alloc = Cardinality(y.pages) * n
  <2>1. z.count_alloc = c * n
    BY <1>1, <1>2, <1>3
  <2> HIDE DEF n, c
  <2>2. c \in Nat /\ Cardinality(y.pages) = c + 1
    BY <1>2, <1>15 DEF c
  <2>3. n + c * n = (c + 1) * n
    BY <1>2, <2>2
  <2> QED
    BY <1>7, <2>1, <2>2, <2>3
<1>17. y.cur_size = P * Cardinality(y.pages)
  <2> HIDE DEF P, c
  <2>1. c \in Nat /\ Cardinality(y.pages) = c + 1 /\ z.cur_size = P * c
    BY <1>2, <1>3, <1>15 DEF c
  <2>2. P * c + P = P * (c + 1)
    BY <1>2, <2>1
  <2> QED
    BY <1>7, <2>1, <2>2
<1>18. y.max_size # 0 => y.cur_size < y.max_size + P
  BY <1>1, <1>2, <1>7 DEF MayGrow
<1>19. ZoneWF(y)
  <2>1. \A d \in y.out : \E q \in y.pages : CutFrom(y, q, d)
    BY <1>3, <1>7, <1>11
  <2>2. \A k \in 1..Len(y.free_list) : \E q \in y.pages : CutFrom(y, q, y.free_list[k])
    BY <1>4, <1>7, <1>11, <1>12
  <2>3. y.count_free = Len(y.free_list) /\ IsFiniteSet(y.out) /\ y.count_alloc = Cardinality(y.out)
    BY <1>3, <1>4, <1>7
  <2>4. /\ \A k, l \in 1..Len(y.free_list) : y.free_list[k] = y.free_list[l] => k = l
        /\ \A k \in 1..Len(y.free_list) : y.free_list[k] \notin y.out
    BY <1>4, <1>7, <1>13, <1>14
  <2> HIDE DEF n
  <2> QED
    BY <1>3, <1>7, <1>8, <1>10, <1>16, <1>17, <1>18, <2>1, <2>2, <2>3, <2>4 DEF ZoneWF
<1> QED
  BY <1>4, <1>7, <1>19 DEF y

-----------------------------------------------------------------------------
(* All zones.                                                              *)

LEMMA ZoneTyped ==
  ASSUME ZoneInv, NEW i \in 1..Len(zones)
  PROVE  /\ zones[i] \in ZoneRecord /\ ZoneWF(zones[i]) /\ zones[i].pages \subseteq held
         /\ zones[i].pages \subseteq AllPages
  BY DEF ZoneInv, ZoneWF, ZoneRecord, PagesApart

\* Zone i becomes y, whose pages are those of the old one and possibly one
\* that no zone had.
LEMMA ZoneReplaced ==
  ASSUME ZoneInv, NEW i \in 1..Len(zones), NEW y, ZoneWF(y),
         zones' = [zones EXCEPT ![i] = y],
         held \subseteq held', y.pages \subseteq held',
         \A q \in y.pages : q \in zones[i].pages \/ q \notin held
  PROVE  ZoneInv'
<1>1. y \in ZoneRecord /\ zones \in Seq(ZoneRecord)
  BY DEF ZoneWF, ZoneInv
<1>2. /\ zones' \in Seq(ZoneRecord) /\ Len(zones') = Len(zones)
      /\ zones'[i] = y /\ \A j \in 1..Len(zones) : j # i => zones'[j] = zones[j]
  <2> DEFINE R == ZoneRecord
  <2> HIDE DEF R
  <2>1. y \in R /\ zones \in Seq(R)
    BY <1>1 DEF R
  <2>2. zones' \in Seq(R)
    BY <2>1
  <2> QED
    BY <2>1, <2>2 DEF R
<1>3. \A j \in 1..Len(zones') : ZoneWF(zones'[j])
  BY <1>2, ZoneTyped
<1>4. \A j \in 1..Len(zones') : zones'[j].pages \subseteq held'
  BY <1>2, ZoneTyped
<1>5. \A j, k \in 1..Len(zones') : j # k => zones'[j].pages \cap zones'[k].pages = {}
  <2>1. \A j \in 1..Len(zones) : j # i => y.pages \cap zones[j].pages = {}
    BY ZoneTyped DEF ZoneInv, PagesApart
  <2>2. \A j, k \in 1..Len(zones) : j # k => zones[j].pages \cap zones[k].pages = {}
    BY DEF ZoneInv, PagesApart
  <2> QED
    BY <1>2, <2>1, <2>2
<1> QED
  BY <1>2, <1>3, <1>4, <1>5 DEF ZoneInv, PagesApart

LEMMA ZoneInitInv == ZoneInit => ZoneInv
  BY DEF ZoneInit, ZoneInv, PagesApart

LEMMA ZinitInv ==
  ASSUME ZoneInv, NEW size \in ElemSizes, NEW max \in MaxSizes, zinit(size, max)
  PROVE  ZoneInv'
<1> DEFINE y == [ elem_size |-> ElemSize(size), max_size |-> max, cur_size |-> 0,
                  free_list |-> << >>, count_free |-> 0, count_alloc |-> 0,
                  pages |-> {}, out |-> {} ]
<1>1. ZoneWF(y) /\ y.pages = {}
  BY FreshZone
<1>2. zones' = Append(zones, y) /\ held' = held
  BY DEF zinit, pmmVars
<1> HIDE DEF y
<1>3. y \in ZoneRecord /\ zones \in Seq(ZoneRecord)
  BY <1>1 DEF ZoneWF, ZoneInv
<1>4. /\ zones' \in Seq(ZoneRecord) /\ Len(zones') = Len(zones) + 1 /\ Len(zones) \in Nat
      /\ zones'[Len(zones) + 1] = y /\ \A j \in 1..Len(zones) : zones'[j] = zones[j]
  <2> DEFINE R == ZoneRecord
  <2> HIDE DEF R
  <2>1. y \in R /\ zones \in Seq(R)
    BY <1>3 DEF R
  <2>2. /\ zones' \in Seq(R) /\ Len(zones') = Len(zones) + 1 /\ Len(zones) \in Nat
        /\ zones'[Len(zones) + 1] = y /\ \A j \in 1..Len(zones) : zones'[j] = zones[j]
    BY <1>2, <2>1
  <2> QED
    BY <2>2 DEF R
<1>5. \A j \in 1..Len(zones') : (j \in 1..Len(zones) /\ zones'[j] = zones[j]) \/ zones'[j] = y
  BY <1>4
<1>6. \A j \in 1..Len(zones') : ZoneWF(zones'[j]) /\ zones'[j].pages \subseteq held'
  BY <1>1, <1>2, <1>5, ZoneTyped
<1>7. \A j, k \in 1..Len(zones') : j # k => zones'[j].pages \cap zones'[k].pages = {}
  <2>1. \A j, k \in 1..Len(zones) : j # k => zones[j].pages \cap zones[k].pages = {}
    BY DEF ZoneInv, PagesApart
  <2> QED
    BY <1>1, <1>5, <2>1
<1> QED
  BY <1>4, <1>6, <1>7 DEF ZoneInv, PagesApart

\* Nothing changes but pages that no zone has.
LEMMA OtherPages ==
  ASSUME ZoneInv, zones' = zones, \A i \in 1..Len(zones) : zones[i].pages \subseteq held'
  PROVE  ZoneInv'
  BY DEF ZoneInv, PagesApart

LEMMA GrowInv ==
  ASSUME ZoneInv, PmmInv, NEW i \in 1..Len(zones), NEW p \in AllPages, ZallocGrow(i, p)
  PROVE  /\ ZoneInv'
         /\ ElementsPerPage(zones[i]) > 0 => UNCHANGED fault
<1> DEFINE z == zones[i]
           y == zone_grow(z, p)
<1>1. /\ z.free_list = << >> /\ MayGrow(z) /\ held' = held \cup {p} /\ p \notin used /\ up = "up"
      /\ IF y.free_list = << >>
           THEN zones' = [zones EXCEPT ![i] = y] /\ fault' = TRUE
           ELSE zones' = [zones EXCEPT ![i] = PopFree(y)] /\ UNCHANGED fault
  BY DEF ZallocGrow, AllocPage, pmm_alloc_page, FreePages
<1>2. p \notin held
  BY <1>1 DEF PmmInv, PagesAccounted
<1>3. ZoneWF(z) /\ z.pages \subseteq held
  BY ZoneTyped
<1>4. ZoneWF(y) /\ y.pages = z.pages \cup {p} /\ Len(y.free_list) = ElementsPerPage(z)
  BY <1>1, <1>2, <1>3, GrowZone
<1> HIDE DEF y
<1>5. CASE y.free_list = << >>
  <2>1. ZoneInv'
    BY <1>1, <1>2, <1>3, <1>4, <1>5, ZoneReplaced
  <2>2. ~ (ElementsPerPage(z) > 0)
    BY <1>4, <1>5
  <2> QED
    BY <2>1, <2>2
<1>6. CASE y.free_list # << >>
  <2>1. ZoneWF(PopFree(y)) /\ PopFree(y).pages = y.pages
    BY <1>4, <1>6, PopZone
  <2>2. ZoneInv'
    BY <1>1, <1>2, <1>3, <1>4, <1>6, <2>1, ZoneReplaced
  <2> QED
    BY <1>1, <1>6, <2>2
<1> QED
  BY <1>5, <1>6

LEMMA FreeInv ==
  ASSUME ZoneInv, NEW i \in 1..Len(zones), NEW e \in zones[i].out, zfree(i, e)
  PROVE  ZoneInv'
<1>1. held' = held
  BY DEF zfree, pmmVars
<1>2. zones' = [zones EXCEPT ![i] = PushFree(zones[i], e)]
  BY ZoneTyped DEF zfree, PushFree
<1>3. ZoneWF(PushFree(zones[i], e)) /\ PushFree(zones[i], e).pages = zones[i].pages
  BY ZoneTyped, PushZone
<1>4. zones[i].pages \subseteq held
  BY ZoneTyped
<1> QED
  BY <1>1, <1>2, <1>3, <1>4, ZoneReplaced

LEMMA ZoneNextInv ==
  ASSUME ZoneInv, PmmInv, [ZoneNext]_<<pmmVars, zoneVars>>
  PROVE  ZoneInv'
<1>1. CASE InitBitmap /\ UNCHANGED zoneVars
  BY <1>1, OtherPages DEF InitBitmap, zoneVars, ZoneInv, PagesApart
<1>2. ASSUME NEW p \in AllPages, AllocPage(p) /\ UNCHANGED zoneVars PROVE ZoneInv'
  <2>1. zones' = zones /\ held \subseteq held'
    BY <1>2 DEF AllocPage, zoneVars
  <2> QED
    BY <2>1, OtherPages DEF ZoneInv, PagesApart
<1>3. ASSUME NEW p \in AllPages \ ZonePages, FreePage(p) /\ UNCHANGED zoneVars PROVE ZoneInv'
  <2>1. zones' = zones /\ held' = held \ {p}
    BY <1>3 DEF FreePage, zoneVars
  <2>2. \A i \in 1..Len(zones) : p \notin zones[i].pages
    BY <1>3 DEF ZonePages
  <2> QED
    BY <2>1, <2>2, OtherPages DEF ZoneInv, PagesApart
<1>4. ASSUME NEW size \in ElemSizes, NEW max \in MaxSizes, zinit(size, max) PROVE ZoneInv'
  BY <1>4, ZinitInv
<1>5. ASSUME NEW i \in 1..Len(zones), ZallocFree(i) PROVE ZoneInv'
  <2>1. zones[i].free_list # << >> /\ zones' = [zones EXCEPT ![i] = PopFree(zones[i])] /\ held' = held
    BY <1>5 DEF ZallocFree, pmmVars
  <2>2. ZoneWF(zones[i]) /\ zones[i].pages \subseteq held
    BY ZoneTyped
  <2>3. ZoneWF(PopFree(zones[i])) /\ PopFree(zones[i]).pages = zones[i].pages
    BY <2>1, <2>2, PopZone
  <2> QED
    BY <2>1, <2>2, <2>3, ZoneReplaced
<1>6. ASSUME NEW i \in 1..Len(zones), NEW p \in AllPages, ZallocGrow(i, p) PROVE ZoneInv'
  BY <1>6, GrowInv
<1>7. ASSUME NEW i \in 1..Len(zones), NEW e \in zones[i].out, zfree(i, e) PROVE ZoneInv'
  BY <1>7, FreeInv
<1>8. CASE UNCHANGED <<pmmVars, zoneVars>>
  BY <1>8 DEF pmmVars, zoneVars, ZoneInv, PagesApart
<1> QED
  BY <1>1, <1>2, <1>3, <1>4, <1>5, <1>6, <1>7, <1>8 DEF ZoneNext

-----------------------------------------------------------------------------
(* What the invariant says.                                                *)

LEMMA ListedCounted ==
  ASSUME NEW z, ZoneWF(z)
  PROVE  /\ IsFiniteSet(Listed(z)) /\ Cardinality(Listed(z)) = Len(z.free_list)
         /\ Listed(z) \cap z.out = {}
<1> DEFINE f == z.free_list
<1>1. f \in Seq(Nat) /\ Len(f) \in Nat
  BY DEF ZoneWF, ZoneRecord
<1>2. /\ \A k, l \in 1..Len(f) : f[k] = f[l] => k = l
      /\ \A k \in 1..Len(f) : f[k] \notin z.out
  BY DEF ZoneWF
<1>3. Listed(z) = {f[k] : k \in 1..Len(f)}
  BY DEF Listed
<1>4. IsFiniteSet(1..Len(f)) /\ Cardinality(1..Len(f)) = Len(f)
  BY <1>1, FS_Interval
<1>5. f \in Bijection(1..Len(f), Listed(z))
  <2> HIDE DEF f
  <2>1. f \in [1..Len(f) -> Listed(z)]
    BY <1>1, <1>3
  <2>2. \A t \in Listed(z) : \E k \in 1..Len(f) : f[k] = t
    BY <1>3
  <2>3. IsInjective(f)
    BY <1>2, <2>1 DEF IsInjective
  <2> QED
    BY <2>1, <2>2, <2>3 DEF Bijection, Injection, Surjection
<1>6. ExistsBijection(1..Len(f), Listed(z))
  BY <1>5 DEF ExistsBijection
<1>7. IsFiniteSet(Listed(z)) /\ Cardinality(Listed(z)) = Len(f)
  BY <1>4, <1>6, FS_Bijection
<1> QED
  BY <1>2, <1>3, <1>7

LEMMA ConservedByInv == ZoneInv => ElementsConserved
<1> SUFFICES ASSUME ZoneInv, NEW i \in 1..Len(zones)
             PROVE  LET z == zones[i]
                    IN  /\ Cardinality(Listed(z)) = Len(z.free_list)
                        /\ Listed(z) \cap z.out = {}
                        /\ z.count_free = Len(z.free_list)
                        /\ z.count_alloc = Cardinality(z.out)
                        /\ Cardinality(Listed(z) \cup z.out)
                             = Cardinality(z.pages) * (PAGE_SIZE \div z.elem_size)
                        /\ z.cur_size = PAGE_SIZE * Cardinality(z.pages)
                        /\ z.max_size # 0 => z.cur_size < z.max_size + PAGE_SIZE
  BY DEF ElementsConserved
<1> DEFINE z == zones[i]
<1>1. ZoneWF(z)
  BY ZoneTyped
<1> HIDE DEF z
<1>2. /\ IsFiniteSet(Listed(z)) /\ Cardinality(Listed(z)) = Len(z.free_list)
      /\ Listed(z) \cap z.out = {}
  BY <1>1, ListedCounted
<1>3. /\ z.count_free = Len(z.free_list) /\ IsFiniteSet(z.out) /\ z.count_alloc = Cardinality(z.out)
      /\ z.count_free + z.count_alloc = Cardinality(z.pages) * (PAGE_SIZE \div z.elem_size)
      /\ z.cur_size = PAGE_SIZE * Cardinality(z.pages)
      /\ z.max_size # 0 => z.cur_size < z.max_size + PAGE_SIZE
  BY <1>1 DEF ZoneWF, ElementsPerPage
<1>4. Cardinality(Listed(z) \cup z.out)
        = Cardinality(Listed(z)) + Cardinality(z.out) - Cardinality(Listed(z) \cap z.out)
  BY <1>2, <1>3, FS_Union
<1>5. Cardinality(Listed(z) \cap z.out) = 0
  BY <1>2, FS_EmptySet
<1>6. Cardinality(Listed(z)) \in Nat /\ Cardinality(z.out) \in Nat
  BY <1>2, <1>3, FS_CardinalityType
<1>7. Cardinality(Listed(z) \cup z.out) = z.count_free + z.count_alloc
  BY <1>2, <1>3, <1>4, <1>5, <1>6
<1> QED
  BY <1>2, <1>3, <1>7 DEF z

\* Where an element lies.
LEMMA ElementPlace ==
  ASSUME NEW z, ZoneWF(z), NEW p \in z.pages, NEW d, CutFrom(z, p, d)
  PROVE  /\ d \in Nat /\ z.elem_size \in Nat \ {0} /\ p \in Nat
         /\ p * PAGE_SIZE \in Nat
         /\ p * PAGE_SIZE <= d /\ d + z.elem_size <= p * PAGE_SIZE + PAGE_SIZE
         /\ d % POINTER_SIZE = 0
<1> DEFINE n == PAGE_SIZE
           s == z.elem_size
           w == POINTER_SIZE
<1>1. /\ n \in Nat \ {0} /\ s \in Nat \ {0} /\ p \in Nat /\ w \in Nat \ {0}
      /\ n % w = 0 /\ s % w = 0
  BY PmmAssumption, ZoneAssumption, PagesFinite DEF ZoneWF, ZoneRecord
<1>2. PICK j \in 0 .. (n \div s) - 1 : d = p * n + j * s
  BY DEF CutFrom, ElementsPerPage
<1> HIDE DEF n, s, w
<1>3. j \in Nat
  BY <1>2
<1>4. /\ p * n + j * s \in Nat /\ p * n <= p * n + j * s
      /\ p * n + j * s + s <= p * n + n /\ p * n \in Nat
  BY <1>1, <1>2, CutInPage
<1>5. d % w = 0
  <2> DEFINE a == n \div w
             b == s \div w
  <2>1. a \in Nat /\ b \in Nat /\ n = a * w /\ s = b * w
    <3>1. a \in Nat /\ b \in Nat /\ n = a * w + (n % w) /\ s = b * w + (s % w)
      BY <1>1, DivMod
    <3> QED
      BY <1>1, <3>1
  <2> HIDE DEF a, b
  <2>2. p * n + j * s = (p * a + j * b) * w
    BY <1>1, <1>3, <2>1
  <2>3. p * a + j * b \in Nat
    BY <1>1, <1>3, <2>1
  <2> QED
    BY <1>1, <1>2, <2>2, <2>3, MultipleMod
<1> QED
  BY <1>1, <1>2, <1>4, <1>5 DEF n, s, w

\* Elements of different pages, and different elements of a page, lie apart.
LEMMA PlacesApart ==
  ASSUME NEW y, ZoneWF(y), NEW z, ZoneWF(z),
         NEW p \in y.pages, NEW q \in z.pages, NEW d, NEW e,
         CutFrom(y, p, d), CutFrom(z, q, e), p # q \/ (y = z /\ d # e)
  PROVE  d + y.elem_size <= e \/ e + z.elem_size <= d
<1> DEFINE n == PAGE_SIZE
           s == y.elem_size
           r == z.elem_size
<1>1. /\ d \in Nat /\ s \in Nat \ {0} /\ p \in Nat /\ p * n \in Nat
      /\ p * n <= d /\ d + s <= p * n + n
  BY ElementPlace
<1>2. /\ e \in Nat /\ r \in Nat \ {0} /\ q \in Nat /\ q * n \in Nat
      /\ q * n <= e /\ e + r <= q * n + n
  BY ElementPlace
<1>3. n \in Nat \ {0}
  BY PmmAssumption
<1>4. CASE p # q
  <2> HIDE DEF n, s, r
  <2>1. p < q \/ q < p
    BY <1>1, <1>2, <1>4
  <2>2. p * n + n <= q * n \/ q * n + n <= p * n
    BY <1>1, <1>2, <1>3, <2>1, PageAbove
  <2>3. d + s <= e \/ e + r <= d
    BY <1>1, <1>2, <1>3, <2>2
  <2> QED
    BY <2>3 DEF s, r
<1>5. CASE p = q /\ y = z /\ d # e
  <2>1. PICK j \in 0 .. ElementsPerPage(y) - 1 : d = p * n + j * s
    BY DEF CutFrom
  <2>2. PICK k \in 0 .. ElementsPerPage(y) - 1 : e = p * n + k * s
    BY <1>5 DEF CutFrom
  <2>3. j \in Nat /\ k \in Nat /\ r = s
    BY <1>5, <2>1, <2>2
  <2> HIDE DEF n, s, r
  <2>4. j # k
    BY <1>5, <2>1, <2>2
  <2>5. j < k \/ k < j
    BY <2>3, <2>4
  <2>6. j * s + s <= k * s \/ k * s + s <= j * s
    BY <1>1, <2>3, <2>5, PageAbove
  <2>7. j * s \in Nat /\ k * s \in Nat
    BY <1>1, <2>3
  <2>8. d + s <= e \/ e + s <= d
    BY <1>1, <2>1, <2>2, <2>6, <2>7
  <2> QED
    BY <2>3, <2>8 DEF s, r
<1> QED
  BY <1>4, <1>5

LEMMA ElementCut ==
  ASSUME NEW z, ZoneWF(z), NEW d \in Listed(z) \cup z.out
  PROVE  \E p \in z.pages : CutFrom(z, p, d)
  BY DEF ZoneWF, Listed

LEMMA ApartByInv == ZoneInv => ElementsApart
<1> SUFFICES ASSUME ZoneInv, NEW i \in 1..Len(zones), NEW j \in 1..Len(zones)
             PROVE  LET y == zones[i]
                        z == zones[j]
                    IN  /\ i # j => y.pages \cap z.pages = {}
                        /\ y.pages \subseteq held
                        /\ \A d \in Listed(y) \cup y.out :
                             /\ d % POINTER_SIZE = 0
                             /\ \E p \in y.pages : Bytes(y, d) \subseteq p * PAGE_SIZE .. (p+1) * PAGE_SIZE - 1
                             /\ \A e \in Listed(z) \cup z.out :
                                  (i # j \/ d # e) => Bytes(y, d) \cap Bytes(z, e) = {}
  BY DEF ElementsApart
<1> DEFINE y == zones[i]
           z == zones[j]
<1>1. ZoneWF(y) /\ ZoneWF(z) /\ y.pages \subseteq held
  BY ZoneTyped
<1>2. i # j => y.pages \cap z.pages = {}
  BY DEF ZoneInv, PagesApart
<1>3. i = j => y = z
  OBVIOUS
<1> HIDE DEF y, z
<1>4. ASSUME NEW d \in Listed(y) \cup y.out
      PROVE  /\ d % POINTER_SIZE = 0
             /\ \E p \in y.pages : Bytes(y, d) \subseteq p * PAGE_SIZE .. (p+1) * PAGE_SIZE - 1
             /\ \A e \in Listed(z) \cup z.out :
                  (i # j \/ d # e) => Bytes(y, d) \cap Bytes(z, e) = {}
  <2>1. PICK p \in y.pages : CutFrom(y, p, d)
    BY <1>1, ElementCut
  <2>2. /\ d \in Nat /\ y.elem_size \in Nat \ {0} /\ p \in Nat
        /\ p * PAGE_SIZE \in Nat
        /\ p * PAGE_SIZE <= d /\ d + y.elem_size <= p * PAGE_SIZE + PAGE_SIZE
        /\ d % POINTER_SIZE = 0
    BY <1>1, <2>1, ElementPlace
  <2>3. Bytes(y, d) \subseteq p * PAGE_SIZE .. (p+1) * PAGE_SIZE - 1
    <3>1. PAGE_SIZE \in Nat /\ (p+1) * PAGE_SIZE = p * PAGE_SIZE + PAGE_SIZE
      BY <2>2, PmmAssumption
    <3> QED
      BY <2>2, <3>1 DEF Bytes
  <2>4. ASSUME NEW e \in Listed(z) \cup z.out, i # j \/ d # e
        PROVE  Bytes(y, d) \cap Bytes(z, e) = {}
    <3>1. PICK q \in z.pages : CutFrom(z, q, e)
      BY <1>1, ElementCut
    <3>2. e \in Nat /\ z.elem_size \in Nat \ {0}
      BY <1>1, <3>1, ElementPlace
    <3>3. p # q \/ (y = z /\ d # e)
      BY <1>2, <1>3, <2>1, <2>4, <3>1
    <3>4. d + y.elem_size <= e \/ e + z.elem_size <= d
      BY <1>1, <2>1, <3>1, <3>3, PlacesApart
    <3> QED
      BY <2>2, <3>2, <3>4 DEF Bytes
  <2> QED
    BY <2>2, <2>3, <2>4
<1> QED
  BY <1>1, <1>2, <1>4 DEF y, z

-----------------------------------------------------------------------------
(* The theorems.                                                           *)

LEMMA ZoneInvariant == ZoneSpec => [](ZoneInv /\ PmmInv)
<1>1. ZoneInit => ZoneInv /\ PmmInv
  BY ZoneInitInv, PmmInitInv DEF ZoneInit
<1>2. ZoneInv /\ PmmInv /\ [ZoneNext]_<<pmmVars, zoneVars>> => (ZoneInv /\ PmmInv)'
  BY ZoneNextInv, ZoneStepIsPmmStep, PmmNextInv
<1> QED
  BY <1>1, <1>2, PTL DEF ZoneSpec

(* A zone loses no element and hands none out twice, its counters are      *)
(* exact, and its limit holds to a page (zalloc.c:46-88).                  *)
THEOREM ZoneConserved == ZoneSpec => []ElementsConserved
  BY ZoneInvariant, ConservedByInv, PTL

(* The elements of all zones lie apart, aligned to pointers, in pages that *)
(* their zone alone has from pmm_alloc_page() (zalloc.c:31-33, 55-63).     *)
THEOREM ZoneApart == ZoneSpec => []ElementsApart
  BY ZoneInvariant, ApartByInv, PTL

LEMMA ElementsFitPage ==
  ASSUME NEW z, ZoneWF(z)
  PROVE  ElementsPerPage(z) > 0 <=> z.elem_size <= PAGE_SIZE
<1> DEFINE n == PAGE_SIZE
           s == z.elem_size
           q == n \div s
<1>1. n \in Nat \ {0} /\ s \in Nat \ {0}
  BY PmmAssumption DEF ZoneWF, ZoneRecord
<1>2. q \in Nat /\ n % s \in 0 .. s-1 /\ n = q * s + (n % s)
  BY <1>1, DivMod
<1>3. CASE s <= n
  <2>1. 0 * s = 0
    BY <1>1
  <2>2. q # 0
    <3> HIDE DEF q, n, s
    <3> QED
      BY <1>1, <1>2, <1>3, <2>1
  <2> QED
    BY <1>2, <1>3, <2>2 DEF ElementsPerPage
<1>4. CASE s > n
  <2>1. q = 0
    <3>1. q > 0 => q * s >= s
      <4> HIDE DEF q, n, s
      <4> QED
        BY <1>1, <1>2
    <3> HIDE DEF q, n, s
    <3> QED
      BY <1>1, <1>2, <1>4, <3>1
  <2> QED
    BY <1>1, <1>4, <2>1 DEF ElementsPerPage
<1> QED
  BY <1>1, <1>3, <1>4

\* A page was given to a zone whose elements are larger than that.
TooLarge(z) == z.elem_size > PAGE_SIZE /\ z.pages # {}

LEMMA LargeReplaced ==
  ASSUME ZoneInv, ~ fault, TooLargeFaults, NEW i \in 1..Len(zones), NEW y,
         zones' = [zones EXCEPT ![i] = y], fault' \in BOOLEAN, fault' <=> TooLarge(y)
  PROVE  TooLargeFaults'
<1>1. zones \in Seq(ZoneRecord)
  BY DEF ZoneInv
<1>2. /\ Len(zones') = Len(zones) /\ zones'[i] = y
      /\ \A j \in 1..Len(zones) : j # i => zones'[j] = zones[j]
  <2> DEFINE R == ZoneRecord
  <2> HIDE DEF R
  <2>1. zones \in Seq(R)
    BY <1>1 DEF R
  <2> QED
    BY <2>1
<1>3. \A j \in 1..Len(zones) : ~ TooLarge(zones[j])
  BY DEF TooLargeFaults, TooLarge
<1>4. (\E j \in 1..Len(zones') : TooLarge(zones'[j])) <=> TooLarge(y)
  BY <1>2, <1>3
<1> QED
  BY <1>4 DEF TooLargeFaults, TooLarge

LEMMA TooLargeFaultsNext ==
  ASSUME ZoneInv, PmmInv, fault \in BOOLEAN, TooLargeFaults, [ZoneNext]_<<pmmVars, zoneVars>>
  PROVE  (fault \in BOOLEAN)' /\ TooLargeFaults'
<1>0. ASSUME ZoneNext PROVE ~ fault /\ \A j \in 1..Len(zones) : ~ TooLarge(zones[j])
  BY <1>0 DEF ZoneNext, TooLargeFaults, TooLarge
<1>1. CASE UNCHANGED zoneVars
  BY <1>1 DEF zoneVars, TooLargeFaults
<1>2. ASSUME ZoneNext, NEW size \in ElemSizes, NEW max \in MaxSizes, zinit(size, max)
      PROVE  (fault \in BOOLEAN)' /\ TooLargeFaults'
  <2> DEFINE y == [ elem_size |-> ElemSize(size), max_size |-> max, cur_size |-> 0,
                    free_list |-> << >>, count_free |-> 0, count_alloc |-> 0,
                    pages |-> {}, out |-> {} ]
  <2>1. zones' = Append(zones, y) /\ fault' = fault /\ ~ TooLarge(y)
    BY <1>2 DEF zinit, TooLarge
  <2> HIDE DEF y
  <2>2. \A j \in 1..Len(zones') : (j \in 1..Len(zones) /\ zones'[j] = zones[j]) \/ zones'[j] = y
    <3> DEFINE R == ZoneRecord
    <3> HIDE DEF R
    <3>1. zones \in Seq(R)
      BY DEF ZoneInv, R
    <3> QED
      BY <2>1, <3>1
  <2>3. \A j \in 1..Len(zones') : ~ TooLarge(zones'[j])
    BY <1>0, <1>2, <2>1, <2>2
  <2> QED
    BY <1>0, <1>2, <2>1, <2>3 DEF TooLargeFaults, TooLarge
<1>3. ASSUME ZoneNext, NEW i \in 1..Len(zones), ZallocFree(i)
      PROVE  (fault \in BOOLEAN)' /\ TooLargeFaults'
  <2>1. zones[i].free_list # << >> /\ zones' = [zones EXCEPT ![i] = PopFree(zones[i])] /\ fault' = fault
    BY <1>3 DEF ZallocFree
  <2>2. ~ TooLarge(PopFree(zones[i]))
    BY <1>0, <1>3, <2>1, ZoneTyped, PopZone DEF TooLarge
  <2> QED
    BY <1>0, <1>3, <2>1, <2>2, LargeReplaced
<1>4. ASSUME ZoneNext, NEW i \in 1..Len(zones), NEW p \in AllPages, ZallocGrow(i, p)
      PROVE  (fault \in BOOLEAN)' /\ TooLargeFaults'
  <2> DEFINE z == zones[i]
             y == zone_grow(z, p)
  <2>1. ZoneWF(z) /\ z.elem_size \in Nat
    BY ZoneTyped DEF ZoneRecord
  <2>2. /\ z.free_list = << >> /\ MayGrow(z) /\ p \notin used /\ up = "up"
        /\ IF y.free_list = << >>
             THEN zones' = [zones EXCEPT ![i] = y] /\ fault' = TRUE
             ELSE zones' = [zones EXCEPT ![i] = PopFree(y)] /\ UNCHANGED fault
    BY <1>4 DEF ZallocGrow, AllocPage, pmm_alloc_page, FreePages
  <2>3. p \notin z.pages
    BY <2>2, ZoneTyped DEF PmmInv, PagesAccounted
  <2>4. /\ ZoneWF(y) /\ y.pages = z.pages \cup {p} /\ y.elem_size = z.elem_size
        /\ Len(y.free_list) = ElementsPerPage(z)
    BY <2>1, <2>2, <2>3, GrowZone
  <2>5. PAGE_SIZE \in Nat /\ (ElementsPerPage(z) > 0 <=> z.elem_size <= PAGE_SIZE)
    BY <2>1, ElementsFitPage, PmmAssumption
  <2>6. y.free_list \in Seq(Nat)
    BY <2>4 DEF ZoneWF, ZoneRecord
  <2> HIDE DEF y
  <2>7. y.free_list = << >> <=> TooLarge(y)
    <3>1. y.free_list = << >> <=> ~ (Len(y.free_list) > 0)
      BY <2>6
    <3> QED
      BY <2>1, <2>4, <2>5, <3>1 DEF TooLarge
  <2>8. CASE y.free_list = << >>
    BY <1>0, <1>4, <2>2, <2>7, <2>8, LargeReplaced
  <2>9. CASE y.free_list # << >>
    <3>1. ~ TooLarge(PopFree(y))
      BY <2>4, <2>7, <2>9, PopZone DEF TooLarge
    <3> QED
      BY <1>0, <1>4, <2>2, <2>9, <3>1, LargeReplaced
  <2> QED
    BY <2>8, <2>9
<1>5. ASSUME ZoneNext, NEW i \in 1..Len(zones), NEW e \in zones[i].out, zfree(i, e)
      PROVE  (fault \in BOOLEAN)' /\ TooLargeFaults'
  <2>1. zones' = [zones EXCEPT ![i] = PushFree(zones[i], e)] /\ fault' = fault
    BY <1>5, ZoneTyped DEF zfree, PushFree
  <2>2. ~ TooLarge(PushFree(zones[i], e))
    BY <1>0, <1>5, ZoneTyped, PushZone DEF TooLarge
  <2> QED
    BY <1>0, <1>5, <2>1, <2>2, LargeReplaced
<1>6. CASE UNCHANGED <<pmmVars, zoneVars>>
  BY <1>1, <1>6
<1> QED
  BY <1>1, <1>2, <1>3, <1>4, <1>5, <1>6 DEF ZoneNext

(* zalloc() follows the end of a free list when and only when a zone has   *)
(* been grown whose elements are larger than a page, whatever sizes are    *)
(* asked of zinit() (zalloc.c:33, 48-56, 70-75).                           *)
THEOREM ZoneTooLarge == ZoneSpec => []TooLargeFaults
<1> DEFINE I == fault \in BOOLEAN /\ TooLargeFaults
<1>1. ZoneInit => I
  <2> SUFFICES ASSUME ZoneInit PROVE I
    OBVIOUS
  <2>1. zones = << >> /\ fault = FALSE
    BY DEF ZoneInit
  <2>2. 1..Len(zones) = {}
    BY <2>1
  <2> QED
    BY <2>1, <2>2 DEF TooLargeFaults
<1>2. ZoneInv /\ PmmInv /\ I /\ [ZoneNext]_<<pmmVars, zoneVars>> => I'
  BY TooLargeFaultsNext
<1>3. I => TooLargeFaults
  OBVIOUS
<1> HIDE DEF I
<1> QED
  BY <1>1, <1>2, <1>3, ZoneInvariant, PTL DEF ZoneSpec
=============================================================================
