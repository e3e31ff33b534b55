-------------------------------- MODULE Zone --------------------------------
(***************************************************************************)
(* The zone allocator of vm/zalloc.c on top of the physical memory         *)
(* manager.  A zone takes whole pages from pmm_alloc_page(), cuts them     *)
(* into elements and keeps the free ones on a list threaded through their  *)
(* first words; here the list is the sequence of their addresses.  Every   *)
(* kernel object (threads, ports, messages, map entries) is an element.    *)
(* Pages are also taken and given back by others (stacks, page tables).    *)
(***************************************************************************)
EXTENDS Pmm

CONSTANTS
  POINTER_SIZE,  \* sizeof(void *)
  ZONE_MAX,      \* descriptors in zone_store
  ElemSizes,     \* the elem_size arguments of zinit()
  MaxSizes       \* the max_size arguments of zinit(); 0 is no limit

VARIABLES
  zones,         \* the struct zone descriptors in use, in the order of zinit()
  fault          \* zalloc() followed a null free_list

zoneVars == <<zones, fault>>

\* A page is cut into pointers without a rest (4096 and 8).
ASSUME ZoneAssumption ==
  /\ POINTER_SIZE \in Nat \ {0} /\ PAGE_SIZE % POINTER_SIZE = 0
  /\ ZONE_MAX \in Nat
  /\ ElemSizes \subseteq Nat /\ MaxSizes \subseteq Nat

-----------------------------------------------------------------------------
\* Room for the freelist pointer, in a multiple of its size.
ElemSize(size) ==
  LET s == IF size < POINTER_SIZE THEN POINTER_SIZE ELSE size
  IN  ((s + POINTER_SIZE - 1) \div POINTER_SIZE) * POINTER_SIZE

\* zinit(); with the table full it returns ZONE_NULL.  pages and out record
\* what the zone was given and what its callers hold.
zinit(size, max) ==
  /\ Len(zones) < ZONE_MAX
  /\ zones' = Append(zones,
       [ elem_size |-> ElemSize(size), max_size |-> max, cur_size |-> 0,
         free_list |-> << >>, count_free |-> 0, count_alloc |-> 0,
         pages |-> {}, out |-> {} ])
  /\ UNCHANGED <<pmmVars, fault>>

\* Mutant: one element too many is cut from a page.
ElementsPerPageOff(z) == (PAGE_SIZE \div z.elem_size) + 1

\* Mutant: room for a page header is set aside.
ElementsPerPageHeader(z) == (PAGE_SIZE - 2 * POINTER_SIZE) \div z.elem_size

ElementsPerPage(z) == PAGE_SIZE \div z.elem_size

MayGrow(z) == z.max_size = 0 \/ z.cur_size < z.max_size

\* zone_grow() with page p: the elements are pushed one by one, so the last
\* one of the page comes first.
zone_grow(z, p) ==
  LET n == ElementsPerPage(z)
      fresh == [i \in 1..n |-> p * PAGE_SIZE + (n - i) * z.elem_size]
  IN  [z EXCEPT !.free_list = fresh \o @, !.count_free = @ + n,
                !.cur_size = @ + PAGE_SIZE, !.pages = @ \cup {p}]

\* Mutant: the element stays at the head of the list.
PopFreeKept(z) ==
  [z EXCEPT !.count_free = @ - 1, !.count_alloc = @ + 1,
            !.out = @ \cup {Head(z.free_list)}]

PopFree(z) ==
  [z EXCEPT !.free_list = Tail(@), !.count_free = @ - 1, !.count_alloc = @ + 1,
            !.out = @ \cup {Head(z.free_list)}]

\* zalloc() from the free list.
ZallocFree(i) ==
  /\ zones[i].free_list # << >>
  /\ zones' = [zones EXCEPT ![i] = PopFree(@)]
  /\ UNCHANGED <<pmmVars, fault>>

\* zalloc() that has to grow the zone first.  When not one element fits into
\* a page the list is still empty, and zalloc() follows the null pointer.
\* When the zone may not grow or no page is left it returns NULL.
ZallocGrow(i, p) ==
  /\ up = "up"
  /\ zones[i].free_list = << >>
  /\ MayGrow(zones[i])
  /\ AllocPage(p)
  /\ LET z == zone_grow(zones[i], p)
     IN  IF z.free_list = << >>
           THEN /\ zones' = [zones EXCEPT ![i] = z]
                /\ fault' = TRUE
           ELSE /\ zones' = [zones EXCEPT ![i] = PopFree(z)]
                /\ UNCHANGED fault

\* zfree() of an element that its caller got from this zone.
zfree(i, e) ==
  /\ e \in zones[i].out
  /\ zones' = [zones EXCEPT ![i].free_list = <<e>> \o @, ![i].count_free = @ + 1,
                            ![i].count_alloc = @ - 1, ![i].out = @ \ {e}]
  /\ UNCHANGED <<pmmVars, fault>>

-----------------------------------------------------------------------------
ZonePages == UNION {zones[i].pages : i \in 1..Len(zones)}

ZoneInit == PmmInit /\ zones = << >> /\ fault = FALSE

ZoneNext ==
  /\ ~ fault
  /\ \/ InitBitmap /\ UNCHANGED zoneVars
     \/ \E p \in AllPages : AllocPage(p) /\ UNCHANGED zoneVars
     \/ \E p \in AllPages \ ZonePages : FreePage(p) /\ UNCHANGED zoneVars
     \/ \E size \in ElemSizes, max \in MaxSizes : zinit(size, max)
     \/ \E i \in 1..Len(zones) :
          \/ ZallocFree(i)
          \/ \E p \in AllPages : ZallocGrow(i, p)
          \/ \E e \in zones[i].out : zfree(i, e)

ZoneSpec == ZoneInit /\ [][ZoneNext]_<<pmmVars, zoneVars>>

-----------------------------------------------------------------------------
(* Properties                                                              *)

Listed(z) == {z.free_list[k] : k \in 1..Len(z.free_list)}
Bytes(z, e) == e .. (e + z.elem_size - 1)

(* Addresses and counters have the types of their C objects; no counter    *)
(* goes below zero.                                                        *)
ZoneTypeOK ==
  /\ fault \in BOOLEAN
  /\ \A i \in 1..Len(zones) :
       /\ zones[i].count_free \in Nat /\ zones[i].count_alloc \in Nat
       /\ zones[i].cur_size \in Nat /\ zones[i].pages \subseteq AllPages
       /\ Listed(zones[i]) \cup zones[i].out \subseteq Nat

(* A zone keeps every element it ever cut: each is on the free list once   *)
(* or with a caller, never both, and the counters count them; a zone with  *)
(* a limit stops growing at the page that reaches it                       *)
(* (zalloc.c:48-49, 58-64, 74-77, 84-87).                                  *)
ElementsConserved ==
  \A i \in 1..Len(zones) :
    LET z == zones[i]
    IN  /\ Cardinality(Listed(z)) = Len(z.free_list)
        /\ Listed(z) \cap z.out = {}
        /\ z.count_free = Len(z.free_list)
        /\ z.count_alloc = Cardinality(z.out)
        /\ Cardinality(Listed(z) \cup z.out)
             = Cardinality(z.pages) * (PAGE_SIZE \div z.elem_size)
        /\ z.cur_size = PAGE_SIZE * Cardinality(z.pages)
        /\ z.max_size # 0 => z.cur_size < z.max_size + PAGE_SIZE

(* No two objects share a byte: the elements of all zones, free or not,    *)
(* lie apart from each other, inside pages that belong to their zone alone *)
(* and that the physical memory manager counts as used (zalloc.c:55-63).   *)
ElementsApart ==
  \A i, j \in 1..Len(zones) :
    LET y == zones[i]
        z == zones[j]
    IN  /\ i # j => y.pages \cap z.pages = {}
        /\ y.pages \subseteq held
        /\ \A d \in Listed(y) \cup y.out :
             /\ d % POINTER_SIZE = 0
             /\ \E p \in y.pages : Bytes(y, d) \subseteq p * PAGE_SIZE .. (p+1) * PAGE_SIZE - 1
             /\ \A e \in Listed(z) \cup z.out :
                  (i # j \/ d # e) => Bytes(y, d) \cap Bytes(z, e) = {}

(* zalloc() follows the end of its free list when and only when a zone has *)
(* been grown whose elements, as rounded by zinit(), are larger than a     *)
(* page: the page is taken and gives none.  Elements that fill a page and  *)
(* zones that may not grow are no trouble (zalloc.c:33, 48-56, 70-75).     *)
TooLargeFaults ==
  fault <=> \E i \in 1..Len(zones) : zones[i].elem_size > PAGE_SIZE /\ zones[i].pages # {}

(* "Backing pages are allocated from the PMM on demand and divided into    *)
(* elements" (zalloc.c:5-7): the free list of a zone that was grown has    *)
(* one to hand out (zalloc.c:70-75).                                       *)
NoZoneFault == ~ fault
=============================================================================
