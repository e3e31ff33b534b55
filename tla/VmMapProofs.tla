---------------------------- MODULE VmMapProofs ----------------------------
(* Proofs about the address maps and the programs loaded through them: for *)
(* every page size, every set of ranges and images, and any number of maps *)
(* and entries.  The list of a map is followed first, apart from the page  *)
(* tables, which it does not depend on except for the question whether     *)
(* memory ran out; then the page tables are shown to follow the list; then *)
(* the loader of Exec is taken turn by turn.                               *)
EXTENDS Exec, PmapProofs, SequenceTheorems

EntryRecord == [start : Int, end : Int, prot : Prots, wired : BOOLEAN]

\* A range with an address in it, inside the limits of map m.
InLimits(m, e) ==
  min_offset(m) <= e.start /\ e.start < e.end /\ e.end <= max_offset(m)

\* Every entry ends before each later one starts: unlike what MapSorted says
\* of neighbours, this is left true when entries are taken out.
Ordered(ents) == \A i, j \in 1..Len(ents) : i < j => ents[i].end <= ents[j].start

ListOK(m, ents) ==
  /\ ents \in Seq(EntryRecord)
  /\ \A i \in 1..Len(ents) : InLimits(m, ents[i])
  /\ Ordered(ents)

\* The list of a map that no task has is empty, and so as good as any.
MapsInv ==
  /\ maps \in [AllPmaps -> [entries : Seq(EntryRecord), nentries : Int]]
  /\ \A m \in AllPmaps : ListOK(m, maps[m].entries) /\ maps[m].nentries = Len(maps[m].entries)

-----------------------------------------------------------------------------
(* vm_map_remove() on the list.                                            *)

\* k[i] is what is left of the first i entries.
KeepsOf(ents, start, end, n, k) ==
  k = [i \in 0..n |->
         IF i = 0 THEN << >>
         ELSE IF Overlaps(ents[i], start, end) THEN k[i-1] ELSE Append(k[i-1], ents[i])]

LEMMA KeepsExist ==
  ASSUME NEW ents, NEW start, NEW end
  PROVE  \A n \in Nat : \E k : KeepsOf(ents, start, end, n, k)
<1> DEFINE S == {n \in Nat : \E k : KeepsOf(ents, start, end, n, k)}
<1>1. 0 \in S
  <2>1. KeepsOf(ents, start, end, 0, [i \in 0..0 |-> << >>])
    BY DEF KeepsOf
  <2> QED
    BY <2>1
<1>2. ASSUME NEW n \in Nat, n \in S PROVE n + 1 \in S
  <2>1. PICK k : KeepsOf(ents, start, end, n, k)
    BY <1>2
  <2> DEFINE last == IF Overlaps(ents[n+1], start, end) THEN k[n] ELSE Append(k[n], ents[n+1])
             h == [i \in 0..n+1 |-> IF i = n + 1 THEN last ELSE k[i]]
  <2>2. \A i \in 0..n+1 :
          h[i] = IF i = 0 THEN << >>
                 ELSE IF Overlaps(ents[i], start, end) THEN h[i-1] ELSE Append(h[i-1], ents[i])
    <3> TAKE i \in 0..n+1
    <3>1. CASE i = n + 1
      <4>1. h[i] = last /\ i # 0 /\ i - 1 = n /\ i - 1 \in 0..n+1 /\ i - 1 # n + 1
        BY <3>1
      <4>2. h[i-1] = k[n]
        BY <4>1
      <4> QED
        BY <3>1, <4>1, <4>2
    <3>2. CASE i # n + 1
      <4>1. i \in 0..n /\ h[i] = k[i]
        BY <3>2
      <4>2. i # 0 => i - 1 \in 0..n /\ h[i-1] = k[i-1]
        BY <4>1
      <4>3. k[i] = IF i = 0 THEN << >>
                   ELSE IF Overlaps(ents[i], start, end) THEN k[i-1] ELSE Append(k[i-1], ents[i])
        BY <2>1, <4>1 DEF KeepsOf
      <4> QED
        BY <4>1, <4>2, <4>3
    <3> QED
      BY <3>1, <3>2
  <2>3. KeepsOf(ents, start, end, n + 1, h)
    <3>1. h = [i \in 0..n+1 |-> h[i]]
      OBVIOUS
    <3> HIDE DEF h
    <3> QED
      BY <2>2, <3>1 DEF KeepsOf
  <2> QED
    BY <2>3
<1>3. Nat \subseteq S
  <2> HIDE DEF S
  <2> QED
    BY <1>1, <1>2, SetInduction
<1> QED
  BY <1>3

LEMMA KeptDef ==
  ASSUME NEW ents, NEW start, NEW end, Len(ents) \in Nat
  PROVE  \E k : KeepsOf(ents, start, end, Len(ents), k) /\ Kept(ents, start, end) = k[Len(ents)]
<1> DEFINE c == CHOOSE k : KeepsOf(ents, start, end, Len(ents), k)
<1>1. KeepsOf(ents, start, end, Len(ents), c)
  BY KeepsExist
<1>2. Kept(ents, start, end) = c[Len(ents)]
  BY DEF Kept, KeepsOf
<1> QED
  BY <1>1, <1>2

\* What is left is in order, and was there before.
LEMMA KeptListOK ==
  ASSUME NEW m, NEW ents, ListOK(m, ents), NEW start, NEW end
  PROVE  ListOK(m, Kept(ents, start, end))
<1> DEFINE N == Len(ents)
           From(l, n) == /\ l \in Seq(EntryRecord)
                         /\ \A i \in 1..Len(l) : \E j \in 1..n : l[i] = ents[j]
                         /\ Ordered(l)
<1>1. N \in Nat /\ ents \in Seq(EntryRecord) /\ Ordered(ents)
  BY DEF ListOK
<1>2. PICK k : KeepsOf(ents, start, end, N, k) /\ Kept(ents, start, end) = k[N]
  BY <1>1, KeptDef
<1> DEFINE S == {n \in Nat : n \in 0..N => From(k[n], n)}
<1>3. 0 \in S
  <2>1. k[0] = << >>
    BY <1>1, <1>2 DEF KeepsOf
  <2>2. From(<< >>, 0)
    BY DEF Ordered
  <2> QED
    BY <2>1, <2>2
<1>4. ASSUME NEW n \in Nat, n \in S PROVE n + 1 \in S
  <2> SUFFICES ASSUME n + 1 \in 0..N PROVE From(k[n+1], n+1)
    OBVIOUS
  <2>1. n \in 0..N /\ From(k[n], n) /\ n + 1 \in 1..N /\ (n + 1) - 1 = n /\ n + 1 # 0
    BY <1>1, <1>4
  <2>2. k[n+1] = IF Overlaps(ents[n+1], start, end) THEN k[n] ELSE Append(k[n], ents[n+1])
    BY <1>2, <2>1 DEF KeepsOf
  <2> DEFINE l == k[n]
             e == ents[n+1]
  <2>3. e \in EntryRecord
    BY <1>1, <2>1, ElementOfSeq
  <2>4. /\ l \in Seq(EntryRecord) /\ Ordered(l)
        /\ \A i \in 1..Len(l) : \E j \in 1..n : l[i] = ents[j]
    BY <2>1
  <2> HIDE DEF l, e
  <2>5. CASE Overlaps(e, start, end)
    <3>1. \A i \in 1..Len(l) : \E j \in 1..n+1 : l[i] = ents[j]
      BY <2>4
    <3> QED
      BY <2>2, <2>4, <2>5, <3>1 DEF l, e
  <2>6. CASE ~ Overlaps(e, start, end)
    <3> DEFINE a == Append(l, e)
    <3>1. /\ a \in Seq(EntryRecord) /\ Len(a) = Len(l) + 1 /\ Len(l) \in Nat
          /\ a[Len(l) + 1] = e /\ \A i \in 1..Len(l) : a[i] = l[i]
      BY <2>3, <2>4, AppendProperties
    <3> HIDE DEF a
    <3>2. \A i \in 1..Len(a) : \E j \in 1..n+1 : a[i] = ents[j]
      <4> TAKE i \in 1..Len(a)
      <4>1. CASE i = Len(l) + 1
        BY <2>1, <3>1, <4>1 DEF e
      <4>2. CASE i # Len(l) + 1
        <5>1. i \in 1..Len(l)
          BY <3>1, <4>2
        <5>2. PICK j \in 1..n : l[i] = ents[j]
          BY <2>4, <5>1
        <5> QED
          BY <3>1, <5>1, <5>2
      <4> QED
        BY <4>1, <4>2
    <3>3. Ordered(a)
      <4> SUFFICES ASSUME NEW i \in 1..Len(a), NEW j \in 1..Len(a), i < j
                   PROVE  a[i].end <= a[j].start
        BY DEF Ordered
      <4>1. i \in 1..Len(l) /\ a[i] = l[i]
        BY <3>1
      <4>2. CASE j = Len(l) + 1
        <5>1. PICK x \in 1..n : l[i] = ents[x]
          BY <2>4, <4>1
        <5>2. x \in 1..N /\ n + 1 \in 1..N /\ x < n + 1
          BY <1>1, <2>1
        <5>3. ents[x].end <= ents[n+1].start
          BY <1>1, <5>2 DEF Ordered
        <5> QED
          BY <3>1, <4>1, <4>2, <5>1, <5>3 DEF e
      <4>3. CASE j # Len(l) + 1
        <5>1. j \in 1..Len(l)
          BY <3>1, <4>3
        <5>2. l[i].end <= l[j].start
          BY <2>4, <4>1, <5>1 DEF Ordered
        <5> QED
          BY <3>1, <4>1, <5>1, <5>2
      <4> QED
        BY <4>2, <4>3
    <3>4. k[n+1] = a
      BY <2>2, <2>6 DEF a, l, e
    <3> QED
      BY <3>1, <3>2, <3>3, <3>4
  <2> QED
    BY <2>5, <2>6
<1>5. N \in S
  <2> HIDE DEF S
  <2>1. Nat \subseteq S
    BY <1>3, <1>4, SetInduction
  <2> QED
    BY <1>1, <2>1
<1>6. From(k[N], N)
  BY <1>1, <1>5
<1> QED
  BY <1>2, <1>6 DEF ListOK

-----------------------------------------------------------------------------
(* vm_map_enter() on the list.                                             *)

\* s with e after its first p elements.
At(s, p, e) == SubSeq(s, 1, p) \o <<e>> \o SubSeq(s, p + 1, Len(s))

LEMMA InsertionAt ==
  ASSUME NEW R, NEW s \in Seq(R), NEW e \in R, NEW p \in 0..Len(s)
  PROVE  /\ At(s, p, e) \in Seq(R) /\ Len(At(s, p, e)) = Len(s) + 1
         /\ \A i \in 1..Len(s)+1 :
              At(s, p, e)[i] = IF i <= p THEN s[i] ELSE IF i = p + 1 THEN e ELSE s[i-1]
<1> DEFINE a == SubSeq(s, 1, p)
           b == SubSeq(s, p + 1, Len(s))
           ae == a \o <<e>>
           l == At(s, p, e)
<1>1. Len(s) \in Nat /\ p \in Nat /\ p <= Len(s)
  OBVIOUS
<1>2. a \in Seq(R) /\ Len(a) = p /\ \A i \in 1..p : a[i] = s[i]
  <2>1. \A i \in 1..p : i \in 1..Len(s)
    BY <1>1
  <2> QED
    BY <1>1, <2>1, SubSeqProperties
<1>3. b \in Seq(R) /\ Len(b) = Len(s) - p /\ \A i \in 1..Len(s)-p : b[i] = s[p+i]
  <2>1. \A i \in p+1..Len(s) : i \in 1..Len(s)
    BY <1>1
  <2> QED
    BY <1>1, <2>1, SubSeqProperties
<1>0. l = ae \o b
  BY DEF At
<1> HIDE DEF a, b
<1>4. ae \in Seq(R) /\ Len(ae) = p + 1 /\ ae[p+1] = e /\ \A i \in 1..p : ae[i] = s[i]
  <2>1. <<e>> \in Seq(R) /\ Len(<<e>>) = 1 /\ <<e>>[1] = e
    OBVIOUS
  <2> QED
    BY <1>1, <1>2, <2>1, ConcatProperties
<1> HIDE DEF ae
<1>5. /\ l \in Seq(R) /\ Len(l) = Len(s) + 1
      /\ \A i \in 1..Len(s)+1 : l[i] = IF i <= p + 1 THEN ae[i] ELSE b[i - (p + 1)]
  BY <1>0, <1>1, <1>3, <1>4, ConcatProperties
<1>6. \A i \in 1..Len(s)+1 :
        l[i] = IF i <= p THEN s[i] ELSE IF i = p + 1 THEN e ELSE s[i-1]
  <2> TAKE i \in 1..Len(s)+1
  <2>1. CASE i <= p
    BY <1>1, <1>4, <1>5, <2>1
  <2>2. CASE i = p + 1
    BY <1>1, <1>4, <1>5, <2>2
  <2>3. CASE i > p + 1
    <3>1. i - (p + 1) \in 1..Len(s)-p /\ p + (i - (p + 1)) = i - 1
      BY <1>1, <2>3
    <3>2. b[i - (p + 1)] = s[i-1]
      BY <1>3, <3>1
    <3> QED
      BY <1>1, <1>5, <2>3, <3>2
  <2> QED
    BY <1>1, <2>1, <2>2, <2>3
<1> QED
  BY <1>5, <1>6

\* The walk of vm_map_enter() stops at an entry, or at the header.
LEMMA InsertedDef ==
  ASSUME NEW ents \in Seq(EntryRecord), NEW e \in EntryRecord
  PROVE  \E p \in 0..Len(ents) :
           /\ Inserted(ents, e) = At(ents, p, e)
           /\ \A i \in 1..p : ents[i].start < e.start
           /\ p < Len(ents) => ents[p+1].start >= e.start
<1> DEFINE N == Len(ents)
           Stop(k) == /\ \A i \in 1..k : ents[i].start < e.start
                      /\ k < N => ents[k+1].start >= e.start
           S == {k \in 0..N : k = N \/ ents[k+1].start >= e.start}
<1>1. N \in Nat /\ e.start \in Int
  BY DEF EntryRecord
<1>2. \A i \in 1..N : ents[i].start \in Int
  <2> TAKE i \in 1..N
  <2>1. ents[i] \in EntryRecord
    BY ElementOfSeq
  <2> QED
    BY <2>1 DEF EntryRecord
<1> HIDE DEF N
<1>3. PICK p \in S : \A k \in S : p <= k
  <2>1. N \in S /\ S \in SUBSET Nat
    BY <1>1
  <2> HIDE DEF S
  <2> QED
    BY <2>1, LeastNatural
<1>4. Stop(p)
  <2>1. ASSUME NEW i \in 1..p PROVE ents[i].start < e.start
    <3>1. i - 1 \in 0..N /\ i - 1 < p /\ i - 1 # N /\ (i - 1) + 1 = i /\ i \in 1..N
      BY <1>1, <1>3
    <3>2. i - 1 \notin S
      <4>1. p \in Int
        BY <1>1
      <4> HIDE DEF S
      <4> QED
        BY <1>3, <3>1, <4>1
    <3> QED
      BY <1>1, <1>2, <3>1, <3>2
  <2>2. p < N => ents[p+1].start >= e.start
    BY <1>1, <1>3
  <2> QED
    BY <2>1, <2>2
<1>5. PICK q \in 0..N : Stop(q) /\ q = CHOOSE k \in 0..N : Stop(k)
  BY <1>4
<1> QED
  BY <1>5 DEF Inserted, At, N

LEMMA InsertedListOK ==
  ASSUME NEW m, NEW ents, ListOK(m, ents), NEW e \in EntryRecord, InLimits(m, e),
         \A i \in 1..Len(ents) : ~ (e.start < ents[i].end /\ e.end > ents[i].start)
  PROVE  ListOK(m, Inserted(ents, e)) /\ Len(Inserted(ents, e)) = Len(ents) + 1
<1> DEFINE N == Len(ents)
           l == Inserted(ents, e)
<1>1. ents \in Seq(EntryRecord) /\ N \in Nat /\ Ordered(ents)
  BY DEF ListOK
<1>2. PICK p \in 0..N :
        /\ l = At(ents, p, e)
        /\ \A i \in 1..p : ents[i].start < e.start
        /\ p < N => ents[p+1].start >= e.start
  BY <1>1, InsertedDef
<1>3. /\ l \in Seq(EntryRecord) /\ Len(l) = N + 1
      /\ \A i \in 1..N+1 : l[i] = IF i <= p THEN ents[i] ELSE IF i = p + 1 THEN e ELSE ents[i-1]
  <2> HIDE DEF N, l
  <2>1. p \in 0..Len(ents)
    BY DEF N
  <2> DEFINE w == At(ents, p, e)
  <2>2. /\ w \in Seq(EntryRecord) /\ Len(w) = Len(ents) + 1
        /\ \A i \in 1..Len(ents)+1 :
             w[i] = IF i <= p THEN ents[i] ELSE IF i = p + 1 THEN e ELSE ents[i-1]
    BY <1>1, <2>1, InsertionAt
  <2> HIDE DEF w
  <2>3. l = w
    BY <1>2 DEF w
  <2> QED
    BY <2>2, <2>3 DEF N
<1>4. \A i \in 1..N : /\ ents[i].start \in Int /\ ents[i].end \in Int /\ InLimits(m, ents[i])
                      /\ ents[i].start < ents[i].end
  <2> TAKE i \in 1..N
  <2>1. ents[i] \in EntryRecord
    BY <1>1, ElementOfSeq
  <2>2. InLimits(m, ents[i])
    BY DEF ListOK
  <2> QED
    BY <2>1, <2>2 DEF EntryRecord, InLimits
<1>5. e.start \in Int /\ e.end \in Int /\ e.start < e.end
  BY DEF EntryRecord, InLimits
<1>6. \A i, j \in 1..N : i < j => ents[i].end <= ents[j].start
  BY <1>1 DEF Ordered
<1>7. \A i \in 1..N : ~ (e.start < ents[i].end /\ e.end > ents[i].start)
  OBVIOUS
<1> HIDE DEF l, N
<1>8. \A i \in 1..p : ents[i].end <= e.start
  <2> TAKE i \in 1..p
  <2>1. i \in 1..N
    BY <1>1, <1>2
  <2>2. ents[i].start < e.start /\ ~ (e.start < ents[i].end /\ e.end > ents[i].start)
    BY <1>2, <1>7, <2>1
  <2>3. ents[i].start \in Int /\ ents[i].end \in Int
    BY <1>4, <2>1
  <2> QED
    BY <1>5, <2>2, <2>3
<1>9. \A i \in p+1..N : e.end <= ents[i].start
  <2> TAKE i \in p+1..N
  <2>1. i \in 1..N /\ p + 1 \in 1..N /\ p < N
    BY <1>1, <1>2
  <2>2. ents[p+1].start <= ents[i].start
    <3>1. i = p + 1 \/ p + 1 < i
      BY <1>1
    <3> QED
      BY <1>4, <1>6, <2>1, <3>1
  <2> QED
    BY <1>2, <1>4, <1>5, <1>7, <2>1, <2>2
<1>10. \A i \in 1..N+1 : \/ i <= p /\ i \in 1..N /\ l[i] = ents[i]
                         \/ i = p + 1 /\ l[i] = e
                         \/ i > p + 1 /\ i - 1 \in p+1..N /\ i - 1 \in 1..N /\ l[i] = ents[i-1]
  BY <1>1, <1>3
<1>11. \A i \in 1..N+1 : InLimits(m, l[i])
  BY <1>4, <1>10
<1>12. ASSUME NEW i \in 1..N+1, NEW j \in 1..N+1, i < j
       PROVE  l[i].end <= l[j].start
  <2>1. CASE i <= p
    <3>1. i \in 1..N /\ l[i] = ents[i]
      BY <1>1, <1>10, <2>1
    <3>2. CASE j <= p
      BY <1>6, <1>10, <1>12, <3>1, <3>2
    <3>3. CASE j = p + 1
      BY <1>8, <1>10, <2>1, <3>1, <3>3
    <3>4. CASE j > p + 1
      <4>1. j - 1 \in 1..N /\ l[j] = ents[j-1] /\ i < j - 1
        BY <1>10, <2>1, <3>4
      <4> QED
        BY <1>6, <3>1, <4>1
    <3> QED
      BY <3>2, <3>3, <3>4
  <2>2. CASE i = p + 1
    <3>1. l[i] = e /\ j - 1 \in p+1..N /\ l[j] = ents[j-1]
      BY <1>10, <1>12, <2>2
    <3> QED
      BY <1>9, <3>1
  <2>3. CASE i > p + 1
    <3>1. /\ i - 1 \in 1..N /\ l[i] = ents[i-1]
          /\ j - 1 \in 1..N /\ l[j] = ents[j-1] /\ i - 1 < j - 1
      BY <1>10, <1>12, <2>3
    <3> QED
      BY <1>6, <3>1
  <2> QED
    BY <2>1, <2>2, <2>3
<1> QED
  BY <1>3, <1>11, <1>12 DEF ListOK, Ordered, l, N

-----------------------------------------------------------------------------
(* The maps.                                                               *)

\* A sum that wraps around never comes back to where it started.
LEMMA WrapDiffers ==
  ASSUME NEW w \in Nat \ {0}, NEW a \in 0 .. w-1, NEW d \in 1 .. w-1
  PROVE  (a + d) % w # a
<1> DEFINE q == (a + d) \div w
<1> SUFFICES ASSUME (a + d) % w = a PROVE FALSE
  OBVIOUS
<1>1. q \in Int /\ a + d = q * w + a
  <2>1. a + d \in Int
    OBVIOUS
  <2> QED
    BY <2>1, IntDivMod
<1> HIDE DEF q
<1>2. 0 * w + d = q * w + 0 /\ 0 \in 0 .. w-1 /\ d \in 0 .. w-1
  <2> DEFINE p == q * w
  <2>1. p \in Int /\ 0 * w = 0
    BY <1>1
  <2>2. a + d = p + a
    BY <1>1
  <2> HIDE DEF p
  <2>3. d = p
    BY <2>1, <2>2
  <2> QED
    BY <2>1, <2>3 DEF p
<1>3. d = 0
  BY <1>1, <1>2, SameRest
<1> QED
  BY <1>3

\* A range that vm_map_enter() accepts has an address in it: its end does
\* not wrap around, or only to below its start.
LEMMA ValidRangeLimits ==
  ASSUME NEW m, NEW start \in Starts, NEW size \in Sizes, ValidRange(m, start, size),
         NEW prot \in Prots, NEW wired \in BOOLEAN
  PROVE  LET e == [start |-> start, end |-> (start + size) % AddressSpace,
                   prot |-> prot, wired |-> wired]
         IN  e \in EntryRecord /\ InLimits(m, e)
<1> DEFINE end == (start + size) % AddressSpace
<1>1. AddressSpace \in Nat \ {0} /\ start \in 0 .. AddressSpace-1 /\ size \in 1 .. AddressSpace-1
  BY VmMapAssumption DEF ValidRange
<1>2. end \in Int
  <2>1. start + size \in Int
    BY <1>1
  <2> QED
    BY <1>1, <2>1, IntDivMod
<1>3. end # start
  BY <1>1, WrapDiffers
<1>4. min_offset(m) <= start /\ end <= max_offset(m) /\ end >= start
  BY DEF ValidRange
<1> HIDE DEF end
<1>5. start < end
  BY <1>1, <1>2, <1>3, <1>4
<1>6. [start |-> start, end |-> end, prot |-> prot, wired |-> wired] \in EntryRecord
  BY <1>1, <1>2 DEF EntryRecord
<1> QED
  BY <1>4, <1>5, <1>6 DEF end, InLimits

LEMMA EmptyListOK ==
  ASSUME NEW m
  PROVE  ListOK(m, << >>) /\ Len(<< >>) = 0
BY DEF ListOK, Ordered

LEMMA RemoveEntries ==
  ASSUME NEW s, NEW root, NEW ents, NEW start, NEW end
  PROVE  RemoveFrom(s, root, ents, start, end).entries = Kept(ents, start, end)
BY DEF RemoveFrom

LEMMA PageRangeEntries ==
  ASSUME NEW s, NEW root, NEW m, NEW ents, ListOK(m, ents), NEW start, NEW size, NEW prot
  PROVE  ListOK(m, PageRange(s, root, ents, start, size, prot).entries)
<1> DEFINE run == MapPages(s, root, start, (start + size) % AddressSpace, prot_to_pte(prot))
           undo == RemoveFrom(run.s, root, ents, start, start + run.done * PAGE_SIZE)
<1>1. undo.entries = Kept(ents, start, start + run.done * PAGE_SIZE)
  BY RemoveEntries
<1>2. ListOK(m, undo.entries)
  BY <1>1, KeptListOK
<1>3. PageRange(s, root, ents, start, size, prot).entries \in {ents, undo.entries}
  <2> HIDE DEF run, undo
  <2>1. PageRange(s, root, ents, start, size, prot) =
          IF run.done = Steps(start, (start + size) % AddressSpace)
            THEN [s |-> run.s, entries |-> ents, ok |-> TRUE]
            ELSE [s |-> undo.s, entries |-> undo.entries, ok |-> FALSE]
    BY DEF PageRange, run, undo
  <2> QED
    BY <2>1
<1> HIDE DEF undo
<1> QED
  BY <1>2, <1>3

LEMMA SetMapOK ==
  ASSUME MapsInv, NEW m \in AllPmaps, NEW l, ListOK(m, l), NEW n, n = Len(l), SetMap(m, l, n)
  PROVE  MapsInv'
<1> DEFINE R == [entries : Seq(EntryRecord), nentries : Int]
           r == [entries |-> l, nentries |-> n]
<1>1. l \in Seq(EntryRecord) /\ Len(l) \in Nat
  BY DEF ListOK
<1>2. r \in R /\ r.entries = l /\ r.nentries = n
  BY <1>1
<1>3. maps \in [AllPmaps -> R] /\ maps' = [maps EXCEPT ![m] = r]
  BY DEF MapsInv, SetMap
<1> HIDE DEF R, r
<1>4. maps' \in [AllPmaps -> R] /\ maps'[m] = r /\ \A k \in AllPmaps : k # m => maps'[k] = maps[k]
  BY <1>2, <1>3
<1>5. ASSUME NEW k \in AllPmaps
      PROVE  ListOK(k, maps'[k].entries) /\ maps'[k].nentries = Len(maps'[k].entries)
  <2>1. CASE k = m
    BY <1>2, <1>4, <2>1
  <2>2. CASE k # m
    BY <1>4, <2>2 DEF MapsInv
  <2> QED
    BY <2>1, <2>2
<1>6. maps' \in [AllPmaps -> [entries : Seq(EntryRecord), nentries : Int]]
  BY <1>4 DEF R
<1> QED
  BY <1>5, <1>6 DEF MapsInv, ListOK, InLimits, Ordered, min_offset, max_offset

LEMMA MapsInvOf ==
  ASSUME MapsInv, NEW m \in AllPmaps
  PROVE  /\ ListOK(m, maps[m].entries) /\ maps[m].nentries = Len(maps[m].entries)
         /\ Len(maps[m].entries) \in Nat
BY DEF MapsInv, ListOK

LEMMA EnterMaps ==
  ASSUME MapsInv, NEW m \in AllPmaps, NEW start \in Starts, NEW size \in Sizes,
         NEW prot \in Prots, NEW wired \in BOOLEAN, vm_map_enter(m, start, size, prot, wired)
  PROVE  MapsInv'
<1> DEFINE end  == (start + size) % AddressSpace
           ents == maps[m].entries
           e    == [start |-> start, end |-> end, prot |-> prot, wired |-> wired]
           list == Inserted(ents, e)
           run  == MapPages(Machine, Root(m), start, end, prot_to_pte(prot))
           undo == RemoveFrom(run.s, Root(m), list, start, end)
           n    == maps[m].nentries + 1
<1>1. ListOK(m, ents) /\ n = Len(ents) + 1 /\ Len(ents) \in Nat
  BY MapsInvOf
<1>2. /\ ValidRange(m, start, size)
      /\ \A i \in 1..Len(ents) : ~ (start < ents[i].end /\ end > ents[i].start)
      /\ \/ SetMap(m, list, n)
         \/ SetMap(m, undo.entries, n - (Len(list) - Len(undo.entries)))
  <2> HIDE DEF run, undo
  <2> QED
    BY DEF vm_map_enter, run, undo
<1>3. e \in EntryRecord /\ InLimits(m, e) /\ e.start = start /\ e.end = end
  BY <1>2, ValidRangeLimits
<1>4. undo.entries = Kept(list, start, end)
  BY RemoveEntries
<1> HIDE DEF undo, run, e, ents, end
<1>5. ListOK(m, list) /\ Len(list) = Len(ents) + 1
  BY <1>1, <1>2, <1>3, InsertedListOK
<1>6. ListOK(m, undo.entries) /\ Len(undo.entries) \in Nat
  <2>1. ListOK(m, Kept(list, start, end))
    BY <1>5, KeptListOK
  <2> QED
    BY <1>4, <2>1 DEF ListOK
<1> HIDE DEF list, n
<1>7. n - (Len(list) - Len(undo.entries)) = Len(undo.entries) /\ n = Len(list)
  BY <1>1, <1>5, <1>6
<1> QED
  BY <1>2, <1>5, <1>6, <1>7, SetMapOK

LEMMA RemoveMaps ==
  ASSUME MapsInv, NEW m \in AllPmaps, NEW start, NEW size, vm_map_remove(m, start, size)
  PROVE  MapsInv'
<1> DEFINE end  == (start + size) % AddressSpace
           ents == maps[m].entries
           r    == RemoveFrom(Machine, Root(m), ents, start, end)
           k    == maps[m].nentries - (Len(ents) - Len(r.entries))
<1>1. ListOK(m, ents) /\ maps[m].nentries = Len(ents) /\ Len(ents) \in Nat
  BY MapsInvOf
<1>2. \/ UNCHANGED maps
      \/ SetMap(m, r.entries, k)
  <2> HIDE DEF r
  <2> QED
    BY DEF vm_map_remove, r
<1>3. r.entries = Kept(ents, start, end)
  BY RemoveEntries
<1> HIDE DEF r
<1>4. ListOK(m, r.entries) /\ Len(r.entries) \in Nat
  <2>1. ListOK(m, Kept(ents, start, end))
    BY <1>1, KeptListOK
  <2> QED
    BY <1>3, <2>1 DEF ListOK
<1>5. k = Len(r.entries)
  BY <1>1, <1>4
<1> HIDE DEF k, ents
<1>6. CASE UNCHANGED maps
  BY <1>6 DEF MapsInv, ListOK, InLimits, Ordered, min_offset, max_offset
<1>7. CASE SetMap(m, r.entries, k)
  BY <1>4, <1>5, <1>7, SetMapOK
<1> QED
  BY <1>2, <1>6, <1>7

LEMMA PageRangeMaps ==
  ASSUME MapsInv, NEW m \in AllPmaps, NEW start, NEW size, NEW prot,
         vm_map_page_range(m, start, size, prot)
  PROVE  MapsInv'
<1> DEFINE ents == maps[m].entries
           r    == PageRange(Machine, Root(m), ents, start, size, prot)
           k    == maps[m].nentries - (Len(ents) - Len(r.entries))
<1>1. ListOK(m, ents) /\ maps[m].nentries = Len(ents) /\ Len(ents) \in Nat
  BY MapsInvOf
<1>2. SetMap(m, r.entries, k)
  <2> HIDE DEF r
  <2> QED
    BY DEF vm_map_page_range, r
<1>3. ListOK(m, r.entries)
  BY <1>1, PageRangeEntries
<1> HIDE DEF r
<1>4. Len(r.entries) \in Nat
  BY <1>3 DEF ListOK
<1>5. k = Len(r.entries)
  BY <1>1, <1>4
<1> HIDE DEF k, ents
<1> QED
  BY <1>2, <1>3, <1>5, SetMapOK

\* The steps of the address maps, and of tasks that come and go.
LEMMA MapsStep ==
  ASSUME MapsInv, [VmTaskNext]_vmVars
  PROVE  MapsInv'
<1>1. CASE UNCHANGED maps
  BY <1>1 DEF MapsInv, ListOK, InLimits, Ordered, min_offset, max_offset
<1>2. ASSUME NEW m \in AllPmaps, SetMap(m, << >>, 0) PROVE MapsInv'
  BY <1>2, EmptyListOK, SetMapOK
<1>3. CASE VmNext
  <2>1. ASSUME NEW m \in AllPmaps, NEW a \in Starts, NEW size \in Sizes, vm_map_remove(m, a, size)
        PROVE  MapsInv'
    BY <2>1, RemoveMaps
  <2>2. ASSUME NEW m \in AllPmaps, NEW a \in Starts, NEW size \in Sizes, NEW prot \in Prots,
               NEW wired \in BOOLEAN, vm_map_enter(m, a, size, prot, wired)
        PROVE  MapsInv'
    BY <2>2, EnterMaps
  <2>3. ASSUME NEW a, NEW type, vm_fault(a, type) PROVE MapsInv'
    <3>1. UNCHANGED maps
      BY <2>3 DEF vm_fault
    <3> QED
      BY <1>1, <3>1
  <2> QED
    BY <1>3, <2>1, <2>2, <2>3, Zenon DEF VmNext
<1>4. ASSUME NEW m \in AllPmaps, vm_map_create(m) PROVE MapsInv'
  BY <1>2, <1>4, Zenon DEF vm_map_create
<1>5. ASSUME NEW m \in AllPmaps, vm_map_destroy(m) PROVE MapsInv'
  <2>1. SetMap(m, << >>, 0)
    BY <1>5, Zenon DEF vm_map_destroy
  <2> QED
    BY <1>2, <2>1
<1>6. ASSUME NEW m \in AllPmaps, NEW a \in Starts, NEW size \in Sizes, NEW prot \in Prots,
             vm_map_page_range(m, a, size, prot)
      PROVE  MapsInv'
  BY <1>6, PageRangeMaps
<1>7. CASE UNCHANGED vmVars
  <2>1. UNCHANGED maps
    BY <1>7 DEF vmVars
  <2> QED
    BY <1>1, <2>1
<1> QED
  BY <1>3, <1>4, <1>5, <1>6, <1>7, Zenon DEF VmTaskNext

LEMMA MapsInitial ==
  ASSUME VmInit
  PROVE  MapsInv
<1> DEFINE r == [entries |-> << >>, nentries |-> 0]
<1>1. r \in [entries : Seq(EntryRecord), nentries : Int] /\ r.entries = << >> /\ r.nentries = 0
  OBVIOUS
<1>2. maps = [m \in AllPmaps |-> r]
  BY DEF VmInit
<1> HIDE DEF r
<1>3. \A m \in AllPmaps : ListOK(m, maps[m].entries) /\ maps[m].nentries = Len(maps[m].entries)
  BY <1>1, <1>2, EmptyListOK
<1> QED
  BY <1>1, <1>2, <1>3 DEF MapsInv

LEMMA MapsSorted ==
  ASSUME MapsInv
  PROVE  MapSorted
<1>1. SUFFICES ASSUME NEW m \in AllPmaps
      PROVE  LET ents == maps[m].entries
             IN  /\ \A i \in 1..Len(ents) :
                      /\ min_offset(m) <= ents[i].start /\ ents[i].start < ents[i].end
                      /\ ents[i].end <= max_offset(m)
                 /\ \A i \in 1..Len(ents)-1 : ents[i].end <= ents[i+1].start
                 /\ maps[m].nentries = Len(ents)
  BY DEF MapSorted, Live
<1> DEFINE ents == maps[m].entries
<1>2. ListOK(m, ents) /\ maps[m].nentries = Len(ents) /\ Len(ents) \in Nat
  BY MapsInvOf
<1> HIDE DEF ents
<1>3. \A i \in 1..Len(ents) : InLimits(m, ents[i])
  BY <1>2 DEF ListOK
<1>4. ASSUME NEW i \in 1..Len(ents)-1 PROVE ents[i].end <= ents[i+1].start
  <2>1. i \in 1..Len(ents) /\ i + 1 \in 1..Len(ents) /\ i < i + 1
    BY <1>2
  <2> QED
    BY <1>2, <2>1 DEF ListOK, Ordered
<1> QED
  BY <1>2, <1>3, <1>4 DEF InLimits, ents

(* Whatever ranges are entered, removed, mapped or run out of memory in,   *)
(* and whatever tasks come and go, the list of every address map stays     *)
(* sorted, without an overlap, within the limits and counted by nentries   *)
(* (vm_map.c:80-126, 128-252).                                             *)
THEOREM VmTaskMapSorted == VmTaskSpec => []MapSorted
<1>1. VmInit => MapsInv
  BY MapsInitial
<1>2. MapsInv /\ [VmTaskNext]_vmVars => MapsInv'
  BY MapsStep
<1>3. MapsInv => MapSorted
  BY MapsSorted
<1> QED
  BY <1>1, <1>2, <1>3, PTL DEF VmTaskSpec

(* The same of the calls on the maps alone, which the safety run checks.   *)
THEOREM VmMapSorted == VmSpec => []MapSorted
<1>1. VmInit => MapsInv
  BY MapsInitial
<1>2. MapsInv /\ [VmNext]_vmVars => MapsInv'
  <2>1. [VmNext]_vmVars => [VmTaskNext]_vmVars
    BY Zenon DEF VmTaskNext
  <2> QED
    BY <2>1, MapsStep
<1>3. MapsInv => MapSorted
  BY MapsSorted
<1> QED
  BY <1>1, <1>2, <1>3, PTL DEF VmSpec

-----------------------------------------------------------------------------
(* The loops over the pages of a range.  Ranges are whole pages here: a    *)
(* and b are the page numbers where one starts and ends.                   *)

\* The tables of machine s are a forest.
Treed(s, k, R, D) == s \in Machines /\ \E lev : Tree(s.mem, s.free, lev, k, R, D)

\* From M to N only pages of P changed, and only from r, or in the kernel's
\* half.
ChangedIn(M, N, X, r, P) ==
  \A x \in X, va \in VPages :
    pmap_query(N, x, va) # pmap_query(M, x, va) => va \in P /\ (x = r \/ InKernelHalf(va))

LEMMA ChangedOn ==
  ASSUME NEW M, NEW N, NEW O, NEW X, NEW r, NEW P, NEW Q,
         ChangedIn(M, N, X, r, P), ChangedIn(N, O, X, r, Q)
  PROVE  ChangedIn(M, O, X, r, P \cup Q)
BY DEF ChangedIn

LEMMA ProtFlags ==
  ASSUME NEW prot PROVE prot_to_pte(prot) \in SUBSET {"W", "NX"}
BY DEF prot_to_pte

\* pmap_walk_create() and what is built on it keep the types of any machine.
LEMMA CreateType ==
  ASSUME NEW s \in Machines, NEW r \in Frames, NEW va \in Nat
  PROVE  pmap_walk_create(s, r, va) \in Machines
<1>0. LEVELS \in Nat /\ LEVELS >= 2
  BY Halves
<1>1. PICK c : CreateRun(s, r, va, c) /\ pmap_walk_create(s, r, va) = c[1]
  BY CreateDef
<1> DEFINE T == {l \in 1..LEVELS : c[l] \in Machines}
<1>2. LEVELS \in T
  <2>1. c[LEVELS] = [s EXCEPT !.got = r]
    BY <1>1 DEF CreateRun
  <2> QED
    BY <1>0, <2>1 DEF Machines
<1>3. ASSUME NEW l \in 1..LEVELS-1, l + 1 \in T PROVE l \in T
  <2>1. l \in 1..LEVELS /\ l + 1 \in 1..LEVELS /\ c[l+1] \in Machines
    BY <1>0, <1>3
  <2>2. c[l] = IF c[l+1].got = 0 THEN c[l+1] ELSE WalkDown(c[l+1], l+1, va)
    BY <1>1 DEF CreateRun
  <2>3. c[l+1].got # 0 => WalkDown(c[l+1], l+1, va) \in Machines
    BY <2>1, WalkDownType
  <2> QED
    BY <2>1, <2>2, <2>3
<1>4. 1..LEVELS \subseteq T
  <2> HIDE DEF T
  <2> QED
    BY <1>2, <1>3, DownInduction
<1> QED
  BY <1>0, <1>1, <1>4

LEMMA ZeroPageType ==
  ASSUME NEW s \in Machines, NEW r \in Frames, NEW va \in Nat, NEW flags \in SUBSET {"W", "NX"}
  PROVE  MapZeroPage(s, r, va, flags) \in Machines
<1> DEFINE a == pmap_alloc_table(s)
           w == pmap_walk_create(a, r, va)
           e == [frame |-> a.got, flags |-> flags]
           i == Idx(1, va)
           b == pmap_map(a, r, va, a.got, flags)
<1>1. a \in Machines /\ (a.got # 0 => a.got \in Frames)
  BY AllocDef DEF Machines
<1>2. CASE a.got = 0
  BY <1>1, <1>2 DEF MapZeroPage
<1>3. CASE a.got # 0
  <2>1. w \in Machines /\ w.mem \in Memory /\ w.got \in Frames \cup {0}
    BY <1>1, CreateType DEF Machines
  <2>2. e \in Entry
    BY <1>1, <1>3 DEF Entry, Pte
  <2>3. i \in Indices
    BY Halves, IdxType
  <2>4. b = IF w.got = 0 THEN w ELSE [w EXCEPT !.mem[w.got][i] = e]
    BY DEF pmap_map
  <2> HIDE DEF a, w, e, i, b
  <2>5. w.got # 0 => Written(w.mem, w.got, i, e) \in Memory
    BY <2>1, <2>2, <2>3, EntryWritten
  <2>6. b \in Machines
    <3>1. CASE w.got = 0
      BY <2>1, <2>4, <3>1
    <3>2. CASE w.got # 0
      <4>1. w = [mem |-> w.mem, free |-> w.free, got |-> w.got]
        BY <2>1 DEF Machines
      <4>2. b = [w EXCEPT !.mem = Written(w.mem, w.got, i, e)]
        BY <2>4, <3>2 DEF Written
      <4>3. b = [mem |-> Written(w.mem, w.got, i, e), free |-> w.free, got |-> w.got]
        BY <4>1, <4>2
      <4> QED
        BY <2>1, <2>5, <3>2, <4>3 DEF Machines
    <3> QED
      BY <3>1, <3>2
  <2>7. [b EXCEPT !.free = @ \cup {a.got}] \in Machines
    BY <1>1, <1>3, <2>6 DEF Machines
  <2>8. MapZeroPage(s, r, va, flags) = IF b.got = 0 THEN [b EXCEPT !.free = @ \cup {a.got}] ELSE b
    BY <1>3 DEF MapZeroPage, a, b
  <2> QED
    BY <2>6, <2>7, <2>8
<1> QED
  BY <1>2, <1>3

\* One page is mapped, or nothing is seen to change.
ZeroPaged(s, t, k, R, D, r, va, flags) ==
  /\ Treed(t, k, R, D) /\ t.free \subseteq s.free
  /\ IF t.got = 0
       THEN ChangedIn(s.mem, t.mem, R \cup {k}, r, {})
       ELSE /\ ChangedIn(s.mem, t.mem, R \cup {k}, r, {va})
            /\ pmap_query(t.mem, r, va) # Absent /\ pmap_query(t.mem, r, va).flags = flags

LEMMA ZeroPage ==
  ASSUME NEW s, NEW k, NEW R, NEW D, Treed(s, k, R, D),
         NEW r, NEW va, OwnPage(k, R, r, va),
         NEW flags \in SUBSET {"W", "NX"}, NEW t, t = MapZeroPage(s, r, va, flags)
  PROVE  \E Q : /\ ZeroPaged(s, t, k, R, Q, r, va, flags)
                /\ pmap_query(s.mem, r, va) = Absent => Q = D
<1> DEFINE a == pmap_alloc_table(s)
           b == pmap_map(a, r, va, a.got, flags)
           X == R \cup {k}
<1>0. s \in Machines
  BY DEF Treed
<1>1. PICK lev : Tree(s.mem, s.free, lev, k, R, D)
  BY DEF Treed
<1>2. \A N : SeenAlike(s.mem, N, X) => ChangedIn(s.mem, N, X, r, {})
  BY PageNumbers DEF SeenAlike, ChangedIn
<1>3. CASE a.got = 0
  <2>1. a \in Machines /\ a.mem = s.mem /\ a.free = s.free /\ t = a
    BY <1>0, <1>3, AllocDef DEF MapZeroPage
  <2>2. Treed(t, k, R, D)
    BY <1>1, <2>1 DEF Treed
  <2>3. ChangedIn(s.mem, t.mem, X, r, {}) /\ t.got = 0
    BY <1>3, <2>1 DEF ChangedIn
  <2> QED
    BY <2>1, <2>2, <2>3 DEF ZeroPaged
<1>4. CASE a.got # 0
  <2>1. t = IF b.got = 0 THEN [b EXCEPT !.free = @ \cup {a.got}] ELSE b
    BY <1>4 DEF MapZeroPage
  <2>2. PICK v, Q : PagePlaced(s, b, a.got, v, k, R, D, Q, r, va, flags)
    BY <1>0, <1>1, <1>4, PlacePage
  <2>3. a.got \in Frames
    BY <1>0, <1>4, AllocDef DEF Machines
  <2> HIDE DEF a, b
  <2>4. CASE b.got = 0
    <3>1. /\ b \in Machines /\ Tree(b.mem, b.free \cup {a.got}, v, k, R, Q)
          /\ SeenAlike(s.mem, b.mem, X) /\ b.free \cup {a.got} \subseteq s.free
      BY <2>2, <2>4 DEF PagePlaced, PageRefused
    <3>2. t \in Machines /\ t.mem = b.mem /\ t.free = b.free \cup {a.got} /\ t.got = 0
      BY <2>1, <2>3, <2>4, <3>1 DEF Machines
    <3>3. Treed(t, k, R, Q)
      BY <3>1, <3>2 DEF Treed
    <3> QED
      BY <1>2, <2>2, <2>4, <3>1, <3>2, <3>3 DEF ZeroPaged, PagePlaced
  <2>5. CASE b.got # 0
    <3> DEFINE e == [frame |-> a.got, flags |-> flags]
    <3>1. /\ b \in Machines /\ Tree(b.mem, b.free, v, k, R, Q)
          /\ pmap_query(b.mem, r, va) = e /\ ChangedAt(s.mem, b.mem, X, r, va)
          /\ b.free \subseteq s.free
      BY <2>2, <2>5 DEF PagePlaced, PageMapped
    <3>2. e # Absent /\ e.flags = flags
      BY <1>4 DEF Absent, a
    <3>3. Treed(t, k, R, Q) /\ t = b
      BY <2>1, <2>5, <3>1 DEF Treed
    <3>4. ChangedIn(s.mem, b.mem, X, r, {va})
      BY <3>1 DEF ChangedAt, ChangedIn
    <3> QED
      BY <2>2, <2>5, <3>1, <3>2, <3>3, <3>4 DEF ZeroPaged, PagePlaced
  <2> QED
    BY <2>4, <2>5
<1> QED
  BY <1>3, <1>4

LEMMA DivIs ==
  ASSUME NEW n \in Nat \ {0}, NEW q \in Nat, NEW r \in 0 .. n-1, NEW x, x = q * n + r
  PROVE  x \div n = q
<1> DEFINE p == x \div n
           u == x % n
           a == q * n
           b == p * n
<1>0. a \in Nat /\ x \in Nat
  OBVIOUS
<1>1. p \in Nat /\ u \in 0 .. n-1 /\ x = p * n + u
  BY <1>0, DivMod
<1> HIDE DEF p, u
<1>2. (q < p => a + n <= b) /\ (p < q => b + n <= a) /\ b \in Nat
  BY <1>1, PageAbove
<1>3. x = a + r /\ x = b + u
  BY <1>1
<1> HIDE DEF a, b
<1>4. q = p
  BY <1>0, <1>1, <1>2, <1>3
<1> QED
  BY <1>4 DEF p

\* A range of whole pages.
Whole(from, to, a, b) ==
  /\ a \in Nat /\ b \in Nat /\ a <= b
  /\ from = a * PAGE_SIZE /\ to = b * PAGE_SIZE

LEMMA WholeRange ==
  ASSUME NEW from, NEW to, NEW a, NEW b, Whole(from, to, a, b)
  PROVE  /\ Steps(from, to) = b - a
         /\ \A i \in Nat : Page(from + i * PAGE_SIZE) = a + i
         /\ from \in Nat /\ to \in Nat
<1>0. PAGE_SIZE \in Nat \ {0} /\ a \in Nat /\ b \in Nat /\ a <= b
  BY VmMapAssumption DEF Whole
<1>1. from = a * PAGE_SIZE /\ to = b * PAGE_SIZE /\ from \in Nat /\ to \in Nat
  BY <1>0 DEF Whole
<1>2. ASSUME NEW i \in Nat PROVE Page(from + i * PAGE_SIZE) = a + i
  <2>1. from + i * PAGE_SIZE = (a + i) * PAGE_SIZE + 0
    BY <1>0, <1>1
  <2>2. a + i \in Nat /\ 0 \in 0 .. PAGE_SIZE-1
    BY <1>0
  <2> QED
    BY <1>0, <2>1, <2>2, DivIs DEF Page
<1>3. a < b => from < to /\ to - from + PAGE_SIZE - 1 = (b - a) * PAGE_SIZE + (PAGE_SIZE - 1)
  <2> SUFFICES ASSUME a < b
               PROVE  from < to /\ to - from + PAGE_SIZE - 1 = (b - a) * PAGE_SIZE + (PAGE_SIZE - 1)
    OBVIOUS
  <2>1. a * PAGE_SIZE + PAGE_SIZE <= b * PAGE_SIZE
    BY <1>0, PageAbove
  <2> DEFINE u == a * PAGE_SIZE
             v == b * PAGE_SIZE
  <2>2. u \in Nat /\ v \in Nat /\ from = u /\ to = v /\ u + PAGE_SIZE <= v /\ v - u = (b - a) * PAGE_SIZE
    BY <1>0, <1>1, <2>1
  <2> HIDE DEF u, v
  <2> QED
    BY <1>0, <2>2
<1>4. a < b => (to - from + PAGE_SIZE - 1) \div PAGE_SIZE = b - a
  <2>1. a < b => b - a \in Nat /\ PAGE_SIZE - 1 \in 0 .. PAGE_SIZE-1
    BY <1>0
  <2> QED
    BY <1>0, <1>3, <2>1, DivIs
<1>5. Steps(from, to) = b - a
  <2>1. a = b => from = to /\ b - a = 0
    BY <1>0, <1>1
  <2> QED
    BY <1>0, <1>1, <1>3, <1>4, <2>1 DEF Steps
<1> QED
  BY <1>1, <1>2, <1>5

\* The loop of vm_map_enter() and vm_map_page_range(), turn by turn.
Turns == [s : Machines, done : Nat]

MapTurn(x, i, r, from, flags) ==
  LET t == MapZeroPage(x.s, r, Page(from + (i-1) * PAGE_SIZE), flags)
  IN  IF x.done < i - 1 THEN x
      ELSE [s |-> t, done |-> IF t.got = 0 THEN x.done ELSE i]

MapRec(s, r, from, to, flags, w) ==
  w = [i \in 0 .. Steps(from, to) |->
         IF i = 0 THEN [s |-> s, done |-> 0] ELSE MapTurn(w[i-1], i, r, from, flags)]

MapRun(s, N, r, from, flags, w) ==
  /\ w[0] = [s |-> s, done |-> 0]
  /\ \A i \in 1..N : w[i] = MapTurn(w[i-1], i, r, from, flags)

LEMMA MapPagesDef ==
  ASSUME NEW s \in Machines, NEW r \in Frames, NEW from, NEW to, NEW a, NEW b, Whole(from, to, a, b),
         NEW flags \in SUBSET {"W", "NX"}, NEW N, N = b - a
  PROVE  \E w : MapRun(s, N, r, from, flags, w) /\ MapPages(s, r, from, to, flags) = w[N]
<1> DEFINE G == [i \in 1..N |-> [x \in Turns |-> MapTurn(x, i, r, from, flags)]]
           x0 == [s |-> s, done |-> 0]
           c == CHOOSE w : MapRec(s, r, from, to, flags, w)
<1>0. /\ N \in Nat /\ Steps(from, to) = N /\ \A i \in Nat : Page(from + i * PAGE_SIZE) \in Nat
  BY WholeRange DEF Whole
<1>1. ASSUME NEW i \in 1..N, NEW x \in Turns PROVE MapTurn(x, i, r, from, flags) \in Turns
  <2> DEFINE t == MapZeroPage(x.s, r, Page(from + (i-1) * PAGE_SIZE), flags)
  <2>1. x.s \in Machines /\ x.done \in Nat /\ i \in Nat /\ i - 1 \in Nat
    BY DEF Turns
  <2>2. t \in Machines
    BY <1>0, <2>1, ZeroPageType
  <2>3. MapTurn(x, i, r, from, flags) \in {x, [s |-> t, done |-> x.done], [s |-> t, done |-> i]}
    BY DEF MapTurn
  <2> HIDE DEF t
  <2> QED
    BY <2>1, <2>2, <2>3 DEF Turns
<1>2. G \in [1..N -> [Turns -> Turns]]
  BY <1>1
<1>3. x0 \in Turns
  BY DEF Turns
<1>4. PICK w \in [0..N -> Turns] : LoopRun(N, x0, G, w)
  <2> HIDE DEF G, x0
  <2> QED
    BY <1>0, <1>2, <1>3, UpRecursion
<1>5. MapRec(s, r, from, to, flags, w)
  <2>1. \A i \in 0..N : i # 0 => i \in 1..N /\ i - 1 \in 0..N
    BY <1>0
  <2>2. \A i \in 0..N : i # 0 => G[i][w[i-1]] = MapTurn(w[i-1], i, r, from, flags)
    BY <1>4, <2>1
  <2> HIDE DEF G, x0
  <2>3. w = [i \in 0..N |-> IF i = 0 THEN x0 ELSE MapTurn(w[i-1], i, r, from, flags)]
    BY <1>4, <2>2 DEF LoopRun
  <2> QED
    BY <1>0, <2>3 DEF MapRec, x0
<1>6. MapRec(s, r, from, to, flags, c)
  BY <1>5
<1>7. MapPages(s, r, from, to, flags) = c[N]
  BY <1>0 DEF MapPages, MapRec, MapTurn
<1> HIDE DEF c
<1>8. MapRun(s, N, r, from, flags, c)
  <2>1. 0 \in 0..N /\ \A i \in 1..N : i \in 0..N /\ i # 0
    BY <1>0
  <2> QED
    BY <1>0, <1>6, <2>1 DEF MapRec, MapRun
<1> QED
  BY <1>7, <1>8

\* d pages from a on were mapped, and that is all that is seen.
PagesMapped(s, x, k, R, D, r, a, n, flags) ==
  /\ Treed(x.s, k, R, D) /\ x.s.free \subseteq s.free /\ x.done \in 0..n
  /\ ChangedIn(s.mem, x.s.mem, R \cup {k}, r, a .. a + x.done - 1)
  /\ \A va \in a .. a + x.done - 1 :
       pmap_query(x.s.mem, r, va) # Absent /\ pmap_query(x.s.mem, r, va).flags = flags

LEMMA MapPagesMap ==
  ASSUME NEW s, NEW k, NEW R, NEW D, Treed(s, k, R, D), NEW r \in R \cup {k},
         NEW from, NEW to, NEW a, NEW b, Whole(from, to, a, b), NEW flags \in SUBSET {"W", "NX"},
         \A va \in a .. b-1 : OwnPage(k, R, r, va)
  PROVE  \E Q : /\ PagesMapped(s, MapPages(s, r, from, to, flags), k, R, Q, r, a, b - a, flags)
                /\ (\A va \in a .. b-1 : pmap_query(s.mem, r, va) = Absent) => Q = D
<1> DEFINE N == b - a
           X == R \cup {k}
           NoneThere == \A va \in a .. b-1 : pmap_query(s.mem, r, va) = Absent
<1>0. s \in Machines /\ r \in Frames /\ N \in Nat /\ a \in Nat /\ b \in Nat
  BY TreeFacts DEF Treed, Whole
<1>1. PICK w : MapRun(s, N, r, from, flags, w) /\ MapPages(s, r, from, to, flags) = w[N]
  BY <1>0, MapPagesDef
<1> HIDE DEF NoneThere
<1> DEFINE Good(i) == \E Q : PagesMapped(s, w[i], k, R, Q, r, a, i, flags) /\ (NoneThere => Q = D)
           T == {i \in 0..N : Good(i)}
<1> HIDE DEF Good
<1>2. 0 \in T
  <2>1. w[0].s = s /\ w[0].done = 0
    BY <1>1 DEF MapRun
  <2>2. ChangedIn(s.mem, w[0].s.mem, X, r, a .. a + w[0].done - 1)
    BY <2>1 DEF ChangedIn
  <2>3. a .. a + w[0].done - 1 = {}
    BY <1>0, <2>1
  <2>4. PagesMapped(s, w[0], k, R, D, r, a, 0, flags)
    BY <2>1, <2>2, <2>3 DEF PagesMapped
  <2> QED
    BY <1>0, <2>4 DEF Good
<1>3. ASSUME NEW i \in 1..N, i - 1 \in T PROVE i \in T
  <2> DEFINE x == w[i-1]
             va == a + (i - 1)
             t == MapZeroPage(x.s, r, va, flags)
  <2>0. i \in 0..N /\ i \in Nat /\ i - 1 \in Nat
    BY <1>0
  <2>p. PICK P : PagesMapped(s, x, k, R, P, r, a, i-1, flags) /\ (NoneThere => P = D)
    <3>1. Good(i - 1)
      BY <1>3
    <3> QED
      BY <3>1 DEF Good
  <2>1. /\ Treed(x.s, k, R, P) /\ x.s.free \subseteq s.free /\ x.done \in 0..(i-1)
        /\ ChangedIn(s.mem, x.s.mem, X, r, a .. a + x.done - 1)
        /\ \A vb \in a .. a + x.done - 1 :
             pmap_query(x.s.mem, r, vb) # Absent /\ pmap_query(x.s.mem, r, vb).flags = flags
    BY <2>p DEF PagesMapped
  <2>2. w[i] = IF x.done < i - 1 THEN x ELSE [s |-> t, done |-> IF t.got = 0 THEN x.done ELSE i]
    <3>1. Page(from + (i-1) * PAGE_SIZE) = va
      BY <2>0, WholeRange
    <3> QED
      BY <1>1, <3>1 DEF MapRun, MapTurn
  <2> HIDE DEF x, t
  <2>3. CASE x.done < i - 1
    <3>1. w[i] = x /\ x.done \in 0..i
      BY <2>0, <2>1, <2>2, <2>3
    <3>2. PagesMapped(s, w[i], k, R, P, r, a, i, flags)
      BY <2>1, <3>1 DEF PagesMapped
    <3> QED
      BY <2>0, <2>p, <3>2 DEF Good
  <2>4. CASE x.done = i - 1
    <3>1. va \in a .. b-1 /\ va \notin a .. a + x.done - 1 /\ va \in Nat
      BY <1>0, <2>0, <2>4
    <3>2. OwnPage(k, R, r, va) /\ va \in VPages
      BY <3>1 DEF OwnPage
    <3>3. NoneThere => pmap_query(x.s.mem, r, va) = Absent
      BY <2>1, <3>1, <3>2 DEF ChangedIn, NoneThere
    <3>4. PICK Q : /\ ZeroPaged(x.s, t, k, R, Q, r, va, flags)
                   /\ pmap_query(x.s.mem, r, va) = Absent => Q = P
      <4>1. t = MapZeroPage(x.s, r, va, flags)
        BY DEF t
      <4> HIDE DEF va
      <4> QED
        BY <2>1, <3>2, <4>1, ZeroPage
    <3>q. NoneThere => Q = D
      BY <2>p, <3>3, <3>4
    <3>5. CASE t.got = 0
      <4>1. w[i] = [s |-> t, done |-> x.done]
        BY <2>0, <2>2, <2>4, <3>5
      <4>2. Treed(t, k, R, Q) /\ t.free \subseteq x.s.free /\ ChangedIn(x.s.mem, t.mem, X, r, {})
        BY <3>4, <3>5 DEF ZeroPaged
      <4>3. ChangedIn(s.mem, t.mem, X, r, a .. a + x.done - 1)
        BY <2>1, <4>2 DEF ChangedIn
      <4>4. \A vb \in a .. a + x.done - 1 : pmap_query(t.mem, r, vb) = pmap_query(x.s.mem, r, vb)
        <5>1. \A vb \in a .. a + x.done - 1 : vb \in a .. b-1
          BY <1>0, <2>0, <2>4
        <5> QED
          BY <4>2, <5>1 DEF ChangedIn, OwnPage
      <4>5. x.done \in 0..i
        BY <2>0, <2>1
      <4>6. PagesMapped(s, w[i], k, R, Q, r, a, i, flags)
        BY <2>1, <4>1, <4>2, <4>3, <4>4, <4>5 DEF PagesMapped
      <4> QED
        BY <2>0, <3>q, <4>6 DEF Good
    <3>6. CASE t.got # 0
      <4>1. w[i] = [s |-> t, done |-> i]
        BY <2>0, <2>2, <2>4, <3>6
      <4>2. /\ Treed(t, k, R, Q) /\ t.free \subseteq x.s.free /\ ChangedIn(x.s.mem, t.mem, X, r, {va})
            /\ pmap_query(t.mem, r, va) # Absent /\ pmap_query(t.mem, r, va).flags = flags
        BY <3>4, <3>6 DEF ZeroPaged
      <4>3. a .. a + i - 1 = (a .. a + x.done - 1) \cup {va}
        BY <1>0, <2>0, <2>4
      <4>4. ChangedIn(s.mem, t.mem, X, r, a .. a + i - 1)
        <5> HIDE DEF va
        <5>1. ChangedIn(s.mem, t.mem, X, r, (a .. a + x.done - 1) \cup {va})
          BY <2>1, <4>2, ChangedOn
        <5> QED
          BY <4>3, <5>1
      <4>5. \A vb \in a .. a + x.done - 1 : pmap_query(t.mem, r, vb) = pmap_query(x.s.mem, r, vb)
        <5>1. \A vb \in a .. a + x.done - 1 : vb \in a .. b-1 /\ vb # va
          BY <1>0, <2>0, <2>4
        <5> QED
          BY <4>2, <5>1 DEF ChangedIn, OwnPage
      <4>6. i \in 0..i
        BY <2>0
      <4> HIDE DEF va
      <4>7. \A vb \in a .. a + i - 1 :
              pmap_query(t.mem, r, vb) # Absent /\ pmap_query(t.mem, r, vb).flags = flags
        BY <2>1, <4>2, <4>3, <4>5
      <4>8. PagesMapped(s, w[i], k, R, Q, r, a, i, flags)
        BY <2>1, <4>1, <4>2, <4>4, <4>6, <4>7 DEF PagesMapped
      <4> QED
        BY <2>0, <3>q, <4>8 DEF Good
    <3> QED
      BY <3>5, <3>6
  <2> QED
    BY <2>0, <2>1, <2>3, <2>4
<1>4. 0..N \subseteq T
  <2> HIDE DEF T, N
  <2> QED
    BY <1>0, <1>2, <1>3, UpInduction
<1>5. Good(N)
  BY <1>0, <1>4
<1> QED
  BY <1>1, <1>5, Zenon DEF NoneThere, Good

-----------------------------------------------------------------------------
(* The loops that unmap.                                                   *)

UnmapTurn(x, i, r, from) ==
  LET va  == Page(from + (i-1) * PAGE_SIZE)
      pte == pmap_query(x.mem, r, va)
  IN  IF pte = Absent THEN x
      ELSE [x EXCEPT !.mem = SetPte(@, r, va, Absent), !.free = @ \cup {pte.frame}]

UnmapRec(s, r, from, to, w) ==
  w = [i \in 0 .. Steps(from, to) |-> IF i = 0 THEN s ELSE UnmapTurn(w[i-1], i, r, from)]

UnmapRun(s, N, r, from, w) ==
  w[0] = s /\ \A i \in 1..N : w[i] = UnmapTurn(w[i-1], i, r, from)

LEMMA UnmapTurnType ==
  ASSUME NEW x \in Machines, NEW r \in Frames, NEW i, NEW from,
         Page(from + (i-1) * PAGE_SIZE) \in Nat
  PROVE  UnmapTurn(x, i, r, from) \in Machines
<1> DEFINE va == Page(from + (i-1) * PAGE_SIZE)
           pte == pmap_query(x.mem, r, va)
           p == pmap_walk(x.mem, r, va)
<1>0. x.mem \in Memory /\ x.free \in SUBSET Frames /\ va \in Nat
  BY DEF Machines
<1>1. CASE pte = Absent
  BY <1>1 DEF UnmapTurn
<1>2. CASE pte # Absent
  <2>1. pte \in Entry /\ p # 0
    BY <1>0, <1>2, QueryType DEF pmap_query
  <2>2. p \in Frames /\ Idx(1, va) \in Indices
    <3>1. PICK w : WalkRun(x.mem, r, va, w) /\ p = w[1]
      BY <1>0, WalkDef
    <3>2. 1 \in 1..LEVELS
      BY Halves
    <3> QED
      BY <1>0, <2>1, <3>1, <3>2, IdxType DEF WalkRun
  <2>3. pte.frame \in Frames
    BY <1>2, <2>1 DEF Entry, Pte
  <2>4. SetPte(x.mem, r, va, Absent) \in Memory
    <3>1. SetPte(x.mem, r, va, Absent) = Written(x.mem, p, Idx(1, va), Absent)
      BY DEF SetPte, Written
    <3> QED
      BY <1>0, <2>2, <3>1, EntryWritten, ZeroedFacts
  <2>5. UnmapTurn(x, i, r, from) =
          [x EXCEPT !.mem = SetPte(@, r, va, Absent), !.free = @ \cup {pte.frame}]
    BY <1>2 DEF UnmapTurn
  <2> HIDE DEF va, pte, p
  <2>6. UnmapTurn(x, i, r, from) =
          [mem |-> SetPte(x.mem, r, va, Absent), free |-> x.free \cup {pte.frame}, got |-> x.got]
    BY <2>5 DEF Machines
  <2> QED
    BY <1>0, <2>3, <2>4, <2>6 DEF Machines
<1> QED
  BY <1>1, <1>2

LEMMA UnmapDef ==
  ASSUME NEW s \in Machines, NEW r \in Frames, NEW from, NEW to, NEW a, NEW b, Whole(from, to, a, b),
         NEW N, N = b - a
  PROVE  \E w : UnmapRun(s, N, r, from, w) /\ UnmapPages(s, r, from, to) = w[N]
<1> DEFINE G == [i \in 1..N |-> [x \in Machines |-> UnmapTurn(x, i, r, from)]]
           c == CHOOSE w : UnmapRec(s, r, from, to, w)
<1>0. N \in Nat /\ Steps(from, to) = N /\ \A i \in Nat : Page(from + i * PAGE_SIZE) \in Nat
  BY WholeRange DEF Whole
<1>1. ASSUME NEW i \in 1..N, NEW x \in Machines PROVE UnmapTurn(x, i, r, from) \in Machines
  <2>1. Page(from + (i-1) * PAGE_SIZE) \in Nat
    BY <1>0
  <2> QED
    BY <2>1, UnmapTurnType
<1>2. G \in [1..N -> [Machines -> Machines]]
  BY <1>1
<1>3. PICK w \in [0..N -> Machines] : LoopRun(N, s, G, w)
  <2> HIDE DEF G
  <2> QED
    BY <1>0, <1>2, UpRecursion
<1>4. UnmapRec(s, r, from, to, w)
  <2>1. \A i \in 0..N : i # 0 => i \in 1..N /\ i - 1 \in 0..N
    BY <1>0
  <2>2. \A i \in 0..N : i # 0 => G[i][w[i-1]] = UnmapTurn(w[i-1], i, r, from)
    BY <1>3, <2>1
  <2> HIDE DEF G
  <2>3. w = [i \in 0..N |-> IF i = 0 THEN s ELSE UnmapTurn(w[i-1], i, r, from)]
    BY <1>3, <2>2 DEF LoopRun
  <2> QED
    BY <1>0, <2>3 DEF UnmapRec
<1>5. UnmapRec(s, r, from, to, c)
  BY <1>4
<1>6. UnmapPages(s, r, from, to) = c[N]
  BY <1>0 DEF UnmapPages, UnmapRec, UnmapTurn
<1> HIDE DEF c
<1>7. UnmapRun(s, N, r, from, c)
  <2>1. 0 \in 0..N /\ \A i \in 1..N : i \in 0..N /\ i # 0
    BY <1>0
  <2> QED
    BY <1>0, <1>5, <2>1 DEF UnmapRec, UnmapRun
<1> QED
  BY <1>6, <1>7

\* The pages of P are not mapped from r any more, and that is all that is
\* seen.
PagesUnmapped(s, x, k, R, D, r, P) ==
  /\ Treed(x, k, R, D)
  /\ ChangedIn(s.mem, x.mem, R \cup {k}, r, P)
  /\ \A va \in P : pmap_query(x.mem, r, va) = Absent

LEMMA UnmapOne ==
  ASSUME NEW s, NEW k, NEW R, NEW D, Treed(s, k, R, D), NEW r, NEW i, NEW from, NEW va,
         va = Page(from + (i-1) * PAGE_SIZE), OwnPage(k, R, r, va)
  PROVE  PagesUnmapped(s, UnmapTurn(s, i, r, from), k, R, D, r, {va})
<1> DEFINE e == pmap_query(s.mem, r, va)
           N == SetPte(s.mem, r, va, Absent)
           t == UnmapTurn(s, i, r, from)
<1>0. s \in Machines /\ t = IF e = Absent THEN s ELSE [s EXCEPT !.mem = N, !.free = @ \cup {e.frame}]
  BY DEF Treed, UnmapTurn
<1>1. PICK lev : Tree(s.mem, s.free, lev, k, R, D)
  BY DEF Treed
<1>2. CASE e = Absent
  <2>1. t = s
    BY <1>0, <1>2
  <2>2. ChangedIn(s.mem, s.mem, R \cup {k}, r, {va})
    BY DEF ChangedIn
  <2>3. PagesUnmapped(s, s, k, R, D, r, {va})
    BY <1>2, <2>2 DEF PagesUnmapped
  <2> QED
    BY <2>1, <2>3
<1>3. CASE e # Absent
  <2>1. PageCleared(s.mem, N, s.free, e.frame, lev, k, R, D, r, va)
    BY <1>1, <1>3, PageUnmapped
  <2>2. /\ Tree(N, s.free \cup {e.frame}, lev, k, R, D) /\ pmap_query(N, r, va) = Absent
        /\ ChangedIn(s.mem, N, R \cup {k}, r, {va})
    BY <2>1 DEF PageCleared, ChangedAt, ChangedIn
  <2> HIDE DEF N, e, t
  <2>3. t = [mem |-> N, free |-> s.free \cup {e.frame}, got |-> s.got]
    BY <1>0, <1>3 DEF Machines
  <2>4. N \in Memory /\ s.free \cup {e.frame} \in SUBSET Frames /\ s.got \in Frames \cup {0}
    BY <1>0, <2>2, TreeFacts DEF Machines, Tree
  <2>5. t \in Machines /\ t.mem = N /\ t.free = s.free \cup {e.frame}
    BY <2>3, <2>4 DEF Machines
  <2>6. Treed(t, k, R, D)
    BY <2>2, <2>5 DEF Treed
  <2>7. PagesUnmapped(s, t, k, R, D, r, {va})
    BY <2>2, <2>5, <2>6 DEF PagesUnmapped
  <2> QED
    BY <2>7 DEF t
<1> QED
  BY <1>2, <1>3

LEMMA UnmappedOn ==
  ASSUME NEW s, NEW x, NEW y, NEW k, NEW R, NEW D, NEW r \in R \cup {k}, NEW P \in SUBSET VPages, NEW Q,
         PagesUnmapped(s, x, k, R, D, r, P), PagesUnmapped(x, y, k, R, D, r, Q)
  PROVE  PagesUnmapped(s, y, k, R, D, r, P \cup Q)
<1>1. ChangedIn(s.mem, y.mem, R \cup {k}, r, P \cup Q)
  BY ChangedOn DEF PagesUnmapped
<1>2. ASSUME NEW va \in P \cup Q PROVE pmap_query(y.mem, r, va) = Absent
  BY <1>2 DEF PagesUnmapped, ChangedIn
<1> QED
  BY <1>1, <1>2 DEF PagesUnmapped

LEMMA UnmapPagesUnmap ==
  ASSUME NEW s, NEW k, NEW R, NEW D, Treed(s, k, R, D), NEW r \in R \cup {k},
         NEW from, NEW to, NEW a, NEW b, Whole(from, to, a, b),
         \A va \in a .. b-1 : OwnPage(k, R, r, va)
  PROVE  PagesUnmapped(s, UnmapPages(s, r, from, to), k, R, D, r, a .. b-1)
<1> DEFINE N == b - a
           P(i) == a .. a + i - 1
<1>0. s \in Machines /\ r \in Frames /\ N \in Nat /\ a \in Nat /\ b \in Nat
  BY TreeFacts DEF Treed, Whole
<1>1. PICK w : UnmapRun(s, N, r, from, w) /\ UnmapPages(s, r, from, to) = w[N]
  BY <1>0, UnmapDef
<1> DEFINE T == {i \in 0..N : PagesUnmapped(s, w[i], k, R, D, r, P(i))}
<1>2. 0 \in T
  <2>1. w[0] = s /\ P(0) = {}
    BY <1>0, <1>1 DEF UnmapRun
  <2>2. PagesUnmapped(s, s, k, R, D, r, {})
    BY DEF PagesUnmapped, ChangedIn
  <2> QED
    BY <1>0, <2>1, <2>2
<1>3. ASSUME NEW i \in 1..N, i - 1 \in T PROVE i \in T
  <2> DEFINE x == w[i-1]
             va == a + (i - 1)
  <2>0. i \in 0..N /\ i - 1 \in Nat
    BY <1>0
  <2>1. PagesUnmapped(s, x, k, R, D, r, P(i-1))
    BY <1>3
  <2>2. w[i] = UnmapTurn(x, i, r, from) /\ va = Page(from + (i-1) * PAGE_SIZE)
    BY <1>1, <2>0, WholeRange DEF UnmapRun
  <2>3. OwnPage(k, R, r, va) /\ P(i) = P(i-1) \cup {va} /\ \A vb \in P(i-1) : vb \in a .. b-1
    BY <1>0, <2>0
  <2>4. P(i-1) \in SUBSET VPages
    BY <2>3 DEF OwnPage
  <2> HIDE DEF x, va, P
  <2>5. PagesUnmapped(x, w[i], k, R, D, r, {va})
    <3>1. Treed(x, k, R, D)
      BY <2>1 DEF PagesUnmapped
    <3> QED
      BY <2>2, <2>3, <3>1, UnmapOne
  <2>6. PagesUnmapped(s, w[i], k, R, D, r, P(i-1) \cup {va})
    BY <2>1, <2>4, <2>5, UnmappedOn
  <2> QED
    BY <2>0, <2>3, <2>6
<1>4. 0..N \subseteq T
  <2> HIDE DEF T, N
  <2> QED
    BY <1>0, <1>2, <1>3, UpInduction
<1>5. PagesUnmapped(s, w[N], k, R, D, r, P(N)) /\ P(N) = a .. b-1
  BY <1>0, <1>4
<1> QED
  BY <1>1, <1>5

LEMMA UnmapType ==
  ASSUME NEW s \in Machines, NEW r \in Frames, NEW from, NEW to, NEW a, NEW b, Whole(from, to, a, b)
  PROVE  UnmapPages(s, r, from, to) \in Machines
<1> DEFINE N == b - a
<1>0. N \in Nat /\ \A i \in Nat : Page(from + i * PAGE_SIZE) \in Nat
  <2>1. a \in Nat /\ b \in Nat /\ a <= b
    BY DEF Whole
  <2>2. \A i \in Nat : Page(from + i * PAGE_SIZE) = a + i
    BY WholeRange
  <2> QED
    BY <2>1, <2>2
<1>1. PICK w : UnmapRun(s, N, r, from, w) /\ UnmapPages(s, r, from, to) = w[N]
  BY UnmapDef
<1> DEFINE T == {i \in 0..N : w[i] \in Machines}
<1>2. 0 \in T
  BY <1>0, <1>1 DEF UnmapRun
<1>3. ASSUME NEW i \in 1..N, i - 1 \in T PROVE i \in T
  <2>1. i \in 0..N /\ Page(from + (i-1) * PAGE_SIZE) \in Nat /\ w[i-1] \in Machines
    BY <1>0, <1>3
  <2>2. w[i] = UnmapTurn(w[i-1], i, r, from)
    BY <1>1 DEF UnmapRun
  <2> QED
    BY <2>1, <2>2, UnmapTurnType
<1>4. 0..N \subseteq T
  <2> HIDE DEF T, N
  <2> QED
    BY <1>0, <1>2, <1>3, UpInduction
<1> QED
  BY <1>0, <1>1, <1>4

\* The pages of an entry, and an entry of whole pages below the top.
PagesIn(e) == Page(e.start) .. Page(e.end) - 1

WholeEntry(e) ==
  /\ e.start \in Int /\ e.end \in Int
  /\ Whole(e.start, e.end, Page(e.start), Page(e.end)) /\ e.end <= AddressSpace - 1

\* No entry is removed in part.
NoneCut(ents, start, end) ==
  \A i \in 1..Len(ents) :
    Overlaps(ents[i], start, end) => start <= ents[i].start /\ ents[i].end <= end

\* The pages of those of the first n entries that overlap the range.
GonePages(ents, start, end, n) ==
  {va \in VPages : \E i \in 1..n : Overlaps(ents[i], start, end) /\ va \in PagesIn(ents[i])}

RemoveTurn(x, e, r, start, end) ==
  IF Overlaps(e, start, end)
    THEN UnmapPages(x, r, Larger(e.start, start), Smaller(e.end, end))
    ELSE x

RemoveRec(s, r, ents, start, end, w) ==
  w = [i \in 0 .. Len(ents) |-> IF i = 0 THEN s ELSE RemoveTurn(w[i-1], ents[i], r, start, end)]

RemoveRun(s, r, ents, start, end, w) ==
  w[0] = s /\ \A i \in 1..Len(ents) : w[i] = RemoveTurn(w[i-1], ents[i], r, start, end)

LEMMA RemovedRange ==
  ASSUME NEW e, WholeEntry(e), NEW start \in Int, NEW end \in Int,
         start <= e.start, e.end <= end
  PROVE  Larger(e.start, start) = e.start /\ Smaller(e.end, end) = e.end
BY DEF WholeEntry, Larger, Smaller

LEMMA RemoveDef ==
  ASSUME NEW s \in Machines, NEW r \in Frames, NEW ents, Len(ents) \in Nat,
         NEW start \in Int, NEW end \in Int,
         \A i \in 1..Len(ents) : WholeEntry(ents[i]), NoneCut(ents, start, end)
  PROVE  \E w : /\ RemoveRun(s, r, ents, start, end, w)
                /\ RemoveFrom(s, r, ents, start, end).s = w[Len(ents)]
<1> DEFINE N == Len(ents)
           G == [i \in 1..N |-> [x \in Machines |-> RemoveTurn(x, ents[i], r, start, end)]]
           c == CHOOSE w : RemoveRec(s, r, ents, start, end, w)
<1>1. ASSUME NEW i \in 1..N, NEW x \in Machines
      PROVE  RemoveTurn(x, ents[i], r, start, end) \in Machines
  <2> DEFINE e == ents[i]
  <2>1. CASE Overlaps(e, start, end)
    <3>1. WholeEntry(e) /\ start <= e.start /\ e.end <= end
      BY <2>1 DEF NoneCut
    <3> HIDE DEF e
    <3>2. Larger(e.start, start) = e.start /\ Smaller(e.end, end) = e.end
      BY <3>1, RemovedRange
    <3>3. UnmapPages(x, r, e.start, e.end) \in Machines
      BY <3>1, UnmapType DEF WholeEntry
    <3>4. RemoveTurn(x, e, r, start, end) = UnmapPages(x, r, e.start, e.end)
      BY <2>1, <3>2 DEF RemoveTurn
    <3> QED
      BY <3>3, <3>4 DEF e
  <2>2. CASE ~ Overlaps(e, start, end)
    BY <2>2 DEF RemoveTurn
  <2> QED
    BY <2>1, <2>2
<1>2. G \in [1..N -> [Machines -> Machines]]
  BY <1>1
<1>3. PICK w \in [0..N -> Machines] : LoopRun(N, s, G, w)
  <2> HIDE DEF G
  <2> QED
    BY <1>2, UpRecursion
<1>4. RemoveRec(s, r, ents, start, end, w)
  <2>1. \A i \in 0..N : i # 0 => i \in 1..N /\ i - 1 \in 0..N
    OBVIOUS
  <2>2. \A i \in 0..N : i # 0 => G[i][w[i-1]] = RemoveTurn(w[i-1], ents[i], r, start, end)
    BY <1>3, <2>1
  <2> HIDE DEF G
  <2>3. w = [i \in 0..N |-> IF i = 0 THEN s ELSE RemoveTurn(w[i-1], ents[i], r, start, end)]
    BY <1>3, <2>2 DEF LoopRun
  <2> QED
    BY <2>3 DEF RemoveRec
<1>5. RemoveRec(s, r, ents, start, end, c)
  BY <1>4
<1>6. RemoveFrom(s, r, ents, start, end).s = c[N]
  BY DEF RemoveFrom, RemoveRec, RemoveTurn
<1> HIDE DEF c
<1>7. RemoveRun(s, r, ents, start, end, c)
  <2>1. 0 \in 0..N /\ \A i \in 1..N : i \in 0..N /\ i # 0
    OBVIOUS
  <2> QED
    BY <1>5, <2>1 DEF RemoveRec, RemoveRun
<1> QED
  BY <1>6, <1>7

\* vm_map_remove() unmaps the pages of the entries it drops, and no other.
LEMMA RemovedPages ==
  ASSUME NEW s, NEW k, NEW R, NEW D, Treed(s, k, R, D), NEW r \in R \cup {k},
         NEW ents, Len(ents) \in Nat, NEW start \in Int, NEW end \in Int,
         \A i \in 1..Len(ents) : /\ WholeEntry(ents[i])
                                 /\ \A va \in PagesIn(ents[i]) : OwnPage(k, R, r, va),
         NoneCut(ents, start, end)
  PROVE  PagesUnmapped(s, RemoveFrom(s, r, ents, start, end).s, k, R, D, r,
                       GonePages(ents, start, end, Len(ents)))
<1> DEFINE N == Len(ents)
           P(i) == GonePages(ents, start, end, i)
<1>0. s \in Machines /\ r \in Frames
  BY TreeFacts DEF Treed
<1>1. PICK w : RemoveRun(s, r, ents, start, end, w) /\ RemoveFrom(s, r, ents, start, end).s = w[N]
  BY <1>0, RemoveDef
<1> DEFINE T == {i \in 0..N : PagesUnmapped(s, w[i], k, R, D, r, P(i))}
<1>2. 0 \in T
  <2>1. w[0] = s /\ P(0) = {}
    BY <1>1 DEF RemoveRun, GonePages
  <2>2. PagesUnmapped(s, s, k, R, D, r, {})
    BY DEF PagesUnmapped, ChangedIn
  <2> QED
    BY <2>1, <2>2
<1>3. ASSUME NEW i \in 1..N, i - 1 \in T PROVE i \in T
  <2> DEFINE x == w[i-1]
             e == ents[i]
  <2>0. i \in 0..N /\ i - 1 \in Nat /\ \A j \in 1..i : j \in 1..i-1 \/ j = i
    OBVIOUS
  <2>1. PagesUnmapped(s, x, k, R, D, r, P(i-1)) /\ P(i-1) \in SUBSET VPages
    BY <1>3 DEF GonePages
  <2>2. w[i] = RemoveTurn(x, e, r, start, end)
    BY <1>1 DEF RemoveRun
  <2>3. WholeEntry(e) /\ \A va \in PagesIn(e) : OwnPage(k, R, r, va)
    OBVIOUS
  <2>4. Overlaps(e, start, end) => start <= e.start /\ e.end <= end
    BY DEF NoneCut
  <2>5. P(i) = IF Overlaps(e, start, end) THEN P(i-1) \cup PagesIn(e) ELSE P(i-1)
    <3>1. PagesIn(e) \subseteq VPages
      BY <2>3 DEF OwnPage
    <3> HIDE DEF N
    <3>2. i \in 1..i /\ \A j \in 1..i-1 : j \in 1..i
      BY <2>0
    <3> QED
      BY <2>0, <3>1, <3>2 DEF GonePages
  <2> HIDE DEF x, P, e
  <2>6. CASE Overlaps(e, start, end)
    <3>1. w[i] = UnmapPages(x, r, e.start, e.end)
      BY <2>2, <2>3, <2>4, <2>6, RemovedRange DEF RemoveTurn
    <3>2. PagesUnmapped(x, w[i], k, R, D, r, PagesIn(e))
      <4>1. Treed(x, k, R, D) /\ Whole(e.start, e.end, Page(e.start), Page(e.end))
        BY <2>1, <2>3 DEF PagesUnmapped, WholeEntry
      <4> QED
        BY <2>3, <3>1, <4>1, UnmapPagesUnmap DEF PagesIn
    <3>3. PagesUnmapped(s, w[i], k, R, D, r, P(i-1) \cup PagesIn(e))
      BY <2>1, <3>2, UnmappedOn
    <3> QED
      BY <2>0, <2>5, <2>6, <3>3
  <2>7. CASE ~ Overlaps(e, start, end)
    BY <2>0, <2>1, <2>2, <2>5, <2>7 DEF RemoveTurn
  <2> QED
    BY <2>6, <2>7
<1>4. 0..N \subseteq T
  <2> HIDE DEF T
  <2> QED
    BY <1>2, <1>3, UpInduction
<1> QED
  BY <1>1, <1>4

\* Below the top of the address space no loop wraps around.
LEMMA NoLoopWraps ==
  ASSUME NEW from, NEW to, NEW a, NEW b, Whole(from, to, a, b), to <= AddressSpace - 1
  PROVE  ~ LoopWraps(from, to)
<1>1. Steps(from, to) = b - a /\ from \in Nat /\ to \in Nat
  BY WholeRange
<1>2. from + PAGE_SIZE * (b - a) = to
  <2>1. PAGE_SIZE \in Nat /\ a \in Nat /\ b \in Nat /\ from = a * PAGE_SIZE /\ to = b * PAGE_SIZE
    BY VmMapAssumption DEF Whole
  <2> QED
    BY <2>1
<1>3. AddressSpace \in Nat
  BY VmMapAssumption
<1> QED
  BY <1>1, <1>2, <1>3 DEF LoopWraps

LEMMA RemoveEnds ==
  ASSUME NEW s, NEW r, NEW ents, NEW start \in Int, NEW end \in Int,
         \A i \in 1..Len(ents) : WholeEntry(ents[i]), NoneCut(ents, start, end)
  PROVE  ~ RemoveFrom(s, r, ents, start, end).wraps
<1>1. ASSUME NEW i \in 1..Len(ents), Overlaps(ents[i], start, end)
      PROVE  ~ LoopWraps(Larger(ents[i].start, start), Smaller(ents[i].end, end))
  <2> DEFINE e == ents[i]
  <2>1. WholeEntry(e) /\ start <= e.start /\ e.end <= end
    BY <1>1 DEF NoneCut
  <2> HIDE DEF e
  <2>2. Larger(e.start, start) = e.start /\ Smaller(e.end, end) = e.end
    BY <2>1, RemovedRange
  <2>3. ~ LoopWraps(e.start, e.end)
    BY <2>1, NoLoopWraps DEF WholeEntry
  <2> QED
    BY <2>2, <2>3 DEF e
<1> QED
  BY <1>1 DEF RemoveFrom

-----------------------------------------------------------------------------
(* The entries of a list, as a set.                                        *)

EntriesOf(l) == {l[i] : i \in 1..Len(l)}

LEMMA KeptContents ==
  ASSUME NEW ents \in Seq(EntryRecord), NEW start, NEW end
  PROVE  EntriesOf(Kept(ents, start, end)) = {e \in EntriesOf(ents) : ~ Overlaps(e, start, end)}
<1> DEFINE N == Len(ents)
           Left(i) == {e \in {ents[j] : j \in 1..i} : ~ Overlaps(e, start, end)}
<1>0. N \in Nat
  OBVIOUS
<1>1. PICK k : KeepsOf(ents, start, end, N, k) /\ Kept(ents, start, end) = k[N]
  BY <1>0, KeptDef
<1> DEFINE T == {i \in 0..N : k[i] \in Seq(EntryRecord) /\ EntriesOf(k[i]) = Left(i)}
<1>2. 0 \in T
  <2>1. k[0] = << >>
    BY <1>0, <1>1 DEF KeepsOf
  <2>2. EntriesOf(<< >>) = {} /\ Left(0) = {} /\ << >> \in Seq(EntryRecord) /\ 0 \in 0..N
    BY <1>0 DEF EntriesOf
  <2> HIDE DEF Left, N
  <2> QED
    BY <2>1, <2>2
<1>3. ASSUME NEW i \in 1..N, i - 1 \in T PROVE i \in T
  <2> DEFINE l == k[i-1]
             e == ents[i]
             a == Append(l, e)
  <2>0. i \in 0..N /\ i # 0 /\ i \in 1..i /\ \A j \in 1..i : j \in 1..i-1 \/ j = i
    BY <1>0
  <2>1. l \in Seq(EntryRecord) /\ EntriesOf(l) = Left(i-1) /\ e \in EntryRecord
    BY <1>3, ElementOfSeq
  <2>2. k[i] = IF Overlaps(e, start, end) THEN l ELSE a
    BY <1>1, <2>0 DEF KeepsOf
  <2>3. Left(i) = IF Overlaps(e, start, end) THEN Left(i-1) ELSE Left(i-1) \cup {e}
    <3>1. \A j \in 1..i-1 : j \in 1..i
      BY <2>0
    <3>2. {ents[j] : j \in 1..i} = {ents[j] : j \in 1..i-1} \cup {e}
      BY <2>0, <3>1
    <3> QED
      BY <3>2
  <2> HIDE DEF l, e, Left
  <2>4. a \in Seq(EntryRecord) /\ EntriesOf(a) = EntriesOf(l) \cup {e}
    <3>1. /\ a \in Seq(EntryRecord) /\ Len(a) = Len(l) + 1 /\ Len(l) \in Nat
          /\ a[Len(l) + 1] = e /\ \A j \in 1..Len(l) : a[j] = l[j]
      BY <2>1, AppendProperties
    <3> HIDE DEF a
    <3>2. \A j \in 1..Len(a) : j \in 1..Len(l) \/ j = Len(l) + 1
      BY <3>1
    <3>3. Len(l) + 1 \in 1..Len(a) /\ \A j \in 1..Len(l) : j \in 1..Len(a)
      BY <3>1
    <3> QED
      BY <3>1, <3>2, <3>3 DEF EntriesOf
  <2> HIDE DEF a
  <2>5. k[i] \in Seq(EntryRecord) /\ EntriesOf(k[i]) = Left(i)
    BY <2>1, <2>2, <2>3, <2>4
  <2> QED
    BY <2>0, <2>5
<1>4. 0..N \subseteq T
  <2> HIDE DEF T
  <2> QED
    BY <1>0, <1>2, <1>3, UpInduction
<1>5. EntriesOf(k[N]) = Left(N)
  <2>1. N \in 0..N
    BY <1>0
  <2> HIDE DEF Left, N
  <2> QED
    BY <1>4, <2>1
<1> QED
  BY <1>1, <1>5 DEF EntriesOf

LEMMA InsertedContents ==
  ASSUME NEW ents \in Seq(EntryRecord), NEW e \in EntryRecord
  PROVE  EntriesOf(Inserted(ents, e)) = EntriesOf(ents) \cup {e}
<1> DEFINE N == Len(ents)
           l == Inserted(ents, e)
<1>0. N \in Nat
  OBVIOUS
<1>1. PICK p \in 0..N : l = At(ents, p, e)
  BY InsertedDef
<1>2. /\ Len(l) = N + 1
      /\ \A i \in 1..N+1 : l[i] = IF i <= p THEN ents[i] ELSE IF i = p + 1 THEN e ELSE ents[i-1]
  <2> DEFINE w == At(ents, p, e)
  <2>1. /\ Len(w) = Len(ents) + 1
        /\ \A i \in 1..Len(ents)+1 :
             w[i] = IF i <= p THEN ents[i] ELSE IF i = p + 1 THEN e ELSE ents[i-1]
    BY InsertionAt
  <2> HIDE DEF w
  <2>2. l = w
    BY <1>1 DEF w
  <2> QED
    BY <2>1, <2>2
<1> HIDE DEF l, N
<1>3. \A i \in 1..N+1 : l[i] = e \/ \E j \in 1..N : l[i] = ents[j]
  <2> TAKE i \in 1..N+1
  <2>1. (i <= p => i \in 1..N) /\ (i > p + 1 => i - 1 \in 1..N)
    BY <1>0
  <2> QED
    BY <1>0, <1>2, <2>1
<1>4. \E i \in 1..N+1 : l[i] = e
  <2>1. p + 1 \in 1..N+1 /\ ~ (p + 1 <= p)
    BY <1>0
  <2> QED
    BY <1>2, <2>1
<1>5. \A j \in 1..N : \E i \in 1..N+1 : l[i] = ents[j]
  <2> TAKE j \in 1..N
  <2>1. CASE j <= p
    BY <1>0, <1>2, <2>1
  <2>2. CASE j > p
    <3>1. j + 1 \in 1..N+1 /\ ~ (j + 1 <= p) /\ j + 1 # p + 1 /\ (j + 1) - 1 = j
      BY <1>0, <2>2
    <3> QED
      BY <1>2, <3>1
  <2> QED
    BY <1>0, <2>1, <2>2
<1>6. \A x : x \in EntriesOf(l) <=> x \in EntriesOf(ents) \/ x = e
  BY <1>2, <1>3, <1>4, <1>5 DEF EntriesOf, N
<1> QED
  BY <1>6 DEF l

-----------------------------------------------------------------------------
(* The pages of the entries.                                               *)

LEMMA TopPage ==
  /\ PAGE_SIZE \in Nat \ {0} /\ FANOUT^LEVELS \in Nat \ {0}
  /\ AddressSpace = FANOUT^LEVELS * PAGE_SIZE /\ AddressSpace \in Nat \ {0}
  /\ VPages = 0 .. FANOUT^LEVELS - 1
<1>1. FANOUT^LEVELS \in Nat \ {0}
  <2>1. LEVELS \in 0..LEVELS
    BY Halves
  <2> QED
    BY <2>1, Powers
<1>2. PAGE_SIZE \in Nat \ {0} /\ AddressSpace \in Nat \ {0}
  BY VmMapAssumption
<1>3. AddressSpace = FANOUT^LEVELS * PAGE_SIZE
  <2> DEFINE f == FANOUT^LEVELS
  <2>1. AddressSpace = PAGE_SIZE * f
    BY DEF AddressSpace
  <2>2. f \in Nat
    BY <1>1
  <2> HIDE DEF f
  <2>3. PAGE_SIZE * f = f * PAGE_SIZE
    BY <1>2, <2>2
  <2> QED
    BY <2>1, <2>3 DEF f
<1> QED
  BY <1>1, <1>2, <1>3 DEF VPages

LEMMA EntryPages ==
  ASSUME NEW e, WholeEntry(e)
  PROVE  /\ PagesIn(e) \subseteq VPages
         /\ \A va \in Nat : Covers(e, va) <=> va \in PagesIn(e)
         /\ \A va \in Nat : e.start <= va * PAGE_SIZE /\ va * PAGE_SIZE < e.end => va \in PagesIn(e)
<1> DEFINE a == Page(e.start)
           b == Page(e.end)
           F == FANOUT^LEVELS
<1>0. PAGE_SIZE \in Nat \ {0} /\ F \in Nat \ {0} /\ AddressSpace = F * PAGE_SIZE /\ VPages = 0 .. F-1
  BY TopPage
<1>1. /\ a \in Nat /\ b \in Nat /\ e.start = a * PAGE_SIZE /\ e.end = b * PAGE_SIZE
      /\ e.end <= AddressSpace - 1 /\ PagesIn(e) = a .. b-1
  BY DEF WholeEntry, Whole, PagesIn
<1> HIDE DEF a, b, F
<1>2. b < F
  <2>1. b * PAGE_SIZE < F * PAGE_SIZE
    <3> DEFINE u == b * PAGE_SIZE
               v == F * PAGE_SIZE
    <3>1. u \in Nat /\ v \in Nat /\ u <= v - 1
      BY <1>0, <1>1
    <3> HIDE DEF u, v
    <3>2. u < v
      BY <3>1
    <3> QED
      BY <3>2 DEF u, v
  <2> QED
    BY <1>0, <1>1, <2>1, PageOrder
<1>3. ASSUME NEW va \in Nat
      PROVE  /\ Covers(e, va) <=> va \in PagesIn(e)
             /\ e.start <= va * PAGE_SIZE /\ va * PAGE_SIZE < e.end => va \in PagesIn(e)
  <2> DEFINE u == a * PAGE_SIZE
             v == b * PAGE_SIZE
             x == va * PAGE_SIZE
             y == (va + 1) * PAGE_SIZE
  <2>1. (u < y <=> a < va + 1) /\ (x < v <=> va < b)
    <3>1. u < y => a < va + 1
      BY <1>0, <1>1, PageOrder
    <3>2. a < va + 1 => u + PAGE_SIZE <= y
      BY <1>0, <1>1, PageAbove
    <3>3. x < v => va < b
      BY <1>0, <1>1, PageOrder
    <3>4. va < b => x + PAGE_SIZE <= v
      BY <1>0, <1>1, PageAbove
    <3>5. u \in Nat /\ v \in Nat /\ x \in Nat /\ y \in Nat
      BY <1>0, <1>1
    <3> HIDE DEF u, v, x, y
    <3> QED
      BY <1>0, <3>1, <3>2, <3>3, <3>4, <3>5
  <2>2. Covers(e, va) <=> u < y /\ x < v
    BY <1>1 DEF Covers
  <2>3. u <= x => u < y
    <3>1. u \in Nat /\ x \in Nat /\ y = x + PAGE_SIZE
      BY <1>0, <1>1
    <3> HIDE DEF u, x, y
    <3> QED
      BY <1>0, <3>1
  <2>4. e.start = u /\ e.end = v
    BY <1>1
  <2> HIDE DEF u, v, x, y
  <2>5. va \in PagesIn(e) <=> a < va + 1 /\ va < b
    BY <1>1
  <2> QED
    BY <2>1, <2>2, <2>3, <2>4, <2>5 DEF x
<1> QED
  BY <1>0, <1>1, <1>2, <1>3

LEMMA PagesApart ==
  ASSUME NEW e, NEW f, WholeEntry(e), WholeEntry(f), e.end <= f.start
  PROVE  PagesIn(e) \cap PagesIn(f) = {}
<1> DEFINE b == Page(e.end)
           c == Page(f.start)
<1>1. b \in Nat /\ c \in Nat /\ e.end = b * PAGE_SIZE /\ f.start = c * PAGE_SIZE /\ PAGE_SIZE \in Nat \ {0}
  BY VmMapAssumption DEF WholeEntry, Whole
<1>2. PagesIn(e) \subseteq {va \in Int : va < b} /\ PagesIn(f) \subseteq {va \in Int : c <= va}
  <2>1. Page(e.start) \in Nat /\ Page(f.end) \in Nat
    BY DEF WholeEntry, Whole
  <2> QED
    BY <1>1, <2>1 DEF PagesIn
<1> HIDE DEF b, c
<1>3. b <= c
  <2> SUFFICES ASSUME c < b PROVE FALSE
    BY <1>1
  <2> DEFINE u == b * PAGE_SIZE
             v == c * PAGE_SIZE
  <2>1. v + PAGE_SIZE <= u
    BY <1>1, PageAbove
  <2>2. u \in Nat /\ v \in Nat /\ u <= v
    BY <1>1
  <2> HIDE DEF u, v
  <2> QED
    BY <1>1, <2>1, <2>2
<1> QED
  BY <1>1, <1>2, <1>3

\* Entries of whole pages, apart from each other and from the kernel image.
EntrySet(E) ==
  /\ \A e \in E : WholeEntry(e) /\ KernelPage \notin PagesIn(e)
  /\ \A e, f \in E : e # f => PagesIn(e) \cap PagesIn(f) = {}

LEMMA ListEntrySet ==
  ASSUME NEW m, NEW ents, ListOK(m, ents),
         \A e \in EntriesOf(ents) : WholeEntry(e) /\ KernelPage \notin PagesIn(e)
  PROVE  EntrySet(EntriesOf(ents))
<1>1. ASSUME NEW i \in 1..Len(ents), NEW j \in 1..Len(ents), ents[i] # ents[j]
      PROVE  PagesIn(ents[i]) \cap PagesIn(ents[j]) = {}
  <2>0. Len(ents) \in Nat
    BY DEF ListOK
  <2>1. i < j \/ j < i
    BY <1>1, <2>0
  <2>2. ents[i].end <= ents[j].start \/ ents[j].end <= ents[i].start
    BY <2>1 DEF ListOK, Ordered
  <2>3. WholeEntry(ents[i]) /\ WholeEntry(ents[j])
    BY DEF EntriesOf
  <2> QED
    BY <2>2, <2>3, PagesApart
<1> QED
  BY <1>1 DEF EntrySet, EntriesOf

-----------------------------------------------------------------------------
(* The page tables follow the entries E of the kernel's map.               *)

MappedIn(M, k, E) ==
  \A va \in VPages \ {KernelPage} :
    pmap_query(M, k, va) # Absent =>
      \E e \in E : va \in PagesIn(e) /\ pmap_query(M, k, va).flags = prot_to_pte(e.prot)

WiredIn(M, k, E) ==
  \A e \in E : e.wired => \A va \in PagesIn(e) : pmap_query(M, k, va) # Absent

Follows(s, k, E) == Treed(s, k, {}, {}) /\ MappedIn(s.mem, k, E) /\ WiredIn(s.mem, k, E)

\* A page outside P is seen as before.
LEMMA SeenOutside ==
  ASSUME NEW M, NEW N, NEW k, NEW r, NEW P, ChangedIn(M, N, {} \cup {k}, r, P),
         NEW va \in VPages, va \notin P
  PROVE  pmap_query(N, k, va) = pmap_query(M, k, va)
BY DEF ChangedIn

\* The entries O are dropped and their pages unmapped.
LEMMA FollowsRemove ==
  ASSUME NEW s, NEW x, NEW k, NEW E, EntrySet(E), Follows(s, k, E), NEW O \in SUBSET E,
         NEW P, P = {va \in VPages : \E e \in O : va \in PagesIn(e)},
         PagesUnmapped(s, x, k, {}, {}, k, P)
  PROVE  Follows(x, k, E \ O)
<1>1. /\ Treed(x, k, {}, {}) /\ ChangedIn(s.mem, x.mem, {} \cup {k}, k, P)
      /\ \A va \in P : pmap_query(x.mem, k, va) = Absent
  BY DEF PagesUnmapped
<1>2. MappedIn(x.mem, k, E \ O)
  <2> SUFFICES ASSUME NEW va \in VPages \ {KernelPage}, pmap_query(x.mem, k, va) # Absent
               PROVE  \E e \in E \ O : va \in PagesIn(e) /\ pmap_query(x.mem, k, va).flags = prot_to_pte(e.prot)
    BY DEF MappedIn
  <2>1. va \notin P
    BY <1>1
  <2>2. pmap_query(x.mem, k, va) = pmap_query(s.mem, k, va)
    BY <1>1, <2>1, SeenOutside
  <2>3. PICK e \in E : va \in PagesIn(e) /\ pmap_query(s.mem, k, va).flags = prot_to_pte(e.prot)
    BY <2>2 DEF Follows, MappedIn
  <2>4. e \notin O
    BY <2>1, <2>3
  <2> QED
    BY <2>2, <2>3, <2>4
<1>3. WiredIn(x.mem, k, E \ O)
  <2> SUFFICES ASSUME NEW e \in E \ O, e.wired, NEW va \in PagesIn(e)
               PROVE  pmap_query(x.mem, k, va) # Absent
    BY DEF WiredIn
  <2>1. va \in VPages /\ va \notin P
    BY EntryPages DEF EntrySet
  <2>2. pmap_query(x.mem, k, va) = pmap_query(s.mem, k, va)
    BY <1>1, <2>1, SeenOutside
  <2> QED
    BY <2>2 DEF Follows, WiredIn
<1> QED
  BY <1>1, <1>2, <1>3 DEF Follows

\* An entry that is not wired is added.
LEMMA FollowsLazy ==
  ASSUME NEW s, NEW k, NEW E, Follows(s, k, E), NEW n, n.wired = FALSE
  PROVE  Follows(s, k, E \cup {n})
<1>1. MappedIn(s.mem, k, E \cup {n})
  BY DEF Follows, MappedIn
<1>2. WiredIn(s.mem, k, E \cup {n})
  BY DEF Follows, WiredIn
<1> QED
  BY <1>1, <1>2 DEF Follows

\* The pages of an entry that is to be added are not mapped.
LEMMA NewPagesAbsent ==
  ASSUME NEW s, NEW k, NEW E, NEW n, EntrySet(E \cup {n}), n \notin E, Follows(s, k, E)
  PROVE  \A va \in PagesIn(n) : pmap_query(s.mem, k, va) = Absent
<1> SUFFICES ASSUME NEW va \in PagesIn(n), pmap_query(s.mem, k, va) # Absent PROVE FALSE
  OBVIOUS
<1>1. va \in VPages \ {KernelPage}
  BY EntryPages DEF EntrySet
<1>2. PICK e \in E : va \in PagesIn(e)
  BY <1>1 DEF Follows, MappedIn
<1>3. PagesIn(e) \cap PagesIn(n) = {}
  BY DEF EntrySet
<1> QED
  BY <1>2, <1>3

LEMMA PageCount ==
  ASSUME NEW n, WholeEntry(n), NEW a, a = Page(n.start), NEW b, b = Page(n.end)
  PROVE  /\ a \in Nat /\ b \in Nat /\ b - a \in Nat /\ PagesIn(n) = a .. b-1 /\ a + (b - a) - 1 = b - 1
         /\ \A d \in 0 .. b-a : a .. a + d - 1 \subseteq PagesIn(n)
<1>1. a \in Nat /\ b \in Nat /\ a <= b /\ PagesIn(n) = a .. b-1
  BY DEF WholeEntry, Whole, PagesIn
<1> QED
  BY <1>1

\* A wired entry is added, and all its pages could be mapped.
LEMMA FollowsWired ==
  ASSUME NEW s, NEW x, NEW k, NEW E, NEW n, EntrySet(E \cup {n}), Follows(s, k, E),
         NEW a, a = Page(n.start), NEW b, b = Page(n.end),
         PagesMapped(s, x, k, {}, {}, k, a, b - a, prot_to_pte(n.prot)), x.done = b - a
  PROVE  Follows(x.s, k, E \cup {n})
<1> DEFINE M == x.s.mem
           f == prot_to_pte(n.prot)
<1>0. WholeEntry(n)
  BY DEF EntrySet
<1>1. PagesIn(n) = a .. a + x.done - 1
  BY <1>0, PageCount
<1>2. /\ Treed(x.s, k, {}, {}) /\ ChangedIn(s.mem, M, {} \cup {k}, k, PagesIn(n))
      /\ \A va \in PagesIn(n) : pmap_query(M, k, va) # Absent /\ pmap_query(M, k, va).flags = f
  BY <1>1 DEF PagesMapped
<1> HIDE DEF M, f
<1>3. MappedIn(M, k, E \cup {n})
  <2> SUFFICES ASSUME NEW va \in VPages \ {KernelPage}, pmap_query(M, k, va) # Absent
               PROVE  \E e \in E \cup {n} : va \in PagesIn(e) /\ pmap_query(M, k, va).flags = prot_to_pte(e.prot)
    BY DEF MappedIn
  <2>1. CASE va \in PagesIn(n)
    BY <1>2, <2>1 DEF f
  <2>2. CASE va \notin PagesIn(n)
    <3>1. pmap_query(M, k, va) = pmap_query(s.mem, k, va)
      BY <1>2, <2>2, SeenOutside
    <3> QED
      BY <3>1 DEF Follows, MappedIn
  <2> QED
    BY <2>1, <2>2
<1>4. WiredIn(M, k, E \cup {n})
  <2> SUFFICES ASSUME NEW e \in E \cup {n}, e.wired, NEW va \in PagesIn(e)
               PROVE  pmap_query(M, k, va) # Absent
    BY DEF WiredIn
  <2>1. CASE va \in PagesIn(n)
    BY <1>2, <2>1
  <2>2. CASE va \notin PagesIn(n)
    <3>1. e \in E /\ va \in VPages
      BY <2>2, EntryPages DEF EntrySet
    <3>2. pmap_query(M, k, va) = pmap_query(s.mem, k, va)
      BY <1>2, <2>2, <3>1, SeenOutside
    <3> QED
      BY <3>1, <3>2 DEF Follows, WiredIn
  <2> QED
    BY <2>1, <2>2
<1> QED
  BY <1>2, <1>3, <1>4 DEF Follows, M

\* The same pages are mapped, and as they were.
LEMMA FollowsAlike ==
  ASSUME NEW s, NEW x, NEW k, NEW E, EntrySet(E), Follows(s, k, E), Treed(x, k, {}, {}),
         \A va \in VPages : pmap_query(x.mem, k, va) = pmap_query(s.mem, k, va)
  PROVE  Follows(x, k, E)
<1>1. MappedIn(x.mem, k, E)
  BY DEF Follows, MappedIn
<1>2. WiredIn(x.mem, k, E)
  <2>1. \A e \in E : PagesIn(e) \subseteq VPages
    BY EntryPages DEF EntrySet
  <2> QED
    BY <2>1 DEF Follows, WiredIn
<1> QED
  BY <1>1, <1>2 DEF Follows

\* A wired entry is taken out again when memory runs out.
LEMMA FollowsUndo ==
  ASSUME NEW s, NEW x, NEW y, NEW k, NEW E, NEW n, EntrySet(E \cup {n}), n \notin E, Follows(s, k, E),
         NEW a, a = Page(n.start), NEW b, b = Page(n.end), NEW flags,
         PagesMapped(s, x, k, {}, {}, k, a, b - a, flags),
         PagesUnmapped(x.s, y, k, {}, {}, k, PagesIn(n))
  PROVE  Follows(y, k, E)
<1>1. WholeEntry(n) /\ EntrySet(E)
  BY DEF EntrySet
<1>2. /\ Treed(y, k, {}, {}) /\ ChangedIn(x.s.mem, y.mem, {} \cup {k}, k, PagesIn(n))
      /\ \A va \in PagesIn(n) : pmap_query(y.mem, k, va) = Absent
  BY DEF PagesUnmapped
<1>3. ChangedIn(s.mem, x.s.mem, {} \cup {k}, k, PagesIn(n))
  <2>1. ChangedIn(s.mem, x.s.mem, {} \cup {k}, k, a .. a + x.done - 1) /\ x.done \in 0 .. b-a
    BY DEF PagesMapped
  <2>2. a .. a + x.done - 1 \subseteq PagesIn(n)
    BY <1>1, <2>1, PageCount
  <2> QED
    BY <2>1, <2>2 DEF ChangedIn
<1>4. ASSUME NEW va \in VPages PROVE pmap_query(y.mem, k, va) = pmap_query(s.mem, k, va)
  <2>1. CASE va \in PagesIn(n)
    BY <1>2, <2>1, NewPagesAbsent
  <2>2. CASE va \notin PagesIn(n)
    <3>1. pmap_query(y.mem, k, va) = pmap_query(x.s.mem, k, va)
      BY <1>2, <2>2, SeenOutside
    <3>2. pmap_query(x.s.mem, k, va) = pmap_query(s.mem, k, va)
      BY <1>3, <2>2, SeenOutside
    <3> QED
      BY <3>1, <3>2
  <2> QED
    BY <2>1, <2>2
<1> QED
  BY <1>1, <1>2, <1>4, FollowsAlike

\* vm_fault() maps one page of entry n.
LEMMA FollowsFault ==
  ASSUME NEW s, NEW x, NEW k, NEW E, EntrySet(E), Follows(s, k, E), NEW n \in E, NEW va \in PagesIn(n),
         ZeroPaged(s, x, k, {}, {}, k, va, prot_to_pte(n.prot)), x.got # 0
  PROVE  Follows(x, k, E)
<1>1. /\ Treed(x, k, {}, {}) /\ ChangedIn(s.mem, x.mem, {} \cup {k}, k, {va})
      /\ pmap_query(x.mem, k, va) # Absent /\ pmap_query(x.mem, k, va).flags = prot_to_pte(n.prot)
  BY DEF ZeroPaged
<1>2. \A vb \in VPages : vb # va => pmap_query(x.mem, k, vb) = pmap_query(s.mem, k, vb)
  BY <1>1 DEF ChangedIn
<1>3. MappedIn(x.mem, k, E)
  <2> SUFFICES ASSUME NEW vb \in VPages \ {KernelPage}, pmap_query(x.mem, k, vb) # Absent
               PROVE  \E e \in E : vb \in PagesIn(e) /\ pmap_query(x.mem, k, vb).flags = prot_to_pte(e.prot)
    BY DEF MappedIn
  <2>1. CASE vb = va
    BY <1>1, <2>1
  <2>2. CASE vb # va
    BY <1>2, <2>2 DEF Follows, MappedIn
  <2> QED
    BY <2>1, <2>2
<1>4. WiredIn(x.mem, k, E)
  <2>1. \A e \in E : PagesIn(e) \subseteq VPages
    BY EntryPages DEF EntrySet
  <2> QED
    BY <1>1, <1>2, <2>1 DEF Follows, WiredIn
<1> QED
  BY <1>1, <1>3, <1>4 DEF Follows

-----------------------------------------------------------------------------
(* At boot nothing but the kernel image is mapped.                         *)

LEMMA BootLink ==
  ASSUME PmapInit, NEW f \in Frames, NEW i \in Indices, mem[f][i].frame # 0
  PROVE  f <= LEVELS /\ i = Idx(LEVELS - f + 1, KernelPage) /\ mem[f][i].frame = f + 1
<1> DEFINE x == Idx(LEVELS - f + 1, KernelPage)
           e == [frame |-> f + 1, flags |-> TableFlags]
<1>0. LEVELS \in Nat /\ KernelPage \in Nat
  BY Halves, PageNumbers
<1>1. mem[f] = IF f <= LEVELS THEN [Zeroed EXCEPT ![x] = e] ELSE Zeroed
  BY DEF PmapInit
<1>2. f <= LEVELS
  BY <1>1, ZeroedFacts
<1>3. x \in Indices
  <2>1. LEVELS - f + 1 \in 1..LEVELS
    BY <1>0, <1>2 DEF Frames
  <2> QED
    BY <1>0, <2>1, IdxType
<1>4. e.frame = f + 1
  OBVIOUS
<1> HIDE DEF x, e
<1>5. mem[f][x] = e /\ \A j \in Indices : j # x => mem[f][j] = Absent
  BY <1>1, <1>2, <1>3, ZeroedFacts
<1>6. i = x
  BY <1>5, ZeroedFacts
<1> QED
  BY <1>2, <1>4, <1>5, <1>6 DEF x

LEMMA BootPages ==
  ASSUME PmapInit, NEW va \in VPages, va # KernelPage
  PROVE  pmap_query(mem, 1, va) = Absent
<1> SUFFICES ASSUME pmap_query(mem, 1, va) # Absent PROVE va = KernelPage
  OBVIOUS
<1>0. /\ mem \in Memory /\ 1 \in Frames /\ LEVELS \in Nat /\ LEVELS >= 2 /\ va \in Nat
      /\ KernelPage \in VPages
  <2>1. mem \in Memory
    BY PmapBegins, PmapFacts
  <2> QED
    BY <2>1, PmapAssumption, PageNumbers DEF Frames
<1>1. PICK w : WalkRun(mem, 1, va, w) /\ pmap_walk(mem, 1, va) = w[1]
  BY <1>0, WalkDef
<1> DEFINE T == {l \in 1..LEVELS : w[l] # 0 =>
                   /\ w[l] = LEVELS - l + 1
                   /\ \A j \in l+1..LEVELS : Idx(j, va) = Idx(j, KernelPage)}
<1>2. LEVELS \in T
  BY <1>0, <1>1 DEF WalkRun
<1>3. ASSUME NEW l \in 1..LEVELS-1, l + 1 \in T PROVE l \in T
  <2>0. l \in 1..LEVELS /\ l + 1 \in 1..LEVELS
    BY <1>0
  <2> SUFFICES ASSUME w[l] # 0
               PROVE  /\ w[l] = LEVELS - l + 1
                      /\ \A j \in l+1..LEVELS : Idx(j, va) = Idx(j, KernelPage)
    BY <2>0
  <2>1. w[l] = IF w[l+1] = 0 THEN 0 ELSE mem[w[l+1]][Idx(l+1, va)].frame
    BY <1>1 DEF WalkRun
  <2> DEFINE f == w[l+1]
             i == Idx(l+1, va)
  <2>2. f \in Frames \cup {0} /\ f # 0 /\ i \in Indices /\ mem[f][i].frame # 0 /\ w[l] = mem[f][i].frame
    BY <1>0, <1>1, <2>0, <2>1, IdxType DEF WalkRun
  <2>3. f = LEVELS - (l + 1) + 1 /\ \A j \in (l+1)+1..LEVELS : Idx(j, va) = Idx(j, KernelPage)
    BY <1>3, <2>2
  <2>4. i = Idx(LEVELS - f + 1, KernelPage) /\ mem[f][i].frame = f + 1
    BY <2>2, BootLink
  <2>5. LEVELS - f + 1 = l + 1 /\ f + 1 = LEVELS - l + 1
    BY <1>0, <2>3
  <2>6. Idx(l+1, va) = Idx(l+1, KernelPage)
    BY <2>4, <2>5
  <2>7. \A j \in l+1..LEVELS : j = l + 1 \/ j \in (l+1)+1..LEVELS
    BY <1>0
  <2> QED
    BY <2>2, <2>3, <2>4, <2>5, <2>6, <2>7
<1>4. 1 \in T
  <2>1. 1..LEVELS \subseteq T
    <3> HIDE DEF T
    <3> QED
      BY <1>2, <1>3, DownInduction
  <2> QED
    BY <1>0, <2>1
<1> DEFINE p == w[1]
           i == Idx(1, va)
<1>5. p # 0 /\ p \in Frames /\ i \in Indices /\ pmap_query(mem, 1, va) = mem[p][i]
  <2>1. 1 \in 1..LEVELS
    BY <1>0
  <2> QED
    BY <1>0, <1>1, <2>1, IdxType DEF WalkRun, pmap_query
<1>6. mem[p][i].frame # 0
  BY <1>0, <1>5, EntryFacts
<1>7. i = Idx(LEVELS - p + 1, KernelPage)
  BY <1>5, <1>6, BootLink
<1>8. p = LEVELS - 1 + 1 /\ \A j \in 1+1..LEVELS : Idx(j, va) = Idx(j, KernelPage)
  BY <1>4, <1>5
<1>9. LEVELS - p + 1 = 1 /\ \A j \in 1..LEVELS : j = 1 \/ j \in 1+1..LEVELS
  BY <1>0, <1>8
<1>10. \A j \in 1..LEVELS : Idx(j, va) = Idx(j, KernelPage)
  BY <1>7, <1>8, <1>9
<1> QED
  BY <1>0, <1>10, SameIndices

-----------------------------------------------------------------------------
(* Callers that pass whole pages.                                          *)

WholePages == \A x \in Starts \cup Sizes : x % PAGE_SIZE = 0

LEMMA WholeAddress ==
  ASSUME WholePages, NEW x \in Starts \cup Sizes
  PROVE  x \in Nat /\ x <= AddressSpace - 1 /\ Page(x) \in Nat /\ x = Page(x) * PAGE_SIZE
<1>1. x \in 0 .. AddressSpace - 1 /\ PAGE_SIZE \in Nat \ {0} /\ AddressSpace \in Nat \ {0}
  BY VmMapAssumption
<1>2. x \in Nat /\ x <= AddressSpace - 1
  BY <1>1
<1>3. x % PAGE_SIZE = 0
  BY DEF WholePages
<1> DEFINE q == x \div PAGE_SIZE
<1>4. q \in Nat /\ x = q * PAGE_SIZE + (x % PAGE_SIZE)
  BY <1>1, <1>2, DivMod
<1> HIDE DEF q
<1>5. q \in Nat /\ x = q * PAGE_SIZE
  BY <1>1, <1>3, <1>4
<1> QED
  BY <1>2, <1>5 DEF Page, q

LEMMA WholeEnd ==
  ASSUME WholePages, NEW start \in Starts, NEW size \in Sizes,
         NEW end, end = (start + size) % AddressSpace
  PROVE  end \in Nat /\ end <= AddressSpace - 1 /\ Page(end) \in Nat /\ end = Page(end) * PAGE_SIZE
<1> DEFINE F == FANOUT^LEVELS
           p == Page(start)
           q == Page(size)
           t == (start + size) \div AddressSpace
           z == p + q - t * F
<1>0. /\ PAGE_SIZE \in Nat \ {0} /\ F \in Nat \ {0} /\ AddressSpace = F * PAGE_SIZE
      /\ AddressSpace \in Nat \ {0}
  BY TopPage
<1>1. /\ start \in Nat /\ p \in Nat /\ start = p * PAGE_SIZE
      /\ size \in Nat /\ q \in Nat /\ size = q * PAGE_SIZE
  BY WholeAddress
<1>2. t \in Nat /\ end \in 0 .. AddressSpace - 1 /\ start + size = t * AddressSpace + end
  <2>1. start + size \in Nat
    BY <1>1
  <2> QED
    BY <1>0, <2>1, DivMod
<1> HIDE DEF F, p, q, t
<1>3. z \in Int /\ end = z * PAGE_SIZE
  <2> DEFINE A == AddressSpace
             u == t * A
  <2>1. u \in Nat /\ end \in Int
    BY <1>0, <1>2
  <2>2. end = start + size - u
    <3>1. start + size = u + end
      BY <1>2
    <3> HIDE DEF u
    <3> QED
      BY <1>1, <2>1, <3>1
  <2>3. u = (t * F) * PAGE_SIZE
    BY <1>0, <1>2
  <2> DEFINE v == t * F
  <2>4. v \in Nat /\ u = v * PAGE_SIZE
    BY <1>0, <1>2, <2>3
  <2> HIDE DEF u, v
  <2>5. p + q - v \in Int /\ (p + q - v) * PAGE_SIZE = p * PAGE_SIZE + q * PAGE_SIZE - v * PAGE_SIZE
    BY <1>0, <1>1, <2>4
  <2>6. end = (p + q - v) * PAGE_SIZE
    BY <1>1, <2>2, <2>4, <2>5
  <2> QED
    BY <2>5, <2>6 DEF v
<1> HIDE DEF z
<1>4. z \in Nat
  <2> SUFFICES ASSUME z < 0 PROVE FALSE
    BY <1>3
  <2>1. z * PAGE_SIZE < 0
    BY <1>0, <1>3
  <2> QED
    BY <1>0, <1>2, <1>3, <2>1
<1>5. Page(end) = z
  <2>1. end = z * PAGE_SIZE + 0 /\ 0 \in 0 .. PAGE_SIZE-1
    BY <1>0, <1>3, <1>4
  <2> QED
    BY <1>0, <1>4, <2>1, DivIs DEF Page
<1> QED
  BY <1>0, <1>2, <1>3, <1>4, <1>5

\* The entry that vm_map_enter() makes is one of whole pages.
LEMMA NewEntry ==
  ASSUME WholePages, NEW m, NEW start \in Starts, NEW size \in Sizes, ValidRange(m, start, size),
         NEW prot \in Prots, NEW wired \in BOOLEAN,
         NEW end, end = (start + size) % AddressSpace, KernelPage \notin PagesOf(start, end),
         NEW e, e = [start |-> start, end |-> end, prot |-> prot, wired |-> wired]
  PROVE  /\ WholeEntry(e) /\ KernelPage \notin PagesIn(e) /\ e \in EntryRecord /\ InLimits(m, e)
         /\ Steps(start, end) = Page(end) - Page(start) /\ ~ LoopWraps(start, end)
         /\ e.start = start /\ e.end = end /\ e.prot = prot /\ e.wired = wired /\ start < end
<1> DEFINE a == Page(start)
           b == Page(end)
<1>0. PAGE_SIZE \in Nat \ {0} /\ KernelPage \in Nat
  BY TopPage, PageNumbers
<1>1. start \in Nat /\ a \in Nat /\ start = a * PAGE_SIZE
  BY WholeAddress
<1>2. end \in Nat /\ end <= AddressSpace - 1 /\ b \in Nat /\ end = b * PAGE_SIZE
  BY WholeEnd
<1>3. e.start = start /\ e.end = end /\ e.prot = prot /\ e.wired = wired
  OBVIOUS
<1>4. e \in EntryRecord /\ InLimits(m, e)
  BY ValidRangeLimits
<1>5. start < end
  BY <1>3, <1>4 DEF InLimits
<1>6. PagesIn(e) = a .. b-1
  BY <1>3 DEF PagesIn
<1> HIDE DEF a, b
<1>7. a < b
  BY <1>0, <1>1, <1>2, <1>5, PageOrder
<1>8. Whole(start, end, a, b)
  BY <1>1, <1>2, <1>7 DEF Whole
<1>9. WholeEntry(e)
  BY <1>1, <1>2, <1>3, <1>8 DEF WholeEntry, a, b
<1>10. Steps(start, end) = b - a /\ \A i \in Nat : Page(start + i * PAGE_SIZE) = a + i
  BY <1>8, WholeRange
<1>11. KernelPage \notin PagesIn(e)
  <2> SUFFICES ASSUME KernelPage \in a .. b-1 PROVE FALSE
    BY <1>6
  <2>1. KernelPage - a \in 0 .. b - a - 1 /\ KernelPage - a \in Nat /\ a + (KernelPage - a) = KernelPage
    BY <1>0, <1>1, <1>2
  <2>2. Page(start + (KernelPage - a) * PAGE_SIZE) = KernelPage
    BY <1>10, <2>1
  <2> QED
    BY <1>10, <2>1, <2>2 DEF PagesOf
<1>12. ~ LoopWraps(start, end)
  BY <1>2, <1>8, NoLoopWraps
<1> QED
  BY <1>3, <1>4, <1>5, <1>9, <1>10, <1>11, <1>12 DEF a, b

-----------------------------------------------------------------------------
(* The invariant of VmSpec when callers pass whole pages and whole entries. *)

KernelEntries == EntriesOf(maps[KernelPmap].entries)

VmInv ==
  /\ MapsInv /\ PmapInv /\ hung = FALSE
  /\ Live = {KernelPmap}
  /\ EntrySet(KernelEntries)
  /\ Follows(Machine, Root(KernelPmap), KernelEntries)

LEMMA VmFacts ==
  ASSUME VmInv
  PROVE  /\ KernelPmap \in AllPmaps /\ Roots = {} /\ Owned = {}
         /\ ListOK(KernelPmap, maps[KernelPmap].entries)
         /\ maps[KernelPmap].entries \in Seq(EntryRecord) /\ Len(maps[KernelPmap].entries) \in Nat
         /\ Machine.mem = mem /\ Machine.free = free
         /\ \A va \in VPages : OwnPage(Root(KernelPmap), {}, Root(KernelPmap), va)
         /\ \A e \in KernelEntries : \A va \in PagesIn(e) :
              va \in VPages /\ OwnPage(Root(KernelPmap), {}, Root(KernelPmap), va)
<1>1. KernelPmap \in AllPmaps
  BY DEF AllPmaps
<1>2. Roots = {} /\ Owned = {}
  BY DEF VmInv, Roots, Owned, Spaces
<1>3. ListOK(KernelPmap, maps[KernelPmap].entries) /\ Len(maps[KernelPmap].entries) \in Nat
  BY <1>1, MapsInvOf DEF VmInv
<1>4. maps[KernelPmap].entries \in Seq(EntryRecord)
  BY <1>3 DEF ListOK
<1>5. Machine.mem = mem /\ Machine.free = free
  BY DEF Machine
<1>6. \A va \in VPages : OwnPage(Root(KernelPmap), {}, Root(KernelPmap), va)
  BY DEF OwnPage, Copied
<1>7. \A e \in KernelEntries : \A va \in PagesIn(e) : va \in VPages
  BY EntryPages DEF VmInv, EntrySet
<1> QED
  BY <1>1, <1>2, <1>3, <1>4, <1>5, <1>6, <1>7

\* A step that keeps the page tables with the entries.
LEMMA VmKept ==
  ASSUME VmInv, MapsInv', UNCHANGED pmaps, hung' = FALSE,
         NEW s, mem' = s.mem, free' = s.free,
         EntrySet(KernelEntries'), Follows(s, Root(KernelPmap), KernelEntries')
  PROVE  VmInv'
<1> DEFINE k == pmaps[KernelPmap].root
<1>0. Roots = {} /\ Owned = {} /\ Root(KernelPmap) = k
  BY VmFacts DEF Root
<1>1. s \in Machines /\ \E lev : Tree(s.mem, s.free, lev, k, {}, {})
  BY <1>0 DEF Follows, Treed
<1>2. PmapInv'
  BY <1>0, <1>1, PmapsKept DEF VmInv
<1>3. Machine' \in Machines /\ Machine'.mem = s.mem /\ Machine'.free = s.free
  BY <1>1 DEF Machine, Machines
<1>4. Treed(Machine', k, {}, {})
  BY <1>1, <1>3 DEF Treed
<1>5. Live' = {KernelPmap} /\ Root(KernelPmap)' = k
  BY DEF VmInv, Live, Root
<1>6. Follows(Machine', k, KernelEntries')
  BY <1>0, <1>3, <1>4 DEF Follows
<1>7. Follows(Machine, Root(KernelPmap), KernelEntries)'
  BY <1>5, <1>6 DEF Follows, Treed, MappedIn, WiredIn
<1> QED
  BY <1>2, <1>5, <1>7 DEF VmInv, EntrySet

LEMMA SetKernelMap ==
  ASSUME VmInv, NEW l, NEW n, SetMap(KernelPmap, l, n)
  PROVE  KernelEntries' = EntriesOf(l)
<1>1. maps \in [AllPmaps -> [entries : Seq(EntryRecord), nentries : Int]] /\ KernelPmap \in AllPmaps
  BY VmFacts DEF VmInv, MapsInv
<1> DEFINE r == [entries |-> l, nentries |-> n]
<1>2. maps' = [maps EXCEPT ![KernelPmap] = r] /\ r.entries = l
  BY DEF SetMap
<1> HIDE DEF r
<1>3. maps'[KernelPmap].entries = l
  BY <1>1, <1>2
<1> QED
  BY <1>3 DEF KernelEntries, EntriesOf

LEMMA VmRemoveStep ==
  ASSUME VmInv, MapsInv', WholePages, WholeEntries, NEW m, NEW start \in Starts, NEW size \in Sizes,
         vm_map_remove(m, start, size)
  PROVE  VmInv'
<1> DEFINE end == (start + size) % AddressSpace
           ents == maps[KernelPmap].entries
           E == KernelEntries
           k == Root(KernelPmap)
           r == RemoveFrom(Machine, k, ents, start, end)
           O == {e \in E : Overlaps(e, start, end)}
           P == GonePages(ents, start, end, Len(ents))
<1>0. m = KernelPmap
  BY DEF vm_map_remove, VmInv
<1>1. /\ NoneCut(ents, start, end) /\ UNCHANGED pmaps /\ hung' = r.wraps
      /\ ~ r.wraps => /\ mem' = r.s.mem /\ free' = r.s.free
                      /\ SetMap(KernelPmap, r.entries, maps[m].nentries - (Len(ents) - Len(r.entries)))
  <2> HIDE DEF r
  <2> QED
    BY <1>0 DEF vm_map_remove, NoneCut, UsesMachine, r
<1>2. start \in Int /\ end \in Int
  BY WholeAddress, WholeEnd
<1>3. /\ Len(ents) \in Nat /\ ents \in Seq(EntryRecord) /\ E = EntriesOf(ents)
      /\ \A i \in 1..Len(ents) : ents[i] \in E
  BY VmFacts DEF KernelEntries, EntriesOf
<1>4. \A i \in 1..Len(ents) : /\ WholeEntry(ents[i])
                              /\ \A va \in PagesIn(ents[i]) : OwnPage(k, {}, k, va)
  BY <1>3, VmFacts DEF VmInv, EntrySet
<1>5. ~ r.wraps
  BY <1>1, <1>2, <1>4, RemoveEnds
<1>6. r.entries = Kept(ents, start, end)
  BY RemoveEntries
<1>7. Follows(Machine, k, E) /\ EntrySet(E) /\ Treed(Machine, k, {}, {})
  BY DEF VmInv, Follows
<1>8. PagesUnmapped(Machine, r.s, k, {}, {}, k, P)
  <2>1. k \in {} \cup {k}
    OBVIOUS
  <2> HIDE DEF ents, k, end
  <2> QED
    BY <1>1, <1>2, <1>3, <1>4, <1>7, <2>1, RemovedPages
<1>9. P = {va \in VPages : \E e \in O : va \in PagesIn(e)}
  <2> HIDE DEF ents, E, end
  <2> QED
    BY <1>3 DEF GonePages, EntriesOf
<1>10. EntriesOf(r.entries) = E \ O
  <2>1. EntriesOf(r.entries) = {e \in E : ~ Overlaps(e, start, end)}
    BY <1>3, <1>6, KeptContents
  <2> HIDE DEF r, E
  <2> QED
    BY <2>1
<1> HIDE DEF r, P, ents, E, k, end
<1>11. Follows(r.s, k, E \ O)
  <2>1. O \in SUBSET E
    OBVIOUS
  <2> HIDE DEF O
  <2> QED
    BY <1>7, <1>8, <1>9, <2>1, FollowsRemove
<1>12. KernelEntries' = E \ O
  BY <1>1, <1>5, <1>10, SetKernelMap
<1>13. EntrySet(E \ O)
  BY <1>7 DEF EntrySet
<1> HIDE DEF O
<1>14. hung' = FALSE /\ mem' = r.s.mem /\ free' = r.s.free /\ UNCHANGED pmaps
  <2>1. r.wraps \in BOOLEAN
    BY DEF r, RemoveFrom
  <2> QED
    BY <1>1, <1>5, <2>1
<1> QED
  BY <1>11, <1>12, <1>13, <1>14, VmKept DEF k

LEMMA VmEnterStep ==
  ASSUME VmInv, MapsInv', WholePages, NEW m, NEW start \in Starts, NEW size \in Sizes,
         NEW prot \in Prots, NEW wired \in BOOLEAN, vm_map_enter(m, start, size, prot, wired)
  PROVE  VmInv'
<1> DEFINE end == (start + size) % AddressSpace
           ents == maps[KernelPmap].entries
           E == KernelEntries
           k == Root(KernelPmap)
           e == [start |-> start, end |-> end, prot |-> prot, wired |-> wired]
           list == Inserted(ents, e)
           flags == prot_to_pte(prot)
           run == MapPages(Machine, k, start, end, flags)
           undo == RemoveFrom(run.s, k, list, start, end)
           n == maps[KernelPmap].nentries + 1
           a == Page(start)
           b == Page(end)
<1>0. m = KernelPmap
  BY DEF vm_map_enter, VmInv
<1>1. /\ ValidRange(KernelPmap, start, size)
      /\ \A i \in 1..Len(ents) : ~ (start < ents[i].end /\ end > ents[i].start)
      /\ KernelPage \notin PagesOf(start, end) /\ UNCHANGED pmaps
      /\ hung' = (wired /\ LoopWraps(start, end))
      /\ IF ~ wired \/ hung'
           THEN SetMap(KernelPmap, list, n) /\ UNCHANGED <<mem, free>>
           ELSE IF run.done = Steps(start, end)
                  THEN SetMap(KernelPmap, list, n) /\ UsesMachine(run.s)
                  ELSE /\ SetMap(KernelPmap, undo.entries, n - (Len(list) - Len(undo.entries)))
                       /\ UsesMachine(undo.s)
  <2> HIDE DEF run, undo, list
  <2> QED
    BY <1>0 DEF vm_map_enter, run, undo, list
<1>2. /\ WholeEntry(e) /\ KernelPage \notin PagesIn(e) /\ e \in EntryRecord /\ InLimits(KernelPmap, e)
      /\ Steps(start, end) = b - a /\ ~ LoopWraps(start, end)
      /\ e.start = start /\ e.end = end /\ e.prot = prot /\ e.wired = wired /\ start < end
  <2> HIDE DEF e, end
  <2>1. end = (start + size) % AddressSpace
        /\ e = [start |-> start, end |-> end, prot |-> prot, wired |-> wired]
    BY DEF e, end
  <2> QED
    BY <1>1, <2>1, NewEntry
<1>3. /\ Len(ents) \in Nat /\ ents \in Seq(EntryRecord) /\ E = EntriesOf(ents)
      /\ ListOK(KernelPmap, ents)
  BY VmFacts DEF KernelEntries
<1>4. undo.entries = Kept(list, start, end)
  BY RemoveEntries
<1>5. Follows(Machine, k, E) /\ EntrySet(E) /\ Treed(Machine, k, {}, {}) /\ k \in {} \cup {k}
  BY DEF VmInv, Follows
<1>6. start \in Int /\ end \in Int
  BY WholeAddress, WholeEnd
<1>7. \A va \in VPages : OwnPage(k, {}, k, va)
  BY VmFacts
<1>8. hung' = FALSE /\ UNCHANGED pmaps
  BY <1>1, <1>2
<1>9. flags \in SUBSET {"W", "NX"} /\ flags = prot_to_pte(e.prot)
  BY <1>2, ProtFlags
<1> HIDE DEF e, ents, E, k, end, flags
<1>10. /\ ListOK(KernelPmap, list) /\ list \in Seq(EntryRecord) /\ Len(list) \in Nat
       /\ EntriesOf(list) = E \cup {e}
  <2>1. ListOK(KernelPmap, list)
    BY <1>1, <1>2, <1>3, InsertedListOK
  <2>2. EntriesOf(list) = E \cup {e}
    BY <1>2, <1>3, InsertedContents
  <2> HIDE DEF list
  <2> QED
    BY <2>1, <2>2 DEF ListOK
<1>11. EntrySet(E \cup {e})
  <2> HIDE DEF list
  <2>1. \A x \in EntriesOf(list) : WholeEntry(x) /\ KernelPage \notin PagesIn(x)
    BY <1>2, <1>5, <1>10 DEF EntrySet
  <2> QED
    BY <1>10, <2>1, ListEntrySet
<1>12. (\A x \in E : ~ Overlaps(x, start, end)) /\ Overlaps(e, start, end) /\ e \notin E
  <2>1. ASSUME NEW x \in E PROVE ~ Overlaps(x, start, end)
    <3>1. PICK i \in 1..Len(ents) : x = ents[i]
      BY <1>3 DEF EntriesOf
    <3>2. x.start \in Int /\ x.end \in Int
      BY <1>5 DEF EntrySet, WholeEntry
    <3>3. ~ (start < x.end /\ end > x.start)
      BY <1>1, <3>1
    <3> QED
      BY <1>6, <3>2, <3>3 DEF Overlaps
  <2>2. Overlaps(e, start, end)
    BY <1>2, <1>6 DEF Overlaps
  <2> QED
    BY <2>1, <2>2
<1>13. CASE ~ wired
  <2>1. SetMap(KernelPmap, list, n) /\ mem' = mem /\ free' = free
    <3> HIDE DEF list, n
    <3> QED
      BY <1>1, <1>13
  <2>2. KernelEntries' = E \cup {e}
    BY <1>10, <2>1, SetKernelMap
  <2>3. Follows(Machine, k, E \cup {e})
    BY <1>2, <1>5, <1>13, FollowsLazy
  <2>4. mem' = Machine.mem /\ free' = Machine.free
    BY <2>1, VmFacts
  <2> QED
    BY <1>8, <1>11, <2>2, <2>3, <2>4, VmKept DEF k
<1>14. CASE wired
  <2>1. /\ \A va \in PagesIn(e) : OwnPage(k, {}, k, va) /\ pmap_query(Machine.mem, k, va) = Absent
        /\ PagesIn(e) = a .. b-1 /\ Whole(start, end, a, b)
    <3>1. \A va \in PagesIn(e) : va \in VPages
      BY <1>2, EntryPages
    <3>2. \A va \in PagesIn(e) : pmap_query(Machine.mem, k, va) = Absent
      BY <1>5, <1>11, <1>12, NewPagesAbsent
    <3> QED
      BY <1>2, <1>7, <3>1, <3>2 DEF PagesIn, WholeEntry
  <2>2. PagesMapped(Machine, run, k, {}, {}, k, a, b - a, flags)
    <3>1. \A va \in a .. b-1 : OwnPage(k, {}, k, va) /\ pmap_query(Machine.mem, k, va) = Absent
      BY <2>1
    <3> HIDE DEF a, b
    <3>2. PICK Q : PagesMapped(Machine, run, k, {}, Q, k, a, b - a, flags) /\ Q = {}
      BY <1>5, <1>9, <2>1, <3>1, MapPagesMap
    <3> QED
      BY <3>2
  <2>3. a = Page(e.start) /\ b = Page(e.end)
    BY <1>2
  <2> HIDE DEF a, b, run
  <2>4. CASE run.done = Steps(start, end)
    <3>1. SetMap(KernelPmap, list, n) /\ mem' = run.s.mem /\ free' = run.s.free
      <4> HIDE DEF list, n, undo
      <4> QED
        BY <1>1, <1>8, <1>14, <2>4 DEF UsesMachine
    <3>2. KernelEntries' = E \cup {e}
      BY <1>10, <3>1, SetKernelMap
    <3>3. Follows(run.s, k, E \cup {e})
      BY <1>2, <1>5, <1>9, <1>11, <2>2, <2>3, <2>4, FollowsWired
    <3> QED
      BY <1>8, <1>11, <3>1, <3>2, <3>3, VmKept DEF k
  <2>5. CASE run.done # Steps(start, end)
    <3>1. /\ SetMap(KernelPmap, undo.entries, n - (Len(list) - Len(undo.entries)))
          /\ mem' = undo.s.mem /\ free' = undo.s.free
      <4> HIDE DEF list, n, undo
      <4> QED
        BY <1>1, <1>8, <1>14, <2>5 DEF UsesMachine
    <3>2. EntriesOf(undo.entries) = E
      <4>1. EntriesOf(Kept(list, start, end)) = {x \in E \cup {e} : ~ Overlaps(x, start, end)}
        BY <1>10, KeptContents
      <4>2. {x \in E \cup {e} : ~ Overlaps(x, start, end)} = E
        BY <1>12
      <4> QED
        BY <1>4, <4>1, <4>2
    <3>3. KernelEntries' = E
      BY <3>1, <3>2, SetKernelMap
    <3>4. PagesUnmapped(run.s, undo.s, k, {}, {}, k, PagesIn(e))
      <4> HIDE DEF list
      <4>0. \A i \in 1..Len(list) : list[i] \in E \cup {e}
        BY <1>10 DEF EntriesOf
      <4>1. Treed(run.s, k, {}, {})
        BY <2>2 DEF PagesMapped
      <4>2. \A i \in 1..Len(list) : /\ WholeEntry(list[i])
                                    /\ \A va \in PagesIn(list[i]) : OwnPage(k, {}, k, va)
        <5>1. \A x \in E \cup {e} : WholeEntry(x) /\ \A va \in PagesIn(x) : va \in VPages
          BY <1>11, EntryPages DEF EntrySet
        <5> QED
          BY <1>7, <4>0, <5>1
      <4>3. NoneCut(list, start, end)
        <5>1. \A i \in 1..Len(list) : Overlaps(list[i], start, end) => list[i] = e
          BY <1>12, <4>0
        <5>2. start <= e.start /\ e.end <= end
          BY <1>2, <1>6
        <5> QED
          BY <5>1, <5>2 DEF NoneCut
      <4>4. PagesUnmapped(run.s, undo.s, k, {}, {}, k, GonePages(list, start, end, Len(list)))
        BY <1>5, <1>6, <1>10, <4>1, <4>2, <4>3, RemovedPages
      <4>5. GonePages(list, start, end, Len(list)) = PagesIn(e)
        <5>1. \E i \in 1..Len(list) : list[i] = e
          BY <1>10 DEF EntriesOf
        <5>2. PagesIn(e) \subseteq VPages
          BY <1>2, EntryPages
        <5>3. \A i \in 1..Len(list) : Overlaps(list[i], start, end) <=> list[i] = e
          BY <1>12, <4>0
        <5> QED
          BY <5>1, <5>2, <5>3 DEF GonePages
      <4> QED
        BY <4>4, <4>5
    <3> HIDE DEF undo
    <3>5. Follows(undo.s, k, E)
      BY <1>5, <1>11, <1>12, <2>2, <2>3, <3>4, FollowsUndo
    <3> QED
      BY <1>5, <1>8, <3>1, <3>3, <3>5, VmKept DEF k
  <2> QED
    BY <2>4, <2>5
<1> QED
  BY <1>13, <1>14

LEMMA VmFaultStep ==
  ASSUME VmInv, MapsInv', WholePages, NEW addr \in Starts, NEW type, vm_fault(addr, type)
  PROVE  VmInv'
<1> DEFINE ents == maps[KernelPmap].entries
           E == KernelEntries
           k == Root(KernelPmap)
           va == Page(addr)
           s(p) == MapZeroPage(Machine, k, va, prot_to_pte(p))
<1>1. PICK i \in vm_map_lookup_entry(ents, addr) :
        s(ents[i].prot).got # 0 /\ UsesMachine(s(ents[i].prot))
  BY DEF vm_fault
<1>2. vm_fault_verdict(KernelPmap, addr, type) = "ALLOCATE" /\ UNCHANGED <<pmaps, maps, hung>>
  BY DEF vm_fault
<1>3. pmap_query(Machine.mem, k, va) = Absent
  <2>1. pmap_query(mem, k, va) = Absent
    BY <1>2 DEF vm_fault_verdict
  <2> QED
    BY <2>1, VmFacts
<1> DEFINE e == ents[i]
           x == s(e.prot)
<1>4. e \in E /\ e.start <= addr /\ addr < e.end
  BY <1>1 DEF vm_map_lookup_entry, KernelEntries, EntriesOf
<1>5. Follows(Machine, k, E) /\ EntrySet(E) /\ WholeEntry(e) /\ Treed(Machine, k, {}, {})
  BY <1>4 DEF VmInv, EntrySet, Follows
<1>6. x.got # 0 /\ mem' = x.mem /\ free' = x.free
  BY <1>1 DEF UsesMachine
<1>7. va \in PagesIn(e)
  <2>1. va \in Nat /\ addr = va * PAGE_SIZE
    BY WholeAddress
  <2> HIDE DEF e, va
  <2> QED
    BY <1>4, <1>5, <2>1, EntryPages
<1>8. OwnPage(k, {}, k, va)
  BY <1>4, <1>7, VmFacts
<1>9. x = MapZeroPage(Machine, k, va, prot_to_pte(e.prot)) /\ prot_to_pte(e.prot) \in SUBSET {"W", "NX"}
  BY ProtFlags
<1>10. KernelEntries' = E /\ hung' = FALSE /\ UNCHANGED pmaps
  BY <1>2 DEF KernelEntries, EntriesOf, VmInv
<1> HIDE DEF e, x, va, k, E
<1>11. ZeroPaged(Machine, x, k, {}, {}, k, va, prot_to_pte(e.prot))
  <2>1. PICK Q : ZeroPaged(Machine, x, k, {}, Q, k, va, prot_to_pte(e.prot)) /\ Q = {}
    BY <1>3, <1>5, <1>8, <1>9, ZeroPage
  <2> QED
    BY <2>1
<1>12. Follows(x, k, E)
  BY <1>4, <1>5, <1>6, <1>7, <1>11, FollowsFault
<1> QED
  BY <1>5, <1>6, <1>10, <1>12, VmKept DEF k, E

LEMMA VmBegins ==
  ASSUME VmInit PROVE VmInv
<1>1. MapsInv /\ PmapInv /\ PmapInit /\ hung = FALSE
  BY MapsInitial, PmapBegins DEF VmInit
<1>2. Live = {KernelPmap} /\ pmaps[KernelPmap].root = 1
  BY DEF VmInit, PmapInit, Live, AllPmaps
<1>3. KernelEntries = {}
  <2>1. maps[KernelPmap].entries = << >>
    BY DEF VmInit, AllPmaps
  <2> QED
    BY <2>1 DEF KernelEntries, EntriesOf
<1>4. Treed(Machine, 1, {}, {})
  <2>1. Roots = {} /\ Owned = {}
    BY <1>2 DEF Roots, Owned, Spaces
  <2>2. Machine \in Machines /\ Machine.mem = mem /\ Machine.free = free
    BY <1>1, PmapFacts
  <2> QED
    BY <1>1, <1>2, <2>1, <2>2 DEF Treed, PmapInv, Forest
<1>5. MappedIn(Machine.mem, 1, {})
  <2>1. Machine.mem = mem
    BY DEF Machine
  <2> QED
    BY <1>1, <2>1, BootPages DEF MappedIn
<1>6. Follows(Machine, Root(KernelPmap), KernelEntries)
  BY <1>2, <1>3, <1>4, <1>5 DEF Follows, WiredIn, Root
<1>7. EntrySet(KernelEntries)
  BY <1>3 DEF EntrySet
<1> QED
  BY <1>1, <1>2, <1>6, <1>7 DEF VmInv

LEMMA VmStep ==
  ASSUME WholePages, WholeEntries, VmInv, [VmNext]_vmVars
  PROVE  VmInv'
<1>0. MapsInv'
  <2>1. [VmTaskNext]_vmVars
    BY Zenon DEF VmTaskNext
  <2> QED
    BY <2>1, MapsStep DEF VmInv
<1>1. CASE VmNext
  <2>1. ASSUME NEW m \in AllPmaps, NEW a \in Starts, NEW size \in Sizes, vm_map_remove(m, a, size)
        PROVE  VmInv'
    BY <1>0, <2>1, VmRemoveStep
  <2>2. ASSUME NEW m \in AllPmaps, NEW a \in Starts, NEW size \in Sizes, NEW prot \in Prots,
               NEW wired \in BOOLEAN, vm_map_enter(m, a, size, prot, wired)
        PROVE  VmInv'
    BY <1>0, <2>2, VmEnterStep
  <2>3. ASSUME NEW a \in Starts, NEW type, vm_fault(a, type) PROVE VmInv'
    BY <1>0, <2>3, VmFaultStep
  <2> QED
    BY <1>1, <2>1, <2>2, <2>3, Zenon DEF VmNext
<1>2. CASE UNCHANGED vmVars
  <2>1. mem' = mem /\ free' = free /\ UNCHANGED pmaps /\ maps' = maps /\ hung' = hung
    BY <1>2 DEF vmVars, pmapVars
  <2>2. KernelEntries' = KernelEntries /\ hung' = FALSE
    BY <2>1 DEF KernelEntries, EntriesOf, VmInv
  <2>3. mem' = Machine.mem /\ free' = Machine.free
    BY <2>1, VmFacts
  <2>4. EntrySet(KernelEntries') /\ Follows(Machine, Root(KernelPmap), KernelEntries')
    BY <2>2 DEF VmInv
  <2> QED
    BY <1>0, <2>1, <2>2, <2>3, <2>4, VmKept
<1> QED
  BY <1>1, <1>2

LEMMA VmAlways == ASSUME WholePages, WholeEntries PROVE VmSpec => []VmInv
<1>1. VmInit => VmInv
  BY VmBegins
<1>2. VmInv /\ [VmNext]_vmVars => VmInv'
  BY VmStep
<1> QED
  BY <1>1, <1>2, PTL DEF VmSpec

\* The limits of a map lie inside the address space.
LEMMA LimitsInside ==
  ASSUME NEW m
  PROVE  /\ min_offset(m) \in Nat /\ max_offset(m) \in Int /\ max_offset(m) <= AddressSpace - 1
         /\ AddressSpace \in Nat
<1> DEFINE F == FANOUT^LEVELS
           h == F \div 2
<1>0. /\ PAGE_SIZE \in Nat \ {0} /\ F \in Nat \ {0} /\ AddressSpace = F * PAGE_SIZE
      /\ AddressSpace \in Nat
  BY TopPage
<1>1. h \in Nat /\ h <= F
  <2> HIDE DEF F
  <2> QED
    BY <1>0
<1>2. Half = PAGE_SIZE * h
  BY DEF Half
<1> HIDE DEF F, h
<1>3. Half \in Nat /\ Half <= AddressSpace
  <2>1. Half \in Nat /\ Half = h * PAGE_SIZE
    BY <1>0, <1>1, <1>2
  <2>2. h < F => h * PAGE_SIZE + PAGE_SIZE <= F * PAGE_SIZE
    BY <1>0, <1>1, PageAbove
  <2> DEFINE u == h * PAGE_SIZE
             v == F * PAGE_SIZE
  <2>3. u \in Nat /\ v \in Nat /\ (h < F => u + PAGE_SIZE <= v) /\ (h = F => u = v)
    BY <1>0, <1>1, <2>2
  <2> HIDE DEF u, v
  <2>4. u <= v
    BY <1>0, <1>1, <2>3
  <2> QED
    BY <1>0, <2>1, <2>4 DEF u, v
<1> QED
  BY <1>0, <1>3 DEF min_offset, max_offset

LEMMA VmTypes ==
  ASSUME MapsInv, PmapInv, hung = FALSE
  PROVE  VmTypeOK
<1>1. PmapTypeOK
  BY PmapTypes
<1>2. ASSUME NEW m \in AllPmaps
      PROVE  /\ maps[m].nentries \in Nat
             /\ \A i \in 1..Len(maps[m].entries) :
                  maps[m].entries[i] \in [start : 0..AddressSpace-1, end : 0..AddressSpace-1,
                                          prot : SUBSET {"R", "W", "X"}, wired : BOOLEAN]
  <2> DEFINE ents == maps[m].entries
  <2>1. ListOK(m, ents) /\ maps[m].nentries \in Nat
    BY MapsInvOf
  <2> HIDE DEF ents
  <2>2. ASSUME NEW i \in 1..Len(ents)
        PROVE  ents[i] \in [start : 0..AddressSpace-1, end : 0..AddressSpace-1,
                            prot : SUBSET {"R", "W", "X"}, wired : BOOLEAN]
    <3> DEFINE e == ents[i]
    <3>1. e \in EntryRecord /\ InLimits(m, e)
      BY <2>1, ElementOfSeq DEF ListOK
    <3> HIDE DEF e
    <3>2. e.start \in Int /\ e.end \in Int
      BY <3>1 DEF EntryRecord
    <3>3. e.start \in 0..AddressSpace-1 /\ e.end \in 0..AddressSpace-1
      BY <3>1, <3>2, LimitsInside DEF InLimits
    <3>4. e.prot \in SUBSET {"R", "W", "X"}
      BY <3>1, VmMapAssumption DEF EntryRecord
    <3>5. e = [start |-> e.start, end |-> e.end, prot |-> e.prot, wired |-> e.wired] /\ e.wired \in BOOLEAN
      BY <3>1 DEF EntryRecord
    <3>6. e \in [start : 0..AddressSpace-1, end : 0..AddressSpace-1,
                 prot : SUBSET {"R", "W", "X"}, wired : BOOLEAN]
      BY <3>3, <3>4, <3>5
    <3> QED
      BY <3>6 DEF e
  <2> QED
    BY <2>1, <2>2 DEF ents
<1> QED
  BY <1>1, <1>2 DEF VmTypeOK

LEMMA VmMapped ==
  ASSUME VmInv PROVE MappedIsCovered /\ WiredIsMapped
<1> DEFINE ents == maps[KernelPmap].entries
           k == Root(KernelPmap)
<1>0. Live = {KernelPmap} /\ EntrySet(KernelEntries)
      /\ MappedIn(mem, k, KernelEntries) /\ WiredIn(mem, k, KernelEntries)
  BY VmFacts DEF VmInv, Follows
<1>1. \A va \in MapPagesOf(KernelPmap) : va \in VPages \ {KernelPage} /\ va \in Nat
  BY PageNumbers DEF MapPagesOf
<1>2. \A x \in KernelEntries : WholeEntry(x) /\ \A va \in Nat : Covers(x, va) <=> va \in PagesIn(x)
  BY <1>0, EntryPages DEF EntrySet
<1>3. KernelEntries = {ents[i] : i \in 1..Len(ents)}
  BY DEF KernelEntries, EntriesOf
<1>4. MappedIsCovered
  <2> SUFFICES ASSUME NEW va \in MapPagesOf(KernelPmap), pmap_query(mem, k, va) # Absent
               PROVE  \E i \in 1..Len(ents) :
                        Covers(ents[i], va) /\ pmap_query(mem, k, va).flags = prot_to_pte(ents[i].prot)
    BY <1>0 DEF MappedIsCovered
  <2>1. PICK x \in KernelEntries :
          va \in PagesIn(x) /\ pmap_query(mem, k, va).flags = prot_to_pte(x.prot)
    BY <1>0, <1>1 DEF MappedIn
  <2>2. Covers(x, va)
    BY <1>1, <1>2, <2>1
  <2>3. PICK i \in 1..Len(ents) : x = ents[i]
    BY <1>3
  <2> QED
    BY <2>1, <2>2, <2>3
<1>5. WiredIsMapped
  <2> SUFFICES ASSUME NEW i \in 1..Len(ents), NEW va \in MapPagesOf(KernelPmap),
                      ents[i].wired, Covers(ents[i], va)
               PROVE  pmap_query(mem, k, va) # Absent
    BY <1>0 DEF WiredIsMapped
  <2>1. ents[i] \in KernelEntries
    BY <1>3
  <2>2. va \in PagesIn(ents[i])
    BY <1>1, <1>2, <2>1
  <2> QED
    BY <1>0, <2>1, <2>2 DEF WiredIn
<1> QED
  BY <1>4, <1>5

(* When callers pass whole pages and remove whole entries, the loops of    *)
(* vm_map_enter(), vm_map_remove() and vm_fault() lose no frame and map    *)
(* none twice, also where memory runs out in the middle of a range and the *)
(* part that was mapped is taken out again (vm_map.c:128-181, 219-252,     *)
(* vm_fault.c:38-62).                                                      *)
THEOREM VmFrames ==
  ASSUME WholePages, WholeEntries PROVE VmSpec => []FramesAccounted
<1>1. VmInv => FramesAccounted
  BY AccountedFrames DEF VmInv
<1> QED
  BY <1>1, VmAlways, PTL

(* Under the same conditions entries stay ranges of addresses, tables hold *)
(* frames of memory, and nentries, which is unsigned in the code and which *)
(* removals count down, never goes below zero (vm_map.c:161, 246).         *)
THEOREM VmTypeCorrect ==
  ASSUME WholePages, WholeEntries PROVE VmSpec => []VmTypeOK
<1>1. VmInv => VmTypeOK
  BY VmTypes DEF VmInv
<1> QED
  BY <1>1, VmAlways, PTL

(* Under the same conditions the page tables follow the map: a page is     *)
(* mapped only where an entry covers it, and with the rights of that entry *)
(* (vm_map.c:50-58, 163-178, 233-245, vm_fault.c:38-62).                   *)
THEOREM VmMappedIsCovered ==
  ASSUME WholePages, WholeEntries PROVE VmSpec => []MappedIsCovered
<1>1. VmInv => MappedIsCovered
  BY VmMapped
<1> QED
  BY <1>1, VmAlways, PTL

(* Under the same conditions "wired pages never fault" (vm_fault.c:13):    *)
(* every page of a wired entry is mapped for as long as the entry exists   *)
(* (vm_map.c:163-178).                                                     *)
THEOREM VmWiredIsMapped ==
  ASSUME WholePages, WholeEntries PROVE VmSpec => []WiredIsMapped
<1>1. VmInv => WiredIsMapped
  BY VmMapped
<1> QED
  BY <1>1, VmAlways, PTL

(* Under the same conditions no loop over the addresses of a range wraps   *)
(* around, so every call returns (vm_map.c:133-138, 165, 236): a range     *)
(* that the map accepts, or that cuts no entry, ends a page or more below  *)
(* the top of the address space.                                           *)
THEOREM VmCallsReturn ==
  ASSUME WholePages, WholeEntries PROVE VmSpec => []CallsReturn
<1>1. VmInv => CallsReturn
  BY DEF VmInv, CallsReturn
<1> QED
  BY <1>1, VmAlways, PTL

-----------------------------------------------------------------------------
(* Program loading, on machines where pages may be lost: vm_map_page_range *)
(* overwrites what is mapped, so some frames of a forest wait for ever.    *)

LowPages == {va \in VPages : ~ InKernelHalf(va)}

LEMMA LowPage ==
  ASSUME NEW va \in Nat, va * PAGE_SIZE < Half
  PROVE  va \in LowPages
<1> DEFINE p == FANOUT^(LEVELS-1)
           h == FANOUT \div 2
           q == va \div p
<1>1. p \in Nat \ {0} /\ FANOUT \in Nat \ {0} /\ FANOUT = 2 * h /\ h \in Nat /\ FANOUT^LEVELS = p * FANOUT
  <2>1. LEVELS - 1 \in 0..LEVELS /\ LEVELS \in 1..LEVELS
    BY PmapAssumption
  <2>2. p \in Nat \ {0}
    BY <2>1, Powers
  <2>3. FANOUT \in Nat \ {0} /\ FANOUT % 2 = 0 /\ FANOUT^LEVELS = FANOUT^(LEVELS-1) * FANOUT
    BY <2>1, PmapAssumption
  <2>4. FANOUT = 2 * h /\ h \in Nat
    BY <2>3
  <2> QED
    BY <2>2, <2>3, <2>4
<1> HIDE DEF p, h
<1>2. FANOUT^LEVELS = (p * h) * 2 /\ p * h \in Nat
  BY <1>1
<1>3. FANOUT^LEVELS \div 2 = p * h
  BY <1>2
<1>4. PAGE_SIZE \in Nat \ {0} /\ Half = (p * h) * PAGE_SIZE
  BY <1>2, <1>3, VmMapAssumption DEF Half
<1>5. va < p * h
  BY <1>2, <1>4, PageOrder
<1>6. q \in Nat /\ va % p \in 0 .. p-1 /\ va = q * p + (va % p)
  BY <1>1, DivMod
<1>7. q < h
  <2>1. q * p < h * p
    BY <1>1, <1>5, <1>6
  <2> HIDE DEF q
  <2> QED
    BY <1>1, <1>6, <2>1, PageOrder
<1>8. Idx(LEVELS, va) = q
  <2>1. q % FANOUT = q
    <3> HIDE DEF q
    <3> QED
      BY <1>1, <1>6, <1>7
  <2> QED
    BY <2>1 DEF Idx, p
<1>9. ~ InKernelHalf(va)
  <2>1. q \notin h .. FANOUT - 1
    BY <1>1, <1>6, <1>7
  <2> QED
    BY <1>8, <2>1 DEF InKernelHalf, KernelHalf, h
<1>10. va \in VPages
  <2>1. va < FANOUT^LEVELS /\ FANOUT^LEVELS \in Nat
    BY <1>2, <1>5
  <2> QED
    BY <2>1 DEF VPages
<1> QED
  BY <1>9, <1>10 DEF LowPages

\* Segments of whole pages, as the linker makes them.
WholeSegment(seg) ==
  /\ seg.vmaddr \in 0 .. AddressSpace - 1 /\ seg.vmaddr % PAGE_SIZE = 0
  /\ seg.vmsize \in 0 .. AddressSpace - 1 /\ seg.vmsize % PAGE_SIZE = 0
  /\ seg.fileoff \in Nat /\ seg.filesize \in Nat

WholeImages ==
  \A image \in Images :
    /\ Len(Segments(image)) \in Nat
    /\ \A i \in 1..Len(Segments(image)) : WholeSegment(Segments(image)[i])

Span(seg) == [start |-> seg.vmaddr, end |-> seg.vmaddr + seg.vmsize]
SegmentPages(seg) == PagesIn(Span(seg))

LEMMA NotWrapped ==
  ASSUME NEW A \in Nat \ {0}, NEW x \in 0 .. A-1, NEW y \in 0 .. A-1, NEW z, z = (x + y) % A, x <= z
  PROVE  z = x + y
OBVIOUS

\* A segment that the map of a task accepts.
LEMMA SegmentRange ==
  ASSUME NEW seg, WholeSegment(seg), NEW m, m # KernelPmap, ValidRange(m, seg.vmaddr, seg.vmsize),
         NEW end, end = (seg.vmaddr + seg.vmsize) % AddressSpace,
         NEW a, a = Page(seg.vmaddr), NEW b, b = Page(end)
  PROVE  /\ end = seg.vmaddr + seg.vmsize /\ seg.vmaddr # 0 /\ end <= Half - 1
         /\ Whole(seg.vmaddr, end, a, b) /\ WholeEntry(Span(seg))
         /\ SegmentPages(seg) = a .. b-1 /\ SegmentPages(seg) \subseteq LowPages
<1> DEFINE x == seg.vmaddr
           y == seg.vmsize
<1>0. /\ PAGE_SIZE \in Nat \ {0} /\ AddressSpace \in Nat \ {0}
      /\ x \in Nat /\ x <= AddressSpace - 1 /\ y \in Nat /\ y <= AddressSpace - 1
      /\ x % PAGE_SIZE = 0 /\ y % PAGE_SIZE = 0
  BY TopPage DEF WholeSegment
<1>1. PAGE_SIZE <= x /\ end <= Half - 1 /\ x <= end /\ y # 0
  BY DEF ValidRange, min_offset, max_offset
<1>h. Half \in Int /\ Half <= AddressSpace
  <2>1. min_offset(KernelPmap) = Half /\ max_offset(m) = Half - 1
    BY DEF min_offset, max_offset
  <2>2. min_offset(KernelPmap) \in Nat /\ max_offset(m) <= AddressSpace - 1
    BY LimitsInside
  <2> QED
    BY <1>0, <2>1, <2>2
<1> HIDE DEF x, y
<1>2. end = x + y
  <2>1. x \in 0 .. AddressSpace - 1 /\ y \in 0 .. AddressSpace - 1 /\ end = (x + y) % AddressSpace
    BY <1>0 DEF x, y
  <2> QED
    BY <1>0, <1>1, <2>1, NotWrapped
<1>3. /\ x = Page(x) * PAGE_SIZE /\ Page(x) \in Nat
      /\ y = Page(y) * PAGE_SIZE /\ Page(y) \in Nat
  <2>1. /\ x \div PAGE_SIZE \in Nat /\ x = (x \div PAGE_SIZE) * PAGE_SIZE + (x % PAGE_SIZE)
        /\ y \div PAGE_SIZE \in Nat /\ y = (y \div PAGE_SIZE) * PAGE_SIZE + (y % PAGE_SIZE)
    BY <1>0, DivMod
  <2> QED
    BY <1>0, <2>1 DEF Page
<1>4. end = (Page(x) + Page(y)) * PAGE_SIZE
  BY <1>0, <1>2, <1>3
<1>5. b = Page(x) + Page(y)
  <2>1. 0 \in 0 .. PAGE_SIZE - 1 /\ end = (Page(x) + Page(y)) * PAGE_SIZE + 0 /\ Page(x) + Page(y) \in Nat
    BY <1>0, <1>3, <1>4
  <2> QED
    BY <1>0, <2>1, DivIs DEF Page
<1>6. Whole(x, end, a, b)
  BY <1>3, <1>4, <1>5 DEF Whole, x
<1>7. WholeEntry(Span(seg)) /\ SegmentPages(seg) = a .. b-1
  <2>1. Span(seg).start = x /\ Span(seg).end = end
    BY <1>2 DEF Span, x, y
  <2>2. end <= AddressSpace - 1 /\ x \in Int /\ end \in Int
    BY <1>0, <1>1, <1>2, <1>h
  <2> QED
    BY <1>6, <2>1, <2>2 DEF WholeEntry, SegmentPages, PagesIn, x
<1>8. ASSUME NEW va \in a .. b-1 PROVE va \in LowPages
  <2>1. va \in Nat /\ a \in Nat /\ b \in Nat /\ va < b
    BY <1>6 DEF Whole
  <2>2. va * PAGE_SIZE + PAGE_SIZE <= b * PAGE_SIZE
    BY <1>0, <2>1, PageAbove
  <2>3. va * PAGE_SIZE < Half
    <3>1. PAGE_SIZE \in Nat \ {0}
      BY <1>0
    <3>2. va * PAGE_SIZE \in Nat
      BY <2>1, <3>1
    <3>3. b * PAGE_SIZE = end /\ end \in Nat
      BY <1>0, <1>2, <1>6 DEF Whole
    <3>4. end <= Half - 1 /\ Half \in Int
      BY <1>1, <1>h
    <3> DEFINE u == va * PAGE_SIZE
    <3>5. u \in Nat /\ u + PAGE_SIZE <= end
      BY <2>2, <3>2, <3>3
    <3> HIDE DEF u
    <3>6. u < Half
      BY <3>1, <3>3, <3>4, <3>5
    <3> QED
      BY <3>6 DEF u
  <2> QED
    BY <2>1, <2>3, LowPage
<1>9. x # 0 /\ end <= Half - 1
  BY <1>0, <1>1
<1>10. SegmentPages(seg) \subseteq LowPages
  BY <1>7, <1>8
<1>11. end = seg.vmaddr + seg.vmsize /\ seg.vmaddr # 0 /\ Whole(seg.vmaddr, end, a, b)
  BY <1>2, <1>6, <1>9 DEF x, y
<1> QED
  BY <1>7, <1>9, <1>10, <1>11

\* A map without entries: vm_map_remove() does nothing.
LEMMA NothingRemoved ==
  ASSUME NEW s \in Machines, NEW r \in Frames, NEW start \in Int, NEW end \in Int
  PROVE  RemoveFrom(s, r, << >>, start, end).s = s /\ RemoveFrom(s, r, << >>, start, end).entries = << >>
<1>1. Len(<< >>) = 0 /\ Len(<< >>) \in Nat
  OBVIOUS
<1>2. NoneCut(<< >>, start, end)
  BY <1>1 DEF NoneCut
<1>3. \A i \in 1..Len(<< >>) : WholeEntry(<< >>[i])
  BY <1>1
<1>4. PICK w : /\ RemoveRun(s, r, << >>, start, end, w)
               /\ RemoveFrom(s, r, << >>, start, end).s = w[Len(<< >>)]
  BY <1>1, <1>2, <1>3, RemoveDef
<1>5. PICK k : KeepsOf(<< >>, start, end, 0, k) /\ Kept(<< >>, start, end) = k[0]
  BY <1>1, KeptDef
<1>6. k[0] = << >>
  BY <1>5 DEF KeepsOf
<1> QED
  BY <1>1, <1>4, <1>5, <1>6, RemoveEntries DEF RemoveRun

\* vm_map_page_range() maps pages of the range, all of them if it succeeds,
\* and nothing else is seen to change.
RangeMapped(s, p, k, R, Q, r, P, flags) ==
  /\ p.entries = << >> /\ p.ok \in BOOLEAN
  /\ Treed(p.s, k, R, Q) /\ p.s.free \subseteq s.free
  /\ ChangedIn(s.mem, p.s.mem, R \cup {k}, r, P)
  /\ p.ok => \A va \in P : pmap_query(p.s.mem, r, va) # Absent /\ pmap_query(p.s.mem, r, va).flags = flags

LEMMA SegmentMaps ==
  ASSUME NEW s, NEW k, NEW R, NEW D, Treed(s, k, R, D), NEW r \in R,
         NEW seg, WholeSegment(seg), NEW m, m # KernelPmap, ValidRange(m, seg.vmaddr, seg.vmsize),
         NEW p, p = PageRange(s, r, << >>, seg.vmaddr, seg.vmsize, seg.initprot)
  PROVE  \E Q : RangeMapped(s, p, k, R, Q, r, SegmentPages(seg), prot_to_pte(seg.initprot))
<1> DEFINE end == (seg.vmaddr + seg.vmsize) % AddressSpace
           a == Page(seg.vmaddr)
           b == Page(end)
           flags == prot_to_pte(seg.initprot)
           run == MapPages(s, r, seg.vmaddr, end, flags)
           undo == RemoveFrom(run.s, r, << >>, seg.vmaddr, seg.vmaddr + run.done * PAGE_SIZE)
<1>1. /\ Whole(seg.vmaddr, end, a, b) /\ SegmentPages(seg) = a .. b-1
      /\ SegmentPages(seg) \subseteq LowPages
  <2> HIDE DEF end
  <2>1. end = (seg.vmaddr + seg.vmsize) % AddressSpace
    BY DEF end
  <2> QED
    BY <2>1, SegmentRange
<1>2. p = IF run.done = Steps(seg.vmaddr, end)
            THEN [s |-> run.s, entries |-> << >>, ok |-> TRUE]
            ELSE [s |-> undo.s, entries |-> undo.entries, ok |-> FALSE]
  BY DEF PageRange
<1> HIDE DEF end
<1>3. flags \in SUBSET {"W", "NX"} /\ r \in R \cup {k}
  BY ProtFlags
<1>4. \A va \in a .. b-1 : OwnPage(k, R, r, va)
  BY <1>1 DEF OwnPage, LowPages, Copied, InKernelHalf
<1> HIDE DEF flags, a, b
<1>5. PICK Q : PagesMapped(s, run, k, R, Q, r, a, b - a, flags)
  BY <1>1, <1>3, <1>4, MapPagesMap
<1> HIDE DEF run
<1>6. /\ Treed(run.s, k, R, Q) /\ run.s.free \subseteq s.free /\ run.done \in 0 .. b-a
      /\ ChangedIn(s.mem, run.s.mem, R \cup {k}, r, a .. a + run.done - 1)
      /\ \A va \in a .. a + run.done - 1 :
           pmap_query(run.s.mem, r, va) # Absent /\ pmap_query(run.s.mem, r, va).flags = flags
  BY <1>5 DEF PagesMapped
<1>7. a \in Nat /\ b \in Nat /\ seg.vmaddr \in Nat /\ Steps(seg.vmaddr, end) = b - a /\ PAGE_SIZE \in Nat
  <2>1. Steps(seg.vmaddr, end) = b - a /\ seg.vmaddr \in Nat
    BY <1>1, WholeRange
  <2> QED
    BY <1>1, <2>1, TopPage DEF Whole
<1>8. a .. a + run.done - 1 \subseteq a .. b-1
  BY <1>6, <1>7
<1>9. ChangedIn(s.mem, run.s.mem, R \cup {k}, r, SegmentPages(seg))
  BY <1>1, <1>6, <1>8 DEF ChangedIn
<1>10. CASE run.done = b - a
  <2>1. p.s = run.s /\ p.entries = << >> /\ p.ok = TRUE
    BY <1>2, <1>7, <1>10
  <2>2. a .. a + run.done - 1 = SegmentPages(seg)
    BY <1>1, <1>6, <1>7, <1>10
  <2> QED
    BY <1>6, <1>9, <2>1, <2>2 DEF RangeMapped, flags
<1>11. CASE run.done # b - a
  <2>1. undo.s = run.s /\ undo.entries = << >>
    <3>1. run.s \in Machines /\ r \in Frames
      BY <1>6, TreeFacts DEF Treed
    <3>2. seg.vmaddr \in Int /\ seg.vmaddr + run.done * PAGE_SIZE \in Int
      BY <1>6, <1>7
    <3> QED
      BY <3>1, <3>2, NothingRemoved
  <2> HIDE DEF undo
  <2>2. p.s = run.s /\ p.entries = << >> /\ p.ok = FALSE
    BY <1>2, <1>7, <1>11, <2>1
  <2> QED
    BY <1>6, <1>9, <2>2 DEF RangeMapped
<1> QED
  BY <1>10, <1>11

-----------------------------------------------------------------------------
(* The loader's loop over the segments.                                    *)

ParseTurn(x, m, root, seg) == IF GoesOn(x) THEN LoadSegment(x, m, root, seg) ELSE x

ParseRec(r0, m, root, segs, n, w) ==
  w = [i \in 0..n |-> IF i = 0 THEN r0 ELSE ParseTurn(w[i-1], m, root, segs[i])]

ParseRun(r0, m, root, segs, n, w) ==
  w[0] = r0 /\ \A i \in 1..n : w[i] = ParseTurn(w[i-1], m, root, segs[i])

LEMMA ParseExists ==
  ASSUME NEW r0, NEW m, NEW root, NEW segs
  PROVE  \A n \in Nat : \E w : ParseRec(r0, m, root, segs, n, w)
<1> DEFINE S == {n \in Nat : \E w : ParseRec(r0, m, root, segs, n, w)}
<1>1. 0 \in S
  <2>1. ParseRec(r0, m, root, segs, 0, [i \in 0..0 |-> r0])
    BY DEF ParseRec
  <2> QED
    BY <2>1
<1>2. ASSUME NEW n \in Nat, n \in S PROVE n + 1 \in S
  <2>1. PICK w : ParseRec(r0, m, root, segs, n, w)
    BY <1>2
  <2> DEFINE h == [i \in 0..n+1 |-> IF i = n + 1 THEN ParseTurn(w[n], m, root, segs[n+1]) ELSE w[i]]
  <2>2. \A i \in 0..n+1 : h[i] = IF i = 0 THEN r0 ELSE ParseTurn(h[i-1], m, root, segs[i])
    <3> TAKE i \in 0..n+1
    <3>1. CASE i = n + 1
      <4>1. /\ h[i] = ParseTurn(w[n], m, root, segs[n+1])
            /\ i # 0 /\ i - 1 = n /\ i - 1 \in 0..n+1 /\ i - 1 # n + 1
        BY <3>1
      <4>2. h[i-1] = w[n]
        BY <4>1
      <4> QED
        BY <3>1, <4>1, <4>2
    <3>2. CASE i # n + 1
      <4>1. i \in 0..n /\ h[i] = w[i]
        BY <3>2
      <4>2. i # 0 => i - 1 \in 0..n /\ h[i-1] = w[i-1]
        BY <4>1
      <4>3. w[i] = IF i = 0 THEN r0 ELSE ParseTurn(w[i-1], m, root, segs[i])
        BY <2>1, <4>1 DEF ParseRec
      <4> QED
        BY <4>1, <4>2, <4>3
    <3> QED
      BY <3>1, <3>2
  <2>3. ParseRec(r0, m, root, segs, n + 1, h)
    <3>1. h = [i \in 0..n+1 |-> h[i]]
      OBVIOUS
    <3> HIDE DEF h
    <3> QED
      BY <2>2, <3>1 DEF ParseRec
  <2> QED
    BY <2>3
<1>3. Nat \subseteq S
  <2> HIDE DEF S
  <2> QED
    BY <1>1, <1>2, SetInduction
<1> QED
  BY <1>3

LEMMA ParseDef ==
  ASSUME NEW r0, NEW m, NEW root, NEW image, NEW segs, segs = Segments(image), Len(segs) \in Nat
  PROVE  \E w : /\ ParseRun(r0, m, root, segs, Len(segs), w)
                /\ macho_parse_segments(r0, m, root, image) = w[Len(segs)]
<1> DEFINE N == Len(segs)
           c == CHOOSE w : ParseRec(r0, m, root, segs, N, w)
<1>1. ParseRec(r0, m, root, segs, N, c)
  BY ParseExists
<1>2. macho_parse_segments(r0, m, root, image) = c[N]
  BY DEF macho_parse_segments, ParseRec, ParseTurn
<1> HIDE DEF c
<1>3. ParseRun(r0, m, root, segs, N, c)
  BY <1>1 DEF ParseRec, ParseRun
<1> QED
  BY <1>2, <1>3

\* What the loader has reached, as exec_load() starts it on a map without
\* entries.
Loading == [ s : Machines, entries : {<< >>}, ok : BOOLEAN, bytes : [PhysBytes -> Int], base : Nat,
             stopped : {"no", "fault", "wrecked"} ]

\* The bytes of frames that are not in F are the same in b and c.
BytesAlike(b, c, F) == \A a \in BytesOf(Frames \ F) : c[a] = b[a]

\* They are the same but for those in W.
BytesBut(b, c, F, W) == \A a \in BytesOf(Frames \ F) : c[a] = b[a] \/ a \in W

\* Pages that were free are zeroed, others keep their bytes.
LEMMA TakenBytes ==
  ASSUME NEW b \in [PhysBytes -> Int], NEW F, NEW T, T \subseteq F
  PROVE  Taken(b, T) \in [PhysBytes -> Int] /\ BytesAlike(b, Taken(b, T), F)
BY DEF Taken, BytesAlike, BytesOf, Zero

\* What the copy of one segment makes of machine, memory and base.
CopyMade(r, p, c, seg) ==
  /\ c \in Loading /\ c.s = p.s /\ c.ok = p.ok
  /\ p.ok => c.base = IF seg.fileoff = 0 /\ r.base = 0 THEN seg.vmaddr ELSE r.base
  /\ BytesBut(r.bytes, c.bytes, r.s.free, CopyRange(seg))

LEMMA CopyDone ==
  ASSUME NEW r \in Loading, NEW p, p.s \in Machines, p.entries = << >>, p.ok \in BOOLEAN,
         p.s.free \subseteq r.s.free, NEW root,
         NEW seg, WholeSegment(seg),
         NEW c, c = CopySegment(r, p, root, seg)
  PROVE  CopyMade(r, p, c, seg)
<1> DEFINE fresh == Taken(r.bytes, r.s.free \ p.s.free)
           n == IF seg.filesize = 0 THEN 0 ELSE Larger(seg.filesize, seg.vmsize)
           within == Larger(0, Smaller(n, IDENTITY - seg.vmaddr))
           copied == kmemcpy(fresh, seg.vmaddr, seg.fileoff, Smaller(seg.filesize, within))
           set == kmemset(copied, seg.vmaddr + seg.filesize, within - seg.filesize)
           hit == {Page(a) - PhysBase : a \in seg.vmaddr .. seg.vmaddr + within - 1}
           stop == IF hit \cap KernelFrames(p.s, root) # {} THEN "wrecked"
                   ELSE IF within < n THEN "fault" ELSE "no"
           base == IF seg.fileoff = 0 /\ r.base = 0 THEN seg.vmaddr ELSE r.base
<1>1. c = IF ~ p.ok THEN [r EXCEPT !.s = p.s, !.entries = p.entries, !.bytes = fresh, !.ok = FALSE]
          ELSE [s |-> p.s, entries |-> p.entries, ok |-> TRUE, bytes |-> set, base |-> base, stopped |-> stop]
  BY DEF CopySegment
<1>2. /\ seg.vmaddr \in Nat /\ seg.vmsize \in Nat /\ seg.filesize \in Nat /\ seg.fileoff \in Nat
      /\ IDENTITY \in Nat /\ PhysBase \in Nat /\ PAGE_SIZE \in Nat
  BY VmMapAssumption, ExecAssumption DEF WholeSegment
<1>3. r.bytes \in [PhysBytes -> Int] /\ r.base \in Nat
  BY DEF Loading
<1>4. fresh \in [PhysBytes -> Int] /\ BytesAlike(r.bytes, fresh, r.s.free)
  BY <1>3, TakenBytes
<1>5. PhysBytes \subseteq Int
  BY DEF PhysBytes
<1>6. n \in Nat /\ within \in Nat
  BY <1>2 DEF Larger, Smaller
<1>7. base \in Nat /\ stop \in {"no", "fault", "wrecked"}
  BY <1>2, <1>3
<1> HIDE DEF fresh, stop, base, hit
<1>8. copied \in [PhysBytes -> Int] /\ set \in [PhysBytes -> Int]
  <2>1. copied \in [PhysBytes -> Int]
    BY <1>2, <1>4, <1>5 DEF kmemcpy
  <2> HIDE DEF copied
  <2> QED
    BY <2>1 DEF kmemset, Zero
<1>9. ASSUME NEW a \in BytesOf(Frames \ r.s.free), a \notin CopyRange(seg) PROVE set[a] = r.bytes[a]
  <2>1. a \in PhysBytes /\ a \in Nat
    BY DEF BytesOf, PhysBytes
  <2>2. within > 0 => a < seg.vmaddr \/ seg.vmaddr + within <= a
    <3> DEFINE up == Smaller(IDENTITY, seg.vmaddr + Larger(seg.filesize, seg.vmsize))
    <3> SUFFICES ASSUME within > 0, seg.vmaddr <= a PROVE seg.vmaddr + within <= a
      BY <1>2, <2>1
    <3>1. seg.filesize # 0 /\ up \in Int
      BY <1>2 DEF Larger, Smaller
    <3>2. seg.vmaddr + within <= up
      BY <1>2, <3>1 DEF Larger, Smaller
    <3>3. a \notin seg.vmaddr .. up - 1
      BY <1>9, <3>1 DEF CopyRange
    <3> HIDE DEF up, within
    <3> QED
      BY <1>2, <1>6, <2>1, <3>1, <3>2, <3>3
  <2> HIDE DEF within, n
  <2>3. set[a] = fresh[a]
    <3>1. Smaller(seg.filesize, within) <= within /\ Smaller(seg.filesize, within) \in Nat
      BY <1>2, <1>6 DEF Smaller
    <3>2. ~ (seg.vmaddr <= a /\ a < seg.vmaddr + Smaller(seg.filesize, within))
      BY <1>2, <1>6, <2>1, <2>2, <3>1
    <3>3. ~ (seg.vmaddr + seg.filesize <= a /\ a < seg.vmaddr + seg.filesize + (within - seg.filesize))
      BY <1>2, <1>6, <2>1, <2>2
    <3>4. copied[a] = fresh[a]
      BY <2>1, <3>2 DEF kmemcpy
    <3> HIDE DEF copied
    <3> QED
      BY <2>1, <3>3, <3>4 DEF kmemset
  <2> QED
    BY <1>4, <2>3 DEF BytesAlike
<1> HIDE DEF within, n, copied, set
<1>10. CASE p.ok = TRUE
  <2>1. c = [s |-> p.s, entries |-> p.entries, ok |-> TRUE, bytes |-> set, base |-> base, stopped |-> stop]
    BY <1>1, <1>10
  <2>2. c \in Loading
    BY <1>7, <1>8, <2>1 DEF Loading
  <2>3. c.s = p.s /\ c.base = base /\ c.bytes = set /\ c.ok = TRUE /\ c.stopped = stop
    BY <2>1
  <2> QED
    BY <1>9, <1>10, <2>2, <2>3 DEF CopyMade, BytesBut, base
<1>11. CASE p.ok = FALSE
  <2>1. c = [r EXCEPT !.s = p.s, !.entries = p.entries, !.bytes = fresh, !.ok = FALSE]
    BY <1>1, <1>11
  <2>2. c \in Loading /\ c.s = p.s /\ c.ok = FALSE /\ c.bytes = fresh /\ c.stopped = r.stopped
    BY <1>4, <2>1 DEF Loading
  <2> QED
    BY <1>4, <1>11, <2>2 DEF CopyMade, BytesAlike, BytesBut
<1> QED
  BY <1>10, <1>11

\* A segment in the half of the tasks.
TaskSegment(seg) ==
  seg.vmaddr # 0 /\ WholeEntry(Span(seg)) /\ SegmentPages(seg) \subseteq LowPages

\* The pages of the first n segments are mapped from root, each with the
\* rights of the last segment over it.
SegmentsMapped(M, root, segs, n) ==
  \A i \in 1..n :
    /\ TaskSegment(segs[i])
    /\ \A va \in SegmentPages(segs[i]) :
         (\A j \in i+1 .. n : va \notin SegmentPages(segs[j])) =>
           /\ pmap_query(M, root, va) # Absent
           /\ pmap_query(M, root, va).flags = prot_to_pte(segs[i].initprot)

\* base is the address of the first of n segments that begins with the file.
BaseFound(segs, n, base) ==
  \/ base = 0 /\ \A i \in 1..n : segs[i].fileoff # 0
  \/ \E i \in 1..n : /\ segs[i].fileoff = 0 /\ base = segs[i].vmaddr /\ base # 0
                     /\ \A j \in 1..i-1 : segs[j].fileoff # 0

\* What the copies of the first n segments may reach.
CopiesOf(segs, n) == UNION {CopyRange(segs[i]) : i \in 1..n}

\* After n segments, from machine s and physical memory b.
LoadState(s, b, x, k, R, root, segs, n) ==
  /\ x \in Loading /\ (\E Q : Treed(x.s, k, R, Q)) /\ x.s.free \subseteq s.free
  /\ ChangedIn(s.mem, x.s.mem, R \cup {k}, root, LowPages)
  /\ GoesOn(x) => SegmentsMapped(x.s.mem, root, segs, n) /\ BaseFound(segs, n, x.base)
  /\ BytesBut(b, x.bytes, s.free, CopiesOf(segs, n))

\* One more segment is mapped over the others.
LEMMA MappedOver ==
  ASSUME NEW M, NEW N, NEW X, NEW root \in X, NEW segs, NEW n \in Nat, SegmentsMapped(M, root, segs, n),
         NEW seg, seg = segs[n+1], TaskSegment(seg),
         ChangedIn(M, N, X, root, SegmentPages(seg)),
         \A va \in SegmentPages(seg) : /\ pmap_query(N, root, va) # Absent
                                       /\ pmap_query(N, root, va).flags = prot_to_pte(seg.initprot)
  PROVE  SegmentsMapped(N, root, segs, n + 1)
<1> SUFFICES ASSUME NEW i \in 1 .. n+1
             PROVE  /\ TaskSegment(segs[i])
                    /\ \A va \in SegmentPages(segs[i]) :
                         (\A j \in i+1 .. n+1 : va \notin SegmentPages(segs[j])) =>
                           /\ pmap_query(N, root, va) # Absent
                           /\ pmap_query(N, root, va).flags = prot_to_pte(segs[i].initprot)
  BY DEF SegmentsMapped
<1>1. CASE i = n + 1
  BY <1>1
<1>2. CASE i \in 1..n
  <2>1. n + 1 \in i+1 .. n+1 /\ \A j \in i+1 .. n : j \in i+1 .. n+1
    BY <1>2
  <2>2. TaskSegment(segs[i]) /\ SegmentPages(segs[i]) \subseteq LowPages
    BY <1>2 DEF SegmentsMapped, TaskSegment
  <2>3. ASSUME NEW va \in SegmentPages(segs[i]), \A j \in i+1 .. n+1 : va \notin SegmentPages(segs[j])
        PROVE  /\ pmap_query(N, root, va) # Absent
               /\ pmap_query(N, root, va).flags = prot_to_pte(segs[i].initprot)
    <3>1. va \notin SegmentPages(seg) /\ va \in VPages
      BY <2>1, <2>2, <2>3 DEF LowPages
    <3>2. pmap_query(N, root, va) = pmap_query(M, root, va)
      BY <3>1 DEF ChangedIn
    <3> QED
      BY <1>2, <2>1, <2>3, <3>2 DEF SegmentsMapped
  <2> QED
    BY <2>2, <2>3
<1> QED
  BY <1>1, <1>2

LEMMA BaseKept ==
  ASSUME NEW segs, NEW n \in Nat, NEW base, BaseFound(segs, n, base),
         segs[n+1].vmaddr # 0,
         NEW c, c = IF segs[n+1].fileoff = 0 /\ base = 0 THEN segs[n+1].vmaddr ELSE base
  PROVE  BaseFound(segs, n + 1, c)
<1>1. \A i \in 1 .. n+1 : i \in 1..n \/ i = n + 1
  OBVIOUS
<1>2. n + 1 \in 1 .. n+1 /\ (\A i \in 1..n : i \in 1 .. n+1) /\ 1 .. (n+1)-1 = 1..n
  OBVIOUS
<1>3. CASE base = 0 /\ \A i \in 1..n : segs[i].fileoff # 0
  <2>1. CASE segs[n+1].fileoff = 0
    BY <1>2, <1>3, <2>1 DEF BaseFound
  <2>2. CASE segs[n+1].fileoff # 0
    BY <1>1, <1>3, <2>2 DEF BaseFound
  <2> QED
    BY <2>1, <2>2
<1>4. CASE \E i \in 1..n : /\ segs[i].fileoff = 0 /\ base = segs[i].vmaddr /\ base # 0
                           /\ \A j \in 1..i-1 : segs[j].fileoff # 0
  BY <1>2, <1>4 DEF BaseFound
<1> QED
  BY <1>3, <1>4 DEF BaseFound

LEMMA LoadTurn ==
  ASSUME NEW s, NEW b, NEW x, NEW k, NEW R, NEW root \in R, NEW segs, NEW n \in Nat,
         LoadState(s, b, x, k, R, root, segs, n), WholeSegment(segs[n+1]), NEW m, m # KernelPmap,
         NEW y, y = ParseTurn(x, m, root, segs[n+1])
  PROVE  LoadState(s, b, y, k, R, root, segs, n + 1)
<1> DEFINE seg == segs[n+1]
           X == R \cup {k}
<1>0. /\ x \in Loading /\ (\E Q : Treed(x.s, k, R, Q)) /\ x.s.free \subseteq s.free
      /\ ChangedIn(s.mem, x.s.mem, X, root, LowPages)
      /\ GoesOn(x) => SegmentsMapped(x.s.mem, root, segs, n) /\ BaseFound(segs, n, x.base)
      /\ BytesBut(b, x.bytes, s.free, CopiesOf(segs, n))
  BY DEF LoadState
<1>1. /\ CopiesOf(segs, n) \subseteq CopiesOf(segs, n + 1) /\ CopyRange(seg) \subseteq CopiesOf(segs, n + 1)
      /\ root \in X
  <2>1. n + 1 \in 1 .. n+1 /\ \A i \in 1..n : i \in 1 .. n+1
    OBVIOUS
  <2> QED
    BY <2>1 DEF CopiesOf
<1>2. CASE ~ GoesOn(x)
  <2>1. y = x
    BY <1>2 DEF ParseTurn
  <2> QED
    BY <1>0, <1>1, <1>2, <2>1 DEF LoadState, BytesBut
<1>3. CASE GoesOn(x)
  <2> DEFINE p == IF ValidRange(m, seg.vmaddr, seg.vmsize)
                    THEN PageRange(x.s, root, x.entries, seg.vmaddr, seg.vmsize, seg.initprot)
                    ELSE [s |-> x.s, entries |-> x.entries, ok |-> FALSE]
             P == SegmentPages(seg)
             flags == prot_to_pte(seg.initprot)
  <2>1. y = CopySegment(x, p, root, seg)
    BY <1>3 DEF ParseTurn, LoadSegment
  <2>2. PICK D : Treed(x.s, k, R, D)
    BY <1>0
  <2>3. x.entries = << >> /\ x.s \in Machines
    BY <1>0 DEF Loading
  <2>4. /\ p.entries = << >> /\ p.ok \in BOOLEAN /\ (\E Q : Treed(p.s, k, R, Q)) /\ p.s.free \subseteq x.s.free
        /\ ChangedIn(x.s.mem, p.s.mem, X, root, LowPages)
        /\ p.ok => /\ seg.vmaddr # 0 /\ WholeEntry(Span(seg)) /\ P \subseteq LowPages
                   /\ ChangedIn(x.s.mem, p.s.mem, X, root, P)
                   /\ \A va \in P : /\ pmap_query(p.s.mem, root, va) # Absent
                                    /\ pmap_query(p.s.mem, root, va).flags = flags
    <3>1. CASE ValidRange(m, seg.vmaddr, seg.vmsize)
      <4>1. p = PageRange(x.s, root, << >>, seg.vmaddr, seg.vmsize, seg.initprot)
        BY <2>3, <3>1
      <4> HIDE DEF p, seg
      <4>2. seg.vmaddr # 0 /\ WholeEntry(Span(seg)) /\ P \subseteq LowPages
        BY <3>1, SegmentRange DEF seg
      <4>3. PICK Q : RangeMapped(x.s, p, k, R, Q, root, P, flags)
        BY <2>2, <3>1, <4>1, SegmentMaps DEF seg
      <4> HIDE DEF P, flags
      <4>4. ChangedIn(x.s.mem, p.s.mem, X, root, LowPages)
        BY <4>2, <4>3 DEF RangeMapped, ChangedIn
      <4> QED
        BY <4>2, <4>3, <4>4 DEF RangeMapped
    <3>2. CASE ~ ValidRange(m, seg.vmaddr, seg.vmsize)
      <4>1. p.s = x.s /\ p.entries = << >> /\ p.ok = FALSE
        BY <2>3, <3>2
      <4> HIDE DEF p
      <4> QED
        BY <1>0, <4>1 DEF ChangedIn
    <3> QED
      BY <3>1, <3>2
  <2> HIDE DEF p
  <2>5. CopyMade(x, p, y, seg)
    <3>1. p.s \in Machines
      BY <2>4 DEF Treed
    <3> QED
      BY <1>0, <2>1, <2>4, <3>1, CopyDone
  <2>6. /\ y \in Loading /\ y.s = p.s /\ y.ok = p.ok
        /\ p.ok => y.base = IF seg.fileoff = 0 /\ x.base = 0 THEN seg.vmaddr ELSE x.base
        /\ BytesBut(x.bytes, y.bytes, x.s.free, CopyRange(seg))
    BY <1>3, <2>5 DEF CopyMade, GoesOn
  <2>7. ChangedIn(s.mem, y.s.mem, X, root, LowPages)
    <3>1. ChangedIn(s.mem, y.s.mem, X, root, LowPages \cup LowPages)
      BY <1>0, <2>4, <2>6, ChangedOn
    <3> QED
      BY <3>1
  <2>8. ASSUME GoesOn(y) PROVE SegmentsMapped(y.s.mem, root, segs, n + 1) /\ BaseFound(segs, n + 1, y.base)
    <3>1. p.ok
      BY <2>6, <2>8 DEF GoesOn
    <3>2. SegmentsMapped(y.s.mem, root, segs, n + 1)
      BY <1>0, <1>1, <1>3, <2>4, <2>6, <3>1, MappedOver DEF TaskSegment
    <3>3. BaseFound(segs, n + 1, y.base)
      BY <1>0, <1>3, <2>4, <2>6, <3>1, BaseKept
    <3> QED
      BY <3>2, <3>3
  <2>9. BytesBut(b, y.bytes, s.free, CopiesOf(segs, n + 1))
    <3>1. BytesOf(Frames \ s.free) \subseteq BytesOf(Frames \ x.s.free)
      BY <1>0 DEF BytesOf
    <3> QED
      BY <1>0, <1>1, <2>6, <3>1 DEF BytesBut
  <2>10. (\E Q : Treed(y.s, k, R, Q)) /\ y.s.free \subseteq s.free
    BY <1>0, <2>4, <2>6
  <2> QED
    BY <2>6, <2>7, <2>8, <2>9, <2>10 DEF LoadState
<1> QED
  BY <1>2, <1>3

LEMMA LoadLoop ==
  ASSUME NEW s, NEW b, NEW x, NEW k, NEW R, NEW root \in R, NEW m, m # KernelPmap,
         NEW image, NEW segs, segs = Segments(image), Len(segs) \in Nat,
         \A i \in 1..Len(segs) : WholeSegment(segs[i]),
         LoadState(s, b, x, k, R, root, segs, 0)
  PROVE  LoadState(s, b, macho_parse_segments(x, m, root, image), k, R, root, segs, Len(segs))
<1> DEFINE N == Len(segs)
<1>1. PICK w : ParseRun(x, m, root, segs, N, w) /\ macho_parse_segments(x, m, root, image) = w[N]
  BY ParseDef
<1> DEFINE T == {i \in 0..N : LoadState(s, b, w[i], k, R, root, segs, i)}
<1>2. 0 \in T
  BY <1>1 DEF ParseRun
<1>3. ASSUME NEW i \in 1..N, i - 1 \in T PROVE i \in T
  <2> DEFINE n == i - 1
  <2>1. n \in Nat /\ i \in 0..N /\ n + 1 = i
    OBVIOUS
  <2>2. LoadState(s, b, w[n], k, R, root, segs, n)
    BY <1>3
  <2>3. w[i] = ParseTurn(w[n], m, root, segs[n+1]) /\ WholeSegment(segs[n+1])
    BY <1>1, <2>1 DEF ParseRun
  <2> HIDE DEF n
  <2>4. LoadState(s, b, w[i], k, R, root, segs, n + 1)
    BY <2>1, <2>2, <2>3, LoadTurn
  <2> QED
    BY <2>1, <2>4
<1>4. 0..N \subseteq T
  <2> HIDE DEF T
  <2> QED
    BY <1>2, <1>3, UpInduction
<1>5. N \in 0..N
  OBVIOUS
<1> QED
  BY <1>1, <1>4, <1>5

-----------------------------------------------------------------------------
(* The invariant of ExecSpec when the kernel map alone is given ranges.    *)

\* Addresses are those of kernel_map, the upper half: exec_load() enters
\* nothing in the map of a task.
KernelRanges == \A a \in Starts : a >= Half

\* Every address space has a PML4 of its own.
SpacesOK ==
  /\ pmaps \in [AllPmaps -> PmapRecord]
  /\ pmaps[KernelPmap].root # 0
  /\ \A m, n \in Live : pmaps[m].root = pmaps[n].root => m = n

\* What is known of a task whose last load succeeded.
LoadedOK(m) ==
  LET image == loaded[m].image
      segs  == Segments(image)
  IN  /\ m \in Live /\ image \in Images
      /\ SegmentsMapped(mem, Root(m), segs, Len(segs))
      /\ \E base : BaseFound(segs, Len(segs), base) /\ loaded[m].entry = macho_find_entry(image, base)

ExecInv ==
  /\ MapsInv /\ SpacesOK
  /\ \A m \in Pmaps : maps[m].entries = << >>
  /\ \A e \in KernelEntries : WholeEntry(e)
  /\ \E D : Treed(Machine, Root(KernelPmap), Roots, D)
  /\ bytes \in [PhysBytes -> Int]
  /\ loaded = [m \in Pmaps |-> loaded[m]]
  /\ \A m \in Loaded : LoadedOK(m)

LEMMA ExecFacts ==
  ASSUME ExecInv
  PROVE  /\ KernelPmap \in Live /\ Live \subseteq AllPmaps
         /\ Machine.mem = mem /\ Machine.free = free
         /\ Roots \cup {Root(KernelPmap)} = {Root(m) : m \in Live}
         /\ \A m \in Live \ {KernelPmap} : m \in Pmaps /\ Root(m) \in Roots /\ Root(m) # Root(KernelPmap)
         /\ \A m \in Pmaps : m # KernelPmap
<1>1. KernelPmap \in Live /\ Live \subseteq AllPmaps
  BY DEF ExecInv, SpacesOK, Live, AllPmaps
<1>2. Machine.mem = mem /\ Machine.free = free
  BY DEF Machine
<1>3. Roots \cup {Root(KernelPmap)} = {Root(m) : m \in Live}
  BY <1>1 DEF Roots, Spaces, Root
<1>4. \A m \in Live \ {KernelPmap} : m \in Pmaps /\ Root(m) \in Roots /\ Root(m) # Root(KernelPmap)
  BY <1>1 DEF AllPmaps, Roots, Spaces, Root, ExecInv, SpacesOK
<1>5. \A m \in Pmaps : m # KernelPmap
  BY PmapAssumption
<1> QED
  BY <1>1, <1>2, <1>3, <1>4, <1>5

\* Pages of the lower half stay mapped where other pages change.
LEMMA SegmentsKept ==
  ASSUME NEW M, NEW N, NEW root, NEW segs, NEW n, SegmentsMapped(M, root, segs, n),
         \A va \in LowPages : pmap_query(N, root, va) = pmap_query(M, root, va)
  PROVE  SegmentsMapped(N, root, segs, n)
BY DEF SegmentsMapped, TaskSegment

-----------------------------------------------------------------------------
(* The kernel's calls on its map, beside the address spaces of tasks.      *)

\* A call leaves what tasks have mapped as it was.
KernelKept ==
  /\ UNCHANGED pmaps
  /\ \E s, D : mem' = s.mem /\ free' = s.free /\ Treed(s, Root(KernelPmap), Roots, D)
  /\ \A x \in Roots, va \in LowPages : pmap_query(mem', x, va) = pmap_query(mem, x, va)
  /\ \A m \in Pmaps : maps'[m].entries = << >>
  /\ \A e \in KernelEntries' : WholeEntry(e)

LEMMA SetEntries ==
  ASSUME MapsInv, NEW m \in AllPmaps, NEW l, NEW n, SetMap(m, l, n)
  PROVE  maps'[m].entries = l /\ \A x \in AllPmaps : x # m => maps'[x] = maps[x]
<1> DEFINE r == [entries |-> l, nentries |-> n]
<1>1. maps' = [maps EXCEPT ![m] = r] /\ r.entries = l
  BY DEF SetMap
<1> HIDE DEF r
<1>2. maps \in [AllPmaps -> [entries : Seq(EntryRecord), nentries : Int]]
  BY DEF MapsInv
<1> QED
  BY <1>1, <1>2

\* The entries of the kernel's map are l now, and the page tables of s
\* differ from the old ones in pages of the kernel's.
LEMMA KernelKeeps ==
  ASSUME ExecInv, UNCHANGED pmaps, NEW s, NEW D, mem' = s.mem, free' = s.free,
         Treed(s, Root(KernelPmap), Roots, D),
         NEW P, ChangedIn(mem, s.mem, Roots \cup {Root(KernelPmap)}, Root(KernelPmap), P),
         NEW l, \A e \in EntriesOf(l) : WholeEntry(e),
         maps'[KernelPmap].entries = l, \A m \in Pmaps : maps'[m] = maps[m]
  PROVE  KernelKept
<1>1. \A x \in Roots : x # Root(KernelPmap)
  BY TreeFacts DEF Treed
<1>2. \A x \in Roots, va \in LowPages : pmap_query(mem', x, va) = pmap_query(mem, x, va)
  BY <1>1 DEF ChangedIn, LowPages
<1>3. \A m \in Pmaps : maps'[m].entries = << >>
  BY DEF ExecInv
<1>4. KernelEntries' = EntriesOf(l)
  BY DEF KernelEntries, EntriesOf
<1> QED
  BY <1>2, <1>3, <1>4 DEF KernelKept

LEMMA KernelList ==
  ASSUME ExecInv
  PROVE  /\ KernelPmap \in AllPmaps /\ \A m \in Pmaps : m \in AllPmaps /\ m # KernelPmap
         /\ maps[KernelPmap].entries \in Seq(EntryRecord) /\ Len(maps[KernelPmap].entries) \in Nat
         /\ ListOK(KernelPmap, maps[KernelPmap].entries)
         /\ \A va \in VPages : OwnPage(Root(KernelPmap), Roots, Root(KernelPmap), va)
         /\ \A e \in KernelEntries : \A va \in PagesIn(e) : va \in VPages
<1>1. KernelPmap \in AllPmaps /\ \A m \in Pmaps : m \in AllPmaps /\ m # KernelPmap
  BY PmapAssumption DEF AllPmaps
<1>2. ListOK(KernelPmap, maps[KernelPmap].entries) /\ Len(maps[KernelPmap].entries) \in Nat
  BY <1>1, MapsInvOf DEF ExecInv
<1>3. maps[KernelPmap].entries \in Seq(EntryRecord)
  BY <1>2 DEF ListOK
<1>4. Root(KernelPmap) \notin Roots
  BY TreeFacts DEF ExecInv, Treed
<1>5. \A va \in VPages : OwnPage(Root(KernelPmap), Roots, Root(KernelPmap), va)
  BY <1>4 DEF OwnPage, Copied
<1>6. \A e \in KernelEntries : \A va \in PagesIn(e) : va \in VPages
  BY EntryPages DEF ExecInv
<1> QED
  BY <1>1, <1>2, <1>3, <1>5, <1>6

LEMMA CallRemove ==
  ASSUME ExecInv, WholePages, WholeEntries, NEW m \in AllPmaps, NEW start \in Starts, NEW size \in Sizes,
         vm_map_remove(m, start, size)
  PROVE  KernelKept
<1> DEFINE end == (start + size) % AddressSpace
           ents == maps[m].entries
           k == Root(KernelPmap)
           r == RemoveFrom(Machine, Root(m), ents, start, end)
           P == GonePages(ents, start, end, Len(ents))
<1>1. /\ NoneCut(ents, start, end) /\ UNCHANGED pmaps /\ m \in Live
      /\ ~ r.wraps => /\ mem' = r.s.mem /\ free' = r.s.free
                      /\ SetMap(m, r.entries, maps[m].nentries - (Len(ents) - Len(r.entries)))
  <2> HIDE DEF r
  <2> QED
    BY DEF vm_map_remove, NoneCut, UsesMachine, r
<1>2. start \in Int /\ end \in Int
  BY WholeAddress, WholeEnd
<1>3. PICK D : Treed(Machine, k, Roots, D)
  BY DEF ExecInv
<1>4. Root(m) \in Roots \cup {k} /\ Machine \in Machines /\ Root(m) \in Frames /\ Machine.mem = mem
  <2>1. Root(m) \in Roots \cup {k}
    BY <1>1, ExecFacts
  <2>2. Roots \cup {k} \subseteq Frames
    BY <1>3, TreeFacts DEF Treed
  <2> QED
    BY <1>3, <2>1, <2>2, ExecFacts DEF Treed
<1>5. CASE m \in Pmaps
  <2>1. ents = << >>
    BY <1>5 DEF ExecInv
  <2>2. r.s = Machine /\ r.entries = << >>
    BY <1>2, <1>4, <2>1, NothingRemoved
  <2>3. ~ r.wraps
    <3>1. \A i \in 1..Len(ents) : WholeEntry(ents[i])
      BY <2>1
    <3> HIDE DEF ents, end
    <3> QED
      BY <1>1, <1>2, <3>1, RemoveEnds
  <2> HIDE DEF r, ents
  <2>4. /\ mem' = Machine.mem /\ free' = Machine.free /\ maps'[m].entries = << >>
        /\ \A x \in AllPmaps : x # m => maps'[x] = maps[x]
    BY <1>1, <2>2, <2>3, SetEntries DEF ExecInv
  <2>5. \A x \in Pmaps : maps'[x].entries = << >>
    BY <1>5, <2>4, KernelList DEF ExecInv
  <2>6. KernelEntries' = KernelEntries
    <3>1. maps'[KernelPmap] = maps[KernelPmap]
      BY <1>5, <2>4, KernelList
    <3> QED
      BY <3>1 DEF KernelEntries, EntriesOf
  <2>7. \A e \in KernelEntries' : WholeEntry(e)
    BY <2>6 DEF ExecInv
  <2> QED
    BY <1>1, <1>3, <1>4, <2>4, <2>5, <2>7 DEF KernelKept
<1>6. CASE m = KernelPmap
  <2>1. /\ Len(ents) \in Nat /\ ents \in Seq(EntryRecord) /\ KernelEntries = EntriesOf(ents)
        /\ \A i \in 1..Len(ents) : ents[i] \in KernelEntries
    BY <1>6, KernelList DEF KernelEntries, EntriesOf
  <2>2. \A i \in 1..Len(ents) : /\ WholeEntry(ents[i])
                                /\ \A va \in PagesIn(ents[i]) : OwnPage(k, Roots, k, va)
    BY <2>1, KernelList DEF ExecInv
  <2>3. ~ r.wraps
    BY <1>1, <1>2, <2>2, RemoveEnds
  <2>4. PagesUnmapped(Machine, r.s, k, Roots, D, k, P)
    <3>1. k \in Roots \cup {k} /\ Root(m) = k
      BY <1>6
    <3> HIDE DEF ents, k, end
    <3> QED
      BY <1>1, <1>2, <1>3, <2>1, <2>2, <3>1, RemovedPages
  <2>5. r.entries = Kept(ents, start, end)
    BY RemoveEntries
  <2>6. \A e \in EntriesOf(r.entries) : WholeEntry(e)
    <3>1. EntriesOf(r.entries) = {e \in KernelEntries : ~ Overlaps(e, start, end)}
      BY <2>1, <2>5, KeptContents
    <3> QED
      BY <3>1 DEF ExecInv
  <2> HIDE DEF r, P, ents
  <2>7. maps'[KernelPmap].entries = r.entries /\ \A x \in Pmaps : maps'[x] = maps[x]
    BY <1>1, <1>6, <2>3, KernelList, SetEntries DEF ExecInv
  <2>8. Treed(r.s, k, Roots, D) /\ ChangedIn(mem, r.s.mem, Roots \cup {k}, k, P)
    BY <1>4, <2>4 DEF PagesUnmapped
  <2> QED
    BY <1>1, <2>3, <2>6, <2>7, <2>8, KernelKeeps
<1> QED
  BY <1>5, <1>6 DEF AllPmaps

LEMMA CallEnter ==
  ASSUME ExecInv, WholePages, KernelRanges, NEW m \in AllPmaps, NEW start \in Starts, NEW size \in Sizes,
         NEW prot \in Prots, NEW wired \in BOOLEAN, vm_map_enter(m, start, size, prot, wired)
  PROVE  KernelKept
<1> DEFINE end == (start + size) % AddressSpace
           ents == maps[KernelPmap].entries
           E == KernelEntries
           k == Root(KernelPmap)
           e == [start |-> start, end |-> end, prot |-> prot, wired |-> wired]
           list == Inserted(ents, e)
           flags == prot_to_pte(prot)
           run == MapPages(Machine, k, start, end, flags)
           undo == RemoveFrom(run.s, k, list, start, end)
           n == maps[KernelPmap].nentries + 1
           a == Page(start)
           b == Page(end)
           X == Roots \cup {k}
<1>a. start \in Int /\ end \in Int /\ Half \in Int
  <2>1. start \in Int /\ end \in Int
    BY WholeAddress, WholeEnd
  <2>2. min_offset(KernelPmap) = Half /\ min_offset(KernelPmap) \in Nat
    BY LimitsInside DEF min_offset
  <2> QED
    BY <2>1, <2>2
<1>0. m = KernelPmap
  <2>1. ValidRange(m, start, size) /\ start >= Half
    BY DEF vm_map_enter, KernelRanges
  <2>2. end <= max_offset(m) /\ start <= end
    BY <2>1 DEF ValidRange
  <2> HIDE DEF end
  <2> QED
    BY <1>a, <2>1, <2>2 DEF max_offset
<1>1. /\ ValidRange(KernelPmap, start, size)
      /\ \A i \in 1..Len(ents) : ~ (start < ents[i].end /\ end > ents[i].start)
      /\ KernelPage \notin PagesOf(start, end) /\ UNCHANGED pmaps
      /\ hung' = (wired /\ LoopWraps(start, end))
      /\ IF ~ wired \/ hung'
           THEN SetMap(KernelPmap, list, n) /\ UNCHANGED <<mem, free>>
           ELSE IF run.done = Steps(start, end)
                  THEN SetMap(KernelPmap, list, n) /\ UsesMachine(run.s)
                  ELSE /\ SetMap(KernelPmap, undo.entries, n - (Len(list) - Len(undo.entries)))
                       /\ UsesMachine(undo.s)
  <2> HIDE DEF run, undo, list
  <2> QED
    BY <1>0 DEF vm_map_enter, run, undo, list
<1>2. /\ WholeEntry(e) /\ KernelPage \notin PagesIn(e) /\ e \in EntryRecord /\ InLimits(KernelPmap, e)
      /\ Steps(start, end) = b - a /\ ~ LoopWraps(start, end)
      /\ e.start = start /\ e.end = end /\ e.prot = prot /\ e.wired = wired /\ start < end
  <2> HIDE DEF e, end
  <2>1. end = (start + size) % AddressSpace
        /\ e = [start |-> start, end |-> end, prot |-> prot, wired |-> wired]
    BY DEF e, end
  <2> QED
    BY <1>1, <2>1, NewEntry
<1>3. /\ Len(ents) \in Nat /\ ents \in Seq(EntryRecord) /\ E = EntriesOf(ents)
      /\ \A x \in E : WholeEntry(x)
  BY KernelList DEF KernelEntries, ExecInv
<1>4. undo.entries = Kept(list, start, end)
  BY RemoveEntries
<1>5. PICK D : Treed(Machine, k, Roots, D)
  BY DEF ExecInv
<1>6. k \in X /\ Machine.mem = mem /\ Machine.free = free
  BY ExecFacts
<1>7. \A va \in VPages : OwnPage(k, Roots, k, va)
  BY KernelList
<1>8. hung' = FALSE /\ UNCHANGED pmaps
  BY <1>1, <1>2
<1>9. flags \in SUBSET {"W", "NX"}
  BY ProtFlags
<1> HIDE DEF e, ents, E, k, end, flags
<1>10. /\ list \in Seq(EntryRecord) /\ Len(list) \in Nat /\ EntriesOf(list) = E \cup {e}
       /\ \A x \in E \cup {e} : WholeEntry(x) /\ \A va \in PagesIn(x) : OwnPage(k, Roots, k, va)
  <2>1. ListOK(KernelPmap, list)
    <3>1. ListOK(KernelPmap, ents)
      BY KernelList DEF ents
    <3> QED
      BY <1>1, <1>2, <1>3, <3>1, InsertedListOK
  <2>2. EntriesOf(list) = E \cup {e}
    BY <1>2, <1>3, InsertedContents
  <2>3. \A x \in E \cup {e} : WholeEntry(x)
    BY <1>2, <1>3
  <2>4. \A x \in E \cup {e} : \A va \in PagesIn(x) : OwnPage(k, Roots, k, va)
    BY <1>7, <2>3, EntryPages
  <2> HIDE DEF list
  <2> QED
    BY <2>1, <2>2, <2>3, <2>4 DEF ListOK
<1>11. ASSUME NEW l, NEW j, SetMap(KernelPmap, l, j)
       PROVE  maps'[KernelPmap].entries = l /\ \A x \in Pmaps : maps'[x] = maps[x]
  BY <1>11, KernelList, SetEntries DEF ExecInv
<1>12. CASE ~ wired
  <2>1. SetMap(KernelPmap, list, n) /\ mem' = mem /\ free' = free
    <3> HIDE DEF list, n
    <3> QED
      BY <1>1, <1>12
  <2>2. ChangedIn(mem, Machine.mem, X, k, {})
    BY <1>6 DEF ChangedIn
  <2> HIDE DEF list, n
  <2>3. maps'[KernelPmap].entries = list /\ \A x \in Pmaps : maps'[x] = maps[x]
    BY <1>11, <2>1
  <2> QED
    BY <1>5, <1>6, <1>8, <1>10, <2>1, <2>2, <2>3, KernelKeeps DEF k
<1>13. CASE wired
  <2>1. PagesIn(e) = a .. b-1 /\ Whole(start, end, a, b)
    BY <1>2 DEF PagesIn, WholeEntry
  <2>2. PICK Q : PagesMapped(Machine, run, k, Roots, Q, k, a, b - a, flags)
    <3>1. \A va \in a .. b-1 : OwnPage(k, Roots, k, va)
      BY <1>10, <2>1
    <3> HIDE DEF a, b
    <3> QED
      BY <1>5, <1>6, <1>9, <2>1, <3>1, MapPagesMap
  <2> HIDE DEF a, b, run
  <2>3. Treed(run.s, k, Roots, Q) /\ ChangedIn(mem, run.s.mem, X, k, a .. a + run.done - 1)
    BY <1>6, <2>2 DEF PagesMapped
  <2>4. CASE run.done = Steps(start, end)
    <3>1. SetMap(KernelPmap, list, n) /\ mem' = run.s.mem /\ free' = run.s.free
      <4> HIDE DEF list, n, undo
      <4> QED
        BY <1>1, <1>8, <1>13, <2>4 DEF UsesMachine
    <3> HIDE DEF list, n
    <3>2. maps'[KernelPmap].entries = list /\ \A x \in Pmaps : maps'[x] = maps[x]
      BY <1>11, <3>1
    <3> QED
      BY <1>8, <1>10, <2>3, <3>1, <3>2, KernelKeeps DEF k
  <2>5. CASE run.done # Steps(start, end)
    <3>1. /\ SetMap(KernelPmap, undo.entries, n - (Len(list) - Len(undo.entries)))
          /\ mem' = undo.s.mem /\ free' = undo.s.free
      <4> HIDE DEF list, n, undo
      <4> QED
        BY <1>1, <1>8, <1>13, <2>5 DEF UsesMachine
    <3>2. EntriesOf(undo.entries) \subseteq E \cup {e}
      <4>1. EntriesOf(Kept(list, start, end)) = {x \in E \cup {e} : ~ Overlaps(x, start, end)}
        BY <1>10, KeptContents
      <4> QED
        BY <1>4, <4>1
    <3>3. \E P : PagesUnmapped(run.s, undo.s, k, Roots, Q, k, P)
      <4> HIDE DEF list
      <4>1. \A i \in 1..Len(list) : list[i] \in E \cup {e}
        BY <1>10 DEF EntriesOf
      <4>2. \A i \in 1..Len(list) : /\ WholeEntry(list[i])
                                    /\ \A va \in PagesIn(list[i]) : OwnPage(k, Roots, k, va)
        BY <1>10, <4>1
      <4>3. NoneCut(list, start, end)
        <5>1. ASSUME NEW x \in E PROVE ~ Overlaps(x, start, end)
          <6>1. PICK i \in 1..Len(ents) : x = ents[i]
            BY <1>3 DEF EntriesOf
          <6>2. x.start \in Int /\ x.end \in Int
            BY <1>3 DEF WholeEntry
          <6> QED
            BY <1>1, <1>a, <6>1, <6>2 DEF Overlaps, end
        <5>2. start <= e.start /\ e.end <= end
          BY <1>2, <1>a DEF end
        <5> QED
          BY <4>1, <5>1, <5>2 DEF NoneCut
      <4> QED
        BY <1>6, <1>a, <1>10, <2>3, <4>2, <4>3, RemovedPages DEF end
    <3>4. PICK P : PagesUnmapped(run.s, undo.s, k, Roots, Q, k, P)
      BY <3>3
    <3> HIDE DEF undo, list, n
    <3>5. Treed(undo.s, k, Roots, Q) /\ \E O : ChangedIn(mem, undo.s.mem, X, k, O)
      <4>1. Treed(undo.s, k, Roots, Q) /\ ChangedIn(run.s.mem, undo.s.mem, X, k, P)
        BY <3>4 DEF PagesUnmapped
      <4> HIDE DEF X
      <4>2. ChangedIn(mem, undo.s.mem, X, k, (a .. a + run.done - 1) \cup P)
        BY <2>3, <4>1, ChangedOn
      <4> QED
        BY <4>1, <4>2
    <3>6. maps'[KernelPmap].entries = undo.entries /\ \A x \in Pmaps : maps'[x] = maps[x]
      BY <1>11, <3>1
    <3> QED
      BY <1>8, <1>10, <3>1, <3>2, <3>5, <3>6, KernelKeeps DEF k
  <2> QED
    BY <2>4, <2>5
<1> QED
  BY <1>12, <1>13

LEMMA CallFault ==
  ASSUME ExecInv, WholePages, NEW addr \in Starts, NEW type, vm_fault(addr, type)
  PROVE  KernelKept
<1> DEFINE ents == maps[KernelPmap].entries
           k == Root(KernelPmap)
           va == Page(addr)
           s(p) == MapZeroPage(Machine, k, va, prot_to_pte(p))
<1>1. PICK i \in vm_map_lookup_entry(ents, addr) :
        s(ents[i].prot).got # 0 /\ UsesMachine(s(ents[i].prot))
  BY DEF vm_fault
<1>2. UNCHANGED <<pmaps, maps, hung>>
  BY DEF vm_fault
<1> DEFINE e == ents[i]
           x == s(e.prot)
<1>3. e \in KernelEntries /\ e.start <= addr /\ addr < e.end
  BY <1>1 DEF vm_map_lookup_entry, KernelEntries, EntriesOf
<1>4. mem' = x.mem /\ free' = x.free /\ x.got # 0
  BY <1>1 DEF UsesMachine
<1>5. PICK D : Treed(Machine, k, Roots, D)
  BY DEF ExecInv
<1>6. OwnPage(k, Roots, k, va)
  <2>1. va \in Nat /\ addr = va * PAGE_SIZE
    BY WholeAddress
  <2>2. WholeEntry(e)
    BY <1>3 DEF ExecInv
  <2> HIDE DEF e, va
  <2>3. va \in PagesIn(e)
    BY <1>3, <2>1, <2>2, EntryPages
  <2> QED
    BY <1>3, <2>3, KernelList
<1>7. x = MapZeroPage(Machine, k, va, prot_to_pte(e.prot)) /\ prot_to_pte(e.prot) \in SUBSET {"W", "NX"}
  BY ProtFlags
<1>8. /\ maps'[KernelPmap].entries = ents /\ \A y \in Pmaps : maps'[y] = maps[y]
      /\ Machine.mem = mem /\ \A y \in EntriesOf(ents) : WholeEntry(y)
  BY <1>2, ExecFacts DEF ExecInv, KernelEntries
<1> HIDE DEF e, x, va, k, ents
<1>9. PICK Q : ZeroPaged(Machine, x, k, Roots, Q, k, va, prot_to_pte(e.prot))
  BY <1>5, <1>6, <1>7, ZeroPage
<1>10. Treed(x, k, Roots, Q) /\ ChangedIn(mem, x.mem, Roots \cup {k}, k, {va})
  BY <1>4, <1>8, <1>9 DEF ZeroPaged
<1> QED
  BY <1>2, <1>4, <1>8, <1>10, KernelKeeps DEF k

LEMMA CallsKeep ==
  ASSUME WholePages, WholeEntries, KernelRanges, ExecInv, VmNext
  PROVE  KernelKept /\ MapsInv'
<1>1. MapsInv'
  BY MapsStep DEF ExecInv, VmTaskNext
<1> QED
  BY <1>1, CallRemove, CallEnter, CallFault DEF VmNext

-----------------------------------------------------------------------------
(* Steps of ExecSpec.                                                      *)

\* Task m has a program in address space root with memory M.
LoadedIn(l, M, root) ==
  LET segs == Segments(l.image)
  IN  /\ l.image \in Images
      /\ SegmentsMapped(M, root, segs, Len(segs))
      /\ \E base : BaseFound(segs, Len(segs), base) /\ l.entry = macho_find_entry(l.image, base)

LEMMA LoadedNow ==
  ASSUME NEW m
  PROVE  /\ LoadedOK(m) <=> m \in Live /\ LoadedIn(loaded[m], mem, Root(m))
         /\ LoadedOK(m)' <=> m \in Live' /\ LoadedIn(loaded'[m], mem', Root(m)')
BY DEF LoadedOK, LoadedIn

LEMMA TreedNow ==
  ASSUME NEW s, mem' = s.mem, free' = s.free, NEW k, NEW R, NEW D, Treed(s, k, R, D),
         k = Root(KernelPmap)', R = Roots'
  PROVE  \E Q : Treed(Machine, Root(KernelPmap), Roots, Q)'
<1>1. s \in Machines /\ \E lev : Tree(s.mem, s.free, lev, k, R, D)
  BY DEF Treed
<1>2. Machine' \in Machines /\ Machine'.mem = s.mem /\ Machine'.free = s.free
  BY <1>1 DEF Machine, Machines
<1>3. Treed(Machine', k, R, D)
  BY <1>1, <1>2 DEF Treed
<1> QED
  BY <1>3

LEMMA ExecKept ==
  ASSUME ExecInv, KernelKept, MapsInv', bytes' \in [PhysBytes -> Int], UNCHANGED loaded
  PROVE  ExecInv'
<1>1. Live' = Live /\ Roots' = Roots /\ \A m : Root(m)' = Root(m)
  BY DEF KernelKept, Live, Roots, Spaces, Root
<1>2. SpacesOK'
  BY <1>1 DEF ExecInv, KernelKept, SpacesOK
<1>3. \E D : Treed(Machine, Root(KernelPmap), Roots, D)'
  BY <1>1, TreedNow DEF KernelKept
<1>4. ASSUME NEW m \in Loaded' PROVE LoadedOK(m)'
  <2>1. m \in Loaded /\ LoadedOK(m) /\ m \in Pmaps
    BY <1>4 DEF Loaded, ExecInv
  <2>2. m \in Live /\ LoadedIn(loaded[m], mem, Root(m))
    BY <2>1, LoadedNow
  <2>3. \A va \in LowPages : pmap_query(mem', Root(m), va) = pmap_query(mem, Root(m), va)
    BY <2>1, <2>2, ExecFacts DEF KernelKept
  <2>4. LoadedIn(loaded[m], mem', Root(m))
    BY <2>2, <2>3, SegmentsKept DEF LoadedIn
  <2> QED
    BY <1>1, <2>2, <2>4, LoadedNow
<1>5. (\A m \in Pmaps : maps'[m].entries = << >>) /\ \A e \in KernelEntries' : WholeEntry(e)
  BY DEF KernelKept
<1>6. loaded' = [m \in Pmaps |-> loaded'[m]]
  BY DEF ExecInv
<1> QED
  BY <1>2, <1>3, <1>4, <1>5, <1>6 DEF ExecInv

LEMMA KernelCallsStep ==
  ASSUME WholePages, WholeEntries, KernelRanges, ExecInv, KernelMapCalls
  PROVE  ExecInv' /\ KernelKept /\ BytesAlike(bytes, bytes', free)
<1>1. VmNext /\ bytes' = Taken(bytes, free \ free') /\ UNCHANGED <<loaded, stopped>>
  BY DEF KernelMapCalls
<1>2. KernelKept /\ MapsInv'
  BY <1>1, CallsKeep
<1>3. bytes' \in [PhysBytes -> Int] /\ BytesAlike(bytes, bytes', free)
  BY <1>1, TakenBytes DEF ExecInv
<1> QED
  BY <1>1, <1>2, <1>3, ExecKept

LEMMA ExecStutter ==
  ASSUME ExecInv, UNCHANGED <<vmVars, execVars>>
  PROVE  ExecInv'
<1>1. UNCHANGED <<mem, free, pmaps, maps, bytes, loaded>>
  BY DEF vmVars, pmapVars, execVars
<1>2. KernelKept
  <2>1. PICK D : Treed(Machine, Root(KernelPmap), Roots, D)
    BY DEF ExecInv
  <2>2. KernelEntries' = KernelEntries
    BY <1>1 DEF KernelEntries, EntriesOf
  <2> QED
    BY <1>1, <2>1, <2>2, ExecFacts DEF KernelKept, ExecInv
<1>3. MapsInv'
  BY <1>1 DEF ExecInv, MapsInv, ListOK, InLimits, Ordered, min_offset, max_offset
<1> QED
  BY <1>1, <1>2, <1>3, ExecKept DEF ExecInv

\* The address space that exec_load() loads into.
SpaceReady(m, sp, D) ==
  /\ Treed(sp.s, Root(KernelPmap), Roots \cup {sp.root}, D) /\ sp.s.free \subseteq free
  /\ sp.root \in Frames /\ sp.frame \in Frames \cup {0} /\ sp.root # Root(KernelPmap)
  /\ ChangedIn(mem, sp.s.mem, Roots \cup {Root(KernelPmap)}, sp.root, {})
  /\ \A x \in Live \ {m} : Root(x) # sp.root
  /\ m \in Live => Root(m) = sp.root

LEMMA SpaceFor ==
  ASSUME ExecInv, NEW m \in Pmaps, NEW sp, sp = Space(m), sp.root # 0
  PROVE  \E D : SpaceReady(m, sp, D)
<1> DEFINE k == Root(KernelPmap)
<1>1. PICK D : Treed(Machine, k, Roots, D)
  BY DEF ExecInv
<1>2. Machine \in Machines /\ Machine.mem = mem /\ Machine.free = free
  BY <1>1, ExecFacts DEF Treed
<1>3. CASE m \in Live
  <2>1. sp = [s |-> Machine, root |-> Root(m), frame |-> pmaps[m].frame]
    BY <1>3 DEF Space
  <2>2. sp.s = Machine /\ sp.root = Root(m) /\ sp.frame = pmaps[m].frame
    BY <2>1
  <2>3. Root(m) \in Roots /\ Root(m) # k
    BY <1>3, ExecFacts
  <2>4. Roots \cup {Root(m)} = Roots /\ Root(m) \in Frames
    BY <1>1, <2>3, TreeFacts DEF Treed
  <2>5. sp.frame \in Frames \cup {0}
    <3>1. pmaps[m] \in PmapRecord
      BY DEF ExecInv, SpacesOK, AllPmaps
    <3> QED
      BY <2>2, <3>1 DEF PmapRecord
  <2>6. ChangedIn(mem, sp.s.mem, Roots \cup {k}, sp.root, {})
    BY <1>2, <2>2 DEF ChangedIn
  <2>7. \A x \in Live \ {m} : Root(x) # sp.root
    BY <1>3, <2>2 DEF ExecInv, SpacesOK, Root
  <2> QED
    BY <1>1, <1>2, <2>2, <2>3, <2>4, <2>5, <2>6, <2>7 DEF SpaceReady
<1>4. CASE m \notin Live
  <2>1. sp = NewSpace(Machine) /\ k = pmaps[KernelPmap].root
    BY <1>4 DEF Space, Root
  <2>2. PICK lev : Tree(Machine.mem, Machine.free, lev, k, Roots, D)
    BY <1>1 DEF Treed
  <2>3. PICK v : SpaceBegun(Machine, sp, v, k, Roots, D)
    <3> HIDE DEF k
    <3> QED
      BY <1>2, <2>1, <2>2, SpaceMade
  <2>4. /\ sp.s \in Machines /\ Tree(sp.s.mem, sp.s.free, v, k, Roots \cup {sp.root}, D \cup {sp.frame})
        /\ sp.root \in free /\ sp.frame \in free /\ sp.s.free \subseteq free
        /\ SeenAlike(mem, sp.s.mem, Roots \cup {k})
    BY <1>2, <2>3 DEF SpaceBegun
  <2>5. free \subseteq Frames /\ Roots \cup {k} \subseteq Frames \ free
    BY <1>2, <2>2, TreeFacts
  <2>6. ChangedIn(mem, sp.s.mem, Roots \cup {k}, sp.root, {})
    BY <2>4, PageNumbers DEF SeenAlike, ChangedIn
  <2>7. \A x \in Live : Root(x) # sp.root
    BY <2>4, <2>5, ExecFacts
  <2>8. Treed(sp.s, k, Roots \cup {sp.root}, D \cup {sp.frame})
    BY <2>4 DEF Treed
  <2> QED
    BY <1>4, <2>4, <2>5, <2>6, <2>7, <2>8 DEF SpaceReady
<1> QED
  BY <1>3, <1>4

\* What exec_load() leaves behind for the other address spaces.
LoadSeen(m, image) ==
  /\ \A x \in Live \ {m}, va \in VPages :
       Within(x, va) => pmap_query(mem', Root(x), va) = pmap_query(mem, Root(x), va)
  /\ BytesBut(bytes, bytes', free, CopyRanges(image))

\* The address space of m is root now; all others are as they were.
LEMMA SpacesNow ==
  ASSUME ExecInv, NEW m \in Pmaps, NEW sp, NEW D, SpaceReady(m, sp, D),
         pmaps' = [pmaps EXCEPT ![m] = [root |-> sp.root, refs |-> 1, frame |-> sp.frame]]
  PROVE  /\ SpacesOK' /\ Live' = Live \cup {m} /\ Root(m)' = sp.root
         /\ \A x \in Live \ {m} : x \in AllPmaps /\ Root(x)' = Root(x)
         /\ Roots' = Roots \cup {sp.root} /\ Root(KernelPmap)' = Root(KernelPmap)
<1> DEFINE new == [root |-> sp.root, refs |-> 1, frame |-> sp.frame]
<1>1. /\ sp.root \in Frames /\ sp.frame \in Frames \cup {0} /\ sp.root # Root(KernelPmap)
      /\ \A x \in Live \ {m} : Root(x) # sp.root
      /\ m \in Live => Root(m) = sp.root
  BY DEF SpaceReady
<1>2. new \in PmapRecord /\ new.root = sp.root /\ sp.root # 0
  BY <1>1, Halves, PmapAssumption DEF PmapRecord
<1>3. pmaps \in [AllPmaps -> PmapRecord] /\ pmaps' = [pmaps EXCEPT ![m] = new] /\ m \in AllPmaps
  BY DEF ExecInv, SpacesOK, AllPmaps
<1> HIDE DEF new
<1>4. /\ pmaps' \in [AllPmaps -> PmapRecord] /\ pmaps'[m] = new
      /\ \A x \in AllPmaps : x # m => pmaps'[x] = pmaps[x]
  BY <1>2, <1>3
<1>5. m # KernelPmap /\ KernelPmap \in Live /\ KernelPmap \in AllPmaps
  BY ExecFacts DEF AllPmaps
<1>6. Live' = Live \cup {m}
  BY <1>2, <1>3, <1>4 DEF Live
<1>7. \A x \in Live \ {m} : x \in AllPmaps /\ Root(x)' = Root(x)
  BY <1>4 DEF Live, Root
<1>8. Root(m)' = sp.root /\ Root(KernelPmap)' = Root(KernelPmap)
  BY <1>2, <1>4, <1>5, <1>7 DEF Root
<1>9. Roots' = Roots \cup {sp.root}
  <2>1. Roots' = {Root(x)' : x \in (Live \cup {m}) \ {KernelPmap}} /\ Roots = {Root(x) : x \in Live \ {KernelPmap}}
    BY <1>6 DEF Roots, Spaces, Root
  <2> QED
    BY <1>1, <1>5, <1>7, <1>8, <2>1
<1>10. SpacesOK'
  <2>1. pmaps'[KernelPmap].root # 0
    BY <1>4, <1>5 DEF ExecInv, SpacesOK
  <2>2. \A x, y \in Live : pmaps[x].root = pmaps[y].root => x = y
    BY DEF ExecInv, SpacesOK
  <2>3. ASSUME NEW x \in Live', NEW y \in Live', pmaps'[x].root = pmaps'[y].root PROVE x = y
    BY <1>1, <1>6, <1>7, <1>8, <2>2, <2>3 DEF Root
  <2> QED
    BY <1>4, <2>1, <2>3 DEF SpacesOK
<1> QED
  BY <1>6, <1>7, <1>8, <1>9, <1>10

LEMMA LoadStep ==
  ASSUME WholeImages, ExecInv, NEW m \in Pmaps, NEW image \in Images, exec_load(m, image)
  PROVE  ExecInv' /\ LoadSeen(m, image)
<1> DEFINE k == Root(KernelPmap)
           segs == Segments(image)
           N == Len(segs)
<1>1. PICK sp : /\ sp = Space(m) /\ sp.root # 0
                /\ \E r \in {macho_load(sp, m, image)} :
                    /\ UsesMachine(r.s)
                    /\ pmaps' = [pmaps EXCEPT ![m] = [root |-> sp.root, refs |-> 1, frame |-> sp.frame]]
                    /\ SetMap(m, r.entries, Len(r.entries))
                    /\ bytes' = r.bytes /\ stopped' = r.stopped
                    /\ loaded' = [loaded EXCEPT ![m] =
                                    IF r.ok /\ r.stopped = "no"
                                      THEN [image |-> image, entry |-> macho_find_entry(image, r.base)]
                                      ELSE None]
  BY DEF exec_load
<1> DEFINE b0 == Taken(bytes, free \ sp.s.free)
           r0 == [ s |-> sp.s, entries |-> maps[m].entries, base |-> 0, stopped |-> "no",
                   ok |-> image.size >= image.header /\ macho_validate(image), bytes |-> b0 ]
           r == macho_parse_segments(r0, m, sp.root, image)
           R == Roots \cup {sp.root}
           X == R \cup {k}
<1>2. /\ mem' = r.s.mem /\ free' = r.s.free /\ bytes' = r.bytes /\ stopped' = r.stopped
      /\ pmaps' = [pmaps EXCEPT ![m] = [root |-> sp.root, refs |-> 1, frame |-> sp.frame]]
      /\ SetMap(m, r.entries, Len(r.entries))
      /\ loaded' = [loaded EXCEPT ![m] =
                      IF GoesOn(r)
                        THEN [image |-> image, entry |-> macho_find_entry(image, r.base)]
                        ELSE None]
  <2>1. macho_load(sp, m, image) = r
    BY DEF macho_load
  <2> HIDE DEF r
  <2> QED
    BY <1>1, <2>1 DEF UsesMachine, GoesOn
<1>3. PICK D : SpaceReady(m, sp, D)
  BY <1>1, SpaceFor
<1>4. /\ Treed(sp.s, k, R, D) /\ sp.s.free \subseteq free /\ sp.root # k
      /\ ChangedIn(mem, sp.s.mem, Roots \cup {k}, sp.root, {})
      /\ \A x \in Live \ {m} : Root(x) # sp.root
  BY <1>3 DEF SpaceReady
<1>5. /\ SpacesOK' /\ Live' = Live \cup {m} /\ Root(m)' = sp.root
      /\ \A x \in Live \ {m} : x \in AllPmaps /\ Root(x)' = Root(x)
      /\ Roots' = R /\ Root(KernelPmap)' = k
  BY <1>2, <1>3, SpacesNow
<1>6. maps[m].entries = << >> /\ bytes \in [PhysBytes -> Int] /\ m # KernelPmap /\ m \in AllPmaps
  BY ExecFacts DEF ExecInv, AllPmaps
<1>7. b0 \in [PhysBytes -> Int] /\ BytesAlike(bytes, b0, free)
  BY <1>6, TakenBytes
<1> HIDE DEF b0
<1>8. LoadState(sp.s, b0, r0, k, R, sp.root, segs, 0)
  <2>0. (image.size >= image.header /\ macho_validate(image)) \in BOOLEAN
    OBVIOUS
  <2>1. r0 \in Loading
    BY <1>4, <1>6, <1>7, <2>0 DEF Loading, Treed
  <2>2. r0.s = sp.s /\ r0.base = 0 /\ r0.bytes = b0 /\ r0.stopped = "no"
    OBVIOUS
  <2> HIDE DEF r0
  <2>3. ChangedIn(sp.s.mem, sp.s.mem, X, sp.root, LowPages) /\ BytesBut(b0, b0, sp.s.free, CopiesOf(segs, 0))
    BY DEF ChangedIn, BytesBut
  <2>4. SegmentsMapped(sp.s.mem, sp.root, segs, 0) /\ BaseFound(segs, 0, 0)
    BY DEF SegmentsMapped, BaseFound
  <2> QED
    BY <1>4, <2>1, <2>2, <2>3, <2>4 DEF LoadState
<1>9. N \in Nat /\ \A i \in 1..N : WholeSegment(segs[i])
  BY DEF WholeImages
<1> HIDE DEF r0
<1>10. LoadState(sp.s, b0, r, k, R, sp.root, segs, N)
  <2>1. sp.root \in R /\ segs = Segments(image)
    OBVIOUS
  <2> HIDE DEF k, R, segs
  <2> QED
    BY <1>6, <1>8, <1>9, <2>1, LoadLoop
<1> HIDE DEF r
<1>11. PICK Q : Treed(r.s, k, R, Q)
  BY <1>10 DEF LoadState
<1>12. /\ r \in Loading /\ r.s.free \subseteq sp.s.free /\ ChangedIn(sp.s.mem, r.s.mem, X, sp.root, LowPages)
       /\ GoesOn(r) => SegmentsMapped(r.s.mem, sp.root, segs, N) /\ BaseFound(segs, N, r.base)
       /\ BytesBut(b0, r.bytes, sp.s.free, CopiesOf(segs, N))
  BY <1>10 DEF LoadState
<1>13. r.entries = << >> /\ r.bytes \in [PhysBytes -> Int]
  BY <1>12 DEF Loading
<1>14. MapsInv' /\ \A x \in AllPmaps : maps'[x].entries = IF x = m THEN << >> ELSE maps[x].entries
  <2>1. MapsInv'
    BY <1>2, <1>6, <1>13, EmptyListOK, SetMapOK DEF ExecInv
  <2> QED
    BY <1>2, <1>6, <1>13, <2>1, SetEntries DEF ExecInv
<1>15. (\A x \in Pmaps : maps'[x].entries = << >>) /\ \A e \in KernelEntries' : WholeEntry(e)
  <2>1. \A x \in Pmaps : maps'[x].entries = << >>
    BY <1>14 DEF ExecInv, AllPmaps
  <2>2. maps'[KernelPmap].entries = maps[KernelPmap].entries
    BY <1>6, <1>14 DEF AllPmaps
  <2>3. KernelEntries' = KernelEntries
    BY <2>2 DEF KernelEntries, EntriesOf
  <2> QED
    BY <2>1, <2>3 DEF ExecInv
<1>16. \E E : Treed(Machine, Root(KernelPmap), Roots, E)'
  <2> HIDE DEF k, R
  <2> QED
    BY <1>2, <1>5, <1>11, TreedNow
<1>17. ASSUME NEW x \in Live \ {m}, NEW va \in VPages, x = KernelPmap => InKernelHalf(va),
              x # KernelPmap => ~ InKernelHalf(va)
       PROVE  pmap_query(mem', Root(x), va) = pmap_query(mem, Root(x), va)
  <2>1. Root(x) \in Roots \cup {k} /\ Root(x) # sp.root
    BY <1>4, ExecFacts
  <2>2. pmap_query(sp.s.mem, Root(x), va) = pmap_query(mem, Root(x), va)
    BY <1>4, <2>1 DEF ChangedIn
  <2>3. pmap_query(r.s.mem, Root(x), va) = pmap_query(sp.s.mem, Root(x), va)
    BY <1>12, <1>17, <2>1 DEF ChangedIn, LowPages
  <2> QED
    BY <1>2, <2>2, <2>3
<1>18. /\ \A x \in Pmaps \ {m} : loaded'[x] = loaded[x]
       /\ loaded'[m] = IF GoesOn(r) THEN [image |-> image, entry |-> macho_find_entry(image, r.base)] ELSE None
       /\ loaded' = [x \in Pmaps |-> loaded'[x]]
  <2>1. DOMAIN loaded = Pmaps /\ loaded = [x \in Pmaps |-> loaded[x]]
    BY DEF ExecInv
  <2> QED
    BY <1>2, <2>1
<1>19. ASSUME NEW x \in Loaded' PROVE LoadedOK(x)'
  <2>1. CASE x = m
    <3>1. GoesOn(r) /\ loaded'[m] = [image |-> image, entry |-> macho_find_entry(image, r.base)]
      BY <1>18, <1>19, <2>1 DEF Loaded
    <3>2. loaded'[m].image = image /\ loaded'[m].entry = macho_find_entry(image, r.base)
      BY <3>1
    <3>3. LoadedIn(loaded'[m], mem', sp.root)
      BY <1>2, <1>12, <3>1, <3>2 DEF LoadedIn
    <3> QED
      BY <1>5, <2>1, <3>3, LoadedNow
  <2>2. CASE x # m
    <3>1. x \in Loaded /\ x \in Pmaps /\ loaded'[x] = loaded[x]
      BY <1>18, <1>19, <2>2 DEF Loaded
    <3>2. x \in Live /\ LoadedIn(loaded[x], mem, Root(x))
      BY <3>1, LoadedNow DEF ExecInv
    <3>3. \A va \in LowPages : pmap_query(mem', Root(x), va) = pmap_query(mem, Root(x), va)
      BY <1>17, <2>2, <3>1, <3>2, ExecFacts DEF LowPages
    <3>4. LoadedIn(loaded[x], mem', Root(x))
      BY <3>2, <3>3, SegmentsKept DEF LoadedIn
    <3> QED
      BY <1>5, <2>2, <3>1, <3>2, <3>4, LoadedNow
  <2> QED
    BY <2>1, <2>2
<1>20. ExecInv'
  BY <1>2, <1>5, <1>13, <1>14, <1>15, <1>16, <1>18, <1>19 DEF ExecInv
<1>21. LoadSeen(m, image)
  <2>1. \A x \in Live \ {m}, va \in VPages :
          Within(x, va) => pmap_query(mem', Root(x), va) = pmap_query(mem, Root(x), va)
    BY <1>17 DEF Within
  <2>2. BytesBut(bytes, bytes', free, CopyRanges(image))
    <3>1. CopiesOf(segs, N) = CopyRanges(image)
      BY DEF CopiesOf, CopyRanges
    <3>2. BytesOf(Frames \ free) \subseteq BytesOf(Frames \ sp.s.free)
      BY <1>4 DEF BytesOf
    <3> QED
      BY <1>2, <1>7, <1>12, <3>1, <3>2 DEF BytesAlike, BytesBut
  <2> QED
    BY <2>1, <2>2 DEF LoadSeen
<1> QED
  BY <1>20, <1>21

LEMMA ExecBegins ==
  ASSUME ExecInit PROVE ExecInv
<1>1. VmInv
  BY VmBegins DEF ExecInit
<1>2. SpacesOK
  BY <1>1 DEF VmInv, PmapInv, PmapsOK, SpacesOK
<1>3. \A m \in AllPmaps : maps[m].entries = << >>
  BY DEF ExecInit, VmInit
<1>4. \A m \in Pmaps : m \in AllPmaps /\ maps[m].entries = << >>
  BY <1>3 DEF AllPmaps
<1>5. Treed(Machine, Root(KernelPmap), Roots, {})
  BY <1>1, VmFacts DEF VmInv, Follows
<1>6. \A e \in KernelEntries : WholeEntry(e)
  BY <1>1 DEF VmInv, EntrySet
<1>7. bytes \in [PhysBytes -> Int] /\ loaded = [m \in Pmaps |-> loaded[m]] /\ Loaded = {}
  BY DEF ExecInit, Stale, Loaded
<1> QED
  BY <1>1, <1>2, <1>4, <1>5, <1>6, <1>7 DEF ExecInv, VmInv

\* Without a map the new address space goes, and nothing else is touched but
\* the tables it shares; the machine is not followed beyond that.
LEMMA NoMapStep ==
  ASSUME ExecInv, NEW m \in Pmaps, exec_load_no_map(m)
  PROVE  /\ stopped' = "released" /\ BytesAlike(bytes, bytes', free)
         /\ \A x \in Live \ {m}, va \in VPages :
              Within(x, va) => pmap_query(mem', Root(x), va) = pmap_query(mem, Root(x), va)
<1> DEFINE sp == Space(m)
           k == Root(KernelPmap)
<1>1. /\ m \notin Live /\ sp.root # 0 /\ mem' = sp.s.mem
      /\ bytes' = Taken(bytes, free \ sp.s.free) /\ stopped' = "released"
  BY DEF exec_load_no_map
<1>2. PICK D : SpaceReady(m, sp, D)
  BY <1>1, SpaceFor
<1> HIDE DEF sp
<1>3. BytesAlike(bytes, bytes', free)
  BY <1>1, TakenBytes DEF ExecInv
<1>4. ASSUME NEW x \in Live \ {m}, NEW va \in VPages
      PROVE  pmap_query(mem', Root(x), va) = pmap_query(mem, Root(x), va)
  <2>1. Root(x) \in Roots \cup {k} /\ Root(x) # sp.root
    BY <1>2, ExecFacts DEF SpaceReady
  <2> QED
    BY <1>1, <1>2, <2>1 DEF SpaceReady, ChangedIn
<1> QED
  BY <1>1, <1>3, <1>4

\* The invariant, for as long as the machine is followed.
ExecHolds == stopped = "released" \/ ExecInv

LEMMA ExecStep ==
  ASSUME WholePages, WholeEntries, KernelRanges, WholeImages, ExecHolds, [ExecNext]_<<vmVars, execVars>>
  PROVE  ExecHolds'
<1>1. CASE ExecNext
  <2>1. ExecInv
    BY <1>1 DEF ExecHolds, ExecNext
  <2>2. ASSUME NEW m \in Pmaps, NEW image \in Images, exec_load(m, image) PROVE ExecInv'
    BY <2>1, <2>2, LoadStep
  <2>3. ASSUME NEW m \in Pmaps, exec_load_no_map(m) PROVE stopped' = "released"
    BY <2>3 DEF exec_load_no_map
  <2>4. CASE KernelMapCalls
    BY <2>1, <2>4, KernelCallsStep DEF ExecHolds
  <2> QED
    BY <1>1, <2>2, <2>3, <2>4 DEF ExecNext, ExecHolds
<1>2. CASE UNCHANGED <<vmVars, execVars>>
  <2>1. CASE stopped = "released"
    BY <1>2, <2>1 DEF ExecHolds, execVars
  <2>2. CASE ExecInv
    BY <1>2, <2>2, ExecStutter DEF ExecHolds
  <2> QED
    BY <2>1, <2>2 DEF ExecHolds
<1> QED
  BY <1>1, <1>2

LEMMA ExecAlways ==
  ASSUME WholePages, WholeEntries, KernelRanges, WholeImages
  PROVE  ExecSpec => []ExecHolds
<1>1. ExecInit => ExecHolds
  BY ExecBegins DEF ExecHolds
<1>2. ExecHolds /\ [ExecNext]_<<vmVars, execVars>> => ExecHolds'
  BY ExecStep
<1> QED
  BY <1>1, <1>2, PTL DEF ExecSpec

-----------------------------------------------------------------------------
(* What the invariant says of programs.                                    *)

LEMMA LastOf ==
  ASSUME NEW N \in Nat, NEW S \in SUBSET (1..N), S # {}
  PROVE  Max(S) \in S /\ \A y \in S : y <= Max(S)
<1> DEFINE U == {N - s : s \in S}
<1>0. \A s \in S : s \in Int /\ N - s \in Nat
  <2> TAKE s \in S
  <2>1. s \in 1..N
    OBVIOUS
  <2> QED
    BY <2>1
<1>1. U \in SUBSET Nat /\ U # {}
  BY <1>0
<1>2. PICK u \in U : \A y \in U : u <= y
  <2> HIDE DEF U
  <2> QED
    BY <1>1, LeastNatural
<1>3. PICK x \in S : u = N - x
  BY <1>2
<1>4. \A y \in S : x >= y
  <2> TAKE y \in S
  <2>1. N - x <= N - y /\ x \in Int /\ y \in Int
    BY <1>0, <1>2, <1>3
  <2> QED
    BY <2>1
<1>5. Max(S) \in S /\ \A y \in S : Max(S) >= y
  BY <1>4 DEF Max
<1>6. Max(S) \in Int /\ \A y \in S : y \in Int
  BY <1>0, <1>5
<1> QED
  BY <1>5, <1>6

\* A frame that is mapped somewhere is in use.
LEMMA MappedInUse ==
  ASSUME NEW s, NEW k, NEW R, NEW D, Treed(s, k, R, D), NEW r \in R \cup {k}, NEW va \in VPages,
         NEW e, e = pmap_query(s.mem, r, va)
  PROVE  /\ e.frame # 0 => e.frame \in Frames \ s.free
         /\ e # Absent => e.frame # 0
<1>1. PICK lev : Tree(s.mem, s.free, lev, k, R, D)
  BY DEF Treed
<1>2. s.mem \in Memory /\ r \in Frames /\ va \in Nat /\ LinksDown(s.mem, s.free, lev, D)
  BY <1>1, TreeFacts, PageNumbers
<1>3. PICK w : WalkRun(s.mem, r, va, w) /\ pmap_walk(s.mem, r, va) = w[1]
  BY <1>2, WalkDef
<1>4. 1 \in 1..LEVELS
  BY Halves
<1>5. w[1] # 0 => w[1] \in Frames \ s.free
  BY <1>1, <1>2, <1>3, <1>4, WalkLevels
<1>6. e = IF w[1] = 0 THEN Absent ELSE s.mem[w[1]][Idx(1, va)]
  BY <1>3 DEF pmap_query
<1>7. Idx(1, va) \in Indices /\ e \in Entry
  BY <1>2, <1>4, IdxType, QueryType
<1>8. e.frame # 0 => e.frame \in Frames \ s.free
  BY <1>2, <1>5, <1>6, <1>7, ZeroedFacts DEF LinksDown
<1>9. e # Absent => e.frame # 0
  BY <1>7 DEF Entry
<1> QED
  BY <1>8, <1>9

\* The last segment over a page of a loaded program, if there is one.
LEMMA LastSegment ==
  ASSUME WholeImages, ExecInv, NEW m \in Loaded, NEW va \in VPages,
         NEW segs, segs = Segments(loaded[m].image)
  PROVE  /\ \A seg \in SegmentAt(m, va) :
              /\ \E i \in 1..Len(segs) : seg = segs[i] /\ va \in SegmentPages(seg)
              /\ Translate(mem, m, va).frame # 0
              /\ Translate(mem, m, va).flags = prot_to_pte(seg.initprot)
         /\ (\E i \in 1..Len(segs) : va \in SegmentPages(segs[i])) => SegmentAt(m, va) # {}
<1> DEFINE N == Len(segs)
           over == {i \in 1..N : va \in SegmentPages(segs[i])}
<1>1. LoadedOK(m) /\ m \in Pmaps
  BY DEF ExecInv, Loaded
<1>2. m \in Live /\ SegmentsMapped(mem, Root(m), segs, N) /\ loaded[m].image \in Images
  BY <1>1 DEF LoadedOK
<1>3. N \in Nat
  BY <1>2 DEF WholeImages
<1>4. \A i \in 1..N : /\ WholeEntry(Span(segs[i]))
                      /\ Span(segs[i]).start = segs[i].vmaddr
                      /\ Span(segs[i]).end = segs[i].vmaddr + segs[i].vmsize
  BY <1>2 DEF SegmentsMapped, TaskSegment, Span
<1>5. \A i \in 1..N : va \in SegmentPages(segs[i]) <=>
        segs[i].vmaddr < (va + 1) * PAGE_SIZE /\ va * PAGE_SIZE < segs[i].vmaddr + segs[i].vmsize
  <2> TAKE i \in 1..N
  <2>1. va \in Nat
    BY PageNumbers
  <2>2. Covers(Span(segs[i]), va) <=> va \in PagesIn(Span(segs[i]))
    BY <1>4, <2>1, EntryPages
  <2> QED
    BY <1>4, <2>2 DEF Covers, SegmentPages
<1>6. SegmentAt(m, va) = IF over = {} THEN {} ELSE {segs[Max(over)]}
  <2>1. over = {i \in 1..N : /\ segs[i].vmaddr < (va + 1) * PAGE_SIZE
                             /\ va * PAGE_SIZE < segs[i].vmaddr + segs[i].vmsize}
    BY <1>5
  <2> HIDE DEF over
  <2> QED
    BY <2>1 DEF SegmentAt
<1>7. ASSUME NEW seg \in SegmentAt(m, va)
      PROVE  /\ \E i \in 1..N : seg = segs[i] /\ va \in SegmentPages(seg)
             /\ Translate(mem, m, va).frame # 0
             /\ Translate(mem, m, va).flags = prot_to_pte(seg.initprot)
  <2> DEFINE j == Max(over)
  <2>1. over # {} /\ seg = segs[j]
    BY <1>6, <1>7
  <2>2. j \in over /\ \A y \in over : y <= j
    <3>1. over \in SUBSET (1..N)
      OBVIOUS
    <3> HIDE DEF over
    <3> QED
      BY <1>3, <2>1, <3>1, LastOf
  <2> HIDE DEF j
  <2>3. j \in 1..N /\ va \in SegmentPages(segs[j])
    BY <2>2
  <2>4. \A i \in j+1 .. N : va \notin SegmentPages(segs[i])
    <3> TAKE i \in j+1 .. N
    <3>1. i \in 1..N /\ ~ (i <= j)
      BY <1>3, <2>3
    <3> QED
      BY <2>2, <3>1
  <2>5. /\ pmap_query(mem, Root(m), va) # Absent
        /\ pmap_query(mem, Root(m), va).flags = prot_to_pte(segs[j].initprot)
    BY <1>2, <2>3, <2>4 DEF SegmentsMapped
  <2>6. pmap_query(mem, Root(m), va).frame # 0
    <3>1. PICK D : Treed(Machine, Root(KernelPmap), Roots, D)
      BY DEF ExecInv
    <3>2. Machine.mem = mem /\ Root(m) \in Roots \cup {Root(KernelPmap)}
      BY <1>2, ExecFacts
    <3> QED
      BY <2>5, <3>1, <3>2, MappedInUse
  <2> QED
    BY <2>1, <2>3, <2>5, <2>6 DEF Translate, Root
<1>8. (\E i \in 1..N : va \in SegmentPages(segs[i])) => SegmentAt(m, va) # {}
  BY <1>6
<1> QED
  BY <1>7, <1>8

(* When callers of the kernel's map pass whole pages and entries, and       *)
(* images have segments of whole pages, every page of every segment that   *)
(* exec_load() reported as loaded is mapped in the task's address space    *)
(* with the rights of the segment, for as long as other programs are       *)
(* loaded, over the old one too, loads fail, memory runs out and the       *)
(* kernel uses its map (macho.c:31-76, exec.c:16-46, vm_map.c:183-211).    *)
THEOREM ExecLoadedIsMapped ==
  ASSUME WholePages, WholeEntries, KernelRanges, WholeImages
  PROVE  ExecSpec => []LoadedIsMapped
<1>1. ExecInv => LoadedIsMapped
  BY LastSegment DEF LoadedIsMapped
<1>2. ExecHolds => LoadedIsMapped
  BY <1>1 DEF ExecHolds, LoadedIsMapped
<1> QED
  BY <1>2, ExecAlways, PTL

\* m is the address space that changes, W the physical memory copied to.
OnlyOne(m, W) ==
  \A x \in Live \ {m} : \A va \in VPages : Within(x, va) =>
    /\ Translate(mem', x, va) = Translate(mem, x, va)
    /\ \A a \in BytesOf({Translate(mem, x, va).frame} \ {0}) : bytes'[a] = bytes[a] \/ a \in W

LEMMA LoadApart ==
  ASSUME ExecInv, NEW m, NEW W, \A x \in Live \ {m}, va \in VPages :
           Within(x, va) => pmap_query(mem', Root(x), va) = pmap_query(mem, Root(x), va),
         BytesBut(bytes, bytes', free, W)
  PROVE  OnlyOne(m, W)
<1> SUFFICES ASSUME NEW x \in Live \ {m}, NEW va \in VPages, Within(x, va)
             PROVE  /\ Translate(mem', x, va) = Translate(mem, x, va)
                    /\ \A a \in BytesOf({Translate(mem, x, va).frame} \ {0}) : bytes'[a] = bytes[a] \/ a \in W
  BY DEF OnlyOne
<1> DEFINE f == Translate(mem, x, va).frame
<1>1. PICK D : Treed(Machine, Root(KernelPmap), Roots, D)
  BY DEF ExecInv
<1>2. Machine.mem = mem /\ Machine.free = free /\ Root(x) \in Roots \cup {Root(KernelPmap)}
  BY ExecFacts
<1>3. f # 0 => f \in Frames \ free
  BY <1>1, <1>2, MappedInUse DEF Translate, Root
<1>4. Translate(mem', x, va) = Translate(mem, x, va)
  BY DEF Translate, Root
<1> HIDE DEF f
<1>5. BytesOf({f} \ {0}) \subseteq BytesOf(Frames \ free)
  BY <1>3 DEF BytesOf
<1>6. \A a \in BytesOf({f} \ {0}) : bytes'[a] = bytes[a] \/ a \in W
  BY <1>5 DEF BytesBut
<1> QED
  BY <1>4, <1>6 DEF f

(* Under these conditions loading a program changes the address space of   *)
(* one task, whether it succeeds or fails half way: every address of       *)
(* another task and of the kernel is translated as before, and its page    *)
(* holds what it held, but for the physical memory at the addresses of     *)
(* segments that are copied.  Nothing is assumed of those: programs may be *)
(* linked anywhere, over each other's pages and over page tables           *)
(* (exec.c:16-46, macho.c:61-68, pmap.c:67-99).                            *)
THEOREM ExecLoadIsolated ==
  ASSUME WholePages, WholeEntries, KernelRanges, WholeImages
  PROVE  ExecSpec => LoadIsolated
<1> DEFINE A == \E m \in AllPmaps, w \in {{}} \cup {CopyRanges(image) : image \in Images} : OnlyOne(m, w)
<1>1. ASSUME ExecInv, KernelMapCalls PROVE A
  <2>1. KernelKept /\ BytesAlike(bytes, bytes', free) /\ KernelPmap \in AllPmaps
    BY <1>1, KernelCallsStep DEF AllPmaps
  <2>2. \A x \in Live \ {KernelPmap}, va \in VPages :
          Within(x, va) => pmap_query(mem', Root(x), va) = pmap_query(mem, Root(x), va)
    BY <1>1, <2>1, ExecFacts DEF KernelKept, Within, LowPages
  <2>3. BytesBut(bytes, bytes', free, {})
    BY <2>1 DEF BytesAlike, BytesBut
  <2>4. OnlyOne(KernelPmap, {})
    BY <1>1, <2>2, <2>3, LoadApart
  <2> QED
    BY <2>1, <2>4
<1>2. ASSUME ExecInv, NEW m \in Pmaps, NEW image \in Images, exec_load(m, image) PROVE A
  <2>1. LoadSeen(m, image) /\ m \in AllPmaps
    BY <1>2, LoadStep DEF AllPmaps
  <2>2. OnlyOne(m, CopyRanges(image))
    BY <1>2, <2>1, LoadApart DEF LoadSeen
  <2> QED
    BY <2>1, <2>2
<1>3. ASSUME ExecInv, NEW m \in Pmaps, exec_load_no_map(m) PROVE A
  <2>1. /\ m \in AllPmaps /\ BytesAlike(bytes, bytes', free)
        /\ \A x \in Live \ {m}, va \in VPages :
             Within(x, va) => pmap_query(mem', Root(x), va) = pmap_query(mem, Root(x), va)
    BY <1>3, NoMapStep DEF AllPmaps
  <2>2. BytesBut(bytes, bytes', free, {})
    BY <2>1 DEF BytesAlike, BytesBut
  <2>3. OnlyOne(m, {})
    BY <1>3, <2>1, <2>2, LoadApart
  <2> QED
    BY <2>1, <2>3
<1> HIDE DEF A
<1>4. ExecHolds /\ [ExecNext]_<<vmVars, execVars>> => [A]_<<vmVars, execVars>>
  <2>1. ASSUME ExecHolds, ExecNext PROVE A
    <3>1. ExecInv
      BY <2>1 DEF ExecHolds, ExecNext
    <3> QED
      BY <1>1, <1>2, <1>3, <2>1, <3>1 DEF ExecNext
  <2> QED
    BY <2>1
<1> QED
  BY <1>4, ExecAlways, PTL DEF ExecSpec, LoadIsolated, A, OnlyOne

HasMain(image) == \E i \in 1..Len(image.cmds) : image.cmds[i].cmd = "MAIN"

\* A task's map accepts the segments of an image, and one begins with the file.
Headed(segs) ==
  /\ \A i \in 1..Len(segs) : TaskSegment(segs[i])
  /\ \E i \in 1..Len(segs) : segs[i].fileoff = 0

\* Such images enter, counted from their first segment at offset 0, where
\* every segment may be executed.
EntryInText ==
  \A image \in Images, base \in 0 .. AddressSpace - 1 :
    LET segs == Segments(image)
        va   == Page(macho_find_entry(image, base))
    IN  HasMain(image) /\ Headed(segs) /\ BaseFound(segs, Len(segs), base) =>
            /\ \E i \in 1..Len(segs) : va \in SegmentPages(segs[i])
            /\ \A i \in 1..Len(segs) : va \in SegmentPages(segs[i]) => "X" \in segs[i].initprot

\* Without such a segment the base stays 0.
LEMMA EntryBare ==
  ASSUME ExecInv, NEW m \in Loaded,
         ~ \E i \in 1..Len(Segments(loaded[m].image)) : Segments(loaded[m].image)[i].fileoff = 0
  PROVE  loaded[m].entry = macho_find_entry(loaded[m].image, 0)
<1> DEFINE segs == Segments(loaded[m].image)
<1>1. LoadedOK(m)
  BY DEF ExecInv
<1>2. PICK base : BaseFound(segs, Len(segs), base) /\ loaded[m].entry = macho_find_entry(loaded[m].image, base)
  BY <1>1 DEF LoadedOK
<1>3. base = 0
  BY <1>2 DEF BaseFound
<1> QED
  BY <1>2, <1>3

LEMMA EntryMapped ==
  ASSUME WholeImages, EntryInText, ExecInv, NEW m \in Loaded, HasMain(loaded[m].image),
         \E i \in 1..Len(Segments(loaded[m].image)) : Segments(loaded[m].image)[i].fileoff = 0
  PROVE  /\ SegmentAt(m, Page(loaded[m].entry)) # {}
         /\ Translate(mem, m, Page(loaded[m].entry)).frame # 0
         /\ "NX" \notin Translate(mem, m, Page(loaded[m].entry)).flags
<1> DEFINE image == loaded[m].image
           segs == Segments(image)
           N == Len(segs)
           va == Page(loaded[m].entry)
<1>1. LoadedOK(m)
  BY DEF ExecInv
<1>2. SegmentsMapped(mem, Root(m), segs, N) /\ image \in Images
  BY <1>1 DEF LoadedOK
<1>3. PICK base : BaseFound(segs, N, base) /\ loaded[m].entry = macho_find_entry(image, base)
  BY <1>1 DEF LoadedOK
<1>4. base \in 0 .. AddressSpace - 1
  <2>1. AddressSpace \in Nat \ {0} /\ \A i \in 1..N : WholeSegment(segs[i])
    BY <1>2, TopPage DEF WholeImages
  <2>2. 0 \in 0 .. AddressSpace - 1
    BY <2>1
  <2> QED
    BY <1>3, <2>1, <2>2 DEF BaseFound, WholeSegment
<1>5. (\A i \in 1..N : TaskSegment(segs[i])) /\ Headed(segs)
  BY <1>2 DEF SegmentsMapped, Headed
<1> HIDE DEF image, N, segs
<1>6. /\ \E i \in 1..N : va \in SegmentPages(segs[i])
      /\ \A i \in 1..N : va \in SegmentPages(segs[i]) => "X" \in segs[i].initprot
  BY <1>2, <1>3, <1>4, <1>5 DEF EntryInText, image, segs, N
<1>7. va \in VPages
  BY <1>5, <1>6 DEF TaskSegment, LowPages
<1> HIDE DEF va
<1>8. SegmentAt(m, va) # {}
  BY <1>6, <1>7, LastSegment DEF segs, N, image
<1>9. PICK seg \in SegmentAt(m, va) : TRUE
  BY <1>8
<1>10. /\ \E i \in 1..N : seg = segs[i] /\ va \in SegmentPages(seg)
       /\ Translate(mem, m, va).frame # 0
       /\ Translate(mem, m, va).flags = prot_to_pte(seg.initprot)
  BY <1>7, LastSegment DEF segs, N, image
<1>11. "X" \in seg.initprot
  BY <1>6, <1>10
<1>12. "NX" \notin prot_to_pte(seg.initprot)
  BY <1>11 DEF prot_to_pte
<1> QED
  BY <1>8, <1>10, <1>12 DEF va

(* Under the conditions of ExecLoadedIsMapped, a loaded image with an      *)
(* LC_MAIN that is linked into executable segments starts in a page of its *)
(* own that is mapped and may be executed: the base that the loader counts *)
(* the entry point from is the first segment at file offset 0, wherever    *)
(* that stands and whatever was loaded before; an image without one starts *)
(* at the bare offset (macho.c:58-59, 78-95).                              *)
THEOREM ExecEntryInImage ==
  ASSUME WholePages, WholeEntries, KernelRanges, WholeImages, EntryInText
  PROVE  ExecSpec => []EntryInImage
<1>1. ExecInv => EntryInImage
  BY EntryMapped, EntryBare DEF EntryInImage, HasMain
<1>2. ExecHolds => EntryInImage
  BY <1>1 DEF ExecHolds, EntryInImage
<1> QED
  BY <1>2, ExecAlways, PTL
=============================================================================
