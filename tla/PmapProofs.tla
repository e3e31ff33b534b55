----------------------------- MODULE PmapProofs -----------------------------
(* Proofs about the page tables: for every number of levels, entries,      *)
(* frames and address spaces.                                              *)
EXTENDS Pmap, NaturalLemmas

-----------------------------------------------------------------------------
(* Recursion and induction over the levels.                                *)

LEMMA DownInduction ==
  ASSUME NEW T, LEVELS \in T, \A l \in 1..LEVELS-1 : l + 1 \in T => l \in T
  PROVE  1..LEVELS \subseteq T
<1> DEFINE S == {n \in Nat : n < LEVELS => LEVELS - n \in T}
<1>0. LEVELS \in Nat \ {0}
  BY PmapAssumption
<1>1. 0 \in S
  BY <1>0
<1>2. ASSUME NEW n \in Nat, n \in S PROVE n + 1 \in S
  <2> SUFFICES ASSUME n + 1 < LEVELS PROVE LEVELS - (n + 1) \in T
    OBVIOUS
  <2>1. LEVELS - (n + 1) \in 1..LEVELS-1 /\ (LEVELS - (n + 1)) + 1 = LEVELS - n
    BY <1>0
  <2>2. LEVELS - n \in T
    BY <1>0, <1>2
  <2> QED
    BY <2>1, <2>2
<1> HIDE DEF S
<1>3. Nat \subseteq S
  BY <1>1, <1>2, SetInduction
<1>4. ASSUME NEW l \in 1..LEVELS PROVE l \in T
  <2>1. LEVELS - l \in Nat /\ LEVELS - l < LEVELS /\ LEVELS - (LEVELS - l) = l
    BY <1>0
  <2>2. LEVELS - l \in S
    BY <1>3, <2>1
  <2> QED
    BY <2>1, <2>2 DEF S
<1> QED
  BY <1>4

\* A loop from level LEVELS down to level 1.
LevelRun(a, G, w) == w = [l \in 1..LEVELS |-> IF l = LEVELS THEN a ELSE G[l][w[l+1]]]

LEMMA DownRecursion ==
  ASSUME NEW S, NEW a \in S, NEW G \in [1..LEVELS -> [S -> S]]
  PROVE  \E w \in [1..LEVELS -> S] : LevelRun(a, G, w)
<1> DEFINE N == LEVELS - 1
           H == [i \in 1..N |-> G[LEVELS - i]]
<1>0. LEVELS \in Nat \ {0} /\ N \in Nat
  BY PmapAssumption
<1>1. H \in [1..N -> [S -> S]]
  <2>1. \A i \in 1..N : LEVELS - i \in 1..LEVELS
    BY <1>0
  <2> QED
    BY <2>1
<1>2. PICK u \in [0..N -> S] : LoopRun(N, a, H, u)
  <2> HIDE DEF N, H
  <2> QED
    BY <1>0, <1>1, UpRecursion
<1> DEFINE w == [l \in 1..LEVELS |-> u[LEVELS - l]]
<1>3. w \in [1..LEVELS -> S]
  <2>1. \A l \in 1..LEVELS : LEVELS - l \in 0..N
    BY <1>0
  <2> QED
    BY <1>2, <2>1
<1>4. ASSUME NEW l \in 1..LEVELS PROVE w[l] = IF l = LEVELS THEN a ELSE G[l][w[l+1]]
  <2>1. LEVELS - l \in 0..N /\ w[l] = u[LEVELS - l] /\ (LEVELS - l = 0 <=> l = LEVELS)
    BY <1>0
  <2>2. l # LEVELS => /\ l + 1 \in 1..LEVELS /\ LEVELS - (l + 1) = (LEVELS - l) - 1
                      /\ LEVELS - l \in 1..N /\ LEVELS - (LEVELS - l) = l
    BY <1>0
  <2>3. u[LEVELS - l] = IF LEVELS - l = 0 THEN a ELSE H[LEVELS - l][u[(LEVELS - l) - 1]]
    BY <1>2, <2>1 DEF LoopRun
  <2>4. l # LEVELS => H[LEVELS - l] = G[l] /\ w[l+1] = u[(LEVELS - l) - 1]
    BY <2>2
  <2> QED
    BY <2>1, <2>3, <2>4
<1>5. LevelRun(a, G, w)
  <2>1. w = [l \in 1..LEVELS |-> w[l]]
    OBVIOUS
  <2> HIDE DEF w
  <2> QED
    BY <1>4, <2>1 DEF LevelRun
<1> HIDE DEF w
<1> QED
  BY <1>3, <1>5

-----------------------------------------------------------------------------
(* Indices: the path to a page through the tables is its number, written   *)
(* in base FANOUT.                                                         *)

LEMMA Powers == \A l \in 0..LEVELS : FANOUT^l \in Nat \ {0}
<1> DEFINE T == {l \in 0..LEVELS : FANOUT^l \in Nat \ {0}}
<1>0. LEVELS \in Nat /\ FANOUT \in Nat \ {0}
  BY PmapAssumption
<1>1. 0 \in T
  BY <1>0, PmapAssumption
<1>2. ASSUME NEW l \in 1..LEVELS, l - 1 \in T PROVE l \in T
  <2>1. FANOUT^l = FANOUT^(l-1) * FANOUT
    BY PmapAssumption
  <2>2. FANOUT^(l-1) \in Nat \ {0}
    BY <1>2
  <2>3. ASSUME NEW a \in Nat \ {0}, NEW b \in Nat \ {0} PROVE a * b \in Nat \ {0}
    OBVIOUS
  <2>4. FANOUT^l \in Nat \ {0}
    BY <1>0, <2>1, <2>2, <2>3
  <2> QED
    BY <2>4
<1>3. 0..LEVELS \subseteq T
  <2> HIDE DEF T
  <2> QED
    BY <1>0, <1>1, <1>2, UpInduction
<1> QED
  BY <1>3

LEMMA IdxType ==
  ASSUME NEW l \in 1..LEVELS, NEW va \in Nat
  PROVE  Idx(l, va) \in Indices
<1> DEFINE p == FANOUT^(l-1)
           q == va \div p
<1>1. p \in Nat \ {0} /\ FANOUT \in Nat \ {0}
  <2>1. l - 1 \in 0..LEVELS
    BY PmapAssumption
  <2> QED
    BY <2>1, PmapAssumption, Powers
<1> HIDE DEF p
<1>2. q \in Nat
  BY <1>1, DivMod
<1> HIDE DEF q
<1>3. q % FANOUT \in 0 .. FANOUT - 1
  BY <1>1, <1>2, DivMod
<1> QED
  BY <1>3 DEF Idx, Indices, p, q

LEMMA PageNumbers ==
  VPages \subseteq Nat /\ KernelPage \in VPages /\ MapRange \subseteq VPages /\ FANOUT^LEVELS \in Nat
<1>1. LEVELS \in 0..LEVELS /\ LEVELS \in 1..LEVELS /\ LEVELS - 1 \in 0..LEVELS
  BY PmapAssumption
<1>2. FANOUT^LEVELS \in Nat \ {0} /\ FANOUT^(LEVELS-1) \in Nat \ {0}
  BY <1>1, Powers
<1>3. FANOUT \in Nat /\ FANOUT >= 2
  BY PmapAssumption
<1>4. FANOUT^LEVELS = FANOUT^(LEVELS-1) * FANOUT
  BY <1>1, PmapAssumption
<1>5. ASSUME NEW a \in Nat \ {0}, NEW b \in Nat, b >= 2 PROVE a * b >= 2
  <2>1. 0 * b + b <= a * b
    BY <1>5, PageAbove
  <2> QED
    BY <1>5, <2>1
<1>6. FANOUT^LEVELS >= 2
  BY <1>2, <1>3, <1>4, <1>5
<1> QED
  BY <1>2, <1>6, PmapAssumption DEF VPages, KernelPage

\* A page is found again from its index at every level.
LEMMA SameIndices ==
  ASSUME NEW va \in VPages, NEW vb \in VPages,
         \A l \in 1..LEVELS : Idx(l, va) = Idx(l, vb)
  PROVE  va = vb
<1> DEFINE Top(x, l) == x \div FANOUT^(l-1)
           T == {l \in 1..LEVELS : Top(va, l) = Top(vb, l)}
<1>0. /\ va \in Nat /\ vb \in Nat /\ FANOUT \in Nat \ {0} /\ LEVELS \in Nat /\ LEVELS \in 1..LEVELS
      /\ va < FANOUT^LEVELS /\ vb < FANOUT^LEVELS
  BY PmapAssumption, PageNumbers DEF VPages
<1>1. ASSUME NEW x \in Nat, NEW l \in 1..LEVELS
      PROVE  /\ Top(x, l) \in Nat
             /\ Top(x, l) = (x \div FANOUT^l) * FANOUT + Idx(l, x)
  <2> DEFINE p == FANOUT^(l-1)
             q == x \div p
  <2>1. p \in Nat \ {0} /\ FANOUT^l = p * FANOUT
    <3>1. l - 1 \in 0..LEVELS
      BY <1>0
    <3> QED
      BY <3>1, Powers, PmapAssumption
  <2> HIDE DEF p
  <2>2. q \in Nat /\ q \div FANOUT = x \div (p * FANOUT)
    BY <1>0, <2>1, DivMod, NestedDiv
  <2> HIDE DEF q
  <2>3. q = (q \div FANOUT) * FANOUT + (q % FANOUT)
    BY <1>0, <2>2, DivMod
  <2> QED
    BY <2>1, <2>2, <2>3 DEF Idx, p, q
<1>2. LEVELS \in T
  <2>1. ASSUME NEW x \in Nat, NEW k \in Nat \ {0}, x < k PROVE x \div k = 0
    <3> DEFINE y == x \div k
               a == y * k
    <3>1. y \in Nat /\ x = a + (x % k) /\ x % k \in 0 .. k-1
      BY <2>1, DivMod
    <3> HIDE DEF y
    <3>2. 0 < y => 0 * k + k <= a
      BY <2>1, <3>1, PageAbove
    <3>3. a \in Nat
      BY <2>1, <3>1
    <3> HIDE DEF a
    <3>4. y = 0
      BY <2>1, <3>1, <3>2, <3>3
    <3> QED
      BY <3>4 DEF y
  <2>2. FANOUT^LEVELS \in Nat \ {0}
    BY <1>0, Powers
  <2>3. va \div FANOUT^LEVELS = 0 /\ vb \div FANOUT^LEVELS = 0
    BY <1>0, <2>1, <2>2
  <2> HIDE DEF Top
  <2> QED
    BY <1>0, <1>1, <2>3
<1>3. ASSUME NEW l \in 1..LEVELS-1, l + 1 \in T PROVE l \in T
  <2>1. l \in 1..LEVELS /\ (l + 1) - 1 = l
    BY <1>0
  <2>2. va \div FANOUT^l = vb \div FANOUT^l
    BY <1>3, <2>1
  <2>3. Top(va, l) = Top(vb, l)
    <3>1. /\ Top(va, l) = (va \div FANOUT^l) * FANOUT + Idx(l, va)
          /\ Top(vb, l) = (vb \div FANOUT^l) * FANOUT + Idx(l, vb)
      BY <1>0, <1>1, <2>1, Zenon
    <3>2. Idx(l, va) = Idx(l, vb)
      BY <2>1
    <3> HIDE DEF Top
    <3> QED
      BY <2>2, <3>1, <3>2
  <2> QED
    BY <2>1, <2>3
<1>4. 1 \in T
  <2> HIDE DEF T
  <2>1. 1..LEVELS \subseteq T
    BY <1>2, <1>3, DownInduction
  <2> QED
    BY <1>0, <2>1
<1>5. va \div 1 = vb \div 1
  BY <1>4, PmapAssumption
<1> QED
  BY <1>0, <1>5

-----------------------------------------------------------------------------
(* The page tables as a forest.  Every frame that is in use has a level:   *)
(* LEVELS for a PML4, 0 for a page that is mapped or holds a pmap_t; k is  *)
(* the root of the kernel's tree, R are the roots of the others, F the     *)
(* free frames and D the ones in use that nothing links.                   *)

\* An entry is present, or nothing but zeroes.
Entry  == {e \in Pte : e.frame = 0 => e = Absent}
Memory == [Frames -> [Indices -> Entry]]

Copied(R, f, i) == f \in R /\ i \in KernelHalf

\* Links go down one level, to frames in use that may be linked.
LinksDown(M, F, lev, D) ==
  \A f \in Frames \ F, i \in Indices :
    M[f][i].frame # 0 =>
      /\ lev[f] > 0 /\ M[f][i].frame \in Frames \ F /\ M[f][i].frame \notin D
      /\ lev[M[f][i].frame] = lev[f] - 1

\* No frame has two links, but for the kernel's half.
LinksApart(M, F, R) ==
  \A f, g \in Frames \ F, i, j \in Indices :
    /\ ~ Copied(R, f, i) /\ ~ Copied(R, g, j)
    /\ M[f][i].frame # 0 /\ M[f][i].frame = M[g][j].frame
    => f = g /\ i = j

\* Every frame in use has one.
AllLinked(M, F, lev, R, D) ==
  \A h \in Frames \ F : lev[h] < LEVELS /\ h \notin D =>
    \E f \in Frames \ F, i \in Indices : ~ Copied(R, f, i) /\ M[f][i].frame = h

\* What other address spaces have of the kernel's half is the kernel's.
CopiesAgree(M, k, R) ==
  \A r \in R, i \in KernelHalf : M[r][i].frame # 0 => M[r][i] = M[k][i]

Levelled(F, lev, k, R, D) ==
  /\ \A f \in Frames \ F : lev[f] = LEVELS <=> f \in R \cup {k}
  /\ \A f \in D : lev[f] = 0

Tree(M, F, lev, k, R, D) ==
  /\ M \in Memory /\ F \subseteq Frames
  /\ lev \in [Frames -> 0..LEVELS]
  /\ k \in Frames \ F /\ R \subseteq Frames \ F /\ k \notin R /\ D \subseteq Frames \ F
  /\ Levelled(F, lev, k, R, D)
  /\ LinksDown(M, F, lev, D)
  /\ LinksApart(M, F, R)
  /\ AllLinked(M, F, lev, R, D)
  /\ CopiesAgree(M, k, R)

LEMMA Halves == KernelHalf \subseteq Indices /\ LEVELS \in Nat /\ LEVELS >= 2 /\ 0 \notin Frames
<1>1. FANOUT \in Nat \ {0}
  BY PmapAssumption
<1>2. FANOUT \div 2 \in Nat
  BY <1>1, DivMod
<1> QED
  BY <1>1, <1>2, PmapAssumption DEF KernelHalf, Indices, Frames

LEMMA ZeroedFacts ==
  /\ Zeroed \in [Indices -> Entry] /\ \A i \in Indices : Zeroed[i] = Absent
  /\ Absent \in Entry /\ Absent.frame = 0
BY DEF Zeroed, Absent, Pte, Entry

LEMMA EntryFacts ==
  ASSUME NEW M \in Memory, NEW f \in Frames, NEW i \in Indices
  PROVE  /\ M[f] \in [Indices -> Entry] /\ M[f][i] \in Entry /\ M[f][i].frame \in Frames \cup {0}
         /\ M[f][i].frame = 0 <=> M[f][i] = Absent
<1>1. M[f] \in [Indices -> Entry] /\ M[f][i] \in Entry
  BY DEF Memory
<1> QED
  BY <1>1, ZeroedFacts DEF Entry, Pte

\* One entry of one table is written.
Written(M, f, i, e) == [M EXCEPT ![f][i] = e]

LEMMA EntryWritten ==
  ASSUME NEW M \in Memory, NEW f \in Frames, NEW i \in Indices, NEW e \in Entry,
         NEW N, N = Written(M, f, i, e)
  PROVE  /\ N \in Memory
         /\ N[f][i] = e
         /\ \A g \in Frames : g # f => N[g] = M[g]
         /\ \A g \in Frames, j \in Indices : g # f \/ j # i => N[g][j] = M[g][j]
BY DEF Memory, Written

\* A frame is taken from the free ones and zeroed: it waits to be linked.
LEMMA TakeFrame ==
  ASSUME NEW M, NEW F, NEW lev, NEW k, NEW R, NEW D, Tree(M, F, lev, k, R, D), NEW n \in F
  PROVE  Tree([M EXCEPT ![n] = Zeroed], F \ {n}, [lev EXCEPT ![n] = 0], k, R, D \cup {n})
<1> DEFINE N == [M EXCEPT ![n] = Zeroed]
           G == F \ {n}
           v == [lev EXCEPT ![n] = 0]
           E == D \cup {n}
<1>1. /\ M \in Memory /\ F \subseteq Frames /\ lev \in [Frames -> 0..LEVELS]
      /\ k \in Frames \ F /\ R \subseteq Frames \ F /\ k \notin R /\ D \subseteq Frames \ F
      /\ Levelled(F, lev, k, R, D) /\ LinksDown(M, F, lev, D) /\ LinksApart(M, F, R)
      /\ AllLinked(M, F, lev, R, D) /\ CopiesAgree(M, k, R)
      /\ n \in Frames /\ LEVELS \in Nat /\ LEVELS # 0
  BY PmapAssumption DEF Tree
<1>2. /\ N \in Memory /\ \A i \in Indices : N[n][i].frame = 0
      /\ \A f \in Frames : f # n => N[f] = M[f]
  BY <1>1, ZeroedFacts DEF Memory
<1>3. /\ v \in [Frames -> 0..LEVELS] /\ v[n] = 0
      /\ \A f \in Frames : f # n => v[f] = lev[f]
  BY <1>1
<1>4. /\ Frames \ G = (Frames \ F) \cup {n} /\ n \notin Frames \ F
      /\ \A f \in Frames \ G : f = n \/ (f \in Frames \ F /\ f # n)
  BY <1>1
<1> HIDE DEF N, G, v, E
<1>5. Levelled(G, v, k, R, E)
  BY <1>1, <1>3, <1>4 DEF Levelled, E
<1>6. LinksDown(N, G, v, E)
  <2> SUFFICES ASSUME NEW f \in Frames \ G, NEW i \in Indices, N[f][i].frame # 0
               PROVE  /\ v[f] > 0 /\ N[f][i].frame \in Frames \ G /\ N[f][i].frame \notin E
                      /\ v[N[f][i].frame] = v[f] - 1
    BY DEF LinksDown
  <2>1. f \in Frames \ F /\ f # n /\ N[f][i] = M[f][i]
    BY <1>2, <1>4
  <2>2. /\ lev[f] > 0 /\ M[f][i].frame \in Frames \ F /\ M[f][i].frame \notin D
        /\ lev[M[f][i].frame] = lev[f] - 1
    BY <1>1, <2>1 DEF LinksDown
  <2> QED
    BY <1>3, <1>4, <2>1, <2>2 DEF E
<1>7. LinksApart(N, G, R)
  <2> SUFFICES ASSUME NEW f \in Frames \ G, NEW g \in Frames \ G, NEW i \in Indices, NEW j \in Indices,
                      ~ Copied(R, f, i), ~ Copied(R, g, j),
                      N[f][i].frame # 0, N[f][i].frame = N[g][j].frame
               PROVE  f = g /\ i = j
    BY DEF LinksApart
  <2>1. f \in Frames \ F /\ g \in Frames \ F /\ N[f] = M[f] /\ N[g] = M[g]
    BY <1>2, <1>4
  <2> QED
    BY <1>1, <2>1 DEF LinksApart
<1>8. AllLinked(N, G, v, R, E)
  <2> SUFFICES ASSUME NEW h \in Frames \ G, v[h] < LEVELS, h \notin E
               PROVE  \E f \in Frames \ G, i \in Indices : ~ Copied(R, f, i) /\ N[f][i].frame = h
    BY DEF AllLinked
  <2>1. h \in Frames \ F /\ h # n /\ h \notin D /\ lev[h] < LEVELS
    BY <1>3, <1>4 DEF E
  <2>2. PICK f \in Frames \ F, i \in Indices : ~ Copied(R, f, i) /\ M[f][i].frame = h
    BY <1>1, <2>1 DEF AllLinked
  <2> QED
    BY <1>2, <1>4, <2>2
<1>9. k \in Frames \ G /\ R \subseteq Frames \ G /\ E \subseteq Frames \ G /\ G \subseteq Frames
  BY <1>1, <1>4 DEF E, G
<1>10. CopiesAgree(N, k, R)
  <2>1. N[k] = M[k] /\ \A r \in R : N[r] = M[r]
    BY <1>1, <1>2
  <2> QED
    BY <1>1, <2>1 DEF CopiesAgree
<1> QED
  BY <1>1, <1>2, <1>3, <1>5, <1>6, <1>7, <1>8, <1>9, <1>10 DEF Tree, N, G, v, E

\* A frame that waits is linked below a table.
LEMMA LinkFrame ==
  ASSUME NEW M, NEW F, NEW lev, NEW k, NEW R, NEW D, Tree(M, F, lev, k, R, D),
         NEW n \in D, NEW f \in Frames \ F, NEW i \in Indices, lev[f] > 0,
         M[f][i].frame = 0, ~ Copied(R, f, i), NEW e \in Entry, e.frame = n
  PROVE  Tree(Written(M, f, i, e), F, [lev EXCEPT ![n] = lev[f] - 1], k, R, D \ {n})
<1> DEFINE N == Written(M, f, i, e)
           v == [lev EXCEPT ![n] = lev[f] - 1]
           E == D \ {n}
<1>1. /\ M \in Memory /\ F \subseteq Frames /\ lev \in [Frames -> 0..LEVELS]
      /\ k \in Frames \ F /\ R \subseteq Frames \ F /\ k \notin R /\ D \subseteq Frames \ F
      /\ Levelled(F, lev, k, R, D) /\ LinksDown(M, F, lev, D) /\ LinksApart(M, F, R)
      /\ AllLinked(M, F, lev, R, D) /\ CopiesAgree(M, k, R) /\ n \in Frames \ F /\ LEVELS \in Nat /\ LEVELS # 0
  BY PmapAssumption DEF Tree
<1>2. /\ N \in Memory /\ N[f][i] = e /\ N[f][i].frame = n
      /\ \A g \in Frames, j \in Indices : g # f \/ j # i => N[g][j] = M[g][j]
  <2>1. N = Written(M, f, i, e) /\ f \in Frames
    OBVIOUS
  <2> HIDE DEF N
  <2> QED
    BY <1>1, <2>1, EntryWritten
<1>3. lev[n] = 0 /\ n # f /\ n # 0 /\ n \notin R \cup {k}
  BY <1>1 DEF Levelled, Frames
<1>4. /\ v \in [Frames -> 0..LEVELS] /\ v[n] = lev[f] - 1 /\ v[n] < LEVELS
      /\ \A g \in Frames : g # n => v[g] = lev[g]
  <2>1. lev[f] \in 0..LEVELS
    BY <1>1
  <2> QED
    BY <1>1, <2>1
<1> HIDE DEF N, v, E
<1>5. Levelled(F, v, k, R, E)
  BY <1>1, <1>3, <1>4 DEF Levelled, E
<1>6. \A j \in Indices : N[n][j].frame = 0
  BY <1>1, <1>2, <1>3 DEF LinksDown
<1>7. LinksDown(N, F, v, E)
  <2> SUFFICES ASSUME NEW g \in Frames \ F, NEW j \in Indices, N[g][j].frame # 0
               PROVE  /\ v[g] > 0 /\ N[g][j].frame \in Frames \ F /\ N[g][j].frame \notin E
                      /\ v[N[g][j].frame] = v[g] - 1
    BY DEF LinksDown
  <2>1. CASE g = f /\ j = i
    BY <1>1, <1>2, <1>3, <1>4, <2>1 DEF E
  <2>2. CASE ~ (g = f /\ j = i)
    <3>1. N[g][j] = M[g][j] /\ g # n
      BY <1>2, <1>6, <2>2
    <3>2. /\ lev[g] > 0 /\ M[g][j].frame \in Frames \ F /\ M[g][j].frame \notin D
          /\ lev[M[g][j].frame] = lev[g] - 1
      BY <1>1, <3>1 DEF LinksDown
    <3> QED
      BY <1>4, <3>1, <3>2 DEF E
  <2> QED
    BY <2>1, <2>2
<1>8. LinksApart(N, F, R)
  <2> SUFFICES ASSUME NEW a \in Frames \ F, NEW b \in Frames \ F, NEW x \in Indices, NEW y \in Indices,
                      ~ Copied(R, a, x), ~ Copied(R, b, y),
                      N[a][x].frame # 0, N[a][x].frame = N[b][y].frame
               PROVE  a = b /\ x = y
    BY DEF LinksApart
  <2>1. ASSUME NEW g \in Frames \ F, NEW j \in Indices, g # f \/ j # i PROVE N[g][j].frame # n
    <3>1. N[g][j] = M[g][j]
      BY <1>2, <2>1
    <3> QED
      BY <1>1, <1>3, <3>1 DEF LinksDown
  <2>2. CASE (a = f /\ x = i) \/ (b = f /\ y = i)
    BY <1>2, <2>1, <2>2
  <2>3. CASE ~ ((a = f /\ x = i) \/ (b = f /\ y = i))
    <3>1. N[a][x] = M[a][x] /\ N[b][y] = M[b][y]
      BY <1>2, <2>3
    <3> QED
      BY <1>1, <3>1 DEF LinksApart
  <2> QED
    BY <2>2, <2>3
<1>9. AllLinked(N, F, v, R, E)
  <2> SUFFICES ASSUME NEW h \in Frames \ F, v[h] < LEVELS, h \notin E
               PROVE  \E g \in Frames \ F, j \in Indices : ~ Copied(R, g, j) /\ N[g][j].frame = h
    BY DEF AllLinked
  <2>1. CASE h = n
    BY <1>2, <2>1
  <2>2. CASE h # n
    <3>1. h \notin D /\ lev[h] < LEVELS
      BY <1>4, <2>2 DEF E
    <3>2. PICK g \in Frames \ F, j \in Indices : ~ Copied(R, g, j) /\ M[g][j].frame = h
      BY <1>1, <3>1 DEF AllLinked
    <3>3. g # f \/ j # i
      BY <3>2 DEF Frames
    <3> QED
      BY <1>2, <3>2, <3>3
  <2> QED
    BY <2>1, <2>2
<1>10. E \subseteq Frames \ F
  BY <1>1 DEF E
<1>11. CopiesAgree(N, k, R)
  <2> SUFFICES ASSUME NEW r \in R, NEW x \in KernelHalf, N[r][x].frame # 0 PROVE N[r][x] = N[k][x]
    BY DEF CopiesAgree
  <2>1. x \in Indices /\ Copied(R, r, x) /\ r \in Frames /\ k \in Frames
    BY <1>1, Halves DEF Copied
  <2>2. N[r][x] = M[r][x]
    BY <1>2, <2>1
  <2>3. M[r][x] = M[k][x]
    BY <1>1, <2>2 DEF CopiesAgree
  <2>4. k # f \/ x # i
    BY <2>2, <2>3
  <2> QED
    BY <1>2, <2>1, <2>2, <2>3, <2>4
<1> QED
  BY <1>1, <1>2, <1>4, <1>5, <1>7, <1>8, <1>9, <1>10, <1>11 DEF Tree, N, v, E

\* What the operations on a tree start from.
LEMMA TreeFacts ==
  ASSUME NEW M, NEW F, NEW lev, NEW k, NEW R, NEW D, Tree(M, F, lev, k, R, D)
  PROVE  /\ M \in Memory /\ F \subseteq Frames /\ lev \in [Frames -> 0..LEVELS]
         /\ k \in Frames \ F /\ R \subseteq Frames \ F /\ k \notin R /\ D \subseteq Frames \ F
         /\ Levelled(F, lev, k, R, D) /\ LinksDown(M, F, lev, D) /\ LinksApart(M, F, R)
         /\ AllLinked(M, F, lev, R, D) /\ CopiesAgree(M, k, R) /\ LEVELS \in Nat /\ LEVELS >= 2
BY Halves DEF Tree

\* The entry of a page is cleared, and the page freed.
LEMMA UnlinkPage ==
  ASSUME NEW M, NEW F, NEW lev, NEW k, NEW R, NEW D, Tree(M, F, lev, k, R, D),
         NEW f \in Frames \ F, lev[f] = 1, NEW i \in Indices, NEW g, g = M[f][i].frame, g # 0
  PROVE  Tree(Written(M, f, i, Absent), F \cup {g}, lev, k, R, D)
<1> DEFINE N == Written(M, f, i, Absent)
           G == F \cup {g}
<1>1. /\ M \in Memory /\ F \subseteq Frames /\ lev \in [Frames -> 0..LEVELS]
      /\ k \in Frames \ F /\ R \subseteq Frames \ F /\ k \notin R /\ D \subseteq Frames \ F
      /\ Levelled(F, lev, k, R, D) /\ LinksDown(M, F, lev, D) /\ LinksApart(M, F, R)
      /\ AllLinked(M, F, lev, R, D) /\ CopiesAgree(M, k, R) /\ LEVELS \in Nat /\ LEVELS >= 2
  BY TreeFacts
<1>2. /\ N \in Memory /\ N[f][i] = Absent /\ N[f][i].frame = 0
      /\ \A h \in Frames, j \in Indices : h # f \/ j # i => N[h][j] = M[h][j]
      /\ \A h \in Frames : h # f => N[h] = M[h]
  BY <1>1, EntryWritten, ZeroedFacts
<1>3. g \in Frames \ F /\ g \notin D /\ lev[g] = 0 /\ f # g
  BY <1>1 DEF LinksDown
<1>4. g \notin R \cup {k} /\ f \notin R \cup {k}
  BY <1>1, <1>3 DEF Levelled
<1> HIDE DEF N
<1>5. Levelled(G, lev, k, R, D)
  BY <1>1 DEF Levelled
<1>6. ASSUME NEW h \in Frames \ F, NEW j \in Indices, M[h][j].frame = g PROVE h = f /\ j = i
  <2>1. lev[h] = 1
    BY <1>1, <1>3, <1>6 DEF LinksDown
  <2>2. h \notin R
    BY <1>1, <2>1 DEF Levelled
  <2> QED
    BY <1>1, <1>4, <1>6, <2>2 DEF LinksApart, Copied
<1>7. LinksDown(N, G, lev, D)
  <2> SUFFICES ASSUME NEW h \in Frames \ G, NEW j \in Indices, N[h][j].frame # 0
               PROVE  /\ lev[h] > 0 /\ N[h][j].frame \in Frames \ G /\ N[h][j].frame \notin D
                      /\ lev[N[h][j].frame] = lev[h] - 1
    BY DEF LinksDown
  <2>1. h # f \/ j # i
    BY <1>2
  <2>2. N[h][j] = M[h][j]
    BY <1>2, <2>1
  <2> QED
    BY <1>1, <1>6, <2>1, <2>2 DEF LinksDown
<1>8. LinksApart(N, G, R)
  <2> SUFFICES ASSUME NEW a \in Frames \ G, NEW b \in Frames \ G, NEW x \in Indices, NEW y \in Indices,
                      ~ Copied(R, a, x), ~ Copied(R, b, y),
                      N[a][x].frame # 0, N[a][x].frame = N[b][y].frame
               PROVE  a = b /\ x = y
    BY DEF LinksApart
  <2>1. N[a][x] = M[a][x] /\ N[b][y] = M[b][y]
    BY <1>2
  <2> QED
    BY <1>1, <2>1 DEF LinksApart
<1>9. AllLinked(N, G, lev, R, D)
  <2> SUFFICES ASSUME NEW h \in Frames \ G, lev[h] < LEVELS, h \notin D
               PROVE  \E a \in Frames \ G, x \in Indices : ~ Copied(R, a, x) /\ N[a][x].frame = h
    BY DEF AllLinked
  <2>1. PICK a \in Frames \ F, x \in Indices : ~ Copied(R, a, x) /\ M[a][x].frame = h
    BY <1>1 DEF AllLinked
  <2>2. h # 0 /\ h # g
    BY Halves
  <2>3. a # g
    BY <1>1, <1>3, <2>1, <2>2 DEF LinksDown
  <2>4. N[a][x] = M[a][x]
    BY <1>2, <2>1, <2>2
  <2> QED
    BY <2>1, <2>3, <2>4
<1>10. CopiesAgree(N, k, R)
  <2>1. N[k] = M[k] /\ \A r \in R : N[r] = M[r]
    BY <1>1, <1>2, <1>4
  <2> QED
    BY <1>1, <2>1 DEF CopiesAgree
<1> QED
  BY <1>1, <1>2, <1>3, <1>4, <1>5, <1>7, <1>8, <1>9, <1>10 DEF Tree, N

\* The entry of a page is cleared, and the page is not freed: it waits for
\* ever.
LEMMA LosePage ==
  ASSUME NEW M, NEW F, NEW lev, NEW k, NEW R, NEW D, Tree(M, F, lev, k, R, D),
         NEW f \in Frames \ F, lev[f] = 1, NEW i \in Indices, NEW g, g = M[f][i].frame, g # 0
  PROVE  Tree(Written(M, f, i, Absent), F, lev, k, R, D \cup {g}) /\ g \notin D
<1> DEFINE N == Written(M, f, i, Absent)
           E == D \cup {g}
<1>1. /\ M \in Memory /\ F \subseteq Frames /\ lev \in [Frames -> 0..LEVELS]
      /\ k \in Frames \ F /\ R \subseteq Frames \ F /\ k \notin R /\ D \subseteq Frames \ F
      /\ Levelled(F, lev, k, R, D) /\ LinksDown(M, F, lev, D) /\ LinksApart(M, F, R)
      /\ AllLinked(M, F, lev, R, D) /\ CopiesAgree(M, k, R) /\ LEVELS \in Nat /\ LEVELS >= 2
  BY TreeFacts
<1>2. /\ N \in Memory /\ N[f][i].frame = 0
      /\ \A h \in Frames, j \in Indices : h # f \/ j # i => N[h][j] = M[h][j]
      /\ \A h \in Frames : h # f => N[h] = M[h]
  BY <1>1, EntryWritten, ZeroedFacts
<1>3. g \in Frames \ F /\ g \notin D /\ lev[g] = 0
  BY <1>1 DEF LinksDown
<1>4. f \notin R \cup {k}
  BY <1>1 DEF Levelled
<1> HIDE DEF N
<1>5. Levelled(F, lev, k, R, E)
  BY <1>1, <1>3 DEF Levelled
<1>6. ASSUME NEW h \in Frames \ F, NEW j \in Indices, M[h][j].frame = g PROVE h = f /\ j = i
  <2>1. lev[h] = 1
    BY <1>1, <1>3, <1>6 DEF LinksDown
  <2>2. h \notin R
    BY <1>1, <2>1 DEF Levelled
  <2> QED
    BY <1>1, <1>4, <1>6, <2>2 DEF LinksApart, Copied
<1>7. LinksDown(N, F, lev, E)
  <2> SUFFICES ASSUME NEW h \in Frames \ F, NEW j \in Indices, N[h][j].frame # 0
               PROVE  /\ lev[h] > 0 /\ N[h][j].frame \in Frames \ F /\ N[h][j].frame \notin E
                      /\ lev[N[h][j].frame] = lev[h] - 1
    BY DEF LinksDown
  <2>1. (h # f \/ j # i) /\ N[h][j] = M[h][j]
    BY <1>2
  <2> QED
    BY <1>1, <1>6, <2>1 DEF LinksDown
<1>8. LinksApart(N, F, R)
  BY <1>1, <1>2 DEF LinksApart
<1>9. AllLinked(N, F, lev, R, E)
  <2> SUFFICES ASSUME NEW h \in Frames \ F, lev[h] < LEVELS, h \notin E
               PROVE  \E a \in Frames \ F, x \in Indices : ~ Copied(R, a, x) /\ N[a][x].frame = h
    BY DEF AllLinked
  <2>1. PICK a \in Frames \ F, x \in Indices : ~ Copied(R, a, x) /\ M[a][x].frame = h
    BY <1>1 DEF AllLinked
  <2>2. N[a][x] = M[a][x]
    BY <1>2, <2>1
  <2> QED
    BY <2>1, <2>2
<1>10. CopiesAgree(N, k, R)
  <2>1. N[k] = M[k] /\ \A r \in R : N[r] = M[r]
    BY <1>1, <1>2, <1>4
  <2> QED
    BY <1>1, <2>1 DEF CopiesAgree
<1> QED
  BY <1>1, <1>2, <1>3, <1>5, <1>7, <1>8, <1>9, <1>10 DEF Tree, N

\* The entry of a page gets other flags.
LEMMA ReflagPage ==
  ASSUME NEW M, NEW F, NEW lev, NEW k, NEW R, NEW D, Tree(M, F, lev, k, R, D),
         NEW f \in Frames \ F, lev[f] = 1, NEW i \in Indices,
         NEW e \in Entry, e.frame = M[f][i].frame
  PROVE  Tree(Written(M, f, i, e), F, lev, k, R, D)
<1> DEFINE N == Written(M, f, i, e)
<1>1. /\ M \in Memory /\ F \subseteq Frames /\ lev \in [Frames -> 0..LEVELS]
      /\ k \in Frames \ F /\ R \subseteq Frames \ F /\ k \notin R /\ D \subseteq Frames \ F
      /\ Levelled(F, lev, k, R, D) /\ LinksDown(M, F, lev, D) /\ LinksApart(M, F, R)
      /\ AllLinked(M, F, lev, R, D) /\ CopiesAgree(M, k, R) /\ LEVELS \in Nat /\ LEVELS >= 2
  BY TreeFacts
<1>2. /\ N \in Memory /\ N[f][i] = e
      /\ \A h \in Frames, j \in Indices : h # f \/ j # i => N[h][j] = M[h][j]
      /\ \A h \in Frames : h # f => N[h] = M[h]
  BY <1>1, EntryWritten
<1>3. f \notin R \cup {k}
  BY <1>1 DEF Levelled
<1> HIDE DEF N
<1>4. \A h \in Frames, j \in Indices : N[h][j].frame = M[h][j].frame
  BY <1>2
<1>5. LinksDown(N, F, lev, D) /\ LinksApart(N, F, R) /\ AllLinked(N, F, lev, R, D)
  <2>1. LinksDown(N, F, lev, D)
    BY <1>1, <1>4 DEF LinksDown
  <2>2. LinksApart(N, F, R)
    BY <1>1, <1>4 DEF LinksApart
  <2>3. AllLinked(N, F, lev, R, D)
    BY <1>1, <1>4 DEF AllLinked
  <2> QED
    BY <2>1, <2>2, <2>3
<1>6. CopiesAgree(N, k, R)
  <2>1. N[k] = M[k] /\ \A r \in R : N[r] = M[r]
    BY <1>1, <1>2, <1>3
  <2> QED
    BY <1>1, <2>1 DEF CopiesAgree
<1> QED
  BY <1>1, <1>2, <1>5, <1>6 DEF Tree, N

\* A frame that waits is given back.
LEMMA GiveBack ==
  ASSUME NEW M, NEW F, NEW lev, NEW k, NEW R, NEW D, Tree(M, F, lev, k, R, D), NEW n \in D
  PROVE  Tree(M, F \cup {n}, lev, k, R, D \ {n})
<1> DEFINE G == F \cup {n}
           E == D \ {n}
<1>1. /\ M \in Memory /\ F \subseteq Frames /\ lev \in [Frames -> 0..LEVELS]
      /\ k \in Frames \ F /\ R \subseteq Frames \ F /\ k \notin R /\ D \subseteq Frames \ F
      /\ Levelled(F, lev, k, R, D) /\ LinksDown(M, F, lev, D) /\ LinksApart(M, F, R)
      /\ AllLinked(M, F, lev, R, D) /\ CopiesAgree(M, k, R) /\ LEVELS \in Nat /\ LEVELS >= 2
  BY TreeFacts
<1>2. lev[n] = 0 /\ n \in Frames \ F /\ n \notin R \cup {k}
  BY <1>1 DEF Levelled
<1>3. Levelled(G, lev, k, R, E)
  BY <1>1 DEF Levelled
<1>4. LinksDown(M, G, lev, E)
  BY <1>1, <1>2 DEF LinksDown
<1>5. LinksApart(M, G, R)
  BY <1>1 DEF LinksApart
<1>6. AllLinked(M, G, lev, R, E)
  <2> SUFFICES ASSUME NEW h \in Frames \ G, lev[h] < LEVELS, h \notin E
               PROVE  \E a \in Frames \ G, x \in Indices : ~ Copied(R, a, x) /\ M[a][x].frame = h
    BY DEF AllLinked
  <2>1. PICK a \in Frames \ F, x \in Indices : ~ Copied(R, a, x) /\ M[a][x].frame = h
    BY <1>1 DEF AllLinked
  <2>2. h # 0
    BY Halves
  <2>3. a # n
    BY <1>1, <1>2, <2>1, <2>2 DEF LinksDown
  <2> QED
    BY <2>1, <2>3
<1> QED
  BY <1>1, <1>2, <1>3, <1>4, <1>5, <1>6 DEF Tree

\* The kernel's half of a PML4.
HalfOf(M, k) == [i \in Indices |-> IF i \in KernelHalf THEN M[k][i] ELSE Absent]

\* A frame that waits becomes the PML4 of an address space.
LEMMA NewRoot ==
  ASSUME NEW M, NEW F, NEW lev, NEW k, NEW R, NEW D, Tree(M, F, lev, k, R, D), NEW n \in D
  PROVE  Tree([M EXCEPT ![n] = HalfOf(M, k)], F, [lev EXCEPT ![n] = LEVELS], k, R \cup {n}, D \ {n})
<1> DEFINE N == [M EXCEPT ![n] = HalfOf(M, k)]
           v == [lev EXCEPT ![n] = LEVELS]
           Q == R \cup {n}
           E == D \ {n}
<1>1. /\ M \in Memory /\ F \subseteq Frames /\ lev \in [Frames -> 0..LEVELS]
      /\ k \in Frames \ F /\ R \subseteq Frames \ F /\ k \notin R /\ D \subseteq Frames \ F
      /\ Levelled(F, lev, k, R, D) /\ LinksDown(M, F, lev, D) /\ LinksApart(M, F, R)
      /\ AllLinked(M, F, lev, R, D) /\ CopiesAgree(M, k, R) /\ LEVELS \in Nat /\ LEVELS >= 2
  BY TreeFacts
<1>2. /\ HalfOf(M, k) \in [Indices -> Entry]
      /\ \A i \in Indices : HalfOf(M, k)[i] = IF i \in KernelHalf THEN M[k][i] ELSE Absent
  <2>1. \A i \in Indices : M[k][i] \in Entry
    BY <1>1 DEF Memory
  <2> QED
    BY <2>1, ZeroedFacts DEF HalfOf
<1>3. /\ N \in Memory /\ N[n] = HalfOf(M, k)
      /\ \A h \in Frames : h # n => N[h] = M[h]
  BY <1>1, <1>2 DEF Memory
<1>4. lev[n] = 0 /\ n \in Frames \ F /\ n \notin R \cup {k}
  BY <1>1 DEF Levelled
<1>5. /\ v \in [Frames -> 0..LEVELS] /\ v[n] = LEVELS
      /\ \A h \in Frames : h # n => v[h] = lev[h]
  BY <1>1, <1>4
<1>6. /\ N[k] = M[k] /\ \A r \in R : N[r] = M[r]
  BY <1>1, <1>3, <1>4
<1> HIDE DEF N, v
<1>7. Levelled(F, v, k, Q, E)
  BY <1>1, <1>4, <1>5 DEF Levelled
<1>8. LinksDown(N, F, v, E)
  <2> SUFFICES ASSUME NEW h \in Frames \ F, NEW j \in Indices, N[h][j].frame # 0
               PROVE  /\ v[h] > 0 /\ N[h][j].frame \in Frames \ F /\ N[h][j].frame \notin E
                      /\ v[N[h][j].frame] = v[h] - 1
    BY DEF LinksDown
  <2> DEFINE g == IF h = n THEN k ELSE h
  <2>1. g \in Frames \ F /\ N[h][j] = M[g][j] /\ v[h] = lev[g]
    <3>1. CASE h = n
      <4>1. N[h][j] = M[k][j]
        BY <1>2, <1>3, <3>1, ZeroedFacts
      <4>2. lev[k] = LEVELS
        BY <1>1 DEF Levelled
      <4> QED
        BY <1>1, <1>5, <3>1, <4>1, <4>2
    <3>2. CASE h # n
      BY <1>3, <1>5, <3>2
    <3> QED
      BY <3>1, <3>2
  <2> HIDE DEF g
  <2>2. /\ lev[g] > 0 /\ M[g][j].frame \in Frames \ F /\ M[g][j].frame \notin D
        /\ lev[M[g][j].frame] = lev[g] - 1
    BY <1>1, <2>1 DEF LinksDown
  <2> QED
    BY <1>5, <2>1, <2>2
<1>9. LinksApart(N, F, Q)
  <2> SUFFICES ASSUME NEW a \in Frames \ F, NEW b \in Frames \ F, NEW x \in Indices, NEW y \in Indices,
                      ~ Copied(Q, a, x), ~ Copied(Q, b, y),
                      N[a][x].frame # 0, N[a][x].frame = N[b][y].frame
               PROVE  a = b /\ x = y
    BY DEF LinksApart
  <2>1. a # n /\ b # n
    BY <1>2, <1>3, ZeroedFacts DEF Copied
  <2>2. N[a] = M[a] /\ N[b] = M[b] /\ ~ Copied(R, a, x) /\ ~ Copied(R, b, y)
    BY <1>3, <2>1 DEF Copied
  <2> QED
    BY <1>1, <2>2 DEF LinksApart
<1>10. AllLinked(N, F, v, Q, E)
  <2> SUFFICES ASSUME NEW h \in Frames \ F, v[h] < LEVELS, h \notin E
               PROVE  \E a \in Frames \ F, x \in Indices : ~ Copied(Q, a, x) /\ N[a][x].frame = h
    BY DEF AllLinked
  <2>0. h # n /\ h \notin D /\ lev[h] < LEVELS
    BY <1>1, <1>5
  <2>1. PICK a \in Frames \ F, x \in Indices : ~ Copied(R, a, x) /\ M[a][x].frame = h
    BY <1>1, <2>0 DEF AllLinked
  <2>2. h # 0
    BY Halves
  <2>3. a # n
    BY <1>1, <1>4, <2>1, <2>2 DEF LinksDown
  <2> QED
    BY <1>3, <2>1, <2>3 DEF Copied
<1>11. CopiesAgree(N, k, Q)
  <2> SUFFICES ASSUME NEW r \in Q, NEW i \in KernelHalf, N[r][i].frame # 0 PROVE N[r][i] = N[k][i]
    BY DEF CopiesAgree
  <2>1. CASE r = n
    BY <1>2, <1>3, <1>6, <2>1, Halves
  <2>2. CASE r \in R
    BY <1>1, <1>6, <2>2 DEF CopiesAgree
  <2> QED
    BY <2>1, <2>2
<1> QED
  BY <1>1, <1>3, <1>4, <1>5, <1>7, <1>8, <1>9, <1>10, <1>11 DEF Tree, N, v

-----------------------------------------------------------------------------
(* pmap_walk() and pmap_query() on a forest.                               *)

\* w[l] is the table of level l on the way to va, or 0.
WalkRun(M, r, va, w) ==
  /\ w \in [1..LEVELS -> Frames \cup {0}]
  /\ w[LEVELS] = r
  /\ \A l \in 1..LEVELS-1 :
       w[l] = IF w[l+1] = 0 THEN 0 ELSE M[w[l+1]][Idx(l+1, va)].frame

WalkRec(M, r, va, w) ==
  w = [l \in 1..LEVELS |-> IF l = LEVELS THEN r
                           ELSE IF w[l+1] = 0 THEN 0
                           ELSE M[w[l+1]][Idx(l+1, va)].frame]

LEMMA WalkDef ==
  ASSUME NEW M \in Memory, NEW r \in Frames, NEW va \in Nat
  PROVE  \E w : WalkRun(M, r, va, w) /\ pmap_walk(M, r, va) = w[1]
<1> DEFINE S == Frames \cup {0}
           G == [l \in 1..LEVELS |->
                   [x \in S |-> IF x = 0 \/ l = LEVELS THEN 0 ELSE M[x][Idx(l+1, va)].frame]]
           c == CHOOSE w : WalkRec(M, r, va, w)
<1>0. LEVELS \in Nat /\ LEVELS >= 2
  BY Halves
<1>1. \A l \in 1..LEVELS : l # LEVELS => l + 1 \in 1..LEVELS
  BY <1>0
<1>2. G \in [1..LEVELS -> [S -> S]]
  <2>1. ASSUME NEW l \in 1..LEVELS, NEW x \in S, x # 0, l # LEVELS
        PROVE  M[x][Idx(l+1, va)].frame \in S
    BY <1>1, <2>1, IdxType, EntryFacts
  <2> QED
    BY <2>1
<1>3. PICK w \in [1..LEVELS -> S] : LevelRun(r, G, w)
  <2> HIDE DEF G
  <2> QED
    BY <1>2, DownRecursion
<1>4. WalkRec(M, r, va, w)
  <2>1. \A l \in 1..LEVELS : l # LEVELS =>
          G[l][w[l+1]] = IF w[l+1] = 0 THEN 0 ELSE M[w[l+1]][Idx(l+1, va)].frame
    BY <1>1, <1>3
  <2> HIDE DEF G
  <2> QED
    BY <1>3, <2>1 DEF WalkRec, LevelRun
<1>5. WalkRec(M, r, va, c)
  BY <1>4
<1> HIDE DEF c, G
<1>6. c \in [1..LEVELS -> S] /\ WalkRun(M, r, va, c)
  <2>0. /\ LEVELS \in 1..LEVELS
        /\ \A l \in 1..LEVELS-1 : l \in 1..LEVELS /\ l # LEVELS /\ l + 1 \in 1..LEVELS
    BY <1>0
  <2>1. /\ c[LEVELS] = r
        /\ \A l \in 1..LEVELS-1 :
             c[l] = IF c[l+1] = 0 THEN 0 ELSE M[c[l+1]][Idx(l+1, va)].frame
    BY <1>5, <2>0 DEF WalkRec
  <2> DEFINE T == {l \in 1..LEVELS : c[l] \in S}
  <2>2. LEVELS \in T
    BY <2>0, <2>1
  <2>3. ASSUME NEW l \in 1..LEVELS-1, l + 1 \in T PROVE l \in T
    <3>1. c[l+1] \in S /\ l \in 1..LEVELS /\ l + 1 \in 1..LEVELS
      BY <2>0, <2>3
    <3>2. c[l+1] # 0 => M[c[l+1]][Idx(l+1, va)].frame \in S
      BY <3>1, IdxType, EntryFacts
    <3>3. c[l] \in S
      BY <2>1, <3>1, <3>2
    <3> QED
      BY <3>1, <3>3
  <2>4. 1..LEVELS \subseteq T
    <3> HIDE DEF T
    <3> QED
      BY <2>2, <2>3, DownInduction
  <2>5. c = [l \in 1..LEVELS |-> c[l]]
    BY <1>5 DEF WalkRec
  <2>6. c \in [1..LEVELS -> S]
    BY <2>4, <2>5
  <2> QED
    BY <2>1, <2>6 DEF WalkRun
<1>7. pmap_walk(M, r, va) = c[1]
  BY DEF pmap_walk, WalkRec, c
<1> QED
  BY <1>6, <1>7

LEMMA WalkUnique ==
  ASSUME NEW M, NEW r, NEW va, NEW w, NEW v, WalkRun(M, r, va, w), WalkRun(M, r, va, v)
  PROVE  \A l \in 1..LEVELS : w[l] = v[l]
<1> DEFINE T == {l \in 1..LEVELS : w[l] = v[l]}
<1>0. LEVELS \in Nat /\ LEVELS >= 2
  BY Halves
<1>1. LEVELS \in T
  BY <1>0 DEF WalkRun
<1>2. ASSUME NEW l \in 1..LEVELS-1, l + 1 \in T PROVE l \in T
  BY <1>0, <1>2 DEF WalkRun
<1>3. 1..LEVELS \subseteq T
  <2> HIDE DEF T
  <2> QED
    BY <1>1, <1>2, DownInduction
<1> QED
  BY <1>3

LEMMA WalkIs ==
  ASSUME NEW M \in Memory, NEW r \in Frames, NEW va \in Nat, NEW w, WalkRun(M, r, va, w)
  PROVE  pmap_walk(M, r, va) = w[1]
<1>1. PICK v : WalkRun(M, r, va, v) /\ pmap_walk(M, r, va) = v[1]
  BY WalkDef
<1>2. 1 \in 1..LEVELS
  BY Halves
<1> QED
  BY <1>1, <1>2, WalkUnique

\* The tables on the way are in use and of the level they should be.
LEMMA WalkLevels ==
  ASSUME NEW M, NEW F, NEW lev, NEW k, NEW R, NEW D, Tree(M, F, lev, k, R, D),
         NEW r \in R \cup {k}, NEW va \in Nat, NEW w, WalkRun(M, r, va, w)
  PROVE  \A l \in 1..LEVELS : w[l] # 0 => w[l] \in Frames \ F /\ w[l] \notin D /\ lev[w[l]] = l
<1> DEFINE T == {l \in 1..LEVELS : w[l] # 0 => w[l] \in Frames \ F /\ w[l] \notin D /\ lev[w[l]] = l}
<1>0. /\ k \in Frames \ F /\ R \subseteq Frames \ F /\ LEVELS \in Nat /\ LEVELS >= 2
      /\ Levelled(F, lev, k, R, D) /\ LinksDown(M, F, lev, D)
  BY TreeFacts
<1>1. LEVELS \in T
  BY <1>0 DEF WalkRun, Levelled
<1>2. ASSUME NEW l \in 1..LEVELS-1, l + 1 \in T PROVE l \in T
  <2>1. l \in 1..LEVELS /\ l + 1 \in 1..LEVELS /\ (l + 1) - 1 = l
    BY <1>0
  <2>2. w[l] = IF w[l+1] = 0 THEN 0 ELSE M[w[l+1]][Idx(l+1, va)].frame
    BY DEF WalkRun
  <2>3. Idx(l+1, va) \in Indices
    BY <2>1, IdxType
  <2> SUFFICES ASSUME w[l] # 0 PROVE w[l] \in Frames \ F /\ w[l] \notin D /\ lev[w[l]] = l
    BY <2>1
  <2>4. w[l+1] # 0 /\ w[l+1] \in Frames \ F /\ lev[w[l+1]] = l + 1
    BY <1>2, <2>2
  <2> QED
    BY <1>0, <2>1, <2>2, <2>3, <2>4 DEF LinksDown
<1>3. 1..LEVELS \subseteq T
  <2> HIDE DEF T
  <2> QED
    BY <1>1, <1>2, DownInduction
<1> QED
  BY <1>3

\* The same pages are seen through both memories.
SeenAlike(M, N, X) == \A x \in X, va \in Nat : pmap_query(N, x, va) = pmap_query(M, x, va)

LEMMA QueryType ==
  ASSUME NEW M \in Memory, NEW r \in Frames, NEW va \in Nat
  PROVE  pmap_query(M, r, va) \in Entry
<1>1. PICK w : WalkRun(M, r, va, w) /\ pmap_walk(M, r, va) = w[1]
  BY WalkDef
<1>2. 1 \in 1..LEVELS
  BY Halves
<1>3. w[1] \in Frames \cup {0} /\ Idx(1, va) \in Indices
  BY <1>1, <1>2, IdxType DEF WalkRun
<1> QED
  BY <1>1, <1>3, EntryFacts, ZeroedFacts DEF pmap_query

\* What is not a table may change.
LEMMA SameTables ==
  ASSUME NEW M, NEW F, NEW lev, NEW k, NEW R, NEW D, Tree(M, F, lev, k, R, D),
         NEW N \in Memory, \A f \in Frames \ F : f \notin D => N[f] = M[f]
  PROVE  SeenAlike(M, N, R \cup {k})
<1> SUFFICES ASSUME NEW x \in R \cup {k}, NEW va \in Nat
             PROVE  pmap_query(N, x, va) = pmap_query(M, x, va)
  BY DEF SeenAlike
<1>0. M \in Memory /\ x \in Frames /\ LEVELS \in Nat /\ LEVELS >= 2
  BY TreeFacts
<1>1. PICK w : WalkRun(M, x, va, w) /\ pmap_walk(M, x, va) = w[1]
  BY <1>0, WalkDef
<1>2. \A l \in 1..LEVELS : w[l] # 0 => N[w[l]] = M[w[l]]
  BY <1>1, WalkLevels
<1>3. WalkRun(N, x, va, w)
  <2>1. \A l \in 1..LEVELS-1 : l + 1 \in 1..LEVELS
    BY <1>0
  <2> QED
    BY <1>1, <1>2, <2>1 DEF WalkRun
<1>4. pmap_walk(N, x, va) = w[1]
  BY <1>0, <1>3, WalkIs
<1>5. w[1] # 0 => N[w[1]] = M[w[1]]
  BY <1>0, <1>2
<1> QED
  BY <1>1, <1>4, <1>5 DEF pmap_query

\* An empty table that is linked shows nothing new.
LEMMA TableLinked ==
  ASSUME NEW M, NEW F, NEW lev, NEW k, NEW R, NEW D, Tree(M, F, lev, k, R, D),
         NEW n \in D, NEW f \in Frames \ F, NEW i \in Indices, lev[f] > 1,
         M[f][i].frame = 0, NEW e \in Entry, e.frame = n
  PROVE  SeenAlike(M, Written(M, f, i, e), R \cup {k})
<1> DEFINE N == Written(M, f, i, e)
<1> SUFFICES ASSUME NEW x \in R \cup {k}, NEW va \in Nat
             PROVE  pmap_query(N, x, va) = pmap_query(M, x, va)
  BY DEF SeenAlike
<1>0. /\ M \in Memory /\ x \in Frames /\ LEVELS \in Nat /\ LEVELS >= 2 /\ n \in Frames \ F
      /\ Levelled(F, lev, k, R, D) /\ LinksDown(M, F, lev, D)
  BY TreeFacts
<1>1. /\ N \in Memory /\ N[f][i] = e
      /\ \A g \in Frames, j \in Indices : g # f \/ j # i => N[g][j] = M[g][j]
  BY <1>0, EntryWritten
<1> HIDE DEF N
<1>2. lev[n] = 0 /\ n # f /\ n # 0
  BY <1>0, Halves DEF Levelled
<1>3. \A j \in Indices : N[n][j] = Absent /\ N[n][j].frame = 0
  <2>1. \A j \in Indices : M[n][j].frame = 0
    BY <1>0, <1>2 DEF LinksDown
  <2> QED
    BY <1>0, <1>1, <1>2, <2>1, EntryFacts, ZeroedFacts
<1>4. PICK w : WalkRun(M, x, va, w) /\ pmap_walk(M, x, va) = w[1]
  BY <1>0, WalkDef
<1>5. PICK v : WalkRun(N, x, va, v) /\ pmap_walk(N, x, va) = v[1]
  BY <1>0, <1>1, WalkDef
<1> DEFINE T == {l \in 1..LEVELS : v[l] = w[l] \/ (w[l] = 0 /\ v[l] = n)}
<1>6. LEVELS \in T
  BY <1>0, <1>4, <1>5 DEF WalkRun
<1>7. ASSUME NEW l \in 1..LEVELS-1, l + 1 \in T PROVE l \in T
  <2>1. l \in 1..LEVELS /\ l + 1 \in 1..LEVELS
    BY <1>0
  <2>2. /\ w[l] = IF w[l+1] = 0 THEN 0 ELSE M[w[l+1]][Idx(l+1, va)].frame
        /\ v[l] = IF v[l+1] = 0 THEN 0 ELSE N[v[l+1]][Idx(l+1, va)].frame
        /\ w[l+1] \in Frames \cup {0}
    BY <1>4, <1>5, <2>1 DEF WalkRun
  <2>3. Idx(l+1, va) \in Indices
    BY <2>1, IdxType
  <2>4. CASE w[l+1] = 0 /\ v[l+1] = n
    BY <1>2, <1>3, <2>1, <2>2, <2>3, <2>4
  <2>5. CASE v[l+1] = w[l+1] /\ w[l+1] = f /\ Idx(l+1, va) = i
    BY <1>1, <2>1, <2>2, <2>5, Halves
  <2>6. CASE v[l+1] = w[l+1] /\ ~ (w[l+1] = f /\ Idx(l+1, va) = i)
    BY <1>1, <2>1, <2>2, <2>3, <2>6
  <2> QED
    BY <1>7, <2>4, <2>5, <2>6
<1>8. 1 \in T
  <2> HIDE DEF T
  <2>1. 1..LEVELS \subseteq T
    BY <1>6, <1>7, DownInduction
  <2> QED
    BY <1>0, <2>1
<1>9. w[1] # f /\ w[1] \in Frames \cup {0} /\ Idx(1, va) \in Indices
  <2>1. 1 \in 1..LEVELS
    BY <1>0
  <2>2. w[1] # 0 => lev[w[1]] = 1
    BY <1>4, <2>1, WalkLevels
  <2> QED
    BY <1>4, <2>1, <2>2, Halves, IdxType DEF WalkRun
<1>10. CASE w[1] = 0 /\ v[1] = n
  BY <1>2, <1>3, <1>4, <1>5, <1>9, <1>10 DEF pmap_query
<1>11. CASE v[1] = w[1]
  <2>1. w[1] # 0 => N[w[1]][Idx(1, va)] = M[w[1]][Idx(1, va)]
    BY <1>1, <1>9
  <2> QED
    BY <1>4, <1>5, <1>11, <2>1 DEF pmap_query
<1> QED
  BY <1>8, <1>10, <1>11

\* A write to a PT shows where that table is used, and there alone.
LEMMA LeafWritten ==
  ASSUME NEW M, NEW F, NEW lev, NEW k, NEW R, NEW D, Tree(M, F, lev, k, R, D),
         NEW p \in Frames \ F, lev[p] = 1, NEW j \in Indices, NEW e \in Entry,
         NEW x \in R \cup {k}, NEW va \in Nat
  PROVE  /\ pmap_walk(Written(M, p, j, e), x, va) = pmap_walk(M, x, va)
         /\ pmap_query(Written(M, p, j, e), x, va) =
              IF pmap_walk(M, x, va) = p /\ Idx(1, va) = j THEN e ELSE pmap_query(M, x, va)
<1> DEFINE N == Written(M, p, j, e)
<1>0. /\ M \in Memory /\ x \in Frames /\ LEVELS \in Nat /\ LEVELS >= 2 /\ p # 0
  BY TreeFacts, Halves
<1>1. /\ N \in Memory /\ N[p][j] = e
      /\ \A g \in Frames, i \in Indices : g # p \/ i # j => N[g][i] = M[g][i]
      /\ \A g \in Frames : g # p => N[g] = M[g]
  BY <1>0, EntryWritten
<1> HIDE DEF N
<1>2. PICK w : WalkRun(M, x, va, w) /\ pmap_walk(M, x, va) = w[1]
  BY <1>0, WalkDef
<1>3. WalkRun(N, x, va, w)
  <2> SUFFICES ASSUME NEW l \in 1..LEVELS-1
               PROVE  w[l] = IF w[l+1] = 0 THEN 0 ELSE N[w[l+1]][Idx(l+1, va)].frame
    BY <1>2 DEF WalkRun
  <2>1. l + 1 \in 1..LEVELS /\ l + 1 # 1
    BY <1>0
  <2>2. w[l+1] # 0 => w[l+1] \in Frames /\ lev[w[l+1]] = l + 1
    BY <1>2, <2>1, WalkLevels
  <2>3. w[l+1] # 0 => N[w[l+1]] = M[w[l+1]]
    BY <1>1, <2>1, <2>2
  <2> QED
    BY <1>2, <2>3 DEF WalkRun
<1>4. pmap_walk(N, x, va) = w[1]
  BY <1>0, <1>1, <1>3, WalkIs
<1>5. w[1] \in Frames \cup {0} /\ Idx(1, va) \in Indices
  <2>1. 1 \in 1..LEVELS
    BY <1>0
  <2> QED
    BY <1>2, <2>1, IdxType DEF WalkRun
<1>6. pmap_query(N, x, va) = IF w[1] = p /\ Idx(1, va) = j THEN e ELSE pmap_query(M, x, va)
  BY <1>0, <1>1, <1>2, <1>4, <1>5 DEF pmap_query
<1> QED
  BY <1>2, <1>4, <1>6 DEF N

\* Two ways to one entry of a PT are the same, or lead through the kernel's
\* half.
LEMMA SamePath ==
  ASSUME NEW M, NEW F, NEW lev, NEW k, NEW R, NEW D, Tree(M, F, lev, k, R, D),
         NEW r \in R \cup {k}, NEW va \in VPages, ~ Copied(R, r, Idx(LEVELS, va)),
         NEW x \in R \cup {k}, NEW vb \in VPages,
         pmap_walk(M, r, va) # 0, pmap_walk(M, x, vb) = pmap_walk(M, r, va), Idx(1, vb) = Idx(1, va)
  PROVE  vb = va /\ (x = r \/ (r = k /\ InKernelHalf(va)))
<1>0. /\ M \in Memory /\ x \in Frames \ F /\ r \in Frames \ F /\ k \in Frames \ F
      /\ LEVELS \in Nat /\ LEVELS >= 2
      /\ Levelled(F, lev, k, R, D) /\ LinksApart(M, F, R) /\ CopiesAgree(M, k, R)
      /\ k \notin R /\ va \in Nat /\ vb \in Nat
  BY TreeFacts, PageNumbers
<1>1. PICK w : WalkRun(M, r, va, w) /\ pmap_walk(M, r, va) = w[1]
  BY <1>0, WalkDef
<1>2. PICK v : WalkRun(M, x, vb, v) /\ pmap_walk(M, x, vb) = v[1]
  BY <1>0, WalkDef
<1>3. \A l \in 1..LEVELS : /\ w[l] # 0 => w[l] \in Frames \ F /\ lev[w[l]] = l
                           /\ v[l] # 0 => v[l] \in Frames \ F /\ lev[v[l]] = l
  BY <1>1, <1>2, <1>0, WalkLevels
<1>4. \A l \in 1..LEVELS : Idx(l, va) \in Indices /\ Idx(l, vb) \in Indices
  BY <1>0, IdxType
<1>5. \A l \in 1..LEVELS-1 :
        /\ l \in 1..LEVELS /\ l + 1 \in 1..LEVELS
        /\ w[l] # 0 => w[l+1] # 0 /\ w[l] = M[w[l+1]][Idx(l+1, va)].frame
        /\ v[l] # 0 => v[l+1] # 0 /\ v[l] = M[v[l+1]][Idx(l+1, vb)].frame
  BY <1>0, <1>1, <1>2 DEF WalkRun
<1> DEFINE T == {l \in 0..LEVELS-2 : w[l+1] = v[l+1] /\ w[l+1] # 0 /\ Idx(l+1, va) = Idx(l+1, vb)}
<1>6. 0 \in T
  BY <1>0, <1>1, <1>2
<1>7. ASSUME NEW l \in 1..LEVELS-2, l - 1 \in T PROVE l \in T
  <2>1. l \in 1..LEVELS-1 /\ (l - 1) + 1 = l /\ l + 1 \in 1..LEVELS /\ l + 1 # LEVELS
    BY <1>0
  <2>2. w[l] = v[l] /\ w[l] # 0
    BY <1>7, <2>1
  <2>3. w[l+1] # 0 /\ v[l+1] # 0 /\ M[w[l+1]][Idx(l+1, va)].frame = M[v[l+1]][Idx(l+1, vb)].frame
    BY <1>5, <2>1, <2>2
  <2>4. w[l+1] \in Frames \ F /\ lev[w[l+1]] = l + 1 /\ v[l+1] \in Frames \ F /\ lev[v[l+1]] = l + 1
    BY <1>3, <2>1, <2>3
  <2>5. w[l+1] \notin R /\ v[l+1] \notin R
    BY <1>0, <2>1, <2>4 DEF Levelled
  <2>6. w[l+1] = v[l+1] /\ Idx(l+1, va) = Idx(l+1, vb)
    BY <1>0, <1>4, <1>5, <2>1, <2>2, <2>3, <2>4, <2>5 DEF LinksApart, Copied
  <2> QED
    BY <2>1, <2>3, <2>6
<1>8. \A l \in 0..LEVELS-2 : w[l+1] = v[l+1] /\ w[l+1] # 0 /\ Idx(l+1, va) = Idx(l+1, vb)
  <2>1. LEVELS - 2 \in Nat
    BY <1>0
  <2>2. 0..LEVELS-2 \subseteq T
    <3> HIDE DEF T
    <3> QED
      BY <1>6, <1>7, <2>1, UpInduction
  <2> QED
    BY <2>2
<1> DEFINE i == Idx(LEVELS, va)
           j == Idx(LEVELS, vb)
<1>9. M[r][i].frame # 0 /\ M[x][j].frame = M[r][i].frame /\ i \in Indices /\ j \in Indices
  <2>1. LEVELS - 2 \in 0..LEVELS-2 /\ (LEVELS - 2) + 1 = LEVELS - 1
    BY <1>0
  <2>2. w[LEVELS-1] = v[LEVELS-1] /\ w[LEVELS-1] # 0
    BY <1>8, <2>1
  <2>3. LEVELS - 1 \in 1..LEVELS-1 /\ (LEVELS - 1) + 1 = LEVELS /\ LEVELS \in 1..LEVELS
    BY <1>0
  <2>4. w[LEVELS-1] = M[w[LEVELS]][i].frame /\ v[LEVELS-1] = M[v[LEVELS]][j].frame
    BY <1>5, <2>2, <2>3
  <2> QED
    BY <1>1, <1>2, <1>4, <2>2, <2>3, <2>4 DEF WalkRun
<1> HIDE DEF T
<1>10. i = j /\ (x = r \/ (r = k /\ j \in KernelHalf))
  <2>1. CASE ~ Copied(R, x, j)
    BY <1>0, <1>9, <2>1 DEF LinksApart
  <2>2. CASE Copied(R, x, j)
    <3>1. j \in KernelHalf /\ M[x][j] = M[k][j]
      BY <1>0, <1>9, <2>2 DEF Copied, CopiesAgree
    <3>2. ~ Copied(R, k, j)
      BY <1>0 DEF Copied
    <3>3. k = r /\ j = i
      BY <1>0, <1>9, <3>1, <3>2 DEF LinksApart
    <3> QED
      BY <3>1, <3>3
  <2> QED
    BY <2>1, <2>2
<1>11. \A l \in 1..LEVELS : Idx(l, va) = Idx(l, vb)
  <2>1. ASSUME NEW l \in 1..LEVELS PROVE Idx(l, va) = Idx(l, vb)
    <3>1. l # LEVELS => l - 1 \in 0..LEVELS-2 /\ (l - 1) + 1 = l
      BY <1>0
    <3> QED
      BY <1>8, <1>10, <3>1
  <2> QED
    BY <2>1
<1>12. va = vb
  BY <1>11, SameIndices
<1> QED
  BY <1>10, <1>12 DEF InKernelHalf

-----------------------------------------------------------------------------
(* The functions of the code, on a machine whose tables are a forest.      *)

Machines == [mem : Memory, free : SUBSET Frames, got : Frames \cup {0}]

\* pmap_alloc_table() finds nothing, or takes some frame and zeroes it.
LEMMA AllocDef ==
  ASSUME NEW s \in Machines, NEW a, a = pmap_alloc_table(s)
  PROVE  /\ a \in Machines
         /\ \/ s.free = {} /\ a.got = 0 /\ a.mem = s.mem /\ a.free = s.free
            \/ /\ a.got \in s.free /\ a.got # 0 /\ a.free = s.free \ {a.got}
               /\ a.mem = [s.mem EXCEPT ![a.got] = Zeroed]
<1>0. s.mem \in Memory /\ s.free \subseteq Frames
  BY DEF Machines
<1>1. CASE s.free = {}
  <2>1. a = [s EXCEPT !.got = 0]
    BY <1>1 DEF pmap_alloc_table
  <2> QED
    BY <1>1, <2>1 DEF Machines
<1>2. CASE s.free # {}
  <2> DEFINE f == CHOOSE f \in s.free : \A g \in s.free : f <= g
  <2>1. s.free \subseteq Nat
    BY <1>0 DEF Frames
  <2>2. \E m \in s.free : \A g \in s.free : m <= g
    BY <1>2, <2>1, LeastNatural
  <2>3. f \in s.free
    BY <2>2
  <2>4. a = [mem |-> [s.mem EXCEPT ![f] = Zeroed], free |-> s.free \ {f}, got |-> f]
    BY <1>2 DEF pmap_alloc_table
  <2> HIDE DEF f
  <2>5. [s.mem EXCEPT ![f] = Zeroed] \in Memory /\ f \in Frames /\ f # 0
    BY <1>0, <2>3, ZeroedFacts, Halves DEF Memory
  <2> QED
    BY <1>0, <2>3, <2>4, <2>5 DEF Machines
<1> QED
  BY <1>1, <1>2

\* From s to t, tables came to be or were linked on the way from r to va.
Grown(s, t, X, r, va) ==
  /\ t.free \subseteq s.free
  /\ \A g \in Frames \ s.free, i \in Indices :
       \/ t.mem[g][i] = s.mem[g][i]
       \/ s.mem[g][i].frame = 0 /\ (g \in X => g = r /\ i = Idx(LEVELS, va))

LEMMA GrownOn ==
  ASSUME NEW s, NEW t, NEW u, NEW X, NEW r, NEW va, Grown(s, t, X, r, va), Grown(t, u, X, r, va)
  PROVE  Grown(s, u, X, r, va)
<1>1. u.free \subseteq s.free /\ \A g \in Frames \ s.free : g \in Frames \ t.free
  BY DEF Grown
<1>2. ASSUME NEW g \in Frames \ s.free, NEW i \in Indices
      PROVE  \/ u.mem[g][i] = s.mem[g][i]
             \/ s.mem[g][i].frame = 0 /\ (g \in X => g = r /\ i = Idx(LEVELS, va))
  BY <1>1 DEF Grown
<1> QED
  BY <1>1, <1>2 DEF Grown

LEMMA SeenOn ==
  ASSUME NEW M, NEW N, NEW O, NEW X, SeenAlike(M, N, X), SeenAlike(N, O, X)
  PROVE  SeenAlike(M, O, X)
BY DEF SeenAlike

\* A frame was taken: the forest has one more that waits.
FrameTaken(s, a, v, k, R, D) ==
  /\ Tree(a.mem, a.free, v, k, R, D \cup {a.got})
  /\ a \in Machines /\ a.got \in Frames /\ a.got \in s.free /\ a.got \notin D
  /\ a.free = s.free \ {a.got}
  /\ SeenAlike(s.mem, a.mem, R \cup {k})
  /\ \A g \in Frames \ s.free : a.mem[g] = s.mem[g]

LEMMA Taking ==
  ASSUME NEW s \in Machines, NEW lev, NEW k, NEW R, NEW D, Tree(s.mem, s.free, lev, k, R, D),
         NEW a, a = pmap_alloc_table(s), a.got # 0
  PROVE  FrameTaken(s, a, [lev EXCEPT ![a.got] = 0], k, R, D)
<1>1. /\ a \in Machines /\ a.got \in s.free /\ a.free = s.free \ {a.got}
      /\ a.mem = [s.mem EXCEPT ![a.got] = Zeroed]
  BY AllocDef
<1>2. s.mem \in Memory /\ s.free \subseteq Frames /\ D \subseteq Frames \ s.free /\ a.mem \in Memory
  BY <1>1, TreeFacts DEF Machines
<1>3. \A g \in Frames \ s.free : a.mem[g] = s.mem[g]
  BY <1>1, <1>2 DEF Memory
<1>4. SeenAlike(s.mem, a.mem, R \cup {k})
  BY <1>2, <1>3, SameTables
<1> DEFINE v == [lev EXCEPT ![a.got] = 0]
<1>5. Tree(a.mem, a.free, v, k, R, D \cup {a.got})
  <2>1. Tree([s.mem EXCEPT ![a.got] = Zeroed], s.free \ {a.got}, v, k, R, D \cup {a.got})
    BY <1>1, TakeFrame
  <2> HIDE DEF v
  <2> QED
    BY <1>1, <2>1, Zenon
<1> HIDE DEF v
<1>6. FrameTaken(s, a, v, k, R, D)
  BY <1>1, <1>2, <1>3, <1>4, <1>5 DEF FrameTaken
<1> QED
  BY <1>6 DEF v

\* One level further down from s to t.
SteppedDown(s, t, v, l, k, R, D, r, va) ==
  /\ t \in Machines /\ Tree(t.mem, t.free, v, k, R, D)
  /\ SeenAlike(s.mem, t.mem, R \cup {k}) /\ Grown(s, t, R \cup {k}, r, va)
  /\ t.got # 0 => /\ t.got \in Frames \ t.free /\ v[t.got] = l - 1
                  /\ t.mem[s.got][Idx(l, va)].frame = t.got

LEMMA WalkDownTree ==
  ASSUME NEW s \in Machines, NEW lev, NEW k, NEW R, NEW D, Tree(s.mem, s.free, lev, k, R, D),
         NEW l \in 2..LEVELS, NEW va \in Nat, s.got \in Frames \ s.free, lev[s.got] = l,
         NEW r, l = LEVELS => s.got = r, ~ Copied(R, s.got, Idx(l, va)),
         NEW t, t = WalkDown(s, l, va)
  PROVE  \E v : SteppedDown(s, t, v, l, k, R, D, r, va)
<1> DEFINE f == s.got
           i == Idx(l, va)
           a == pmap_alloc_table(s)
           e == s.mem[f][i]
           z == [frame |-> a.got, flags |-> TableFlags]
<1>0. /\ LEVELS \in Nat /\ l \in 1..LEVELS /\ s.mem \in Memory /\ s.free \subseteq Frames /\ f # 0
      /\ LinksDown(s.mem, s.free, lev, D) /\ Levelled(s.free, lev, k, R, D) /\ lev \in [Frames -> 0..LEVELS]
  BY TreeFacts, Halves
<1>1. i \in Indices
  BY <1>0, IdxType
<1>2. CASE e.frame # 0
  <2>1. t = [s EXCEPT !.got = e.frame]
    BY <1>2 DEF WalkDown
  <2>2. e.frame \in Frames \ s.free /\ lev[e.frame] = l - 1
    BY <1>0, <1>1, <1>2 DEF LinksDown
  <2>3. t \in Machines /\ t.mem = s.mem /\ t.free = s.free /\ t.got = e.frame
    BY <2>1, <2>2 DEF Machines
  <2>4. SeenAlike(s.mem, t.mem, R \cup {k}) /\ Grown(s, t, R \cup {k}, r, va)
    BY <2>3 DEF SeenAlike, Grown
  <2>5. SteppedDown(s, t, lev, l, k, R, D, r, va)
    BY <2>2, <2>3, <2>4 DEF SteppedDown
  <2> QED
    BY <2>5
<1>3. CASE e.frame = 0 /\ a.got = 0
  <2>1. t = a
    BY <1>3 DEF WalkDown
  <2>2. a \in Machines /\ a.mem = s.mem /\ a.free = s.free
    BY <1>3, AllocDef
  <2>3. SeenAlike(s.mem, t.mem, R \cup {k}) /\ Grown(s, t, R \cup {k}, r, va)
    BY <2>1, <2>2 DEF SeenAlike, Grown
  <2> HIDE DEF a
  <2>4. SteppedDown(s, t, lev, l, k, R, D, r, va)
    BY <1>3, <2>1, <2>2, <2>3 DEF SteppedDown
  <2> QED
    BY <2>4
<1>4. CASE e.frame = 0 /\ a.got # 0
  <2> DEFINE v == [lev EXCEPT ![a.got] = 0]
             u == [v EXCEPT ![a.got] = v[f] - 1]
             N == Written(a.mem, f, i, z)
  <2>1. t = [a EXCEPT !.mem[f][i] = z]
    BY <1>4 DEF WalkDown
  <2>2. /\ Tree(a.mem, a.free, v, k, R, D \cup {a.got})
        /\ a.got \in Frames /\ a.got \in s.free /\ a.got \notin D /\ a.free = s.free \ {a.got}
        /\ SeenAlike(s.mem, a.mem, R \cup {k}) /\ Grown(s, a, R \cup {k}, r, va)
        /\ \A g \in Frames \ s.free : a.mem[g] = s.mem[g]
    <3>1. FrameTaken(s, a, v, k, R, D)
      BY <1>4, Taking
    <3>2. Grown(s, a, R \cup {k}, r, va)
      BY <3>1 DEF FrameTaken, Grown
    <3> HIDE DEF a, v
    <3> QED
      BY <3>1, <3>2 DEF FrameTaken
  <2>3. a \in Machines
    BY AllocDef
  <2>4. z \in Entry /\ z.frame = a.got
    BY <1>4, <2>2 DEF Entry, Pte, TableFlags
  <2>5. t = [mem |-> N, free |-> a.free, got |-> a.got]
    BY <2>1, <2>3 DEF Machines, Written
  <2> HIDE DEF a, z
  <2>6. v[f] = l /\ f \in Frames \ a.free /\ a.mem[f][i].frame = 0 /\ f # a.got
    BY <1>0, <1>4, <2>2
  <2>18. v \in [Frames -> 0..LEVELS]
    BY <2>2, TreeFacts
  <2> HIDE DEF v
  <2>7. SeenAlike(a.mem, N, R \cup {k})
    BY <1>1, <2>2, <2>4, <2>6, TableLinked
  <2>8. Tree(N, a.free, u, k, R, (D \cup {a.got}) \ {a.got})
    BY <1>1, <2>2, <2>4, <2>6, LinkFrame
  <2>9. (D \cup {a.got}) \ {a.got} = D
    BY <2>2
  <2>10. /\ N \in Memory /\ N[f][i] = z
         /\ \A g \in Frames, j \in Indices : g # f \/ j # i => N[g][j] = a.mem[g][j]
    BY <1>1, <2>3, <2>4, EntryWritten DEF Machines
  <2>11. f \in R \cup {k} => l = LEVELS
    BY <1>0 DEF Levelled
  <2> HIDE DEF N
  <2>12. t.mem = N /\ t.free = a.free /\ t.got = a.got
    BY <2>5
  <2>13. Grown(a, t, R \cup {k}, r, va)
    BY <2>6, <2>10, <2>11, <2>12 DEF Grown
  <2>14. SeenAlike(s.mem, t.mem, R \cup {k}) /\ Grown(s, t, R \cup {k}, r, va)
    BY <2>2, <2>7, <2>12, <2>13, SeenOn, GrownOn
  <2>15. t \in Machines
    BY <2>3, <2>5, <2>10 DEF Machines
  <2>16. u[a.got] = l - 1
    BY <2>2, <2>6, <2>18
  <2>17. t.mem[s.got][Idx(l, va)].frame = t.got /\ t.got \in Frames \ t.free
    BY <2>2, <2>4, <2>10, <2>12
  <2> HIDE DEF u
  <2>19. SteppedDown(s, t, u, l, k, R, D, r, va)
    BY <2>8, <2>9, <2>12, <2>14, <2>15, <2>16, <2>17 DEF SteppedDown
  <2> QED
    BY <2>19
<1> QED
  BY <1>2, <1>3, <1>4

LEMMA WalkDownType ==
  ASSUME NEW s \in Machines, s.got # 0, NEW l \in 1..LEVELS, NEW va \in Nat
  PROVE  WalkDown(s, l, va) \in Machines
<1> DEFINE i == Idx(l, va)
           a == pmap_alloc_table(s)
           e == s.mem[s.got][i]
           z == [frame |-> a.got, flags |-> TableFlags]
<1>0. s.mem \in Memory /\ s.free \subseteq Frames /\ s.got \in Frames /\ i \in Indices
  BY IdxType DEF Machines
<1>1. a \in Machines
  BY AllocDef
<1> HIDE DEF a
<1>2. e.frame \in Frames \cup {0}
  BY <1>0, EntryFacts
<1>3. CASE e.frame # 0
  BY <1>2, <1>3 DEF WalkDown, Machines
<1>4. CASE e.frame = 0 /\ a.got = 0
  BY <1>1, <1>4 DEF WalkDown, a
<1>5. CASE e.frame = 0 /\ a.got # 0
  <2>1. z \in Entry
    BY <1>1, <1>5 DEF Machines, Entry, Pte, TableFlags
  <2> HIDE DEF z, i
  <2>2. WalkDown(s, l, va) = [a EXCEPT !.mem[s.got][i] = z]
    BY <1>5 DEF WalkDown, a, z, i
  <2>3. WalkDown(s, l, va) = [mem |-> Written(a.mem, s.got, i, z), free |-> a.free, got |-> a.got]
    BY <1>1, <2>2 DEF Machines, Written
  <2>4. Written(a.mem, s.got, i, z) \in Memory
    BY <1>0, <1>1, <2>1, EntryWritten DEF Machines
  <2> QED
    BY <1>1, <2>3, <2>4 DEF Machines
<1> QED
  BY <1>3, <1>4, <1>5

CreateRec(s, r, va, c) ==
  c = [l \in 1..LEVELS |-> IF l = LEVELS THEN [s EXCEPT !.got = r]
                           ELSE IF c[l+1].got = 0 THEN c[l+1]
                           ELSE WalkDown(c[l+1], l+1, va)]

\* c[l] is the machine when the walk has come to level l.
CreateRun(s, r, va, c) ==
  /\ c[LEVELS] = [s EXCEPT !.got = r]
  /\ \A l \in 1..LEVELS-1 :
       c[l] = IF c[l+1].got = 0 THEN c[l+1] ELSE WalkDown(c[l+1], l+1, va)

LEMMA CreateDef ==
  ASSUME NEW s \in Machines, NEW r \in Frames, NEW va \in Nat
  PROVE  \E c : CreateRun(s, r, va, c) /\ pmap_walk_create(s, r, va) = c[1]
<1> DEFINE G == [l \in 1..LEVELS |->
                   [x \in Machines |-> IF x.got = 0 \/ l = LEVELS THEN x ELSE WalkDown(x, l+1, va)]]
           b == [s EXCEPT !.got = r]
           c == CHOOSE c : CreateRec(s, r, va, c)
<1>0. LEVELS \in Nat /\ LEVELS >= 2
  BY Halves
<1>1. \A l \in 1..LEVELS : l # LEVELS => l + 1 \in 1..LEVELS
  BY <1>0
<1>2. G \in [1..LEVELS -> [Machines -> Machines]]
  <2>1. ASSUME NEW l \in 1..LEVELS, NEW x \in Machines, x.got # 0, l # LEVELS
        PROVE  WalkDown(x, l+1, va) \in Machines
    BY <1>1, <2>1, WalkDownType
  <2> QED
    BY <2>1
<1>3. b \in Machines
  BY DEF Machines
<1>4. PICK w \in [1..LEVELS -> Machines] : LevelRun(b, G, w)
  <2> HIDE DEF G, b
  <2> QED
    BY <1>2, <1>3, DownRecursion
<1>5. CreateRec(s, r, va, w)
  <2>1. \A l \in 1..LEVELS : l # LEVELS =>
          G[l][w[l+1]] = IF w[l+1].got = 0 THEN w[l+1] ELSE WalkDown(w[l+1], l+1, va)
    BY <1>1, <1>4
  <2> HIDE DEF G
  <2> QED
    BY <1>4, <2>1 DEF CreateRec, LevelRun
<1>6. CreateRec(s, r, va, c)
  BY <1>5
<1> HIDE DEF c
<1>7. CreateRun(s, r, va, c)
  <2>0. /\ LEVELS \in 1..LEVELS
        /\ \A l \in 1..LEVELS-1 : l \in 1..LEVELS /\ l # LEVELS
    BY <1>0
  <2> QED
    BY <1>6, <2>0 DEF CreateRec, CreateRun
<1>8. pmap_walk_create(s, r, va) = c[1]
  BY DEF pmap_walk_create, CreateRec, c
<1> QED
  BY <1>7, <1>8

\* The machine t that pmap_walk_create() reached at level l, from s.
Reached(s, t, v, l, k, R, D, r, va) ==
  /\ t \in Machines /\ Tree(t.mem, t.free, v, k, R, D)
  /\ SeenAlike(s.mem, t.mem, R \cup {k}) /\ Grown(s, t, R \cup {k}, r, va)
  /\ t.got # 0 => t.got \in Frames \ t.free /\ v[t.got] = l /\ (l = LEVELS => t.got = r)

\* The tables of the levels from l on lead to one another.
PathSoFar(c, l, va) ==
  \A j \in l..LEVELS-1 : /\ c[j].got # 0 /\ c[j+1].got \in Frames \ c[l].free
                         /\ c[l].mem[c[j+1].got][Idx(j+1, va)].frame = c[j].got

\* pmap_walk() with create = 1 leaves a forest in which the same pages are
\* seen, and ends at the PT of va or without memory.
CreateDone(s, w, v, k, R, D, r, va) ==
  /\ Reached(s, w, v, 1, k, R, D, r, va)
  /\ w.got # 0 => pmap_walk(w.mem, r, va) = w.got

LEMMA CreateTree ==
  ASSUME NEW s \in Machines, NEW lev, NEW k, NEW R, NEW D, Tree(s.mem, s.free, lev, k, R, D),
         NEW r \in R \cup {k}, NEW va \in Nat, ~ Copied(R, r, Idx(LEVELS, va)),
         NEW w, w = pmap_walk_create(s, r, va)
  PROVE  \E v : CreateDone(s, w, v, k, R, D, r, va)
<1>0. /\ LEVELS \in Nat /\ LEVELS >= 2 /\ r \in Frames \ s.free /\ r # 0
      /\ lev[r] = LEVELS /\ s.mem \in Memory
  BY TreeFacts, Halves DEF Levelled
<1>1. PICK c : CreateRun(s, r, va, c) /\ w = c[1]
  BY <1>0, CreateDef
<1> DEFINE T == {l \in 1..LEVELS : /\ \E v : Reached(s, c[l], v, l, k, R, D, r, va)
                                   /\ c[l].got # 0 => PathSoFar(c, l, va)}
<1>2. LEVELS \in T
  <2>1. c[LEVELS] = [s EXCEPT !.got = r]
    BY <1>1 DEF CreateRun
  <2>2. /\ c[LEVELS] \in Machines /\ c[LEVELS].mem = s.mem /\ c[LEVELS].free = s.free
        /\ c[LEVELS].got = r
    BY <1>0, <2>1 DEF Machines
  <2>3. Reached(s, c[LEVELS], lev, LEVELS, k, R, D, r, va)
    BY <1>0, <2>2 DEF Reached, SeenAlike, Grown
  <2>4. PathSoFar(c, LEVELS, va)
    BY <1>0 DEF PathSoFar
  <2> QED
    BY <1>0, <2>3, <2>4
<1>3. ASSUME NEW l \in 1..LEVELS-1, l + 1 \in T PROVE l \in T
  <2> DEFINE t == c[l+1]
             u == c[l]
  <2>0. l \in 1..LEVELS /\ l + 1 \in 2..LEVELS /\ (l + 1) - 1 = l /\ l # LEVELS
    BY <1>0
  <2>1. PICK v : Reached(s, t, v, l + 1, k, R, D, r, va)
    BY <1>3
  <2>2. u = IF t.got = 0 THEN t ELSE WalkDown(t, l+1, va)
    BY <1>1 DEF CreateRun
  <2> HIDE DEF t, u
  <2>3. CASE t.got = 0
    <3>1. u = t /\ u.got = 0
      BY <2>2, <2>3
    <3>2. Reached(s, u, v, l, k, R, D, r, va)
      BY <2>1, <3>1 DEF Reached
    <3> QED
      BY <2>0, <3>1, <3>2 DEF u
  <2>4. CASE t.got # 0
    <3>1. /\ t \in Machines /\ Tree(t.mem, t.free, v, k, R, D)
          /\ SeenAlike(s.mem, t.mem, R \cup {k}) /\ Grown(s, t, R \cup {k}, r, va)
          /\ t.got \in Frames \ t.free /\ v[t.got] = l + 1 /\ (l + 1 = LEVELS => t.got = r)
      BY <2>1, <2>4 DEF Reached
    <3>2. ~ Copied(R, t.got, Idx(l + 1, va))
      <4>1. Levelled(t.free, v, k, R, D)
        BY <3>1, TreeFacts
      <4>2. l + 1 # LEVELS => t.got \notin R
        BY <3>1, <4>1 DEF Levelled
      <4> QED
        BY <3>1, <4>2 DEF Copied
    <3>3. u = WalkDown(t, l + 1, va)
      BY <2>2, <2>4
    <3>9. PICK y : SteppedDown(t, u, y, l + 1, k, R, D, r, va)
      BY <2>0, <3>1, <3>2, <3>3, WalkDownTree
    <3>4. /\ u \in Machines
          /\ SeenAlike(t.mem, u.mem, R \cup {k})
          /\ Grown(t, u, R \cup {k}, r, va)
      BY <3>9 DEF SteppedDown
    <3>5. /\ Tree(u.mem, u.free, y, k, R, D)
          /\ u.got # 0 => /\ u.got \in Frames \ u.free /\ y[u.got] = (l + 1) - 1
                          /\ u.mem[t.got][Idx(l + 1, va)].frame = u.got
      BY <3>9 DEF SteppedDown
    <3>6. SeenAlike(s.mem, u.mem, R \cup {k}) /\ Grown(s, u, R \cup {k}, r, va)
      BY <3>1, <3>4, SeenOn, GrownOn
    <3>7. Reached(s, u, y, l, k, R, D, r, va)
      BY <2>0, <3>4, <3>5, <3>6 DEF Reached
    <3>8. ASSUME u.got # 0 PROVE PathSoFar(c, l, va)
      <4> SUFFICES ASSUME NEW j \in l..LEVELS-1
                   PROVE  /\ c[j].got # 0 /\ c[j+1].got \in Frames \ u.free
                          /\ u.mem[c[j+1].got][Idx(j+1, va)].frame = c[j].got
        BY DEF PathSoFar, u
      <4>1. CASE j = l
        <5>1. t.got \in Frames \ u.free
          BY <3>1, <3>4 DEF Grown
        <5> QED
          BY <3>5, <3>8, <4>1, <5>1 DEF t, u
      <4>2. CASE j # l
        <5>1. j \in (l+1)..(LEVELS-1) /\ j + 1 \in 1..LEVELS
          BY <1>0, <2>0, <4>2
        <5>2. /\ c[j].got # 0 /\ c[j+1].got \in Frames \ t.free
              /\ t.mem[c[j+1].got][Idx(j+1, va)].frame = c[j].got
          BY <1>3, <2>4, <5>1 DEF PathSoFar, t
        <5>3. Idx(j+1, va) \in Indices
          BY <5>1, IdxType
        <5>4. u.mem[c[j+1].got][Idx(j+1, va)] = t.mem[c[j+1].got][Idx(j+1, va)]
          BY <3>4, <5>2, <5>3 DEF Grown
        <5> QED
          BY <3>4, <5>2, <5>4 DEF Grown
      <4> QED
        BY <4>1, <4>2
    <3> QED
      BY <2>0, <3>7, <3>8 DEF u
  <2> QED
    BY <2>3, <2>4
<1>4. 1 \in T
  <2> HIDE DEF T
  <2>1. 1..LEVELS \subseteq T
    BY <1>2, <1>3, DownInduction
  <2> QED
    BY <1>0, <2>1
<1>5. PICK v : Reached(s, w, v, 1, k, R, D, r, va)
  BY <1>1, <1>4
<1>6. ASSUME w.got # 0 PROVE pmap_walk(w.mem, r, va) = w.got
  <2>1. PathSoFar(c, 1, va)
    BY <1>1, <1>4, <1>6
  <2> DEFINE p == [l \in 1..LEVELS |-> c[l].got]
  <2>2. ASSUME NEW l \in 1..LEVELS PROVE c[l].got \in Frames
    <3>1. CASE l = LEVELS
      <4>1. c[LEVELS] = [s EXCEPT !.got = r]
        BY <1>1 DEF CreateRun
      <4> QED
        BY <1>0, <3>1, <4>1 DEF Machines
    <3>2. CASE l = 1
      BY <1>1, <1>5, <1>6, <3>2 DEF Reached
    <3>3. CASE l # LEVELS /\ l # 1
      <4>1. l - 1 \in 1..LEVELS-1 /\ (l - 1) + 1 = l
        BY <1>0, <3>3
      <4> QED
        BY <2>1, <4>1 DEF PathSoFar
    <3> QED
      BY <3>1, <3>2, <3>3
  <2>3. WalkRun(w.mem, r, va, p)
    <3>1. p \in [1..LEVELS -> Frames \cup {0}]
      BY <2>2
    <3>2. p[LEVELS] = r
      <4>1. c[LEVELS] = [s EXCEPT !.got = r] /\ LEVELS \in 1..LEVELS
        BY <1>0, <1>1 DEF CreateRun
      <4> QED
        BY <4>1 DEF Machines
    <3>3. ASSUME NEW l \in 1..LEVELS-1
          PROVE  p[l] = IF p[l+1] = 0 THEN 0 ELSE w.mem[p[l+1]][Idx(l+1, va)].frame
      <4>1. l \in 1..LEVELS /\ l + 1 \in 1..LEVELS
        BY <1>0
      <4>2. p[l] = c[l].got /\ p[l+1] = c[l+1].got /\ p[l+1] # 0
        BY <2>2, <4>1, Halves
      <4>3. w.mem[c[l+1].got][Idx(l+1, va)].frame = c[l].got
        BY <1>1, <2>1 DEF PathSoFar
      <4> QED
        BY <4>2, <4>3
    <3> HIDE DEF p
    <3> QED
      BY <3>1, <3>2, <3>3 DEF WalkRun
  <2>4. pmap_walk(w.mem, r, va) = p[1]
    <3> HIDE DEF p
    <3>1. w.mem \in Memory /\ r \in Frames
      BY <1>0, <1>5 DEF Reached, Machines
    <3> QED
      BY <2>3, <3>1, WalkIs
  <2>5. p[1] = w.got
    BY <1>0, <1>1
  <2> QED
    BY <2>4, <2>5
<1> QED
  BY <1>5, <1>6 DEF CreateDone

-----------------------------------------------------------------------------
(* Mapping a page, unmapping it, and an address space that begins.         *)

\* Only va is translated otherwise, and only from r, or in the kernel's half.
ChangedAt(M, N, X, r, va) ==
  \A x \in X, vb \in VPages :
    pmap_query(N, x, vb) # pmap_query(M, x, vb) => vb = va /\ (x = r \/ InKernelHalf(va))

\* The PML4s are as they were, but for a slot on the way from r to va.
RootsKept(M, N, X, r, va) ==
  \A g \in X, i \in Indices :
    N[g][i] = M[g][i] \/ (M[g][i].frame = 0 /\ g = r /\ i = Idx(LEVELS, va))

PageMapped(s, b, v, k, R, D, r, va, e) ==
  /\ b \in Machines /\ Tree(b.mem, b.free, v, k, R, D) /\ b.free \subseteq s.free
  /\ pmap_query(b.mem, r, va) = e
  /\ ChangedAt(s.mem, b.mem, R \cup {k}, r, va) /\ RootsKept(s.mem, b.mem, R \cup {k}, r, va)

PageRefused(s, b, v, k, R, D, r, va, n) ==
  /\ b \in Machines /\ Tree(b.mem, b.free \cup {n}, v, k, R, D) /\ b.free \cup {n} \subseteq s.free
  /\ SeenAlike(s.mem, b.mem, R \cup {k}) /\ RootsKept(s.mem, b.mem, R \cup {k}, r, va)

\* The root of an address space and an address that may be mapped in it.
OwnPage(k, R, r, va) ==
  r \in R \cup {k} /\ va \in VPages /\ ~ Copied(R, r, Idx(LEVELS, va))

LEMMA LeafChanged ==
  ASSUME NEW M, NEW F, NEW lev, NEW k, NEW R, NEW D, Tree(M, F, lev, k, R, D),
         NEW r, NEW va, OwnPage(k, R, r, va), NEW p, p = pmap_walk(M, r, va), p # 0,
         NEW e \in Entry, NEW N, N = Written(M, p, Idx(1, va), e)
  PROVE  /\ p \in Frames \ F /\ lev[p] = 1 /\ p \notin R \cup {k} /\ Idx(1, va) \in Indices
         /\ pmap_query(M, r, va) = M[p][Idx(1, va)]
         /\ pmap_query(N, r, va) = e
         /\ ChangedAt(M, N, R \cup {k}, r, va)
         /\ RootsKept(M, N, R \cup {k}, r, va)
<1>0. /\ M \in Memory /\ r \in R \cup {k} /\ r \in Frames /\ va \in VPages /\ va \in Nat
      /\ ~ Copied(R, r, Idx(LEVELS, va))
      /\ LEVELS \in Nat /\ LEVELS >= 2 /\ R \cup {k} \subseteq Frames /\ Levelled(F, lev, k, R, D)
  BY TreeFacts, PageNumbers DEF OwnPage
<1>1. p \in Frames \ F /\ lev[p] = 1 /\ Idx(1, va) \in Indices
  <2>1. PICK w : WalkRun(M, r, va, w) /\ p = w[1]
    BY <1>0, WalkDef
  <2>2. 1 \in 1..LEVELS
    BY <1>0
  <2>3. p \in Frames \ F /\ lev[p] = 1
    BY <1>0, <2>1, <2>2, WalkLevels
  <2> QED
    BY <1>0, <2>2, <2>3, IdxType
<1>2. p \notin R \cup {k}
  BY <1>0, <1>1 DEF Levelled
<1>3. \A x \in R \cup {k}, vb \in Nat :
        pmap_query(N, x, vb) = IF pmap_walk(M, x, vb) = p /\ Idx(1, vb) = Idx(1, va)
                                 THEN e ELSE pmap_query(M, x, vb)
  BY <1>1, LeafWritten
<1>4. pmap_query(N, r, va) = e
  BY <1>0, <1>3
<1>5. ChangedAt(M, N, R \cup {k}, r, va)
  <2> SUFFICES ASSUME NEW x \in R \cup {k}, NEW vb \in VPages,
                      pmap_query(N, x, vb) # pmap_query(M, x, vb)
               PROVE  vb = va /\ (x = r \/ InKernelHalf(va))
    BY DEF ChangedAt
  <2>1. pmap_walk(M, x, vb) = p /\ Idx(1, vb) = Idx(1, va)
    BY <1>3, PageNumbers
  <2> QED
    BY <1>0, <2>1, SamePath
<1>6. \A g \in R \cup {k} : N[g] = M[g]
  BY <1>0, <1>1, <1>2, EntryWritten
<1>7. RootsKept(M, N, R \cup {k}, r, va)
  BY <1>6 DEF RootsKept
<1>8. pmap_query(M, r, va) = M[p][Idx(1, va)]
  BY DEF pmap_query
<1> QED
  BY <1>1, <1>2, <1>4, <1>5, <1>7, <1>8

\* A page that was allocated is mapped, or given back; a page that was mapped
\* there before is lost: the frames that wait become Q.
PagePlaced(s, b, n, v, k, R, D, Q, r, va, flags) ==
  /\ pmap_query(s.mem, r, va) = Absent \/ b.got = 0 => Q = D
  /\ IF b.got = 0
       THEN PageRefused(s, b, v, k, R, Q, r, va, n)
       ELSE PageMapped(s, b, v, k, R, Q, r, va, [frame |-> n, flags |-> flags])

LEMMA PlacePage ==
  ASSUME NEW s \in Machines, NEW lev, NEW k, NEW R, NEW D, Tree(s.mem, s.free, lev, k, R, D),
         NEW r, NEW va, OwnPage(k, R, r, va),
         NEW a, a = pmap_alloc_table(s), a.got # 0,
         NEW flags \in SUBSET {"W", "NX"},
         NEW b, b = pmap_map(a, r, va, a.got, flags)
  PROVE  \E v, Q : PagePlaced(s, b, a.got, v, k, R, D, Q, r, va, flags)
<1> DEFINE n == a.got
           X == R \cup {k}
           E == D \cup {n}
           u == [lev EXCEPT ![n] = 0]
           w == pmap_walk_create(a, r, va)
           e == [frame |-> n, flags |-> flags]
           i == Idx(1, va)
<1>0. /\ r \in X /\ va \in VPages /\ va \in Nat /\ ~ Copied(R, r, Idx(LEVELS, va))
      /\ X \subseteq Frames \ s.free
  BY TreeFacts, PageNumbers DEF OwnPage
<1>1. FrameTaken(s, a, u, k, R, D)
  BY Taking
<1>2. /\ Tree(a.mem, a.free, u, k, R, E) /\ a \in Machines /\ n \in Frames /\ n \in s.free /\ n \notin D
      /\ a.free = s.free \ {n} /\ SeenAlike(s.mem, a.mem, X)
      /\ \A g \in Frames \ s.free : a.mem[g] = s.mem[g]
  BY <1>1 DEF FrameTaken
<1>3. PICK v : CreateDone(a, w, v, k, R, E, r, va)
  <2> HIDE DEF E, u, n
  <2> QED
    BY <1>0, <1>2, CreateTree
<1>4. b = IF w.got = 0 THEN w ELSE [w EXCEPT !.mem[w.got][i] = e]
  BY DEF pmap_map
<1> HIDE DEF w, u
<1>5. /\ w \in Machines /\ Tree(w.mem, w.free, v, k, R, E)
      /\ SeenAlike(a.mem, w.mem, X) /\ Grown(a, w, X, r, va)
      /\ w.got # 0 => /\ w.got \in Frames \ w.free /\ v[w.got] = 1
                      /\ pmap_walk(w.mem, r, va) = w.got
  BY <1>3 DEF CreateDone, Reached
<1>6. SeenAlike(s.mem, w.mem, X)
  BY <1>2, <1>5, SeenOn
<1>7. RootsKept(s.mem, w.mem, X, r, va)
  <2> SUFFICES ASSUME NEW g \in X, NEW j \in Indices
               PROVE  w.mem[g][j] = s.mem[g][j]
                        \/ (s.mem[g][j].frame = 0 /\ g = r /\ j = Idx(LEVELS, va))
    BY DEF RootsKept
  <2>1. g \in Frames \ s.free /\ g \in Frames \ a.free /\ a.mem[g] = s.mem[g]
    BY <1>0, <1>2
  <2> QED
    BY <1>5, <2>1 DEF Grown
<1>8. w.free \subseteq s.free /\ w.free \cup {n} \subseteq s.free /\ E \ {n} = D
  BY <1>2, <1>5 DEF Grown
<1>9. CASE w.got = 0
  <2>1. Tree(w.mem, w.free \cup {n}, v, k, R, E \ {n})
    <3> HIDE DEF E
    <3>1. n \in E
      BY DEF E
    <3> QED
      BY <1>5, <3>1, GiveBack
  <2>2. b = w
    BY <1>4, <1>9
  <2>3. PageRefused(s, b, v, k, R, D, r, va, n)
    BY <1>5, <1>6, <1>7, <1>8, <2>1, <2>2 DEF PageRefused
  <2> QED
    BY <1>9, <2>2, <2>3 DEF PagePlaced
<1>10. CASE w.got # 0
  <2> DEFINE N == Written(w.mem, w.got, i, e)
             y == [v EXCEPT ![n] = v[w.got] - 1]
  <2>1. e \in Entry /\ e.frame = n
    <3>1. n # 0
      OBVIOUS
    <3> QED
      BY <1>2, <3>1 DEF Entry, Pte
  <2>2. b = [mem |-> N, free |-> w.free, got |-> w.got]
    BY <1>4, <1>5, <1>10 DEF Machines, Written
  <2> HIDE DEF e
  <2>3. w.mem \in Memory /\ N \in Memory
    <3>1. i \in Indices
      BY <1>0, Halves, IdxType
    <3> QED
      BY <1>5, <1>10, <2>1, <3>1, EntryWritten DEF Machines
  <2>4. /\ w.got \in Frames \ w.free /\ v[w.got] = 1 /\ w.got \notin X /\ i \in Indices
        /\ pmap_query(w.mem, r, va) = w.mem[w.got][i]
        /\ pmap_query(N, r, va) = e
        /\ ChangedAt(w.mem, N, X, r, va) /\ RootsKept(w.mem, N, X, r, va)
    <3> HIDE DEF E
    <3>1. w.got = pmap_walk(w.mem, r, va) /\ N = Written(w.mem, w.got, Idx(1, va), e)
      BY <1>5, <1>10
    <3> HIDE DEF N, i
    <3> QED
      BY <1>5, <1>10, <2>1, <3>1, LeafChanged DEF i
  <2>5. pmap_query(s.mem, r, va) = w.mem[w.got][i]
    BY <1>0, <1>6, <2>4 DEF SeenAlike
  <2>6. PICK Q : /\ Tree(N, w.free, y, k, R, Q)
                 /\ pmap_query(s.mem, r, va) = Absent => Q = D
    <3>1. n \in E /\ v[w.got] > 0 /\ ~ Copied(R, w.got, i)
      BY <2>4 DEF Copied
    <3>2. CASE w.mem[w.got][i].frame = 0
      <4>1. Tree(N, w.free, y, k, R, E \ {n})
        <5> HIDE DEF E, i, n
        <5> QED
          BY <1>5, <1>10, <2>1, <2>4, <3>1, <3>2, LinkFrame
      <4> QED
        BY <1>8, <4>1
    <3>3. CASE w.mem[w.got][i].frame # 0
      <4> DEFINE g == w.mem[w.got][i].frame
                 L == Written(w.mem, w.got, i, Absent)
                 P == E \cup {g}
      <4>1. Tree(L, w.free, v, k, R, P) /\ g \notin E
        <5> HIDE DEF E, i, n
        <5> QED
          BY <1>5, <1>10, <2>4, <3>3, LosePage
      <4>2. L \in Memory /\ L[w.got][i] = Absent /\ L[w.got][i].frame = 0
        BY <2>3, <2>4, EntryWritten, ZeroedFacts
      <4>3. Written(L, w.got, i, e) = N
        BY <2>3, <2>4 DEF Written, Memory
      <4>4. Tree(Written(L, w.got, i, e), w.free, y, k, R, P \ {n})
        <5>1. n \in P
          BY <3>1
        <5> HIDE DEF E, i, n, P, L
        <5> QED
          BY <1>10, <2>1, <2>4, <3>1, <4>1, <4>2, <5>1, LinkFrame
      <4>5. w.mem[w.got][i] # Absent
        BY <3>3, ZeroedFacts
      <4> QED
        BY <2>5, <4>3, <4>4, <4>5
    <3> QED
      BY <3>2, <3>3
  <2> HIDE DEF N, y, i
  <2>7. ChangedAt(s.mem, N, X, r, va)
    <3> SUFFICES ASSUME NEW x \in X, NEW vb \in VPages,
                        pmap_query(N, x, vb) # pmap_query(s.mem, x, vb)
                 PROVE  vb = va /\ (x = r \/ InKernelHalf(va))
      BY DEF ChangedAt
    <3>1. pmap_query(w.mem, x, vb) = pmap_query(s.mem, x, vb)
      BY <1>6, PageNumbers DEF SeenAlike
    <3> QED
      BY <2>4, <3>1 DEF ChangedAt
  <2>8. RootsKept(s.mem, N, X, r, va)
    BY <1>7, <2>4 DEF RootsKept
  <2>9. b \in Machines /\ b.mem = N /\ b.free = w.free /\ b.got = w.got
    BY <1>5, <2>2, <2>3 DEF Machines
  <2>10. PageMapped(s, b, y, k, R, Q, r, va, e)
    BY <1>8, <2>4, <2>6, <2>7, <2>8, <2>9 DEF PageMapped
  <2>11. PageMapped(s, b, y, k, R, Q, r, va, [frame |-> a.got, flags |-> flags])
    BY <2>10 DEF e
  <2>12. (pmap_query(s.mem, r, va) = Absent \/ b.got = 0 => Q = D) /\ b.got # 0
    BY <1>10, <2>6, <2>9
  <2> QED
    BY <2>11, <2>12 DEF PagePlaced
<1> QED
  BY <1>9, <1>10

\* The same where none was mapped.
LEMMA FreshPage ==
  ASSUME NEW s \in Machines, NEW lev, NEW k, NEW R, NEW D, Tree(s.mem, s.free, lev, k, R, D),
         NEW r, NEW va, OwnPage(k, R, r, va), pmap_query(s.mem, r, va) = Absent,
         NEW a, a = pmap_alloc_table(s), a.got # 0,
         NEW flags \in SUBSET {"W", "NX"},
         NEW b, b = pmap_map(a, r, va, a.got, flags)
  PROVE  \E v : IF b.got = 0
                  THEN PageRefused(s, b, v, k, R, D, r, va, a.got)
                  ELSE PageMapped(s, b, v, k, R, D, r, va, [frame |-> a.got, flags |-> flags])
<1>1. PICK v, Q : PagePlaced(s, b, a.got, v, k, R, D, Q, r, va, flags)
  BY PlacePage
<1> QED
  BY <1>1 DEF PagePlaced

\* pmap_create() has made the PML4 n.root and the pmap_t in n.frame.
SpaceBegun(s, n, v, k, R, D) ==
  /\ n.s \in Machines /\ Tree(n.s.mem, n.s.free, v, k, R \cup {n.root}, D \cup {n.frame})
  /\ n.root \in s.free /\ n.frame \in s.free /\ n.root # n.frame
  /\ n.s.free \subseteq s.free
  /\ SeenAlike(s.mem, n.s.mem, R \cup {k})
  /\ \A g \in Frames \ s.free : n.s.mem[g] = s.mem[g]
  /\ n.s.mem[n.root] = HalfOf(s.mem, k)

LEMMA SpaceMade ==
  ASSUME NEW s \in Machines, NEW lev, NEW k, NEW R, NEW D, Tree(s.mem, s.free, lev, k, R, D),
         k = pmaps[KernelPmap].root, NEW n, n = NewSpace(s), n.root # 0
  PROVE  \E v : SpaceBegun(s, n, v, k, R, D)
<1> DEFINE a == pmap_alloc_table(s)
           d == pmap_alloc_table(a)
           half == [i \in Indices |-> IF i \in KernelHalf THEN s.mem[pmaps[KernelPmap].root][i]
                                                          ELSE Absent]
           N == [d.mem EXCEPT ![a.got] = half]
           u == [lev EXCEPT ![a.got] = 0]
           v == [u EXCEPT ![d.got] = 0]
           A == D \cup {a.got}
           E == A \cup {d.got}
           z == [v EXCEPT ![a.got] = LEVELS]
<1>1. /\ a.got # 0 /\ d.got # 0
      /\ n = [s |-> [d EXCEPT !.mem[a.got] = half], root |-> a.got, frame |-> d.got]
  BY DEF NewSpace
<1>2. half = HalfOf(s.mem, k)
  BY DEF HalfOf
<1> HIDE DEF half
<1>3. FrameTaken(s, a, u, k, R, D)
  BY <1>1, Taking
<1> HIDE DEF u, a
<1>4. /\ Tree(a.mem, a.free, u, k, R, A) /\ a \in Machines /\ a.got \in Frames /\ a.got \in s.free /\ a.got \notin D
      /\ a.free = s.free \ {a.got} /\ SeenAlike(s.mem, a.mem, R \cup {k})
      /\ \A g \in Frames \ s.free : a.mem[g] = s.mem[g]
  BY <1>3 DEF FrameTaken
<1>5. FrameTaken(a, d, v, k, R, A)
  <2> HIDE DEF A
  <2> QED
    BY <1>1, <1>4, Taking
<1> HIDE DEF v, d
<1>6. /\ Tree(d.mem, d.free, v, k, R, E) /\ d \in Machines /\ d.got \in Frames /\ d.got \in a.free /\ d.got \notin A
      /\ d.free = a.free \ {d.got} /\ SeenAlike(a.mem, d.mem, R \cup {k})
      /\ \A g \in Frames \ a.free : d.mem[g] = a.mem[g]
  BY <1>5 DEF FrameTaken
<1>7. k \in Frames \ s.free /\ s.mem \in Memory /\ d.mem \in Memory
  BY <1>6, TreeFacts DEF Machines
<1>8. half = HalfOf(d.mem, k)
  <2>1. k \in Frames \ a.free
    BY <1>4, <1>7
  <2>2. d.mem[k] = s.mem[k]
    BY <1>4, <1>6, <1>7, <2>1
  <2> QED
    BY <1>2, <2>2 DEF HalfOf
<1>9. Tree(N, d.free, z, k, R \cup {a.got}, E \ {a.got})
  <2>1. a.got \in E
    OBVIOUS
  <2>2. Tree([d.mem EXCEPT ![a.got] = HalfOf(d.mem, k)], d.free, z, k, R \cup {a.got}, E \ {a.got})
    <3> HIDE DEF E
    <3> QED
      BY <1>6, <2>1, NewRoot
  <2> HIDE DEF z, E
  <2> QED
    BY <1>8, <2>2, Zenon
<1>10. E \ {a.got} = D \cup {d.got} /\ d.got # a.got /\ d.got \in s.free
  BY <1>4, <1>6
<1>11. N \in Memory
  BY <1>9 DEF Tree
<1>12. /\ N[a.got] = half
       /\ \A g \in Frames \ s.free : N[g] = s.mem[g]
  <2>1. DOMAIN d.mem = Frames
    BY <1>7 DEF Memory
  <2>2. \A g \in Frames \ s.free : g \in Frames \ a.free /\ g # a.got
    BY <1>4
  <2> QED
    BY <1>4, <1>6, <2>1, <2>2
<1>13. SeenAlike(s.mem, N, R \cup {k})
  <2> HIDE DEF N
  <2> QED
    BY <1>11, <1>12, SameTables
<1>14. n.s = [mem |-> N, free |-> d.free, got |-> d.got] /\ n.root = a.got /\ n.frame = d.got
  <2>1. d = [mem |-> d.mem, free |-> d.free, got |-> d.got]
    BY <1>6 DEF Machines
  <2>2. n.s = [d EXCEPT !.mem = N] /\ n.root = a.got /\ n.frame = d.got
    BY <1>1
  <2> HIDE DEF N
  <2> QED
    BY <2>1, <2>2
<1> HIDE DEF N, z, E
<1>15. n.s \in Machines /\ n.s.mem = N /\ n.s.free = d.free
  BY <1>6, <1>11, <1>14 DEF Machines
<1>16. Tree(n.s.mem, n.s.free, z, k, R \cup {n.root}, D \cup {n.frame})
  BY <1>9, <1>10, <1>14, <1>15
<1>17. SpaceBegun(s, n, z, k, R, D)
  BY <1>2, <1>4, <1>6, <1>10, <1>12, <1>13, <1>14, <1>15, <1>16 DEF SpaceBegun
<1> QED
  BY <1>17

\* pmap_unmap() and pmap_protect() find the PT of an address that is mapped.
LEMMA MappedPage ==
  ASSUME NEW M, NEW F, NEW lev, NEW k, NEW R, NEW D, Tree(M, F, lev, k, R, D),
         NEW r, NEW va, OwnPage(k, R, r, va), NEW e, e = pmap_query(M, r, va), e # Absent
  PROVE  pmap_walk(M, r, va) # 0 /\ e \in Entry /\ e.frame # 0
<1>1. M \in Memory /\ r \in Frames /\ va \in Nat
  BY TreeFacts, PageNumbers DEF OwnPage
<1>2. e \in Entry
  BY <1>1, QueryType
<1> QED
  BY <1>2 DEF pmap_query, Entry

PageCleared(M, N, F, g, lev, k, R, D, r, va) ==
  /\ Tree(N, F \cup {g}, lev, k, R, D)
  /\ pmap_query(N, r, va) = Absent
  /\ ChangedAt(M, N, R \cup {k}, r, va) /\ RootsKept(M, N, R \cup {k}, r, va)

LEMMA PageUnmapped ==
  ASSUME NEW M, NEW F, NEW lev, NEW k, NEW R, NEW D, Tree(M, F, lev, k, R, D),
         NEW r, NEW va, OwnPage(k, R, r, va), NEW e, e = pmap_query(M, r, va), e # Absent
  PROVE  PageCleared(M, SetPte(M, r, va, Absent), F, e.frame, lev, k, R, D, r, va)
<1> DEFINE p == pmap_walk(M, r, va)
           N == Written(M, p, Idx(1, va), Absent)
<1>1. p # 0 /\ e.frame # 0
  BY MappedPage
<1>2. SetPte(M, r, va, Absent) = N
  BY DEF SetPte, Written
<1> HIDE DEF N
<1>3. /\ p \in Frames \ F /\ lev[p] = 1 /\ Idx(1, va) \in Indices
      /\ e = M[p][Idx(1, va)]
      /\ pmap_query(N, r, va) = Absent
      /\ ChangedAt(M, N, R \cup {k}, r, va) /\ RootsKept(M, N, R \cup {k}, r, va)
  <2>1. p = pmap_walk(M, r, va) /\ N = Written(M, p, Idx(1, va), Absent) /\ Absent \in Entry
    BY ZeroedFacts DEF N
  <2> HIDE DEF p
  <2> QED
    BY <1>1, <2>1, LeafChanged
<1>4. Tree(N, F \cup {e.frame}, lev, k, R, D)
  <2> HIDE DEF p
  <2> QED
    BY <1>1, <1>3, UnlinkPage DEF N
<1> QED
  BY <1>2, <1>3, <1>4 DEF PageCleared

PageReflagged(M, N, F, lev, k, R, D, r, va, e) ==
  /\ Tree(N, F, lev, k, R, D)
  /\ pmap_query(N, r, va) = e
  /\ ChangedAt(M, N, R \cup {k}, r, va) /\ RootsKept(M, N, R \cup {k}, r, va)

LEMMA PageProtected ==
  ASSUME NEW M, NEW F, NEW lev, NEW k, NEW R, NEW D, Tree(M, F, lev, k, R, D),
         NEW r, NEW va, OwnPage(k, R, r, va), NEW e, e = pmap_query(M, r, va), e # Absent,
         NEW flags \in SUBSET {"W", "NX"}, NEW x, x = [e EXCEPT !.flags = flags]
  PROVE  PageReflagged(M, SetPte(M, r, va, x), F, lev, k, R, D, r, va, x)
<1> DEFINE p == pmap_walk(M, r, va)
           N == Written(M, p, Idx(1, va), x)
<1>1. p # 0 /\ e \in Entry /\ e.frame # 0
  BY MappedPage
<1>2. SetPte(M, r, va, x) = N
  BY DEF SetPte, Written
<1>3. x \in Entry /\ x.frame = e.frame
  BY <1>1 DEF Entry, Pte
<1> HIDE DEF N
<1>4. /\ p \in Frames \ F /\ lev[p] = 1 /\ Idx(1, va) \in Indices
      /\ e = M[p][Idx(1, va)]
      /\ pmap_query(N, r, va) = x
      /\ ChangedAt(M, N, R \cup {k}, r, va) /\ RootsKept(M, N, R \cup {k}, r, va)
  <2>1. p = pmap_walk(M, r, va) /\ N = Written(M, p, Idx(1, va), x)
    BY DEF N
  <2> HIDE DEF p
  <2> QED
    BY <1>1, <1>3, <2>1, LeafChanged
<1>5. Tree(N, F, lev, k, R, D)
  <2> HIDE DEF p
  <2> QED
    BY <1>1, <1>3, <1>4, ReflagPage DEF N
<1> QED
  BY <1>2, <1>4, <1>5 DEF PageReflagged

-----------------------------------------------------------------------------
(* The invariant of PmapSpec while no address space is destroyed.          *)

Spaces == Live \ {KernelPmap}
Roots  == {pmaps[m].root : m \in Spaces}
Owned  == {pmaps[m].frame : m \in Spaces}

PmapRecord == [root : Frames \cup {0}, refs : 0..MaxRefs, frame : Frames \cup {0}]

PmapsOK ==
  /\ pmaps \in [AllPmaps -> PmapRecord]
  /\ pmaps[KernelPmap].root # 0 /\ pmaps[KernelPmap].frame = 0
  /\ \A m \in Spaces : pmaps[m].frame # 0
  /\ \A m, n \in Live : pmaps[m].root = pmaps[n].root \/ pmaps[m].frame = pmaps[n].frame => m = n

Forest == \E lev : Tree(mem, free, lev, pmaps[KernelPmap].root, Roots, Owned)

PmapInv == PmapsOK /\ Forest

\* mem' differs from mem as one page of m does.
PageStep(m, va) ==
  /\ Within(m, va) /\ UNCHANGED pmaps
  /\ ChangedAt(mem, mem', Roots \cup {pmaps[KernelPmap].root}, pmaps[m].root, va)
  /\ RootsKept(mem, mem', Roots \cup {pmaps[KernelPmap].root}, pmaps[m].root, va)

\* m came to be.
SpaceStep(m) ==
  /\ pmaps'[m].root \in free
  /\ \A n \in AllPmaps : n # m => pmaps'[n] = pmaps[n]
  /\ SeenAlike(mem, mem', Roots \cup {pmaps[KernelPmap].root})
  /\ \A g \in Frames \ free : mem'[g] = mem[g]
  /\ mem'[pmaps'[m].root] = HalfOf(mem, pmaps[KernelPmap].root)

\* Only reference counts change.
CountStep ==
  /\ mem' = mem /\ free' = free
  /\ \A n \in AllPmaps : pmaps'[n].root = pmaps[n].root /\ pmaps'[n].frame = pmaps[n].frame

StepShape ==
  \/ \E m \in Live, va \in MapRange : PageStep(m, va)
  \/ \E m \in Pmaps \ Live : SpaceStep(m)
  \/ CountStep

LEMMA PmapFacts ==
  ASSUME PmapInv
  PROVE  /\ mem \in Memory /\ free \in SUBSET Frames /\ Machine \in Machines
         /\ Machine.mem = mem /\ Machine.free = free
         /\ pmaps \in [AllPmaps -> PmapRecord] /\ KernelPmap \in Live
         /\ pmaps[KernelPmap].root \in Frames
         /\ Roots \cup {pmaps[KernelPmap].root} = {pmaps[m].root : m \in Live}
         /\ Roots \cup {pmaps[KernelPmap].root} \subseteq Frames \ free
<1>1. mem \in Memory /\ free \in SUBSET Frames /\ Roots \cup {pmaps[KernelPmap].root} \subseteq Frames \ free
  <2>1. PICK lev : Tree(mem, free, lev, pmaps[KernelPmap].root, Roots, Owned)
    BY DEF PmapInv, Forest
  <2> QED
    BY <2>1, TreeFacts
<1>2. Machine \in Machines /\ Machine.mem = mem /\ Machine.free = free
  BY <1>1 DEF Machine, Machines
<1>3. pmaps \in [AllPmaps -> PmapRecord] /\ KernelPmap \in Live
  BY DEF PmapInv, PmapsOK, Live, AllPmaps
<1>4. Roots \cup {pmaps[KernelPmap].root} = {pmaps[m].root : m \in Live}
  BY <1>3 DEF Roots, Spaces
<1> QED
  BY <1>1, <1>2, <1>3, <1>4

LEMMA OwnAddress ==
  ASSUME PmapInv, NEW m \in Live, NEW va \in VPages, Within(m, va)
  PROVE  OwnPage(pmaps[KernelPmap].root, Roots, pmaps[m].root, va)
<1> DEFINE k == pmaps[KernelPmap].root
           r == pmaps[m].root
<1>1. r \in Roots \cup {k}
  BY PmapFacts
<1>2. k \notin Roots
  BY DEF PmapInv, Forest, Tree
<1>3. CASE m = KernelPmap
  BY <1>1, <1>2, <1>3 DEF OwnPage, Copied
<1>4. CASE m # KernelPmap
  BY <1>1, <1>4 DEF OwnPage, Copied, Within, InKernelHalf
<1> QED
  BY <1>3, <1>4

\* A step that keeps pmaps keeps what is said of them.
LEMMA PmapsKept ==
  ASSUME PmapInv, UNCHANGED pmaps,
         \E lev : Tree(mem', free', lev, pmaps[KernelPmap].root, Roots, Owned)
  PROVE  PmapInv'
BY DEF PmapInv, PmapsOK, Forest, Roots, Owned, Spaces, Live

LEMMA MapPageStep ==
  ASSUME PmapInv, NEW m \in AllPmaps, NEW va \in MapRange, NEW flags \in Flags, MapPage(m, va, flags)
  PROVE  PmapInv' /\ m \in Live /\ PageStep(m, va)
<1> DEFINE k == pmaps[KernelPmap].root
           r == pmaps[m].root
           a == pmap_alloc_table(Machine)
           b == pmap_map(a, r, va, a.got, flags)
           e == [frame |-> a.got, flags |-> flags]
<1>1. /\ m \in Live /\ Within(m, va) /\ pmap_query(mem, r, va) = Absent /\ a.got # 0
      /\ mem' = b.mem /\ free' = IF b.got = 0 THEN b.free \cup {a.got} ELSE b.free
      /\ UNCHANGED pmaps
  BY DEF MapPage
<1>2. va \in VPages /\ flags \in SUBSET {"W", "NX"}
  BY PmapAssumption
<1>3. OwnPage(k, Roots, r, va)
  BY <1>1, <1>2, OwnAddress
<1>4. Machine \in Machines /\ Machine.mem = mem /\ Machine.free = free
  BY PmapFacts
<1>5. PICK lev : Tree(Machine.mem, Machine.free, lev, k, Roots, Owned)
  BY <1>4 DEF PmapInv, Forest
<1> HIDE DEF k, r
<1>6. PICK v : IF b.got = 0
                 THEN PageRefused(Machine, b, v, k, Roots, Owned, r, va, a.got)
                 ELSE PageMapped(Machine, b, v, k, Roots, Owned, r, va, e)
  BY <1>1, <1>2, <1>3, <1>4, <1>5, FreshPage
<1> HIDE DEF a, b, e
<1>7. CASE b.got = 0
  <2>1. /\ Tree(mem', free', v, k, Roots, Owned)
        /\ SeenAlike(mem, mem', Roots \cup {k}) /\ RootsKept(mem, mem', Roots \cup {k}, r, va)
    BY <1>1, <1>4, <1>6, <1>7 DEF PageRefused
  <2>2. ChangedAt(mem, mem', Roots \cup {k}, r, va)
    BY <2>1, PageNumbers DEF ChangedAt, SeenAlike
  <2>3. PmapInv'
    BY <1>1, <2>1, PmapsKept DEF k
  <2> QED
    BY <1>1, <2>1, <2>2, <2>3 DEF PageStep, k, r
<1>8. CASE b.got # 0
  <2>1. /\ Tree(mem', free', v, k, Roots, Owned)
        /\ ChangedAt(mem, mem', Roots \cup {k}, r, va) /\ RootsKept(mem, mem', Roots \cup {k}, r, va)
    BY <1>1, <1>4, <1>6, <1>8 DEF PageMapped
  <2>2. PmapInv'
    BY <1>1, <2>1, PmapsKept DEF k
  <2> QED
    BY <1>1, <2>1, <2>2 DEF PageStep, k, r
<1> QED
  BY <1>7, <1>8

LEMMA UnmapPageStep ==
  ASSUME PmapInv, NEW m \in AllPmaps, NEW va \in MapRange, UnmapPage(m, va)
  PROVE  PmapInv' /\ m \in Live /\ PageStep(m, va)
<1> DEFINE k == pmaps[KernelPmap].root
           r == pmaps[m].root
           e == pmap_query(mem, r, va)
<1>1. /\ m \in Live /\ Within(m, va) /\ e # Absent
      /\ mem' = SetPte(mem, r, va, Absent) /\ free' = free \cup {e.frame} /\ UNCHANGED pmaps
  BY DEF UnmapPage
<1>2. OwnPage(k, Roots, r, va)
  BY <1>1, OwnAddress, PmapAssumption
<1>3. PICK lev : Tree(mem, free, lev, k, Roots, Owned)
  BY DEF PmapInv, Forest
<1>4. PageCleared(mem, mem', free, e.frame, lev, k, Roots, Owned, r, va)
  <2>1. e = pmap_query(mem, r, va)
    OBVIOUS
  <2> HIDE DEF k, r, e
  <2>2. PageCleared(mem, SetPte(mem, r, va, Absent), free, e.frame, lev, k, Roots, Owned, r, va)
    BY <1>1, <1>2, <1>3, <2>1, PageUnmapped
  <2> QED
    BY <1>1, <2>2
<1> HIDE DEF k, r, e
<1>5. /\ Tree(mem', free', lev, k, Roots, Owned)
      /\ ChangedAt(mem, mem', Roots \cup {k}, r, va) /\ RootsKept(mem, mem', Roots \cup {k}, r, va)
  BY <1>1, <1>4 DEF PageCleared
<1>6. PmapInv'
  BY <1>1, <1>5, PmapsKept DEF k
<1> QED
  BY <1>1, <1>5, <1>6 DEF PageStep, k, r

LEMMA ProtectStep ==
  ASSUME PmapInv, NEW m \in AllPmaps, NEW va \in MapRange, NEW flags \in Flags,
         pmap_protect(m, va, flags)
  PROVE  PmapInv' /\ m \in Live /\ PageStep(m, va)
<1> DEFINE k == pmaps[KernelPmap].root
           r == pmaps[m].root
           e == pmap_query(mem, r, va)
           x == [e EXCEPT !.flags = flags]
<1>1. /\ m \in Live /\ Within(m, va) /\ e # Absent
      /\ mem' = SetPte(mem, r, va, x) /\ free' = free /\ UNCHANGED pmaps
  BY DEF pmap_protect
<1>2. OwnPage(k, Roots, r, va)
  BY <1>1, OwnAddress, PmapAssumption
<1>3. PICK lev : Tree(mem, free, lev, k, Roots, Owned)
  BY DEF PmapInv, Forest
<1>4. PageReflagged(mem, mem', free, lev, k, Roots, Owned, r, va, x)
  <2>1. e = pmap_query(mem, r, va) /\ x = [e EXCEPT !.flags = flags]
    OBVIOUS
  <2>2. flags \in SUBSET {"W", "NX"}
    BY PmapAssumption
  <2> HIDE DEF k, r, e, x
  <2>3. PageReflagged(mem, SetPte(mem, r, va, x), free, lev, k, Roots, Owned, r, va, x)
    BY <1>1, <1>2, <1>3, <2>1, <2>2, PageProtected
  <2> QED
    BY <1>1, <2>3
<1> HIDE DEF k, r, e, x
<1>5. /\ Tree(mem', free', lev, k, Roots, Owned)
      /\ ChangedAt(mem, mem', Roots \cup {k}, r, va) /\ RootsKept(mem, mem', Roots \cup {k}, r, va)
  BY <1>1, <1>4 DEF PageReflagged
<1>6. PmapInv'
  BY <1>1, <1>5, PmapsKept DEF k
<1> QED
  BY <1>1, <1>5, <1>6 DEF PageStep, k, r

LEMMA CreateStep ==
  ASSUME PmapInv, NEW m \in AllPmaps, pmap_create(m)
  PROVE  PmapInv' /\ m \in Pmaps \ Live /\ SpaceStep(m)
<1> DEFINE k == pmaps[KernelPmap].root
           n == NewSpace(Machine)
           new == [root |-> n.root, refs |-> 1, frame |-> n.frame]
<1>1. /\ m \in Pmaps \ Live /\ n.root # 0 /\ mem' = n.s.mem /\ free' = n.s.free
      /\ pmaps' = [pmaps EXCEPT ![m] = new]
  BY DEF pmap_create
<1>2. m # KernelPmap
  BY <1>1, PmapAssumption
<1>3. /\ Machine \in Machines /\ Machine.mem = mem /\ Machine.free = free /\ free \in SUBSET Frames
      /\ pmaps \in [AllPmaps -> PmapRecord] /\ KernelPmap \in Live
      /\ Roots \cup {k} = {pmaps[x].root : x \in Live}
      /\ Roots \cup {k} \subseteq Frames \ free
  BY PmapFacts
<1>4. PICK lev : Tree(Machine.mem, Machine.free, lev, k, Roots, Owned)
  BY <1>3 DEF PmapInv, Forest
<1>5. PICK v : SpaceBegun(Machine, n, v, k, Roots, Owned)
  <2>1. k = pmaps[KernelPmap].root /\ n = NewSpace(Machine)
    OBVIOUS
  <2> HIDE DEF k, n
  <2> QED
    BY <1>1, <1>3, <1>4, <2>1, SpaceMade
<1> HIDE DEF k, n
<1>6. /\ Tree(mem', free', v, k, Roots \cup {n.root}, Owned \cup {n.frame})
      /\ n.root \in free /\ n.frame \in free
      /\ SeenAlike(mem, mem', Roots \cup {k})
      /\ \A g \in Frames \ free : mem'[g] = mem[g]
      /\ mem'[n.root] = HalfOf(mem, k)
  BY <1>1, <1>3, <1>5 DEF SpaceBegun
<1>7. n.root \in Frames /\ n.frame \in Frames /\ n.root # 0 /\ n.frame # 0 /\ Owned \subseteq Frames \ free
  BY <1>3, <1>4, <1>6, Halves, TreeFacts
<1>8. new \in PmapRecord
  BY <1>7, PmapAssumption DEF PmapRecord
<1>9. /\ pmaps' \in [AllPmaps -> PmapRecord] /\ pmaps'[m].root = n.root /\ pmaps'[m].frame = n.frame
      /\ \A x \in AllPmaps : x # m => pmaps'[x] = pmaps[x]
  BY <1>1, <1>3, <1>8
<1>10. Live' = Live \cup {m} /\ Spaces' = Spaces \cup {m}
  <2>1. Live' = Live \cup {m}
    BY <1>7, <1>9 DEF Live
  <2> QED
    BY <1>2, <2>1 DEF Spaces
<1>11. /\ \A x \in Live : x # m /\ x \in AllPmaps /\ pmaps'[x] = pmaps[x]
       /\ \A x \in Spaces : x \in Live
  BY <1>1, <1>9 DEF Live, Spaces
<1>12. Roots' = Roots \cup {n.root} /\ Owned' = Owned \cup {n.frame} /\ pmaps'[KernelPmap] = pmaps[KernelPmap]
  <2>1. Roots' = {pmaps'[x].root : x \in Spaces \cup {m}} /\ Owned' = {pmaps'[x].frame : x \in Spaces \cup {m}}
    BY <1>10 DEF Roots, Owned
  <2>2. Roots' = Roots \cup {n.root}
    BY <1>9, <1>11, <2>1 DEF Roots
  <2>3. Owned' = Owned \cup {n.frame}
    BY <1>9, <1>11, <2>1 DEF Owned
  <2> QED
    BY <1>3, <1>11, <2>2, <2>3
<1>13. \A x \in Live : pmaps[x].root # n.root /\ pmaps[x].frame # n.frame
  <2>1. \A x \in Live : pmaps[x].root \in Roots \cup {k} /\ (x # KernelPmap => pmaps[x].frame \in Owned)
    BY <1>3 DEF Owned, Spaces
  <2>2. pmaps[KernelPmap].frame = 0
    BY DEF PmapInv, PmapsOK
  <2> QED
    BY <1>3, <1>6, <1>7, <2>1, <2>2
<1>14. PmapsOK'
  <2>1. \A x \in Spaces' : pmaps'[x].frame # 0
    BY <1>7, <1>9, <1>10, <1>11 DEF PmapInv, PmapsOK
  <2>2. \A x, y \in Live : pmaps[x].root = pmaps[y].root \/ pmaps[x].frame = pmaps[y].frame => x = y
    BY DEF PmapInv, PmapsOK
  <2>3. \A x, y \in Live' :
          pmaps'[x].root = pmaps'[y].root \/ pmaps'[x].frame = pmaps'[y].frame => x = y
    BY <1>9, <1>10, <1>11, <1>13, <2>2
  <2>4. pmaps'[KernelPmap].root # 0 /\ pmaps'[KernelPmap].frame = 0
    BY <1>12 DEF PmapInv, PmapsOK
  <2> QED
    BY <1>9, <2>1, <2>3, <2>4 DEF PmapsOK
<1>15. Forest'
  BY <1>6, <1>12 DEF Forest, k
<1>16. SpaceStep(m)
  BY <1>6, <1>9 DEF SpaceStep, k
<1> QED
  BY <1>1, <1>14, <1>15, <1>16 DEF PmapInv

LEMMA ReferenceStep ==
  ASSUME PmapInv, NEW m \in AllPmaps, NEW c \in 0..MaxRefs,
         pmaps' = [pmaps EXCEPT ![m].refs = c], UNCHANGED <<mem, free>>
  PROVE  PmapInv' /\ CountStep
<1>1. pmaps \in [AllPmaps -> PmapRecord]
  BY PmapFacts
<1>2. /\ pmaps' \in [AllPmaps -> PmapRecord]
      /\ \A n \in AllPmaps : pmaps'[n].root = pmaps[n].root /\ pmaps'[n].frame = pmaps[n].frame
  BY <1>1 DEF PmapRecord
<1>3. Live' = Live /\ Spaces' = Spaces /\ Live \subseteq AllPmaps /\ Spaces \subseteq Live /\ KernelPmap \in AllPmaps
  BY <1>2 DEF Live, Spaces, AllPmaps
<1>4. Roots' = Roots /\ Owned' = Owned
  BY <1>2, <1>3 DEF Roots, Owned
<1>5. PmapsOK'
  BY <1>2, <1>3 DEF PmapInv, PmapsOK
<1>6. Forest'
  BY <1>2, <1>3, <1>4 DEF PmapInv, Forest
<1> QED
  BY <1>2, <1>5, <1>6 DEF PmapInv, CountStep

LEMMA PmapStep ==
  ASSUME PmapInv, ~ LastRelease, PmapNext
  PROVE  PmapInv' /\ StepShape
<1>1. PICK m \in AllPmaps :
        \/ pmap_create(m) \/ pmap_reference(m) \/ pmap_destroy(m)
        \/ \E va \in MapRange :
             \/ UnmapPage(m, va)
             \/ \E flags \in Flags : MapPage(m, va, flags) \/ pmap_protect(m, va, flags)
  BY DEF PmapNext
<1>2. CASE pmap_create(m)
  BY <1>2, CreateStep DEF StepShape
<1>3. CASE pmap_reference(m) \/ pmap_destroy(m)
  <2>1. pmaps[m].refs \in 0..MaxRefs
    BY PmapFacts DEF PmapRecord
  <2>2. CASE pmap_reference(m)
    <3>1. pmaps[m].refs + 1 \in 0..MaxRefs
      BY <2>1, <2>2, PmapAssumption DEF pmap_reference
    <3> QED
      BY <2>2, <3>1, ReferenceStep DEF pmap_reference, StepShape
  <2>3. CASE pmap_destroy(m)
    <3>1. pmaps[m].refs - 1 \in 0..MaxRefs
      BY <2>1, <2>3, PmapAssumption DEF pmap_destroy
    <3> QED
      BY <2>3, <3>1, ReferenceStep DEF pmap_destroy, StepShape
  <2> QED
    BY <1>3, <2>2, <2>3
<1>4. ASSUME NEW va \in MapRange, UnmapPage(m, va) PROVE PmapInv' /\ StepShape
  BY <1>4, UnmapPageStep DEF StepShape
<1>5. ASSUME NEW va \in MapRange, NEW flags \in Flags, MapPage(m, va, flags) PROVE PmapInv' /\ StepShape
  BY <1>5, MapPageStep DEF StepShape
<1>6. ASSUME NEW va \in MapRange, NEW flags \in Flags, pmap_protect(m, va, flags)
      PROVE  PmapInv' /\ StepShape
  BY <1>6, ProtectStep DEF StepShape
<1> QED
  BY <1>1, <1>2, <1>3, <1>4, <1>5, <1>6

LEMMA PmapBegins ==
  ASSUME PmapInit PROVE PmapInv
<1> DEFINE lev == [f \in Frames |-> IF f <= LEVELS + 1 THEN LEVELS - f + 1 ELSE 0]
           x(f) == Idx(LEVELS - f + 1, KernelPage)
           e(f) == [frame |-> f + 1, flags |-> TableFlags]
           table(f) == [Zeroed EXCEPT ![x(f)] = e(f)]
<1>0. LEVELS \in Nat /\ LEVELS >= 2 /\ NFrames \in Nat /\ NFrames > LEVELS + 1
  BY PmapAssumption
<1>1. BootFrames \subseteq Frames /\ Frames \ free = BootFrames /\ 1 \in BootFrames /\ free \subseteq Frames
  BY <1>0 DEF PmapInit, BootFrames, Frames
<1>2. \A f \in BootFrames : f <= LEVELS => x(f) \in Indices
  <2>1. ASSUME NEW f \in BootFrames, f <= LEVELS PROVE x(f) \in Indices
    <3>1. LEVELS - f + 1 \in 1..LEVELS
      BY <1>0, <2>1 DEF BootFrames
    <3>2. KernelPage \in Nat
      BY PageNumbers
    <3> QED
      BY <3>1, <3>2, IdxType
  <2> QED
    BY <2>1
<1>3. /\ DOMAIN mem = Frames /\ mem = [f \in Frames |-> mem[f]]
      /\ \A f \in Frames : mem[f] = IF f <= LEVELS THEN table(f) ELSE Zeroed
  BY DEF PmapInit
<1>4. ASSUME NEW f \in Frames, f <= LEVELS
      PROVE  /\ f \in BootFrames /\ f + 1 \in BootFrames /\ e(f) \in Entry /\ table(f) \in [Indices -> Entry]
             /\ table(f)[x(f)] = e(f) /\ \A i \in Indices : i # x(f) => table(f)[i] = Absent
  <2>1. f \in BootFrames /\ f + 1 \in BootFrames /\ f + 1 # 0
    BY <1>0, <1>4 DEF BootFrames, Frames
  <2>2. e(f) \in Entry
    BY <1>1, <2>1 DEF Entry, Pte, TableFlags
  <2> HIDE DEF e
  <2>3. x(f) \in Indices
    BY <1>2, <1>4, <2>1
  <2> HIDE DEF x
  <2> QED
    BY <2>1, <2>2, <2>3, ZeroedFacts
<1> HIDE DEF table, x
<1>5. mem \in Memory
  <2>1. \A f \in Frames : mem[f] \in [Indices -> Entry]
    BY <1>3, <1>4, ZeroedFacts
  <2> QED
    BY <1>3, <2>1 DEF Memory
<1>6. ASSUME NEW f \in Frames, NEW i \in Indices, mem[f][i].frame # 0
      PROVE  f <= LEVELS /\ i = x(f) /\ mem[f][i].frame = f + 1
  <2>1. f <= LEVELS
    BY <1>3, <1>6, ZeroedFacts
  <2>2. mem[f] = table(f)
    BY <1>3, <2>1
  <2>3. table(f)[x(f)] = e(f) /\ \A j \in Indices : j # x(f) => table(f)[j] = Absent
    BY <1>4, <2>1
  <2>4. i = x(f)
    BY <1>6, <2>2, <2>3, ZeroedFacts
  <2>5. mem[f][i] = e(f)
    BY <2>2, <2>3, <2>4
  <2>6. e(f).frame = f + 1
    OBVIOUS
  <2> HIDE DEF e
  <2> QED
    BY <2>1, <2>4, <2>5, <2>6
<1>7. /\ lev \in [Frames -> 0..LEVELS] /\ \A f \in BootFrames : lev[f] = LEVELS - f + 1
  BY <1>0, <1>1 DEF Frames, BootFrames
<1> HIDE DEF lev, e
<1>8. /\ pmaps \in [AllPmaps -> PmapRecord] /\ pmaps[KernelPmap].root = 1 /\ pmaps[KernelPmap].frame = 0
      /\ \A m \in AllPmaps : m # KernelPmap => pmaps[m].root = 0
  <2>1. MaxRefs \in Nat /\ MaxRefs >= 1
    BY PmapAssumption
  <2>2. 1 \in Frames
    BY <1>1
  <2>3. [root |-> 1, refs |-> 1, frame |-> 0] \in PmapRecord /\ [root |-> 0, refs |-> 0, frame |-> 0] \in PmapRecord
    BY <2>1, <2>2 DEF PmapRecord
  <2> QED
    BY <2>3 DEF PmapInit, AllPmaps
<1>9. Live = {KernelPmap} /\ Roots = {} /\ Owned = {} /\ Spaces = {}
  BY <1>8 DEF Live, AllPmaps, Roots, Owned, Spaces
<1>10. PmapsOK
  BY <1>8, <1>9 DEF PmapsOK
<1>11. Levelled(free, lev, 1, {}, {})
  BY <1>0, <1>1, <1>7 DEF Levelled, BootFrames
<1>12. LinksDown(mem, free, lev, {})
  <2> SUFFICES ASSUME NEW f \in Frames \ free, NEW i \in Indices, mem[f][i].frame # 0
               PROVE  /\ lev[f] > 0 /\ mem[f][i].frame \in Frames \ free
                      /\ lev[mem[f][i].frame] = lev[f] - 1
    BY DEF LinksDown
  <2>1. f \in BootFrames /\ f + 1 \in BootFrames /\ f <= LEVELS /\ mem[f][i].frame = f + 1
    BY <1>4, <1>6
  <2>2. lev[f] = LEVELS - f + 1 /\ lev[f+1] = LEVELS - (f + 1) + 1
    BY <1>7, <2>1
  <2> QED
    BY <1>0, <1>1, <2>1, <2>2 DEF BootFrames
<1>13. LinksApart(mem, free, {})
  <2> SUFFICES ASSUME NEW f \in Frames, NEW g \in Frames, NEW i \in Indices, NEW j \in Indices,
                      mem[f][i].frame # 0, mem[f][i].frame = mem[g][j].frame
               PROVE  f = g /\ i = j
    BY DEF LinksApart
  <2>1. i = x(f) /\ j = x(g) /\ f + 1 = g + 1
    BY <1>6
  <2>2. f = g
    BY <2>1 DEF Frames
  <2> QED
    BY <2>1, <2>2
<1>14. AllLinked(mem, free, lev, {}, {})
  <2> SUFFICES ASSUME NEW h \in BootFrames, lev[h] < LEVELS
               PROVE  \E f \in BootFrames, i \in Indices : ~ Copied({}, f, i) /\ mem[f][i].frame = h
    BY <1>1 DEF AllLinked
  <2>1. h - 1 \in BootFrames /\ h - 1 <= LEVELS /\ (h - 1) + 1 = h
    BY <1>0, <1>7 DEF BootFrames
  <2>2. x(h-1) \in Indices /\ mem[h-1][x(h-1)] = e(h-1)
    BY <1>1, <1>2, <1>3, <1>4, <2>1
  <2>3. mem[h-1][x(h-1)].frame = h
    BY <2>1, <2>2 DEF e
  <2> QED
    BY <2>1, <2>2, <2>3 DEF Copied
<1>15. CopiesAgree(mem, 1, {})
  BY DEF CopiesAgree
<1>16. Tree(mem, free, lev, 1, {}, {})
  BY <1>1, <1>5, <1>7, <1>11, <1>12, <1>13, <1>14, <1>15 DEF Tree
<1> QED
  BY <1>8, <1>9, <1>10, <1>16 DEF PmapInv, Forest

-----------------------------------------------------------------------------
(* What pmap_free_tables() reaches, and the frames counted.                *)

TablesBelow(M, X) == {M[f][i].frame : f \in X, i \in Indices} \ {0}

\* w[l] are the tables of level l below r.
ReachRun(M, r, w) ==
  /\ w \in [1..LEVELS -> SUBSET Frames]
  /\ w[LEVELS] = {r}
  /\ \A l \in 1..LEVELS-1 : w[l] = TablesBelow(M, w[l+1])

ReachRec(M, r, w) ==
  w = [l \in 1..LEVELS |-> IF l = LEVELS THEN {r}
                           ELSE TablesBelow(M, w[l+1])]

LEMMA ReachDef ==
  ASSUME NEW M \in Memory, NEW r \in Frames
  PROVE  \E w : /\ ReachRun(M, r, w)
                /\ pmap_free_tables(M, r) = UNION {w[l] : l \in 1..LEVELS}
<1> DEFINE S == SUBSET Frames
           G == [l \in 1..LEVELS |-> [X \in S |-> TablesBelow(M, X)]]
           c == CHOOSE w : ReachRec(M, r, w)
<1>0. LEVELS \in Nat /\ LEVELS >= 2
  BY Halves
<1>1. \A X \in S : TablesBelow(M, X) \in S
  <2>1. ASSUME NEW X \in S, NEW f \in X, NEW i \in Indices PROVE M[f][i].frame \in Frames \cup {0}
    BY EntryFacts
  <2> QED
    BY <2>1 DEF TablesBelow
<1>2. G \in [1..LEVELS -> [S -> S]]
  BY <1>1
<1>3. PICK w \in [1..LEVELS -> S] : LevelRun({r}, G, w)
  <2> HIDE DEF G
  <2> QED
    BY <1>2, DownRecursion
<1>4. \A l \in 1..LEVELS : l # LEVELS => l + 1 \in 1..LEVELS
  BY <1>0
<1>5. ReachRec(M, r, w)
  <2>1. \A l \in 1..LEVELS : l # LEVELS => G[l][w[l+1]] = TablesBelow(M, w[l+1])
    BY <1>3, <1>4
  <2> HIDE DEF G
  <2> QED
    BY <1>3, <2>1 DEF ReachRec, LevelRun
<1>6. ReachRec(M, r, c)
  BY <1>5
<1> HIDE DEF c, G
<1>7. /\ c = [l \in 1..LEVELS |-> c[l]] /\ c[LEVELS] = {r}
      /\ \A l \in 1..LEVELS-1 : l \in 1..LEVELS /\ l + 1 \in 1..LEVELS /\ c[l] = TablesBelow(M, c[l+1])
  <2>1. LEVELS \in 1..LEVELS /\ \A l \in 1..LEVELS-1 : l \in 1..LEVELS /\ l # LEVELS /\ l + 1 \in 1..LEVELS
    BY <1>0
  <2> QED
    BY <1>6, <2>1 DEF ReachRec
<1>8. 1..LEVELS \subseteq {l \in 1..LEVELS : c[l] \in S}
  <2> DEFINE T == {l \in 1..LEVELS : c[l] \in S}
  <2>1. LEVELS \in T
    BY <1>0, <1>7
  <2>2. ASSUME NEW l \in 1..LEVELS-1, l + 1 \in T PROVE l \in T
    BY <1>1, <1>7, <2>2
  <2> HIDE DEF T
  <2>3. 1..LEVELS \subseteq T
    BY <2>1, <2>2, DownInduction
  <2> QED
    BY <2>3 DEF T
<1>9. ReachRun(M, r, c)
  BY <1>7, <1>8 DEF ReachRun
<1>10. pmap_free_tables(M, r) = UNION {c[l] : l \in 1..LEVELS}
  BY DEF pmap_free_tables, ReachRec, TablesBelow, c
<1> QED
  BY <1>9, <1>10

\* The tables of an address space are in use and of their level.
LEMMA ReachLevels ==
  ASSUME NEW M, NEW F, NEW lev, NEW k, NEW R, NEW D, Tree(M, F, lev, k, R, D),
         NEW r \in R \cup {k}, NEW w, ReachRun(M, r, w)
  PROVE  \A l \in 1..LEVELS : \A f \in w[l] : f \in Frames \ F /\ lev[f] = l
<1> DEFINE T == {l \in 1..LEVELS : \A f \in w[l] : f \in Frames \ F /\ lev[f] = l}
<1>0. /\ k \in Frames \ F /\ R \subseteq Frames \ F /\ LEVELS \in Nat /\ LEVELS >= 2
      /\ Levelled(F, lev, k, R, D) /\ LinksDown(M, F, lev, D)
  BY TreeFacts
<1>1. LEVELS \in T
  BY <1>0 DEF ReachRun, Levelled
<1>2. ASSUME NEW l \in 1..LEVELS-1, l + 1 \in T PROVE l \in T
  <2>1. l \in 1..LEVELS /\ (l + 1) - 1 = l
    BY <1>0
  <2>2. ASSUME NEW h \in w[l] PROVE h \in Frames \ F /\ lev[h] = l
    <3>1. PICK f \in w[l+1], i \in Indices : h = M[f][i].frame /\ h # 0
      <4>1. h \in TablesBelow(M, w[l+1])
        BY DEF ReachRun
      <4> QED
        BY <4>1 DEF TablesBelow
    <3>2. f \in Frames \ F /\ lev[f] = l + 1
      BY <1>2
    <3> QED
      BY <1>0, <2>1, <3>1, <3>2 DEF LinksDown
  <2> QED
    BY <2>1, <2>2
<1>3. 1..LEVELS \subseteq T
  <2> HIDE DEF T
  <2> QED
    BY <1>1, <1>2, DownInduction
<1> QED
  BY <1>3

\* Between them the address spaces have every table.
LEMMA AllTables ==
  ASSUME NEW M, NEW F, NEW lev, NEW k, NEW R, NEW D, Tree(M, F, lev, k, R, D)
  PROVE  UNION {pmap_free_tables(M, r) : r \in R \cup {k}} = {f \in Frames \ F : lev[f] > 0}
<1> DEFINE X == R \cup {k}
           tables == UNION {pmap_free_tables(M, r) : r \in X}
           In(h, l) == \E r \in X : \E w : ReachRun(M, r, w) /\ h \in w[l]
           T == {l \in 1..LEVELS : \A h \in Frames \ F : lev[h] = l => In(h, l)}
<1>0. /\ M \in Memory /\ X \subseteq Frames /\ LEVELS \in Nat /\ LEVELS >= 2 /\ lev \in [Frames -> 0..LEVELS]
      /\ Levelled(F, lev, k, R, D) /\ LinksDown(M, F, lev, D) /\ AllLinked(M, F, lev, R, D)
  BY TreeFacts
<1>1. ASSUME NEW r \in X
      PROVE  \E w : ReachRun(M, r, w) /\ pmap_free_tables(M, r) = UNION {w[l] : l \in 1..LEVELS}
  BY <1>0, ReachDef
<1>2. ASSUME NEW f \in tables PROVE f \in Frames \ F /\ lev[f] > 0
  <2>1. PICK r \in X : f \in pmap_free_tables(M, r)
    OBVIOUS
  <2>2. PICK w : ReachRun(M, r, w) /\ pmap_free_tables(M, r) = UNION {w[l] : l \in 1..LEVELS}
    BY <1>1
  <2>3. PICK l \in 1..LEVELS : f \in w[l]
    BY <2>1, <2>2
  <2>4. f \in Frames \ F /\ lev[f] = l
    BY <2>2, <2>3, ReachLevels
  <2> QED
    BY <1>0, <2>4
<1>3. LEVELS \in T
  <2> SUFFICES ASSUME NEW h \in Frames \ F, lev[h] = LEVELS PROVE In(h, LEVELS)
    BY <1>0
  <2>1. h \in X
    BY <1>0 DEF Levelled
  <2>2. PICK w : ReachRun(M, h, w)
    BY <1>1, <2>1
  <2> QED
    BY <2>1, <2>2 DEF ReachRun
<1>4. ASSUME NEW l \in 1..LEVELS-1, l + 1 \in T PROVE l \in T
  <2>1. l \in 1..LEVELS /\ l < LEVELS /\ l > 0
    BY <1>0
  <2> SUFFICES ASSUME NEW h \in Frames \ F, lev[h] = l PROVE In(h, l)
    BY <2>1
  <2>2. h \notin D /\ h # 0
    BY <1>0, <2>1, Halves DEF Levelled
  <2>3. PICK f \in Frames \ F, i \in Indices : M[f][i].frame = h
    BY <1>0, <2>1, <2>2 DEF AllLinked
  <2>4. lev[h] = lev[f] - 1
    BY <1>0, <2>2, <2>3 DEF LinksDown
  <2>5. lev[f] = l + 1
    BY <1>0, <2>1, <2>4
  <2>6. PICK r \in X : \E w : ReachRun(M, r, w) /\ f \in w[l+1]
    BY <1>4, <2>5
  <2>7. PICK w : ReachRun(M, r, w) /\ f \in w[l+1]
    BY <2>6
  <2>8. h \in w[l]
    <3>1. h \in TablesBelow(M, w[l+1])
      BY <2>2, <2>3, <2>7 DEF TablesBelow
    <3> QED
      BY <2>7, <3>1 DEF ReachRun
  <2> QED
    BY <2>8, <2>7
<1>5. 1..LEVELS \subseteq T
  <2> HIDE DEF T
  <2> QED
    BY <1>3, <1>4, DownInduction
<1>6. ASSUME NEW h \in Frames \ F, lev[h] > 0 PROVE h \in tables
  <2>1. lev[h] \in 1..LEVELS
    BY <1>0, <1>6
  <2>2. In(h, lev[h])
    <3> HIDE DEF In
    <3> QED
      BY <1>5, <2>1 DEF T
  <2>3. PICK r \in X : \E w : ReachRun(M, r, w) /\ h \in w[lev[h]]
    BY <2>2
  <2>4. PICK w : ReachRun(M, r, w) /\ h \in w[lev[h]]
    BY <2>3
  <2>5. PICK v : ReachRun(M, r, v) /\ pmap_free_tables(M, r) = UNION {v[l] : l \in 1..LEVELS}
    BY <1>1
  <2>6. \A l \in 1..LEVELS : w[l] = v[l]
    <3> DEFINE U == {l \in 1..LEVELS : w[l] = v[l]}
    <3>1. LEVELS \in U
      <4>1. w[LEVELS] = {r} /\ v[LEVELS] = {r}
        BY <2>4, <2>5 DEF ReachRun
      <4>2. LEVELS \in 1..LEVELS
        BY <1>0
      <4> QED
        BY <4>1, <4>2
    <3>2. ASSUME NEW l \in 1..LEVELS-1, l + 1 \in U PROVE l \in U
      <4>1. l \in 1..LEVELS
        BY <1>0
      <4> QED
        BY <2>4, <2>5, <3>2, <4>1 DEF ReachRun
    <3> HIDE DEF U
    <3>3. 1..LEVELS \subseteq U
      BY <3>1, <3>2, DownInduction
    <3> QED
      BY <3>3 DEF U
  <2>7. h \in pmap_free_tables(M, r)
    BY <2>1, <2>4, <2>5, <2>6
  <2> QED
    BY <2>7
<1> QED
  BY <1>2, <1>6

Pairs(S, T, f) ==
  /\ f \in [S -> T]
  /\ \A x, y \in S : f[x] = f[y] => x = y
  /\ \A t \in T : \E x \in S : f[x] = t

LEMMA OneToOne ==
  ASSUME NEW S, NEW T, NEW f, IsFiniteSet(T), Pairs(S, T, f)
  PROVE  IsFiniteSet(S) /\ Cardinality(S) = Cardinality(T) /\ Cardinality(S) \in Nat
<1>1. f \in Injection(S, T) /\ f \in Surjection(S, T)
  BY DEF Pairs, Injection, IsInjective, Surjection
<1> QED
  BY <1>1, FS_Injection, FS_CardinalityType

LinksOf(M, X, R) == {l \in (X \X Indices) \ (R \X KernelHalf) : M[l[1]][l[2]].frame # 0}
LinkedBy(M, L)   == {M[l[1]][l[2]].frame : l \in L}
TablesOf(F, lev) == {f \in Frames \ F : lev[f] > 0}

\* The frames in use of a forest are the ones linked, once each, and the
\* ones that head a tree or hold a pmap_t.
LEMMA FramesOnce ==
  ASSUME NEW M, NEW F, NEW lev, NEW k, NEW R, NEW D, Tree(M, F, lev, k, R, D),
         NEW links, links = LinksOf(M, TablesOf(F, lev), R), NEW linked, linked = LinkedBy(M, links)
  PROVE  /\ Cardinality(linked) = Cardinality(links)
         /\ linked = {h \in Frames \ F : lev[h] < LEVELS /\ h \notin D}
<1>0. /\ LEVELS \in Nat /\ LEVELS >= 2 /\ lev \in [Frames -> 0..LEVELS] /\ IsFiniteSet(Frames)
      /\ Levelled(F, lev, k, R, D) /\ LinksDown(M, F, lev, D) /\ AllLinked(M, F, lev, R, D)
      /\ LinksApart(M, F, R)
  <2>1. IsFiniteSet(Frames)
    BY PmapAssumption, FS_Interval DEF Frames
  <2> QED
    BY <2>1, TreeFacts
<1>1. ASSUME NEW l \in links
      PROVE  /\ l = <<l[1], l[2]>> /\ l[1] \in Frames \ F /\ lev[l[1]] > 0 /\ l[2] \in Indices
             /\ ~ Copied(R, l[1], l[2]) /\ M[l[1]][l[2]].frame # 0
  BY DEF Copied, LinksOf, TablesOf
<1>2. ASSUME NEW h \in linked PROVE h \in Frames \ F /\ lev[h] < LEVELS /\ h \notin D
  <2>1. PICK l \in links : h = M[l[1]][l[2]].frame
    BY DEF LinkedBy
  <2>2. h \in Frames \ F /\ h \notin D /\ lev[h] = lev[l[1]] - 1
    BY <1>0, <1>1, <2>1 DEF LinksDown
  <2> QED
    BY <1>0, <1>1, <2>2
<1>3. ASSUME NEW h \in Frames \ F, lev[h] < LEVELS, h \notin D PROVE h \in linked
  <2>1. PICK f \in Frames \ F, i \in Indices : ~ Copied(R, f, i) /\ M[f][i].frame = h
    BY <1>0, <1>3 DEF AllLinked
  <2>2. h # 0
    BY Halves
  <2>3. lev[f] > 0
    BY <1>0, <2>1, <2>2 DEF LinksDown
  <2>4. <<f, i>> \in links
    BY <2>1, <2>2, <2>3 DEF Copied, LinksOf, TablesOf
  <2>5. M[<<f, i>>[1]][<<f, i>>[2]].frame = h
    BY <2>1
  <2> QED
    BY <2>4, <2>5 DEF LinkedBy
<1>4. linked = {h \in Frames \ F : lev[h] < LEVELS /\ h \notin D}
  BY <1>2, <1>3
<1>5. IsFiniteSet(linked)
  BY <1>0, <1>4, FS_Subset
<1> DEFINE g == [l \in links |-> M[l[1]][l[2]].frame]
<1>6. ASSUME NEW a \in links, NEW b \in links, g[a] = g[b] PROVE a = b
  <2>1. M[a[1]][a[2]].frame = M[b[1]][b[2]].frame
    BY <1>6
  <2>2. a[1] = b[1] /\ a[2] = b[2]
    BY <1>0, <1>1, <2>1 DEF LinksApart
  <2> QED
    BY <1>1, <2>2
<1>7. g \in [links -> linked] /\ \A t \in linked : \E l \in links : g[l] = t
  BY DEF LinkedBy
<1> HIDE DEF g
<1>8. Cardinality(links) = Cardinality(linked)
  <2>1. \A a, b \in links : g[a] = g[b] => a = b
    BY <1>6
  <2>2. Pairs(links, linked, g)
    BY <1>7, <2>1 DEF Pairs
  <2> QED
    BY <1>5, <2>2, OneToOne
<1> QED
  BY <1>4, <1>8

LEMMA AccountedFrames ==
  ASSUME PmapInv PROVE FramesAccounted
<1> DEFINE k == pmaps[KernelPmap].root
           X == Roots \cup {k}
           tables == UNION {pmap_free_tables(mem, pmaps[m].root) : m \in Live}
           copies == {pmaps[m].root : m \in Live \ {KernelPmap}} \X KernelHalf
           links == {l \in (tables \X Indices) \ copies : mem[l[1]][l[2]].frame # 0}
           linked == {mem[l[1]][l[2]].frame : l \in links}
           own == ({pmaps[m].root : m \in Live} \cup {pmaps[m].frame : m \in Live}) \ {0}
<1>0. PICK lev : Tree(mem, free, lev, k, Roots, Owned)
  BY DEF PmapInv, Forest
<1>1. /\ LEVELS \in Nat /\ LEVELS >= 2 /\ lev \in [Frames -> 0..LEVELS] /\ free \subseteq Frames
      /\ X \subseteq Frames \ free /\ Owned \subseteq Frames \ free /\ k \notin Roots
      /\ Levelled(free, lev, k, Roots, Owned)
  BY <1>0, TreeFacts
<1>2. X = {pmaps[m].root : m \in Live} /\ KernelPmap \in Live
  BY PmapFacts
<1>3. tables = {f \in Frames \ free : lev[f] > 0}
  <2>1. tables = UNION {pmap_free_tables(mem, r) : r \in X}
    BY <1>2
  <2> QED
    BY <1>0, <2>1, AllTables
<1>4. copies = Roots \X KernelHalf
  BY DEF Roots, Spaces
<1>5. /\ Cardinality(linked) = Cardinality(links)
      /\ linked = {h \in Frames \ free : lev[h] < LEVELS /\ h \notin Owned}
  <2>1. links = LinksOf(mem, TablesOf(free, lev), Roots)
    BY <1>3, <1>4 DEF LinksOf, TablesOf
  <2>2. linked = LinkedBy(mem, links)
    BY DEF LinkedBy
  <2> HIDE DEF tables, copies, k, links, linked
  <2> QED
    BY <1>0, <2>1, <2>2, FramesOnce
<1>6. own = X \cup Owned
  <2>1. {pmaps[m].frame : m \in Live} = Owned \cup {0}
    BY <1>2 DEF Owned, Spaces, PmapInv, PmapsOK
  <2>2. 0 \notin X /\ 0 \notin Owned
    BY <1>1, Halves
  <2> QED
    BY <1>2, <2>1, <2>2
<1> HIDE DEF tables, copies, links, linked, own, k
<1>7. linked \cap own = {} /\ (linked \cup own) \cap free = {} /\ linked \cup own \cup free = Frames
      /\ X \cap Owned = {}
  BY <1>1, <1>5, <1>6 DEF Levelled
<1>8. Cardinality(own) = 2 * Cardinality(Live) - 1
  <2>1. IsFiniteSet(X) /\ IsFiniteSet(Owned)
    <3>1. IsFiniteSet(Frames)
      BY PmapAssumption, FS_Interval DEF Frames
    <3> QED
      BY <1>1, <3>1, FS_Subset
  <2>2. IsFiniteSet(Live) /\ Cardinality(Live) = Cardinality(X) /\ Cardinality(Live) \in Nat
    <3> DEFINE g == [m \in Live |-> pmaps[m].root]
    <3>1. Pairs(Live, X, g)
      BY <1>2 DEF Pairs, PmapInv, PmapsOK
    <3> HIDE DEF g
    <3> QED
      BY <2>1, <3>1, OneToOne
  <2>3. Cardinality(Spaces) = Cardinality(Owned) /\ Cardinality(Spaces) \in Nat
    <3> DEFINE g == [m \in Spaces |-> pmaps[m].frame]
    <3>1. Pairs(Spaces, Owned, g)
      <4>1. \A m, n \in Spaces : pmaps[m].frame = pmaps[n].frame => m = n
        BY DEF PmapInv, PmapsOK, Spaces
      <4> QED
        BY <4>1 DEF Pairs, Owned
    <3> HIDE DEF g
    <3> QED
      BY <2>1, <3>1, OneToOne
  <2>4. Cardinality(Spaces) = Cardinality(Live) - 1
    BY <1>2, <2>2, FS_RemoveElement DEF Spaces
  <2>5. Cardinality(X \cup Owned) = Cardinality(X) + Cardinality(Owned) - Cardinality(X \cap Owned)
    BY <2>1, FS_Union
  <2>6. Cardinality(X \cap Owned) = 0
    BY <1>7, FS_EmptySet
  <2> QED
    BY <1>6, <2>2, <2>3, <2>4, <2>5, <2>6
<1> QED
  BY <1>5, <1>7, <1>8 DEF FramesAccounted, tables, copies, links, linked, own

LEMMA PmapTypes ==
  ASSUME PmapInv PROVE PmapTypeOK
<1>1. Entry \subseteq Pte
  BY DEF Entry
<1> QED
  BY <1>1, PmapFacts DEF PmapTypeOK, Memory, PmapRecord

\* The map changes only when an action is taken.
LEMMA PmapStutter ==
  ASSUME PmapInv, UNCHANGED pmapVars
  PROVE  PmapInv' /\ mem' = mem /\ pmaps' = pmaps
<1>1. mem' = mem /\ free' = free /\ pmaps' = pmaps
  BY DEF pmapVars
<1>2. Live' = Live
  BY <1>1 DEF Live
<1>3. Spaces' = Spaces
  BY <1>2 DEF Spaces
<1>4. Roots' = Roots /\ Owned' = Owned
  BY <1>1, <1>3 DEF Roots, Owned
<1>5. PmapsOK'
  BY <1>1, <1>2, <1>3 DEF PmapInv, PmapsOK
<1>6. Forest'
  BY <1>1, <1>4 DEF PmapInv, Forest
<1> QED
  BY <1>1, <1>5, <1>6 DEF PmapInv

LEMMA PmapAlways == ASSUME ~ LastRelease PROVE PmapSpec => []PmapInv
<1>1. PmapInit => PmapInv
  BY PmapBegins
<1>2. PmapInv /\ [PmapNext]_pmapVars => PmapInv'
  <2>1. ASSUME PmapInv, PmapNext PROVE PmapInv'
    BY <2>1, PmapStep
  <2>2. ASSUME PmapInv, UNCHANGED pmapVars PROVE PmapInv'
    BY <2>2, PmapStutter
  <2> QED
    BY <2>1, <2>2
<1> QED
  BY <1>1, <1>2, PTL DEF PmapSpec

(* While no address space is destroyed, pmap_create, pmap_map, pmap_unmap, *)
(* pmap_protect and their callers lose no frame and use none twice: every  *)
(* frame is free, or linked by one entry of one live table, or the PML4 or *)
(* the pmap_t of one address space (pmap.c:53-128, 144-229), for every     *)
(* depth and width of the tables, any memory and any number of address     *)
(* spaces - wherever an allocation fails on the way.                       *)
THEOREM PmapFrames ==
  ASSUME ~ LastRelease PROVE PmapSpec => [](PmapTypeOK /\ FramesAccounted)
<1>1. PmapInv => PmapTypeOK /\ FramesAccounted
  BY AccountedFrames, PmapTypes
<1> QED
  BY <1>1, PmapAlways, PTL

LEMMA OneChange ==
  ASSUME PmapInv, StepShape, NEW m \in Live, NEW a \in VPages, NEW n \in Live, NEW b \in VPages,
         Translate(mem', m, a) # Translate(mem, m, a), Translate(mem', n, b) # Translate(mem, n, b)
  PROVE  a = b /\ (m = n \/ InKernelHalf(a))
<1> DEFINE X == Roots \cup {pmaps[KernelPmap].root}
<1>1. /\ pmap_query(mem', pmaps[m].root, a) # pmap_query(mem, pmaps[m].root, a)
      /\ pmap_query(mem', pmaps[n].root, b) # pmap_query(mem, pmaps[n].root, b)
  BY DEF Translate
<1>2. pmaps[m].root \in X /\ pmaps[n].root \in X /\ a \in Nat /\ b \in Nat
  BY PmapFacts, PageNumbers
<1>3. PICK o \in Live, va \in MapRange : PageStep(o, va)
  <2>1. ~ CountStep
    BY <1>1 DEF CountStep
  <2>2. ~ SeenAlike(mem, mem', X)
    BY <1>1, <1>2 DEF SeenAlike
  <2> QED
    BY <2>1, <2>2 DEF StepShape, SpaceStep
<1>4. /\ a = va /\ (pmaps[m].root = pmaps[o].root \/ InKernelHalf(va))
      /\ b = va /\ (pmaps[n].root = pmaps[o].root \/ InKernelHalf(va))
  BY <1>1, <1>2, <1>3 DEF PageStep, ChangedAt
<1>5. \A p, q \in Live : pmaps[p].root = pmaps[q].root => p = q
  BY DEF PmapInv, PmapsOK
<1> QED
  BY <1>3, <1>4, <1>5

(* pmap_map, pmap_unmap and pmap_protect touch the one address they are    *)
(* given (pmap.c:67-99, 192-229), whatever tables a walk allocates on the  *)
(* way: no step changes the translation of two addresses, nor that of an   *)
(* address of the lower half in two address spaces.                        *)
THEOREM PmapOneAddress ==
  ASSUME ~ LastRelease PROVE PmapSpec => OneAddressChanges
<1> DEFINE changed == {x \in Live \X VPages :
                         /\ pmaps'[x[1]].root = pmaps[x[1]].root
                         /\ Translate(mem', x[1], x[2]) # Translate(mem, x[1], x[2])}
           A == \A x, y \in changed : x[2] = y[2] /\ (x[1] = y[1] \/ InKernelHalf(x[2]))
<1>1. ASSUME PmapInv, PmapNext PROVE A
  <2>1. StepShape
    BY <1>1, PmapStep
  <2>2. ASSUME NEW x \in changed, NEW y \in changed
        PROVE  x[2] = y[2] /\ (x[1] = y[1] \/ InKernelHalf(x[2]))
    <3>1. /\ x[1] \in Live /\ x[2] \in VPages /\ y[1] \in Live /\ y[2] \in VPages
          /\ Translate(mem', x[1], x[2]) # Translate(mem, x[1], x[2])
          /\ Translate(mem', y[1], y[2]) # Translate(mem, y[1], y[2])
      OBVIOUS
    <3> HIDE DEF changed
    <3> QED
      BY <1>1, <2>1, <3>1, OneChange
  <2> QED
    BY <2>2
<1>2. PmapInv /\ [PmapNext]_pmapVars => [A]_pmapVars
  BY <1>1
<1> QED
  BY <1>2, PmapAlways, PTL DEF PmapSpec, OneAddressChanges

-----------------------------------------------------------------------------
(* The kernel's half.                                                      *)

\* Two address spaces that share a slot translate what is below it alike.
LEMMA SameBelow ==
  ASSUME PmapInv, NEW m \in Live, NEW va \in VPages, Slot(m, va) = Slot(KernelPmap, va)
  PROVE  Translate(mem, m, va) = Translate(mem, KernelPmap, va)
<1> DEFINE k == pmaps[KernelPmap].root
           r == pmaps[m].root
<1> SUFFICES pmap_query(mem, r, va) = pmap_query(mem, k, va)
  BY DEF Translate
<1>0. /\ mem \in Memory /\ k \in Frames /\ r \in Frames /\ r \in Roots \cup {k} /\ va \in Nat
      /\ LEVELS \in Nat /\ LEVELS >= 2 /\ r # 0 /\ k # 0
  BY PmapFacts, PageNumbers, Halves
<1>1. PICK w : WalkRun(mem, r, va, w) /\ pmap_walk(mem, r, va) = w[1]
  BY <1>0, WalkDef
<1>2. PICK v : WalkRun(mem, k, va, v) /\ pmap_walk(mem, k, va) = v[1]
  BY <1>0, WalkDef
<1>3. mem[r][Idx(LEVELS, va)] = mem[k][Idx(LEVELS, va)]
  BY DEF Slot
<1> HIDE DEF r, k
<1> DEFINE T == {l \in 1..LEVELS : l < LEVELS => w[l] = v[l]}
<1>4. LEVELS \in T
  BY <1>0
<1>5. ASSUME NEW l \in 1..LEVELS-1, l + 1 \in T PROVE l \in T
  <2>1. l \in 1..LEVELS /\ w[LEVELS] = r /\ v[LEVELS] = k
    BY <1>0, <1>1, <1>2 DEF WalkRun
  <2>2. /\ w[l] = IF w[l+1] = 0 THEN 0 ELSE mem[w[l+1]][Idx(l+1, va)].frame
        /\ v[l] = IF v[l+1] = 0 THEN 0 ELSE mem[v[l+1]][Idx(l+1, va)].frame
    BY <1>1, <1>2 DEF WalkRun
  <2>3. CASE l + 1 = LEVELS
    BY <1>0, <1>3, <2>1, <2>2, <2>3
  <2>4. CASE l + 1 < LEVELS
    BY <1>5, <2>1, <2>2, <2>4
  <2> QED
    BY <1>0, <2>3, <2>4
<1>6. 1..LEVELS \subseteq T
  <2> HIDE DEF T
  <2> QED
    BY <1>4, <1>5, DownInduction
<1>7. w[1] = v[1]
  BY <1>0, <1>6
<1> QED
  BY <1>1, <1>2, <1>7 DEF pmap_query, r

\* What an address space has of the kernel's half is what the kernel has.
SharedBelow ==
  \A m \in Live, va \in VPages :
    InKernelHalf(va) /\ ~ Late(m, va) => Translate(mem, m, va) = Translate(mem, KernelPmap, va)

LEMMA SlotFacts ==
  ASSUME PmapInv, NEW m \in Live, NEW va \in VPages
  PROVE  /\ Idx(LEVELS, va) \in Indices /\ pmaps[m].root \in Frames \ free
         /\ pmaps[m].root \in Roots \cup {pmaps[KernelPmap].root}
         /\ Slot(m, va).frame = 0 <=> Slot(m, va) = Absent
<1>1. Idx(LEVELS, va) \in Indices
  <2>1. LEVELS \in 1..LEVELS /\ va \in Nat
    BY Halves, PageNumbers
  <2> QED
    BY <2>1, IdxType
<1>2. /\ pmaps[m].root \in Frames \ free /\ mem \in Memory
      /\ pmaps[m].root \in Roots \cup {pmaps[KernelPmap].root}
  BY PmapFacts
<1> QED
  BY <1>1, <1>2, EntryFacts DEF Slot

LEMMA SeenBelow == ASSUME PmapInv PROVE SharedBelow
<1> SUFFICES ASSUME NEW m \in Live, NEW va \in VPages, InKernelHalf(va), ~ Late(m, va)
             PROVE  Translate(mem, m, va) = Translate(mem, KernelPmap, va)
  BY DEF SharedBelow
<1> DEFINE k == pmaps[KernelPmap].root
           i == Idx(LEVELS, va)
<1>1. PICK lev : Tree(mem, free, lev, k, Roots, Owned)
  BY DEF PmapInv, Forest
<1>2. CopiesAgree(mem, k, Roots)
  BY <1>1 DEF Tree
<1>3. Slot(m, va) = Slot(KernelPmap, va)
  <2>1. CASE Slot(m, va) = Absent
    BY <2>1 DEF Late
  <2>2. CASE Slot(m, va) # Absent
    <3>1. Slot(m, va).frame # 0 /\ pmaps[m].root \in Roots \cup {k} /\ i \in KernelHalf
      BY <2>2, SlotFacts DEF InKernelHalf
    <3>2. CASE pmaps[m].root = k
      BY <3>2 DEF Slot
    <3>3. CASE pmaps[m].root \in Roots
      BY <1>2, <3>1, <3>3 DEF CopiesAgree, Slot
    <3> QED
      BY <3>1, <3>2, <3>3
  <2> QED
    BY <2>1, <2>2
<1> QED
  BY <1>3, SameBelow

\* A slot is late in no address space that is made after the kernel used it.
LEMMA LateStep ==
  ASSUME PmapInv, StepShape, NEW m \in Live', NEW va \in VPages, InKernelHalf(va), Late(m, va)'
  PROVE  m \in Live /\ (Late(m, va) \/ Slot(KernelPmap, va) = Absent)
<1> DEFINE k == pmaps[KernelPmap].root
           i == Idx(LEVELS, va)
<1>0. /\ KernelPmap \in Live /\ KernelPmap \in AllPmaps /\ i \in Indices /\ i \in KernelHalf
      /\ mem'[pmaps'[m].root][i] = Absent /\ mem'[pmaps'[KernelPmap].root][i] # Absent
  BY PmapFacts, SlotFacts DEF Late, Slot, InKernelHalf, AllPmaps
<1>1. ASSUME NEW n \in Live, NEW vb \in MapRange, PageStep(n, vb)
      PROVE  m \in Live /\ (Late(m, va) \/ Slot(KernelPmap, va) = Absent)
  <2>1. pmaps' = pmaps /\ m \in Live
    BY <1>1 DEF PageStep, Live
  <2>2. ASSUME NEW x \in Live
        PROVE  mem'[pmaps[x].root][i] = Slot(x, va) \/ Slot(x, va) = Absent
    BY <1>0, <1>1, <2>2, SlotFacts DEF PageStep, RootsKept, Slot
  <2>3. CASE Slot(KernelPmap, va) = Absent
    BY <2>1, <2>3
  <2>4. CASE Slot(KernelPmap, va) # Absent
    <3>1. Slot(m, va) = Absent
      BY <1>0, <2>1, <2>2
    <3> QED
      BY <2>1, <2>4, <3>1 DEF Late
  <2> QED
    BY <2>3, <2>4
<1>2. ASSUME NEW n \in Pmaps \ Live, SpaceStep(n)
      PROVE  m \in Live /\ (Late(m, va) \/ Slot(KernelPmap, va) = Absent)
  <2>1. /\ \A x \in AllPmaps : x # n => pmaps'[x] = pmaps[x]
        /\ \A g \in Frames \ free : mem'[g] = mem[g]
        /\ mem'[pmaps'[n].root] = HalfOf(mem, k)
    BY <1>2 DEF SpaceStep
  <2>2. pmaps'[KernelPmap] = pmaps[KernelPmap] /\ mem'[k] = mem[k]
    BY <1>0, <1>2, <2>1, PmapFacts
  <2>3. m # n
    <3>1. HalfOf(mem, k)[i] = mem[k][i]
      BY <1>0 DEF HalfOf
    <3> QED
      BY <1>0, <2>1, <2>2, <3>1
  <2>4. m \in Live /\ pmaps'[m] = pmaps[m]
    BY <2>1, <2>3 DEF Live
  <2>5. mem'[pmaps[m].root] = mem[pmaps[m].root]
    BY <2>1, <2>4, SlotFacts
  <2> QED
    BY <1>0, <2>2, <2>4, <2>5 DEF Late, Slot
<1>3. ASSUME CountStep
      PROVE  m \in Live /\ (Late(m, va) \/ Slot(KernelPmap, va) = Absent)
  <2>1. mem' = mem /\ \A n \in AllPmaps : pmaps'[n].root = pmaps[n].root
    BY <1>3 DEF CountStep
  <2>2. m \in Live /\ m \in AllPmaps
    BY <2>1 DEF Live
  <2> QED
    BY <1>0, <2>1, <2>2 DEF Late, Slot
<1> QED
  BY <1>1, <1>2, <1>3 DEF StepShape

(* What pmap_create() copies is enough for what the kernel maps below it   *)
(* later on (pmap.c:149-154): whatever is mapped, unmapped or protected,   *)
(* an address space translates an address of the kernel's half as the      *)
(* kernel does, but for a PML4 slot that was empty when the space was made *)
(* and that the kernel filled afterwards; and a slot comes to be missing   *)
(* in no other way.                                                        *)
THEOREM PmapSharedSinceCopy ==
  ASSUME ~ LastRelease PROVE PmapSpec => KernelSharedSinceCopy
<1> DEFINE A == \A m \in Live', va \in VPages : InKernelHalf(va) =>
                  /\ Late(m, va)' => m \in Live /\ (Late(m, va) \/ Slot(KernelPmap, va) = Absent)
                  /\ ~ Late(m, va)' => Translate(mem, m, va)' = Translate(mem, KernelPmap, va)'
<1>1. PmapInv => SharedBelow
  BY SeenBelow
<1>2. ASSUME PmapInv, PmapNext, SharedBelow' PROVE A
  <2>1. StepShape
    BY <1>2, PmapStep
  <2>2. ASSUME NEW m \in Live', NEW va \in VPages, InKernelHalf(va), Late(m, va)'
        PROVE  m \in Live /\ (Late(m, va) \/ Slot(KernelPmap, va) = Absent)
    BY <1>2, <2>1, <2>2, LateStep
  <2>3. ASSUME NEW m \in Live', NEW va \in VPages, InKernelHalf(va), ~ Late(m, va)'
        PROVE  Translate(mem, m, va)' = Translate(mem, KernelPmap, va)'
    BY <1>2, <2>3 DEF SharedBelow, InKernelHalf
  <2> QED
    BY <2>2, <2>3
<1>3. PmapInv /\ SharedBelow' /\ [PmapNext]_pmapVars => [A]_pmapVars
  BY <1>2
<1> QED
  BY <1>1, <1>3, PmapAlways, PTL DEF PmapSpec, KernelSharedSinceCopy
=============================================================================
