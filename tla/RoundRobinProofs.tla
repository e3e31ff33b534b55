-------------------------- MODULE RoundRobinProofs --------------------------
(***************************************************************************)
(* The scheduler implements the round-robin line, for every number of      *)
(* threads and pages, and goes on doing so with the timer interrupt irq_0  *)
(* running.  First what one sched_enqueue and one sched_dequeue do to the  *)
(* line a linked list stands for, then the steps of the scheduler on its   *)
(* line, then the timer: the switch that irq_0 makes is a step the         *)
(* scheduler knows already, so all that is proved of the scheduler holds   *)
(* with it - as long as it does not cut sched_run() itself.                *)
(***************************************************************************)
EXTENDS Irq, SchedProofs, NaturalLemmas, SequenceTheorems

(* The line that a linked run queue stands for.                            *)

\* Following the list of q from its head meets the threads of s.
Follows(q, s) ==
  /\ s \in Seq(Threads)
  /\ \A i, j \in 1..Len(s) : s[i] = s[j] => i = j
  /\ q.count = Len(s)
  /\ q.head = IF Len(s) = 0 THEN NULL ELSE s[1]
  /\ q.tail = IF Len(s) = 0 THEN NULL ELSE s[Len(s)]
  /\ \A i \in 1..Len(s) : /\ q.next[s[i]] = IF i = Len(s) THEN NULL ELSE s[i+1]
                          /\ q.prev[s[i]] = IF i = 1 THEN NULL ELSE s[i-1]

\* w[i] is the thread, or NULL, met after i steps.
WalkOf(q, w) ==
  w = [i \in 0..q.count |->
         IF i = 0 THEN q.head
         ELSE IF w[i-1] = NULL THEN NULL ELSE q.next[w[i-1]]]

LEMMA FollowsOrder ==
  ASSUME NEW q, NEW s, Follows(q, s)
  PROVE  OrderOf(q) = s
<1> DEFINE N == Len(s)
           v == [i \in 0..N |-> IF i = N THEN NULL ELSE s[i+1]]
           w == CHOOSE w : WalkOf(q, w)
<1>1. /\ s \in Seq(Threads) /\ N \in Nat /\ q.count = N /\ NULL \notin Threads
      /\ \A i \in 1..N : s[i] \in Threads
  <2>1. s \in Seq(Threads) /\ q.count = N
    BY DEF Follows
  <2>2. \A i \in 1..N : s[i] \in Threads
    BY <2>1, ElementOfSeq
  <2> QED
    BY <2>1, <2>2, SchedAssumption
<1>2. /\ q.head = IF N = 0 THEN NULL ELSE s[1]
      /\ \A i \in 1..N : q.next[s[i]] = IF i = N THEN NULL ELSE s[i+1]
  BY DEF Follows
<1> HIDE DEF N
<1>3. WalkOf(q, v)
  <2>1. ASSUME NEW i \in 0..N
        PROVE  v[i] = IF i = 0 THEN q.head ELSE IF v[i-1] = NULL THEN NULL ELSE q.next[v[i-1]]
    <3>1. CASE i = 0
      BY <1>1, <1>2, <3>1
    <3>2. CASE i # 0
      <4>1. i \in 1..N /\ i - 1 \in 0..N /\ i - 1 # N /\ (i - 1) + 1 = i
        BY <1>1, <3>2
      <4>2. v[i-1] = s[i] /\ v[i-1] # NULL
        BY <1>1, <4>1
      <4>3. v[i] = IF i = N THEN NULL ELSE s[i+1]
        OBVIOUS
      <4> QED
        BY <1>2, <3>2, <4>1, <4>2, <4>3
    <3> QED
      BY <3>1, <3>2
  <2>2. v = [i \in 0..N |-> v[i]]
    OBVIOUS
  <2> HIDE DEF v
  <2> QED
    BY <1>1, <2>1, <2>2 DEF WalkOf
<1>4. WalkOf(q, w)
  BY <1>3
<1>5. OrderOf(q) = [i \in 1..N |-> w[i-1]]
  BY <1>1 DEF OrderOf, WalkOf
<1> HIDE DEF w, v
<1> DEFINE S == {n \in Nat : n \in 0..N => w[n] = v[n]}
<1>6. 0 \in S
  BY <1>1, <1>3, <1>4 DEF WalkOf
<1>7. ASSUME NEW n \in Nat, n \in S PROVE n + 1 \in S
  <2> SUFFICES ASSUME n + 1 \in 0..N PROVE w[n+1] = v[n+1]
    OBVIOUS
  <2>1. n \in 0..N /\ w[n] = v[n] /\ (n + 1) - 1 = n /\ n + 1 # 0
    BY <1>1, <1>7
  <2>2. w[n+1] = IF w[n] = NULL THEN NULL ELSE q.next[w[n]]
    BY <1>1, <1>4, <2>1 DEF WalkOf
  <2>3. v[n+1] = IF v[n] = NULL THEN NULL ELSE q.next[v[n]]
    BY <1>1, <1>3, <2>1 DEF WalkOf
  <2> QED
    BY <2>1, <2>2, <2>3
<1>8. \A n \in 0..N : w[n] = v[n]
  <2>1. Nat \subseteq S
    <3> HIDE DEF S
    <3> QED
      BY <1>6, <1>7, SetInduction
  <2> QED
    BY <1>1, <2>1
<1>9. \A i \in 1..N : w[i-1] = s[i]
  <2> TAKE i \in 1..N
  <2>1. i - 1 \in 0..N /\ i - 1 # N /\ (i - 1) + 1 = i
    BY <1>1
  <2> QED
    BY <1>8, <2>1 DEF v
<1>10. OrderOf(q) = [i \in 1..N |-> s[i]]
  BY <1>5, <1>9
<1>11. s = [i \in 1..N |-> s[i]]
  BY <1>1 DEF N
<1> QED
  BY <1>10, <1>11

\* A line that follows a well-formed list holds exactly its threads.
LEMMA FollowsCovers ==
  ASSUME NEW q, NEW Q \in SUBSET Threads, ListOf(q, Q), NEW s, Follows(q, s), NEW t \in Threads
  PROVE  t \in Q <=> \E i \in 1..Len(s) : s[i] = t
<1> DEFINE N == Len(s)
           In(u) == \E i \in 1..N : s[i] = u
<1>1. /\ N \in Nat /\ NULL \notin Threads /\ \A i \in 1..N : s[i] \in Threads
  <2>1. s \in Seq(Threads)
    BY DEF Follows
  <2>2. \A i \in 1..N : s[i] \in Threads
    BY <2>1, ElementOfSeq
  <2> QED
    BY <2>1, <2>2, SchedAssumption
<1>2. /\ q.head = IF N = 0 THEN NULL ELSE s[1]
      /\ q.tail = IF N = 0 THEN NULL ELSE s[N]
      /\ \A i \in 1..N : /\ q.next[s[i]] = IF i = N THEN NULL ELSE s[i+1]
                         /\ q.prev[s[i]] = IF i = 1 THEN NULL ELSE s[i-1]
  BY DEF Follows
<1>3. EndsOf(q, Q) /\ LinksOf(q, Q) /\ Acyclic(q, Q) /\ UnlinkedOutside(q, Q)
  BY DEF ListOf
<1> HIDE DEF N
<1>4. ASSUME NEW i \in 1..N, s[i] \notin Q PROVE FALSE
  <2>1. q.next[s[i]] = NULL /\ q.prev[s[i]] = NULL
    BY <1>1, <1>3, <1>4 DEF UnlinkedOutside
  <2>2. i = 1
    <3> SUFFICES ASSUME i # 1 PROVE FALSE
      OBVIOUS
    <3>1. i - 1 \in 1..N /\ q.prev[s[i]] = s[i-1]
      BY <1>1, <1>2
    <3> QED
      BY <1>1, <2>1, <3>1
  <2>3. q.head = s[i]
    BY <1>1, <1>2, <2>2
  <2> QED
    BY <1>1, <1>3, <1>4, <2>3 DEF EndsOf
<1>5. ASSUME t \in Q, ~ In(t) PROVE FALSE
  <2> DEFINE S == {u \in Q : ~ In(u)}
  <2>1. PICK u \in S : q.next[u] \notin S
    <3>1. S \in SUBSET Q /\ S # {}
      BY <1>5
    <3> HIDE DEF S
    <3> QED
      BY <1>3, <3>1 DEF Acyclic
  <2>2. u \in Q /\ ~ In(u)
    BY <2>1
  <2>3. q.next[u] # NULL
    <3> SUFFICES ASSUME q.next[u] = NULL PROVE FALSE
      OBVIOUS
    <3>1. u = q.tail /\ u # NULL
      BY <1>1, <1>3, <2>2 DEF LinksOf
    <3>2. N # 0 /\ u = s[N] /\ N \in 1..N
      BY <1>1, <1>2, <3>1
    <3> QED
      BY <2>2, <3>2
  <2>4. q.next[u] \in Q /\ q.prev[q.next[u]] = u
    BY <1>3, <2>2, <2>3 DEF LinksOf
  <2>5. PICK i \in 1..N : s[i] = q.next[u]
    BY <2>1, <2>4
  <2>6. q.prev[s[i]] = u
    BY <2>4, <2>5
  <2>7. i # 1 /\ i - 1 \in 1..N /\ s[i-1] = u
    BY <1>1, <1>2, <2>2, <2>6
  <2> QED
    BY <2>2, <2>7
<1> QED
  BY <1>4, <1>5 DEF N

\* sched_enqueue() puts a thread that is not in the line at its end.
LEMMA EnqueueFollows ==
  ASSUME NEW q \in RunQueue, NEW s, Follows(q, s), NEW t \in Threads,
         \A i \in 1..Len(s) : s[i] # t
  PROVE  Follows(sched_enqueue(q, t), Append(s, t))
<1> DEFINE e == sched_enqueue(q, t)
           N == Len(s)
           a == Append(s, t)
<1>1. /\ s \in Seq(Threads) /\ N \in Nat /\ NULL \notin Threads
      /\ \A i \in 1..N : s[i] \in Threads
  <2>1. s \in Seq(Threads)
    BY DEF Follows
  <2>2. \A i \in 1..N : s[i] \in Threads
    BY <2>1, ElementOfSeq
  <2> QED
    BY <2>1, <2>2, SchedAssumption
<1>2. /\ \A i, j \in 1..N : s[i] = s[j] => i = j
      /\ q.count = N
      /\ q.head = IF N = 0 THEN NULL ELSE s[1]
      /\ q.tail = IF N = 0 THEN NULL ELSE s[N]
      /\ \A i \in 1..N : /\ q.next[s[i]] = IF i = N THEN NULL ELSE s[i+1]
                         /\ q.prev[s[i]] = IF i = 1 THEN NULL ELSE s[i-1]
  BY DEF Follows
<1>3. /\ a \in Seq(Threads) /\ Len(a) = N + 1 /\ a[N+1] = t /\ \A i \in 1..N : a[i] = s[i]
  BY <1>1, AppendProperties
<1>4. /\ e.head = IF q.tail = NULL THEN t ELSE q.head
      /\ e.tail = t
      /\ e.count = q.count + 1
      /\ \A u \in Threads : e.next[u] = IF u = q.tail THEN t
                                        ELSE IF u = t THEN NULL ELSE q.next[u]
      /\ \A u \in Threads : e.prev[u] = IF u = t THEN q.tail ELSE q.prev[u]
  BY DEF sched_enqueue, RunQueue
<1>5. \A i \in 1..N : s[i] # t
  OBVIOUS
<1> HIDE DEF e, N, a
<1>6. \A i \in 1..N+1 : i = N + 1 \/ i \in 1..N
  BY <1>1
<1>7. \A i, j \in 1..N+1 : a[i] = a[j] => i = j
  BY <1>2, <1>3, <1>5, <1>6
<1>8. q.tail # t /\ (q.tail = NULL <=> N = 0) /\ (N # 0 => N \in 1..N /\ 1 \in 1..N)
  BY <1>1, <1>2, <1>5
<1>9. e.head = a[1] /\ e.tail = a[N+1] /\ e.count = N + 1
  BY <1>1, <1>2, <1>3, <1>4, <1>8
<1>10. ASSUME NEW i \in 1..N+1
       PROVE  /\ e.next[a[i]] = IF i = N + 1 THEN NULL ELSE a[i+1]
              /\ e.prev[a[i]] = IF i = 1 THEN NULL ELSE a[i-1]
  <2>1. CASE i = N + 1
    <3>1. a[i] = t /\ e.next[t] = NULL /\ e.prev[t] = q.tail
      BY <1>3, <1>4, <1>8, <2>1
    <3>2. CASE N = 0
      BY <1>8, <2>1, <3>1, <3>2
    <3>3. CASE N # 0
      <4>1. i # 1 /\ i - 1 = N /\ a[N] = s[N]
        BY <1>1, <1>3, <1>8, <2>1, <3>3
      <4> QED
        BY <1>2, <2>1, <3>1, <3>3, <4>1
    <3> QED
      BY <3>2, <3>3
  <2>2. CASE i # N + 1
    <3>1. i \in 1..N /\ a[i] = s[i] /\ s[i] \in Threads /\ s[i] # t
      BY <1>1, <1>3, <1>5, <1>6, <2>2
    <3>2. e.prev[a[i]] = IF i = 1 THEN NULL ELSE a[i-1]
      <4>1. i # 1 => i - 1 \in 1..N /\ a[i-1] = s[i-1]
        BY <1>1, <1>3, <3>1
      <4> QED
        BY <1>2, <1>4, <3>1, <4>1
    <3>3. CASE i = N
      <4>1. s[i] = q.tail
        BY <1>2, <1>8, <3>1, <3>3
      <4> QED
        BY <1>3, <1>4, <2>2, <3>1, <3>2, <3>3, <4>1
    <3>4. CASE i # N
      <4>1. i + 1 \in 1..N /\ a[i+1] = s[i+1] /\ N \in 1..N
        BY <1>1, <1>3, <3>1, <3>4
      <4>2. s[i] # q.tail
        BY <1>2, <1>8, <3>1, <3>4, <4>1
      <4> QED
        BY <1>2, <1>4, <2>2, <3>1, <3>2, <3>4, <4>1, <4>2
    <3> QED
      BY <3>3, <3>4
  <2> QED
    BY <2>1, <2>2
<1> QED
  <2>1. Len(a) # 0
    BY <1>1, <1>3
  <2> QED
    BY <1>3, <1>7, <1>9, <1>10, <2>1 DEF Follows, e, a

\* sched_dequeue() closes the gap behind the thread it takes out.
LEMMA DequeueFollows ==
  ASSUME NEW q \in RunQueue, NEW s, Follows(q, s), NEW k \in 1..Len(s)
  PROVE  Follows(sched_dequeue(q, s[k]), RR!Without(s, s[k]))
<1> DEFINE t == s[k]
           d == sched_dequeue(q, t)
           N == Len(s)
           g == RR!Without(s, t)
           n == q.next[t]
           p == q.prev[t]
<1>1. /\ s \in Seq(Threads) /\ N \in Nat /\ NULL \notin Threads
      /\ \A i \in 1..N : s[i] \in Threads
  <2>1. s \in Seq(Threads)
    BY DEF Follows
  <2>2. \A i \in 1..N : s[i] \in Threads
    BY <2>1, ElementOfSeq
  <2> QED
    BY <2>1, <2>2, SchedAssumption
<1>2. /\ \A i, j \in 1..N : s[i] = s[j] => i = j
      /\ q.count = N
      /\ q.head = IF N = 0 THEN NULL ELSE s[1]
      /\ q.tail = IF N = 0 THEN NULL ELSE s[N]
      /\ \A i \in 1..N : /\ q.next[s[i]] = IF i = N THEN NULL ELSE s[i+1]
                         /\ q.prev[s[i]] = IF i = 1 THEN NULL ELSE s[i-1]
  BY DEF Follows
<1>3. g = [i \in 1..N-1 |-> IF i < k THEN s[i] ELSE s[i+1]]
  <2>1. (CHOOSE i \in 1..Len(s) : s[i] = t) = k
    BY <1>2
  <2> QED
    BY <2>1 DEF RR!Without
<1>4. /\ d.head = IF p = NULL THEN n ELSE q.head
      /\ d.tail = IF n = NULL THEN p ELSE q.tail
      /\ d.count = q.count - 1
      /\ \A u \in Threads : d.next[u] = IF u = t THEN NULL ELSE IF u = p THEN n ELSE q.next[u]
      /\ \A u \in Threads : d.prev[u] = IF u = t THEN NULL ELSE IF u = n THEN p ELSE q.prev[u]
  BY DEF sched_dequeue
<1>5. n = (IF k = N THEN NULL ELSE s[k+1]) /\ p = (IF k = 1 THEN NULL ELSE s[k-1])
  BY <1>2
<1>6. k \in 1..N /\ k \in Nat /\ N \in Nat /\ N # 0 /\ N - 1 \in Nat
  BY <1>1
<1> HIDE DEF N, d, g, n, p
<1>7. ASSUME NEW i \in 1..N-1
      PROVE  /\ i < k => i \in 1..N /\ g[i] = s[i]
             /\ i >= k => i + 1 \in 1..N /\ g[i] = s[i+1]
             /\ g[i] \in Threads
  <2>1. i \in 1..N /\ i + 1 \in 1..N
    BY <1>1
  <2> QED
    BY <1>1, <1>3, <1>6, <2>1
<1>8. g \in Seq(Threads) /\ Len(g) = N - 1
  <2>1. g \in [1..N-1 -> Threads]
    BY <1>3, <1>7
  <2>2. g \in Seq(Threads)
    BY <1>6, <2>1, SeqDef
  <2>3. DOMAIN g = 1..N-1
    BY <2>1
  <2> QED
    BY <1>6, <2>2, <2>3, LenProperties
<1>9. \A i, j \in 1..N-1 : g[i] = g[j] => i = j
  <2> TAKE i, j \in 1..N-1
  <2> HAVE g[i] = g[j]
  <2>1. CASE i < k /\ j < k
    BY <1>2, <1>7, <2>1
  <2>2. CASE i < k /\ ~ j < k
    BY <1>2, <1>6, <1>7, <2>2
  <2>3. CASE ~ i < k /\ j < k
    BY <1>2, <1>6, <1>7, <2>3
  <2>4. CASE ~ i < k /\ ~ j < k
    <3>1. i + 1 = j + 1
      BY <1>2, <1>6, <1>7, <2>4
    <3> QED
      BY <3>1
  <2> QED
    BY <2>1, <2>2, <2>3, <2>4
<1>10. d.head = IF N - 1 = 0 THEN NULL ELSE g[1]
  <2>1. CASE k = 1
    <3>1. p = NULL /\ d.head = n
      BY <1>4, <1>5, <2>1
    <3>2. CASE N = 1
      BY <1>5, <2>1, <3>1, <3>2
    <3>3. CASE N # 1
      <4>1. 1 \in 1..N-1 /\ 1 >= k /\ N - 1 # 0 /\ k # N
        BY <1>6, <2>1, <3>3
      <4> QED
        BY <1>5, <1>7, <2>1, <3>1, <4>1
    <3> QED
      BY <3>2, <3>3
  <2>2. CASE k # 1
    <3>1. k - 1 \in 1..N /\ 1 \in 1..N-1 /\ 1 < k /\ N - 1 # 0
      BY <1>6, <2>2
    <3>2. p # NULL
      BY <1>1, <1>5, <2>2, <3>1
    <3> QED
      BY <1>2, <1>4, <1>6, <1>7, <3>1, <3>2
  <2> QED
    BY <2>1, <2>2
<1>11. d.tail = IF N - 1 = 0 THEN NULL ELSE g[N-1]
  <2>1. CASE k = N
    <3>1. n = NULL /\ d.tail = p
      BY <1>4, <1>5, <2>1
    <3>2. CASE N = 1
      BY <1>5, <2>1, <3>1, <3>2
    <3>3. CASE N # 1
      <4>1. N - 1 \in 1..N-1 /\ N - 1 < k /\ N - 1 # 0 /\ k # 1
        BY <1>6, <2>1, <3>3
      <4> QED
        BY <1>5, <1>7, <2>1, <3>1, <4>1
    <3> QED
      BY <3>2, <3>3
  <2>2. CASE k # N
    <3>1. k + 1 \in 1..N /\ N - 1 \in 1..N-1 /\ N - 1 >= k /\ N - 1 # 0 /\ (N - 1) + 1 = N
      BY <1>6, <2>2
    <3>2. n # NULL
      BY <1>1, <1>5, <2>2, <3>1
    <3> QED
      BY <1>2, <1>4, <1>6, <1>7, <3>1, <3>2
  <2> QED
    BY <2>1, <2>2
<1>12. ASSUME NEW i \in 1..N-1
       PROVE  d.next[g[i]] = IF i = N - 1 THEN NULL ELSE g[i+1]
  <2>1. CASE i < k
    <3>1. i \in 1..N /\ g[i] = s[i] /\ s[i] \in Threads /\ s[i] # t
      BY <1>1, <1>2, <1>6, <1>7, <2>1
    <3>2. CASE i = k - 1
      <4>1. k # 1 /\ s[i] = p /\ (i = N - 1 <=> k = N)
        BY <1>5, <1>6, <3>2
      <4>2. d.next[g[i]] = n
        BY <1>4, <3>1, <4>1
      <4>3. k # N => i + 1 \in 1..N-1 /\ i + 1 >= k /\ (i + 1) + 1 = k + 1
        BY <1>6, <3>2
      <4>4. k # N => g[i+1] = s[k+1]
        BY <1>7, <4>3
      <4> QED
        BY <1>5, <4>1, <4>2, <4>4
    <3>3. CASE i # k - 1
      <4>1. i # N - 1 /\ i # N /\ i + 1 \in 1..N-1 /\ i + 1 < k
        BY <1>6, <2>1, <3>3
      <4>2. s[i] # p
        <5>1. k # 1 => k - 1 \in 1..N
          BY <1>6
        <5> QED
          BY <1>1, <1>2, <1>5, <3>1, <3>3, <5>1
      <4>3. d.next[g[i]] = s[i+1]
        BY <1>2, <1>4, <3>1, <4>1, <4>2
      <4> QED
        BY <1>7, <4>1, <4>3
    <3> QED
      BY <3>2, <3>3
  <2>2. CASE ~ i < k
    <3>1. i + 1 \in 1..N /\ i + 1 # k /\ i + 1 # k - 1 /\ i >= k
      BY <1>6, <2>2
    <3>2. g[i] = s[i+1] /\ s[i+1] \in Threads /\ s[i+1] # t
      BY <1>1, <1>2, <1>6, <1>7, <3>1
    <3>3. s[i+1] # p
      <4>1. k # 1 => k - 1 \in 1..N
        BY <1>6
      <4> QED
        BY <1>1, <1>2, <1>5, <3>1, <3>2, <4>1
    <3>4. d.next[g[i]] = IF i + 1 = N THEN NULL ELSE s[(i+1)+1]
      BY <1>2, <1>4, <3>1, <3>2, <3>3
    <3>5. (i + 1 = N <=> i = N - 1) /\ (i # N - 1 => i + 1 \in 1..N-1 /\ i + 1 >= k)
      BY <1>6, <3>1
    <3> QED
      BY <1>7, <3>4, <3>5
  <2> QED
    BY <2>1, <2>2
<1>13. ASSUME NEW i \in 1..N-1
       PROVE  d.prev[g[i]] = IF i = 1 THEN NULL ELSE g[i-1]
  <2>1. CASE i < k
    <3>1. i \in 1..N /\ g[i] = s[i] /\ s[i] \in Threads /\ s[i] # t /\ i # k + 1
      BY <1>1, <1>2, <1>6, <1>7, <2>1
    <3>2. s[i] # n
      <4>1. k # N => k + 1 \in 1..N
        BY <1>6
      <4> QED
        BY <1>1, <1>2, <1>5, <3>1, <4>1
    <3>3. d.prev[g[i]] = IF i = 1 THEN NULL ELSE s[i-1]
      BY <1>2, <1>4, <3>1, <3>2
    <3>4. i # 1 => i - 1 \in 1..N-1 /\ i - 1 < k
      BY <1>6, <2>1
    <3> QED
      BY <1>7, <3>3, <3>4
  <2>2. CASE i = k
    <3>1. k # N /\ i >= k /\ k + 1 \in 1..N
      BY <1>6, <2>2
    <3>2. g[i] = n /\ n \in Threads /\ n # t
      BY <1>1, <1>2, <1>5, <1>6, <1>7, <2>2, <3>1
    <3>3. d.prev[g[i]] = p
      BY <1>4, <3>2
    <3>4. i # 1 => i - 1 \in 1..N-1 /\ i - 1 < k
      BY <1>6, <2>2
    <3> QED
      BY <1>5, <1>7, <2>2, <3>3, <3>4
  <2>3. CASE i > k
    <3>1. /\ i + 1 \in 1..N /\ i + 1 # k /\ i + 1 # k + 1 /\ i + 1 # 1 /\ i >= k /\ i # 1
          /\ (i + 1) - 1 = i /\ i - 1 \in 1..N-1 /\ i - 1 >= k /\ (i - 1) + 1 = i
      BY <1>6, <2>3
    <3>2. g[i] = s[i+1] /\ s[i+1] \in Threads /\ s[i+1] # t /\ g[i-1] = s[i]
      <4>1. g[i-1] = s[(i-1)+1]
        BY <1>7, <3>1
      <4> QED
        BY <1>1, <1>2, <1>6, <1>7, <3>1, <4>1
    <3>3. s[i+1] # n
      <4>1. k # N => k + 1 \in 1..N
        BY <1>6
      <4> QED
        BY <1>1, <1>2, <1>5, <3>1, <3>2, <4>1
    <3>4. q.prev[s[i+1]] = s[i]
      <4>1. q.prev[s[i+1]] = IF i + 1 = 1 THEN NULL ELSE s[(i+1)-1]
        BY <1>2, <3>1
      <4> QED
        BY <3>1, <4>1
    <3> QED
      BY <1>4, <3>1, <3>2, <3>3, <3>4
  <2> QED
    BY <1>6, <2>1, <2>2, <2>3
<1>14. d.count = N - 1
  BY <1>2, <1>4
<1> HIDE DEF t
<1>15. Follows(d, g)
  BY <1>8, <1>9, <1>10, <1>11, <1>12, <1>13, <1>14 DEF Follows
<1> QED
  BY <1>15 DEF d, g, t

\* What the line is without one of its threads.
LEMMA WithoutFacts ==
  ASSUME NEW s \in Seq(Threads), \A i, j \in 1..Len(s) : s[i] = s[j] => i = j, NEW k \in 1..Len(s)
  PROVE  /\ \A i \in 1..Len(RR!Without(s, s[k])) : RR!Without(s, s[k])[i] # s[k]
         /\ Len(RR!Without(s, s[k])) = Len(s) - 1
         /\ k = 1 => RR!Without(s, s[k]) = Tail(s)
<1> DEFINE N == Len(s)
           g == RR!Without(s, s[k])
<1>1. N \in Nat /\ k \in Nat /\ k <= N /\ 1 <= k /\ N - 1 \in Nat
  OBVIOUS
<1>2. g = [i \in 1..N-1 |-> IF i < k THEN s[i] ELSE s[i+1]]
  <2>1. (CHOOSE i \in 1..Len(s) : s[i] = s[k]) = k
    OBVIOUS
  <2> QED
    BY <2>1 DEF RR!Without
<1> HIDE DEF g
<1>3. Len(g) = N - 1
  <2>1. \A i \in 1..N-1 : i \in 1..N /\ i + 1 \in 1..N
    BY <1>1
  <2>2. \A i \in 1..N : s[i] \in Threads
    BY ElementOfSeq
  <2>3. g \in [1..N-1 -> Threads]
    BY <1>2, <2>1, <2>2
  <2>4. g \in Seq(Threads) /\ DOMAIN g = 1..N-1
    BY <1>1, <2>3, SeqDef
  <2> QED
    BY <1>1, <2>4, LenProperties
<1>4. ASSUME NEW i \in 1..N-1 PROVE g[i] # s[k]
  <2>1. i \in 1..N /\ i + 1 \in 1..N /\ (i < k => i # k) /\ (~ i < k => i + 1 # k)
    BY <1>1
  <2> QED
    BY <1>2, <2>1
<1>5. ASSUME k = 1 PROVE g = Tail(s)
  <2>1. g = [i \in 1..N-1 |-> s[i+1]]
    <3>1. \A i \in 1..N-1 : ~ i < k
      BY <1>5
    <3> QED
      BY <1>2, <3>1
  <2> DEFINE w == Tail(s)
  <2>2. s # << >>
    BY <1>1
  <2>3. w \in Seq(Threads) /\ Len(w) = N - 1 /\ \A i \in 1..N-1 : w[i] = s[i+1]
    BY <2>2, HeadTailProperties
  <2> HIDE DEF w
  <2>4. w = [i \in 1..N-1 |-> w[i]]
    BY <2>3
  <2>5. w = g
    BY <2>1, <2>3, <2>4
  <2> QED
    BY <2>5 DEF w
<1> QED
  BY <1>3, <1>4, <1>5 DEF g

\* The rotation in sched_run(): out at the front, in at the end.
LEMMA RotateFollows ==
  ASSUME NEW q \in RunQueue, sched_dequeue(q, q.head) \in RunQueue,
         NEW s, Follows(q, s), s # << >>
  PROVE  /\ q.head = Head(s)
         /\ Follows(sched_enqueue(sched_dequeue(q, q.head), q.head), RR!Rotate(s))
<1> DEFINE h == q.head
           d == sched_dequeue(q, h)
           g == RR!Without(s, s[1])
<1>1. s \in Seq(Threads) /\ Len(s) \in Nat /\ Len(s) # 0 /\ 1 \in 1..Len(s)
  <2>1. s \in Seq(Threads)
    BY DEF Follows
  <2> QED
    BY <2>1, EmptySeq
<1>2. \A i, j \in 1..Len(s) : s[i] = s[j] => i = j
  BY DEF Follows
<1>3. h = s[1] /\ h = Head(s) /\ h \in Threads
  <2>1. h = s[1]
    BY <1>1 DEF Follows
  <2>2. s[1] \in Threads
    BY <1>1, ElementOfSeq
  <2> QED
    BY <1>1, <2>1, <2>2
<1>4. Follows(d, g)
  BY <1>1, <1>3, DequeueFollows
<1>5. (\A i \in 1..Len(g) : g[i] # s[1]) /\ g = Tail(s)
  BY <1>1, <1>2, WithoutFacts
<1> HIDE DEF g, d, h
<1>6. Follows(sched_enqueue(d, h), Append(g, h))
  BY <1>3, <1>4, <1>5, EnqueueFollows DEF d, h
<1> QED
  BY <1>3, <1>5, <1>6 DEF RR!Rotate, d, h

-----------------------------------------------------------------------------
(* The steps of the scheduler on its line.                                 *)

\* The line is what the list is: all that the refinement adds to IInv.
LineInv == Follows(rq, QueueOrder)

\* A queue that follows a line: the line is what the mapping reads off it.
LEMMA NextLine ==
  ASSUME NEW s, Follows(rq', s)
  PROVE  QueueOrder' = s /\ LineInv'
<1>1. OrderOf(rq') = s
  BY FollowsOrder
<1>2. QueueOrder' = s
  BY <1>1 DEF QueueOrder, OrderOf
<1> QED
  BY <1>2 DEF LineInv, Follows

LEMMA LineFacts ==
  ASSUME IInv, LineInv
  PROVE  /\ rq \in RunQueue /\ Queued \in SUBSET Threads /\ ListOf(rq, Queued)
         /\ QueueOrder \in Seq(Threads)
         /\ \A i, j \in 1..Len(QueueOrder) : QueueOrder[i] = QueueOrder[j] => i = j
         /\ \A t \in Threads : t \in Queued <=> RR!InLine(t)
<1>1. TypeOK /\ QueueWF
  BY DEF IInv
<1>2. rq \in RunQueue /\ Queued \in SUBSET Threads /\ ListOf(rq, Queued)
  BY <1>1, TypeRunQueue DEF TypeOK, Queued, QueueWF
<1>3. \A t \in Threads : t \in Queued <=> RR!InLine(t)
  BY <1>2, FollowsCovers DEF LineInv, RR!InLine
<1> QED
  BY <1>2, <1>3 DEF LineInv, Follows

\* A thread that is created or woken joins the line.
LEMMA JoinLine ==
  ASSUME IInv, LineInv, NEW t \in Threads, t \notin Queued, rq' = sched_enqueue(rq, t)
  PROVE  /\ LineInv' /\ ~ RR!InLine(t)
         /\ QueueOrder' = Append(QueueOrder, t)
<1>1. rq \in RunQueue /\ ~ RR!InLine(t)
  BY LineFacts
<1>2. Follows(rq, QueueOrder) /\ \A i \in 1..Len(QueueOrder) : QueueOrder[i] # t
  BY <1>1 DEF LineInv, RR!InLine
<1>3. Follows(rq', Append(QueueOrder, t))
  BY <1>1, <1>2, EnqueueFollows
<1> QED
  BY <1>1, <1>3, NextLine

\* sched_run() from a queue that follows line s gives the CPU to the front.
LEMMA DispatchLine ==
  ASSUME NEW q \in RunQueue, NEW Q \in SUBSET Threads, ListOf(q, Q), Q # {},
         NEW s, Follows(q, s), NEW st, q.head # current, sched_run(q, st)
  PROVE  /\ LineInv' /\ s # << >> /\ Head(s) # current
         /\ current' = Head(s) /\ QueueOrder' = RR!Rotate(s)
<1> DEFINE h == q.head
<1>1. h \in Q /\ h # NULL
  BY SchedAssumption DEF ListOf, EndsOf
<1>2. s # << >>
  <2>1. h # NULL => Len(s) # 0
    BY DEF Follows
  <2> QED
    BY <1>1, <2>1
<1>3. sched_choose(q) = h /\ h \notin {NULL, current}
  BY <1>1 DEF sched_choose
<1>4. LooksQueued(q, h)
  BY DEF LooksQueued
<1>5. current' = h /\ rq' = sched_enqueue(sched_dequeue(q, h), h)
  BY <1>3, <1>4 DEF sched_run
<1>6. sched_dequeue(q, h) \in RunQueue
  BY <1>1, DequeueList
<1>7. h = Head(s) /\ Follows(rq', RR!Rotate(s))
  BY <1>2, <1>5, <1>6, RotateFollows
<1> QED
  BY <1>2, <1>5, <1>7, NextLine

LEMMA YieldLine ==
  ASSUME IInv, LineInv, sched_choose(rq) \notin {NULL, current}, sched_run(rq, state)
  PROVE  LineInv' /\ RR!Dispatch
<1>1. CpuInv
  BY DEF IInv
<1>2. rq \in RunQueue /\ Queued \in SUBSET Threads /\ ListOf(rq, Queued)
  BY LineFacts
<1>3. Queued # {} /\ rq.head # current
  BY <1>1, <1>2 DEF sched_choose, ListOf, EndsOf, CpuInv
<1>4. /\ LineInv' /\ QueueOrder # << >> /\ Head(QueueOrder) # current
      /\ current' = Head(QueueOrder) /\ QueueOrder' = RR!Rotate(QueueOrder)
  BY <1>2, <1>3, DispatchLine DEF LineInv
<1> QED
  BY <1>4 DEF RR!Dispatch

\* The running thread leaves the line when it exits or waits.
LEMMA LeaveLine ==
  ASSUME ~ ExitedKeepsCalling, IInv, LineInv, CallerRuns
  PROVE  /\ RR!InLine(current) /\ current \in Queued
         /\ Follows(sched_dequeue(rq, current), RR!Without(QueueOrder, current))
<1>1. current \in Threads /\ current \in Queued
  BY CallerFacts
<1>2. RR!InLine(current) /\ rq \in RunQueue
  BY <1>1, LineFacts
<1>3. PICK k \in 1..Len(QueueOrder) : QueueOrder[k] = current
  BY <1>2 DEF RR!InLine
<1> QED
  BY <1>1, <1>2, <1>3, DequeueFollows DEF LineInv

LEMMA BlockLine ==
  ASSUME ~ ExitedKeepsCalling, IInv, LineInv, BlockCurrent
  PROVE  LineInv' /\ RR!Block
<1> DEFINE q == sched_dequeue(rq, current)
           Q == Queued \ {current}
           s == RR!Without(QueueOrder, current)
           st == [state EXCEPT ![current] = "BLOCKED"]
<1>1. CallerRuns /\ sched_run(q, st)
  BY DEF BlockCurrent
<1>2. RR!InLine(current) /\ current \in Queued /\ Follows(q, s)
  BY <1>1, LeaveLine
<1>3. idle \in Queued /\ idle # current
  BY <1>1, CallerFacts
<1>4. q \in RunQueue /\ ListOf(q, Q)
  BY <1>2, LineFacts, DequeueList
<1>5. Q \in SUBSET Threads /\ Q # {} /\ current \notin Q
  BY <1>3, LineFacts
<1>6. q.head # current
  BY <1>4, <1>5 DEF ListOf, EndsOf
<1> HIDE DEF q, Q, s, st
<1>7. /\ LineInv' /\ s # << >> /\ current' = Head(s) /\ QueueOrder' = RR!Rotate(s)
  BY <1>1, <1>2, <1>4, <1>5, <1>6, DispatchLine
<1> QED
  BY <1>2, <1>7 DEF RR!Block, s

LEMMA LineStep ==
  ASSUME ~ ExitedKeepsCalling, IInv, LineInv, [Next]_vars
  PROVE  LineInv' /\ [RR!RRNext]_(RR!rrVars)
<1>1. ASSUME UNCHANGED <<rq, current>> PROVE LineInv' /\ UNCHANGED RR!rrVars
  <2>1. QueueOrder' = QueueOrder
    BY <1>1 DEF QueueOrder, OrderOf
  <2> QED
    BY <1>1, <2>1 DEF LineInv, Follows, RR!rrVars
<1>2. ASSUME NEW t \in Threads, t \notin Queued, rq' = sched_enqueue(rq, t), UNCHANGED current
      PROVE  LineInv' /\ RR!Admit(t)
  BY <1>2, JoinLine DEF RR!Admit
<1>3. ASSUME NEW t \in Threads, NEW p \in Pages, NEW b \in BOOLEAN, ThreadCreate(t, p, b)
      PROVE  LineInv' /\ RR!RRNext
  <2>1. t \notin Queued /\ rq' = sched_enqueue(rq, t) /\ UNCHANGED current
    BY <1>3 DEF ThreadCreate, thread_create, Queued, cpuVars
  <2> QED
    BY <1>2, <2>1 DEF RR!RRNext
<1>4. CASE SchedCreateIdle
  <2>1. CASE UNCHANGED <<queueVars, memVars, saved, cpuVars>>
    BY <1>1, <2>1 DEF queueVars, cpuVars
  <2>2. ASSUME NEW t \in Threads, NEW p \in Pages, thread_create(t, p, FALSE), current' = t
        PROVE  LineInv' /\ RR!RRNext
    <3>1. t \notin Queued /\ rq' = sched_enqueue(rq, t)
      BY <2>2 DEF thread_create, Queued
    <3>2. current = NULL
      BY <1>4 DEF SchedCreateIdle, IInv, CpuInv
    <3>3. LineInv' /\ RR!Adopt(t)
      BY <2>2, <3>1, <3>2, JoinLine DEF RR!Adopt
    <3> QED
      BY <3>3 DEF RR!RRNext
  <2> QED
    BY <1>4, <2>1, <2>2 DEF SchedCreateIdle
<1>5. CASE EnterSchedIdle
  BY <1>1, <1>5 DEF EnterSchedIdle, queueVars, cpuVars
<1>6. CASE SchedIdle
  <2>1. CASE sched_choose(rq) \notin {NULL, current}
    BY <1>6, <2>1, YieldLine DEF SchedIdle, RR!RRNext
  <2>2. CASE sched_choose(rq) \in {NULL, current}
    BY <1>1, <1>6, <2>2 DEF SchedIdle, queueVars
  <2> QED
    BY <2>1, <2>2
<1>7. CASE ThreadYield
  BY <1>7, YieldLine DEF ThreadYield, RR!RRNext
<1>8. CASE BlockCurrent
  BY <1>8, BlockLine DEF RR!RRNext
<1>9. ASSUME NEW t \in Threads, Unblock(t) PROVE LineInv' /\ RR!RRNext
  <2>1. t \notin Queued /\ rq' = sched_enqueue(rq, t) /\ UNCHANGED current
    BY <1>9 DEF Unblock, Queued, cpuVars
  <2> QED
    BY <1>2, <2>1 DEF RR!RRNext
<1>10. CASE ThreadExit
  <2>1. CallerRuns /\ rq' = sched_dequeue(rq, current) /\ UNCHANGED current
    BY <1>10 DEF ThreadExit, cpuVars
  <2>2. RR!InLine(current) /\ Follows(rq', RR!Without(QueueOrder, current))
    BY <2>1, LeaveLine
  <2>3. LineInv' /\ QueueOrder' = RR!Without(QueueOrder, current)
    BY <2>2, NextLine
  <2> QED
    BY <2>1, <2>2, <2>3 DEF RR!Leave, RR!RRNext
<1>11. CASE UNCHANGED vars
  BY <1>1, <1>11 DEF vars
<1> QED
  BY <1>3, <1>4, <1>5, <1>6, <1>7, <1>8, <1>9, <1>10, <1>11 DEF Next

LEMMA LineInit == ASSUME Init PROVE LineInv /\ RR!RRInit
<1>1. Follows(rq, << >>)
  BY DEF Init, Follows
<1>2. QueueOrder = << >>
  BY <1>1, FollowsOrder DEF QueueOrder
<1> QED
  BY <1>1, <1>2 DEF Init, LineInv, RR!RRInit

(* As long as a thread that exited makes no further call, the linked run   *)
(* queue of sched.c is a round-robin line: every call admits a thread at   *)
(* its end, gives the CPU to its front and sends that to the end, or takes *)
(* the running thread out of it (sched.h:6, sched.c:21-72, 135-159).       *)
THEOREM SchedImplementsRoundRobin ==
  ASSUME ~ ExitedKeepsCalling
  PROVE  Spec => RefinesRoundRobin
<1>1. Init => IInv /\ LineInv /\ RR!RRInit
  BY InitIInv, LineInit
<1>2. IInv /\ LineInv /\ [Next]_vars => IInv' /\ LineInv' /\ [RR!RRNext]_(RR!rrVars)
  BY NextIInv, LineStep
<1> QED
  BY <1>1, <1>2, PTL DEF Spec, RefinesRoundRobin, RR!RRSpec

-----------------------------------------------------------------------------
(* The timer.                                                              *)

(* thread_yield() called by irq_0 is the yield of the interrupted thread,  *)
(* or, on kmain's stack, one turn of the idle loop (idt.c:150-156).        *)
LEMMA IrqYieldStep == ASSUME irq_0 PROVE [Next]_vars
<1>1. /\ phase = "run" /\ halted = "no" /\ YieldInHandler /\ UNCHANGED <<memVars, phase>>
  BY DEF irq_0, TimerFires
<1>2. CASE sched_choose(rq) \in {NULL, current}
  BY <1>1, <1>2 DEF YieldInHandler, cpuVars, memVars, vars
<1>3. CASE sched_choose(rq) \notin {NULL, current}
  <2>1. sched_run(rq, state)
    BY <1>1, <1>3 DEF YieldInHandler
  <2>2. CASE rsp = BootStack
    BY <1>1, <1>3, <2>1, <2>2 DEF SchedIdle, Next
  <2>3. CASE rsp # BootStack
    BY <1>1, <1>3, <2>1, <2>3 DEF ThreadYield, ThreadRuns, Next
  <2> QED
    BY <2>2, <2>3
<1> QED
  BY <1>2, <1>3

(* Every step of the machine with its timer is a step of the scheduler or  *)
(* none of its business.                                                   *)
LEMMA IrqStep == ASSUME [IrqNext]_<<vars, irqVars>> PROVE [Next]_vars
<1>1. CASE UNCHANGED <<vars, irqVars>>
  BY <1>1
<1>2. CASE IrqReturn \/ (\E ms \in Delays : clock_delay_ms(ms)) \/ EntryReturns
  BY <1>2 DEF IrqReturn, clock_delay_ms, EntryReturns
<1>3. CASE EnterIdleLoop
  BY <1>3 DEF EnterIdleLoop, Next
<1>4. CASE \/ \E t \in Threads, p \in Pages, b \in BOOLEAN : Call(ThreadCreate(t, p, b))
           \/ Call(SchedCreateIdle) \/ Call(SchedIdle) \/ Call(ThreadYield)
           \/ Call(BlockCurrent) \/ Call(ThreadExit)
           \/ \E t \in Threads : Call(Unblock(t))
  BY <1>4 DEF Call, Next
<1>5. CASE irq_0
  BY <1>5, IrqYieldStep
<1> QED
  BY <1>1, <1>2, <1>3, <1>4, <1>5 DEF IrqNext

(* A step of the scheduler that passes the CPU on, once kmain is in its    *)
(* idle loop, passes it to a live thread that waits for it.                *)
LEMMA SwitchToRunnable ==
  ASSUME ~ ExitedKeepsCalling, IInv, [Next]_vars, phase = "run", current' # current
  PROVE  current' \in live /\ state[current'] = "RUNNABLE"
<1>1. TypeOK /\ QueueWF /\ OneRunning /\ CpuInv
  BY DEF IInv
<1>2. ASSUME NEW q, NEW st, NEW Q \in SUBSET Queued, EndsOf(q, Q), idle # NULL => Q # {},
             sched_run(q, st)
      PROVE  current' \in live /\ state[current'] = "RUNNABLE"
  <2>1. current' = sched_choose(q) /\ sched_choose(q) # NULL
    BY <1>2 DEF sched_run, cpuVars
  <2>2. current' \in Queued
    BY <1>2, <2>1 DEF sched_choose, EndsOf
  <2> QED
    BY <1>1, <2>2 DEF Queued, OneRunning
<1>3. EndsOf(rq, Queued) /\ (idle # NULL => Queued # {})
  BY <1>1 DEF QueueWF, ListOf, CpuInv
<1>4. CASE SchedIdle
  BY <1>2, <1>3, <1>4 DEF SchedIdle
<1>5. CASE ThreadYield
  BY <1>2, <1>3, <1>5 DEF ThreadYield
<1>6. CASE BlockCurrent
  <2>1. /\ current \in Queued /\ idle # NULL /\ current # idle /\ idle \in Queued
    BY <1>6, CallerFacts DEF BlockCurrent
  <2>2. Queued \in SUBSET Threads
    BY <1>1 DEF Queued, TypeOK
  <2>3. EndsOf(sched_dequeue(rq, current), Queued \ {current})
    BY <1>1, <2>1, <2>2, TypeRunQueue, DequeueList DEF QueueWF, ListOf
  <2>4. sched_run(sched_dequeue(rq, current), [state EXCEPT ![current] = "BLOCKED"])
    BY <1>6 DEF BlockCurrent
  <2>5. Queued \ {current} \in SUBSET Queued /\ Queued \ {current} # {}
    BY <2>1
  <2> QED
    BY <1>2, <2>3, <2>4, <2>5
<1>7. CASE \/ \E t \in Threads, p \in Pages, b \in BOOLEAN : ThreadCreate(t, p, b)
           \/ EnterSchedIdle \/ ThreadExit \/ \E t \in Threads : Unblock(t)
  BY <1>7 DEF ThreadCreate, EnterSchedIdle, ThreadExit, Unblock, cpuVars
<1>8. CASE SchedCreateIdle
  BY <1>8 DEF SchedCreateIdle
<1>9. CASE UNCHANGED vars
  BY <1>9 DEF vars
<1> QED
  BY <1>4, <1>5, <1>6, <1>7, <1>8, <1>9 DEF Next

-----------------------------------------------------------------------------
(* The machine with its timer implements the scheduler: whenever irq_0     *)
(* strikes between two calls, what it does is what a thread could have     *)
(* done by itself.                                                         *)
THEOREM IrqImplementsSched == IrqSpec => Spec
<1>1. IrqInit => Init
  BY DEF IrqInit
<1>2. [IrqNext]_<<vars, irqVars>> => [Next]_vars
  BY IrqStep
<1> QED
  BY <1>1, <1>2, PTL DEF IrqSpec, Spec

(* With the timer interrupting, the CPU still goes round the line.         *)
THEOREM IrqImplementsRoundRobin ==
  ASSUME ~ ExitedKeepsCalling
  PROVE  IrqSpec => RefinesRoundRobin
  BY IrqImplementsSched, SchedImplementsRoundRobin, PTL

\* The inductive invariant of the scheduler, with the timer running.
LEMMA IrqIInv == ASSUME ~ ExitedKeepsCalling PROVE IrqSpec => []IInv
<1>1. Spec => []IInv
  BY InitIInv, NextIInv, PTL DEF Spec
<1> QED
  BY <1>1, IrqImplementsSched, PTL

(* With the timer interrupting, the run queue stays one well-formed list.  *)
THEOREM IrqQueue == ASSUME ~ ExitedKeepsCalling PROVE IrqSpec => []QueueWF
<1>1. IInv => QueueWF
  BY DEF IInv
<1> QED
  BY <1>1, IrqIInv, PTL

(* With the timer interrupting, exactly the thread that has the CPU is     *)
(* marked RUNNING.                                                         *)
THEOREM IrqOneRunning == ASSUME ~ ExitedKeepsCalling PROVE IrqSpec => []OneRunning
<1>1. IInv => OneRunning
  BY DEF IInv
<1> QED
  BY <1>1, IrqIInv, PTL

(* With the timer interrupting, every thread runs and is resumed on its    *)
(* own stack, and the next entry into the kernel would use it.             *)
THEOREM IrqEntryStack ==
  ASSUME ~ ExitedKeepsCalling
  PROVE  IrqSpec => [](KernelEntryStack /\ StackOwnership)
<1>1. IInv => KernelEntryStack /\ StackOwnership
  BY DEF IInv
<1> QED
  BY <1>1, IrqIInv, PTL

(* Neither a call nor the timer ever gives the CPU to a thread that is     *)
(* blocked, gone, or already running.                                      *)
THEOREM IrqChosen == ASSUME ~ ExitedKeepsCalling PROVE IrqSpec => ChosenIsRunnable
<1>1. IInv /\ [IrqNext]_<<vars, irqVars>> =>
        [phase = "run" /\ current' # current =>
           current' \in live /\ state[current'] = "RUNNABLE"]_<<vars, irqVars>>
  BY IrqStep, SwitchToRunnable
<1> QED
  BY <1>1, IrqIInv, PTL DEF IrqSpec, ChosenIsRunnable
=============================================================================
