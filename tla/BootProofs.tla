----------------------------- MODULE BootProofs -----------------------------
(* Proofs about the kernel that Boot brings up.  The way of a system call: *)
(* for every set of callers, every number they put in rax, and every       *)
(* interleaving of their calls with each other and with what else the      *)
(* kernel does.  The console: for every screen, every text and every       *)
(* number printed, and every width of the integers.                        *)
EXTENDS Boot, NaturalLemmas, SequenceTheorems

\* The registers of caller c as syscall_entry pushes them.
Entered(c) ==
  [r \in Registers |-> CASE r = "rax" -> call[c].rax
                         [] r = "rcx" -> Rip(c)
                         [] r = "r11" -> Rflags(c, TRUE)
                         [] OTHER     -> Own(c, r)]

\* s is the stack of caller c: in a call, the sixth argument and the word of
\* alignment above the registers it came with.
OwnStack(c, s) ==
  IF call[c].in THEN \E a \in Int : s = <<a>> \o (<<0>> \o Pushed(PushOrder, Entered(c), UserStack(c)))
                ELSE s = UserStack(c)

\* f are registers of caller c: in a call, only those that C code keeps.
OwnRegs(c, f) ==
  /\ f \in [Registers -> Int]
  /\ \A r \in CalleeSaved : f[r] = Own(c, r)
  /\ ~ call[c].in =>
       /\ \A r \in Registers \ {"rax", "rcx", "r11"} : f[r] = Own(c, r)
       /\ f["rcx"] \in {Own(c, "rcx"), Rip(c)}
       /\ f["r11"] \in {Own(c, "r11"), Rflags(c, TRUE)}

\* A caller without the CPU has its registers on its stack.
LeftInCall(c) ==
  /\ way[c] = "call" /\ call[c].in
  /\ \E f \in [Registers -> Int], s \in Seq(Int) :
       OwnRegs(c, f) /\ OwnStack(c, s) /\ stk[c] = Pushed(SwitchOrder, f, s)

LeftInIrq(c) ==
  /\ way[c] = "irq_0"
  /\ \E f \in [Registers -> Int], s \in Seq(Int) :
       /\ OwnRegs(c, f) /\ OwnStack(c, s)
       /\ stk[c] = Pushed(SwitchOrder, f, Pushed(InterruptOrder, f, s))

NotStarted(c) == way[c] = "new" /\ ~ call[c].in /\ stk[c] = UserStack(c)

CallerOK(c) ==
  /\ call[c].in \in BOOLEAN
  /\ call[c].in => call[c].rax \in Int /\ call[c].handler = HandlerOf(call[c].rax)
  /\ IF c = current THEN OwnRegs(c, regs) /\ OwnStack(c, stk[c])
                    ELSE NotStarted(c) \/ LeftInCall(c) \/ LeftInIrq(c)

SyscallInv ==
  /\ regs \in [Registers -> Int] /\ iflag \in BOOLEAN /\ current \in Callers \cup {Nobody}
  /\ stk \in [Callers -> Seq(Int)]
  /\ way = [c \in Callers |-> way[c]] /\ call = [c \in Callers |-> call[c]]
  /\ \A c \in Callers : CallerOK(c)
  /\ ~ halted /\ current # Nobody /\ ~ call[current].in => iflag

-----------------------------------------------------------------------------
(* The registers, and the orders in which they are pushed and popped.      *)

LEMMA RegisterNames ==
  Registers = {"rax", "rcx", "r11", "rbp", "rdi", "rsi", "rdx", "r10", "r8", "r9",
               "rbx", "r12", "r13", "r14", "r15"}
<1>1. DOMAIN PushOrder = 1..10
  BY DEF PushOrder
<1>2. 1..10 = {1, 2, 3, 4, 5, 6, 7, 8, 9, 10}
  OBVIOUS
<1>3. Range(PushOrder) = {PushOrder[i] : i \in {1, 2, 3, 4, 5, 6, 7, 8, 9, 10}}
  BY <1>1, <1>2 DEF Range
<1>4. Range(PushOrder) = {"rax", "rcx", "r11", "rbp", "rdi", "rsi", "rdx", "r10", "r8", "r9"}
  BY <1>3 DEF PushOrder
<1> QED
  BY <1>4 DEF Registers, CalleeSaved

\* pops takes off what order put on.
Undoes(pops, order) ==
  /\ order \in Seq(Registers) /\ pops \in Seq(Registers) /\ Len(pops) = Len(order)
  /\ \A i \in 1..Len(order) : pops[i] = order[Len(order) + 1 - i]

LEMMA PopsReversePushes == Undoes(PopOrder, PushOrder) /\ Len(PushOrder) = 10
<1>1. PushOrder \in Seq(Registers) /\ PopOrder \in Seq(Registers)
  BY RegisterNames DEF PushOrder, PopOrder
<1>2. Len(PushOrder) = 10 /\ Len(PopOrder) = 10
  BY DEF PushOrder, PopOrder
<1>3. \A i \in 1..10 : PopOrder[i] = PushOrder[10 + 1 - i]
  BY DEF PopOrder, PushOrder
<1> QED
  BY <1>1, <1>2, <1>3 DEF Undoes

LEMMA ReverseUndoes == ASSUME NEW order \in Seq(Registers) PROVE Undoes(Reverse(order), order)
<1>1. Reverse(order) = [i \in 1..Len(order) |-> order[(Len(order) - i) + 1]]
  BY DEF Reverse
<1>2. \A i \in 1..Len(order) : (Len(order) - i) + 1 \in 1..Len(order) /\ (Len(order) - i) + 1 = Len(order) + 1 - i
  OBVIOUS
<1>3. \A i \in 1..Len(order) : order[(Len(order) - i) + 1] \in Registers
  BY <1>2
<1> QED
  BY <1>1, <1>2, <1>3 DEF Undoes

\* The registers popped are those pushed.
LEMMA UndoneRange == ASSUME NEW pops, NEW order, Undoes(pops, order) PROVE Range(pops) = Range(order)
<1>1. DOMAIN pops = 1..Len(order) /\ DOMAIN order = 1..Len(order)
  BY DEF Undoes
<1>2. \A i \in 1..Len(order) : Len(order) + 1 - i \in 1..Len(order) /\ Len(order) + 1 - (Len(order) + 1 - i) = i
  BY DEF Undoes
<1>3. \A i \in 1..Len(order) : pops[i] = order[Len(order) + 1 - i]
  BY DEF Undoes
<1>4. \A i \in 1..Len(order) : order[i] = pops[Len(order) + 1 - i]
  BY <1>2, <1>3
<1> QED
  BY <1>1, <1>2, <1>3, <1>4 DEF Range

LEMMA SwitchRegisters ==
  /\ SwitchOrder \in Seq(Registers) /\ Len(SwitchOrder) = 6 /\ Range(SwitchOrder) = CalleeSaved
<1>1. SwitchOrder \in Seq(Registers) /\ Len(SwitchOrder) = 6 /\ DOMAIN SwitchOrder = 1..6
  BY RegisterNames DEF SwitchOrder
<1>2. 1..6 = {1, 2, 3, 4, 5, 6}
  OBVIOUS
<1>3. Range(SwitchOrder) = {SwitchOrder[i] : i \in {1, 2, 3, 4, 5, 6}}
  BY <1>1, <1>2 DEF Range
<1> QED
  BY <1>1, <1>3 DEF SwitchOrder, CalleeSaved

LEMMA InterruptRegisters ==
  /\ InterruptOrder \in Seq(Registers) /\ Len(InterruptOrder) = 9
  /\ Range(InterruptOrder) = Registers \ CalleeSaved
<1>1. InterruptOrder \in Seq(Registers) /\ Len(InterruptOrder) = 9 /\ DOMAIN InterruptOrder = 1..9
  BY RegisterNames DEF InterruptOrder
<1>2. 1..9 = {1, 2, 3, 4, 5, 6, 7, 8, 9}
  OBVIOUS
<1>3. Range(InterruptOrder) = {InterruptOrder[i] : i \in {1, 2, 3, 4, 5, 6, 7, 8, 9}}
  BY <1>1, <1>2 DEF Range
<1>4. Range(InterruptOrder) = {"rax", "rcx", "rdx", "rsi", "rdi", "r8", "r9", "r10", "r11"}
  BY <1>3 DEF InterruptOrder
<1> QED
  BY <1>1, <1>4, RegisterNames DEF CalleeSaved

LEMMA PushRegisters ==
  Range(PopOrder) = {"rax", "rcx", "r11", "rbp", "rdi", "rsi", "rdx", "r10", "r8", "r9"}
<1>1. DOMAIN PopOrder = 1..10
  BY DEF PopOrder
<1>2. 1..10 = {1, 2, 3, 4, 5, 6, 7, 8, 9, 10}
  OBVIOUS
<1>3. Range(PopOrder) = {PopOrder[i] : i \in {1, 2, 3, 4, 5, 6, 7, 8, 9, 10}}
  BY <1>1, <1>2 DEF Range
<1> QED
  BY <1>3 DEF PopOrder

LEMMA WordTypes ==
  ASSUME NEW c \in Callers
  PROVE  /\ \A r \in Registers : Own(c, r) \in Int
         /\ Rip(c) \in Int /\ Rflags(c, TRUE) \in Int /\ Rflags(c, FALSE) \in Int
<1>1. c \in Int
  BY SyscallAssumption
<1>2. ASSUME NEW r \in Registers PROVE Own(c, r) \in Int
  <2>1. \E i \in 1..15 : Numbering[i] = r
    BY RegisterNames DEF Numbering, PushOrder
  <2> DEFINE k == CHOOSE i \in 1..15 : Numbering[i] = r
  <2>2. k \in 1..15
    BY <2>1
  <2>3. Own(c, r) = 1000 * c + k
    BY DEF Own
  <2> HIDE DEF k
  <2> QED
    BY <1>1, <2>2, <2>3
<1>3. Rip(c) \in Int /\ Rflags(c, TRUE) \in Int /\ Rflags(c, FALSE) \in Int
  BY <1>1 DEF Rip, Rflags
<1> QED
  BY <1>2, <1>3

LEMMA UserWords ==
  ASSUME NEW c \in Callers PROVE UserStack(c) \in Seq(Int) /\ Len(UserStack(c)) = 3
<1>1. c \in Int
  BY SyscallAssumption
<1> QED
  BY <1>1 DEF UserStack

-----------------------------------------------------------------------------
(* What was pushed is popped.                                              *)

\* Two sequences one after the other.
LEMMA Joined ==
  ASSUME NEW s \in Seq(Int), NEW t \in Seq(Int)
  PROVE  /\ s \o t \in Seq(Int) /\ Len(s \o t) = Len(s) + Len(t)
         /\ \A i \in 1..Len(s) : (s \o t)[i] = s[i]
         /\ \A i \in 1..Len(t) : (s \o t)[i + Len(s)] = t[i]
  OBVIOUS

LEMMA OnTop ==
  ASSUME NEW a \in Int, NEW t \in Seq(Int)
  PROVE  /\ <<a>> \o t \in Seq(Int) /\ Len(<<a>> \o t) = Len(t) + 1
         /\ (<<a>> \o t)[1] = a /\ \A i \in 1..Len(t) : (<<a>> \o t)[i + 1] = t[i]
  OBVIOUS

LEMMA ZeroOnTop ==
  ASSUME NEW t \in Seq(Int)
  PROVE  <<0>> \o t \in Seq(Int) /\ Len(<<0>> \o t) = Len(t) + 1
  OBVIOUS

LEMMA SameWords ==
  ASSUME NEW s \in Seq(Int), NEW t \in Seq(Int), Len(s) = Len(t),
         \A i \in 1..Len(s) : s[i] = t[i]
  PROVE  s = t
  BY SeqEqual

LEMMA TwoOnTop ==
  ASSUME NEW a \in Int, NEW t \in Seq(Int) PROVE <<a>> \o (<<0>> \o t) = <<a, 0>> \o t
<1> DEFINE u == <<0>> \o t
           v == <<a>> \o u
           w == <<a, 0>> \o t
<1>1. /\ u \in Seq(Int) /\ Len(u) = Len(t) + 1 /\ Len(t) \in Nat
      /\ u[1] = 0 /\ \A i \in 1..Len(t) : u[i + 1] = t[i]
  OBVIOUS
<1>2. /\ w \in Seq(Int) /\ Len(w) = Len(t) + 2 /\ w[1] = a /\ w[2] = 0
      /\ \A i \in 1..Len(t) : w[i + 2] = t[i]
  OBVIOUS
<1> HIDE DEF u, w
<1>3. v \in Seq(Int) /\ Len(v) = Len(u) + 1 /\ v[1] = a /\ \A i \in 1..Len(u) : v[i + 1] = u[i]
  BY <1>1, OnTop
<1> HIDE DEF v
<1>4. ASSUME NEW i \in 1..Len(v) PROVE v[i] = w[i]
  <2>1. CASE i = 1
    BY <1>2, <1>3, <2>1
  <2>2. CASE i = 2
    <3>1. 1 \in 1..Len(u)
      BY <1>1
    <3>2. v[1 + 1] = u[1]
      BY <1>3, <3>1
    <3> QED
      BY <1>1, <1>2, <2>2, <3>2
  <2>3. CASE i > 2
    <3> DEFINE k == i - 2
    <3>1. k \in 1..Len(t) /\ k + 1 \in 1..Len(u) /\ k + 1 + 1 = i /\ k + 2 = i
      BY <1>1, <1>3, <2>3
    <3> HIDE DEF k
    <3> QED
      BY <1>1, <1>2, <1>3, <3>1
  <2> QED
    BY <1>3, <2>1, <2>2, <2>3
<1>5. v = w
  BY <1>1, <1>2, <1>3, <1>4, SameWords
<1> QED
  BY <1>5 DEF u, v, w

\* What is left of a stack when its first m - 1 words are popped.
LEMMA SuffixWords ==
  ASSUME NEW s \in Seq(Int), NEW m \in 1..Len(s)
  PROVE  /\ SubSeq(s, m, Len(s)) \in Seq(Int)
         /\ Len(SubSeq(s, m, Len(s))) = Len(s) - m + 1
         /\ \A i \in 1 .. Len(s) - m + 1 : SubSeq(s, m, Len(s))[i] = s[m + i - 1]
<1>1. Len(s) \in Nat /\ m \in Int /\ m <= Len(s)
  OBVIOUS
<1>2. \A i \in m .. Len(s) : s[i] \in Int
  BY <1>1
<1> QED
  BY <1>1, <1>2, SubSeqProperties

\* A sequence after another one comes back when that is dropped.
LEMMA RestJoined ==
  ASSUME NEW s \in Seq(Int), NEW t \in Seq(Int), Len(t) > 0
  PROVE  Rest(Len(s), s \o t) = t
<1> DEFINE u == s \o t
           n == Len(s)
<1>1. /\ u \in Seq(Int) /\ Len(u) = n + Len(t) /\ n \in Nat /\ Len(t) \in Nat
      /\ \A i \in 1..Len(t) : u[i + n] = t[i]
  BY Joined
<1> HIDE DEF u, n
<1>2. n + 1 \in 1..Len(u) /\ Len(u) - (n + 1) + 1 = Len(t)
  <2> DEFINE k == Len(t)
             m == Len(u)
  <2>1. m = n + k /\ n \in Nat /\ k \in Nat /\ k > 0
    BY <1>1
  <2> HIDE DEF k, m
  <2>2. n + 1 \in 1..m /\ m - (n + 1) + 1 = k
    BY <2>1
  <2> QED
    BY <2>2 DEF k, m
<1> DEFINE w == SubSeq(u, n + 1, Len(u))
<1>3. w \in Seq(Int) /\ Len(w) = Len(t) /\ \A i \in 1..Len(t) : w[i] = u[(n + 1) + i - 1]
  BY <1>1, <1>2, SuffixWords
<1> HIDE DEF w
<1>4. \A i \in 1..Len(t) : (n + 1) + i - 1 = i + n
  BY <1>1
<1>5. w = t
  BY <1>1, <1>3, <1>4, SameWords
<1> QED
  BY <1>5 DEF Rest, u, n, w

LEMMA PushedWords ==
  ASSUME NEW order \in Seq(Registers), NEW r \in [Registers -> Int], NEW s \in Seq(Int)
  PROVE  /\ Pushed(order, r, s) \in Seq(Int) /\ Len(Pushed(order, r, s)) = Len(order) + Len(s)
         /\ \A i \in 1..Len(order) : Pushed(order, r, s)[i] = r[order[Len(order) + 1 - i]]
         /\ Len(s) > 0 => Rest(Len(order), Pushed(order, r, s)) = s
<1> DEFINE n   == Len(order)
           put == [i \in 1..n |-> r[order[i]]]
           rev == Reverse(put)
<1>1. n \in Nat /\ \A i \in 1..n : order[i] \in Registers
  OBVIOUS
<1>2. put \in Seq(Int) /\ Len(put) = n /\ \A i \in 1..n : put[i] = r[order[i]]
  BY <1>1
<1> HIDE DEF put
<1>3. rev = [i \in 1..n |-> put[(n - i) + 1]]
  BY <1>2 DEF Reverse
<1> HIDE DEF rev, n
<1>4. \A i \in 1..n : (n - i) + 1 \in 1..n /\ (n - i) + 1 = n + 1 - i
  BY <1>1
<1>5. \A i \in 1..n : put[(n - i) + 1] = r[order[n + 1 - i]] /\ put[(n - i) + 1] \in Int
  BY <1>1, <1>2, <1>4
<1>6. rev \in Seq(Int) /\ Len(rev) = n /\ \A i \in 1..n : rev[i] = r[order[n + 1 - i]]
  BY <1>1, <1>3, <1>5
<1>7. Pushed(order, r, s) = rev \o s
  BY DEF Pushed, rev, put, n
<1>8. /\ rev \o s \in Seq(Int) /\ Len(rev \o s) = n + Len(s)
      /\ \A i \in 1..n : (rev \o s)[i] = rev[i]
  BY <1>6, Joined
<1>9. Len(s) > 0 => Rest(n, rev \o s) = s
  BY <1>6, RestJoined
<1> QED
  BY <1>6, <1>7, <1>8, <1>9 DEF n

\* The registers popped are as in r, the others as in q.
Restored(p, pops, r, q) ==
  p \in [Registers -> Int] /\ \A x \in Registers : p[x] = IF x \in Range(pops) THEN r[x] ELSE q[x]

LEMMA PopPushed ==
  ASSUME NEW order, NEW pops, Undoes(pops, order), NEW r \in [Registers -> Int],
         NEW q \in [Registers -> Int], NEW s \in Seq(Int)
  PROVE  Restored(Popped(pops, q, Pushed(order, r, s)), pops, r, q)
<1> DEFINE u == Pushed(order, r, s)
<1>1. order \in Seq(Registers) /\ Len(order) \in Nat
  BY DEF Undoes
<1>2. \A i \in 1..Len(order) : u[i] = r[order[Len(order) + 1 - i]]
  BY <1>1, PushedWords
<1> HIDE DEF u
<1>3. \A i \in 1..Len(order) : u[i] = r[pops[i]]
  BY <1>2 DEF Undoes
<1>4. ASSUME NEW x \in Registers, x \in Range(pops)
      PROVE  u[CHOOSE i \in 1..Len(pops) : pops[i] = x] = r[x]
  <2>1. \E i \in 1..Len(pops) : pops[i] = x
    BY <1>4 DEF Range, Undoes
  <2> DEFINE k == CHOOSE i \in 1..Len(pops) : pops[i] = x
  <2>2. k \in 1..Len(pops) /\ pops[k] = x
    BY <2>1
  <2> HIDE DEF k
  <2>3. u[k] = r[pops[k]]
    BY <1>3, <2>2 DEF Undoes
  <2> QED
    BY <2>2, <2>3 DEF k
<1> DEFINE p == Popped(pops, q, u)
<1>5. p = [x \in Registers |-> IF x \in Range(pops) THEN u[CHOOSE i \in 1..Len(pops) : pops[i] = x] ELSE q[x]]
  BY DEF Popped
<1> HIDE DEF p
<1>6. \A x \in Registers : p[x] = IF x \in Range(pops) THEN r[x] ELSE q[x]
  BY <1>4, <1>5
<1>7. p = [x \in Registers |-> p[x]]
  BY <1>5
<1>8. p \in [Registers -> Int]
  BY <1>6, <1>7
<1> QED
  BY <1>6, <1>8 DEF p, u, Restored

LEMMA PushedRest ==
  ASSUME NEW order \in Seq(Registers), NEW r \in [Registers -> Int], NEW s \in Seq(Int), Len(s) > 0
  PROVE  Rest(Len(order), Pushed(order, r, s)) = s
BY PushedWords

-----------------------------------------------------------------------------
(* The steps of the callers.                                               *)

LEMMA EnteredType ==
  ASSUME NEW c \in Callers, call[c].rax \in Int PROVE Entered(c) \in [Registers -> Int]
<1>1. call[c].rax \in Int /\ Rip(c) \in Int /\ Rflags(c, TRUE) \in Int /\ \A r \in Registers : Own(c, r) \in Int
  BY WordTypes
<1>2. ASSUME NEW r \in Registers
      PROVE  (CASE r = "rax" -> call[c].rax [] r = "rcx" -> Rip(c) [] r = "r11" -> Rflags(c, TRUE)
                [] OTHER -> Own(c, r)) \in Int
  BY <1>1
<1> QED
  BY <1>2 DEF Entered

LEMMA PushedFrame ==
  ASSUME NEW c \in Callers, NEW r \in [Registers -> Int]
  PROVE  LET p == Pushed(PushOrder, r, UserStack(c))
         IN  p \in Seq(Int) /\ Len(p) = 13 /\ Rest(10, p) = UserStack(c)
<1> DEFINE p == Pushed(PushOrder, r, UserStack(c))
<1>1. PushOrder \in Seq(Registers) /\ Len(PushOrder) = 10
  BY PopsReversePushes DEF Undoes
<1>2. UserStack(c) \in Seq(Int) /\ Len(UserStack(c)) = 3
  BY UserWords
<1>3. /\ p \in Seq(Int) /\ Len(p) = Len(PushOrder) + Len(UserStack(c))
      /\ Len(UserStack(c)) > 0 => Rest(Len(PushOrder), p) = UserStack(c)
  BY <1>1, <1>2, PushedWords
<1> QED
  BY <1>1, <1>2, <1>3

\* Shortens the argument that a stack without words does not occur.
LEMMA StackType ==
  ASSUME NEW c \in Callers, NEW s, OwnStack(c, s), call[c].in => call[c].rax \in Int,
         call[c].in \in BOOLEAN
  PROVE  s \in Seq(Int) /\ Len(s) > 0
<1> DEFINE p == Pushed(PushOrder, Entered(c), UserStack(c))
<1>1. UserStack(c) \in Seq(Int) /\ Len(UserStack(c)) = 3
  BY UserWords
<1>2. CASE ~ call[c].in
  <2>1. s = UserStack(c)
    BY <1>2 DEF OwnStack
  <2> QED
    BY <1>1, <2>1
<1>3. CASE call[c].in
  <2>1. Entered(c) \in [Registers -> Int]
    BY <1>3, EnteredType
  <2>2. p \in Seq(Int) /\ Len(p) = 13
    BY <2>1, PushedFrame
  <2> HIDE DEF p
  <2>3. PICK a \in Int : s = <<a>> \o (<<0>> \o p)
    BY <1>3 DEF OwnStack, p
  <2> DEFINE q == <<0>> \o p
  <2>4. q \in Seq(Int) /\ Len(q) = 14
    <3>1. q \in Seq(Int) /\ Len(q) = Len(p) + 1
      BY <2>2, ZeroOnTop
    <3> QED
      BY <2>2, <3>1
  <2> HIDE DEF q
  <2>5. s \in Seq(Int) /\ Len(s) = Len(q) + 1
    <3>1. s = <<a>> \o q
      BY <2>3 DEF q
    <3> QED
      BY <2>4, <3>1, OnTop
  <2>6. s \in Seq(Int) /\ Len(s) = 15
    BY <2>4, <2>5
  <2> QED
    BY <2>6
<1> QED
  BY <1>2, <1>3

\* A caller is as it was, whatever the others do.
LEMMA OthersKept ==
  ASSUME SyscallInv, NEW d \in Callers, d # current, d # current',
         way'[d] = way[d], stk'[d] = stk[d], call'[d] = call[d]
  PROVE  CallerOK(d)'
<1>1. CallerOK(d)
  BY DEF SyscallInv
<1>2. Entered(d)' = Entered(d)
  BY DEF Entered
<1>3. \A s : OwnStack(d, s)' = OwnStack(d, s)
  BY <1>2 DEF OwnStack
<1>4. \A f : OwnRegs(d, f)' = OwnRegs(d, f)
  BY DEF OwnRegs
<1>5. NotStarted(d)' = NotStarted(d)
  BY DEF NotStarted
<1>6. LeftInCall(d) => LeftInCall(d)'
  BY <1>3, <1>4 DEF LeftInCall
<1>7. LeftInIrq(d) => LeftInIrq(d)'
  BY <1>3, <1>4 DEF LeftInIrq
<1> QED
  BY <1>1, <1>5, <1>6, <1>7 DEF CallerOK

\* The caller that has the CPU.
LEMMA CurrentCaller ==
  ASSUME SyscallInv, current # Nobody
  PROVE  /\ current \in Callers /\ current \in Int
         /\ call[current].in \in BOOLEAN
         /\ call[current].in => call[current].rax \in Int /\ call[current].handler = HandlerOf(call[current].rax)
         /\ OwnRegs(current, regs) /\ OwnStack(current, stk[current])
         /\ stk[current] \in Seq(Int) /\ Len(stk[current]) > 0
<1>1. current \in Callers
  BY DEF SyscallInv
<1>2. CallerOK(current)
  BY <1>1 DEF SyscallInv
<1>3. current \in Int
  BY <1>1, SyscallAssumption
<1> QED
  BY <1>1, <1>2, <1>3, StackType DEF CallerOK

LEMMA SyscallEnterInv ==
  ASSUME SyscallInv, NEW rax \in Numbers, NEW fmask, SyscallEnter(rax, fmask), ~ halted, halted' = halted
  PROVE  SyscallInv'
<1> DEFINE c     == current
           r     == [regs EXCEPT !["rax"] = rax, !["rcx"] = Rip(c), !["r11"] = Rflags(c, iflag)]
           push  == Pushed(PushOrder, r, stk[c])
           frame == <<0>> \o push
           arg   == [i \in 1..6 |-> frame[ArgOffset[i] \div 8 + 1]]
           top   == <<arg[6]>> \o frame
           rec   == [in |-> TRUE, rax |-> rax, args |-> arg, handler |-> HandlerOf(rax),
                     passed |-> PassedOn(HandlerOf(rax), arg)]
           loaded == [r EXCEPT !["rdi"] = rax, !["rsi"] = arg[1], !["rdx"] = arg[2],
                               !["rcx"] = arg[3], !["r8"] = arg[4], !["r9"] = arg[5]]
<1>1. /\ c # Nobody /\ ~ call[c].in
      /\ regs' = loaded
      /\ iflag' = (iflag /\ "IF" \notin fmask)
      /\ stk' = [stk EXCEPT ![c] = top]
      /\ call' = [call EXCEPT ![c] = rec]
      /\ current' = current /\ way' = way
  BY DEF SyscallEnter
<1>2. /\ regs \in [Registers -> Int] /\ stk \in [Callers -> Seq(Int)] /\ iflag \in BOOLEAN
      /\ call = [d \in Callers |-> call[d]] /\ way = [d \in Callers |-> way[d]] /\ rax \in Int
  BY SyscallAssumption DEF SyscallInv
<1>3. c \in Callers /\ OwnRegs(c, regs) /\ stk[c] = UserStack(c) /\ iflag = TRUE
  BY <1>1, CurrentCaller DEF OwnStack, SyscallInv
<1>4. UserStack(c) \in Seq(Int) /\ Len(UserStack(c)) = 3 /\ Rip(c) \in Int /\ Rflags(c, TRUE) \in Int
  BY <1>3, WordTypes, UserWords
<1>5. /\ r \in [Registers -> Int]
      /\ r["rax"] = rax /\ r["rcx"] = Rip(c) /\ r["r11"] = Rflags(c, TRUE)
      /\ \A x \in Registers \ {"rax", "rcx", "r11"} : r[x] = Own(c, x)
  <2>1. "rax" \in Registers /\ "rcx" \in Registers /\ "r11" \in Registers
    BY RegisterNames
  <2>2. r = [regs EXCEPT !["rax"] = rax, !["rcx"] = Rip(c), !["r11"] = Rflags(c, TRUE)]
    BY <1>3
  <2> HIDE DEF r
  <2>3. \A x \in Registers \ {"rax", "rcx", "r11"} : regs[x] = Own(c, x)
    BY <1>1, <1>3 DEF OwnRegs
  <2>4. r \in [Registers -> Int]
    BY <1>2, <1>4, <2>1, <2>2
  <2>5. r["rax"] = rax /\ r["rcx"] = Rip(c) /\ r["r11"] = Rflags(c, TRUE)
    BY <1>2, <2>1, <2>2
  <2>6. \A x \in Registers \ {"rax", "rcx", "r11"} : r[x] = regs[x]
    BY <1>2, <2>2
  <2> QED
    BY <2>3, <2>4, <2>5, <2>6
<1> HIDE DEF r
<1>6. push \in Seq(Int) /\ Len(push) = 13 /\ push = Pushed(PushOrder, r, UserStack(c))
  BY <1>3, <1>5, PushedFrame
<1> HIDE DEF push
<1>7. frame \in Seq(Int) /\ Len(frame) = 14
  <2>1. frame \in Seq(Int) /\ Len(frame) = Len(push) + 1
    BY <1>6, ZeroOnTop
  <2> QED
    BY <1>6, <2>1
<1> HIDE DEF frame
<1>8. \A i \in 1..6 : arg[i] \in Int
  <2>1. \A i \in 1..6 : ArgOffset[i] \div 8 + 1 \in 8..13
    BY DEF ArgOffset
  <2>2. \A k \in 8..13 : frame[k] \in Int
    <3> TAKE k \in 8..13
    <3>1. k \in 1..Len(frame)
      BY <1>7
    <3> QED
      BY <1>7, <3>1, ElementOfSeq
  <2> QED
    BY <2>1, <2>2
<1> DEFINE six == arg[6]
<1>9. top = <<six>> \o frame /\ six \in Int
  BY <1>8
<1>10. loaded \in [Registers -> Int] /\ \A x \in CalleeSaved : loaded[x] = Own(c, x)
  <2>1. \A i \in {1, 2, 3, 4, 5} : arg[i] \in Int
    BY <1>8
  <2> HIDE DEF arg
  <2>2. loaded \in [Registers -> Int]
    BY <1>2, <1>5, <2>1
  <2>3. \A x \in CalleeSaved : loaded[x] = r[x] /\ r[x] = Own(c, x)
    BY <1>5, RegisterNames DEF CalleeSaved
  <2> QED
    BY <2>2, <2>3
<1>11. rec.in = TRUE /\ rec.rax = rax /\ rec.handler = HandlerOf(rax)
  OBVIOUS
<1> HIDE DEF rec, loaded, arg, six, top
<1>12. top \in Seq(Int)
  BY <1>7, <1>9, OnTop
<1>13. /\ stk' \in [Callers -> Seq(Int)] /\ stk'[c] = top /\ call'[c] = rec
       /\ call' = [d \in Callers |-> call'[d]]
       /\ \A d \in Callers : d # c => stk'[d] = stk[d] /\ call'[d] = call[d]
  BY <1>1, <1>2, <1>3, <1>12
<1>14. ASSUME NEW d \in Callers, d = c PROVE CallerOK(d)'
  <2>1. call'[d] = rec /\ stk'[d] = top /\ regs' = loaded /\ current' = d
    BY <1>1, <1>13, <1>14
  <2>2. Entered(d)' = r
    <3>1. Entered(d)' = [x \in Registers |-> CASE x = "rax" -> rax
                                               [] x = "rcx" -> Rip(d)
                                               [] x = "r11" -> Rflags(d, TRUE)
                                               [] OTHER     -> Own(d, x)]
      BY <1>11, <2>1 DEF Entered
    <3>2. DOMAIN r = Registers /\ r = [x \in Registers |-> r[x]]
      BY <1>5
    <3>3. \A x \in Registers : r[x] = CASE x = "rax" -> rax
                                        [] x = "rcx" -> Rip(d)
                                        [] x = "r11" -> Rflags(d, TRUE)
                                        [] OTHER     -> Own(d, x)
      BY <1>5, <1>14
    <3> QED
      BY <3>1, <3>2, <3>3
  <2>3. OwnStack(d, stk[d])'
    <3>1. top = <<six>> \o (<<0>> \o Pushed(PushOrder, r, UserStack(d)))
      BY <1>6, <1>9, <1>14 DEF frame
    <3>2. OwnStack(d, stk[d])'
            <=> IF call'[d].in
                  THEN \E a \in Int : stk'[d] = <<a>> \o (<<0>> \o Pushed(PushOrder, Entered(d)', UserStack(d)))
                  ELSE stk'[d] = UserStack(d)
      BY DEF OwnStack
    <3> QED
      BY <1>9, <1>11, <2>1, <2>2, <3>1, <3>2
  <2>4. OwnRegs(d, regs)'
    BY <1>10, <1>11, <1>14, <2>1 DEF OwnRegs
  <2> QED
    BY <1>2, <1>11, <2>1, <2>3, <2>4 DEF CallerOK
<1>15. ASSUME NEW d \in Callers, d # c PROVE CallerOK(d)'
  BY <1>1, <1>13, <1>15, OthersKept
<1>16. (~ halted /\ current # Nobody /\ ~ call[current].in => iflag)'
  BY <1>1, <1>11, <1>13
<1> QED
  BY <1>1, <1>2, <1>3, <1>10, <1>13, <1>14, <1>15, <1>16 DEF SyscallInv

LEMMA SyscallReturnInv ==
  ASSUME SyscallInv, NEW result \in Results, SyscallReturn(result), halted' = halted
  PROVE  SyscallInv'
<1> DEFINE c        == current
           returned == [AfterC(regs) EXCEPT !["rax"] = result]
           words    == Rest(2, stk[c])
           popped   == Popped(PopOrder, returned, words)
           rest     == Rest(10, words)
<1>1. /\ c # Nobody /\ call[c].in
      /\ regs' = popped
      /\ iflag' = SysretFlags(c, popped["r11"])
      /\ stk' = [stk EXCEPT ![c] = rest]
      /\ call' = [call EXCEPT ![c] = Outside({result})]
      /\ current' = current /\ way' = way
  BY DEF SyscallReturn
<1>2. /\ regs \in [Registers -> Int] /\ stk \in [Callers -> Seq(Int)]
      /\ call = [d \in Callers |-> call[d]] /\ way = [d \in Callers |-> way[d]] /\ result \in Int
  BY SyscallAssumption DEF SyscallInv
<1>3. c \in Callers /\ OwnRegs(c, regs) /\ OwnStack(c, stk[c]) /\ call[c].rax \in Int
  BY <1>1, CurrentCaller
<1>4. UserStack(c) \in Seq(Int) /\ Len(UserStack(c)) = 3
  BY <1>3, WordTypes, UserWords
<1>5. Entered(c) \in [Registers -> Int]
  BY <1>3, EnteredType
<1> DEFINE p == Pushed(PushOrder, Entered(c), UserStack(c))
<1>6. words = p /\ p \in Seq(Int)
  <2>1. p \in Seq(Int) /\ Len(p) = 13
    BY <1>3, <1>5, PushedFrame
  <2>2. PICK a \in Int : stk[c] = <<a>> \o (<<0>> \o p)
    BY <1>1, <1>3 DEF OwnStack
  <2> HIDE DEF p
  <2> DEFINE two == <<a, 0>>
  <2>3. two \in Seq(Int) /\ Len(two) = 2
    OBVIOUS
  <2>4. stk[c] = two \o p
    <3>1. <<a>> \o (<<0>> \o p) = <<a, 0>> \o p
      BY <2>1, TwoOnTop
    <3> QED
      BY <2>2, <3>1
  <2> HIDE DEF two
  <2>5. Rest(2, two \o p) = p
    <3>1. Len(p) > 0
      BY <2>1
    <3> QED
      BY <2>1, <2>3, <3>1, RestJoined
  <2> QED
    BY <2>1, <2>4, <2>5
<1> HIDE DEF words
<1>7. rest = UserStack(c)
  BY <1>3, <1>5, <1>6, PushedFrame
<1>8. returned \in [Registers -> Int] /\ \A x \in CalleeSaved : returned[x] = Own(c, x)
  <2>1. AfterC(regs) \in [Registers -> Int] /\ \A x \in CalleeSaved : AfterC(regs)[x] = regs[x]
    BY <1>2, RegisterNames DEF AfterC, CalleeSaved
  <2>2. "rax" \notin CalleeSaved /\ CalleeSaved \subseteq Registers
    BY RegisterNames DEF CalleeSaved
  <2>3. returned \in [Registers -> Int]
    BY <1>2, <2>1
  <2>4. \A x \in CalleeSaved : returned[x] = AfterC(regs)[x]
    BY <2>1, <2>2
  <2> QED
    BY <1>3, <2>1, <2>3, <2>4 DEF OwnRegs
<1>9. /\ popped \in [Registers -> Int]
      /\ \A x \in Registers : popped[x] = IF x \in Range(PopOrder) THEN Entered(c)[x] ELSE returned[x]
  <2>1. Undoes(PopOrder, PushOrder)
    BY PopsReversePushes
  <2> HIDE DEF returned
  <2>2. UserStack(c) \in Seq(Int) /\ returned \in [Registers -> Int]
    BY <1>4, <1>8
  <2> DEFINE e == Popped(PopOrder, returned, p)
  <2>3. Restored(e, PopOrder, Entered(c), returned)
    BY <1>5, <2>1, <2>2, PopPushed
  <2> QED
    BY <1>6, <2>3 DEF Restored
<1> HIDE DEF popped, rest, returned
<1>10. /\ popped \in [Registers -> Int]
       /\ \A r \in Registers \ {"rax", "rcx", "r11"} : popped[r] = Own(c, r)
       /\ popped["rcx"] = Rip(c) /\ popped["r11"] = Rflags(c, TRUE)
  <2>1. popped \in [Registers -> Int]
    BY <1>9
  <2>2. ASSUME NEW x \in Registers \ {"rax", "rcx", "r11"} PROVE popped[x] = Own(c, x)
    <3>1. CASE x \in Range(PopOrder)
      BY <1>9, <3>1 DEF Entered
    <3>2. CASE x \notin Range(PopOrder)
      <4>1. x \in CalleeSaved
        BY <3>2, PushRegisters, RegisterNames DEF CalleeSaved
      <4> QED
        BY <1>8, <1>9, <3>2, <4>1
    <3> QED
      BY <3>1, <3>2
  <2>3. popped["rcx"] = Rip(c) /\ popped["r11"] = Rflags(c, TRUE)
    BY <1>9, PushRegisters, RegisterNames DEF Entered
  <2> QED
    BY <2>1, <2>2, <2>3
<1>11. /\ stk' \in [Callers -> Seq(Int)] /\ stk'[c] = UserStack(c) /\ call'[c] = Outside({result})
       /\ call' = [d \in Callers |-> call'[d]]
       /\ \A d \in Callers : d # c => stk'[d] = stk[d] /\ call'[d] = call[d]
  BY <1>1, <1>2, <1>3, <1>4, <1>7
<1>12. ~ Outside({result}).in /\ Outside({result}).in \in BOOLEAN
  BY DEF Outside
<1>13. ASSUME NEW d \in Callers, d = c PROVE CallerOK(d)'
  <2>1. ~ call'[d].in /\ call'[d].in \in BOOLEAN /\ stk'[d] = UserStack(d) /\ regs' = popped /\ current' = d
    BY <1>1, <1>11, <1>12, <1>13
  <2>2. OwnRegs(d, regs)'
    <3>1. \A r \in CalleeSaved : r \in Registers \ {"rax", "rcx", "r11"}
      BY RegisterNames DEF CalleeSaved
    <3> QED
      BY <1>10, <1>13, <2>1, <3>1 DEF OwnRegs
  <2>3. OwnStack(d, stk[d])'
    BY <2>1 DEF OwnStack
  <2> QED
    BY <2>1, <2>2, <2>3 DEF CallerOK
<1>14. ASSUME NEW d \in Callers, d # c PROVE CallerOK(d)'
  BY <1>1, <1>11, <1>14, OthersKept
<1>15. iflag' = TRUE
  BY <1>1, <1>10 DEF SysretFlags
<1> QED
  BY <1>1, <1>2, <1>3, <1>10, <1>11, <1>13, <1>14, <1>15 DEF SyscallInv

\* What a caller that loses the CPU leaves on its stack.
LEMMA LeftOK ==
  ASSUME SyscallInv, current # Nobody, NEW how \in {"call", "irq_0"},
         how = "call" => call[current].in
  PROVE  /\ Left(current, how) \in Seq(Int)
         /\ \E f \in [Registers -> Int], s \in Seq(Int) :
              /\ OwnRegs(current, f) /\ OwnStack(current, s)
              /\ Left(current, how) = Pushed(SwitchOrder, f, IF how = "irq_0" THEN Pushed(InterruptOrder, f, s) ELSE s)
<1> DEFINE s == stk[current]
<1>1. /\ regs \in [Registers -> Int] /\ s \in Seq(Int)
      /\ OwnRegs(current, regs) /\ OwnStack(current, s)
  BY CurrentCaller DEF SyscallInv
<1>2. Pushed(InterruptOrder, regs, s) \in Seq(Int)
  BY <1>1, InterruptRegisters, PushedWords
<1>3. Left(current, how) = Pushed(SwitchOrder, regs, IF how = "irq_0" THEN Pushed(InterruptOrder, regs, s) ELSE s)
  BY DEF Left
<1>4. Left(current, how) \in Seq(Int)
  BY <1>1, <1>2, <1>3, SwitchRegisters, PushedWords
<1> QED
  BY <1>1, <1>3, <1>4

LEMMA TakenWords ==
  ASSUME regs \in [Registers -> Int], NEW f \in [Registers -> Int], NEW s \in Seq(Int),
         NEW t, t = Pushed(SwitchOrder, f, s)
  PROVE  Taken(t) \in [Registers -> Int] /\ \A x \in CalleeSaved : Taken(t)[x] = f[x]
<1>1. AfterC(regs) \in [Registers -> Int]
  BY DEF AfterC
<1>2. Undoes(Reverse(SwitchOrder), SwitchOrder) /\ Range(Reverse(SwitchOrder)) = CalleeSaved
  BY SwitchRegisters, ReverseUndoes, UndoneRange
<1>3. CalleeSaved \subseteq Registers
  BY DEF Registers
<1> DEFINE p == Popped(Reverse(SwitchOrder), AfterC(regs), Pushed(SwitchOrder, f, s))
<1>4. Restored(p, Reverse(SwitchOrder), f, AfterC(regs))
  BY <1>1, <1>2, PopPushed
<1>5. Taken(t) = p
  BY DEF Taken
<1> HIDE DEF p
<1> QED
  BY <1>2, <1>3, <1>4, <1>5 DEF Restored

\* A caller that gets the CPU finds them again.
LEMMA ResumedOK ==
  ASSUME SyscallInv, NEW d \in Callers, d # current, NEW how
  PROVE  /\ OwnRegs(d, Resumed(d, how).regs) /\ OwnStack(d, Resumed(d, how).stk)
         /\ Resumed(d, how).stk \in Seq(Int) /\ Resumed(d, how).iflag \in BOOLEAN
         /\ ~ call[d].in => Resumed(d, how).iflag = TRUE
<1>1. /\ NotStarted(d) \/ LeftInCall(d) \/ LeftInIrq(d)
      /\ call[d].in \in BOOLEAN /\ (call[d].in => call[d].rax \in Int)
  BY DEF SyscallInv, CallerOK
<1>2. regs \in [Registers -> Int] /\ iflag \in BOOLEAN
  BY DEF SyscallInv
<1>5. Undoes(Reverse(InterruptOrder), InterruptOrder) /\ Range(Reverse(InterruptOrder)) = Registers \ CalleeSaved
  BY InterruptRegisters, ReverseUndoes, UndoneRange
<1>6. CASE NotStarted(d)
  <2> DEFINE own == [r \in Registers |-> Own(d, r)]
  <2>1. Resumed(d, how) = [regs |-> own, iflag |-> TRUE, stk |-> UserStack(d)]
    BY <1>6 DEF Resumed, NotStarted
  <2>2. OwnRegs(d, own)
    BY WordTypes, RegisterNames DEF OwnRegs, CalleeSaved
  <2>3. UserStack(d) \in Seq(Int) /\ OwnStack(d, UserStack(d))
    BY <1>6, UserWords DEF OwnStack, NotStarted
  <2> HIDE DEF own
  <2> QED
    BY <2>1, <2>2, <2>3
<1>7. CASE LeftInCall(d)
  <2>1. PICK f \in [Registers -> Int], s \in Seq(Int) :
          OwnRegs(d, f) /\ OwnStack(d, s) /\ stk[d] = Pushed(SwitchOrder, f, s)
    BY <1>7 DEF LeftInCall
  <2>2. Len(s) > 0
    BY <1>1, <2>1, StackType
  <2>3. Rest(Len(SwitchOrder), stk[d]) = s
    <3>1. SwitchOrder \in Seq(Registers)
      BY SwitchRegisters
    <3>2. Rest(Len(SwitchOrder), Pushed(SwitchOrder, f, s)) = s
      BY <2>2, <3>1, PushedRest
    <3> QED
      BY <2>1, <3>2
  <2>4. /\ Taken(stk[d]) \in [Registers -> Int]
        /\ \A x \in CalleeSaved : Taken(stk[d])[x] = f[x]
    BY <1>2, <2>1, TakenWords
  <2>5. Resumed(d, how) = [regs |-> Taken(stk[d]), iflag |-> how = "call" /\ iflag, stk |-> s]
    BY <1>7, <2>3 DEF Resumed, LeftInCall
  <2>6. OwnRegs(d, Taken(stk[d]))
    <3>1. Taken(stk[d]) \in [Registers -> Int]
      BY <2>4
    <3>2. \A r \in CalleeSaved : Taken(stk[d])[r] = Own(d, r)
      BY <2>1, <2>4 DEF OwnRegs
    <3> QED
      BY <1>7, <3>1, <3>2 DEF OwnRegs, LeftInCall
  <2> QED
    BY <1>2, <1>7, <2>1, <2>5, <2>6 DEF LeftInCall
<1>8. CASE LeftInIrq(d)
  <2>1. PICK f \in [Registers -> Int], s \in Seq(Int) :
          /\ OwnRegs(d, f) /\ OwnStack(d, s)
          /\ stk[d] = Pushed(SwitchOrder, f, Pushed(InterruptOrder, f, s))
    BY <1>8 DEF LeftInIrq
  <2> DEFINE u == Pushed(InterruptOrder, f, s)
  <2>2. Len(s) > 0
    BY <1>1, <2>1, StackType
  <2>3. u \in Seq(Int) /\ Len(u) > 0 /\ Rest(Len(InterruptOrder), u) = s
    <3>1. InterruptOrder \in Seq(Registers) /\ Len(InterruptOrder) = 9
      BY InterruptRegisters
    <3>2. u \in Seq(Int) /\ Len(u) = Len(InterruptOrder) + Len(s)
      BY <3>1, PushedWords
    <3>3. Rest(Len(InterruptOrder), u) = s
      BY <2>2, <3>1, PushedRest
    <3> QED
      BY <2>2, <3>1, <3>2, <3>3
  <2>4. Popped(Reverse(InterruptOrder), Taken(stk[d]), u) = f
    <3> DEFINE g == Taken(stk[d])
               p == Popped(Reverse(InterruptOrder), g, u)
    <3>1. g \in [Registers -> Int] /\ \A x \in CalleeSaved : g[x] = f[x]
      BY <1>2, <2>1, <2>3, TakenWords
    <3> HIDE DEF g
    <3>2. Restored(p, Reverse(InterruptOrder), f, g)
      BY <1>5, <3>1, PopPushed
    <3> HIDE DEF p
    <3>3. \A x \in Registers : p[x] = f[x]
      BY <1>5, <3>1, <3>2 DEF Restored
    <3>4. p = f
      BY <3>2, <3>3 DEF Restored
    <3> QED
      BY <3>4 DEF p, g
  <2> HIDE DEF u
  <2>5. stk[d] = Pushed(SwitchOrder, f, u)
    BY <2>1 DEF u
  <2>8. Rest(Len(SwitchOrder), stk[d]) = u
    <3>1. SwitchOrder \in Seq(Registers)
      BY SwitchRegisters
    <3>2. Rest(Len(SwitchOrder), Pushed(SwitchOrder, f, u)) = u
      BY <2>3, <3>1, PushedRest
    <3> QED
      BY <2>5, <3>2
  <2>9. Resumed(d, how) = [regs |-> f, iflag |-> TRUE, stk |-> s]
    BY <1>8, <2>3, <2>4, <2>8 DEF Resumed, LeftInIrq
  <2> QED
    BY <2>1, <2>9
<1> QED
  BY <1>1, <1>6, <1>7, <1>8

LEMMA SwitchToInv ==
  ASSUME SyscallInv, NEW d \in Callers \cup {Nobody}, NEW how \in {"call", "irq_0"}, SwitchTo(d, how)
  PROVE  SyscallInv'
<1> DEFINE c  == current
           to == IF d = Nobody
                   THEN [regs |-> [r \in Registers |-> 0], iflag |-> how = "call" /\ iflag, stk |-> << >>]
                   ELSE Resumed(d, how)
<1>1. /\ d # c
      /\ how = "call" /\ c # Nobody => call[c].in
      /\ current' = d /\ regs' = to.regs /\ iflag' = to.iflag
      /\ way' = [x \in Callers |-> IF x = c THEN how ELSE way[x]]
      /\ stk' = [x \in Callers |-> IF x = c THEN Left(c, how) ELSE IF x = d THEN to.stk ELSE stk[x]]
      /\ call' = call
  BY DEF SwitchTo
<1>2. /\ regs \in [Registers -> Int] /\ stk \in [Callers -> Seq(Int)] /\ iflag \in BOOLEAN
      /\ call = [x \in Callers |-> call[x]] /\ c \in Callers \cup {Nobody} /\ Nobody \notin Callers
  BY SyscallAssumption DEF SyscallInv, Nobody
<1>3. /\ d # Nobody => /\ to = Resumed(d, how) /\ d \in Callers
                       /\ OwnRegs(d, to.regs) /\ OwnStack(d, to.stk)
                       /\ to.stk \in Seq(Int) /\ to.iflag \in BOOLEAN
                       /\ ~ call[d].in => to.iflag = TRUE
      /\ d = Nobody => to.regs = [r \in Registers |-> 0] /\ to.iflag = (how = "call" /\ iflag)
  BY <1>1, <1>2, ResumedOK
<1>4. to.regs \in [Registers -> Int] /\ to.iflag \in BOOLEAN
  <2>1. CASE d = Nobody
    <3>1. to.regs = [r \in Registers |-> 0] /\ to.iflag = (how = "call" /\ iflag)
      BY <1>3, <2>1
    <3> HIDE DEF to
    <3> QED
      BY <1>2, <3>1
  <2>2. CASE d # Nobody
    <3>1. OwnRegs(d, to.regs) /\ to.iflag \in BOOLEAN
      BY <1>3, <2>2
    <3> HIDE DEF to
    <3> QED
      BY <3>1 DEF OwnRegs
  <2> QED
    BY <2>1, <2>2
<1> HIDE DEF to
<1>5. c # Nobody => Left(c, how) \in Seq(Int)
  BY <1>1, LeftOK
<1>6. stk' \in [Callers -> Seq(Int)]
  BY <1>1, <1>2, <1>3, <1>5
<1>7. ASSUME NEW x \in Callers PROVE CallerOK(x)'
  <2>1. CallerOK(x)
    BY DEF SyscallInv
  <2>2. /\ Entered(x)' = Entered(x)
        /\ \A s : OwnStack(x, s)' = OwnStack(x, s)
        /\ \A f : OwnRegs(x, f)' = OwnRegs(x, f)
    BY <1>1 DEF Entered, OwnStack, OwnRegs
  <2>3. CASE x = d
    <3>1. stk'[x] = to.stk /\ d # Nobody
      BY <1>1, <1>2, <2>3
    <3> QED
      BY <1>1, <1>3, <2>1, <2>2, <2>3, <3>1 DEF CallerOK
  <2>4. CASE x = c
    <3>1. way'[x] = how /\ stk'[x] = Left(c, how) /\ c # Nobody /\ x # current'
      BY <1>1, <1>2, <2>4
    <3>2. PICK f \in [Registers -> Int], s \in Seq(Int) :
            /\ OwnRegs(c, f) /\ OwnStack(c, s)
            /\ Left(c, how) = Pushed(SwitchOrder, f, IF how = "irq_0" THEN Pushed(InterruptOrder, f, s) ELSE s)
      BY <1>1, <3>1, LeftOK
    <3>3. OwnRegs(x, f)' /\ OwnStack(x, s)'
      BY <2>2, <2>4, <3>2
    <3>4. CASE how = "irq_0"
      BY <2>1, <1>1, <3>1, <3>2, <3>3, <3>4 DEF CallerOK, LeftInIrq
    <3>5. CASE how = "call"
      <4>1. call'[x].in
        BY <1>1, <2>4, <3>1, <3>5
      <4> QED
        BY <2>1, <1>1, <3>1, <3>2, <3>3, <3>5, <4>1 DEF CallerOK, LeftInCall
    <3> QED
      BY <3>4, <3>5
  <2>5. CASE x # d /\ x # c
    <3>1. way'[x] = way[x] /\ stk'[x] = stk[x] /\ call'[x] = call[x] /\ x # current'
      BY <1>1, <2>5
    <3> QED
      BY <2>5, <3>1, OthersKept
  <2> QED
    BY <2>3, <2>4, <2>5
<1>8. (~ halted /\ current # Nobody /\ ~ call[current].in => iflag)'
  BY <1>1, <1>3
<1> QED
  BY <1>1, <1>2, <1>4, <1>6, <1>7, <1>8 DEF SyscallInv

LEMMA SyscallInitInv == SyscallInit => SyscallInv
<1> SUFFICES ASSUME SyscallInit PROVE SyscallInv
  OBVIOUS
<1>1. /\ regs = [r \in Registers |-> 0] /\ iflag = FALSE /\ current = Nobody
      /\ stk = [c \in Callers |-> UserStack(c)] /\ way = [c \in Callers |-> "new"]
      /\ call = [c \in Callers |-> Outside({})]
  BY DEF SyscallInit
<1>2. Nobody \notin Callers
  BY SyscallAssumption DEF Nobody
<1>3. regs \in [Registers -> Int] /\ stk \in [Callers -> Seq(Int)]
  BY <1>1, UserWords
<1>4. \A c \in Callers : CallerOK(c)
  BY <1>1, <1>2 DEF CallerOK, NotStarted, Outside
<1> QED
  BY <1>1, <1>3, <1>4 DEF SyscallInv

-----------------------------------------------------------------------------
(* The rest of the kernel leaves the callers alone.                        *)
LEMMA CallersKept ==
  ASSUME SyscallInv, UNCHANGED syscallVars, iflag' \in BOOLEAN, halted' \/ (halted' = halted /\ (iflag => iflag'))
  PROVE  SyscallInv'
<1>1. regs' = regs /\ current' = current /\ stk' = stk /\ way' = way /\ call' = call
  BY DEF syscallVars
<1>2. ASSUME NEW c \in Callers PROVE CallerOK(c)'
  <2>1. CallerOK(c)
    BY DEF SyscallInv
  <2>2. /\ Entered(c)' = Entered(c)
        /\ \A s : OwnStack(c, s)' = OwnStack(c, s)
        /\ \A f : OwnRegs(c, f)' = OwnRegs(c, f)
    BY <1>1 DEF Entered, OwnStack, OwnRegs
  <2> QED
    BY <1>1, <2>1, <2>2 DEF CallerOK, NotStarted, LeftInCall, LeftInIrq
<1> QED
  BY <1>1, <1>2 DEF SyscallInv

LEMMA BootNextInv == ASSUME SyscallInv, [BootNext]_allVars PROVE SyscallInv'
<1>1. ASSUME UNCHANGED syscallVars, UNCHANGED <<iflag, halted>> PROVE SyscallInv'
  BY <1>1, CallersKept DEF SyscallInv
<1>2. ASSUME NEW text, hal_halt(text) PROVE SyscallInv'
  BY <1>2, CallersKept DEF hal_halt
<1>3. CASE ThreadCalls
  <2>1. ~ halted /\ halted' = halted
    BY <1>3 DEF ThreadCalls, Up
  <2> QED
    BY <1>3, <2>1, SyscallEnterInv, SyscallReturnInv, SwitchToInv DEF ThreadCalls
<1>4. CASE kmain
  <2>1. ASSUME NEW from, NEW to, NEW part, NEW text, SetUp(from, to, part, text) PROVE SyscallInv'
    BY <1>1, <2>1 DEF SetUp, Advance
  <2>2. ASSUME NEW at, NEW message, Fails(at, message) PROVE SyscallInv'
    BY <1>2, <2>2 DEF Fails
  <2>3. ASSUME NEW from, NEW to, NEW d, Program(from, to, d) PROVE SyscallInv'
    BY <1>1, <2>3 DEF Program, Advance
  <2>4. ASSUME NEW from, NEW to, Advance(from, to) PROVE SyscallInv'
    BY <1>1, <2>4 DEF Advance
  <2>5. CASE early_console \/ base_revision \/ hhdm_response \/ framebuffer_response \/ memmap_response
    BY <2>1, <2>2, <2>4, <2>5
       DEF early_console, base_revision, hhdm_response, framebuffer_response, memmap_response
  <2>6. CASE hal_init \/ clock_init
    BY <2>1, <2>3, <2>6 DEF hal_init, clock_init
  <2>7. CASE pmm_init \/ pmap_init \/ vm_map_init \/ sched_init \/ sched_create_idle
    BY <2>1, <2>2, <2>7 DEF pmm_init, pmap_init, vm_map_init, sched_init, sched_create_idle
  <2>8. CASE cpu_enable_interrupts
    BY <2>8, CallersKept DEF cpu_enable_interrupts
  <2> QED
    BY <1>4, <2>5, <2>6, <2>7, <2>8 DEF kmain
<1>5. CASE ThreadPrints
  BY <1>1, <1>5 DEF ThreadPrints, bootVars
<1>6. CASE Exception
  BY <1>2, <1>6 DEF Exception
<1>7. CASE UNCHANGED allVars
  BY <1>1, <1>7 DEF allVars, bootVars
<1> QED
  BY <1>3, <1>4, <1>5, <1>6, <1>7 DEF BootNext

LEMMA BootInvariant == BootSpec => []SyscallInv
<1>1. BootInit => SyscallInv
  BY SyscallInitInv DEF BootInit
<1> QED
  BY <1>1, BootNextInv, PTL DEF BootSpec

(* A caller that is back from its calls finds its stack and, but for rax,  *)
(* rdx, rcx and r11, its registers as they were, however long its handlers *)
(* blocked, whoever had the CPU meanwhile and wherever the timer           *)
(* interrupted (syscall.S:22-64, thread_switch.S:26-43).                   *)
THEOREM SyscallKeepsCaller == BootSpec => []SyscallTransparent
<1>1. SyscallInv => SyscallTransparent
  <2> SUFFICES ASSUME SyscallInv, current # Nobody, ~ call[current].in
               PROVE  /\ \A r \in Registers \ {"rax", "rdx", "rcx", "r11"} : regs[r] = Own(current, r)
                      /\ regs["rcx"] \in {Own(current, "rcx"), Rip(current)}
                      /\ regs["r11"] \in {Own(current, "r11"), Rflags(current, TRUE)}
                      /\ stk[current] = UserStack(current)
    BY DEF SyscallTransparent
  <2> QED
    BY CurrentCaller DEF OwnRegs, OwnStack
<1> QED
  BY <1>1, BootInvariant, PTL

(* Interrupts are on for a caller that is back from its calls, whichever   *)
(* threads lost and got the CPU with interrupts off (syscall_setup.c:21,   *)
(* syscall.S:64, thread_switch.S:26-43).                                   *)
THEOREM CallersKeepInterrupts == BootSpec => []CallersInterruptible
<1>1. SyscallInv => CallersInterruptible
  BY DEF SyscallInv, CallersInterruptible, Up
<1> QED
  BY <1>1, BootInvariant, PTL

\* A number that falls into the table as an int is its low bits.
LEMMA LowBits ==
  ASSUME NEW h \in Nat \ {0}, NEW x \in Int, ((x + h) % (2 * h)) - h >= 0
  PROVE  x % (2 * h) = ((x + h) % (2 * h)) - h
<1> DEFINE m == 2 * h
           q == (x + h) \div m
           r == (x + h) % m
           p == x \div m
           s == x % m
<1>1. m \in Nat \ {0} /\ x + h \in Int
  OBVIOUS
<1>2. q \in Int /\ r \in 0 .. m-1 /\ x + h = q * m + r
  BY <1>1, IntDivMod
<1>3. p \in Int /\ s \in 0 .. m-1 /\ x = p * m + s
  BY <1>1, IntDivMod
<1>4. m = 2 * h /\ r - h >= 0
  OBVIOUS
<1> HIDE DEF m, q, r, p, s
<1>5. q * m + (r - h) = p * m + s /\ r - h \in 0 .. m-1
  BY <1>1, <1>2, <1>3, <1>4
<1>6. r - h = s
  BY <1>1, <1>2, <1>3, <1>5, SameRest
<1> QED
  BY <1>6 DEF m, r, s

(* No handler is taken from outside syscall_table, whatever is in rax, and *)
(* one that is called was asked for by the low bits (syscall.c:95-107).    *)
THEOREM SyscallNotWild == BootSpec => []NoWildCall
<1>1. SyscallInv => NoWildCall
  <2> SUFFICES ASSUME SyscallInv, NEW c \in Callers, call[c].in
               PROVE  /\ call[c].handler # "wild"
                      /\ call[c].handler # "null" => TableAt(call[c].rax % 2^IntWidth) = call[c].handler
    BY DEF NoWildCall
  <2> DEFINE x == call[c].rax
             h == 2^(IntWidth - 1)
             n == AsInt(x)
  <2>1. x \in Int /\ call[c].handler = HandlerOf(x)
    BY DEF SyscallInv, CallerOK
  <2>2. /\ h \in Nat \ {0} /\ 2^IntWidth = 2 * h /\ MAX_SYSCALL \in Nat /\ MAX_SYSCALL > 7
    BY SyscallAssumption
  <2>3. n = ((x + h) % (2 * h)) - h
    BY <2>2 DEF AsInt
  <2> HIDE DEF x, h, n
  <2>4. n \in Int
    BY <2>1, <2>2, <2>3
  <2>5. HandlerOf(x) = IF n < 0 \/ n >= MAX_SYSCALL THEN "null" ELSE TableAt(n)
    BY DEF HandlerOf, n
  <2>6. CASE n < 0 \/ n >= MAX_SYSCALL
    BY <2>1, <2>5, <2>6
  <2>7. CASE ~ (n < 0 \/ n >= MAX_SYSCALL)
    <3>1. n \in 0 .. MAX_SYSCALL - 1
      BY <2>2, <2>4, <2>7
    <3>2. TableAt(n) # "wild"
      BY <3>1 DEF TableAt
    <3>3. x % (2 * h) = n
      <4>1. ((x + h) % (2 * h)) - h >= 0
        BY <2>3, <3>1
      <4> QED
        BY <2>1, <2>2, <2>3, <4>1, LowBits
    <3> QED
      BY <2>1, <2>2, <2>5, <2>7, <3>2, <3>3 DEF x
  <2> QED
    BY <2>6, <2>7
<1> QED
  BY <1>1, BootInvariant, PTL

-----------------------------------------------------------------------------
(* The screen.                                                             *)

CellValue == Printable \cup {Blank, "#"}

\* Screens of the given size; in the middle of fb_putc() the cursor may be in
\* row over, one below the last.
ScreenTo(cols, rows, over) ==
  [ready : {TRUE}, cols : {cols}, rows : {rows}, col : Nat, row : 0..over,
   cells : [0 .. rows - 1 -> [0 .. cols - 1 -> CellValue]], spoilt : BOOLEAN, from : Nat]

Screen(cols, rows) == ScreenTo(cols, rows, rows - 1)

Draws(c) == c \notin {"\n", "\r", "\t", "BS"}

\* Where the cursor goes on a screen of cols columns.
ColAfter(col, cols, c) ==
  CASE c \in {"\n", "\r"} -> 0
    [] c = "\t" -> ((col + TabStop) \div TabStop) * TabStop
    [] c = "BS" -> IF col > 0 THEN col - 1 ELSE 0
    [] OTHER -> IF col + 1 >= cols THEN 0 ELSE col + 1

NextRow(col, cols, c) == c = "\n" \/ (Draws(c) /\ col + 1 >= cols)

LEMMA TabForward ==
  ASSUME NEW col \in Nat PROVE ((col + TabStop) \div TabStop) * TabStop \in Nat
<1>1. TabStop \in Nat \ {0}
  BY ConsoleAssumption
<1>2. (col + TabStop) \div TabStop \in Nat
  BY <1>1, DivMod
<1> QED
  BY <1>1, <1>2

LEMMA ScreenWider ==
  ASSUME NEW cols, NEW rows \in Nat \ {0}, NEW f \in Screen(cols, rows)
  PROVE  f \in ScreenTo(cols, rows, rows)
<1>1. f.row \in 0..rows
  BY DEF Screen, ScreenTo
<1> QED
  BY <1>1 DEF Screen, ScreenTo

\* d is f with the glyph of c drawn at the cursor.
DrawnOn(f, c, d) ==
  /\ d.col = f.col /\ d.row = f.row /\ d.from = f.from
  /\ f.col >= f.cols => d.spoilt = TRUE
  /\ f.col < f.cols => d.spoilt = f.spoilt /\ d.cells = [f.cells EXCEPT ![f.row][f.col] = Glyph(c)]

LEMMA DrawnChar ==
  ASSUME NEW cols \in Nat \ {0}, NEW rows \in Nat \ {0}, NEW f \in Screen(cols, rows), NEW c
  PROVE  LET d == draw_char(f, f.col, f.row, c) IN d \in Screen(cols, rows) /\ DrawnOn(f, c, d)
<1> DEFINE d == draw_char(f, f.col, f.row, c)
<1>1. /\ f \in Screen(cols, rows) /\ f.cols = cols /\ f.rows = rows /\ f.col \in Nat /\ f.row \in 0 .. rows-1
      /\ f.cells \in [0 .. rows - 1 -> [0 .. cols - 1 -> CellValue]]
  BY DEF Screen, ScreenTo
<1>2. Glyph(c) \in CellValue /\ "#" \in CellValue
  BY ConsoleAssumption DEF Glyph, CellValue
<1>3. CASE f.col < cols
  <2> DEFINE new == [f.cells EXCEPT ![f.row][f.col] = Glyph(c)]
  <2>1. d = [f EXCEPT !.cells = new]
    BY <1>1, <1>3 DEF draw_char, Screen, ScreenTo
  <2>2. f.col \in 0 .. cols-1
    BY <1>1, <1>3
  <2>3. new \in [0 .. rows - 1 -> [0 .. cols - 1 -> CellValue]]
    BY <1>1, <1>2, <2>2
  <2> HIDE DEF new, d
  <2>4. d \in Screen(cols, rows) /\ d.col = f.col /\ d.row = f.row /\ d.from = f.from /\ d.spoilt = f.spoilt
         /\ d.cells = new
    BY <2>1, <2>3 DEF Screen, ScreenTo
  <2> QED
    BY <1>1, <1>3, <2>4 DEF new, d, DrawnOn
<1>4. CASE f.col >= cols
  <2> DEFINE new == [r \in DOMAIN f.cells |-> IF r \in {f.row, f.row + 1}
                                                   THEN [f.cells[r] EXCEPT ![f.col % f.cols] = "#"]
                                                   ELSE f.cells[r]]
  <2>1. d = [f EXCEPT !.spoilt = TRUE, !.cells = new]
    BY <1>1, <1>4 DEF draw_char, Screen, ScreenTo
  <2>3. new \in [0 .. rows - 1 -> [0 .. cols - 1 -> CellValue]]
    <3>1. ASSUME NEW r \in 0 .. rows-1 PROVE [f.cells[r] EXCEPT ![f.col % f.cols] = "#"] \in [0 .. cols - 1 -> CellValue]
      BY <1>1, <1>2
    <3> QED
      BY <1>1, <3>1
  <2> HIDE DEF new, d
  <2>4. d \in Screen(cols, rows) /\ d.col = f.col /\ d.row = f.row /\ d.from = f.from /\ d.spoilt = TRUE
    BY <2>1, <2>3 DEF Screen, ScreenTo
  <2> QED
    BY <1>1, <1>4, <2>4 DEF d, DrawnOn
<1>5. f.col < cols \/ f.col >= cols
  BY <1>1
<1> QED
  BY <1>3, <1>4, <1>5

CursorSet(f, n, r) == [f EXCEPT !.col = n, !.row = r]

LEMMA CursorAt ==
  ASSUME NEW cols, NEW rows, NEW f \in ScreenTo(cols, rows, rows), NEW n \in Nat, NEW r \in 0..rows,
         NEW m, m = CursorSet(f, n, r)
  PROVE  /\ m \in ScreenTo(cols, rows, rows) /\ m.from = f.from /\ m.col = n /\ m.row = r
         /\ m.spoilt = f.spoilt /\ m.cells = f.cells
BY DEF ScreenTo, CursorSet

\* m is f after c, before it is scrolled.
MovedFrom(f, c, m) ==
  /\ m.from = f.from
  /\ m.col = ColAfter(f.col, f.cols, c)
  /\ m.row = IF NextRow(f.col, f.cols, c) THEN f.row + 1 ELSE f.row
  /\ IF Draws(c) /\ f.col >= f.cols THEN m.spoilt = TRUE ELSE m.spoilt = f.spoilt
  /\ ~ Draws(c) => m.cells = f.cells
  /\ Draws(c) /\ f.col < f.cols => m.cells = [f.cells EXCEPT ![f.row][f.col] = Glyph(c)]

LEMMA CursorFields ==
  ASSUME NEW cols \in Nat \ {0}, NEW rows \in Nat \ {0}, NEW f \in Screen(cols, rows), NEW c,
         NEW m, m = CursorMoved(f, c)
  PROVE  m \in ScreenTo(cols, rows, rows) /\ MovedFrom(f, c, m)
<1>1. f.cols = cols /\ f.rows = rows /\ f.col \in Nat /\ f.row \in 0 .. rows-1 /\ f.row \in 0..rows /\ f.row + 1 \in 0..rows
  BY DEF Screen, ScreenTo
<1>2. f \in ScreenTo(cols, rows, rows)
  BY ScreenWider
<1>3. CASE ~ Draws(c)
  <2> DEFINE n == ColAfter(f.col, cols, c)
             r == IF NextRow(f.col, cols, c) THEN f.row + 1 ELSE f.row
  <2>1. n \in Nat
    BY <1>1, <1>3, TabForward DEF ColAfter, Draws
  <2>2. r \in 0..rows
    BY <1>1
  <2>3. m = CursorSet(f, n, r)
    <3>1. CASE c = "\n"
      <4>1. n = 0 /\ r = f.row + 1
        BY <3>1 DEF ColAfter, NextRow
      <4>2. m = [f EXCEPT !.col = 0, !.row = f.row + 1]
        BY <1>2, <3>1 DEF CursorMoved, ScreenTo
      <4> QED
        BY <4>1, <4>2 DEF CursorSet
    <3>2. CASE c # "\n"
      <4>1. r = f.row
        BY <1>3, <3>2 DEF NextRow
      <4>2. m = [f EXCEPT !.col = n]
        <5>1. CASE c = "\r"
          BY <5>1 DEF CursorMoved, ColAfter
        <5>2. CASE c = "\t"
          BY <1>2, <5>2 DEF CursorMoved, ColAfter, ScreenTo
        <5>3. CASE c = "BS"
          BY <1>2, <5>3 DEF CursorMoved, ColAfter, ScreenTo
        <5> QED
          BY <1>3, <3>2, <5>1, <5>2, <5>3 DEF Draws
      <4> HIDE DEF n
      <4>3. [f EXCEPT !.col = n] = [f EXCEPT !.col = n, !.row = f.row]
        BY <1>2 DEF ScreenTo
      <4> QED
        BY <4>1, <4>2, <4>3 DEF CursorSet
    <3> QED
      BY <3>1, <3>2
  <2> HIDE DEF n, r
  <2>4. /\ m \in ScreenTo(cols, rows, rows) /\ m.from = f.from /\ m.col = n /\ m.row = r
        /\ m.spoilt = f.spoilt /\ m.cells = f.cells
    BY <1>2, <2>1, <2>2, <2>3, CursorAt
  <2> QED
    BY <1>1, <1>3, <2>4 DEF n, r, MovedFrom
<1>4. CASE Draws(c)
  <2> DEFINE d == draw_char(f, f.col, f.row, c)
  <2>1. m = IF f.col + 1 >= cols THEN [d EXCEPT !.col = 0, !.row = @ + 1] ELSE [d EXCEPT !.col = @ + 1]
    BY <1>1, <1>4 DEF CursorMoved, Draws
  <2>2. d \in Screen(cols, rows) /\ DrawnOn(f, c, d)
    BY DrawnChar
  <2> HIDE DEF d
  <2>3. /\ d \in Screen(cols, rows)
        /\ d.col = f.col /\ d.row = f.row /\ d.from = f.from
        /\ f.col >= cols => d.spoilt = TRUE
        /\ f.col < cols => d.spoilt = f.spoilt /\ d.cells = [f.cells EXCEPT ![f.row][f.col] = Glyph(c)]
    BY <1>1, <2>2 DEF DrawnOn
  <2>4. ColAfter(f.col, cols, c) = (IF f.col + 1 >= cols THEN 0 ELSE f.col + 1)
         /\ (NextRow(f.col, cols, c) <=> f.col + 1 >= cols)
    BY <1>4 DEF ColAfter, NextRow, Draws
  <2>5. d \in ScreenTo(cols, rows, rows)
    BY <2>3, ScreenWider
  <2> DEFINE n == ColAfter(f.col, cols, c)
             r == IF NextRow(f.col, cols, c) THEN f.row + 1 ELSE f.row
  <2>6. n \in Nat /\ r \in 0..rows
    BY <1>1, <2>4
  <2>7. m = CursorSet(d, n, r)
    <3>1. CASE f.col + 1 >= cols
      <4>1. m = [d EXCEPT !.col = 0, !.row = d.row + 1]
        BY <2>1, <2>5, <3>1 DEF ScreenTo
      <4> QED
        BY <2>3, <2>4, <3>1, <4>1 DEF CursorSet
    <3>2. CASE ~ (f.col + 1 >= cols)
      <4>1. m = [d EXCEPT !.col = d.col + 1]
        BY <2>1, <2>5, <3>2 DEF ScreenTo
      <4>2. n = d.col + 1 /\ r = d.row
        BY <2>3, <2>4, <3>2
      <4> HIDE DEF n, r
      <4>3. [d EXCEPT !.col = n] = [d EXCEPT !.col = n, !.row = d.row]
        BY <2>5 DEF ScreenTo
      <4> QED
        BY <4>1, <4>2, <4>3 DEF CursorSet
    <3> QED
      BY <3>1, <3>2
  <2> HIDE DEF n, r
  <2>8. /\ m \in ScreenTo(cols, rows, rows) /\ m.from = d.from /\ m.col = n /\ m.row = r
        /\ m.spoilt = d.spoilt /\ m.cells = d.cells
    BY <2>5, <2>6, <2>7, CursorAt
  <2>9. f.col < cols \/ f.col >= cols
    BY <1>1
  <2> QED
    BY <1>1, <1>4, <2>3, <2>8, <2>9 DEF n, r, MovedFrom
<1> QED
  BY <1>3, <1>4

-----------------------------------------------------------------------------
(* Scrolling.                                                              *)

Rolled(f) == [r \in 0 .. f.rows - 1 |-> IF r + 1 < f.rows THEN f.cells[r + 1] ELSE BlankRow(f)]

\* What ScrolledIn() does.
LEMMA ScrollFields ==
  ASSUME NEW cols \in Nat \ {0}, NEW rows \in Nat \ {0}, NEW m \in ScreenTo(cols, rows, rows),
         NEW g, g = ScrolledIn(m)
  PROVE  /\ g \in Screen(cols, rows) /\ g.from = m.from /\ g.col = m.col /\ g.spoilt = m.spoilt
         /\ m.row < rows => g = m
         /\ m.row = rows => g.row = rows - 1 /\ g.cells = Rolled(m)
<1>1. /\ m.cols = cols /\ m.rows = rows /\ m.row \in 0..rows
      /\ m.cells \in [0 .. rows - 1 -> [0 .. cols - 1 -> CellValue]]
  BY DEF ScreenTo
<1>2. CASE m.row < rows
  <2>1. g = m
    BY <1>1, <1>2 DEF ScrolledIn
  <2>2. m.row \in 0 .. rows-1 /\ m.row # rows
    BY <1>1, <1>2
  <2>3. m \in Screen(cols, rows)
    BY <2>2 DEF Screen, ScreenTo
  <2> QED
    BY <2>1, <2>2, <2>3
<1>3. CASE m.row = rows
  <2>1. Rolled(m) \in [0 .. rows - 1 -> [0 .. cols - 1 -> CellValue]]
    <3>1. BlankRow(m) \in [0 .. cols - 1 -> CellValue]
      BY <1>1 DEF BlankRow, CellValue
    <3>2. ASSUME NEW r \in 0 .. rows-1, r + 1 < rows PROVE m.cells[r + 1] \in [0 .. cols - 1 -> CellValue]
      BY <1>1, <3>2
    <3> QED
      BY <1>1, <3>1, <3>2 DEF Rolled
  <2>2. DOMAIN m.cells = 0 .. rows - 1
    BY <1>1
  <2>3. scroll_up(m) = [m EXCEPT !.cells = Rolled(m)]
    BY <1>1, <2>2 DEF scroll_up, Rolled, ScreenTo
  <2>4. g = [m EXCEPT !.cells = Rolled(m), !.row = rows - 1]
    <3>1. g = [scroll_up(m) EXCEPT !.row = rows - 1]
      BY <1>1, <1>3 DEF ScrolledIn
    <3> QED
      BY <2>3, <3>1
  <2>5. rows - 1 \in 0 .. rows-1
    OBVIOUS
  <2>6. g \in Screen(cols, rows) /\ g.from = m.from /\ g.col = m.col /\ g.spoilt = m.spoilt
         /\ g.row = rows - 1 /\ g.cells = Rolled(m)
    <3> DEFINE R == Rolled(m)
    <3>1. R \in [0 .. rows - 1 -> [0 .. cols - 1 -> CellValue]] /\ g = [m EXCEPT !.cells = R, !.row = rows - 1]
      BY <2>1, <2>4
    <3> HIDE DEF R
    <3>2. g \in Screen(cols, rows) /\ g.from = m.from /\ g.col = m.col /\ g.spoilt = m.spoilt
         /\ g.row = rows - 1 /\ g.cells = R
      BY <2>5, <3>1 DEF Screen, ScreenTo
    <3> QED
      BY <3>2 DEF R
  <2> QED
    BY <1>3, <2>6
<1> QED
  BY <1>1, <1>2, <1>3

\* fb_putc() keeps the size and the history of a screen.
LEMMA PutcType ==
  ASSUME NEW cols \in Nat \ {0}, NEW rows \in Nat \ {0}, NEW f \in Screen(cols, rows), NEW c
  PROVE  /\ fb_putc(f, c) \in Screen(cols, rows) /\ fb_putc(f, c).from = f.from
         /\ f.spoilt => fb_putc(f, c).spoilt
<1> DEFINE m == CursorMoved(f, c)
           g == ScrolledIn(m)
<1>1. f.ready /\ f.spoilt \in BOOLEAN
  BY DEF Screen, ScreenTo
<1>2. fb_putc(f, c) = g
  BY <1>1 DEF fb_putc
<1>3. m = CursorMoved(f, c) /\ g = ScrolledIn(m)
  OBVIOUS
<1> HIDE DEF m, g
<1>4. m \in ScreenTo(cols, rows, rows) /\ MovedFrom(f, c, m)
  BY <1>3, CursorFields
<1>5. g \in Screen(cols, rows) /\ g.from = m.from /\ g.spoilt = m.spoilt
  BY <1>3, <1>4, ScrollFields
<1>6. m.from = f.from /\ (f.spoilt => m.spoilt)
  BY <1>4 DEF MovedFrom
<1> QED
  BY <1>2, <1>5, <1>6

-----------------------------------------------------------------------------
(* The screen and the endless one.                                         *)

\* The screen f shows the end of the screen e, which never scrolled.
Alike(f, e) ==
  /\ f.cols = e.cols /\ f.col = e.col /\ f.row <= e.row
  /\ ~ f.spoilt /\ ~ e.spoilt
  /\ \A r \in 0 .. f.rows - 1 : f.cells[r] = e.cells[e.row - f.row + r]
  /\ \A r \in e.row + 1 .. e.rows - 1 : e.cells[r] = BlankRow(e)

\* A character leaves them alike.
LEMMA PutcAlike ==
  ASSUME NEW cols \in Nat \ {0}, NEW rows \in Nat \ {0}, NEW high \in Nat \ {0},
         NEW f \in Screen(cols, rows), NEW e \in Screen(cols, high), NEW c,
         Alike(f, e), e.row + 1 + rows <= high, ~ fb_putc(f, c).spoilt
  PROVE  Alike(fb_putc(f, c), fb_putc(e, c)) /\ fb_putc(e, c).row <= e.row + 1
<1> DEFINE mf == CursorMoved(f, c)
           me == CursorMoved(e, c)
           gf == ScrolledIn(mf)
           ge == ScrolledIn(me)
<1>1. fb_putc(f, c) = gf /\ fb_putc(e, c) = ge
  BY DEF Screen, ScreenTo, fb_putc
<1>2. mf = CursorMoved(f, c) /\ me = CursorMoved(e, c) /\ gf = ScrolledIn(mf) /\ ge = ScrolledIn(me)
  OBVIOUS
<1> HIDE DEF mf, me, gf, ge
<1>3. mf \in ScreenTo(cols, rows, rows) /\ MovedFrom(f, c, mf)
  BY <1>2, CursorFields
<1>4. me \in ScreenTo(cols, high, high) /\ MovedFrom(e, c, me)
  BY <1>2, CursorFields
<1>5. /\ gf \in Screen(cols, rows) /\ gf.col = mf.col /\ gf.spoilt = mf.spoilt
      /\ mf.row < rows => gf = mf
      /\ mf.row = rows => gf.row = rows - 1 /\ gf.cells = Rolled(mf)
  BY <1>2, <1>3, ScrollFields
<1>6. /\ f.cols = cols /\ f.rows = rows /\ f.col \in Nat /\ f.row \in 0 .. rows-1
      /\ f.cells \in [0 .. rows-1 -> [0 .. cols-1 -> CellValue]]
      /\ e.cols = cols /\ e.rows = high /\ e.col \in Nat /\ e.row \in 0 .. high-1
      /\ e.cells \in [0 .. high-1 -> [0 .. cols-1 -> CellValue]]
      /\ mf.cols = cols /\ mf.rows = rows /\ me.cols = cols /\ me.rows = high
      /\ mf.row \in 0..rows /\ gf.rows = rows /\ gf.cols = cols
  BY <1>3, <1>4, <1>5 DEF Screen, ScreenTo
<1>7. ge = me
  <2>1. me.row <= e.row + 1
    BY <1>4, <1>6 DEF MovedFrom
  <2>2. me.row < me.rows
    BY <1>4, <1>6, <2>1 DEF ScreenTo
  <2>3. ~ (me.row >= me.rows)
    BY <1>4, <1>6, <2>2 DEF ScreenTo
  <2> QED
    BY <1>2, <2>3 DEF ScrolledIn
<1>8. e.col = f.col /\ f.row <= e.row /\ ~ f.spoilt /\ ~ e.spoilt
  BY DEF Alike
<1>9. ~ (Draws(c) /\ f.col >= cols) /\ mf.spoilt = f.spoilt /\ me.spoilt = e.spoilt
  <2>1. ~ mf.spoilt
    BY <1>1, <1>5
  <2> QED
    BY <1>3, <1>4, <1>6, <1>8, <2>1 DEF MovedFrom
<1>10. /\ mf.col = me.col
       /\ \/ mf.row = f.row /\ me.row = e.row
          \/ mf.row = f.row + 1 /\ me.row = e.row + 1
  BY <1>3, <1>4, <1>6, <1>8 DEF MovedFrom
<1>11. \A r \in 0 .. rows-1 : mf.cells[r] = me.cells[e.row - f.row + r]
  <2> SUFFICES ASSUME NEW r \in 0 .. rows-1 PROVE mf.cells[r] = me.cells[e.row - f.row + r]
    OBVIOUS
  <2> DEFINE q == e.row - f.row + r
  <2>1. q \in 0 .. high-1 /\ (q = e.row <=> r = f.row)
    <3> DEFINE a == f.row
               b == e.row
    <3>1. a \in 0 .. rows-1 /\ b \in 0 .. high-1 /\ a <= b /\ b + 1 + rows <= high
      BY <1>6, <1>8
    <3> HIDE DEF a, b
    <3>2. b - a + r \in 0 .. high-1 /\ (b - a + r = b <=> r = a)
      BY <3>1
    <3> QED
      BY <3>2 DEF a, b
  <2>2. f.cells[r] = e.cells[q]
    BY <1>6 DEF Alike
  <2>3. CASE ~ Draws(c)
    BY <1>3, <1>4, <2>2, <2>3 DEF MovedFrom
  <2>4. CASE Draws(c)
    <3>1. f.col < cols
      BY <1>6, <1>9, <2>4
    <3>2. mf.cells = [f.cells EXCEPT ![f.row][f.col] = Glyph(c)] /\ me.cells = [e.cells EXCEPT ![e.row][f.col] = Glyph(c)]
      <4>1. f.col < f.cols /\ e.col = f.col /\ e.col < e.cols
        BY <1>6, <1>8, <3>1
      <4>2. mf.cells = [f.cells EXCEPT ![f.row][f.col] = Glyph(c)]
        BY <1>3, <2>4, <4>1 DEF MovedFrom
      <4>3. me.cells = [e.cells EXCEPT ![e.row][f.col] = Glyph(c)]
        BY <1>4, <2>4, <4>1 DEF MovedFrom
      <4> QED
        BY <4>2, <4>3
    <3>3. r = f.row => mf.cells[r] = [f.cells[r] EXCEPT ![f.col] = Glyph(c)] /\ me.cells[q] = [e.cells[q] EXCEPT ![f.col] = Glyph(c)]
      BY <1>6, <2>1, <3>2
    <3>4. r # f.row => mf.cells[r] = f.cells[r] /\ me.cells[q] = e.cells[q]
      BY <1>6, <2>1, <3>2
    <3> QED
      BY <2>2, <3>3, <3>4
  <2> QED
    BY <2>3, <2>4
<1>12. \A r \in e.row + 1 .. high - 1 : me.cells[r] = e.cells[r]
  <2>1. CASE ~ Draws(c)
    BY <1>4, <2>1 DEF MovedFrom
  <2>2. CASE Draws(c)
    <3>1. f.col < cols
      BY <1>6, <1>9, <2>2
    <3>2. e.col = f.col /\ e.col < e.cols
      BY <1>6, <1>8, <3>1
    <3>3. me.cells = [e.cells EXCEPT ![e.row][f.col] = Glyph(c)]
      BY <1>4, <2>2, <3>2 DEF MovedFrom
    <3>4. e.row \in Nat /\ \A r \in e.row + 1 .. high - 1 : r # e.row /\ r \in 0 .. high-1
      BY <1>6
    <3>5. e.cells \in [0 .. high-1 -> [0 .. cols-1 -> CellValue]]
      BY <1>6
    <3> QED
      BY <3>3, <3>4, <3>5
  <2> QED
    BY <2>1, <2>2
<1>13. BlankRow(me) = BlankRow(e) /\ BlankRow(mf) = BlankRow(e)
  BY <1>6 DEF BlankRow
<1>14. \A r \in e.row + 1 .. high - 1 : me.cells[r] = BlankRow(me)
  BY <1>6, <1>12, <1>13 DEF Alike
<1>15. \A r \in me.row + 1 .. high - 1 : me.cells[r] = BlankRow(me)
  <2>1. me.row >= e.row /\ me.row \in Nat
    BY <1>6, <1>10
  <2>2. \A r \in me.row + 1 .. high - 1 : r \in e.row + 1 .. high - 1
    BY <1>6, <2>1
  <2> QED
    BY <1>14, <2>2
<1>0. e.row \in Int /\ f.row \in Int /\ mf.row \in Int /\ me.row \in Int /\ f.row <= e.row
  BY <1>6, <1>8, <1>10
<1>16. CASE mf.row < rows
  <2>1. me.row - mf.row = e.row - f.row /\ mf.row <= me.row
    BY <1>0, <1>10
  <2>3. gf = mf
    BY <1>5, <1>16
  <2>2. \A r \in 0 .. rows-1 : mf.cells[r] = me.cells[me.row - mf.row + r]
    BY <1>11, <2>1
  <2> QED
    BY <1>1, <1>6, <1>7, <1>8, <1>9, <1>10, <1>15, <2>1, <2>2, <2>3 DEF Alike
<1>17. CASE mf.row = rows
  <2>1. f.row = rows - 1 /\ me.row = e.row + 1 /\ gf.row = rows - 1 /\ gf.cells = Rolled(mf)
    BY <1>5, <1>6, <1>10, <1>17
  <2>2. me.row - gf.row = (e.row - f.row) + 1 /\ gf.row <= me.row
    BY <1>6, <1>8, <2>1
  <2>3. ASSUME NEW r \in 0 .. rows-1 PROVE gf.cells[r] = me.cells[me.row - gf.row + r]
    <3>1. gf.cells[r] = IF r + 1 < rows THEN mf.cells[r + 1] ELSE BlankRow(mf)
      BY <1>6, <2>1 DEF Rolled
    <3>2. CASE r + 1 < rows
      <4>1. r + 1 \in 0 .. rows-1 /\ e.row - f.row + (r + 1) = me.row - gf.row + r
        BY <1>0, <2>1, <2>2, <3>2
      <4> QED
        BY <1>11, <3>1, <3>2, <4>1
    <3>3. CASE ~ (r + 1 < rows)
      <4>1. me.row - gf.row + r = e.row + 1 /\ e.row + 1 \in e.row + 1 .. high - 1
        BY <1>6, <2>1, <3>3
      <4> QED
        BY <1>13, <1>14, <3>1, <3>3, <4>1
    <3> QED
      BY <3>2, <3>3
  <2> QED
    <3>1. gf.cols = cols /\ gf.rows = rows /\ gf.col = me.col /\ gf.spoilt = f.spoilt /\ me.spoilt = e.spoilt
      BY <1>5, <1>6, <1>9, <1>10
    <3>2. Alike(gf, me)
      BY <1>6, <1>8, <1>15, <2>2, <2>3, <3>1 DEF Alike
    <3> QED
      BY <1>0, <1>1, <1>7, <2>1, <3>2
<1> QED
  BY <1>6, <1>16, <1>17

-----------------------------------------------------------------------------
(* The loops over the characters of a text.                                *)

\* The characters that kernel code prints; the provers know no string to be a
\* member of STRING.
Figures == {Digit(d, up) : d \in 0..15, up \in BOOLEAN}

Words ==
  {"M booting", "M dana", "M hhdm", "M screen", "M memmap", "M table", "M tables", "M pmm", "M pmap", "M vm",
   "M task", "M complete", "M exec"}

Char == STRING \cup {"\r", "\n", "0", "x", "-", "%", "(null)"} \cup Figures \cup Words \cup Errors

\* What Shown() goes through.
ShownRec(f, text, w) ==
  w = [i \in 0 .. Len(text) |-> IF i = 0 THEN f ELSE fb_putc(w[i-1], text[i])]

ShownRun(f, text, w) ==
  w[0] = f /\ \A i \in 1 .. Len(text) : w[i] = fb_putc(w[i-1], text[i])

LEMMA ShownDef ==
  ASSUME NEW S, NEW f \in S, \A x \in S, c \in Char : fb_putc(x, c) \in S,
         NEW text \in Seq(Char)
  PROVE  \E w : ShownRun(f, text, w) /\ Shown(f, text) = w[Len(text)]
<1> DEFINE N == Len(text)
           G == [i \in 1..N |-> [x \in S |-> fb_putc(x, text[i])]]
           a == f
           c == CHOOSE w : ShownRec(f, text, w)
<1>0. N \in Nat /\ \A i \in 1..N : text[i] \in Char
  OBVIOUS
<1>1. ASSUME NEW i \in 1..N, NEW x \in S PROVE (fb_putc(x, text[i])) \in S
  BY <1>0
<1>2. G \in [1..N -> [S -> S]]
  BY <1>1
<1>3. a \in S
  OBVIOUS
<1>4. PICK w \in [0..N -> S] : LoopRun(N, a, G, w)
  <2> HIDE DEF G, a
  <2> QED
    BY <1>0, <1>2, <1>3, UpRecursion
<1>5. ShownRec(f, text, w)
  <2>1. \A i \in 0..N : i # 0 => i \in 1..N /\ i - 1 \in 0..N
    BY <1>0
  <2>2. \A i \in 0..N : i # 0 => G[i][w[i-1]] = fb_putc(w[i-1], text[i])
    BY <1>4, <2>1
  <2> HIDE DEF G, a
  <2>3. w = [i \in 0..N |-> IF i = 0 THEN a ELSE fb_putc(w[i-1], text[i])]
    BY <1>4, <2>2 DEF LoopRun
  <2> QED
    BY <1>0, <2>3 DEF ShownRec, a
<1>6. ShownRec(f, text, c)
  BY <1>5
<1>7. Shown(f, text) = c[N]
  BY <1>0 DEF Shown, ShownRec
<1> HIDE DEF c
<1>8. ShownRun(f, text, c)
  <2>1. 0 \in 0..N /\ \A i \in 1..N : i \in 0..N /\ i # 0
    BY <1>0
  <2> QED
    BY <1>0, <1>6, <2>1 DEF ShownRec, ShownRun
<1> QED
  BY <1>7, <1>8

\* What Transmitted() goes through.
SentRec(s, text, w) ==
  w = [i \in 0 .. Len(text) |-> IF i = 0 THEN s ELSE serial_putc(w[i-1], text[i])]

SentRun(s, text, w) ==
  w[0] = s /\ \A i \in 1 .. Len(text) : w[i] = serial_putc(w[i-1], text[i])

LEMMA SentDef ==
  ASSUME NEW s \in Seq(Char), NEW text \in Seq(Char)
  PROVE  \E w : SentRun(s, text, w) /\ Transmitted(s, text) = w[Len(text)]
<1> DEFINE N == Len(text)
           G == [i \in 1..N |-> [x \in Seq(Char) |-> serial_putc(x, text[i])]]
           a == s
           c == CHOOSE w : SentRec(s, text, w)
<1>0. N \in Nat /\ \A i \in 1..N : text[i] \in Char
  OBVIOUS
<1>1. ASSUME NEW i \in 1..N, NEW x \in Seq(Char) PROVE (serial_putc(x, text[i])) \in Seq(Char)
  <2>1. x \in Seq(Char) /\ text[i] \in Char
    BY <1>0
  <2>0. "\r" \in Char
    BY DEF Char
  <2>2. <<"\r", text[i]>> \in Seq(Char) /\ <<text[i]>> \in Seq(Char)
    BY <2>0, <2>1
  <2> QED
    BY <2>1, <2>2 DEF serial_putc
<1>2. G \in [1..N -> [Seq(Char) -> Seq(Char)]]
  BY <1>1
<1>3. a \in Seq(Char)
  OBVIOUS
<1>4. PICK w \in [0..N -> Seq(Char)] : LoopRun(N, a, G, w)
  <2> HIDE DEF G, a
  <2> QED
    BY <1>0, <1>2, <1>3, UpRecursion
<1>5. SentRec(s, text, w)
  <2>1. \A i \in 0..N : i # 0 => i \in 1..N /\ i - 1 \in 0..N
    BY <1>0
  <2>2. \A i \in 0..N : i # 0 => G[i][w[i-1]] = serial_putc(w[i-1], text[i])
    BY <1>4, <2>1
  <2> HIDE DEF G, a
  <2>3. w = [i \in 0..N |-> IF i = 0 THEN a ELSE serial_putc(w[i-1], text[i])]
    BY <1>4, <2>2 DEF LoopRun
  <2> QED
    BY <1>0, <2>3 DEF SentRec, a
<1>6. SentRec(s, text, c)
  BY <1>5
<1>7. Transmitted(s, text) = c[N]
  BY <1>0 DEF Transmitted, SentRec
<1> HIDE DEF c
<1>8. SentRun(s, text, c)
  <2>1. 0 \in 0..N /\ \A i \in 1..N : i \in 0..N /\ i # 0
    BY <1>0
  <2> QED
    BY <1>0, <1>6, <2>1 DEF SentRec, SentRun
<1> QED
  BY <1>7, <1>8

\* What WithoutReturns() goes through.
KeptRec(text, w) ==
  w = [i \in 0 .. Len(text) |-> IF i = 0 THEN << >> ELSE IF text[i] = "\r" THEN w[i-1] ELSE Append(w[i-1], text[i])]

KeptRun(text, w) ==
  w[0] = << >> /\ \A i \in 1 .. Len(text) : w[i] = IF text[i] = "\r" THEN w[i-1] ELSE Append(w[i-1], text[i])

LEMMA KeptDef ==
  ASSUME NEW text \in Seq(Char)
  PROVE  \E w : KeptRun(text, w) /\ WithoutReturns(text) = w[Len(text)]
<1> DEFINE N == Len(text)
           G == [i \in 1..N |-> [x \in Seq(Char) |-> IF text[i] = "\r" THEN x ELSE Append(x, text[i])]]
           a == << >>
           c == CHOOSE w : KeptRec(text, w)
<1>0. N \in Nat /\ \A i \in 1..N : text[i] \in Char
  OBVIOUS
<1>1. ASSUME NEW i \in 1..N, NEW x \in Seq(Char) PROVE (IF text[i] = "\r" THEN x ELSE Append(x, text[i])) \in Seq(Char)
  BY <1>0
<1>2. G \in [1..N -> [Seq(Char) -> Seq(Char)]]
  BY <1>1
<1>3. a \in Seq(Char)
  OBVIOUS
<1>4. PICK w \in [0..N -> Seq(Char)] : LoopRun(N, a, G, w)
  <2> HIDE DEF G, a
  <2> QED
    BY <1>0, <1>2, <1>3, UpRecursion
<1>5. KeptRec(text, w)
  <2>1. \A i \in 0..N : i # 0 => i \in 1..N /\ i - 1 \in 0..N
    BY <1>0
  <2>2. \A i \in 0..N : i # 0 => G[i][w[i-1]] = IF text[i] = "\r" THEN w[i-1] ELSE Append(w[i-1], text[i])
    BY <1>4, <2>1
  <2> HIDE DEF G, a
  <2>3. w = [i \in 0..N |-> IF i = 0 THEN a ELSE IF text[i] = "\r" THEN w[i-1] ELSE Append(w[i-1], text[i])]
    BY <1>4, <2>2 DEF LoopRun
  <2> QED
    BY <1>0, <2>3 DEF KeptRec, a
<1>6. KeptRec(text, c)
  BY <1>5
<1>7. WithoutReturns(text) = c[N]
  BY <1>0 DEF WithoutReturns, KeptRec
<1> HIDE DEF c
<1>8. KeptRun(text, c)
  <2>1. 0 \in 0..N /\ \A i \in 1..N : i \in 0..N /\ i # 0
    BY <1>0
  <2> QED
    BY <1>0, <1>6, <2>1 DEF KeptRec, KeptRun
<1> QED
  BY <1>7, <1>8

\* One character more.
LEMMA ShownAppend ==
  ASSUME NEW S, NEW f \in S, \A x \in S, d \in Char : fb_putc(x, d) \in S,
         NEW text \in Seq(Char), NEW c \in Char
  PROVE  Shown(f, Append(text, c)) = fb_putc(Shown(f, text), c)
<1> DEFINE N == Len(text)
           more == Append(text, c)
<1>1. more \in Seq(Char) /\ Len(more) = N + 1 /\ N \in Nat /\ more[N + 1] = c /\ \A i \in 1..N : more[i] = text[i]
  OBVIOUS
<1> HIDE DEF N, more
<1>2. PICK w : ShownRun(f, more, w) /\ Shown(f, more) = w[Len(more)]
  BY <1>1, ShownDef
<1>3. PICK v : ShownRun(f, text, v) /\ Shown(f, text) = v[Len(text)]
  BY ShownDef
<1> DEFINE T == {i \in 0..N : w[i] = v[i]}
<1>4. 0 \in T
  BY <1>1, <1>2, <1>3 DEF ShownRun
<1>5. ASSUME NEW i \in 1..N, i - 1 \in T PROVE i \in T
  <2>1. i \in 1 .. Len(more) /\ i \in 1 .. Len(text) /\ i \in 0..N /\ more[i] = text[i] /\ w[i-1] = v[i-1]
    BY <1>1, <1>5 DEF N
  <2>2. w[i] = v[i]
    BY <1>2, <1>3, <2>1 DEF ShownRun
  <2> QED
    BY <2>1, <2>2
<1>6. w[N] = v[N]
  <2> HIDE DEF T
  <2>1. 0..N \subseteq T
    BY <1>1, <1>4, <1>5, UpInduction
  <2>2. N \in T
    BY <1>1, <2>1
  <2> QED
    BY <2>2 DEF T
<1>7. N + 1 \in 1 .. Len(more) /\ (N + 1) - 1 = N
  BY <1>1
<1>8. w[N + 1] = fb_putc(w[N], c)
  BY <1>1, <1>2, <1>7 DEF ShownRun
<1> QED
  BY <1>1, <1>2, <1>3, <1>6, <1>8 DEF N, more

LEMMA KeptAppend ==
  ASSUME NEW text \in Seq(Char), NEW c \in Char
  PROVE  WithoutReturns(Append(text, c)) = IF c = "\r" THEN WithoutReturns(text) ELSE Append(WithoutReturns(text), c)
<1> DEFINE N == Len(text)
           more == Append(text, c)
<1>1. more \in Seq(Char) /\ Len(more) = N + 1 /\ N \in Nat /\ more[N + 1] = c /\ \A i \in 1..N : more[i] = text[i]
  OBVIOUS
<1> HIDE DEF N, more
<1>2. PICK w : KeptRun(more, w) /\ WithoutReturns(more) = w[Len(more)]
  BY <1>1, KeptDef
<1>3. PICK v : KeptRun(text, v) /\ WithoutReturns(text) = v[Len(text)]
  BY KeptDef
<1> DEFINE T == {i \in 0..N : w[i] = v[i]}
<1>4. 0 \in T
  BY <1>1, <1>2, <1>3 DEF KeptRun
<1>5. ASSUME NEW i \in 1..N, i - 1 \in T PROVE i \in T
  <2>1. i \in 1 .. Len(more) /\ i \in 1 .. Len(text) /\ i \in 0..N /\ more[i] = text[i] /\ w[i-1] = v[i-1]
    BY <1>1, <1>5 DEF N
  <2>2. w[i] = v[i]
    BY <1>2, <1>3, <2>1 DEF KeptRun
  <2> QED
    BY <2>1, <2>2
<1>6. w[N] = v[N]
  <2> HIDE DEF T
  <2>1. 0..N \subseteq T
    BY <1>1, <1>4, <1>5, UpInduction
  <2>2. N \in T
    BY <1>1, <2>1
  <2> QED
    BY <2>2 DEF T
<1>7. N + 1 \in 1 .. Len(more) /\ (N + 1) - 1 = N
  BY <1>1
<1>8. w[N + 1] = IF c = "\r" THEN w[N] ELSE Append(w[N], c)
  BY <1>1, <1>2, <1>7 DEF KeptRun
<1> QED
  BY <1>1, <1>2, <1>3, <1>6, <1>8 DEF N, more

-----------------------------------------------------------------------------
(* The serial line s, and the screen f, after the text p.                  *)

SerialOK(s, p) ==
  /\ WithoutReturns(s) = WithoutReturns(p)
  /\ \A i \in 1..Len(s) : s[i] = "\n" => i > 1 /\ s[i-1] = "\r"

LEMMA SerialPutc ==
  ASSUME NEW s \in Seq(Char), NEW p \in Seq(Char), NEW c \in Char, SerialOK(s, p)
  PROVE  serial_putc(s, c) \in Seq(Char) /\ SerialOK(serial_putc(s, c), Append(p, c))
<1>1. "\r" \in Char
  BY DEF Char
<1>2. WithoutReturns(Append(p, c)) = IF c = "\r" THEN WithoutReturns(p) ELSE Append(WithoutReturns(p), c)
  BY KeptAppend
<1>3. WithoutReturns(s) = WithoutReturns(p) /\ \A i \in 1..Len(s) : s[i] = "\n" => i > 1 /\ s[i-1] = "\r"
  BY DEF SerialOK
<1>4. CASE c = "\n"
  <2> DEFINE t == Append(s, "\r")
             u == Append(t, c)
  <2>1. t \in Seq(Char) /\ WithoutReturns(t) = WithoutReturns(s)
    BY <1>1, KeptAppend
  <2>2. u \in Seq(Char) /\ WithoutReturns(u) = Append(WithoutReturns(s), c)
    <3> HIDE DEF t
    <3>1. c # "\r"
      BY <1>4
    <3> QED
      BY <2>1, <3>1, KeptAppend
  <2>3. serial_putc(s, c) = u
    BY <1>1, <1>4 DEF serial_putc
  <2>4. ASSUME NEW i \in 1..Len(u), u[i] = "\n" PROVE i > 1 /\ u[i-1] = "\r"
    <3>1. Len(s) \in Nat /\ Len(u) = Len(s) + 2 /\ u[Len(s) + 1] = "\r" /\ \A j \in 1..Len(s) : u[j] = s[j]
      BY <1>1
    <3> HIDE DEF u
    <3>2. CASE i = Len(s) + 2
      BY <3>1, <3>2
    <3>3. CASE i = Len(s) + 1
      BY <2>4, <3>1, <3>3
    <3>4. CASE i \in 1..Len(s)
      <4>1. s[i] = "\n"
        BY <2>4, <3>1, <3>4
      <4>2. i > 1 /\ s[i-1] = "\r" /\ i - 1 \in 1..Len(s)
        BY <1>3, <3>1, <3>4, <4>1
      <4> QED
        BY <3>1, <4>2
    <3> QED
      BY <3>1, <3>2, <3>3, <3>4
  <2> HIDE DEF u
  <2>5. WithoutReturns(u) = WithoutReturns(Append(p, c))
    BY <1>2, <1>3, <1>4, <2>2
  <2> QED
    BY <2>2, <2>3, <2>4, <2>5 DEF SerialOK
<1>5. CASE c # "\n"
  <2> DEFINE u == Append(s, c)
  <2>1. u \in Seq(Char) /\ WithoutReturns(u) = IF c = "\r" THEN WithoutReturns(s) ELSE Append(WithoutReturns(s), c)
    BY KeptAppend
  <2>3. serial_putc(s, c) = u
    BY <1>5 DEF serial_putc
  <2>4. ASSUME NEW i \in 1..Len(u), u[i] = "\n" PROVE i > 1 /\ u[i-1] = "\r"
    <3>1. Len(s) \in Nat /\ Len(u) = Len(s) + 1 /\ u[Len(s) + 1] = c /\ \A j \in 1..Len(s) : u[j] = s[j]
      OBVIOUS
    <3> HIDE DEF u
    <3>2. i \in 1..Len(s)
      BY <1>5, <2>4, <3>1
    <3>3. s[i] = "\n"
      BY <2>4, <3>1, <3>2
    <3>4. i > 1 /\ s[i-1] = "\r" /\ i - 1 \in 1..Len(s)
      BY <1>3, <3>1, <3>2, <3>3
    <3> QED
      BY <3>1, <3>4
  <2> HIDE DEF u
  <2>5. WithoutReturns(u) = WithoutReturns(Append(p, c))
    BY <1>2, <1>3, <2>1
  <2> QED
    BY <2>1, <2>3, <2>4, <2>5 DEF SerialOK
<1> QED
  BY <1>4, <1>5

BlankScreen(cols, rows, n) ==
  [ready |-> TRUE, cols |-> cols, rows |-> rows, col |-> 0, row |-> 0,
   cells |-> [r \in 0 .. rows - 1 |-> [c \in 0 .. cols - 1 |-> Blank]],
   spoilt |-> FALSE, from |-> n]

LEMMA BlankType ==
  ASSUME NEW cols \in Nat \ {0}, NEW rows \in Nat \ {0}, NEW n \in Nat
  PROVE  BlankScreen(cols, rows, n) \in Screen(cols, rows)
<1> DEFINE cells == [r \in 0 .. rows - 1 |-> [c \in 0 .. cols - 1 |-> Blank]]
<1>1. cells \in [0 .. rows - 1 -> [0 .. cols - 1 -> CellValue]] /\ 0 \in 0 .. rows-1
  BY DEF CellValue
<1> HIDE DEF cells
<1> QED
  BY <1>1 DEF BlankScreen, Screen, ScreenTo, cells

Since(f, p) == SubSeq(p, f.from + 1, Len(p))

\* The endless screen after what was printed since f is there.
EndlessAfter(f, p, n) == Shown(BlankScreen(f.cols, f.rows + MaxPrinted, n), Since(f, p))

Faithful(f, e, p) == e \in Screen(f.cols, f.rows + MaxPrinted) /\ Alike(f, e) /\ e.row <= Len(p) - f.from

ScreenOK(f, p) ==
  \/ f = NoScreen
  \/ \E cols, rows \in Nat \ {0} :
       /\ f \in Screen(cols, rows) /\ f.from <= Len(p)
       /\ f.spoilt \/ \A n \in Nat : Faithful(f, EndlessAfter(f, p, n), p)

LEMMA TailAppend ==
  ASSUME NEW p \in Seq(Char), NEW c \in Char, NEW k \in Nat, k <= Len(p)
  PROVE  /\ SubSeq(p, k + 1, Len(p)) \in Seq(Char)
         /\ SubSeq(Append(p, c), k + 1, Len(p) + 1) = Append(SubSeq(p, k + 1, Len(p)), c)
<1> DEFINE N == Len(p)
           q == Append(p, c)
           t == SubSeq(p, k + 1, N)
           u == SubSeq(q, k + 1, N + 1)
<1>1. N \in Nat /\ q \in Seq(Char) /\ Len(q) = N + 1 /\ q[N + 1] = c /\ \A i \in 1..N : q[i] = p[i] /\ p[i] \in Char
  OBVIOUS
<1>2. t \in Seq(Char) /\ Len(t) = N - k /\ \A i \in 1 .. N-k : t[i] = p[k + i]
  <2>1. \A i \in k+1 .. N : p[i] \in Char
    BY <1>1
  <2> QED
    BY <1>1, <2>1, SubSeqProperties
<1>3. u \in Seq(Char) /\ Len(u) = N + 1 - k /\ \A i \in 1 .. N + 1 - k : u[i] = q[k + i]
  <2> HIDE DEF q
  <2>1. \A i \in k+1 .. N+1 : q[i] \in Char
    BY <1>1
  <2> QED
    BY <1>1, <2>1, SubSeqProperties
<1> HIDE DEF N, q, t, u
<1>4. Append(t, c) \in Seq(Char) /\ Len(Append(t, c)) = N - k + 1 /\ Append(t, c)[N - k + 1] = c
      /\ \A i \in 1 .. N-k : Append(t, c)[i] = t[i]
  BY <1>2
<1>5. ASSUME NEW i \in 1 .. N + 1 - k PROVE u[i] = Append(t, c)[i]
  <2>1. CASE i = N - k + 1
    <3>1. k + i = N + 1
      BY <1>1, <2>1
    <3>2. u[i] = q[k + i] /\ q[N + 1] = c /\ Append(t, c)[N - k + 1] = c
      BY <1>1, <1>3, <1>4
    <3> QED
      BY <2>1, <3>1, <3>2
  <2>2. CASE i # N - k + 1
    <3>1. i \in 1 .. N-k /\ k + i \in 1..N
      BY <1>1, <2>2
    <3>2. u[i] = q[k + i]
      BY <1>3
    <3>3. q[k + i] = p[k + i]
      BY <1>1, <3>1
    <3>4. Append(t, c)[i] = t[i] /\ t[i] = p[k + i]
      BY <1>2, <1>4, <3>1
    <3> QED
      BY <3>2, <3>3, <3>4
  <2> QED
    BY <2>1, <2>2
<1>6. u = Append(t, c)
  <2> DEFINE v == Append(t, c)
  <2>1. v \in Seq(Char) /\ Len(v) = Len(u) /\ \A i \in 1..Len(u) : u[i] = v[i]
    BY <1>1, <1>3, <1>4, <1>5
  <2> HIDE DEF v
  <2>2. u = v
    BY <1>3, <2>1, SeqEqual
  <2> QED
    BY <2>2 DEF v
<1> QED
  BY <1>2, <1>6 DEF t, u, q, N

LEMMA ScreenPutc ==
  ASSUME NEW f, NEW p \in Seq(Char), NEW c \in Char, ScreenOK(f, p), Len(p) + 1 <= MaxPrinted
  PROVE  ScreenOK(fb_putc(f, c), Append(p, c))
<1> DEFINE g == fb_putc(f, c)
           q == Append(p, c)
<1>1. CASE f = NoScreen
  <2>1. g = f
    BY <1>1 DEF fb_putc, NoScreen
  <2> QED
    BY <1>1, <2>1 DEF ScreenOK
<1>2. CASE f # NoScreen
  <2>1. PICK cols \in Nat \ {0}, rows \in Nat \ {0} :
          /\ f \in Screen(cols, rows) /\ f.from <= Len(p)
          /\ f.spoilt \/ \A n \in Nat : Faithful(f, EndlessAfter(f, p, n), p)
    BY <1>2 DEF ScreenOK
  <2>2. g \in Screen(cols, rows) /\ g.from = f.from /\ (f.spoilt => g.spoilt)
    BY <2>1, PutcType
  <2>3. Len(q) = Len(p) + 1 /\ Len(p) \in Nat /\ f.from \in Nat /\ MaxPrinted \in Nat
    BY <2>1, ConsoleAssumption DEF Screen, ScreenTo
  <2>4. f.cols = cols /\ f.rows = rows /\ g.cols = cols /\ g.rows = rows
    BY <2>1, <2>2 DEF Screen, ScreenTo
  <2>5. ASSUME ~ g.spoilt, NEW n \in Nat PROVE Faithful(g, EndlessAfter(g, q, n), q)
    <3> DEFINE high == rows + MaxPrinted
               b == BlankScreen(cols, high, n)
               t == Since(f, p)
               e == Shown(b, t)
    <3>1. high \in Nat \ {0}
      BY <2>3
    <3>2. b \in Screen(cols, high)
      BY <3>1, BlankType
    <3>3. t \in Seq(Char) /\ Since(g, q) = Append(t, c)
      <4>1. Since(g, q) = SubSeq(q, f.from + 1, Len(p) + 1)
        BY <2>2, <2>3 DEF Since
      <4>2. t = SubSeq(p, f.from + 1, Len(p))
        BY DEF Since
      <4> DEFINE k == f.from
      <4>3. k \in Nat /\ k <= Len(p)
        BY <2>1, <2>3
      <4> HIDE DEF k
      <4>4. SubSeq(p, k + 1, Len(p)) \in Seq(Char) /\ SubSeq(q, k + 1, Len(p) + 1) = Append(SubSeq(p, k + 1, Len(p)), c)
        BY <4>3, TailAppend, Zenon
      <4> QED
        BY <4>1, <4>2, <4>4 DEF k
    <3>4. e = EndlessAfter(f, p, n)
      BY <2>4 DEF EndlessAfter
    <3>5. EndlessAfter(g, q, n) = Shown(b, Append(t, c))
      BY <2>4, <3>3 DEF EndlessAfter
    <3> HIDE DEF t, b, e, g, q, high
    <3>6. \A x \in Screen(cols, high), d \in Char : fb_putc(x, d) \in Screen(cols, high)
      BY <3>1, PutcType
    <3>7. Shown(b, Append(t, c)) = fb_putc(e, c)
      BY <3>2, <3>3, <3>6, ShownAppend DEF e
    <3>8. e \in Screen(cols, high) /\ Alike(f, e) /\ e.row <= Len(p) - f.from
      BY <2>1, <2>2, <2>4, <2>5, <3>4 DEF Faithful, high
    <3>9. e.row \in Nat /\ e.row + 1 + rows <= high
      <4>1. e.row \in Nat
        BY <3>8 DEF Screen, ScreenTo
      <4> QED
        BY <2>3, <3>8, <4>1 DEF high
    <3>10. Alike(g, fb_putc(e, c)) /\ fb_putc(e, c).row <= e.row + 1
      BY <2>1, <2>5, <3>1, <3>8, <3>9, PutcAlike DEF g
    <3>11. fb_putc(e, c) \in Screen(cols, high) /\ fb_putc(e, c).row \in Nat
      <4>1. fb_putc(e, c) \in Screen(cols, high)
        BY <3>6, <3>8
      <4> DEFINE x == fb_putc(e, c)
      <4>2. x \in Screen(cols, high)
        BY <4>1
      <4> HIDE DEF x
      <4>3. x.row \in Nat
        BY <3>1, <4>2 DEF Screen, ScreenTo
      <4> QED
        BY <4>2, <4>3 DEF x
    <3>12. fb_putc(e, c).row <= Len(q) - g.from
      BY <2>2, <2>3, <3>8, <3>9, <3>10, <3>11
    <3> QED
      BY <2>4, <3>5, <3>7, <3>10, <3>11, <3>12 DEF Faithful, high
  <2>6. g.from <= Len(q)
    BY <2>1, <2>2, <2>3
  <2> HIDE DEF g, q
  <2>7. ScreenOK(g, q)
    BY <2>2, <2>5, <2>6 DEF ScreenOK
  <2> QED
    BY <2>7 DEF g, q
<1> QED
  BY <1>1, <1>2

-----------------------------------------------------------------------------
(* Numbers.                                                                *)

LEMMA BasePowers ==
  ASSUME NEW b \in {2, 10, 16}, NEW k \in 0..IntBits
  PROVE  b^k \in Nat \ {0} /\ 2^k <= b^k
<1> DEFINE P(j) == b^j \in Nat \ {0} /\ 2^j \in Nat \ {0} /\ 2^j <= b^j
           T == {j \in 0..IntBits : P(j)}
<1>0. /\ IntBits \in Nat /\ b \in Nat /\ b >= 2
      /\ b^0 = 1 /\ 2^0 = 1
      /\ \A j \in 1..IntBits : b^j = b^(j-1) * b /\ 2^j = 2^(j-1) * 2
  <2>1. IntBits \in Nat /\ b \in Nat /\ b >= 2 /\ 2 \in {2, 10, 16}
    BY ConsoleAssumption
  <2>2. \A a \in {2, 10, 16} : a^0 = 1 /\ \A j \in 1..IntBits : a^j = a^(j-1) * a
    BY ConsoleAssumption
  <2>3. b^0 = 1 /\ \A j \in 1..IntBits : b^j = b^(j-1) * b
    BY <2>2
  <2>4. 2^0 = 1 /\ \A j \in 1..IntBits : 2^j = 2^(j-1) * 2
    BY <2>1, <2>2
  <2> QED
    BY <2>1, <2>3, <2>4
<1>1. 0 \in T
  BY <1>0
<1>2. ASSUME NEW j \in 1..IntBits, j - 1 \in T PROVE j \in T
  <2> DEFINE x == b^(j-1)
             y == 2^(j-1)
  <2>1. x \in Nat \ {0} /\ y \in Nat \ {0} /\ y <= x /\ b^j = x * b /\ 2^j = y * 2 /\ j \in 0..IntBits
    BY <1>0, <1>2
  <2> HIDE DEF x, y
  <2>2. x * b \in Nat \ {0} /\ y * 2 \in Nat \ {0} /\ y * 2 <= x * b
    BY <1>0, <2>1
  <2> QED
    BY <2>1, <2>2
<1>3. 0..IntBits \subseteq T
  <2> HIDE DEF T
  <2> QED
    BY <1>0, <1>1, <1>2, UpInduction
<1> QED
  BY <1>3

LEMMA SmallDiv ==
  ASSUME NEW n \in Nat \ {0}, NEW a \in Nat
  PROVE  (a < n <=> a \div n = 0) /\ a \div 1 = a
OBVIOUS

Lower == <<"0", "1", "2", "3", "4", "5", "6", "7", "8", "9", "a", "b", "c", "d", "e", "f">>
Upper == <<"0", "1", "2", "3", "4", "5", "6", "7", "8", "9", "A", "B", "C", "D", "E", "F">>

LEMMA DigitsOf ==
  ASSUME NEW d \in 0..15
  PROVE  Digit(d, FALSE) = Lower[d + 1] /\ Digit(d, TRUE) = Upper[d + 1]
BY DEF Digit, Digits, Lower, Upper

LEMMA AllDiffer ==
  ASSUME NEW i \in 1..16, NEW j \in 1..16
  PROVE  (Lower[i] = Lower[j] => i = j) /\ (Upper[i] = Upper[j] => i = j)
BY DEF Lower, Upper

LEMMA DigitsDiffer ==
  ASSUME NEW d \in 0..15, NEW e \in 0..15, NEW up \in BOOLEAN, Digit(d, up) = Digit(e, up)
  PROVE  d = e
<1>0. d + 1 \in 1..16 /\ e + 1 \in 1..16
  OBVIOUS
<1>1. CASE up = FALSE
  <2>1. Digit(d, FALSE) = Digit(e, FALSE)
    BY <1>1
  <2>2. Lower[d + 1] = Lower[e + 1]
    <3>1. Digit(d, FALSE) = Lower[d + 1]
      BY DigitsOf
    <3>2. Digit(e, FALSE) = Lower[e + 1]
      BY DigitsOf
    <3> QED
      BY <2>1, <3>1, <3>2
  <2>3. d + 1 = e + 1
    BY <1>0, <2>2, AllDiffer
  <2> QED
    BY <2>3
<1>2. CASE up = TRUE
  <2>1. Digit(d, TRUE) = Digit(e, TRUE)
    BY <1>2
  <2>2. Upper[d + 1] = Upper[e + 1]
    <3>1. Digit(d, TRUE) = Upper[d + 1]
      BY DigitsOf
    <3>2. Digit(e, TRUE) = Upper[e + 1]
      BY DigitsOf
    <3> QED
      BY <2>1, <3>1, <3>2
  <2>3. d + 1 = e + 1
    BY <1>0, <2>2, AllDiffer
  <2> QED
    BY <2>3
<1> QED
  BY <1>1, <1>2

\* The loop of print_uint() ends, within the buffer.
LEMMA CountedDigits ==
  ASSUME NEW b \in {10, 16}, NEW val \in Nat \ {0}, val < 2^IntBits, NEW n, n = DigitCount(val, b)
  PROVE  n \in 1..IntBits /\ val \div b^n = 0 /\ val \div b^(n-1) # 0
<1> DEFINE T == {k \in 0..IntBits : val \div b^k = 0}
<1>0. IntBits \in Nat /\ b^0 = 1
  BY ConsoleAssumption
<1>1. IntBits \in T
  <2>1. IntBits \in 0..IntBits /\ b \in {2, 10, 16}
    BY <1>0
  <2>2. b^IntBits \in Nat \ {0} /\ 2^IntBits <= b^IntBits /\ 2^IntBits \in Nat
    BY <2>1, BasePowers
  <2>3. val < b^IntBits
    BY <2>2
  <2> QED
    BY <2>1, <2>2, <2>3, SmallDiv
<1>2. T \in SUBSET Nat /\ T # {}
  BY <1>0, <1>1
<1> HIDE DEF T
<1>3. PICK m \in T : \A k \in T : m <= k
  BY <1>2, LeastNatural
<1>4. m \in 0..IntBits /\ val \div b^m = 0
  BY <1>3 DEF T
<1>5. m # 0
  BY <1>0, <1>4, SmallDiv
<1>6. m \in 1..IntBits /\ m - 1 \in 0..IntBits /\ m - 1 \notin T
  BY <1>0, <1>3, <1>4, <1>5
<1>7. val \div b^(m-1) # 0
  BY <1>6 DEF T
<1>8. \E k \in 1..IntBits : val \div b^k = 0 /\ val \div b^(k-1) # 0
  BY <1>4, <1>6, <1>7
<1> QED
  BY <1>8 DEF DigitCount

\* What ValueOf() goes through.
ValueRec(text, base, up, w) ==
  w = [i \in 0 .. Len(text) |->
         IF i = 0 THEN 0 ELSE w[i-1] * base + (CHOOSE d \in 0..15 : Digit(d, up) = text[i])]

ValueRun(text, base, up, w) ==
  /\ w[0] = 0
  /\ \A i \in 1 .. Len(text) : w[i] = w[i-1] * base + (CHOOSE d \in 0..15 : Digit(d, up) = text[i])

LEMMA ValueDef ==
  ASSUME NEW text \in Seq(Figures), NEW up \in BOOLEAN, NEW base \in Nat,
         \A i \in 1 .. Len(text) : \E d \in 0..15 : Digit(d, up) = text[i]
  PROVE  \E w : ValueRun(text, base, up, w) /\ ValueOf(text, base, up) = w[Len(text)]
<1> DEFINE N == Len(text)
           D(i) == CHOOSE d \in 0..15 : Digit(d, up) = text[i]
           G == [i \in 1..N |-> [x \in Nat |-> x * base + D(i)]]
           c == CHOOSE w : ValueRec(text, base, up, w)
<1>0. N \in Nat
  OBVIOUS
<1>1. ASSUME NEW i \in 1..N PROVE D(i) \in Nat
  <2>1. \E d \in 0..15 : Digit(d, up) = text[i]
    OBVIOUS
  <2>2. D(i) \in 0..15
    BY <2>1
  <2> QED
    BY <2>2
<1> HIDE DEF D
<1>2. G \in [1..N -> [Nat -> Nat]]
  BY <1>1
<1>4. PICK w \in [0..N -> Nat] : LoopRun(N, 0, G, w)
  <2> HIDE DEF G
  <2> QED
    BY <1>0, <1>2, UpRecursion
<1>5. ValueRec(text, base, up, w)
  <2>1. \A i \in 0..N : i # 0 => i \in 1..N /\ i - 1 \in 0..N
    BY <1>0
  <2>2. \A i \in 0..N : i # 0 => G[i][w[i-1]] = w[i-1] * base + D(i)
    BY <1>4, <2>1
  <2> HIDE DEF G
  <2>3. w = [i \in 0..N |-> IF i = 0 THEN 0 ELSE w[i-1] * base + D(i)]
    BY <1>4, <2>2 DEF LoopRun
  <2> QED
    BY <1>0, <2>3 DEF ValueRec, D
<1>6. ValueRec(text, base, up, c)
  BY <1>5
<1>7. ValueOf(text, base, up) = c[N]
  BY <1>0 DEF ValueOf, ValueRec
<1> HIDE DEF c
<1>8. ValueRun(text, base, up, c)
  <2>1. 0 \in 0..N /\ \A i \in 1..N : i \in 0..N /\ i # 0
    BY <1>0
  <2> QED
    BY <1>0, <1>6, <2>1 DEF ValueRec, ValueRun
<1> QED
  BY <1>7, <1>8

\* A number as a text.
Numeral(text, val, base, up) ==
  /\ text \in Seq(Figures) /\ Len(text) \in Nat \ {0}
  /\ ValueOf(text, base, up) = val
  /\ text[1] = "0" => Len(text) = 1
  /\ text[1] # "-"

LEMMA PrintedReadsBack ==
  ASSUME NEW b \in {10, 16}, NEW val \in Nat, val < 2^IntBits, NEW up \in BOOLEAN
  PROVE  Numeral(print_uint(val, b, up), val, b, up)
<1> DEFINE text == print_uint(val, b, up)
<1>0. b \in Nat \ {0} /\ b <= 16 /\ b \in {2, 10, 16}
  OBVIOUS
<1>1. \A d \in 0..15 : Digit(d, up) \in Figures /\ Digit(d, up) # "-" /\ (Digit(d, up) = "0" <=> d = 0)
  <2> SUFFICES ASSUME NEW d \in 0..15
               PROVE  Digit(d, up) \in Figures /\ Digit(d, up) # "-" /\ (Digit(d, up) = "0" <=> d = 0)
    OBVIOUS
  <2>1. Digit(d, up) \in Figures
    BY DEF Figures
  <2>2. Digit(0, up) = "0"
    BY DEF Digit, Digits
  <2>3. Digit(d, up) = "0" <=> d = 0
    BY <2>2, DigitsDiffer
  <2>4. Digit(d, up) # "-"
    <3>1. d + 1 \in 1..16 /\ \A i \in 1..16 : Lower[i] # "-" /\ Upper[i] # "-"
      BY DEF Lower, Upper
    <3>2. Digit(d, FALSE) # "-" /\ Digit(d, TRUE) # "-"
      BY <3>1, DigitsOf
    <3>3. up = TRUE \/ up = FALSE
      OBVIOUS
    <3> QED
      BY <3>2, <3>3
  <2> QED
    BY <2>1, <2>3, <2>4
<1>2. ASSUME NEW d \in 0..15 PROVE (CHOOSE e \in 0..15 : Digit(e, up) = Digit(d, up)) = d
  <2> DEFINE e == CHOOSE x \in 0..15 : Digit(x, up) = Digit(d, up)
  <2>1. e \in 0..15 /\ Digit(e, up) = Digit(d, up)
    OBVIOUS
  <2> HIDE DEF e
  <2>2. e = d
    BY <2>1, DigitsDiffer
  <2> QED
    BY <2>2 DEF e
<1>3. CASE val = 0
  <2>1. text = <<"0">>
    BY <1>3 DEF print_uint
  <2>2. Digit(0, up) = "0" /\ 0 \in 0..15
    BY DEF Digit, Digits
  <2>3. "0" \in Figures
    BY <1>1, <2>2
  <2> HIDE DEF text
  <2>4. text \in Seq(Figures) /\ Len(text) = 1 /\ text[1] = "0"
    BY <2>1, <2>3
  <2>5. \A i \in 1 .. Len(text) : \E d \in 0..15 : Digit(d, up) = text[i]
    BY <2>2, <2>4
  <2>6. PICK w : ValueRun(text, b, up, w) /\ ValueOf(text, b, up) = w[Len(text)]
    BY <1>0, <2>4, <2>5, ValueDef
  <2>7. (CHOOSE d \in 0..15 : Digit(d, up) = text[1]) = 0
    BY <1>2, <2>2, <2>4
  <2>8. w[1] = 0
    <3>1. 1 \in 1 .. Len(text) /\ 1 - 1 = 0
      BY <2>4
    <3>2. w[0] = 0 /\ w[1] = w[1-1] * b + (CHOOSE d \in 0..15 : Digit(d, up) = text[1])
      BY <2>6, <3>1 DEF ValueRun
    <3>3. w[1] = w[0] * b + 0
      BY <2>7, <3>1, <3>2
    <3> QED
      BY <1>0, <3>2, <3>3
  <2>9. Numeral(text, val, b, up)
    BY <1>3, <2>4, <2>6, <2>8 DEF Numeral
  <2> QED
    BY <2>9 DEF text
<1>4. CASE val # 0
  <2> DEFINE n == DigitCount(val, b)
             q(k) == val \div b^k
             D(i) == q(n - i) % b
  <2>1. n \in 1..IntBits /\ val \div b^n = 0 /\ val \div b^(n-1) # 0
    BY <1>4, CountedDigits
  <2>2. text = [i \in 1..n |-> Digit(D(i), up)]
    BY <1>4 DEF print_uint
  <2>3. IntBits \in Nat /\ n \in Nat \ {0}
    BY <2>1, ConsoleAssumption
  <2> HIDE DEF n, text
  <2>4. ASSUME NEW k \in 0..IntBits PROVE b^k \in Nat \ {0} /\ q(k) \in Nat
    <3>1. b^k \in Nat \ {0}
      BY <1>0, BasePowers
    <3> QED
      BY <3>1, DivMod
  <2>5. ASSUME NEW k \in 1..IntBits PROVE q(k) = q(k-1) \div b
    <3>1. k - 1 \in 0..IntBits
      BY <2>3
    <3>2. b^(k-1) \in Nat \ {0}
      BY <2>4, <3>1
    <3>3. b^k = b^(k-1) * b
      BY <1>0, ConsoleAssumption
    <3>4. (val \div b^(k-1)) \div b = val \div (b^(k-1) * b)
      BY <1>0, <3>2, NestedDiv
    <3> QED
      BY <3>3, <3>4
  <2>6. q(n) = 0 /\ q(n-1) # 0 /\ q(0) = val
    <3>1. b^0 = 1
      BY <1>0, ConsoleAssumption
    <3> QED
      BY <2>1, <3>1, SmallDiv
  <2> HIDE DEF q
  <2>7. ASSUME NEW i \in 1..n PROVE n - i \in 0..IntBits /\ D(i) \in 0 .. b-1 /\ D(i) \in 0..15 /\ q(n-i) = q(n-i+1) * b + D(i)
    <3>1. n - i \in 0..IntBits /\ n - i + 1 \in 1..IntBits /\ (n - i + 1) - 1 = n - i
      BY <2>1, <2>3
    <3>2. q(n-i) \in Nat
      BY <2>4, <3>1
    <3>3. D(i) \in 0 .. b-1 /\ q(n-i) = (q(n-i) \div b) * b + D(i)
      BY <1>0, <3>2, DivMod
    <3>4. q(n-i+1) = q(n-i) \div b
      BY <2>5, <3>1
    <3>5. D(i) \in 0..15
      BY <1>0, <3>3
    <3> QED
      BY <3>1, <3>3, <3>4, <3>5
  <2> HIDE DEF D
  <2>8. text \in Seq(Figures) /\ Len(text) = n /\ \A i \in 1..n : text[i] = Digit(D(i), up)
    <3>1. \A i \in 1..n : Digit(D(i), up) \in Figures
      BY <1>1, <2>7
    <3> QED
      BY <2>2, <2>3, <3>1
  <2>9. \A i \in 1 .. Len(text) : \E d \in 0..15 : Digit(d, up) = text[i]
    BY <2>7, <2>8
  <2>10. PICK w : ValueRun(text, b, up, w) /\ ValueOf(text, b, up) = w[Len(text)]
    BY <1>0, <2>8, <2>9, ValueDef
  <2> DEFINE T == {i \in 0..n : w[i] = q(n - i)}
  <2>11. 0 \in T
    BY <2>3, <2>6, <2>10 DEF ValueRun
  <2>12. ASSUME NEW i \in 1..n, i - 1 \in T PROVE i \in T
    <3>1. (CHOOSE d \in 0..15 : Digit(d, up) = text[i]) = D(i)
      <4>1. text[i] = Digit(D(i), up) /\ D(i) \in 0..15
        BY <2>7, <2>8
      <4> QED
        BY <1>2, <4>1
    <3>2. w[i] = w[i-1] * b + D(i)
      BY <2>8, <2>10, <3>1 DEF ValueRun
    <3>3. w[i-1] = q(n - i + 1)
      <4>1. n - (i - 1) = n - i + 1
        BY <2>3
      <4> QED
        BY <2>12, <4>1
    <3>4. w[i] = q(n - i)
      BY <2>7, <3>2, <3>3
    <3> QED
      BY <2>3, <3>4
  <2>13. w[n] = val
    <3> HIDE DEF T
    <3>1. 0..n \subseteq T
      BY <2>3, <2>11, <2>12, UpInduction
    <3>2. n \in T /\ n - n = 0
      BY <2>3, <3>1
    <3>3. w[n] = q(n - n)
      BY <3>2 DEF T
    <3> QED
      BY <2>6, <3>2, <3>3
  <2>14. text[1] # "0" /\ text[1] # "-"
    <3>1. 1 \in 1..n /\ n - 1 \in 0..IntBits /\ n - 1 + 1 = n
      BY <2>1, <2>3
    <3>2. q(n-1) = q(n-1+1) * b + D(1) /\ D(1) \in 0..15
      BY <2>7, <3>1
    <3>3. D(1) # 0
      BY <1>0, <2>6, <3>1, <3>2
    <3> QED
      BY <1>1, <2>8, <3>1, <3>2, <3>3
  <2> QED
    BY <2>3, <2>8, <2>10, <2>13, <2>14 DEF Numeral, text
<1> QED
  BY <1>3, <1>4

\* What kernel code passes to a conversion.
Passed(conv, arg) ==
  /\ conv \in STRING \cup {"lx", "u"}
  /\ conv \in Signed => arg \in -(2^(IntBits - 1)) .. 2^(IntBits - 1) - 1
  /\ conv \in {"u", "lu", "x", "lx", "X", "p"} => arg \in Int
  /\ conv \in {"c", "s"} => arg \in STRING

LEMMA Negated ==
  ASSUME NEW h \in Nat \ {0}, NEW x \in Nat, x <= h PROVE x % (2 * h) = x
<1>1. 2 * h \in Nat \ {0} /\ x < 2 * h
  OBVIOUS
<1> DEFINE m == 2 * h
<1>2. m \in Nat \ {0} /\ x < m
  BY <1>1
<1> HIDE DEF m
<1>3. x % m = x
  BY <1>2
<1> QED
  BY <1>3 DEF m

\* The number that t shows, as NumbersReadBack reads it.
Negative(conv, t) == conv \in Signed /\ t[1] = "-"
Figured(conv, t) == IF Negative(conv, t) THEN Tail(t) ELSE IF conv = "p" THEN SubSeq(t, 3, Len(t)) ELSE t

LEMMA SignedReadsBack ==
  ASSUME NEW conv \in Signed, NEW arg, Passed(conv, arg), NEW t, t = kvprintf(conv, arg)
  PROVE  LET num == Figured(conv, t)
             v   == ValueOf(num, 10, FALSE)
         IN  /\ t \in Seq(Char)
             /\ arg = IF Negative(conv, t) THEN -v ELSE v
             /\ num[1] = "0" => Len(num) = 1
<1> DEFINE h == 2^(IntBits - 1)
           M == 2^IntBits
<1>0. h \in Nat \ {0} /\ M = 2 * h /\ M \in Nat \ {0}
  <2>1. IntBits \in Nat \ {0} /\ IntBits - 1 \in 0..IntBits /\ IntBits \in 1..IntBits /\ 2 \in {2, 10, 16}
    BY ConsoleAssumption
  <2>2. 2^(IntBits - 1) \in Nat \ {0}
    BY <2>1, BasePowers
  <2>3. 2^IntBits = 2^(IntBits - 1) * 2
    BY <2>1, ConsoleAssumption
  <2> QED
    BY <2>2, <2>3
<1>1. arg \in -h .. h-1
  BY DEF Passed
<1>2. t = IF arg < 0 THEN <<"-">> \o print_uint((-arg) % M, 10, FALSE) ELSE print_uint(arg, 10, FALSE)
  BY DEF kvprintf, print_int, Signed
<1> HIDE DEF h, M
<1>3. arg \in Int /\ arg < M /\ -arg <= h
  BY <1>0, <1>1
<1>4. Figures \subseteq Char /\ "-" \in Char
  BY DEF Char
<1>5. CASE arg >= 0
  <2>1. arg \in Nat /\ ~ (arg < 0)
    BY <1>3, <1>5
  <2>2. t = print_uint(arg, 10, FALSE)
    BY <1>2, <2>1
  <2>3. Numeral(t, arg, 10, FALSE)
    BY <1>3, <2>1, <2>2, PrintedReadsBack DEF M
  <2>4. t[1] # "-" /\ t \in Seq(Figures)
    BY <2>3 DEF Numeral
  <2>5. ~ Negative(conv, t) /\ Figured(conv, t) = t
    BY <2>4 DEF Negative, Figured, Signed
  <2>6. t \in Seq(Char)
    BY <1>4, <2>4
  <2> QED
    BY <2>3, <2>5, <2>6 DEF Numeral
<1>6. CASE arg < 0
  <2> DEFINE a == -arg
             s == print_uint(a, 10, FALSE)
  <2>1. a \in Nat /\ a <= h /\ arg = -a
    BY <1>3, <1>6
  <2> HIDE DEF a
  <2>2. a % M = a /\ a < M
    BY <1>0, <2>1, Negated
  <2>3. t = <<"-">> \o s
    BY <1>2, <1>6, <2>2 DEF a
  <2>4. Numeral(s, a, 10, FALSE)
    BY <2>1, <2>2, PrintedReadsBack DEF M
  <2> HIDE DEF s
  <2>5. s \in Seq(Figures) /\ s \in Seq(Char)
    BY <1>4, <2>4 DEF Numeral
  <2>6. t \in Seq(Char) /\ t[1] = "-" /\ Tail(t) = s
    BY <1>4, <2>3, <2>5
  <2>7. Negative(conv, t) /\ Figured(conv, t) = s
    BY <2>6 DEF Negative, Figured, Signed
  <2> QED
    BY <2>1, <2>4, <2>6, <2>7 DEF Numeral
<1>7. arg >= 0 \/ arg < 0
  BY <1>3
<1> QED
  BY <1>5, <1>6, <1>7

LEMMA UnsignedReadsBack ==
  ASSUME NEW conv \in {"u", "lu", "x", "X", "lx", "p"}, NEW arg, Passed(conv, arg), NEW t, t = kvprintf(conv, arg),
         NEW base, base = (IF conv \in {"u", "lu"} THEN 10 ELSE 16)
  PROVE  /\ t \in Seq(Char) /\ ~ Negative(conv, t)
         /\ Numeral(Figured(conv, t), arg % 2^IntBits, base, conv = "X")
<1> DEFINE M == 2^IntBits
           val == arg % M
           up == conv = "X"
           s == print_uint(val, base, up)
<1>0. M \in Nat \ {0}
  <2>1. IntBits \in 0..IntBits /\ 2 \in {2, 10, 16}
    BY ConsoleAssumption
  <2> QED
    BY <2>1, BasePowers
<1>1. arg \in Int /\ base \in {10, 16} /\ up \in BOOLEAN
  BY DEF Passed
<1>2. t = IF conv = "p" THEN <<"0", "x">> \o s ELSE s
  <2>1. CASE conv \in {"u", "lu", "x", "lx", "p"}
    <3>1. up = FALSE
      BY <2>1
    <3> QED
      BY <2>1, <3>1 DEF kvprintf, Signed
  <2>2. CASE conv = "X"
    <3>1. up = TRUE
      BY <2>2
    <3> QED
      BY <2>2, <3>1 DEF kvprintf, Signed
  <2> QED
    BY <2>1, <2>2
<1>3. val \in Nat /\ val < M
  <2> HIDE DEF M
  <2>1. val \in 0 .. M-1
    BY <1>0, <1>1, IntDivMod
  <2> QED
    BY <1>0, <2>1
<1>4. Numeral(s, val, base, up)
  <2> HIDE DEF val, up
  <2> QED
    BY <1>1, <1>3, PrintedReadsBack
<1>5. Figures \subseteq Char /\ "0" \in Char /\ "x" \in Char
  BY DEF Char
<1>6. ~ Negative(conv, t)
  BY DEF Negative, Signed
<1> HIDE DEF s, val, up, M
<1>7. s \in Seq(Char)
  BY <1>4, <1>5 DEF Numeral
<1>8. t \in Seq(Char) /\ Figured(conv, t) = s
  <2>1. CASE conv = "p"
    <3>1. t = <<"0", "x">> \o s
      BY <1>2, <2>1
    <3>2. t \in Seq(Char) /\ Len(t) = Len(s) + 2 /\ Len(s) \in Nat /\ \A i \in 1..Len(s) : t[2 + i] = s[i]
      BY <1>5, <1>7, <3>1
    <3>3. SubSeq(t, 3, Len(t)) \in Seq(Char) /\ Len(SubSeq(t, 3, Len(t))) = Len(s)
          /\ \A i \in 1..Len(s) : SubSeq(t, 3, Len(t))[i] = t[2 + i]
      <4>1. 3 \in Int /\ Len(t) \in Int /\ \A i \in 3..Len(t) : t[i] \in Char
        BY <3>2
      <4>2. /\ SubSeq(t, 3, Len(t)) \in Seq(Char)
            /\ Len(SubSeq(t, 3, Len(t))) = IF 3 <= Len(t) THEN Len(t) - 3 + 1 ELSE 0
            /\ \A i \in 1 .. Len(t) - 3 + 1 : SubSeq(t, 3, Len(t))[i] = t[3 + i - 1]
        BY <4>1, SubSeqProperties
      <4>3. Len(t) - 3 + 1 = Len(s) /\ (3 <= Len(t) \/ Len(s) = 0) /\ \A i \in 1..Len(s) : 3 + i - 1 = 2 + i
        BY <3>2
      <4> QED
        BY <4>2, <4>3
    <3>4. SubSeq(t, 3, Len(t)) = s
      <4> DEFINE u == SubSeq(t, 3, Len(t))
      <4>1. u \in Seq(Char) /\ Len(u) = Len(s) /\ \A i \in 1..Len(u) : u[i] = s[i]
        BY <3>2, <3>3
      <4> HIDE DEF u
      <4>2. u = s
        BY <1>7, <4>1, SeqEqual
      <4> QED
        BY <4>2 DEF u
    <3> QED
      BY <1>6, <2>1, <3>2, <3>4 DEF Figured
  <2>2. CASE conv # "p"
    BY <1>2, <1>6, <1>7, <2>2 DEF Figured
  <2> QED
    BY <2>1, <2>2
<1> QED
  BY <1>4, <1>6, <1>8 DEF val, up, M

LEMMA ConversionType ==
  ASSUME NEW conv, NEW arg, Passed(conv, arg)
  PROVE  kvprintf(conv, arg) \in Seq(Char)
<1>1. CASE conv \in Signed
  BY <1>1, SignedReadsBack
<1>2. CASE conv \in {"u", "lu", "x", "X", "lx", "p"}
  BY <1>2, UnsignedReadsBack
<1>3. CASE conv \notin Signed \cup {"u", "lu", "x", "X", "lx", "p"}
  <2>1. conv \in Char /\ "%" \in Char /\ "(null)" \in Char /\ (conv \in {"c", "s"} => arg \in Char)
    BY <1>3 DEF Char, Passed
  <2>2. CASE conv \in {"c", "s"}
    <3>1. kvprintf(conv, arg) = <<arg>>
      BY <2>2 DEF kvprintf, Signed
    <3> QED
      BY <2>1, <2>2, <3>1
  <2>3. CASE conv \notin {"c", "s"}
    <3>1. kvprintf(conv, arg) \in {<<"(null)">>, << >>, <<"%">>, <<"%", conv>>}
      BY <1>3, <2>3 DEF kvprintf, Signed
    <3>2. <<"(null)">> \in Seq(Char) /\ << >> \in Seq(Char) /\ <<"%">> \in Seq(Char) /\ <<"%", conv>> \in Seq(Char)
      BY <2>1
    <3> QED
      BY <3>1, <3>2
  <2> QED
    BY <2>2, <2>3
<1> QED
  BY <1>1, <1>2, <1>3

LEMMA NumbersNow ==
  ASSUME NEW conv, NEW arg, Passed(conv, arg),
         last' = [conv |-> conv, arg |-> arg, text |-> kvprintf(conv, arg)]
  PROVE  NumbersReadBack'
<1> DEFINE t == kvprintf(conv, arg)
           num == Figured(conv, t)
<1>0. last'.conv = conv /\ last'.arg = arg /\ last'.text = t
  OBVIOUS
<1>1. t = kvprintf(conv, arg)
  OBVIOUS
<1> HIDE DEF t
<1>2. CASE conv \in Signed
  <2>1. /\ arg = IF Negative(conv, t) THEN -ValueOf(num, 10, FALSE) ELSE ValueOf(num, 10, FALSE)
        /\ num[1] = "0" => Len(num) = 1
    BY <1>1, <1>2, SignedReadsBack
  <2>2. (last'.conv = "X") = FALSE
    BY <1>0, <1>2 DEF Signed
  <2> QED
    BY <1>0, <1>2, <2>1, <2>2 DEF NumbersReadBack, Negative, Figured
<1>3. CASE conv \in {"u", "lu", "x", "X", "lx", "p"}
  <2> DEFINE base == IF conv \in {"u", "lu"} THEN 10 ELSE 16
  <2>1. ~ Negative(conv, t) /\ Numeral(num, arg % 2^IntBits, base, conv = "X")
    BY <1>1, <1>3, UnsignedReadsBack
  <2>2. ValueOf(num, base, conv = "X") = arg % 2^IntBits /\ (num[1] = "0" => Len(num) = 1)
    BY <2>1 DEF Numeral
  <2> QED
    BY <1>0, <1>3, <2>1, <2>2 DEF NumbersReadBack, Negative, Figured, Signed
<1>4. CASE conv \notin Signed \cup {"u", "lu", "x", "X", "lx", "p"}
  BY <1>0, <1>4 DEF NumbersReadBack, Signed
<1> QED
  BY <1>2, <1>3, <1>4

-----------------------------------------------------------------------------
(* The console after any number of messages.                               *)

ConsoleOK(f, s, p) == s \in Seq(Char) /\ p \in Seq(Char) /\ SerialOK(s, p) /\ ScreenOK(f, p)

LEMMA ShownRuns ==
  ASSUME NEW f, NEW p, ScreenOK(f, p), NEW text \in Seq(Char)
  PROVE  \E w : ShownRun(f, text, w) /\ Shown(f, text) = w[Len(text)]
<1>1. CASE f = NoScreen
  <2>1. \A x \in {f}, c \in Char : fb_putc(x, c) \in {f}
    BY <1>1 DEF fb_putc, NoScreen
  <2>2. f \in {f}
    OBVIOUS
  <2> QED
    BY <2>1, <2>2, ShownDef
<1>2. CASE f # NoScreen
  <2>1. PICK cols \in Nat \ {0}, rows \in Nat \ {0} : f \in Screen(cols, rows)
    BY <1>2 DEF ScreenOK
  <2>2. \A x \in Screen(cols, rows), c \in Char : fb_putc(x, c) \in Screen(cols, rows)
    BY PutcType
  <2> QED
    BY <2>1, <2>2, ShownDef
<1> QED
  BY <1>1, <1>2

LEMMA ConcatAppend ==
  ASSUME NEW S, NEW p \in Seq(S), NEW a \in Seq(S), NEW c \in S
  PROVE  p \o Append(a, c) = Append(p \o a, c) /\ p \o a \in Seq(S) /\ Len(p \o a) = Len(p) + Len(a)
<1> DEFINE ac == Append(a, c)
           u == p \o ac
           pa == p \o a
           v == Append(pa, c)
<1>1. Len(p) \in Nat /\ Len(a) \in Nat /\ ac \in Seq(S) /\ Len(ac) = Len(a) + 1 /\ ac[Len(a) + 1] = c
      /\ \A i \in 1..Len(a) : ac[i] = a[i]
  OBVIOUS
<1> HIDE DEF ac
<1>2. u \in Seq(S) /\ Len(u) = Len(p) + Len(a) + 1
      /\ \A i \in 1..Len(u) : u[i] = IF i <= Len(p) THEN p[i] ELSE ac[i - Len(p)]
  <2>1. u \in Seq(S) /\ Len(u) = Len(p) + Len(ac)
        /\ \A i \in 1 .. Len(p) + Len(ac) : u[i] = IF i <= Len(p) THEN p[i] ELSE ac[i - Len(p)]
    BY <1>1, ConcatProperties
  <2> QED
    BY <1>1, <2>1
<1>3. pa \in Seq(S) /\ Len(pa) = Len(p) + Len(a)
      /\ \A i \in 1..Len(pa) : pa[i] = IF i <= Len(p) THEN p[i] ELSE a[i - Len(p)]
  BY <1>1, ConcatProperties
<1> HIDE DEF u, pa
<1>4. v \in Seq(S) /\ Len(v) = Len(pa) + 1 /\ v[Len(pa) + 1] = c /\ \A i \in 1..Len(pa) : v[i] = pa[i]
  BY <1>3
<1> HIDE DEF v
<1>5. ASSUME NEW i \in 1..Len(u) PROVE u[i] = v[i]
  <2>1. CASE i <= Len(p)
    <3>1. i \in 1..Len(pa)
      BY <1>1, <1>2, <1>3, <2>1
    <3> QED
      BY <1>2, <1>3, <1>4, <2>1, <3>1
  <2>2. CASE i > Len(p) /\ i <= Len(p) + Len(a)
    <3>1. i \in 1..Len(pa) /\ i - Len(p) \in 1..Len(a) /\ ~ (i <= Len(p))
      BY <1>1, <1>2, <1>3, <2>2
    <3> QED
      BY <1>1, <1>2, <1>3, <1>4, <3>1
  <2>3. CASE i = Len(p) + Len(a) + 1
    <3>1. i - Len(p) = Len(a) + 1 /\ i = Len(pa) + 1 /\ ~ (i <= Len(p))
      BY <1>1, <1>3, <2>3
    <3>2. u[i] = ac[i - Len(p)] /\ v[i] = c
      BY <1>2, <1>4, <3>1
    <3> QED
      BY <1>1, <3>1, <3>2
  <2>4. i <= Len(p) \/ (i > Len(p) /\ i <= Len(p) + Len(a)) \/ i = Len(p) + Len(a) + 1
    <3>1. i \in 1 .. Len(p) + Len(a) + 1
      BY <1>2
    <3> QED
      BY <1>1, <3>1
  <2> QED
    BY <2>1, <2>2, <2>3, <2>4
<1>6. u = v
  BY <1>2, <1>3, <1>4, <1>5, SeqEqual
<1> QED
  BY <1>3, <1>6 DEF u, v, pa, ac

LEMMA PutsOK ==
  ASSUME NEW f, NEW s, NEW p, ConsoleOK(f, s, p), NEW text \in Seq(Char), Len(p) + Len(text) <= MaxPrinted
  PROVE  ConsoleOK(Shown(f, text), Transmitted(s, text), p \o text)
<1>1. PICK w : ShownRun(f, text, w) /\ Shown(f, text) = w[Len(text)]
  BY ShownRuns DEF ConsoleOK
<1>2. PICK v : SentRun(s, text, v) /\ Transmitted(s, text) = v[Len(text)]
  BY SentDef DEF ConsoleOK
<1> DEFINE N == Len(text)
           q(i) == p \o SubSeq(text, 1, i)
           T == {i \in 0..N : ConsoleOK(w[i], v[i], q(i))}
<1>3. p \in Seq(Char) /\ N \in Nat /\ Len(p) \in Nat /\ MaxPrinted \in Nat
  BY ConsoleAssumption DEF ConsoleOK
<1>4. 0 \in T
  <2>1. q(0) = p
    BY <1>3
  <2>2. w[0] = f /\ v[0] = s
    BY <1>1, <1>2 DEF ShownRun, SentRun
  <2> HIDE DEF q
  <2>3. ConsoleOK(w[0], v[0], q(0)) /\ 0 \in 0..N
    BY <1>3, <2>1, <2>2
  <2> QED
    BY <2>3
<1>5. ASSUME NEW i \in 1..N, i - 1 \in T PROVE i \in T
  <2>1. q(i) = Append(q(i-1), text[i]) /\ q(i-1) \in Seq(Char) /\ text[i] \in Char /\ Len(q(i-1)) = Len(p) + (i-1)
    <3>1. i - 1 \in Nat /\ i - 1 < N /\ (i - 1) + 1 = i
      BY <1>3
    <3>2. SubSeq(text, 1, i) = Append(SubSeq(text, 1, i-1), text[i]) /\ SubSeq(text, 1, i-1) \in Seq(Char)
           /\ Len(SubSeq(text, 1, i-1)) = i - 1 /\ text[i] \in Char
      BY <1>3
    <3> DEFINE a == SubSeq(text, 1, i-1)
    <3>3. a \in Seq(Char) /\ Len(a) = i - 1 /\ SubSeq(text, 1, i) = Append(a, text[i])
      BY <3>2
    <3> HIDE DEF a
    <3>4. p \o Append(a, text[i]) = Append(p \o a, text[i]) /\ p \o a \in Seq(Char) /\ Len(p \o a) = Len(p) + (i-1)
      <4> DEFINE x == text[i]
      <4>1. x \in Char
        BY <3>2
      <4> HIDE DEF x
      <4>2. p \o Append(a, x) = Append(p \o a, x) /\ p \o a \in Seq(Char) /\ Len(p \o a) = Len(p) + Len(a)
        BY <1>3, <3>3, <4>1, ConcatAppend
      <4> QED
        BY <3>3, <4>2 DEF x
    <3> QED
      BY <3>2, <3>3, <3>4 DEF a
  <2> HIDE DEF q
  <2>2. ConsoleOK(w[i-1], v[i-1], q(i-1)) /\ Len(q(i-1)) + 1 <= MaxPrinted
    BY <1>3, <1>5, <2>1
  <2>3. w[i] = fb_putc(w[i-1], text[i]) /\ v[i] = serial_putc(v[i-1], text[i])
    BY <1>1, <1>2 DEF ShownRun, SentRun
  <2>4. ScreenOK(w[i], q(i))
    BY <2>1, <2>2, <2>3, ScreenPutc DEF ConsoleOK
  <2>5. v[i] \in Seq(Char) /\ SerialOK(v[i], q(i))
    BY <2>1, <2>2, <2>3, SerialPutc DEF ConsoleOK
  <2>6. q(i) \in Seq(Char) /\ i \in 0..N
    BY <2>1
  <2> QED
    BY <2>4, <2>5, <2>6 DEF ConsoleOK
<1>6. N \in T
  <2> HIDE DEF T
  <2>1. 0..N \subseteq T
    BY <1>3, <1>4, <1>5, UpInduction
  <2> QED
    BY <1>3, <2>1
<1>7. q(N) = p \o text
  <2>1. SubSeq(text, 1, N) = text
    OBVIOUS
  <2> QED
    BY <2>1
<1> QED
  BY <1>1, <1>2, <1>6, <1>7

\* The inductive invariant of the console.
ConsoleInv == ConsoleOK(fb, serial, printed) /\ NumbersReadBack

LEMMA NothingShown ==
  ASSUME NEW cols \in Nat \ {0}, NEW rows \in Nat \ {0}, NEW b \in Screen(cols, rows)
  PROVE  Shown(b, << >>) = b
<1>1. \A x \in Screen(cols, rows), c \in Char : fb_putc(x, c) \in Screen(cols, rows)
  BY PutcType
<1>2. << >> \in Seq(Char) /\ Len(<< >>) = 0
  OBVIOUS
<1>3. PICK w : ShownRun(b, << >>, w) /\ Shown(b, << >>) = w[Len(<< >>)]
  BY <1>1, <1>2, ShownDef
<1> QED
  BY <1>2, <1>3 DEF ShownRun

\* A screen just set up is like the endless one, with nothing printed yet.
LEMMA ScreenFound ==
  ASSUME ConsoleOK(fb, serial, printed), NEW cols \in Nat \ {0}, NEW rows \in Nat \ {0}
  PROVE  ConsoleOK(fb_init(cols, rows), serial, printed)
<1> DEFINE N == Len(printed)
           f == BlankScreen(cols, rows, N)
<1>1. printed \in Seq(Char) /\ N \in Nat /\ MaxPrinted \in Nat
  BY ConsoleAssumption DEF ConsoleOK
<1>2. fb_init(cols, rows) = f
  BY DEF fb_init, BlankScreen
<1>3. f \in Screen(cols, rows)
  BY <1>1, BlankType
<1>4. f.cols = cols /\ f.rows = rows /\ f.from = N /\ f.row = 0 /\ f.col = 0 /\ f.spoilt = FALSE
      /\ f.cells = [r \in 0 .. rows - 1 |-> [c \in 0 .. cols - 1 |-> Blank]]
  BY DEF BlankScreen
<1>5. Since(f, printed) = << >>
  <2>1. Since(f, printed) = SubSeq(printed, N + 1, N)
    BY <1>4 DEF Since
  <2>2. SubSeq(printed, N + 1, N) = << >>
    <3>1. \A i \in N + 1 .. N : printed[i] \in Char
      BY <1>1
    <3>2. SubSeq(printed, N + 1, N) \in Seq(Char) /\ Len(SubSeq(printed, N + 1, N)) = 0
      BY <1>1, <3>1, SubSeqProperties
    <3> QED
      BY <3>2, EmptySeq
  <2> QED
    BY <2>1, <2>2
<1>6. ASSUME NEW n \in Nat PROVE Faithful(f, EndlessAfter(f, printed, n), printed)
  <2> DEFINE high == rows + MaxPrinted
             e == BlankScreen(cols, high, n)
  <2>1. high \in Nat \ {0} /\ rows <= high
    BY <1>1
  <2>2. e \in Screen(cols, high)
    BY <2>1, BlankType
  <2>3. EndlessAfter(f, printed, n) = e
    BY <1>4, <1>5, <2>1, <2>2, NothingShown DEF EndlessAfter
  <2>4. e.cols = cols /\ e.rows = high /\ e.row = 0 /\ e.col = 0 /\ e.spoilt = FALSE
      /\ e.cells = [r \in 0 .. high - 1 |-> [c \in 0 .. cols - 1 |-> Blank]]
    BY DEF BlankScreen
  <2> HIDE DEF e, f, high
  <2>5. \A r \in 0 .. f.rows - 1 : f.cells[r] = e.cells[e.row - f.row + r]
    <3>1. \A r \in 0 .. rows - 1 : r \in 0 .. high - 1 /\ 0 - 0 + r = r
      BY <2>1
    <3> QED
      BY <1>4, <2>4, <3>1
  <2>6. \A r \in e.row + 1 .. e.rows - 1 : e.cells[r] = BlankRow(e)
    <3>1. \A r \in 0 + 1 .. high - 1 : r \in 0 .. high - 1
      BY <2>1
    <3> QED
      BY <2>4, <3>1 DEF BlankRow
  <2>7. Alike(f, e)
    <3>1. f.cols = e.cols /\ f.col = e.col /\ f.row <= e.row
      BY <1>4, <2>4
    <3>2. ~ f.spoilt /\ ~ e.spoilt
      BY <1>4, <2>4
    <3> QED
      BY <2>5, <2>6, <3>1, <3>2 DEF Alike
  <2>8. e.row <= N - f.from
    BY <1>1, <1>4, <2>4
  <2>9. e \in Screen(f.cols, f.rows + MaxPrinted)
    BY <1>4, <2>2 DEF high
  <2> QED
    BY <2>3, <2>7, <2>8, <2>9 DEF Faithful
<1>7. f.from <= Len(printed)
  BY <1>1, <1>4
<1> HIDE DEF f, N
<1>8. ScreenOK(f, printed)
  BY <1>3, <1>6, <1>7 DEF ScreenOK
<1> QED
  BY <1>2, <1>8 DEF ConsoleOK

LEMMA ConsolePutsOK ==
  ASSUME NEW f, ConsoleOK(f, serial, printed), NEW text \in Seq(Char), ConsolePuts(f, text)
  PROVE  ConsoleOK(fb, serial, printed)'
<1>1. Len(printed) + Len(text) <= MaxPrinted
  BY DEF ConsolePuts
<1>2. ConsoleOK(Shown(f, text), Transmitted(serial, text), printed \o text)
  BY <1>1, PutsOK
<1>3. fb' = Shown(f, text) /\ serial' = Transmitted(serial, text) /\ printed' = printed \o text
  BY DEF ConsolePuts
<1>4. ConsoleOK(fb', serial', printed')
  BY <1>2, <1>3
<1> QED
  BY <1>4 DEF ConsoleOK, SerialOK, ScreenOK, Faithful, EndlessAfter, Since

LEMMA KputsKeeps ==
  ASSUME ConsoleInv, NEW text \in Seq(Char), kputs(text) PROVE ConsoleInv'
<1>1. ConsoleOK(fb, serial, printed)'
  BY ConsolePutsOK DEF ConsoleInv, kputs
<1>2. last' = last
  BY DEF kputs
<1>3. NumbersReadBack'
  BY <1>2 DEF ConsoleInv, NumbersReadBack
<1> QED
  BY <1>1, <1>3 DEF ConsoleInv

LEMMA KprintfKeeps ==
  ASSUME NEW f, ConsoleOK(f, serial, printed), NEW words \in Words, NEW conv, NEW arg, Passed(conv, arg),
         kprintf(f, words, conv, arg)
  PROVE  ConsoleInv'
<1> DEFINE t == kvprintf(conv, arg)
           text == <<words>> \o t \o <<"\n">>
<1>1. t \in Seq(Char)
  BY ConversionType
<1>2. words \in Char /\ "\n" \in Char
  BY DEF Char
<1>3. ConsolePuts(f, text) /\ last' = [conv |-> conv, arg |-> arg, text |-> t]
  BY DEF kprintf
<1>4. NumbersReadBack'
  BY <1>3, NumbersNow
<1>5. text \in Seq(Char)
  <2> HIDE DEF t
  <2>1. <<words>> \in Seq(Char) /\ <<"\n">> \in Seq(Char)
    BY <1>2
  <2>2. <<words>> \o t \in Seq(Char)
    BY <1>1, <2>1, ConcatProperties
  <2> QED
    BY <2>1, <2>2, ConcatProperties
<1> HIDE DEF text
<1>6. ConsoleOK(fb, serial, printed)'
  BY <1>3, <1>5, ConsolePutsOK
<1> QED
  BY <1>4, <1>6 DEF ConsoleInv

\* The texts of Boot.
LEMMA MessageType ==
  ASSUME NEW m \in Words \cup Errors PROVE Message(m) \in Seq(Char)
<1>1. m \in Char /\ "\n" \in Char
  BY DEF Char
<1> QED
  BY <1>1 DEF Message

LEMMA SeqWider ==
  ASSUME NEW S, NEW T, S \subseteq T, NEW s \in Seq(S) PROVE s \in Seq(T)
  OBVIOUS

LEMMA ConsoleKept == ASSUME ConsoleInv, UNCHANGED consoleVars PROVE ConsoleInv'
<1>1. fb' = fb /\ serial' = serial /\ printed' = printed /\ last' = last
  BY DEF consoleVars
<1>2. NumbersReadBack'
  BY <1>1 DEF ConsoleInv, NumbersReadBack
<1>3. ConsoleOK(fb', serial', printed')
  BY <1>1 DEF ConsoleInv
<1>4. ConsoleOK(fb, serial, printed)'
  BY <1>3 DEF ConsoleOK, SerialOK, ScreenOK, Faithful, EndlessAfter, Since
<1> QED
  BY <1>2, <1>4 DEF ConsoleInv

LEMMA ConsoleNext == ASSUME ConsoleInv, [BootNext]_allVars PROVE ConsoleInv'
<1>1. CASE UNCHANGED consoleVars
  BY <1>1, ConsoleKept
<1>2. ASSUME NEW from, NEW to, NEW part, NEW text \in Seq(Char), SetUp(from, to, part, text)
      PROVE  ConsoleInv'
  BY <1>2, KputsKeeps DEF SetUp
<1>3. ASSUME NEW text \in Seq(Char), hal_halt(text) PROVE ConsoleInv'
  BY <1>3, KputsKeeps DEF hal_halt
<1>4. ASSUME NEW at, NEW m \in Errors, Fails(at, m) PROVE ConsoleInv'
  <2>1. Message(m) \in Seq(Char)
    BY MessageType
  <2>2. hal_halt(Message(m))
    BY <1>4 DEF Fails
  <2> QED
    BY <1>3, <2>1, <2>2
<1>5. << >> \in Seq(Char)
  OBVIOUS
<1>6. \A m, n \in Words : Message(m) \o Message(n) \in Seq(Char)
  BY MessageType, ConcatProperties
<1>7. ConsoleOK(fb, serial, printed)
  BY DEF ConsoleInv
<1>8. \A n \in Numerals : Passed("lx", n) /\ Passed("u", n)
  BY BootAssumption DEF Passed, Signed
<1>9. CASE early_console
  <2> DEFINE text == <<"M booting", "\n", "M dana", "\n">>
  <2>1. "M booting" \in Char /\ "\n" \in Char /\ "M dana" \in Char
    BY DEF Char, Words
  <2>2. text \in Seq(Char)
    <3>1. \A a, b, c \in Char : <<a, b, c, b>> \in Seq(Char)
      OBVIOUS
    <3> QED
      BY <2>1, <3>1
  <2>3. SetUp("start", "revision", {"serial"}, text)
    BY <1>9 DEF early_console
  <2> HIDE DEF text
  <2> QED
    BY <1>2, <2>2, <2>3
<1>10. CASE base_revision
  <2>1. "E revision" \in Errors
    BY DEF Errors
  <2>2. SetUp("revision", "hhdm", {}, << >>) \/ Fails("revision", "E revision")
    BY <1>10 DEF base_revision
  <2> QED
    BY <1>2, <1>4, <1>5, <2>1, <2>2
<1>11. CASE hhdm_response
  <2>1. CASE Fails("hhdm", "E hhdm")
    <3>1. "E hhdm" \in Errors
      BY DEF Errors
    <3> QED
      BY <1>4, <2>1, <3>1
  <2>2. CASE ~ Fails("hhdm", "E hhdm")
    <3>1. PICK n \in Numerals : kprintf(fb, "M hhdm", "lx", n)
      BY <1>11, <2>2 DEF hhdm_response
    <3>2. "M hhdm" \in Words
      BY DEF Words
    <3> QED
      BY <1>7, <1>8, <3>1, <3>2, KprintfKeeps
  <2> QED
    BY <2>1, <2>2
<1>12. CASE framebuffer_response
  <2>1. CASE SetUp("screen", "memmap", {}, << >>)
    BY <1>2, <1>5, <2>1
  <2>2. CASE ~ SetUp("screen", "memmap", {}, << >>)
    <3>1. PICK s \in Screens : kprintf(fb_init(s[1], s[2]), "M screen", "u", s[1])
      BY <1>12, <2>2 DEF framebuffer_response
    <3>2. s[1] \in Nat \ {0} /\ s[2] \in Nat \ {0}
      BY BootAssumption
    <3> DEFINE cols == s[1]
               rows == s[2]
    <3>3. kprintf(fb_init(cols, rows), "M screen", "u", cols)
      BY <3>1
    <3>4. cols \in Nat \ {0} /\ rows \in Nat \ {0}
      BY <3>2
    <3> HIDE DEF cols, rows
    <3>5. ConsoleOK(fb_init(cols, rows), serial, printed)
      BY <1>7, <3>4, ScreenFound
    <3>6. "M screen" \in Words
      BY DEF Words
    <3>7. Passed("u", cols)
      <4>1. cols \in Int
        BY <3>4
      <4> QED
        BY <4>1 DEF Passed, Signed
    <3> QED
      BY <3>3, <3>5, <3>6, <3>7, KprintfKeeps
  <2> QED
    BY <2>1, <2>2
<1>13. CASE memmap_response
  <2>1. CASE Fails("memmap", "E memmap")
    <3>1. "E memmap" \in Errors
      BY DEF Errors
    <3> QED
      BY <1>4, <2>1, <3>1
  <2>2. CASE ~ Fails("memmap", "E memmap")
    <3>1. PICK n \in Numerals : kprintf(fb, "M memmap", "u", n)
      BY <1>13, <2>2 DEF memmap_response
    <3>2. "M memmap" \in Words
      BY DEF Words
    <3> QED
      BY <1>7, <1>8, <3>1, <3>2, KprintfKeeps
  <2> QED
    BY <2>1, <2>2
<1>14. CASE hal_init
  <2>1. CASE SetUp("table", "pmm", {"table"}, Message("M table") \o Message("M tables"))
    <3>1. Message("M table") \o Message("M tables") \in Seq(Char)
      <4>1. "M table" \in Words /\ "M tables" \in Words
        BY DEF Words
      <4> QED
        BY <1>6, <4>1
    <3> QED
      BY <1>2, <2>1, <3>1
  <2>2. CASE ~ SetUp("table", "pmm", {"table"}, Message("M table") \o Message("M tables"))
    <3>1. UNCHANGED consoleVars
      BY <1>14, <2>2 DEF hal_init, Program
    <3> QED
      BY <1>1, <3>1
  <2> QED
    BY <2>1, <2>2
<1>15. CASE pmm_init
  <2>1. Message("M pmm") \in Seq(Char) /\ Message("E pmm") \in Seq(Char)
    <3>1. "M pmm" \in Words \cup Errors /\ "E pmm" \in Words \cup Errors
      BY DEF Words, Errors
    <3> QED
      BY <3>1, MessageType
  <2>2. SetUp("pmm", "pmap", {"pmm"}, Message("M pmm")) \/ SetUp("pmm", "pmap", {}, Message("E pmm"))
    BY <1>15 DEF pmm_init
  <2> QED
    BY <1>2, <2>1, <2>2
<1>16. CASE pmap_init
  <2>1. Message("M pmap") \in Seq(Char)
    <3>1. "M pmap" \in Words \cup Errors
      BY DEF Words
    <3> QED
      BY <3>1, MessageType
  <2>2. SetUp("pmap", "vm", {"pmap"}, Message("M pmap"))
    BY <1>16 DEF pmap_init
  <2> QED
    BY <1>2, <2>1, <2>2
<1>17. CASE vm_map_init
  <2>1. Message("M vm") \o Message("M task") \in Seq(Char)
    <3>1. "M vm" \in Words /\ "M task" \in Words
      BY DEF Words
    <3> QED
      BY <1>6, <3>1
  <2>2. SetUp("vm", "sched", {"vm"}, Message("M vm") \o Message("M task"))
    BY <1>17 DEF vm_map_init
  <2> QED
    BY <1>2, <2>1, <2>2
<1>18. CASE sched_init
  <2>1. SetUp("sched", "clock", {"sched"}, << >>)
    BY <1>18 DEF sched_init
  <2> QED
    BY <1>2, <1>5, <2>1
<1>19. CASE clock_init \/ cpu_enable_interrupts
  <2>1. UNCHANGED consoleVars
    BY <1>19 DEF clock_init, Program, cpu_enable_interrupts
  <2> QED
    BY <1>1, <2>1
<1>20. CASE sched_create_idle
  <2>1. Message("M complete") \in Seq(Char) /\ "E fault" \in Errors
    <3>1. "M complete" \in Words \cup Errors /\ "E fault" \in Errors
      BY DEF Words, Errors
    <3> QED
      BY <3>1, MessageType
  <2>2. \/ SetUp("threads", "sti", {"idle"}, Message("M complete"))
        \/ SetUp("threads", "sti", {}, Message("M complete"))
        \/ Fails("threads", "E fault")
    BY <1>20 DEF sched_create_idle
  <2> QED
    BY <1>2, <1>4, <2>1, <2>2
<1>21. CASE kmain
  BY <1>9, <1>10, <1>11, <1>12, <1>13, <1>14, <1>15, <1>16, <1>17, <1>18, <1>19, <1>20, <1>21 DEF kmain
<1>22. CASE ThreadPrints
  <2>1. CASE \E p \in Prints : kprintf(fb, "M exec", p[1], p[2])
    <3>1. PICK p \in Prints : kprintf(fb, "M exec", p[1], p[2])
      BY <2>1
    <3> DEFINE conv == p[1]
               arg == p[2]
    <3>2. Passed(conv, arg)
      BY BootAssumption DEF Passed
    <3>3. kprintf(fb, "M exec", conv, arg)
      BY <3>1
    <3> HIDE DEF conv, arg
    <3>4. "M exec" \in Words
      BY DEF Words
    <3> QED
      BY <1>7, <3>2, <3>3, <3>4, KprintfKeeps
  <2>2. CASE \E text \in Texts : kputs(text)
    <3>1. PICK text \in Texts : kputs(text)
      BY <2>2
    <3>2. text \in Seq(STRING) /\ STRING \subseteq Char
      BY BootAssumption DEF Char
    <3>3. text \in Seq(Char)
      BY <3>2, SeqWider
    <3> QED
      BY <3>1, <3>3, KputsKeeps
  <2> QED
    BY <1>22, <2>1, <2>2 DEF ThreadPrints
<1>23. CASE ThreadCalls
  BY <1>1, <1>23 DEF ThreadCalls
<1>24. CASE Exception
  <2>1. \A m \in {"E fault", "E exception"} : Message(m) \in Seq(Char)
    <3>1. {"E fault", "E exception"} \subseteq Words \cup Errors
      BY DEF Errors
    <3> QED
      BY <3>1, MessageType
  <2>2. PICK v \in Faults :
          hal_halt(IF ~ Delivers(cpu, v) THEN << >>
                   ELSE Message(IF cpu.idt[v].handler = "isr_14" THEN "E fault" ELSE "E exception"))
    BY <1>24 DEF Exception
  <2> DEFINE text == IF ~ Delivers(cpu, v) THEN << >>
                     ELSE Message(IF cpu.idt[v].handler = "isr_14" THEN "E fault" ELSE "E exception")
  <2>3. text \in Seq(Char)
    <3>1. CASE ~ Delivers(cpu, v)
      <4>1. text = << >>
        BY <3>1
      <4> HIDE DEF text
      <4> QED
        BY <1>5, <4>1
    <3>2. CASE Delivers(cpu, v)
      <4> DEFINE m == IF cpu.idt[v].handler = "isr_14" THEN "E fault" ELSE "E exception"
      <4>1. m \in {"E fault", "E exception"}
        OBVIOUS
      <4>2. text = Message(m)
        BY <3>2
      <4> HIDE DEF m, text
      <4> QED
        BY <2>1, <4>1, <4>2
    <3> QED
      BY <3>1, <3>2
  <2>4. hal_halt(text)
    BY <2>2
  <2> HIDE DEF text
  <2> QED
    BY <1>3, <2>3, <2>4
<1>25. CASE UNCHANGED allVars
  BY <1>1, <1>25 DEF allVars
<1> QED
  BY <1>21, <1>22, <1>23, <1>24, <1>25 DEF BootNext

LEMMA ConsoleInitInv == BootInit => ConsoleInv
<1> SUFFICES ASSUME BootInit PROVE ConsoleInv
  OBVIOUS
<1>1. fb = NoScreen /\ serial = << >> /\ printed = << >> /\ last = [conv |-> "none", arg |-> 0, text |-> << >>]
  BY DEF BootInit
<1>2. NumbersReadBack
  <2>1. last.conv = "none"
    BY <1>1
  <2> QED
    BY <2>1 DEF NumbersReadBack, Signed
<1>3. ScreenOK(fb, printed)
  BY <1>1 DEF ScreenOK
<1>4. << >> \in Seq(Char) /\ Len(<< >>) = 0
  OBVIOUS
<1>5. SerialOK(serial, printed)
  BY <1>1, <1>4 DEF SerialOK
<1> QED
  BY <1>1, <1>2, <1>3, <1>4, <1>5 DEF ConsoleInv, ConsoleOK

LEMMA ConsoleInvariant == BootSpec => []ConsoleInv
<1>1. ConsoleInv /\ [BootNext]_allVars => ConsoleInv'
  BY ConsoleNext
<1> QED
  BY <1>1, ConsoleInitInv, PTL DEF BootSpec

(* Serial line and screen show the same text: whatever was printed, before *)
(* the screen was found and after, and however often it scrolled           *)
(* (fb.c:170-238, serial.c:26-36).                                         *)
THEOREM ConsoleShowsAll == BootSpec => []ConsoleFaithful
<1>1. ConsoleInv => ConsoleFaithful
  <2> SUFFICES ASSUME ConsoleInv PROVE ConsoleFaithful
    OBVIOUS
  <2>1. printed \in Seq(Char) /\ SerialOK(serial, printed) /\ ScreenOK(fb, printed)
    BY DEF ConsoleInv, ConsoleOK
  <2>2. ASSUME fb.ready, ~ fb.spoilt
        PROVE  LET text    == SubSeq(printed, fb.from + 1, Len(printed))
                   endless == Shown(fb_init(fb.cols, fb.rows + MaxPrinted), text)
               IN  /\ fb.col = endless.col
                   /\ \A r \in 0 .. fb.rows - 1 : fb.cells[r] = endless.cells[endless.row - fb.row + r]
    <3> DEFINE n == Len(printed)
               e == EndlessAfter(fb, printed, n)
    <3>1. fb # NoScreen
      BY <2>2 DEF NoScreen
    <3>2. n \in Nat
      BY <2>1
    <3>3. Faithful(fb, e, printed)
      BY <2>1, <2>2, <3>1, <3>2 DEF ScreenOK
    <3>4. e = Shown(fb_init(fb.cols, fb.rows + MaxPrinted), SubSeq(printed, fb.from + 1, Len(printed)))
      BY DEF EndlessAfter, Since, BlankScreen, fb_init
    <3> HIDE DEF e
    <3>5. fb.col = e.col /\ \A r \in 0 .. fb.rows - 1 : fb.cells[r] = e.cells[e.row - fb.row + r]
      BY <3>3 DEF Faithful, Alike
    <3> QED
      BY <3>4, <3>5
  <2> QED
    BY <2>1, <2>2 DEF ConsoleFaithful, SerialOK
<1> QED
  BY <1>1, ConsoleInvariant, PTL

(* What was printed of a number reads back as the number, for every width  *)
(* of the integers and every value passed (printf.c:21-49).                *)
THEOREM PrintedNumbersReadBack == BootSpec => []NumbersReadBack
<1>1. ConsoleInv => NumbersReadBack
  BY DEF ConsoleInv
<1> QED
  BY <1>1, ConsoleInvariant, PTL
=============================================================================
