--------------------------- MODULE JobHeapProofs -----------------------------
(***************************************************************************)
(* The queue is what it promises, proved for any priorities and any number *)
(* of pushes: the slice keeps heap order, Pop returns the entry of highest *)
(* priority pushed first, and JobHeap implements JobQueue.                 *)
(*                                                                         *)
(* Up and Down are recursive functions.  What they return is proved by an  *)
(* induction over sets of numbers (Induction), which needs no theorem with *)
(* an operator for a parameter.                                            *)
(***************************************************************************)
EXTENDS JobHeap, WellFoundedInduction, SequenceTheorems, TLAPS

-------------------------------------------------------------------------------
(***************************************************************************)
(* Induction over the natural numbers, stated of a set: a set that lacked  *)
(* a number would lack a least one.                                        *)
(***************************************************************************)
LEMMA Induction ==
    ASSUME NEW S, 0 \in S, \A n \in Nat : n \in S => n + 1 \in S
    PROVE  Nat \subseteq S
<1> SUFFICES ASSUME Nat \ S # {} PROVE FALSE
  OBVIOUS
<1> DEFINE R == OpToRel(<, Nat)
<1>1. IsWellFoundedOn(R, Nat)
  BY NatLessThanWellFounded
<1>2. \A x, y \in Nat : x < y => <<x, y>> \in R
  BY DEF OpToRel
<1> HIDE DEF R
<1>3. Nat \ S \subseteq Nat
  OBVIOUS
<1>4. PICK x \in Nat \ S : \A y \in Nat \ S : ~(<<y, x>> \in R)
  BY <1>1, <1>3, WFMin
<1>5. x \in Nat /\ x - 1 \in Nat /\ x - 1 < x /\ (x - 1) + 1 = x
  OBVIOUS
<1>6. x - 1 \notin S
  BY <1>5
<1>7. <<x - 1, x>> \in R
  BY <1>2, <1>5
<1> QED  BY <1>4, <1>5, <1>6, <1>7

-------------------------------------------------------------------------------
(***************************************************************************)
(* What climb is at j, of what it is at the parent of j.                   *)
(***************************************************************************)
Climb(g, S, j) ==
    [h \in S |-> IF j \div 2 = 0 \/ ~Less(h, j, j \div 2) THEN h
                 ELSE g[Swapped(h, j \div 2, j)]]

LEMMA ClimbEnds ==
    ASSUME NEW S, NEW g, NEW k
    PROVE  Climb(g, S, 1) = Climb(k, S, 1)
<1>1. 1 \div 2 = 0
  OBVIOUS
<1> QED  BY <1>1 DEF Climb

LEMMA ClimbExists ==
    ASSUME NEW n \in Nat, NEW S
    PROVE  \E f : f = [j \in 1..n |-> Climb(f[j \div 2], S, j)]
<1> DEFINE M == {m \in Nat : \E f : f = [j \in 1..m |-> Climb(f[j \div 2], S, j)]}
<1>1. 0 \in M
  <2> DEFINE f == [j \in 1..0 |-> j]
  <2>1. f = [j \in 1..0 |-> Climb(f[j \div 2], S, j)]
    OBVIOUS
  <2> QED  BY <2>1
<1>2. ASSUME NEW m \in Nat, m \in M PROVE m + 1 \in M
  <2>1. PICK f : f = [j \in 1..m |-> Climb(f[j \div 2], S, j)]
    BY <1>2
  <2> DEFINE g == [j \in 1..(m + 1) |-> Climb(f[j \div 2], S, j)]
  <2>2. \A j \in 1..m : g[j] = f[j]
    BY <2>1
  <2>3. \A j \in 1..(m + 1) : j # 1 => j \div 2 \in 1..m
    OBVIOUS
  <2>4. \A j \in 1..(m + 1) : g[j] = Climb(g[j \div 2], S, j)
    BY <2>2, <2>3, ClimbEnds
  <2>5. g = [j \in 1..(m + 1) |-> g[j]]
    OBVIOUS
  <2> HIDE DEF g
  <2>6. g = [j \in 1..(m + 1) |-> Climb(g[j \div 2], S, j)]
    BY <2>4, <2>5
  <2> QED  BY <2>6
<1> HIDE DEF M
<1>3. n \in M
  BY <1>1, <1>2, Induction
<1> QED  BY <1>3 DEF M

\* Up, by what climb is.
LEMMA UpClimbs ==
    ASSUME NEW n \in Nat, NEW h, DOMAIN h = 1..n, NEW j \in 1..n
    PROVE  \E f : /\ f = [k \in 1..n |-> Climb(f[k \div 2], [1..n -> Range(h)], k)]
                  /\ Up(h, j) = f[j][h]
<1> DEFINE S == [1..n -> Range(h)]
           c == CHOOSE f : f = [k \in 1..n |-> Climb(f[k \div 2], S, k)]
<1>1. Up(h, j) = c[j][h]
  BY Zenon DEF Up, Climb
<1>2. \E f : f = [k \in 1..n |-> Climb(f[k \div 2], S, k)]
  BY ClimbExists
<1>3. c = [k \in 1..n |-> Climb(c[k \div 2], S, k)]
  BY <1>2, Zenon
<1> HIDE DEF c
<1> QED  BY <1>1, <1>3

(***************************************************************************)
(* What sink is at i, of what it is at the children of i.                  *)
(***************************************************************************)
Lesser(h, i, n) == IF 2 * i + 1 <= n /\ Less(h, 2 * i + 1, 2 * i) THEN 2 * i + 1 ELSE 2 * i

Sink(f, S, n, i) ==
    [h \in S |-> IF 2 * i > n \/ ~Less(h, Lesser(h, i, n), i) THEN h
                 ELSE f[Lesser(h, i, n)][Swapped(h, i, Lesser(h, i, n))]]

LEMMA SinkAgrees ==
    ASSUME NEW N \in Nat, NEW n \in 0..N, NEW i \in 1..N, NEW S, NEW f, NEW g,
           \A k \in (i + 1)..N : f[k] = g[k]
    PROVE  Sink(f, S, n, i) = Sink(g, S, n, i)
<1>1. \A h \in S : 2 * i <= n => Lesser(h, i, n) \in (i + 1)..N
  BY DEF Lesser
<1>2. \A h \in S : 2 * i <= n => f[Lesser(h, i, n)] = g[Lesser(h, i, n)]
  BY <1>1
<1>3. 2 * i <= n \/ 2 * i > n
  OBVIOUS
<1> QED  BY <1>2, <1>3 DEF Sink

LEMMA SinkExists ==
    ASSUME NEW N \in Nat, NEW n \in 0..N, NEW S
    PROVE  \E f : f = [i \in 1..N |-> Sink(f, S, n, i)]
<1> DEFINE M == {m \in Nat : m <= N =>
                   \E f : f = [i \in (N + 1 - m)..N |-> Sink(f, S, n, i)]}
<1>1. 0 \in M
  <2> DEFINE f == [i \in (N + 1 - 0)..N |-> i]
  <2>1. f = [i \in (N + 1 - 0)..N |-> Sink(f, S, n, i)]
    OBVIOUS
  <2> QED  BY <2>1
<1>2. ASSUME NEW m \in Nat, m \in M PROVE m + 1 \in M
  <2> SUFFICES ASSUME m + 1 <= N
               PROVE  \E f : f = [i \in (N + 1 - (m + 1))..N |-> Sink(f, S, n, i)]
    OBVIOUS
  <2>1. PICK f : f = [i \in (N + 1 - m)..N |-> Sink(f, S, n, i)]
    BY <1>2
  <2> DEFINE g == [i \in (N + 1 - (m + 1))..N |-> Sink(f, S, n, i)]
  <2>2. \A i \in (N + 1 - m)..N : g[i] = f[i]
    BY <2>1
  <2>3. \A i \in (N + 1 - (m + 1))..N : i \in 1..N /\ \A k \in (i + 1)..N : f[k] = g[k]
    <3> SUFFICES ASSUME NEW i \in (N + 1 - (m + 1))..N
                 PROVE  i \in 1..N /\ \A k \in (i + 1)..N : f[k] = g[k]
      OBVIOUS
    <3>1. i \in 1..N /\ \A k \in (i + 1)..N : k \in (N + 1 - m)..N
      OBVIOUS
    <3> HIDE DEF g
    <3> QED  BY <2>2, <3>1
  <2>4. \A i \in (N + 1 - (m + 1))..N : g[i] = Sink(g, S, n, i)
    <3> SUFFICES ASSUME NEW i \in (N + 1 - (m + 1))..N PROVE g[i] = Sink(g, S, n, i)
      OBVIOUS
    <3>1. g[i] = Sink(f, S, n, i)
      OBVIOUS
    <3>2. i \in 1..N /\ \A k \in (i + 1)..N : f[k] = g[k]
      BY <2>3
    <3> HIDE DEF g
    <3> QED  BY <3>1, <3>2, SinkAgrees
  <2>5. g = [i \in (N + 1 - (m + 1))..N |-> g[i]]
    OBVIOUS
  <2> HIDE DEF g
  <2>6. g = [i \in (N + 1 - (m + 1))..N |-> Sink(g, S, n, i)]
    BY <2>4, <2>5
  <2> QED  BY <2>6
<1> HIDE DEF M
<1>3. N \in M
  BY <1>1, <1>2, Induction
<1>4. N + 1 - N = 1
  OBVIOUS
<1> QED  BY <1>3, <1>4 DEF M

\* Down, by what sink is.
LEMMA DownSinks ==
    ASSUME NEW N \in Nat, NEW n \in 0..N, NEW h, DOMAIN h = 1..N, NEW i \in 1..N
    PROVE  \E f : /\ f = [k \in 1..N |-> Sink(f, [1..N -> Range(h)], n, k)]
                  /\ Down(h, i, n) = f[i][h]
<1> DEFINE S == [1..N -> Range(h)]
           c == CHOOSE f : f = [k \in 1..N |-> Sink(f, S, n, k)]
<1>1. Down(h, i, n) = c[i][h]
  BY Zenon DEF Down, Sink, Lesser
<1>2. \E f : f = [k \in 1..N |-> Sink(f, S, n, k)]
  <2>1. \A T : \E f : f = [k \in 1..N |-> Sink(f, T, n, k)]
    BY SinkExists
  <2> QED  BY <2>1
<1>3. c = [k \in 1..N |-> Sink(c, S, n, k)]
  BY <1>2, Zenon
<1> HIDE DEF c
<1> QED  BY <1>1, <1>3

-------------------------------------------------------------------------------
(***************************************************************************)
(* The order of entries, and the elements of a slice that is sifted.       *)
(***************************************************************************)
Entry == [prio : Int, seq : Int]

Precedes(e, f) == IF e.prio # f.prio THEN e.prio > f.prio ELSE e.seq < f.seq

LEMMA LessPrecedes ==
    ASSUME NEW h, NEW i, NEW j
    PROVE  Less(h, i, j) <=> Precedes(h[i], h[j])
<1> QED  BY DEF Less, Precedes

LEMMA PrecedesOrders ==
    /\ \A e, f \in Entry : Precedes(e, f) => ~Precedes(f, e)
    /\ \A e, f, g \in Entry : Precedes(e, f) /\ Precedes(f, g) => Precedes(e, g)
    /\ \A e, f, g \in Entry : ~Precedes(e, f) /\ ~Precedes(f, g) => ~Precedes(e, g)
<1> QED  BY DEF Precedes, Entry

\* Slices of n elements.
Slices(n, S) == [1..n -> S]

\* Each entry has a number of its own.
Distinct(h) == \A i, k \in DOMAIN h : h[i].seq = h[k].seq => i = k

\* g has the elements of h, if in another order, and the same beyond n.
Permuted(g, h, n) ==
    /\ DOMAIN g = DOMAIN h /\ Range(g) = Range(h)
    /\ Distinct(h) => Distinct(g)
    /\ \A k \in DOMAIN h : k > n => g[k] = h[k]

\* No element of the first n is less than its parent.
Ordered(h, n) == \A j \in 2..n : ~Less(h, j, j \div 2)

LEMMA SwappedPermutes ==
    ASSUME NEW N \in Nat, NEW n \in 0..N, NEW S, NEW h \in Slices(N, S),
           NEW i \in 1..N, NEW j \in 1..N, i # j
    PROVE  /\ Swapped(h, i, j) \in Slices(N, S)
           /\ \A k \in 1..N : Swapped(h, i, j)[k] =
                 IF k = i THEN h[j] ELSE IF k = j THEN h[i] ELSE h[k]
           /\ i <= n /\ j <= n => Permuted(Swapped(h, i, j), h, n)
<1> DEFINE g == Swapped(h, i, j)
<1>1. g \in Slices(N, S)
  BY DEF Swapped, Slices
<1>2. \A k \in 1..N : g[k] = IF k = i THEN h[j] ELSE IF k = j THEN h[i] ELSE h[k]
  BY DEF Swapped, Slices
<1> HIDE DEF g
<1>3. Range(g) = Range(h)
  <2>1. \A k \in 1..N : \E l \in 1..N : g[k] = h[l]
    BY <1>2
  <2>2. \A k \in 1..N : \E l \in 1..N : h[k] = g[l]
    <3> SUFFICES ASSUME NEW k \in 1..N PROVE \E l \in 1..N : h[k] = g[l]
      OBVIOUS
    <3>1. h[k] = IF k = i THEN g[j] ELSE IF k = j THEN g[i] ELSE g[k]
      BY <1>2
    <3> QED  BY <3>1
  <2>3. Range(g) \subseteq Range(h)
    BY <1>1, <2>1 DEF Range, Slices
  <2>4. Range(h) \subseteq Range(g)
    BY <1>1, <2>2 DEF Range, Slices
  <2> QED  BY <2>3, <2>4
<1>4. Distinct(h) => Distinct(g)
  BY <1>1, <1>2 DEF Distinct, Slices
<1>5. i <= n /\ j <= n => Permuted(g, h, n)
  BY <1>1, <1>2, <1>3, <1>4 DEF Permuted, Slices
<1> QED  BY <1>1, <1>2, <1>5 DEF g

\* The same where the whole slice is sifted.
LEMMA SwappedWhole ==
    ASSUME NEW n \in Nat, NEW S, NEW h \in Slices(n, S), NEW i \in 1..n, NEW j \in 1..n, i # j
    PROVE  /\ Swapped(h, i, j) \in Slices(n, S)
           /\ \A k \in 1..n : Swapped(h, i, j)[k] =
                 IF k = i THEN h[j] ELSE IF k = j THEN h[i] ELSE h[k]
           /\ Permuted(Swapped(h, i, j), h, n)
<1>1. n \in 0..n /\ i <= n /\ j <= n
  OBVIOUS
<1> QED  BY <1>1, SwappedPermutes

LEMMA PermutedAgain ==
    ASSUME NEW f, NEW g, NEW h, NEW n, Permuted(f, g, n), Permuted(g, h, n)
    PROVE  Permuted(f, h, n)
<1> QED  BY DEF Permuted

LEMMA PermutedSelf ==
    ASSUME NEW h, NEW n
    PROVE  Permuted(h, h, n)
<1> QED  BY DEF Permuted

-------------------------------------------------------------------------------
(***************************************************************************)
(* Up.  While the element at j climbs, only j may precede its parent, and  *)
(* its children do not precede its parent either.                          *)
(***************************************************************************)
ClimbingAt(h, n, j) ==
    /\ \A k \in 2..n : k # j => ~Less(h, k, k \div 2)
    /\ \A k \in 2..n : k \div 2 = j /\ j \div 2 # 0 => ~Less(h, k, j \div 2)

LEMMA ClimbStep ==
    ASSUME NEW n \in Nat, NEW S \in SUBSET Entry, NEW h \in Slices(n, S), NEW j \in 1..n,
           ClimbingAt(h, n, j), j \div 2 # 0, Less(h, j, j \div 2)
    PROVE  ClimbingAt(Swapped(h, j \div 2, j), n, j \div 2)
<1>1. PICK i \in 1..n : i = j \div 2 /\ i < j
  OBVIOUS
<1> DEFINE g == Swapped(h, i, j)
<1>2. \A k \in 1..n : h[k] \in Entry
  BY DEF Slices
<1>3. \A k \in 1..n : g[k] = IF k = i THEN h[j] ELSE IF k = j THEN h[i] ELSE h[k]
  <2>1. i # j
    BY <1>1
  <2> QED  BY <2>1, SwappedWhole
<1> HIDE DEF g
<1>4. /\ \A k \in 2..n : k # j => ~Precedes(h[k], h[k \div 2])
      /\ \A k \in 2..n : k \div 2 = j => ~Precedes(h[k], h[i])
      /\ Precedes(h[j], h[i])
  BY <1>1, LessPrecedes DEF ClimbingAt
<1>5. ASSUME NEW k \in 2..n, k # i PROVE ~Precedes(g[k], g[k \div 2])
  <2>1. PICK p \in 1..n : p = k \div 2 /\ p < k
    OBVIOUS
  <2>2. CASE k = j
    BY <1>1, <1>2, <1>3, <1>4, <2>1, <2>2, PrecedesOrders
  <2>3. CASE k # j /\ p = j
    BY <1>1, <1>3, <1>4, <1>5, <2>1, <2>3
  <2>4. CASE k # j /\ p = i
    <3>1. g[k] = h[k] /\ g[p] = h[j] /\ ~Precedes(h[k], h[i])
      BY <1>1, <1>3, <1>4, <1>5, <2>1, <2>4
    <3>2. Precedes(h[k], h[j]) => Precedes(h[k], h[i])
      BY <1>1, <1>2, <1>4, PrecedesOrders
    <3> QED  BY <2>1, <3>1, <3>2
  <2>5. CASE k # j /\ p # j /\ p # i
    BY <1>3, <1>4, <1>5, <2>1, <2>5
  <2> QED  BY <2>2, <2>3, <2>4, <2>5
<1>6. ASSUME NEW k \in 2..n, k \div 2 = i, i \div 2 # 0 PROVE ~Precedes(g[k], g[i \div 2])
  <2>1. PICK p \in 1..n : p = i \div 2 /\ p < i
    BY <1>6
  <2>2. g[p] = h[p] /\ ~Precedes(h[i], h[p])
    BY <1>1, <1>3, <1>4, <2>1
  <2>3. CASE k = j
    BY <1>1, <1>3, <2>1, <2>2, <2>3
  <2>4. CASE k # j
    <3>1. g[k] = h[k] /\ ~Precedes(h[k], h[i])
      BY <1>1, <1>3, <1>4, <1>6, <2>4
    <3>2. h[k] \in Entry /\ h[i] \in Entry /\ h[p] \in Entry
      BY <1>2
    <3> QED  BY <2>1, <2>2, <3>1, <3>2, PrecedesOrders
  <2> QED  BY <2>3, <2>4
<1>7. ClimbingAt(g, n, i)
  BY <1>5, <1>6, LessPrecedes DEF ClimbingAt
<1> QED  BY <1>1, <1>7 DEF g

IsClimb(f, n, S) == f = [j \in 1..n |-> Climb(f[j \div 2], Slices(n, S), j)]

\* climb puts at j right what is wrong there only.
ClimbsWell(f, n, S, j) ==
    \A h \in Slices(n, S) : ClimbingAt(h, n, j) =>
        /\ f[j][h] \in Slices(n, S)
        /\ Ordered(f[j][h], n)
        /\ Permuted(f[j][h], h, n)

LEMMA ClimbOrders ==
    ASSUME NEW n \in Nat, NEW S \in SUBSET Entry, NEW f, IsClimb(f, n, S), NEW j \in 1..n
    PROVE  ClimbsWell(f, n, S, j)
<1> DEFINE M == {m \in Nat : \A k \in 1..n : k <= m => ClimbsWell(f, n, S, k)}
<1>1. 0 \in M
  OBVIOUS
<1>2. ASSUME NEW m \in Nat, m \in M PROVE m + 1 \in M
  <2> SUFFICES ASSUME NEW k \in 1..n, k <= m + 1 PROVE ClimbsWell(f, n, S, k)
    OBVIOUS
  <2>1. ASSUME k \div 2 # 0 PROVE k \div 2 \in 1..n /\ k \div 2 # k /\ ClimbsWell(f, n, S, k \div 2)
    <3>1. k \div 2 \in 1..n /\ k \div 2 # k /\ k \div 2 <= m
      BY <2>1
    <3> QED  BY <1>2, <3>1
  <2> HIDE DEF M
  <2> SUFFICES ASSUME NEW h \in Slices(n, S), ClimbingAt(h, n, k)
               PROVE  /\ f[k][h] \in Slices(n, S)
                      /\ Ordered(f[k][h], n)
                      /\ Permuted(f[k][h], h, n)
    BY DEF ClimbsWell
  <2>2. f[k][h] = IF k \div 2 = 0 \/ ~Less(h, k, k \div 2) THEN h
                  ELSE f[k \div 2][Swapped(h, k \div 2, k)]
    <3>1. f[k] = Climb(f[k \div 2], Slices(n, S), k)
      BY DEF IsClimb
    <3> QED  BY <3>1 DEF Climb
  <2>3. CASE k \div 2 = 0 \/ ~Less(h, k, k \div 2)
    <3>1. f[k][h] = h
      BY <2>2, <2>3
    <3>2. k \div 2 = 0 => k \notin 2..n
      OBVIOUS
    <3>3. Ordered(h, n)
      BY <2>3, <3>2 DEF ClimbingAt, Ordered
    <3> QED  BY <3>1, <3>3, PermutedSelf
  <2>4. CASE k \div 2 # 0 /\ Less(h, k, k \div 2)
    <3>1. PICK s : s = Swapped(h, k \div 2, k)
      OBVIOUS
    <3>2. s \in Slices(n, S) /\ Permuted(s, h, n)
      BY <2>1, <2>4, <3>1, SwappedWhole
    <3>3. ClimbingAt(s, n, k \div 2)
      BY <2>4, <3>1, ClimbStep
    <3>4. /\ f[k \div 2][s] \in Slices(n, S)
          /\ Ordered(f[k \div 2][s], n)
          /\ Permuted(f[k \div 2][s], s, n)
      BY <2>1, <2>4, <3>2, <3>3 DEF ClimbsWell
    <3>5. f[k][h] = f[k \div 2][s]
      BY <2>2, <2>4, <3>1
    <3> QED  BY <3>2, <3>4, <3>5, PermutedAgain
  <2> QED  BY <2>3, <2>4
<1> HIDE DEF M
<1>3. j \in M
  BY <1>1, <1>2, Induction
<1> QED  BY <1>3 DEF M

\* What heap.Push does to the slice it has appended to.
LEMMA UpOrders ==
    ASSUME NEW n \in Nat, NEW h \in Slices(n, Entry), NEW j \in 1..n, ClimbingAt(h, n, j)
    PROVE  /\ Up(h, j) \in Slices(n, Range(h))
           /\ Ordered(Up(h, j), n)
           /\ Permuted(Up(h, j), h, n)
<1>1. DOMAIN h = 1..n /\ Range(h) \in SUBSET Entry /\ h \in Slices(n, Range(h))
  BY DEF Range, Slices
<1>2. PICK f : IsClimb(f, n, Range(h)) /\ Up(h, j) = f[j][h]
  BY <1>1, UpClimbs DEF IsClimb, Slices
<1>3. ClimbsWell(f, n, Range(h), j)
  BY <1>1, <1>2, ClimbOrders
<1> QED  BY <1>1, <1>2, <1>3 DEF ClimbsWell

-------------------------------------------------------------------------------
(***************************************************************************)
(* Down.  While the element at i sinks, only the children of i may precede *)
(* their parent, and they do not precede the parent of i.                  *)
(***************************************************************************)
SinkingAt(h, n, i) ==
    /\ \A k \in 2..n : k \div 2 # i => ~Less(h, k, k \div 2)
    /\ \A k \in 2..n : k \div 2 = i /\ i \div 2 # 0 => ~Less(h, k, i \div 2)

\* The lesser child of i is one of its children, and the other is not less.
LEMMA LesserChild ==
    ASSUME NEW N \in Nat, NEW n \in 0..N, NEW S \in SUBSET Entry, NEW h \in Slices(N, S),
           NEW i \in 1..N, 2 * i <= n
    PROVE  /\ Lesser(h, i, n) \in 2..n /\ Lesser(h, i, n) \div 2 = i /\ Lesser(h, i, n) > i
           /\ \A k \in 2..n : k \div 2 = i => ~Precedes(h[k], h[Lesser(h, i, n)])
<1>1. \A k \in 1..N : h[k] \in Entry
  BY DEF Slices
<1>2. \A k \in 2..n : k \div 2 = i => k = 2 * i \/ k = 2 * i + 1
  OBVIOUS
<1>3. (2 * i) \div 2 = i /\ (2 * i + 1) \div 2 = i /\ 2 * i \in 1..N /\ 2 * i > i
  OBVIOUS
<1>4. \A e \in Entry : ~Precedes(e, e)
  BY PrecedesOrders
<1>5. CASE 2 * i + 1 <= n /\ Less(h, 2 * i + 1, 2 * i)
  <2>1. Lesser(h, i, n) = 2 * i + 1 /\ 2 * i + 1 \in 1..N
    BY <1>5 DEF Lesser
  <2>2. Precedes(h[2 * i + 1], h[2 * i])
    BY <1>5, LessPrecedes
  <2>3. h[2 * i + 1] \in Entry /\ h[2 * i] \in Entry
    BY <1>1, <1>3, <2>1
  <2>4. ~Precedes(h[2 * i], h[2 * i + 1]) /\ ~Precedes(h[2 * i + 1], h[2 * i + 1])
    BY <1>4, <2>2, <2>3, PrecedesOrders
  <2> QED  BY <1>2, <1>3, <1>5, <2>1, <2>4
<1>6. CASE ~(2 * i + 1 <= n /\ Less(h, 2 * i + 1, 2 * i))
  <2>1. Lesser(h, i, n) = 2 * i
    BY <1>6 DEF Lesser
  <2>2. 2 * i + 1 <= n => ~Precedes(h[2 * i + 1], h[2 * i])
    BY <1>6, LessPrecedes
  <2>3. ~Precedes(h[2 * i], h[2 * i])
    BY <1>1, <1>3, <1>4
  <2> QED  BY <1>2, <1>3, <2>1, <2>2, <2>3
<1> QED  BY <1>5, <1>6

LEMMA SinkStep ==
    ASSUME NEW N \in Nat, NEW n \in 0..N, NEW S \in SUBSET Entry, NEW h \in Slices(N, S),
           NEW i \in 1..N, SinkingAt(h, n, i), 2 * i <= n,
           NEW l, l = Lesser(h, i, n), Less(h, l, i)
    PROVE  SinkingAt(Swapped(h, i, l), n, l)
<1>1. /\ l \in 2..n /\ l \div 2 = i /\ l > i /\ l \in 1..N
      /\ \A k \in 2..n : k \div 2 = i => ~Precedes(h[k], h[l])
  <2>1. /\ l \in 2..n /\ l \div 2 = i /\ l > i
        /\ \A k \in 2..n : k \div 2 = i => ~Precedes(h[k], h[l])
    BY LesserChild
  <2>2. l \in 1..N
    BY <2>1
  <2> QED  BY <2>1, <2>2
<1> DEFINE g == Swapped(h, i, l)
<1>2. \A k \in 1..N : h[k] \in Entry
  BY DEF Slices
<1>3. \A k \in 1..N : g[k] = IF k = i THEN h[l] ELSE IF k = l THEN h[i] ELSE h[k]
  <2>1. i # l /\ l \in 1..N
    BY <1>1
  <2> QED  BY <2>1, SwappedPermutes
<1> HIDE DEF g
<1>4. /\ \A k \in 2..n : k \div 2 # i => ~Precedes(h[k], h[k \div 2])
      /\ \A k \in 2..n : k \div 2 = i /\ i \div 2 # 0 => ~Precedes(h[k], h[i \div 2])
      /\ Precedes(h[l], h[i])
  BY LessPrecedes DEF SinkingAt
<1>5. ASSUME NEW k \in 2..n, k \div 2 # l PROVE ~Precedes(g[k], g[k \div 2])
  <2>1. PICK p \in 1..N : p = k \div 2 /\ p < k
    OBVIOUS
  <2>2. CASE k = l
    <3>1. g[k] = h[i] /\ g[p] = h[l]
      BY <1>1, <1>3, <2>1, <2>2
    <3> QED  BY <1>1, <1>2, <1>4, <2>1, <3>1, PrecedesOrders
  <2>3. CASE k # l /\ p = i
    <3>1. g[k] = h[k] /\ g[p] = h[l]
      BY <1>1, <1>3, <2>1, <2>3
    <3> QED  BY <1>1, <2>1, <2>3, <3>1
  <2>4. CASE k = i
    <3>1. g[k] = h[l] /\ g[p] = h[p]
      BY <1>1, <1>3, <2>1, <2>4
    <3> QED  BY <1>1, <1>4, <2>1, <2>4, <3>1
  <2>5. CASE k # l /\ p # i /\ k # i
    <3>1. g[k] = h[k] /\ g[p] = h[p]
      BY <1>3, <1>5, <2>1, <2>5
    <3> QED  BY <1>4, <2>1, <2>5, <3>1
  <2> QED  BY <2>2, <2>3, <2>4, <2>5
<1>6. ASSUME NEW k \in 2..n, k \div 2 = l PROVE ~Precedes(g[k], g[l \div 2])
  <2>1. k # i /\ k # l /\ k \in 1..N
    BY <1>1, <1>6
  <2>2. g[k] = h[k] /\ g[i] = h[l]
    BY <1>3, <2>1
  <2> QED  BY <1>1, <1>4, <1>6, <2>2
<1>7. SinkingAt(g, n, l)
  BY <1>5, <1>6, LessPrecedes DEF SinkingAt
<1> QED  BY <1>7 DEF g

\* Where nothing sinks any further, the elements are in order.
LEMMA SinkStops ==
    ASSUME NEW N \in Nat, NEW n \in 0..N, NEW S \in SUBSET Entry, NEW h \in Slices(N, S),
           NEW i \in 1..N, SinkingAt(h, n, i),
           2 * i > n \/ ~Less(h, Lesser(h, i, n), i)
    PROVE  Ordered(h, n)
<1> SUFFICES ASSUME NEW k \in 2..n, k \div 2 = i PROVE ~Less(h, k, i)
  BY DEF Ordered, SinkingAt
<1>1. 2 * i <= n /\ k \in 1..N
  OBVIOUS
<1>2. PICK l : l = Lesser(h, i, n)
  OBVIOUS
<1>3. l \in 1..N /\ ~Precedes(h[k], h[l])
  BY <1>1, <1>2, LesserChild
<1>4. ~Precedes(h[l], h[i])
  BY <1>1, <1>2, LessPrecedes
<1>5. h[k] \in Entry /\ h[l] \in Entry /\ h[i] \in Entry
  BY <1>1, <1>3 DEF Slices
<1> QED  BY <1>3, <1>4, <1>5, PrecedesOrders, LessPrecedes

IsSink(f, N, n, S) == f = [i \in 1..N |-> Sink(f, Slices(N, S), n, i)]

\* sink puts at i right what is wrong there only.
SinksWell(f, N, n, S, i) ==
    \A h \in Slices(N, S) : SinkingAt(h, n, i) =>
        /\ f[i][h] \in Slices(N, S)
        /\ Ordered(f[i][h], n)
        /\ Permuted(f[i][h], h, n)

LEMMA SinkOrders ==
    ASSUME NEW N \in Nat, NEW n \in 0..N, NEW S \in SUBSET Entry, NEW f, IsSink(f, N, n, S),
           NEW i \in 1..N
    PROVE  SinksWell(f, N, n, S, i)
<1> DEFINE M == {m \in Nat : \A k \in 1..N : N - k < m => SinksWell(f, N, n, S, k)}
<1>1. 0 \in M
  OBVIOUS
<1>2. ASSUME NEW m \in Nat, m \in M PROVE m + 1 \in M
  <2> SUFFICES ASSUME NEW k \in 1..N, N - k < m + 1 PROVE SinksWell(f, N, n, S, k)
    OBVIOUS
  <2>1. \A l \in (k + 1)..N : SinksWell(f, N, n, S, l)
    BY <1>2
  <2> HIDE DEF M
  <2> SUFFICES ASSUME NEW h \in Slices(N, S), SinkingAt(h, n, k)
               PROVE  /\ f[k][h] \in Slices(N, S)
                      /\ Ordered(f[k][h], n)
                      /\ Permuted(f[k][h], h, n)
    BY DEF SinksWell
  <2>2. PICK l : l = Lesser(h, k, n)
    OBVIOUS
  <2>3. f[k][h] = IF 2 * k > n \/ ~Less(h, l, k) THEN h ELSE f[l][Swapped(h, k, l)]
    <3>1. f[k] = Sink(f, Slices(N, S), n, k)
      BY DEF IsSink
    <3> QED  BY <2>2, <3>1 DEF Sink
  <2>4. CASE 2 * k > n \/ ~Less(h, l, k)
    <3>1. f[k][h] = h
      BY <2>3, <2>4
    <3>2. Ordered(h, n)
      BY <2>2, <2>4, SinkStops
    <3> QED  BY <3>1, <3>2, PermutedSelf
  <2>5. CASE 2 * k <= n /\ Less(h, l, k)
    <3>1. l \in 2..n /\ l > k
      BY <2>2, <2>5, LesserChild
    <3>2. PICK s : s = Swapped(h, k, l)
      OBVIOUS
    <3>3. s \in Slices(N, S) /\ Permuted(s, h, n)
      <4>1. l \in 1..N /\ k # l /\ k <= n /\ l <= n
        BY <3>1
      <4> QED  BY <3>2, <4>1, SwappedPermutes
    <3>4. SinkingAt(s, n, l)
      BY <2>2, <2>5, <3>2, SinkStep
    <3>5. SinksWell(f, N, n, S, l)
      BY <2>1, <3>1
    <3>6. /\ f[l][s] \in Slices(N, S)
          /\ Ordered(f[l][s], n)
          /\ Permuted(f[l][s], s, n)
      BY <3>3, <3>4, <3>5 DEF SinksWell
    <3>7. f[k][h] = f[l][s]
      BY <2>3, <2>5, <3>2
    <3> QED  BY <3>3, <3>6, <3>7, PermutedAgain
  <2> QED  BY <2>4, <2>5
<1> HIDE DEF M
<1>3. N \in M
  BY <1>1, <1>2, Induction
<1> QED  BY <1>3 DEF M

\* What heap.Pop does to the slice whose root it has swapped with the last element.
LEMMA DownOrders ==
    ASSUME NEW N \in Nat, NEW n \in 0..N, NEW h \in Slices(N, Entry), NEW i \in 1..N,
           SinkingAt(h, n, i)
    PROVE  /\ Down(h, i, n) \in Slices(N, Range(h))
           /\ Ordered(Down(h, i, n), n)
           /\ Permuted(Down(h, i, n), h, n)
<1>1. DOMAIN h = 1..N /\ Range(h) \in SUBSET Entry /\ h \in Slices(N, Range(h))
  BY DEF Range, Slices
<1>2. PICK f : IsSink(f, N, n, Range(h)) /\ Down(h, i, n) = f[i][h]
  BY <1>1, DownSinks DEF IsSink, Slices
<1>3. SinksWell(f, N, n, Range(h), i)
  BY <1>1, <1>2, SinkOrders
<1> QED  BY <1>1, <1>2, <1>3 DEF SinksWell

(***************************************************************************)
(* The root is the first of all: no element precedes its parent, so none   *)
(* precedes the root.                                                      *)
(***************************************************************************)
LEMMA RootFirst ==
    ASSUME NEW n \in Nat, NEW h \in Slices(n, Entry), Ordered(h, n), NEW j \in 1..n
    PROVE  ~Precedes(h[j], h[1])
<1> DEFINE M == {m \in Nat : \A k \in 1..n : k <= m => ~Precedes(h[k], h[1])}
<1>1. \A k \in 1..n : h[k] \in Entry
  BY DEF Slices
<1>2. \A k \in 2..n : ~Precedes(h[k], h[k \div 2])
  BY LessPrecedes DEF Ordered
<1>3. 0 \in M
  OBVIOUS
<1>4. ASSUME NEW m \in Nat, m \in M PROVE m + 1 \in M
  <2> SUFFICES ASSUME NEW k \in 1..n, k = m + 1 PROVE ~Precedes(h[k], h[1])
    BY <1>4
  <2>1. CASE k = 1
    BY <1>1, <2>1, PrecedesOrders
  <2>2. CASE k # 1
    <3>1. PICK p \in 1..n : p = k \div 2 /\ p <= m
      BY <2>2
    <3>2. ~Precedes(h[k], h[p]) /\ ~Precedes(h[p], h[1])
      BY <1>2, <1>4, <2>2, <3>1
    <3>3. 1 \in 1..n
      OBVIOUS
    <3> QED  BY <1>1, <3>2, <3>3, PrecedesOrders
  <2> QED  BY <2>1, <2>2
<1> HIDE DEF M
<1>5. j \in M
  BY <1>3, <1>4, Induction
<1> QED  BY <1>5 DEF M

-------------------------------------------------------------------------------
(***************************************************************************)
(* The steps of the queue.                                                 *)
(***************************************************************************)
Pushed == [prio : Priorities, seq : 1..MaxPushes]

LEMMA PushedEntries == Pushed \subseteq Entry
<1>1. \A p \in Priorities : p \in Int
  BY QueueAssumption
<1>2. \A n \in 1..MaxPushes : n \in Int
  BY QueueAssumption
<1>3. \A e \in Pushed : e = [prio |-> e.prio, seq |-> e.seq]
                      /\ e.prio \in Priorities /\ e.seq \in 1..MaxPushes
  BY DEF Pushed
<1>4. \A e \in Pushed : e \in Entry
  BY <1>1, <1>2, <1>3 DEF Entry
<1> QED  BY <1>4

LEMMA SliceIsSeq ==
    ASSUME NEW S, NEW n \in Nat, NEW h
    PROVE  h \in Slices(n, S) <=> h \in Seq(S) /\ Len(h) = n
<1> QED  BY LenProperties, IsASeq DEF Slices

LEMMA HeapSlice ==
    ASSUME TypeOK
    PROVE  /\ Len(heap) \in Nat /\ DOMAIN heap = 1..Len(heap)
           /\ heap \in Slices(Len(heap), Entry) /\ Range(heap) \subseteq Pushed
           /\ Distinct(heap)
<1>1. Pushed \subseteq Entry
  BY PushedEntries
<1>2. heap \in Seq(Pushed)
  BY DEF TypeOK, Pushed
<1>3. Len(heap) \in Nat /\ DOMAIN heap = 1..Len(heap) /\ heap \in Slices(Len(heap), Pushed)
  BY <1>2, SliceIsSeq, LenProperties
<1>4. heap \in Slices(Len(heap), Entry) /\ Range(heap) \subseteq Pushed
  BY <1>1, <1>3 DEF Slices, Range
<1> QED  BY <1>3, <1>4 DEF TypeOK, Distinct

\* What is left to show of a slice.
LEMMA TypedSlice ==
    ASSUME NEW n \in Nat, NEW S \in SUBSET Pushed, NEW h \in Slices(n, S), NEW m \in 0..MaxPushes,
           \A e \in S : e.seq <= m, Distinct(h)
    PROVE  /\ h \in Seq([prio : Priorities, seq : 1..MaxPushes])
           /\ m \in 0..MaxPushes
           /\ \A i \in DOMAIN h : h[i].seq <= m
           /\ \A i, k \in DOMAIN h : h[i].seq = h[k].seq => i = k
<1>1. h \in Slices(n, Pushed) /\ \A i \in DOMAIN h : h[i] \in S
  BY DEF Slices
<1>2. h \in Seq(Pushed)
  BY <1>1, SliceIsSeq
<1> QED  BY <1>1, <1>2 DEF Distinct, Pushed

LEMMA PushOrders ==
    ASSUME TypeOK, HeapOrdered, NEW p \in Priorities, Push(p)
    PROVE  /\ TypeOK' /\ HeapOrdered'
           /\ Range(heap') = Range(heap) \cup {[prio |-> p, seq |-> seq']}
<1> DEFINE n == Len(heap)
           e == [prio |-> p, seq |-> seq']
           h == Append(heap, e)
<1>1. /\ n \in Nat /\ DOMAIN heap = 1..n /\ heap \in Slices(n, Entry)
      /\ Range(heap) \subseteq Pushed /\ Distinct(heap)
  BY HeapSlice
<1>2. /\ seq \in 0..MaxPushes /\ seq' = seq + 1 /\ seq' \in 0..MaxPushes /\ e \in Pushed
      /\ heap' = Up(h, n + 1)
      /\ \A i \in 1..n : heap[i].seq <= seq
  BY <1>1, QueueAssumption DEF Push, TypeOK, Pushed
<1>3. Pushed \subseteq Entry
  BY PushedEntries
<1>4. /\ h \in Slices(n + 1, Entry) /\ h[n + 1] = e
      /\ \A i \in 1..n : h[i] = heap[i]
  <2>1. heap \in Seq(Entry) /\ e \in Entry
    BY <1>1, <1>2, <1>3, SliceIsSeq
  <2>2. /\ h \in Seq(Entry) /\ Len(h) = n + 1 /\ h[n + 1] = e
        /\ \A i \in 1..n : h[i] = heap[i]
    BY <2>1, AppendProperties
  <2>3. n + 1 \in Nat
    BY <1>1
  <2> HIDE DEF h, e, n
  <2> QED  BY <2>2, <2>3, SliceIsSeq
<1> HIDE DEF h, e, n
<1>5. Range(h) = Range(heap) \cup {e}
  <2>1. DOMAIN h = 1..(n + 1)
    BY <1>4 DEF Slices
  <2>2. Range(h) \subseteq Range(heap) \cup {e}
    BY <1>1, <1>4, <2>1 DEF Range
  <2>3. Range(heap) \cup {e} \subseteq Range(h)
    BY <1>1, <1>4, <2>1 DEF Range
  <2> QED  BY <2>2, <2>3
<1>6. Distinct(h)
  BY <1>1, <1>2, <1>4 DEF Distinct, Slices, e, TypeOK
<1>7. ClimbingAt(h, n + 1, n + 1)
  <2>1. ASSUME NEW k \in 2..(n + 1), k # n + 1 PROVE ~Less(h, k, k \div 2)
    <3>1. k \in 2..n /\ k \in 1..n /\ k \div 2 \in 1..n
      BY <1>1, <2>1
    <3>2. ~Less(heap, k, k \div 2)
      BY <3>1 DEF HeapOrdered, n
    <3> QED  BY <1>4, <3>1, <3>2, LessPrecedes
  <2>2. \A k \in 2..(n + 1) : k \div 2 # n + 1
    BY <1>1
  <2> QED  BY <2>1, <2>2 DEF ClimbingAt
<1>8. /\ heap' \in Slices(n + 1, Range(h)) /\ Ordered(heap', n + 1)
      /\ Permuted(heap', h, n + 1)
  BY <1>1, <1>2, <1>4, <1>7, UpOrders
<1>9. Range(heap') = Range(heap) \cup {e} /\ Distinct(heap')
  BY <1>5, <1>6, <1>8 DEF Permuted
<1>10. Len(heap') = n + 1
  BY <1>1, <1>8, SliceIsSeq
<1>11. HeapOrdered'
  BY <1>8, <1>10 DEF Ordered, HeapOrdered
<1>12. TypeOK'
  <2>1. Range(h) \in SUBSET Pushed /\ \A f \in Range(h) : f.seq <= seq'
    <3>1. Range(h) \in SUBSET Pushed
      BY <1>1, <1>2, <1>5
    <3>2. \A f \in Range(heap) : f.seq <= seq'
      <4>1. \A f \in Range(heap) : f.seq <= seq /\ f \in Pushed
        BY <1>1, <1>2 DEF Range
      <4>2. \A f \in Range(heap) : f.seq \in Nat
        BY <4>1, QueueAssumption DEF Pushed
      <4> QED  BY <1>2, <4>1, <4>2
    <3>3. e.seq <= seq'
      BY <1>2 DEF e
    <3> QED  BY <1>5, <3>1, <3>2, <3>3
  <2>2. n + 1 \in Nat
    BY <1>1
  <2>3. PICK g, m : g = heap' /\ m = seq'
    OBVIOUS
  <2>4. /\ g \in Slices(n + 1, Range(h)) /\ m \in 0..MaxPushes /\ Distinct(g)
        /\ \A f \in Range(h) : f.seq <= m
    BY <1>2, <1>8, <1>9, <2>1, <2>3
  <2>5. /\ g \in Seq([prio : Priorities, seq : 1..MaxPushes])
        /\ m \in 0..MaxPushes
        /\ \A i \in DOMAIN g : g[i].seq <= m
        /\ \A i, k \in DOMAIN g : g[i].seq = g[k].seq => i = k
    BY <2>1, <2>2, <2>4, TypedSlice
  <2> QED  BY <2>3, <2>5 DEF TypeOK
<1> QED  BY <1>9, <1>11, <1>12 DEF e

LEMMA PopOrders ==
    ASSUME TypeOK, HeapOrdered, Pop, heap # <<>>
    PROVE  /\ TypeOK' /\ HeapOrdered'
           /\ popped' = heap[1] /\ Range(heap') = Range(heap) \ {heap[1]}
<1> DEFINE N == Len(heap)
           n == N - 1
           s == Swapped(heap, 1, N)
           d == IF n = 0 THEN heap ELSE Down(s, 1, n)
<1>1. /\ N \in Nat /\ DOMAIN heap = 1..N /\ heap \in Slices(N, Entry)
      /\ Range(heap) \subseteq Pushed /\ Distinct(heap)
  BY HeapSlice
<1>2. N # 0 /\ n \in 0..N /\ n \in Nat /\ n + 1 = N /\ N \in 1..N /\ 1 \in 1..N
  <2>1. N # 0
    BY <1>1, EmptySeq, SliceIsSeq
  <2> QED  BY <1>1, <2>1
<1>3. popped' = Last(d) /\ heap' = Front(d) /\ seq' = seq
  BY <1>2 DEF Pop
<1> HIDE DEF N
<1>4. /\ d \in Slices(N, Range(heap)) /\ Ordered(d, n) /\ d[N] = heap[1]
      /\ Range(d) = Range(heap) /\ Distinct(d)
  <2>1. CASE n = 0
    <3>1. d = heap /\ N = 1
      BY <1>2, <2>1
    <3>2. Ordered(heap, n)
      BY <2>1 DEF Ordered
    <3> QED  BY <1>1, <3>1, <3>2 DEF Slices, Range
  <2>2. CASE n # 0
    <3> DEFINE R == Range(heap)
    <3>1. /\ s \in Slices(N, Entry)
          /\ \A k \in 1..N : s[k] = IF k = 1 THEN heap[N] ELSE IF k = N THEN heap[1] ELSE heap[k]
          /\ Permuted(s, heap, N)
      <4>1. N # 1
        BY <1>2, <2>2
      <4> QED  BY <1>1, <1>2, <4>1, SwappedWhole
    <3> HIDE DEF s
    <3>2. SinkingAt(s, n, 1)
      <4>1. ASSUME NEW k \in 2..n, k \div 2 # 1 PROVE ~Less(s, k, k \div 2)
        <5>1. PICK i \in 2..n : i = k \div 2
          <6>1. k \div 2 \in 2..n
            BY <1>2, <4>1
          <6> QED  BY <6>1
        <5>2. s[k] = heap[k] /\ s[i] = heap[i] /\ k \in 2..N
          BY <1>2, <3>1
        <5>3. ~Less(heap, k, i)
          BY <5>1, <5>2 DEF HeapOrdered, N
        <5> QED  BY <5>1, <5>2, <5>3, LessPrecedes
      <4>2. 1 \div 2 = 0
        OBVIOUS
      <4> QED  BY <4>1, <4>2 DEF SinkingAt
    <3>3. /\ d \in Slices(N, Range(s)) /\ Ordered(d, n) /\ Permuted(d, s, n)
      <4>1. d = Down(s, 1, n)
        BY <2>2
      <4> HIDE DEF d
      <4>2. n \in 0..N /\ 1 \in 1..N
        BY <1>2
      <4> HIDE DEF n
      <4> QED  BY <1>1, <3>1, <3>2, <4>1, <4>2, DownOrders
    <3> HIDE DEF d
    <3>4. Range(d) = Range(heap) /\ Distinct(d) /\ Range(s) = Range(heap)
      BY <1>1, <3>1, <3>3 DEF Permuted
    <3>5. d[N] = s[N] /\ s[N] = heap[1]
      <4>1. N \in DOMAIN s /\ N > n /\ N # 1
        BY <1>2, <2>2, <3>1 DEF Slices
      <4> QED  BY <1>2, <3>1, <3>3, <4>1 DEF Permuted
    <3> QED  BY <3>3, <3>4, <3>5
  <2> QED  BY <2>1, <2>2
<1> HIDE DEF d
<1>5. d \in Seq(Range(heap)) /\ Len(d) = N
  BY <1>1, <1>4, SliceIsSeq
<1>6. popped' = heap[1]
  BY <1>3, <1>4, <1>5 DEF Last
<1>7. heap' \in Slices(n, Range(heap)) /\ \A i \in 1..n : heap'[i] = d[i]
  <2>1. heap' = SubSeq(d, 1, n)
    BY <1>3, <1>5 DEF Front
  <2>2. SubSeq(d, 1, n) \in Seq(Range(heap)) /\ Len(SubSeq(d, 1, n)) = n
        /\ \A i \in 1..n : SubSeq(d, 1, n)[i] = d[i]
    BY <1>2, <1>5, SubSeqProperties
  <2> QED  BY <1>2, <2>1, <2>2, SliceIsSeq
<1>8. DOMAIN heap' = 1..n /\ DOMAIN d = 1..N /\ Len(heap') = n
  BY <1>2, <1>4, <1>7, SliceIsSeq DEF Slices
<1>9. Distinct(heap')
  BY <1>2, <1>4, <1>7, <1>8 DEF Distinct
<1>10. Range(heap') = Range(heap) \ {heap[1]}
  <2>1. \A i \in 1..n : d[i] # d[N]
    BY <1>2, <1>4, <1>8 DEF Distinct
  <2>2. \A i \in 1..N : i \in 1..n \/ i = N
    BY <1>2
  <2>3. Range(heap') \subseteq Range(d) \ {d[N]}
    BY <1>2, <1>7, <1>8, <2>1 DEF Range
  <2>4. Range(d) \ {d[N]} \subseteq Range(heap')
    BY <1>7, <1>8, <2>2 DEF Range
  <2> QED  BY <1>4, <2>3, <2>4
<1>11. HeapOrdered'
  <2> SUFFICES ASSUME NEW k \in 2..n PROVE ~Less(heap', k, k \div 2)
    BY <1>8 DEF HeapOrdered
  <2>1. k \in 1..n /\ k \div 2 \in 1..n
    BY <1>2
  <2>2. ~Less(d, k, k \div 2)
    BY <1>4 DEF Ordered
  <2> QED  BY <1>7, <2>1, <2>2, LessPrecedes
<1>12. TypeOK'
  <2>1. Range(heap) \in SUBSET Pushed /\ seq \in 0..MaxPushes /\ \A e \in Range(heap) : e.seq <= seq
    BY <1>1 DEF TypeOK, Range
  <2> QED  BY <1>2, <1>3, <1>7, <1>9, <2>1, TypedSlice DEF TypeOK
<1> QED  BY <1>6, <1>10, <1>11, <1>12

-------------------------------------------------------------------------------
(***************************************************************************)
(* The two invariants are inductive together: Up and Down need the order   *)
(* to restore it, and ties never being ties to keep each entry once.       *)
(***************************************************************************)
HeapInv == TypeOK /\ HeapOrdered

LEMMA InitHeap == Init => HeapInv
<1>1. ASSUME heap = <<>>, seq = 0 PROVE HeapInv
  <2>1. heap \in Seq([prio : Priorities, seq : 1..MaxPushes]) /\ Len(heap) = 0 /\ DOMAIN heap = {}
    BY <1>1, EmptySeq
  <2> QED  BY <1>1, <2>1, QueueAssumption DEF HeapInv, TypeOK, HeapOrdered
<1> QED  BY <1>1 DEF Init

LEMMA HeapStep == HeapInv /\ [Next]_vars => HeapInv'
<1> SUFFICES ASSUME HeapInv, [Next]_vars PROVE HeapInv'
  OBVIOUS
<1>1. ASSUME NEW p \in Priorities, Push(p) PROVE HeapInv'
  BY <1>1, PushOrders DEF HeapInv
<1>2. CASE Pop /\ heap # <<>>
  BY <1>2, PopOrders DEF HeapInv
<1>3. CASE UNCHANGED <<heap, seq>>
  BY <1>3 DEF HeapInv, TypeOK, HeapOrdered, Less
<1>4. CASE Pop /\ heap = <<>>
  BY <1>3, <1>4 DEF Pop
<1>5. CASE UNCHANGED vars
  BY <1>3, <1>5 DEF vars
<1> QED  BY <1>1, <1>2, <1>4, <1>5 DEF Next

LEMMA AlwaysHeap == Spec => []HeapInv
<1> QED  BY InitHeap, HeapStep, PTL DEF Spec

(***************************************************************************)
(* The slice holds entries that were pushed, each under a number of its    *)
(* own, whatever was pushed and popped before (queue.go:22-40, 63-64).     *)
(***************************************************************************)
THEOREM Typing == Spec => []TypeOK
<1> QED  BY AlwaysHeap, PTL DEF HeapInv

(***************************************************************************)
(* Every Push and every Pop leaves the slice in heap order, for queues of  *)
(* any length and any priorities (queue.go:58-65).                         *)
(***************************************************************************)
THEOREM HeapKept == Spec => []HeapOrdered
<1> QED  BY AlwaysHeap, PTL DEF HeapInv

-------------------------------------------------------------------------------
(***************************************************************************)
(* The refinement: the entries of the queue are the elements of the slice. *)
(***************************************************************************)
LEMMA InitMaps == Init => Abstract!Init
<1>1. ASSUME heap = <<>> PROVE Range(heap) = {}
  BY <1>1, EmptySeq DEF Range
<1> QED  BY <1>1 DEF Init, Abstract!Init, Nothing, Abstract!Nothing

LEMMA PushMaps ==
    ASSUME HeapInv, NEW p \in Priorities, Push(p)
    PROVE  Abstract!Push(p)
<1>1. Range(heap') = Range(heap) \cup {[prio |-> p, seq |-> seq']}
  BY PushOrders DEF HeapInv
<1> QED  BY <1>1 DEF Push, Abstract!Push, Nothing, Abstract!Nothing

\* The root is the one entry Pop must return: no other ties with it.
LEMMA RootIsFirst ==
    ASSUME HeapInv, heap # <<>>
    PROVE  Abstract!IsFirst(heap[1], Range(heap))
<1>1. /\ Len(heap) \in Nat /\ DOMAIN heap = 1..Len(heap)
      /\ heap \in Slices(Len(heap), Entry) /\ Distinct(heap)
  BY HeapSlice DEF HeapInv
<1>2. 1 \in DOMAIN heap
  <2>1. Len(heap) # 0
    BY <1>1, EmptySeq, SliceIsSeq
  <2> QED  BY <1>1, <2>1
<1>3. Ordered(heap, Len(heap))
  BY DEF HeapInv, HeapOrdered, Ordered
<1>4. \A j \in DOMAIN heap : heap[j] \in Entry /\ ~Precedes(heap[j], heap[1])
  BY <1>1, <1>3, RootFirst DEF Slices
<1>5. ASSUME NEW f \in Range(heap) \ {heap[1]} PROVE Abstract!Before(heap[1], f)
  <2>1. PICK j \in DOMAIN heap : f = heap[j]
    BY DEF Range
  <2>2. f.seq # heap[1].seq
    BY <1>2, <1>5, <2>1, <1>1 DEF Distinct
  <2>3. f \in Entry /\ heap[1] \in Entry /\ ~Precedes(f, heap[1])
    BY <1>2, <1>4, <2>1
  <2> QED  BY <2>2, <2>3 DEF Precedes, Entry, Abstract!Before
<1>6. heap[1] \in Range(heap)
  BY <1>2 DEF Range
<1> QED  BY <1>5, <1>6 DEF Abstract!IsFirst

LEMMA PopMaps ==
    ASSUME HeapInv, Pop
    PROVE  Abstract!Pop
<1>1. CASE heap = <<>>
  <2>1. Range(heap) = {}
    BY <1>1, EmptySeq DEF Range
  <2>2. popped' = Nothing /\ heap' = heap /\ seq' = seq
    BY <1>1 DEF Pop
  <2>3. Range(heap') = Range(heap)
    BY <2>2
  <2> QED  BY <2>1, <2>2, <2>3 DEF Abstract!Pop, Nothing, Abstract!Nothing
<1>2. CASE heap # <<>>
  <2>1. popped' = heap[1] /\ Range(heap') = Range(heap) \ {heap[1]}
    BY <1>2, PopOrders DEF HeapInv
  <2>2. seq' = seq
    BY <1>2 DEF Pop
  <2>3. Abstract!IsFirst(heap[1], Range(heap)) /\ heap[1] \in Range(heap)
    BY <1>2, RootIsFirst DEF Abstract!IsFirst
  <2> QED  BY <2>1, <2>2, <2>3 DEF Abstract!Pop
<1> QED  BY <1>1, <1>2

LEMMA StepMaps ==
    HeapInv /\ [Next]_vars => [Abstract!Next]_Abstract!vars
<1> SUFFICES ASSUME HeapInv, [Next]_vars PROVE [Abstract!Next]_Abstract!vars
  OBVIOUS
<1>1. ASSUME NEW p \in Priorities, Push(p) PROVE Abstract!Next
  BY <1>1, PushMaps DEF Abstract!Next
<1>2. CASE Pop
  BY <1>2, PopMaps DEF Abstract!Next
<1>3. CASE UNCHANGED vars
  <2>1. heap' = heap /\ seq' = seq /\ popped' = popped
    BY <1>3 DEF vars
  <2>2. Range(heap') = Range(heap)
    BY <2>1
  <2> QED  BY <2>1, <2>2 DEF Abstract!vars
<1> QED  BY <1>1, <1>2, <1>3 DEF Next

(***************************************************************************)
(* Every Pop returns the entry of highest priority pushed first, for any   *)
(* number of pushes interleaved with pops in any way (queue.go:9, 22-40):  *)
(* the slice implements the queue it promises.                             *)
(***************************************************************************)
THEOREM QueueImplemented == Spec => ImplementsQueue
<1> QED  BY AlwaysHeap, InitMaps, StepMaps, PTL DEF Spec, ImplementsQueue, Abstract!Spec
===============================================================================
