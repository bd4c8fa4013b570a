--------------------------- MODULE Scheduler_proofs ---------------------------
(***************************************************************************)
(* The binary heap of the scheduler stays in order and in step with its    *)
(* index, and implements the agenda, for every number of events.           *)
(*                                                                         *)
(* Loops are reasoned about by the states they pass: while #up runs, the   *)
(* heap is in order but for the event that rises (ButEarly); while #down   *)
(* runs, but for the event that sinks (ButLate); each turn leaves the      *)
(* event at another place of the path, so the turns of Up and Down are     *)
(* enough.  The induction needed is that a set of natural numbers with 0   *)
(* and the successor of each of its members holds them all, and it follows *)
(* from the fact that a non-empty one has a least member.                  *)
(***************************************************************************)
EXTENDS Scheduler, FiniteSetTheorems, SequenceTheorems, WellFoundedInduction, TLAPS

-----------------------------------------------------------------------------
(* Induction over the natural numbers, in terms of sets                     *)

LEMMA Least ==
    ASSUME NEW T \in SUBSET Nat, T # {}
    PROVE  \E x \in T : \A y \in T : x <= y
  <1> DEFINE R == OpToRel(<, Nat)
  <1>1. IsWellFoundedOn(R, Nat)
    BY NatLessThanWellFounded
  <1>2. \A x, y \in Nat : y < x => <<y, x>> \in R
    BY DEF OpToRel
  <1>3. T \subseteq Nat
    OBVIOUS
  <1> HIDE DEF R
  <1>4. PICK x \in T : \A y \in T : ~(<<y, x>> \in R)
    BY <1>1, <1>3, WFMin
  <1>5. \A y \in T : y \in Nat /\ x \in Nat /\ ~(y < x)
    BY <1>2, <1>4
  <1> QED
    BY <1>5

LEMMA Inductive ==
    ASSUME NEW T, 0 \in T, \A n \in Nat : n \in T => n + 1 \in T
    PROVE  Nat \subseteq T
  <1> SUFFICES ASSUME Nat \ T # {} PROVE FALSE
    OBVIOUS
  <1> DEFINE U == Nat \ T
  <1>1. U \in SUBSET Nat /\ U # {}
    OBVIOUS
  <1> HIDE DEF U
  <1>2. PICK x \in U : \A y \in U : x <= y
    BY <1>1, Least
  <1>3. x \in Nat /\ x \notin T
    BY DEF U
  <1>4. x # 0 /\ x - 1 \in Nat /\ (x - 1) + 1 = x /\ ~(x <= x - 1)
    BY <1>3
  <1>5. x - 1 \notin U
    BY <1>2, <1>4
  <1>6. x - 1 \in T
    BY <1>4, <1>5 DEF U
  <1> QED
    BY <1>3, <1>4, <1>6

\* A function on the natural numbers is there when each value says the next.
Recurs(S, a, F, g) == g \in [Nat -> S] /\ g[0] = a /\ \A n \in Nat : g[n + 1] = F[<<n + 1, g[n]>>]
Defined(S, a, F) == \E g : Recurs(S, a, F, g)

LEMMA Recursion ==
    ASSUME NEW S, NEW a \in S, NEW F \in [Nat \X S -> S]
    PROVE  Defined(S, a, F)
  <1> DEFINE Approximates(h, n) == /\ h \in [0..n -> S] /\ h[0] = a
                                   /\ \A k \in 0..(n - 1) : h[k + 1] = F[<<k + 1, h[k]>>]
             T == {n \in Nat : \E h \in [0..n -> S] : Approximates(h, n)}
  <1>1. 0 \in T
    <2> DEFINE h == [k \in 0..0 |-> a]
    <2>1. h \in [0..0 -> S] /\ h[0] = a /\ 0..(0 - 1) = {}
      OBVIOUS
    <2> QED
      BY <2>1
  <1>2. ASSUME NEW n \in Nat, n \in T PROVE n + 1 \in T
    <2>1. PICK h \in [0..n -> S] : Approximates(h, n)
      BY <1>2
    <2> DEFINE x == F[<<n + 1, h[n]>>]
               g == [k \in 0..(n + 1) |-> IF k = n + 1 THEN x ELSE h[k]]
    <2>2. x \in S
      <3>1. h[n] \in S /\ n + 1 \in Nat
        BY <2>1
      <3>2. <<n + 1, h[n]>> \in Nat \X S
        BY <3>1
      <3> QED
        BY <3>2
    <2>3. \A k \in 0..n : g[k] = h[k] /\ h[k] \in S
      BY <2>1
    <2>4. g[n + 1] = x
      OBVIOUS
    <2>5. g \in [0..(n + 1) -> S]
      <3>1. \A k \in 0..(n + 1) : k = n + 1 \/ k \in 0..n
        OBVIOUS
      <3> HIDE DEF x
      <3> QED
        BY <2>2, <2>3, <3>1
    <2>6. g[0] = a
      BY <2>1, <2>3
    <2>7. ASSUME NEW k \in 0..n PROVE g[k + 1] = F[<<k + 1, g[k]>>]
      <3>1. CASE k = n
        <4> HIDE DEF g
        <4>1. g[n] = h[n]
          BY <2>3
        <4> QED
          BY <2>4, <3>1, <4>1
      <3>2. CASE k # n
        <4>1. k \in 0..(n - 1) /\ k + 1 \in 0..n
          BY <3>2
        <4> HIDE DEF g
        <4>2. g[k + 1] = h[k + 1] /\ g[k] = h[k]
          BY <2>3, <4>1
        <4>3. h[k + 1] = F[<<k + 1, h[k]>>]
          BY <2>1, <4>1
        <4> QED
          BY <4>2, <4>3
      <3> QED
        BY <3>1, <3>2
    <2>8. Approximates(g, n + 1)
      <3>1. (n + 1) - 1 = n
        OBVIOUS
      <3> HIDE DEF g
      <3> QED
        BY <2>5, <2>6, <2>7, <3>1
    <2> HIDE DEF g
    <2> QED
      BY <2>5, <2>8
  <1>3. \A n \in Nat : \E h \in [0..n -> S] : Approximates(h, n)
    <2> HIDE DEF Approximates
    <2>1. Nat \subseteq T
      <3> HIDE DEF T
      <3> QED
        BY <1>1, <1>2, Inductive
    <2> QED
      BY <2>1
  <1>4. ASSUME NEW m \in Nat, NEW n \in Nat, NEW g, NEW h, Approximates(g, m), Approximates(h, n)
        PROVE  \A k \in Nat : k <= m /\ k <= n => g[k] = h[k]
    <2> DEFINE U == {k \in Nat : k <= m /\ k <= n => g[k] = h[k]}
    <2>1. 0 \in U
      BY <1>4
    <2>2. ASSUME NEW k \in Nat, k \in U PROVE k + 1 \in U
      <3> SUFFICES ASSUME k + 1 <= m, k + 1 <= n PROVE g[k + 1] = h[k + 1]
        OBVIOUS
      <3>1. k <= m /\ k <= n /\ k \in 0..(m - 1) /\ k \in 0..(n - 1)
        OBVIOUS
      <3>2. g[k] = h[k]
        BY <2>2, <3>1
      <3>3. g[k + 1] = F[<<k + 1, g[k]>>] /\ h[k + 1] = F[<<k + 1, h[k]>>]
        BY <1>4, <3>1
      <3> QED
        BY <3>2, <3>3
    <2>3. Nat \subseteq U
      <3> HIDE DEF U
      <3> QED
        BY <2>1, <2>2, Inductive
    <2> QED
      BY <2>3
  <1> DEFINE Chosen(n) == CHOOSE h \in [0..n -> S] : Approximates(h, n)
             g == [n \in Nat |-> Chosen(n)[n]]
  <1>5. \A n \in Nat : Approximates(Chosen(n), n)
    <2> HIDE DEF Approximates
    <2> QED
      BY <1>3
  <1> HIDE DEF Chosen
  <1>6. g \in [Nat -> S]
    BY <1>5
  <1>7. g[0] = a
    BY <1>5
  <1>8. ASSUME NEW n \in Nat PROVE g[n + 1] = F[<<n + 1, g[n]>>]
    <2>1. Chosen(n + 1)[n] = Chosen(n)[n]
      <3> HIDE DEF Approximates
      <3> QED
        BY <1>4, <1>5
    <2>2. n \in 0..((n + 1) - 1)
      OBVIOUS
    <2>3. Chosen(n + 1)[n + 1] = F[<<n + 1, Chosen(n + 1)[n]>>]
      BY <1>5, <2>2
    <2> QED
      BY <2>1, <2>3
  <1> HIDE DEF g
  <1>9. Recurs(S, a, F, g)
    BY <1>6, <1>7, <1>8 DEF Recurs
  <1> QED
    BY <1>9 DEF Defined

-----------------------------------------------------------------------------
(* Loops                                                                    *)

LEMMA SameValues ==
    ASSUME NEW f, NEW g, f[0] = g[0], \A n \in Nat : f[n] = g[n] => f[n + 1] = g[n + 1]
    PROVE  \A n \in Nat : f[n] = g[n]
  <1> DEFINE T == {n \in Nat : f[n] = g[n]}
  <1>1. 0 \in T /\ \A n \in Nat : n \in T => n + 1 \in T
    OBVIOUS
  <1>2. Nat \subseteq T
    <2> HIDE DEF T
    <2> QED
      BY <1>1, Inductive
  <1> QED
    BY <1>2

\* A loop whose turns stay in G goes through a sequence of states of G.
RiseRun(G, S, i, g) == /\ g \in [Nat -> G] /\ g[0] = At(S, i)
                       /\ \A k \in Nat : g[k + 1] = RiseTurn(g[k])
                       /\ Up(S, i) = g[Len(S.heap)]

LEMMA RiseLoop ==
    ASSUME NEW G, NEW S, NEW i, At(S, i) \in G, Len(S.heap) \in Nat, \A L \in G : RiseTurn(L) \in G
    PROVE  \E g : RiseRun(G, S, i, g)
  <1> DEFINE a == At(S, i)
             F == [x \in Nat \X G |-> RiseTurn(x[2])]
             Is(f) == f = [n \in Nat |-> IF n = 0 THEN a ELSE RiseTurn(f[n - 1])]
  <1>1. a \in G /\ F \in [Nat \X G -> G]
    OBVIOUS
  <1>2. PICK g \in [Nat -> G] : g[0] = a /\ \A k \in Nat : g[k + 1] = F[<<k + 1, g[k]>>]
    <2> HIDE DEF a, F
    <2>1. Defined(G, a, F)
      BY <1>1, Recursion
    <2> QED
      BY <2>1, Zenon DEF Defined, Recurs
  <1>3. \A k \in Nat : g[k + 1] = RiseTurn(g[k])
    <2> SUFFICES ASSUME NEW k \in Nat PROVE g[k + 1] = RiseTurn(g[k])
      OBVIOUS
    <2>1. <<k + 1, g[k]>> \in Nat \X G /\ <<k + 1, g[k]>>[2] = g[k]
      OBVIOUS
    <2>2. F[<<k + 1, g[k]>>] = RiseTurn(g[k])
      BY <2>1
    <2> QED
      BY <1>2, <2>2
  <1>4. Is(g)
    <2>1. \A n \in Nat : g[n] = IF n = 0 THEN a ELSE RiseTurn(g[n - 1])
      <3> SUFFICES ASSUME NEW n \in Nat PROVE g[n] = IF n = 0 THEN a ELSE RiseTurn(g[n - 1])
        OBVIOUS
      <3>1. n # 0 => n - 1 \in Nat /\ (n - 1) + 1 = n
        OBVIOUS
      <3> QED
        BY <1>2, <1>3, <3>1
    <2> HIDE DEF a
    <2> QED
      BY <1>2, <2>1
  <1> DEFINE f == CHOOSE f : Is(f)
  <1>5. \A n \in Nat : f[n] = IF n = 0 THEN a ELSE RiseTurn(f[n - 1])
    <2>1. Is(f)
      <3> HIDE DEF Is
      <3> QED
        BY <1>4
    <2> HIDE DEF f, a
    <2> QED
      BY <2>1
  <1>6. Up(S, i) = f[Len(S.heap)]
    BY DEF Up
  <1> HIDE DEF f, a
  <1>7. f[0] = g[0] /\ \A n \in Nat : f[n] = g[n] => f[n + 1] = g[n + 1]
    <2>1. \A n \in Nat : n + 1 \in Nat /\ n + 1 # 0 /\ (n + 1) - 1 = n
      OBVIOUS
    <2>2. \A n \in Nat : f[n + 1] = RiseTurn(f[n]) /\ g[n + 1] = RiseTurn(g[n])
      BY <1>3, <1>5, <2>1
    <2>3. f[0] = g[0]
      BY <1>2, <1>5
    <2> QED
      BY <2>2, <2>3
  <1>8. \A n \in Nat : f[n] = g[n]
    BY <1>7, SameValues
  <1>9. Up(S, i) = g[Len(S.heap)]
    BY <1>6, <1>8
  <1>10. g \in [Nat -> G] /\ g[0] = At(S, i)
    BY <1>2 DEF a
  <1>11. RiseRun(G, S, i, g)
    BY <1>3, <1>9, <1>10 DEF RiseRun
  <1> QED
    BY <1>11

SinkRun(G, S, i, g) == /\ g \in [Nat -> G] /\ g[0] = At(S, i)
                       /\ \A k \in Nat : g[k + 1] = SinkTurn(g[k])
                       /\ Down(S, i) = g[Len(S.heap)]

LEMMA SinkLoop ==
    ASSUME NEW G, NEW S, NEW i, At(S, i) \in G, Len(S.heap) \in Nat, \A L \in G : SinkTurn(L) \in G
    PROVE  \E g : SinkRun(G, S, i, g)
  <1> DEFINE a == At(S, i)
             F == [x \in Nat \X G |-> SinkTurn(x[2])]
             Is(f) == f = [n \in Nat |-> IF n = 0 THEN a ELSE SinkTurn(f[n - 1])]
  <1>1. a \in G /\ F \in [Nat \X G -> G]
    OBVIOUS
  <1>2. PICK g \in [Nat -> G] : g[0] = a /\ \A k \in Nat : g[k + 1] = F[<<k + 1, g[k]>>]
    <2> HIDE DEF a, F
    <2>1. Defined(G, a, F)
      BY <1>1, Recursion
    <2> QED
      BY <2>1, Zenon DEF Defined, Recurs
  <1>3. \A k \in Nat : g[k + 1] = SinkTurn(g[k])
    <2> SUFFICES ASSUME NEW k \in Nat PROVE g[k + 1] = SinkTurn(g[k])
      OBVIOUS
    <2>1. <<k + 1, g[k]>> \in Nat \X G /\ <<k + 1, g[k]>>[2] = g[k]
      OBVIOUS
    <2>2. F[<<k + 1, g[k]>>] = SinkTurn(g[k])
      BY <2>1
    <2> QED
      BY <1>2, <2>2
  <1>4. Is(g)
    <2>1. \A n \in Nat : g[n] = IF n = 0 THEN a ELSE SinkTurn(g[n - 1])
      <3> SUFFICES ASSUME NEW n \in Nat PROVE g[n] = IF n = 0 THEN a ELSE SinkTurn(g[n - 1])
        OBVIOUS
      <3>1. n # 0 => n - 1 \in Nat /\ (n - 1) + 1 = n
        OBVIOUS
      <3> QED
        BY <1>2, <1>3, <3>1
    <2> HIDE DEF a
    <2> QED
      BY <1>2, <2>1
  <1> DEFINE f == CHOOSE f : Is(f)
  <1>5. \A n \in Nat : f[n] = IF n = 0 THEN a ELSE SinkTurn(f[n - 1])
    <2>1. Is(f)
      <3> HIDE DEF Is
      <3> QED
        BY <1>4
    <2> HIDE DEF f, a
    <2> QED
      BY <2>1
  <1>6. Down(S, i) = f[Len(S.heap)]
    BY DEF Down
  <1> HIDE DEF f, a
  <1>7. f[0] = g[0] /\ \A n \in Nat : f[n] = g[n] => f[n + 1] = g[n + 1]
    <2>1. \A n \in Nat : n + 1 \in Nat /\ n + 1 # 0 /\ (n + 1) - 1 = n
      OBVIOUS
    <2>2. \A n \in Nat : f[n + 1] = SinkTurn(f[n]) /\ g[n + 1] = SinkTurn(g[n])
      BY <1>3, <1>5, <2>1
    <2>3. f[0] = g[0]
      BY <1>2, <1>5
    <2> QED
      BY <2>2, <2>3
  <1>8. \A n \in Nat : f[n] = g[n]
    BY <1>7, SameValues
  <1>9. Down(S, i) = g[Len(S.heap)]
    BY <1>6, <1>8
  <1>10. g \in [Nat -> G] /\ g[0] = At(S, i)
    BY <1>2 DEF a
  <1>11. SinkRun(G, S, i, g)
    BY <1>3, <1>9, <1>10 DEF SinkRun
  <1> QED
    BY <1>11

-----------------------------------------------------------------------------
(* Events and places                                                        *)

Events == [time : Nat, seq : Nat]

LEMMA Order ==
    ASSUME NEW e \in Events, NEW f \in Events, NEW g \in Events
    PROVE  /\ Earlier(e, f) /\ Earlier(f, g) => Earlier(e, g)
           /\ ~(Earlier(e, f) /\ Earlier(f, e))
           /\ ~Earlier(e, f) /\ e.seq # f.seq => Earlier(f, e)
  BY DEF Events, Earlier

\* The place of the parent, and the places of the children.
LEMMA Places ==
    /\ \A i \in Nat : i > 1 => Parent(i) \in Nat /\ Parent(i) >= 1 /\ Parent(i) < i
    /\ \A i, k \in Nat : Parent(i) = k <=> (i = 2 * k \/ i = 2 * k + 1)
  BY DEF Parent

SeqsOf(R) == {e.seq : e \in R}

\* The heap S holds the events R, each at a place of its own that its entry in
\* the index tells.
Books(S, n, R) ==
    /\ S.heap \in [1..n -> R]
    /\ \A e \in R : \E i \in 1..n : S.heap[i] = e
    /\ S.positions \in [SeqsOf(R) -> 1..n]
    /\ \A i \in 1..n : S.positions[S.heap[i].seq] = i

Loops(n, R) == {L \in [heap : [1..n -> R], positions : [SeqsOf(R) -> 1..n], at : 1..n] : Books(L, n, R)}

LEMMA Apart ==
    ASSUME NEW S, NEW n, NEW R, Books(S, n, R), NEW i \in 1..n, NEW j \in 1..n, i # j
    PROVE  S.heap[i].seq # S.heap[j].seq
  BY DEF Books

Put(f, a, x, b, y) == [f EXCEPT ![a] = x, ![b] = y]

IsPut(g, D, C, f, a, x, b, y) ==
    g \in [D -> C] /\ g[a] = x /\ g[b] = y /\ \A k \in D : k # a /\ k # b => g[k] = f[k]

LEMMA PutIn ==
    ASSUME NEW D, NEW C, NEW f \in [D -> C], NEW a \in D, NEW b \in D, a # b, NEW x \in C, NEW y \in C
    PROVE  IsPut(Put(f, a, x, b, y), D, C, f, a, x, b, y)
  BY DEF Put, IsPut

LEMMA Swapped ==
    ASSUME NEW n \in Nat, NEW R, NEW L \in Loops(n, R), NEW j \in 1..n, j # L.at
    PROVE  /\ Swap(L, j) \in Loops(n, R)
           /\ Swap(L, j).at = j
           /\ Swap(L, j).heap[L.at] = L.heap[j] /\ Swap(L, j).heap[j] = L.heap[L.at]
           /\ \A k \in 1..n : k # j /\ k # L.at => Swap(L, j).heap[k] = L.heap[k]
  <1> DEFINE M == Swap(L, j)
             i == L.at
  <1>1. /\ i \in 1..n /\ L.heap \in [1..n -> R] /\ L.positions \in [SeqsOf(R) -> 1..n]
        /\ \A k \in 1..n : L.positions[L.heap[k].seq] = k
        /\ \A e \in R : \E k \in 1..n : L.heap[k] = e
    BY DEF Loops, Books
  <1>2. \A k \in 1..n : L.heap[k] \in R /\ L.heap[k].seq \in SeqsOf(R)
    BY <1>1 DEF SeqsOf
  <1>3. M.heap = Put(L.heap, i, L.heap[j], j, L.heap[i])
    BY DEF Swap, Put
  <1>4. M.heap \in [1..n -> R] /\ M.heap[i] = L.heap[j] /\ M.heap[j] = L.heap[i]
        /\ \A k \in 1..n : k # j /\ k # i => M.heap[k] = L.heap[k]
    <2> HIDE DEF M
    <2>1. i # j /\ L.heap[i] \in R /\ L.heap[j] \in R
      BY <1>1
    <2> DEFINE h == L.heap
               x == L.heap[j]
               y == L.heap[i]
               D == 1..n
    <2>2. h \in [D -> R] /\ x \in R /\ y \in R /\ i \in D /\ j \in D /\ i # j
      BY <1>1, <2>1
    <2>3. M.heap = Put(h, i, x, j, y)
      BY <1>3
    <2> HIDE DEF h, x, y, i, D
    <2>4. IsPut(Put(h, i, x, j, y), D, R, h, i, x, j, y)
      BY <2>2, PutIn
    <2>5. IsPut(M.heap, D, R, h, i, x, j, y)
      BY <2>3, <2>4
    <2> QED
      BY <2>5 DEF IsPut, h, x, y, D
  <1>5. M.positions = Put(L.positions, L.heap[i].seq, j, L.heap[j].seq, i)
    BY DEF Swap, Put
  <1>6. L.heap[i].seq # L.heap[j].seq
    BY <1>1
  <1>7. \A k, m \in 1..n : L.heap[k].seq = L.heap[m].seq => k = m
    BY <1>1
  <1>8. /\ M.positions \in [SeqsOf(R) -> 1..n]
        /\ M.positions[L.heap[i].seq] = j /\ M.positions[L.heap[j].seq] = i
        /\ \A s \in SeqsOf(R) : s # L.heap[i].seq /\ s # L.heap[j].seq => M.positions[s] = L.positions[s]
    <2> HIDE DEF M
    <2>1. L.heap[i].seq \in SeqsOf(R) /\ L.heap[j].seq \in SeqsOf(R) /\ j \in 1..n
      BY <1>1, <1>2
    <2> DEFINE p == L.positions
               a == L.heap[i].seq
               b == L.heap[j].seq
               D == SeqsOf(R)
               C == 1..n
    <2>2. p \in [D -> C] /\ a \in D /\ b \in D /\ a # b /\ i \in C /\ j \in C
      BY <1>1, <1>6, <2>1
    <2>3. M.positions = Put(p, a, j, b, i)
      BY <1>5
    <2> HIDE DEF p, a, b, i, D, C
    <2>4. IsPut(M.positions, D, C, p, a, j, b, i)
      BY <2>2, <2>3, PutIn
    <2> QED
      BY <2>4 DEF IsPut, p, a, b, D, C
  <1> HIDE DEF M, i
  <1>9. ASSUME NEW k \in 1..n PROVE M.positions[M.heap[k].seq] = k
    <2>1. CASE k = i
      BY <1>4, <1>8, <2>1
    <2>2. CASE k = j
      BY <1>4, <1>8, <2>2
    <2>3. CASE k # i /\ k # j
      <3>1. L.heap[k].seq # L.heap[i].seq /\ L.heap[k].seq # L.heap[j].seq
        BY <1>1, <1>7, <2>3
      <3>2. M.heap[k] = L.heap[k] /\ L.heap[k].seq \in SeqsOf(R) /\ L.positions[L.heap[k].seq] = k
        BY <1>1, <1>2, <1>4, <2>3
      <3> QED
        BY <1>8, <3>1, <3>2
    <2> QED
      BY <2>1, <2>2, <2>3
  <1>10. ASSUME NEW e \in R PROVE \E k \in 1..n : M.heap[k] = e
    <2>1. PICK k \in 1..n : L.heap[k] = e
      BY <1>1
    <2> QED
      BY <1>1, <1>4, <2>1
  <1>11. Books(M, n, R)
    BY <1>4, <1>8, <1>9, <1>10 DEF Books
  <1>12. M \in [heap : [1..n -> R], positions : [SeqsOf(R) -> 1..n], at : 1..n] /\ M.at = j
    <2>1. M = [heap |-> M.heap, positions |-> M.positions, at |-> j]
      BY DEF Swap, M
    <2> QED
      BY <1>4, <1>8, <2>1
  <1> QED
    BY <1>4, <1>11, <1>12 DEF Loops, M, i

-----------------------------------------------------------------------------
(* Rising                                                                   *)

InOrderAt(h, j) == Earlier(h[Parent(j)], h[j])
Sorted(h, n) == \A j \in 2..n : InOrderAt(h, j)

\* The heap is in order but for the event at i, which may be too early for its
\* parent; its children are later than that parent.
ButEarly(h, n, i) ==
    /\ \A j \in 2..n : j # i => InOrderAt(h, j)
    /\ i > 1 => \A j \in 2..n : Parent(j) = i => Earlier(h[Parent(i)], h[j])

LEMMA InPlace ==
    ASSUME NEW n \in Nat, NEW R \in SUBSET Events, NEW L \in Loops(n, R)
    PROVE  /\ L.at \in 1..n /\ L.heap \in [1..n -> Events] /\ Books(L, n, R)
           /\ \A j \in 1..n : L.heap[j] \in Events
           /\ \A j, k \in 1..n : j # k => L.heap[j].seq # L.heap[k].seq
  <1>1. L.at \in 1..n /\ L.heap \in [1..n -> R] /\ Books(L, n, R)
    BY DEF Loops
  <1>2. \A j \in 1..n : L.heap[j] \in Events
    BY <1>1
  <1>3. \A j, k \in 1..n : j # k => L.heap[j].seq # L.heap[k].seq
    BY <1>1, Apart
  <1> QED
    BY <1>1, <1>2, <1>3

LEMMA ParentIn == ASSUME NEW n \in Nat, NEW j \in 2..n PROVE Parent(j) \in 1..n /\ Parent(j) < j
  <1>1. j \in Nat /\ j > 1 /\ j <= n
    OBVIOUS
  <1>2. Parent(j) \in Nat /\ Parent(j) >= 1 /\ Parent(j) < j
    BY <1>1, Places
  <1> QED
    BY <1>1, <1>2

LEMMA RiseStep ==
    ASSUME NEW n \in Nat, NEW R \in SUBSET Events, NEW L \in Loops(n, R), ButEarly(L.heap, n, L.at)
    PROVE  /\ RiseTurn(L) \in Loops(n, R)
           /\ ButEarly(RiseTurn(L).heap, n, RiseTurn(L).at)
           /\ Rises(L) => RiseTurn(L).at < L.at
           /\ ~Rises(L) => RiseTurn(L) = L /\ Sorted(L.heap, n)
  <1> DEFINE h == L.heap
             i == L.at
             p == Parent(i)
             M == Swap(L, p)
             g == M.heap
  <1>1. /\ i \in 1..n /\ \A j \in 1..n : h[j] \in Events
        /\ \A j, k \in 1..n : j # k => h[j].seq # h[k].seq
    BY InPlace
  <1>2. /\ \A j \in 2..n : j # i => Earlier(h[Parent(j)], h[j])
        /\ i > 1 => \A j \in 2..n : Parent(j) = i => Earlier(h[p], h[j])
    BY DEF ButEarly, InOrderAt
  <1>3. CASE Rises(L)
    <2>1. i > 1 /\ Earlier(h[i], h[p]) /\ i \in 2..n
      BY <1>1, <1>3 DEF Rises
    <2>2. p \in 1..n /\ p < i
      BY <2>1, ParentIn
    <2>3. RiseTurn(L) = M
      BY <1>3 DEF RiseTurn
    <2>4. /\ M \in Loops(n, R) /\ M.at = p
          /\ g[i] = h[p] /\ g[p] = h[i]
          /\ \A k \in 1..n : k # p /\ k # i => g[k] = h[k]
      <3>1. p # i
        BY <1>1, <2>2
      <3> HIDE DEF p
      <3> QED
        BY <1>1, <2>2, <3>1, Swapped
    <2> HIDE DEF M, g, p, h, i
    <2>5. \A j \in 2..n : j \in 1..n /\ Parent(j) \in 1..n /\ Parent(j) # j
      <3> SUFFICES ASSUME NEW j \in 2..n PROVE j \in 1..n /\ Parent(j) \in 1..n /\ Parent(j) # j
        OBVIOUS
      <3>1. Parent(j) \in 1..n /\ Parent(j) < j
        BY ParentIn
      <3> QED
        BY <3>1
    <2>6. p = Parent(i)
      BY DEF p
    <2>7. ASSUME NEW j \in 2..n, j # p PROVE Earlier(g[Parent(j)], g[j])
      <3>1. CASE j = i
        BY <2>1, <2>4, <2>6, <3>1
      <3>2. CASE j # i /\ Parent(j) = p
        <4>1. g[j] = h[j] /\ g[Parent(j)] = h[i] /\ Earlier(h[p], h[j])
          BY <1>2, <2>4, <2>5, <2>7, <3>2
        <4>2. h[i] \in Events /\ h[p] \in Events /\ h[j] \in Events
          BY <1>1, <2>2, <2>5
        <4> QED
          BY <2>1, <4>1, <4>2, Order
      <3>3. CASE j # i /\ Parent(j) = i
        BY <1>2, <2>1, <2>4, <2>5, <2>7, <3>3
      <3>4. CASE j # i /\ Parent(j) # i /\ Parent(j) # p
        BY <1>2, <2>4, <2>5, <2>7, <3>4
      <3> QED
        BY <3>1, <3>2, <3>3, <3>4
    <2>8. ASSUME p > 1, NEW j \in 2..n, Parent(j) = p PROVE Earlier(g[Parent(p)], g[j])
      <3>1. p \in 2..n /\ p \in Nat /\ i \in Nat
        BY <2>2, <2>8, <1>1
      <3>2. Parent(p) \in 1..n /\ Parent(p) < p
        BY <3>1, ParentIn
      <3>3. g[Parent(p)] = h[Parent(p)] /\ Earlier(h[Parent(p)], h[p])
        BY <1>2, <2>2, <2>4, <3>1, <3>2
      <3>4. CASE j = i
        BY <2>4, <3>3, <3>4
      <3>5. CASE j # i
        <4>1. g[j] = h[j] /\ Earlier(h[p], h[j])
          BY <1>2, <2>4, <2>5, <2>8, <3>5
        <4>2. h[Parent(p)] \in Events /\ h[p] \in Events /\ h[j] \in Events
          BY <1>1, <2>2, <2>5, <3>2
        <4> QED
          BY <3>3, <4>1, <4>2, Order
      <3> QED
        BY <3>4, <3>5
    <2>9. ButEarly(g, n, p)
      BY <2>7, <2>8 DEF ButEarly, InOrderAt
    <2> QED
      BY <1>3, <2>2, <2>3, <2>4, <2>9 DEF g, i
  <1>4. CASE ~Rises(L)
    <2>1. RiseTurn(L) = L
      BY <1>4 DEF RiseTurn
    <2>2. i > 1 => Earlier(h[p], h[i])
      <3> SUFFICES ASSUME i > 1 PROVE Earlier(h[p], h[i])
        OBVIOUS
      <3>1. i \in 2..n /\ ~Earlier(h[i], h[p])
        BY <1>1, <1>4 DEF Rises
      <3>2. p \in 1..n /\ p < i
        BY <3>1, ParentIn
      <3>3. h[p] \in Events /\ h[i] \in Events /\ h[p].seq # h[i].seq
        BY <1>1, <3>2
      <3> HIDE DEF h, p, i
      <3> QED
        BY <3>1, <3>3, Order
    <2>3. Sorted(h, n)
      <3> HIDE DEF h
      <3>1. \A j \in 2..n : j > 1
        OBVIOUS
      <3> QED
        BY <1>2, <2>2, <3>1 DEF Sorted, InOrderAt
    <2> QED
      BY <1>4, <2>1, <2>3
  <1> QED
    BY <1>3, <1>4

-----------------------------------------------------------------------------
(* Sinking                                                                  *)

\* The heap is in order but for the event at i, which may be too late for its
\* children; these are later than its parent.
ButLate(h, n, i) ==
    /\ \A j \in 2..n : Parent(j) # i => InOrderAt(h, j)
    /\ i > 1 => \A j \in 2..n : Parent(j) = i => Earlier(h[Parent(i)], h[j])

LEMMA Long == ASSUME NEW n \in Nat, NEW R, NEW f \in [1..n -> R] PROVE f \in Seq(R) /\ Len(f) = n /\ DOMAIN f = 1..n
  OBVIOUS

\* The child that may take the place of its parent.
LEMMA ChildTaken ==
    ASSUME NEW n \in Nat, NEW R \in SUBSET Events, NEW L \in Loops(n, R), 2 * L.at <= n
    PROVE  /\ EarlierChild(L) \in 2..n /\ EarlierChild(L) > L.at /\ Parent(EarlierChild(L)) = L.at
           /\ \A j \in 2..n : Parent(j) = L.at /\ j # EarlierChild(L) => Earlier(L.heap[EarlierChild(L)], L.heap[j])
  <1> DEFINE h == L.heap
             i == L.at
             c == EarlierChild(L)
  <1>1. /\ i \in 1..n /\ i \in Nat /\ \A j \in 1..n : h[j] \in Events
        /\ \A j, k \in 1..n : j # k => h[j].seq # h[k].seq
    BY InPlace
  <1>2. Len(h) = n
    <2>1. h \in [1..n -> R]
      BY InPlace DEF Books
    <2> QED
      BY <2>1, Long
  <1>3. c = IF 2 * i + 1 <= n /\ Earlier(h[2 * i + 1], h[2 * i]) THEN 2 * i + 1 ELSE 2 * i
    BY <1>2 DEF EarlierChild
  <1> HIDE DEF h, c, i
  <1>4. 2 * i \in 2..n /\ 2 * i > i /\ 2 * i + 1 > i /\ 2 * i + 1 \in Nat /\ 2 * i + 1 # 2 * i
    BY <1>1 DEF i
  <1>5. Parent(2 * i) = i /\ Parent(2 * i + 1) = i
    BY <1>1, <1>4, Places
  <1>6. \A j \in 2..n : Parent(j) = i => j = 2 * i \/ j = 2 * i + 1
    BY <1>1, Places
  <1>7. CASE 2 * i + 1 <= n /\ Earlier(h[2 * i + 1], h[2 * i])
    <2>1. c = 2 * i + 1
      BY <1>3, <1>7
    <2> QED
      BY <1>4, <1>5, <1>6, <1>7, <2>1 DEF h, i, c
  <1>8. CASE ~(2 * i + 1 <= n /\ Earlier(h[2 * i + 1], h[2 * i]))
    <2>1. c = 2 * i
      BY <1>3, <1>8
    <2>2. ASSUME NEW j \in 2..n, Parent(j) = i, j # c PROVE Earlier(h[c], h[j])
      <3>1. j = 2 * i + 1 /\ j \in 1..n /\ 2 * i \in 1..n
        BY <1>4, <1>6, <2>1, <2>2
      <3>2. ~Earlier(h[j], h[2 * i]) /\ h[j] \in Events /\ h[2 * i] \in Events /\ h[j].seq # h[2 * i].seq
        <4>1. ~Earlier(h[j], h[2 * i])
          BY <1>8, <3>1
        <4>2. j # 2 * i
          BY <1>4, <3>1
        <4> QED
          BY <1>1, <3>1, <4>1, <4>2
      <3> QED
        BY <2>1, <3>2, Order
    <2> QED
      BY <1>4, <1>5, <2>1, <2>2 DEF h, i, c
  <1> QED
    BY <1>7, <1>8

LEMMA SinkStep ==
    ASSUME NEW n \in Nat, NEW R \in SUBSET Events, NEW L \in Loops(n, R), ButLate(L.heap, n, L.at)
    PROVE  /\ SinkTurn(L) \in Loops(n, R)
           /\ ButLate(SinkTurn(L).heap, n, SinkTurn(L).at)
           /\ Sinks(L) => SinkTurn(L).at > L.at
           /\ ~Sinks(L) => SinkTurn(L) = L /\ Sorted(L.heap, n)
  <1> DEFINE h == L.heap
             i == L.at
             c == EarlierChild(L)
             M == Swap(L, c)
             g == M.heap
  <1>1. /\ i \in 1..n /\ i \in Nat /\ \A j \in 1..n : h[j] \in Events
        /\ \A j, k \in 1..n : j # k => h[j].seq # h[k].seq
    BY InPlace
  <1>2. /\ \A j \in 2..n : Parent(j) # i => Earlier(h[Parent(j)], h[j])
        /\ i > 1 => \A j \in 2..n : Parent(j) = i => Earlier(h[Parent(i)], h[j])
    BY DEF ButLate, InOrderAt
  <1>3. Len(h) = n
    <2>1. h \in [1..n -> R]
      BY InPlace DEF Books
    <2> QED
      BY <2>1, Long
  <1>4. 2 * i <= n => /\ c \in 2..n /\ c > i /\ Parent(c) = i
                      /\ \A j \in 2..n : Parent(j) = i /\ j # c => Earlier(h[c], h[j])
    BY ChildTaken
  <1>5. \A j \in 2..n : j \in 1..n /\ Parent(j) \in 1..n /\ Parent(j) # j /\ j > 1
    <2> SUFFICES ASSUME NEW j \in 2..n PROVE j \in 1..n /\ Parent(j) \in 1..n /\ Parent(j) # j /\ j > 1
      OBVIOUS
    <2>1. Parent(j) \in 1..n /\ Parent(j) < j
      BY ParentIn
    <2> QED
      BY <2>1
  <1>6. CASE Sinks(L)
    <2>1. 2 * i <= n /\ Earlier(h[c], h[i])
      BY <1>3, <1>6 DEF Sinks
    <2>2. c \in 2..n /\ c \in 1..n /\ c > i /\ c # i /\ Parent(c) = i
      BY <1>1, <1>4, <2>1
    <2>3. SinkTurn(L) = M
      BY <1>6 DEF SinkTurn
    <2>4. /\ M \in Loops(n, R) /\ M.at = c
          /\ g[i] = h[c] /\ g[c] = h[i]
          /\ \A k \in 1..n : k # c /\ k # i => g[k] = h[k]
      <3> HIDE DEF c
      <3> QED
        BY <1>1, <2>2, Swapped
    <2> HIDE DEF M, g, c, h, i
    <2>5. ASSUME NEW j \in 2..n, Parent(j) # c PROVE Earlier(g[Parent(j)], g[j])
      <3>1. CASE j = c
        BY <2>1, <2>2, <2>4, <3>1
      <3>2. CASE j # c /\ Parent(j) = i
        BY <1>4, <1>5, <2>1, <2>4, <3>2
      <3>3. CASE j = i
        <4>1. i > 1 /\ i \in 2..n
          BY <1>1, <3>3
        <4>2. Earlier(h[Parent(i)], h[c])
          BY <1>2, <2>2, <4>1
        <4>3. g[Parent(i)] = h[Parent(i)]
          BY <1>5, <2>4, <2>5, <3>3, <4>1
        <4> QED
          BY <2>4, <3>3, <4>2, <4>3
      <3>4. CASE j # c /\ j # i /\ Parent(j) # i
        BY <1>2, <1>5, <2>4, <2>5, <3>4
      <3> QED
        BY <3>1, <3>2, <3>3, <3>4
    <2>6. ASSUME NEW j \in 2..n, Parent(j) = c PROVE Earlier(g[Parent(c)], g[j])
      <3>1. Earlier(h[c], h[j])
        BY <1>2, <2>2, <2>6
      <3>2. j # c /\ j # i
        <4>1. Parent(j) < j
          BY ParentIn
        <4> QED
          BY <1>1, <2>2, <2>6, <4>1
      <3> QED
        BY <1>5, <2>2, <2>4, <3>1, <3>2
    <2>7. ButLate(g, n, c)
      BY <2>5, <2>6 DEF ButLate, InOrderAt
    <2> QED
      BY <1>6, <2>2, <2>3, <2>4, <2>7 DEF g, i
  <1>7. CASE ~Sinks(L)
    <2>1. SinkTurn(L) = L
      BY <1>7 DEF SinkTurn
    <2>2. ASSUME NEW j \in 2..n, Parent(j) = i PROVE Earlier(h[i], h[j])
      <3>1. j = 2 * i \/ j = 2 * i + 1
        BY <1>1, <2>2, Places
      <3>2. 2 * i <= n
        <4> HIDE DEF i
        <4> QED
          BY <1>1, <3>1
      <3>3. ~Earlier(h[c], h[i])
        BY <1>3, <1>7, <3>2 DEF Sinks
      <3>4. c \in 1..n /\ c # i
        <4> HIDE DEF c, i
        <4> QED
          BY <1>1, <1>4, <3>2
      <3> HIDE DEF h, c, i
      <3>5. h[c] \in Events /\ h[i] \in Events /\ h[j] \in Events /\ h[c].seq # h[i].seq
        BY <1>1, <1>5, <3>4
      <3>6. Earlier(h[i], h[c])
        BY <3>3, <3>5, Order
      <3>7. j # c => Earlier(h[c], h[j])
        BY <1>4, <2>2, <3>2
      <3> QED
        BY <3>5, <3>6, <3>7, Order
    <2>3. Sorted(h, n)
      <3> HIDE DEF h, i
      <3> QED
        BY <1>2, <2>2 DEF Sorted, InOrderAt
    <2> QED
      BY <1>7, <2>1, <2>3
  <1> QED
    BY <1>6, <1>7

-----------------------------------------------------------------------------
(* What #up and #down make of a heap                                        *)

Repaired(V, n, R) == Books(V, n, R) /\ Sorted(V.heap, n)

LEMMA Entering ==
    ASSUME NEW n \in Nat, NEW R, NEW S, Books(S, n, R), NEW i \in 1..n
    PROVE  At(S, i) \in Loops(n, R) /\ At(S, i).heap = S.heap /\ At(S, i).positions = S.positions /\ At(S, i).at = i /\ Len(S.heap) = n
  <1> DEFINE h == S.heap
             p == S.positions
  <1>1. h \in [1..n -> R] /\ p \in [SeqsOf(R) -> 1..n]
    BY DEF Books
  <1>2. Len(h) = n
    BY <1>1, Long
  <1>3. At(S, i) = [heap |-> h, positions |-> p, at |-> i]
    BY DEF At
  <1> HIDE DEF h, p
  <1>4. At(S, i).heap = h /\ At(S, i).positions = p /\ At(S, i).at = i
    BY <1>3
  <1>5. At(S, i) \in [heap : [1..n -> R], positions : [SeqsOf(R) -> 1..n], at : 1..n]
    BY <1>1, <1>3
  <1>6. Books(At(S, i), n, R)
    BY <1>4 DEF Books, h, p
  <1> QED
    BY <1>2, <1>4, <1>5, <1>6 DEF Loops, h, p

LEMMA Risen ==
    ASSUME NEW n \in Nat, NEW R \in SUBSET Events, NEW S, Books(S, n, R), NEW i \in 1..n, ButEarly(S.heap, n, i)
    PROVE  Repaired(Up(S, i), n, R) /\ Up(S, i) \in Loops(n, R)
  <1> DEFINE G == {L \in Loops(n, R) : ButEarly(L.heap, n, L.at)}
  <1>1. At(S, i) \in Loops(n, R) /\ At(S, i).heap = S.heap /\ At(S, i).at = i /\ Len(S.heap) = n
    BY Entering
  <1>2. At(S, i) \in G
    BY <1>1
  <1>3. (\A L \in G : RiseTurn(L) \in G) /\ \A L \in G : L.at \in 1..n
    BY RiseStep, InPlace
  <1>4. \A L \in G : /\ Rises(L) => RiseTurn(L).at < L.at
                     /\ ~Rises(L) => RiseTurn(L) = L /\ Sorted(L.heap, n)
    BY RiseStep
  <1>5. \A L \in G : Books(L, n, R)
    BY DEF Loops
  <1>6. \A L \in G : L \in Loops(n, R)
    OBVIOUS
  <1> HIDE DEF G
  <1>7. PICK g : RiseRun(G, S, i, g)
    BY <1>1, <1>2, <1>3, RiseLoop
  <1>8. \A k \in Nat : g[k] \in G /\ g[k + 1] = RiseTurn(g[k])
    BY <1>7 DEF RiseRun
  <1>9. g[0].at = i
    BY <1>1, <1>7 DEF RiseRun
  <1> DEFINE T == {k \in Nat : ~Rises(g[k]) \/ g[k].at + k <= i}
  <1>10. 0 \in T
    BY <1>9
  <1>11. ASSUME NEW k \in Nat, k \in T PROVE k + 1 \in T
    <2>1. g[k] \in G /\ g[k + 1] \in G /\ g[k + 1] = RiseTurn(g[k])
      BY <1>8
    <2>2. g[k].at \in 1..n /\ g[k + 1].at \in 1..n
      BY <1>3, <2>1
    <2>3. CASE Rises(g[k])
      <3>1. g[k + 1].at < g[k].at /\ g[k].at + k <= i
        BY <1>4, <1>11, <2>1, <2>3
      <3>2. g[k + 1].at + (k + 1) <= i
        BY <2>2, <3>1
      <3> QED
        BY <3>2
    <2>4. CASE ~Rises(g[k])
      BY <1>4, <2>1, <2>4
    <2> QED
      BY <2>3, <2>4
  <1>12. n \in T
    <2> HIDE DEF T
    <2>1. Nat \subseteq T
      BY <1>10, <1>11, Inductive
    <2> QED
      BY <2>1
  <1>13. g[n] \in G /\ g[n].at \in 1..n
    BY <1>3, <1>7 DEF RiseRun
  <1>14. ~Rises(g[n])
    BY <1>12, <1>13
  <1>15. Sorted(g[n].heap, n) /\ Books(g[n], n, R) /\ g[n] \in Loops(n, R)
    BY <1>4, <1>5, <1>6, <1>13, <1>14
  <1> QED
    BY <1>1, <1>7, <1>15 DEF Repaired, RiseRun

LEMMA Sunk ==
    ASSUME NEW n \in Nat, NEW R \in SUBSET Events, NEW S, Books(S, n, R), NEW i \in 1..n, ButLate(S.heap, n, i)
    PROVE  Repaired(Down(S, i), n, R)
  <1> DEFINE G == {L \in Loops(n, R) : ButLate(L.heap, n, L.at)}
  <1>1. At(S, i) \in Loops(n, R) /\ At(S, i).heap = S.heap /\ At(S, i).at = i /\ Len(S.heap) = n
    BY Entering
  <1>2. At(S, i) \in G
    BY <1>1
  <1>3. (\A L \in G : SinkTurn(L) \in G) /\ \A L \in G : L.at \in 1..n
    BY SinkStep, InPlace
  <1>4. \A L \in G : /\ Sinks(L) => SinkTurn(L).at > L.at
                     /\ ~Sinks(L) => SinkTurn(L) = L /\ Sorted(L.heap, n)
    BY SinkStep
  <1>5. \A L \in G : Books(L, n, R)
    BY DEF Loops
  <1> HIDE DEF G
  <1>6. PICK g : SinkRun(G, S, i, g)
    BY <1>1, <1>2, <1>3, SinkLoop
  <1>7. \A k \in Nat : g[k] \in G /\ g[k + 1] = SinkTurn(g[k])
    BY <1>6 DEF SinkRun
  <1>8. g[0].at = i
    BY <1>1, <1>6 DEF SinkRun
  <1> DEFINE T == {k \in Nat : ~Sinks(g[k]) \/ g[k].at >= i + k}
  <1>9. 0 \in T
    BY <1>8
  <1>10. ASSUME NEW k \in Nat, k \in T PROVE k + 1 \in T
    <2>1. g[k] \in G /\ g[k + 1] \in G /\ g[k + 1] = SinkTurn(g[k])
      BY <1>7
    <2>2. g[k].at \in 1..n /\ g[k + 1].at \in 1..n
      BY <1>3, <2>1
    <2>3. CASE Sinks(g[k])
      <3>1. g[k + 1].at > g[k].at /\ g[k].at >= i + k
        BY <1>4, <1>10, <2>1, <2>3
      <3>2. g[k + 1].at >= i + (k + 1)
        BY <2>2, <3>1
      <3> QED
        BY <3>2
    <2>4. CASE ~Sinks(g[k])
      BY <1>4, <2>1, <2>4
    <2> QED
      BY <2>3, <2>4
  <1>11. n \in T
    <2> HIDE DEF T
    <2>1. Nat \subseteq T
      BY <1>9, <1>10, Inductive
    <2> QED
      BY <2>1
  <1>12. g[n] \in G /\ g[n].at \in 1..n
    BY <1>3, <1>6 DEF SinkRun
  <1>13. ~Sinks(g[n])
    BY <1>11, <1>12
  <1>14. Sorted(g[n].heap, n) /\ Books(g[n], n, R)
    BY <1>4, <1>5, <1>12, <1>13
  <1> QED
    BY <1>1, <1>6, <1>14 DEF Repaired, SinkRun

\* An event that is not earlier than its parent stays where it is.
LEMMA Unmoved ==
    ASSUME NEW S, NEW i, Len(S.heap) \in Nat, ~Rises(At(S, i))
    PROVE  Up(S, i) = At(S, i)
  <1> DEFINE G == {At(S, i)}
  <1>1. At(S, i) \in G /\ \A L \in G : RiseTurn(L) \in G
    BY DEF RiseTurn
  <1>2. PICK g : RiseRun(G, S, i, g)
    <2> HIDE DEF G
    <2> QED
      BY <1>1, RiseLoop
  <1> QED
    BY <1>2 DEF RiseRun

-----------------------------------------------------------------------------
(* Insertion and removal                                                    *)

LEMMA Inserted ==
    ASSUME NEW n \in Nat, NEW R \in SUBSET Events, NEW S, Repaired(S, n, R), NEW e \in Events, e.seq \notin SeqsOf(R)
    PROVE  Repaired(Insert(S, e), n + 1, R \cup {e}) /\ Insert(S, e) \in Loops(n + 1, R \cup {e})
  <1> DEFINE h == S.heap
             p == S.positions
             m == n + 1
             Q == R \cup {e}
             g == Append(h, e)
             q == [s \in DOMAIN p \cup {e.seq} |-> IF s = e.seq THEN m ELSE p[s]]
             U == [heap |-> g, positions |-> q]
  <1>1. /\ h \in [1..n -> R] /\ (\A x \in R : \E i \in 1..n : h[i] = x)
        /\ p \in [SeqsOf(R) -> 1..n] /\ (\A i \in 1..n : p[h[i].seq] = i)
        /\ Sorted(h, n)
    BY DEF Repaired, Books
  <1>2. h \in Seq(R) /\ Len(h) = n
    BY <1>1, Long
  <1>3. Insert(S, e) = Up(U, m)
    BY <1>2 DEF Insert
  <1>4. m \in Nat /\ m \in 1..m /\ Q \in SUBSET Events /\ \A i \in 1..m : i \in 1..n \/ i = m
    OBVIOUS
  <1>5. /\ g \in [1..m -> Q] /\ g[m] = e
        /\ \A i \in 1..n : g[i] = h[i] /\ h[i] \in R /\ h[i].seq \in SeqsOf(R) /\ h[i].seq # e.seq
    <2>1. \A i \in 1..n : g[i] = h[i]
      BY <1>2
    <2>2. g[m] = e /\ Len(g) = m /\ g \in Seq(Q)
      BY <1>2
    <2>3. \A i \in 1..n : h[i] \in R /\ h[i].seq \in SeqsOf(R)
      BY <1>1 DEF SeqsOf
    <2>4. g \in [1..m -> Q]
      <3> HIDE DEF g, m, Q
      <3> QED
        BY <2>2, LenProperties
    <2> QED
      BY <2>1, <2>2, <2>3, <2>4
  <1>6. SeqsOf(Q) = SeqsOf(R) \cup {e.seq}
    BY DEF SeqsOf
  <1>7. DOMAIN p = SeqsOf(R)
    BY <1>1
  <1>8. q \in [SeqsOf(Q) -> 1..m] /\ q[e.seq] = m /\ \A s \in SeqsOf(R) : q[s] = p[s]
    <2>1. q[e.seq] = m /\ \A s \in SeqsOf(R) : q[s] = p[s]
      BY <1>7
    <2>2. \A s \in SeqsOf(R) : p[s] \in 1..m
      BY <1>1
    <2>3. \A s \in SeqsOf(Q) : q[s] \in 1..m
      BY <1>4, <1>6, <2>1, <2>2
    <2>4. q = [s \in SeqsOf(Q) |-> q[s]]
      BY <1>6, <1>7
    <2> HIDE DEF q, m, Q
    <2> QED
      BY <2>1, <2>3, <2>4
  <1>9. U.heap = g /\ U.positions = q
    OBVIOUS
  <1> HIDE DEF U, g, q, h, p, m, Q
  <1>10. ASSUME NEW i \in 1..m PROVE q[g[i].seq] = i
    <2>1. CASE i = m
      BY <1>5, <1>8, <2>1
    <2>2. CASE i \in 1..n
      <3>1. g[i] = h[i] /\ h[i].seq \in SeqsOf(R)
        BY <1>5, <2>2
      <3>2. p[h[i].seq] = i
        BY <1>1, <2>2
      <3>3. q[h[i].seq] = p[h[i].seq]
        BY <1>8, <3>1
      <3> QED
        BY <3>1, <3>2, <3>3
    <2> QED
      BY <1>4, <2>1, <2>2
  <1>11. ASSUME NEW x \in Q PROVE \E i \in 1..m : g[i] = x
    <2>1. CASE x = e
      BY <1>4, <1>5, <2>1
    <2>2. CASE x \in R
      <3>1. PICK i \in 1..n : h[i] = x
        BY <1>1, <2>2
      <3> QED
        BY <1>5, <3>1 DEF m
    <2> QED
      BY <2>1, <2>2 DEF Q
  <1>12. Books(U, m, Q)
    BY <1>5, <1>8, <1>9, <1>10, <1>11 DEF Books
  <1>13. ButEarly(U.heap, m, m)
    <2>1. \A j \in 2..m : j # m => j \in 2..n /\ j \in 1..n
      BY DEF m
    <2>2. ASSUME NEW j \in 2..m, j # m PROVE InOrderAt(g, j)
      <3>1. Parent(j) \in 1..n
        BY <2>1, <2>2, ParentIn
      <3>2. Earlier(h[Parent(j)], h[j])
        BY <1>1, <2>1, <2>2 DEF Sorted, InOrderAt
      <3> QED
        BY <1>5, <2>1, <2>2, <3>1, <3>2 DEF InOrderAt
    <2>3. \A j \in 2..m : Parent(j) # m
      <3> SUFFICES ASSUME NEW j \in 2..m PROVE Parent(j) # m
        OBVIOUS
      <3>1. Parent(j) < j
        BY <1>4, ParentIn
      <3> QED
        BY <1>4, <3>1
    <2> QED
      BY <1>9, <2>2, <2>3 DEF ButEarly
  <1> QED
    BY <1>3, <1>4, <1>12, <1>13, Risen DEF m, Q

LEMMA EmptyRepaired == Repaired(Empty, 0, {})
  BY DEF Repaired, Empty, Books, Sorted, SeqsOf

\* A heap in order is in order but for any one of its events.
LEMMA SortedButLate ==
    ASSUME NEW n \in Nat, NEW R \in SUBSET Events, NEW S, Repaired(S, n, R), NEW i \in 1..n
    PROVE  ButLate(S.heap, n, i)
  <1> DEFINE h == S.heap
  <1>1. h \in [1..n -> R] /\ \A j \in 2..n : Earlier(h[Parent(j)], h[j])
    BY DEF Repaired, Books, Sorted, InOrderAt
  <1> HIDE DEF h
  <1>2. \A j \in 1..n : h[j] \in Events
    BY <1>1
  <1>3. ASSUME i > 1, NEW j \in 2..n, Parent(j) = i PROVE Earlier(h[Parent(i)], h[j])
    <2>1. i \in 2..n /\ j \in 1..n
      BY <1>3
    <2>2. Parent(i) \in 1..n
      BY <2>1, ParentIn
    <2>3. Earlier(h[Parent(i)], h[i]) /\ Earlier(h[i], h[j])
      BY <1>1, <1>3, <2>1
    <2> QED
      BY <1>2, <2>1, <2>2, <2>3, Order
  <1> QED
    BY <1>1, <1>3 DEF ButLate, InOrderAt, h

IsFront(g, f, n, R) == g \in [1..(n - 1) -> R] /\ \A j \in 1..(n - 1) : g[j] = f[j]

LEMMA Fronts ==
    ASSUME NEW n \in Nat, n > 0, NEW R, NEW f \in [1..n -> R]
    PROVE  Len(f) = n /\ Last(f) = f[n] /\ IsFront(Front(f), f, n, R)
  <1>1. f \in Seq(R) /\ Len(f) = n
    BY Long
  <1>2. Front(f) = SubSeq(f, 1, n - 1) /\ Last(f) = f[n]
    BY <1>1 DEF Front, Last
  <1>3. SubSeq(f, 1, n - 1) \in Seq(R) /\ Len(SubSeq(f, 1, n - 1)) = n - 1 /\ \A j \in 1..(n - 1) : SubSeq(f, 1, n - 1)[j] = f[j]
    BY <1>1
  <1>4. SubSeq(f, 1, n - 1) \in [1..(n - 1) -> R]
    BY <1>3, LenProperties
  <1> QED
    BY <1>1, <1>2, <1>3, <1>4 DEF IsFront

\* U is what is left of heap S when the event at i is gone: the last event is
\* in its place, where the order may be broken.
Gap(U, S, n, R, i) ==
    /\ Books(U, n - 1, R)
    /\ Len(S.heap) = n /\ Last(S.heap) = S.heap[n]
    /\ i # n => U.heap[i] = S.heap[n]
    /\ \A j \in 2..(n - 1) : j # i /\ Parent(j) # i => InOrderAt(U.heap, j)
    /\ i > 1 => \A j \in 2..(n - 1) : Parent(j) = i => Earlier(U.heap[Parent(i)], U.heap[j])

LEMMA Unplugged ==
    ASSUME NEW n \in Nat, NEW R \in SUBSET Events, NEW S, Repaired(S, n, R), NEW i \in 1..n
    PROVE  Gap(Unplug(S, i), S, n, R \ {S.heap[i]}, i)
  <1> DEFINE h == S.heap
             p == S.positions
             m == n - 1
             r == h[i]
             Q == R \ {r}
             l == h[n]
             U == Unplug(S, i)
             g == U.heap
             q == U.positions
             short == Front(h)
             rest == Without(p, r.seq)
  <1>1. /\ h \in [1..n -> R] /\ (\A x \in R : \E k \in 1..n : h[k] = x)
        /\ p \in [SeqsOf(R) -> 1..n] /\ (\A k \in 1..n : p[h[k].seq] = k)
        /\ Sorted(h, n)
    BY DEF Repaired, Books
  <1>2. n > 0 /\ m \in Nat /\ n \in 1..n /\ (\A k \in 1..n : k = n \/ k \in 1..m) /\ (\A k \in 1..m : k \in 1..n /\ k # n) /\ m < n
    OBVIOUS
  <1>3. Len(h) = n /\ Last(h) = l /\ short \in [1..m -> R] /\ \A k \in 1..m : short[k] = h[k]
    <2>1. Len(h) = n /\ Last(h) = h[n] /\ IsFront(Front(h), h, n, R)
      <3> HIDE DEF h
      <3> QED
        BY <1>1, <1>2, Fronts
    <2> QED
      BY <2>1 DEF IsFront
  <1>4. \A k, j \in 1..n : k # j => h[k] # h[j] /\ h[k].seq # h[j].seq
    BY <1>1
  <1>5. \A k \in 1..n : h[k] \in R /\ h[k].seq \in SeqsOf(R)
    BY <1>1 DEF SeqsOf
  <1>6. SeqsOf(Q) = SeqsOf(R) \ {r.seq}
    <2>1. \A x, y \in R : x.seq = y.seq => x = y
      <3> SUFFICES ASSUME NEW x \in R, NEW y \in R, x.seq = y.seq PROVE x = y
        OBVIOUS
      <3>1. PICK j \in 1..n : h[j] = x
        BY <1>1
      <3>2. PICK k \in 1..n : h[k] = y
        BY <1>1
      <3>3. j = k
        BY <1>4, <3>1, <3>2
      <3> QED
        BY <3>1, <3>2, <3>3
    <2>2. r \in R
      BY <1>5
    <2> HIDE DEF r
    <2> QED
      BY <2>1, <2>2 DEF SeqsOf
  <1>7. DOMAIN rest = SeqsOf(Q) /\ \A s \in SeqsOf(Q) : rest[s] = p[s]
    BY <1>1, <1>6 DEF Without
  <1>8. U = IF i = n THEN [heap |-> short, positions |-> rest]
            ELSE [heap |-> [short EXCEPT ![i] = l], positions |-> [rest EXCEPT ![l.seq] = i]]
    BY <1>3 DEF Unplug
  <1>9. rest = [s \in SeqsOf(Q) |-> rest[s]]
    BY <1>6, <1>1 DEF Without
  <1> HIDE DEF h, p, m, r, l, Q, U, short, rest
  <1>10. rest \in [SeqsOf(Q) -> 1..n]
    <2>1. \A s \in SeqsOf(Q) : rest[s] \in 1..n
      BY <1>1, <1>6, <1>7
    <2> QED
      BY <1>9, <2>1
  <1>11. /\ \A k \in 1..m : k # i => g[k] = h[k]
         /\ i # n => g[i] = l
         /\ DOMAIN g = 1..m
    <2>1. CASE i = n
      BY <1>2, <1>3, <1>8, <2>1
    <2>2. CASE i # n
      <3>1. g = [short EXCEPT ![i] = l] /\ i \in 1..m
        BY <1>2, <1>8, <2>2
      <3> QED
        BY <1>3, <2>2, <3>1
    <2> QED
      BY <2>1, <2>2
  <1>12. /\ \A s \in SeqsOf(Q) : s # l.seq => q[s] = p[s]
         /\ i # n => l.seq \in SeqsOf(Q) /\ q[l.seq] = i
         /\ i = n => l = r
         /\ DOMAIN q = SeqsOf(Q)
    <2>1. CASE i = n
      <3>1. q = rest /\ l = r
        BY <1>8, <2>1 DEF l, r
      <3> QED
        BY <1>7, <2>1, <3>1
    <2>2. CASE i # n
      <3>1. q = [rest EXCEPT ![l.seq] = i]
        BY <1>8, <2>2
      <3>2. l.seq \in SeqsOf(R) /\ l.seq # r.seq
        BY <1>2, <1>4, <1>5, <2>2 DEF l, r
      <3>3. l.seq \in SeqsOf(Q)
        BY <1>6, <3>2
      <3> QED
        BY <1>7, <2>2, <3>1, <3>3
    <2> QED
      BY <2>1, <2>2
  <1>13. \A k \in 1..m : g[k] \in Q /\ q[g[k].seq] = k
    <2> SUFFICES ASSUME NEW k \in 1..m PROVE g[k] \in Q /\ q[g[k].seq] = k
      OBVIOUS
    <2>1. k \in 1..n /\ k # n /\ n \in 1..n
      BY <1>2
    <2>2. CASE k = i
      <3>1. i # n /\ g[k] = l /\ q[l.seq] = k
        BY <1>11, <1>12, <2>1, <2>2
      <3>2. l \in R /\ l # r
        BY <1>4, <1>5, <2>1, <3>1 DEF l, r
      <3> QED
        BY <3>1, <3>2 DEF Q
    <2>3. CASE k # i
      <3>1. g[k] = h[k] /\ h[k] \in R /\ h[k].seq \in SeqsOf(R) /\ p[h[k].seq] = k
        BY <1>1, <1>5, <1>11, <2>1, <2>3
      <3>2. h[k] # r /\ h[k].seq # r.seq /\ h[k].seq # l.seq
        BY <1>4, <2>1, <2>3 DEF r, l
      <3>3. h[k].seq \in SeqsOf(Q)
        BY <1>6, <3>1, <3>2
      <3> QED
        BY <1>12, <3>1, <3>2, <3>3 DEF Q
    <2> QED
      BY <2>2, <2>3
  <1>14. \A x \in Q : \E k \in 1..m : g[k] = x
    <2> SUFFICES ASSUME NEW x \in Q PROVE \E k \in 1..m : g[k] = x
      OBVIOUS
    <2>1. x \in R /\ x # r
      BY DEF Q
    <2>2. PICK k \in 1..n : h[k] = x
      BY <1>1, <2>1
    <2>3. k # i
      BY <2>1, <2>2 DEF r
    <2>4. CASE k = n
      <3>1. i # n /\ i \in 1..m /\ g[i] = x
        BY <1>2, <1>11, <2>2, <2>3, <2>4 DEF l
      <3> QED
        BY <3>1
    <2>5. CASE k # n
      BY <1>2, <1>11, <2>2, <2>3, <2>5
    <2> QED
      BY <2>4, <2>5
  <1>15. Books(U, m, Q)
    <2>1. \A s \in SeqsOf(Q) : q[s] \in 1..m
      <3> SUFFICES ASSUME NEW s \in SeqsOf(Q) PROVE q[s] \in 1..m
        OBVIOUS
      <3>1. PICK x \in Q : s = x.seq
        BY DEF SeqsOf
      <3>2. PICK k \in 1..m : g[k] = x
        BY <1>14
      <3> QED
        BY <1>13, <3>1, <3>2
    <2>2. q = [s \in SeqsOf(Q) |-> q[s]]
      <3>1. CASE i = n
        BY <1>8, <1>9, <3>1
      <3>2. CASE i # n
        <4>1. q = [rest EXCEPT ![l.seq] = i]
          BY <1>8, <3>2
        <4> QED
          BY <1>10, <4>1
      <3> QED
        BY <3>1, <3>2
    <2>3. g = [k \in 1..m |-> g[k]]
      <3>1. CASE i = n
        BY <1>3, <1>8, <3>1
      <3>2. CASE i # n
        <4>1. g = [short EXCEPT ![i] = l]
          BY <1>8, <3>2
        <4> QED
          BY <1>3, <4>1
      <3> QED
        BY <3>1, <3>2
    <2>4. g \in [1..m -> Q]
      BY <1>13, <2>3
    <2>5. q \in [SeqsOf(Q) -> 1..m]
      BY <2>1, <2>2
    <2> QED
      BY <1>13, <1>14, <2>4, <2>5 DEF Books
  <1>16. \A j \in 2..m : j \in 1..m /\ j \in 2..n /\ Parent(j) \in 1..m /\ Parent(j) # j
    <2> SUFFICES ASSUME NEW j \in 2..m PROVE j \in 1..m /\ j \in 2..n /\ Parent(j) \in 1..m /\ Parent(j) # j
      OBVIOUS
    <2>1. Parent(j) \in 1..m /\ Parent(j) < j
      BY <1>2, ParentIn
    <2> QED
      BY <1>2, <2>1
  <1>17. \A j \in 2..n : Earlier(h[Parent(j)], h[j])
    BY <1>1 DEF Sorted, InOrderAt
  <1>18. \A j \in 2..m : j # i /\ Parent(j) # i => InOrderAt(g, j)
    BY <1>11, <1>16, <1>17 DEF InOrderAt
  <1>19. ASSUME i > 1, NEW j \in 2..m, Parent(j) = i PROVE Earlier(g[Parent(i)], g[j])
    <2>1. i \in 2..n /\ i \in 1..m /\ i \in 2..m
      BY <1>2, <1>16, <1>19
    <2>2. Parent(i) \in 1..m /\ Parent(i) # i /\ Parent(i) \in 1..n
      BY <1>2, <1>16, <2>1
    <2>3. Earlier(h[Parent(i)], h[i]) /\ Earlier(h[i], h[j])
      BY <1>16, <1>17, <1>19, <2>1
    <2>4. h[Parent(i)] \in Events /\ h[i] \in Events /\ h[j] \in Events
      BY <1>2, <1>5, <1>16, <2>2
    <2>5. Earlier(h[Parent(i)], h[j])
      BY <2>3, <2>4, Order
    <2> QED
      BY <1>11, <1>16, <1>19, <2>2, <2>5
  <1> QED
    BY <1>3, <1>11, <1>15, <1>18, <1>19 DEF Gap, h, m, r, l, Q, U

LEMMA Removed ==
    ASSUME NEW n \in Nat, NEW R \in SUBSET Events, NEW S, Repaired(S, n, R), NEW i \in 1..n
    PROVE  Repaired(RemoveIndex(S, i), n - 1, R \ {S.heap[i]})
  <1> DEFINE U == Unplug(S, i)
             V == Up(U, i)
             l == Last(S.heap)
             m == n - 1
             Q == R \ {S.heap[i]}
             g == U.heap
  <1>1. /\ Books(U, m, Q)
        /\ Len(S.heap) = n /\ l = S.heap[n]
        /\ i # n => g[i] = l
        /\ \A j \in 2..m : j # i /\ Parent(j) # i => InOrderAt(g, j)
        /\ i > 1 => \A j \in 2..m : Parent(j) = i => Earlier(g[Parent(i)], g[j])
    <2>1. Gap(U, S, n, Q, i)
      <3> HIDE DEF U
      <3> QED
        BY Unplugged DEF U
    <2> QED
      BY <2>1 DEF Gap
  <1>2. m \in Nat /\ Q \in SUBSET Events /\ n \in 1..n
    OBVIOUS
  <1>3. RemoveIndex(S, i) = IF i = n THEN U ELSE Down(V, V.positions[l.seq])
    BY <1>1 DEF RemoveIndex
  <1> HIDE DEF U, V, l, m, Q, g
  <1>4. CASE i = n
    <2>1. \A j \in 2..m : j # i /\ Parent(j) # i
      <3> SUFFICES ASSUME NEW j \in 2..m PROVE j # i /\ Parent(j) # i
        OBVIOUS
      <3>1. Parent(j) \in 1..m
        BY <1>2, ParentIn
      <3> QED
        BY <1>4, <3>1 DEF m
    <2>2. Sorted(g, m)
      BY <1>1, <2>1 DEF Sorted
    <2> QED
      BY <1>1, <1>3, <1>4, <2>2 DEF Repaired, g, m, Q
  <1>5. CASE i # n
    <2>1. i \in 1..m
      BY <1>5 DEF m
    <2>2. /\ At(U, i).heap = g /\ At(U, i).positions = U.positions /\ At(U, i).at = i /\ Len(U.heap) = m
          /\ At(U, i) \in Loops(m, Q)
      BY <1>1, <1>2, <2>1, Entering DEF g
    <2>3. \A j \in 1..m : g[j] \in Events
      BY <1>1, <1>2 DEF Books, g
    <2>4. \A j \in 2..m : j \in 1..m /\ Parent(j) # j
      <3> SUFFICES ASSUME NEW j \in 2..m PROVE j \in 1..m /\ Parent(j) # j
        OBVIOUS
      <3>1. Parent(j) < j
        BY <1>2, ParentIn
      <3> QED
        BY <1>2, <3>1
    <2>5. i > 1 => i \in 2..m /\ Parent(i) \in 1..m /\ Parent(i) # i
      <3> SUFFICES ASSUME i > 1 PROVE i \in 2..m /\ Parent(i) \in 1..m /\ Parent(i) # i
        OBVIOUS
      <3>1. i \in 2..m
        BY <1>2, <2>1
      <3> QED
        BY <1>2, <2>4, <3>1, ParentIn
    <2>6. ASSUME NEW k \in 1..m, Books(V, m, Q), V.heap[k] = l PROVE V.positions[l.seq] = k
      BY <2>6 DEF Books
    <2>7. g[i] = l /\ l \in Q
      <3>1. g[i] = l
        BY <1>1, <1>5
      <3>2. g \in [1..m -> Q]
        BY <1>1 DEF Books, g
      <3> QED
        BY <2>1, <3>1, <3>2
    <2> DEFINE k == V.positions[l.seq]
    <2>8. Books(V, m, Q) /\ k \in 1..m /\ ButLate(V.heap, m, k)
      <3>1. CASE Rises(At(U, i))
        <4>1. i > 1 /\ Earlier(g[i], g[Parent(i)])
          BY <2>2, <3>1 DEF Rises
        <4>2. ASSUME NEW j \in 2..m, Parent(j) = i PROVE Earlier(g[i], g[j])
          <5>1. Earlier(g[Parent(i)], g[j])
            BY <1>1, <4>1, <4>2
          <5> QED
            BY <2>1, <2>3, <2>4, <2>5, <4>1, <5>1, Order
        <4>3. \A j \in 2..m : j # i => InOrderAt(g, j)
          BY <1>1, <4>2 DEF InOrderAt
        <4>4. ButEarly(g, m, i)
          BY <1>1, <4>3 DEF ButEarly
        <4>5. Repaired(V, m, Q)
          BY <1>1, <1>2, <2>1, <4>4, Risen DEF V, g
        <4>6. k \in 1..m
          BY <2>7, <4>5 DEF Repaired, Books, SeqsOf
        <4> HIDE DEF k
        <4> QED
          BY <1>2, <4>5, <4>6, SortedButLate DEF Repaired
      <3>2. CASE ~Rises(At(U, i))
        <4>1. V = At(U, i)
          BY <1>2, <2>2, <3>2, Unmoved DEF V
        <4>2. Books(V, m, Q) /\ V.heap = g
          BY <2>2, <4>1 DEF Loops
        <4>3. k = i
          BY <2>1, <2>6, <2>7, <4>2
        <4>4. i > 1 => Earlier(g[Parent(i)], g[i])
          <5> SUFFICES ASSUME i > 1 PROVE Earlier(g[Parent(i)], g[i])
            OBVIOUS
          <5>1. ~Earlier(g[i], g[Parent(i)])
            BY <2>2, <3>2 DEF Rises
          <5>2. g[i].seq # g[Parent(i)].seq
            BY <1>1, <2>1, <2>5, Apart DEF g
          <5> QED
            BY <2>1, <2>3, <2>5, <5>1, <5>2, Order
        <4>5. \A j \in 2..m : Parent(j) # i => InOrderAt(g, j)
          <5> SUFFICES ASSUME NEW j \in 2..m, Parent(j) # i PROVE InOrderAt(g, j)
            OBVIOUS
          <5>1. CASE j = i
            <6>1. j > 1
              OBVIOUS
            <6> QED
              BY <4>4, <5>1, <6>1 DEF InOrderAt
          <5>2. CASE j # i
            BY <1>1, <5>2
          <5> QED
            BY <5>1, <5>2
        <4>6. ButLate(g, m, i)
          BY <1>1, <4>5 DEF ButLate
        <4> QED
          BY <2>1, <4>2, <4>3, <4>6
      <3> QED
        BY <3>1, <3>2
    <2>9. RemoveIndex(S, i) = Down(V, k)
      BY <1>3, <1>5
    <2> HIDE DEF k
    <2>10. Repaired(Down(V, k), m, Q)
      BY <1>2, <2>8, Sunk
    <2> QED
      BY <2>9, <2>10 DEF m, Q
  <1> QED
    BY <1>4, <1>5

\* The root is the earliest event of a heap in order.
LEMMA RootFirst ==
    ASSUME NEW n \in Nat, n > 0, NEW R \in SUBSET Events, NEW S, Repaired(S, n, R)
    PROVE  S.heap[1] \in R /\ IsFirst(S.heap[1], R)
  <1> DEFINE h == S.heap
             Late == {k \in 2..n : ~Earlier(h[1], h[k])}
  <1>1. /\ h \in [1..n -> R] /\ (\A x \in R : \E i \in 1..n : h[i] = x)
        /\ \A j \in 2..n : Earlier(h[Parent(j)], h[j])
    BY DEF Repaired, Books, Sorted, InOrderAt
  <1>2. 1 \in 1..n /\ h[1] \in R
    BY <1>1
  <1>3. Late = {}
    <2> SUFFICES ASSUME Late # {} PROVE FALSE
      OBVIOUS
    <2>1. Late \in SUBSET Nat
      OBVIOUS
    <2>2. PICK k \in Late : \A j \in Late : k <= j
      <3> HIDE DEF Late
      <3> QED
        BY <2>1, Least
    <2>3. k \in 2..n /\ ~Earlier(h[1], h[k]) /\ Earlier(h[Parent(k)], h[k])
      BY <1>1
    <2>4. Parent(k) \in 1..n /\ Parent(k) < k
      BY <2>3, ParentIn
    <2>5. Parent(k) \notin Late
      BY <2>2, <2>3, <2>4
    <2>6. Parent(k) # 1
      BY <2>3
    <2>7. Parent(k) \in 2..n
      BY <2>4, <2>6
    <2>8. Earlier(h[1], h[Parent(k)])
      BY <2>5, <2>7
    <2>9. h[1] \in Events /\ h[Parent(k)] \in Events /\ h[k] \in Events
      <3>1. \A j \in 1..n : h[j] \in Events
        BY <1>1
      <3>2. k \in 1..n
        BY <2>3
      <3> HIDE DEF h
      <3> QED
        BY <1>2, <2>4, <3>1, <3>2
    <2> QED
      BY <2>3, <2>8, <2>9, Order
  <1>4. ASSUME NEW x \in R, x # h[1] PROVE Earlier(h[1], x)
    <2>1. PICK k \in 1..n : h[k] = x
      BY <1>1
    <2>2. k \in 2..n
      BY <1>4, <2>1
    <2> QED
      BY <1>3, <2>1, <2>2
  <1> QED
    BY <1>2, <1>4 DEF IsFirst

-----------------------------------------------------------------------------
(* A scheduler filled again                                                 *)

IsPending(events, n) ==
    /\ n \in Nat /\ events \in [1..n -> Events]
    /\ \A j, k \in 1..n : j # k => events[j].seq # events[k].seq

Among(events, n) == {events[k] : k \in 1..n}

LEMMA AmongMore ==
    ASSUME NEW events, NEW N \in Nat, IsPending(events, N), NEW n \in 0..(N - 1)
    PROVE  /\ Among(events, n) \in SUBSET Events /\ events[n + 1] \in Events
           /\ events[n + 1].seq \notin SeqsOf(Among(events, n))
           /\ Among(events, n + 1) = Among(events, n) \cup {events[n + 1]}
           /\ n \in Nat /\ n + 1 \in 1..N
  <1>1. n \in Nat /\ n + 1 \in 1..N /\ (\A k \in 1..n : k \in 1..N /\ k # n + 1) /\ \A k \in 1..(n + 1) : k \in 1..n \/ k = n + 1
    OBVIOUS
  <1>2. \A k \in 1..N : events[k] \in Events
    BY DEF IsPending
  <1>3. Among(events, n) \in SUBSET Events /\ events[n + 1] \in Events
    BY <1>1, <1>2 DEF Among
  <1>4. events[n + 1].seq \notin SeqsOf(Among(events, n))
    BY <1>1 DEF IsPending, SeqsOf, Among
  <1>5. 1..(n + 1) = (1..n) \cup {n + 1}
    BY <1>1
  <1>6. Among(events, n + 1) = Among(events, n) \cup {events[n + 1]}
    BY <1>5 DEF Among
  <1> QED
    BY <1>1, <1>3, <1>4, <1>6

LEMMA FilledRepaired ==
    ASSUME NEW events, NEW N, IsPending(events, N)
    PROVE  Repaired(Filled(events), N, Among(events, N))
  <1> DEFINE G == {Empty} \cup UNION {Loops(k, Among(events, k)) : k \in 1..N}
             Step(n, S) == Insert(S, events[n])
             F == [x \in Nat \X G |-> IF Step(x[1], x[2]) \in G THEN Step(x[1], x[2]) ELSE x[2]]
             Is(f) == f = [n \in 0..N |-> IF n = 0 THEN Empty ELSE Step(n, f[n - 1])]
             f == CHOOSE f : Is(f)
  <1>1. N \in Nat /\ Len(events) = N
    BY Long DEF IsPending
  <1>2. Empty \in G /\ F \in [Nat \X G -> G]
    OBVIOUS
  <1>3. \A k \in 1..N : \A V \in Loops(k, Among(events, k)) : V \in G
    OBVIOUS
  <1>4. Filled(events) = f[N]
    BY <1>1 DEF Filled
  <1>5. \A n \in Nat : \A S \in G : F[<<n, S>>] = IF Step(n, S) \in G THEN Step(n, S) ELSE S
    OBVIOUS
  <1> HIDE DEF G, F
  <1>6. PICK g \in [Nat -> G] : g[0] = Empty /\ \A k \in Nat : g[k + 1] = F[<<k + 1, g[k]>>]
    <2>1. Defined(G, Empty, F)
      BY <1>2, Recursion
    <2> QED
      BY <2>1, Zenon DEF Defined, Recurs
  <1>7. ASSUME NEW n \in 0..(N - 1), Repaired(g[n], n, Among(events, n))
        PROVE  g[n + 1] = Step(n + 1, g[n]) /\ Repaired(g[n + 1], n + 1, Among(events, n + 1))
    <2>1. /\ Among(events, n) \in SUBSET Events /\ events[n + 1] \in Events
          /\ events[n + 1].seq \notin SeqsOf(Among(events, n))
          /\ Among(events, n + 1) = Among(events, n) \cup {events[n + 1]}
          /\ n \in Nat /\ n + 1 \in 1..N
      BY <1>1, AmongMore
    <2>2. Repaired(Step(n + 1, g[n]), n + 1, Among(events, n) \cup {events[n + 1]}) /\ Step(n + 1, g[n]) \in Loops(n + 1, Among(events, n) \cup {events[n + 1]})
      BY <1>7, <2>1, Inserted
    <2>3. Repaired(Step(n + 1, g[n]), n + 1, Among(events, n + 1)) /\ Step(n + 1, g[n]) \in Loops(n + 1, Among(events, n + 1))
      BY <2>1, <2>2
    <2>4. Step(n + 1, g[n]) \in G
      BY <1>3, <2>1, <2>3
    <2>5. g[n] \in G /\ n + 1 \in Nat /\ g[n + 1] = F[<<n + 1, g[n]>>]
      BY <1>6, <2>1
    <2> HIDE DEF Step
    <2>6. F[<<n + 1, g[n]>>] = Step(n + 1, g[n])
      BY <1>5, <2>4, <2>5
    <2> QED
      BY <2>3, <2>5, <2>6
  <1>8. \A n \in 0..N : Repaired(g[n], n, Among(events, n))
    <2> DEFINE T == {n \in Nat : n <= N => Repaired(g[n], n, Among(events, n))}
    <2>1. 0 \in T
      <3>1. Among(events, 0) = {}
        BY DEF Among
      <3> QED
        BY <1>6, <3>1, EmptyRepaired
    <2>2. ASSUME NEW n \in Nat, n \in T PROVE n + 1 \in T
      <3> SUFFICES ASSUME n + 1 <= N PROVE Repaired(g[n + 1], n + 1, Among(events, n + 1))
        OBVIOUS
      <3>1. n \in 0..(N - 1) /\ n <= N
        BY <1>1
      <3> QED
        BY <1>7, <2>2, <3>1
    <2>3. Nat \subseteq T
      <3> HIDE DEF T
      <3> QED
        BY <2>1, <2>2, Inductive
    <2> QED
      BY <2>3
  <1> DEFINE h == [n \in 0..N |-> g[n]]
  <1>9. \A n \in 0..N : h[n] = IF n = 0 THEN Empty ELSE Step(n, h[n - 1])
    <2> SUFFICES ASSUME NEW n \in 0..N PROVE g[n] = IF n = 0 THEN Empty ELSE Step(n, h[n - 1])
      OBVIOUS
    <2>1. CASE n = 0
      BY <1>6, <2>1
    <2>2. CASE n # 0
      <3>1. n - 1 \in 0..(N - 1) /\ n - 1 \in 0..N /\ (n - 1) + 1 = n
        BY <1>1, <2>2
      <3>2. g[(n - 1) + 1] = Step((n - 1) + 1, g[n - 1])
        <4> HIDE DEF Step
        <4> QED
          BY <1>7, <1>8, <3>1
      <3>3. h[n - 1] = g[n - 1]
        BY <3>1
      <3> HIDE DEF h, Step
      <3> QED
        BY <2>2, <3>1, <3>2, <3>3
    <2> QED
      BY <2>1, <2>2
  <1>10. Is(h)
    <2>1. h = [n \in 0..N |-> h[n]]
      OBVIOUS
    <2> HIDE DEF h, Step
    <2> QED
      BY <1>9, <2>1
  <1>11. \A n \in 0..N : f[n] = IF n = 0 THEN Empty ELSE Step(n, f[n - 1])
    <2>1. Is(f)
      <3> HIDE DEF Is
      <3> QED
        BY <1>10
    <2> HIDE DEF f, Step
    <2> QED
      BY <2>1
  <1>12. f[N] = h[N]
    <2> HIDE DEF f, h, Step
    <2> DEFINE T == {n \in Nat : n <= N => f[n] = h[n]}
    <2>1. 0 \in T
      BY <1>1, <1>9, <1>11
    <2>2. ASSUME NEW n \in Nat, n \in T PROVE n + 1 \in T
      <3> SUFFICES ASSUME n + 1 <= N PROVE f[n + 1] = h[n + 1]
        OBVIOUS
      <3>1. n + 1 \in 0..N /\ n + 1 # 0 /\ (n + 1) - 1 = n /\ n <= N
        BY <1>1
      <3>2. f[n] = h[n]
        BY <2>2, <3>1
      <3> QED
        BY <1>9, <1>11, <3>1, <3>2
    <2>3. Nat \subseteq T
      <3> HIDE DEF T
      <3> QED
        BY <2>1, <2>2, Inductive
    <2> QED
      BY <1>1, <2>3
  <1>13. h[N] = g[N] /\ N \in 0..N
    BY <1>1
  <1> HIDE DEF f, h
  <1> QED
    BY <1>4, <1>8, <1>12, <1>13

-----------------------------------------------------------------------------
(* The pending events in their order                                        *)

OneEach(E) == E \in SUBSET Events /\ \A e, f \in E : e.seq = f.seq => e = f

LEMMA FirstThere ==
    ASSUME NEW E, OneEach(E), E # {}
    PROVE  First(E) \in E
  <1> DEFINE T == {e.time : e \in E}
  <1>1. T \in SUBSET Nat /\ T # {}
    BY DEF OneEach, Events
  <1>2. PICK t \in T : \A u \in T : t <= u
    <2> HIDE DEF T
    <2> QED
      BY <1>1, Least
  <1> DEFINE Q == {e.seq : e \in {x \in E : x.time = t}}
  <1>3. Q \in SUBSET Nat /\ Q # {}
    BY <1>2 DEF OneEach, Events
  <1>4. PICK s \in Q : \A r \in Q : s <= r
    <2> HIDE DEF Q
    <2> QED
      BY <1>3, Least
  <1>5. PICK e \in E : e.time = t /\ e.seq = s
    BY <1>4
  <1>6. ASSUME NEW f \in E, f # e PROVE Earlier(e, f)
    <2>1. e.time \in Nat /\ f.time \in Nat /\ e.seq \in Nat /\ f.seq \in Nat /\ e.seq # f.seq
      BY <1>6 DEF OneEach, Events
    <2>2. e.time <= f.time
      BY <1>2, <1>5
    <2>3. e.time = f.time => e.seq <= f.seq
      BY <1>4, <1>5
    <2> QED
      BY <2>1, <2>2, <2>3 DEF Earlier
  <1>7. \E x \in E : IsFirst(x, E)
    BY <1>5, <1>6 DEF IsFirst
  <1> QED
    BY <1>7 DEF First

LEMMA OrderedPending ==
    ASSUME NEW E, OneEach(E), IsFiniteSet(E)
    PROVE  IsPending(InOrder(E), Cardinality(E)) /\ \A k \in 1..Cardinality(E) : InOrder(E)[k] \in E
  <1> DEFINE N == Cardinality(E)
             Step(others) == others \ {First(others)}
             F == [x \in Nat \X SUBSET E |-> Step(x[2])]
             Is(f) == f = [n \in Nat |-> IF n = 0 THEN E ELSE Step(f[n - 1])]
             f == CHOOSE f : Is(f)
  <1>1. N \in Nat
    BY FS_CardinalityType
  <1>2. E \in SUBSET E /\ F \in [Nat \X SUBSET E -> SUBSET E]
    OBVIOUS
  <1>3. InOrder(E) = [k \in 1..N |-> First(f[k - 1])]
    BY DEF InOrder
  <1>4. \A n \in Nat : \A S \in SUBSET E : F[<<n, S>>] = Step(S)
    OBVIOUS
  <1> HIDE DEF F
  <1>5. PICK g \in [Nat -> SUBSET E] : g[0] = E /\ \A k \in Nat : g[k + 1] = F[<<k + 1, g[k]>>]
    <2>1. Defined(SUBSET E, E, F)
      BY <1>2, Recursion
    <2> QED
      BY <2>1, Zenon DEF Defined, Recurs
  <1>6. \A k \in Nat : g[k + 1] = Step(g[k])
    <2> SUFFICES ASSUME NEW k \in Nat PROVE g[k + 1] = Step(g[k])
      OBVIOUS
    <2>1. k + 1 \in Nat /\ g[k] \in SUBSET E
      BY <1>5
    <2> HIDE DEF Step
    <2> QED
      BY <1>4, <1>5, <2>1
  <1> HIDE DEF Step
  <1>7. Is(g)
    <2>1. \A n \in Nat : g[n] = IF n = 0 THEN E ELSE Step(g[n - 1])
      <3> SUFFICES ASSUME NEW n \in Nat PROVE g[n] = IF n = 0 THEN E ELSE Step(g[n - 1])
        OBVIOUS
      <3>1. n # 0 => n - 1 \in Nat /\ (n - 1) + 1 = n
        OBVIOUS
      <3> QED
        BY <1>5, <1>6, <3>1
    <2> QED
      BY <1>5, <2>1
  <1>8. \A n \in Nat : f[n] = IF n = 0 THEN E ELSE Step(f[n - 1])
    <2>1. Is(f)
      <3> HIDE DEF Is
      <3> QED
        BY <1>7
    <2> HIDE DEF f
    <2> QED
      BY <2>1
  <1> HIDE DEF f
  <1>9. \A n \in Nat : f[n] = g[n]
    <2>1. \A n \in Nat : n + 1 \in Nat /\ n + 1 # 0 /\ (n + 1) - 1 = n
      OBVIOUS
    <2>2. \A n \in Nat : f[n + 1] = Step(f[n]) /\ g[n + 1] = Step(g[n])
      BY <1>6, <1>8, <2>1
    <2>3. f[0] = g[0]
      BY <1>5, <1>8
    <2>4. \A n \in Nat : f[n] = g[n] => f[n + 1] = g[n + 1]
      BY <2>2
    <2> QED
      BY <2>3, <2>4, SameValues
  <1>10. \A n \in Nat : OneEach(g[n]) /\ IsFiniteSet(g[n])
    <2> SUFFICES ASSUME NEW n \in Nat PROVE OneEach(g[n]) /\ IsFiniteSet(g[n])
      OBVIOUS
    <2>1. g[n] \subseteq E
      BY <1>5
    <2>2. IsFiniteSet(g[n])
      BY <2>1, FS_Subset
    <2> QED
      BY <2>1, <2>2 DEF OneEach
  <1>11. ASSUME NEW n \in Nat, g[n] # {}
         PROVE  First(g[n]) \in g[n] /\ Cardinality(g[n + 1]) = Cardinality(g[n]) - 1
    <2>1. OneEach(g[n]) /\ IsFiniteSet(g[n])
      BY <1>10
    <2>2. First(g[n]) \in g[n]
      BY <1>11, <2>1, FirstThere
    <2>3. g[n + 1] = g[n] \ {First(g[n])}
      BY <1>6 DEF Step
    <2> QED
      BY <2>1, <2>2, <2>3, FS_RemoveElement
  <1>12. \A n \in Nat : n <= N => Cardinality(g[n]) = N - n
    <2> DEFINE T == {n \in Nat : n <= N => Cardinality(g[n]) = N - n}
    <2>1. 0 \in T
      BY <1>1, <1>5
    <2>2. ASSUME NEW n \in Nat, n \in T PROVE n + 1 \in T
      <3> SUFFICES ASSUME n + 1 <= N PROVE Cardinality(g[n + 1]) = N - (n + 1)
        OBVIOUS
      <3>1. Cardinality(g[n]) = N - n /\ N - n # 0
        BY <1>1, <2>2
      <3>2. g[n] # {}
        BY <3>1, FS_EmptySet
      <3>3. Cardinality(g[n + 1]) = Cardinality(g[n]) - 1
        BY <1>11, <3>2
      <3> HIDE DEF N
      <3> QED
        BY <1>1, <3>1, <3>3
    <2>3. Nat \subseteq T
      <3> HIDE DEF T
      <3> QED
        BY <2>1, <2>2, Inductive
    <2> QED
      BY <2>3
  <1>13. \A n \in Nat : n < N => First(g[n]) \in g[n] /\ First(g[n]) \in E
    <2> SUFFICES ASSUME NEW n \in Nat, n < N PROVE First(g[n]) \in g[n] /\ First(g[n]) \in E
      OBVIOUS
    <2>1. Cardinality(g[n]) = N - n /\ N - n # 0
      BY <1>1, <1>12
    <2>2. g[n] # {}
      BY <2>1, FS_EmptySet
    <2>3. First(g[n]) \in g[n]
      BY <1>11, <2>2
    <2> QED
      BY <1>5, <2>3
  <1>14. ASSUME NEW j \in Nat, NEW k \in Nat, j < k PROVE First(g[j]) \notin g[k]
    <2> DEFINE T == {m \in Nat : First(g[j]) \notin g[j + 1 + m]}
    <2>1. 0 \in T
      <3>1. g[j + 1] = g[j] \ {First(g[j])} /\ j + 1 + 0 = j + 1
        BY <1>6 DEF Step
      <3> QED
        BY <3>1
    <2>2. ASSUME NEW m \in Nat, m \in T PROVE m + 1 \in T
      <3>1. j + 1 + m \in Nat /\ (j + 1 + m) + 1 = j + 1 + (m + 1)
        OBVIOUS
      <3>2. g[(j + 1 + m) + 1] = g[j + 1 + m] \ {First(g[j + 1 + m])}
        BY <1>6, <3>1 DEF Step
      <3> QED
        BY <2>2, <3>1, <3>2
    <2>3. Nat \subseteq T
      <3> HIDE DEF T
      <3> QED
        BY <2>1, <2>2, Inductive
    <2>4. k - (j + 1) \in Nat /\ j + 1 + (k - (j + 1)) = k
      BY <1>14
    <2> QED
      BY <2>3, <2>4
  <1> DEFINE p == InOrder(E)
  <1>15. ASSUME NEW k \in 1..N PROVE k - 1 \in Nat /\ k - 1 < N /\ p[k] = First(g[k - 1])
    <2>1. k - 1 \in Nat /\ k - 1 < N
      BY <1>1
    <2>2. p[k] = First(f[k - 1])
      BY <1>3
    <2> QED
      BY <1>9, <2>1, <2>2
  <1>16. \A k \in 1..N : p[k] \in E
    BY <1>13, <1>15
  <1>17. \A j, k \in 1..N : j < k => p[j] # p[k]
    <2> SUFFICES ASSUME NEW j \in 1..N, NEW k \in 1..N, j < k PROVE p[j] # p[k]
      OBVIOUS
    <2>1. j - 1 \in Nat /\ k - 1 \in Nat /\ j - 1 < k - 1 /\ k - 1 < N
      BY <1>1
    <2>2. p[j] = First(g[j - 1]) /\ p[k] = First(g[k - 1])
      BY <1>15
    <2>3. First(g[j - 1]) \notin g[k - 1] /\ First(g[k - 1]) \in g[k - 1]
      BY <1>13, <1>14, <2>1
    <2> QED
      BY <2>2, <2>3
  <1>18. \A j, k \in 1..N : j # k => j < k \/ k < j
    BY <1>1
  <1>19. p \in [1..N -> Events]
    <2>1. p = [k \in 1..N |-> p[k]]
      BY <1>3
    <2>2. E \subseteq Events
      BY DEF OneEach
    <2> HIDE DEF p
    <2> QED
      BY <1>16, <2>1, <2>2
  <1>20. \A j, k \in 1..N : j # k => p[j].seq # p[k].seq
    <2> HIDE DEF p, N
    <2>1. \A j, k \in 1..N : j # k => p[j] # p[k]
      BY <1>17, <1>18
    <2> QED
      BY <1>16, <2>1 DEF OneEach
  <1> QED
    BY <1>1, <1>16, <1>19, <1>20 DEF IsPending

-----------------------------------------------------------------------------
(* The invariant                                                            *)

\* The events of times and of sequence numbers below m.
Due(m) == [time : Times, seq : 0..(m - 1)]

LEMMA DueEvents == ASSUME NEW m \in Nat, NEW e \in Due(m) PROVE e \in Events /\ e.time \in Times /\ e.seq \in Nat /\ e.seq < m
  <1>1. e \in [time : Times, seq : 0..(m - 1)]
    BY DEF Due
  <1>2. e.time \in Times /\ e.seq \in 0..(m - 1) /\ e = [time |-> e.time, seq |-> e.seq]
    BY <1>1
  <1>3. e.time \in Nat /\ e.seq \in Nat /\ e.seq < m
    BY <1>2, SchedulerAssumption
  <1> QED
    BY <1>2, <1>3 DEF Events

\* The events in the heap were scheduled, or restored, in this era.
HeapInv ==
    /\ next \in 0..MaxSequence
    /\ Len(heap) \in Nat
    /\ Repaired(State, Len(heap), Range(heap))
    /\ Range(heap) \subseteq Due(next)

\* A handle of this era names no pending event but its own.
Names(h, R, m) == h.event \in Due(m) /\ \A e \in R : e.seq = h.event.seq => e = h.event
HandlesInv == \A h \in handles : /\ h.era \in Nat /\ h.era <= generation
                                 /\ h.era = generation => Names(h, Range(heap), next)

\* What was exported can be restored.
SavedInv ==
    /\ saved.next \in 0..MaxSequence
    /\ IsPending(saved.pending, Len(saved.pending))
    /\ \A k \in 1..Len(saved.pending) : saved.pending[k] \in Due(saved.next)

SchedulerInv ==
    /\ generation \in Nat /\ now \in Times
    /\ HeapInv
    /\ HandlesInv
    /\ SavedInv

-----------------------------------------------------------------------------
(* What the operations make of the heap                                     *)

\* The heap is in order and holds the events R.
Holds(heap_, positions_, R) ==
    Repaired([heap |-> heap_, positions |-> positions_], Len(heap_), R) /\ Len(heap_) \in Nat /\ Range(heap_) = R

LEMMA Becoming ==
    ASSUME NEW V, NEW n \in Nat, NEW R, Repaired(V, n, R), Become(V)
    PROVE  Holds(heap', positions', R)
  <1> DEFINE h == V.heap
             p == V.positions
             W == [heap |-> h, positions |-> p]
  <1>1. heap' = h /\ positions' = p
    BY DEF Become
  <1>2. h \in [1..n -> R] /\ \A e \in R : \E i \in 1..n : h[i] = e
    BY DEF Repaired, Books
  <1>3. W.heap = h /\ W.positions = p
    OBVIOUS
  <1> HIDE DEF W
  <1>4. Repaired(W, n, R)
    BY <1>3 DEF Repaired, Books, Sorted
  <1> HIDE DEF h, p
  <1>5. Len(h) = n
    BY <1>2, Long
  <1>6. Range(h) = R
    BY <1>2 DEF Range
  <1> QED
    BY <1>1, <1>4, <1>5, <1>6 DEF Holds, W

LEMMA Held ==
    ASSUME HeapInv
    PROVE  /\ Holds(heap, positions, Range(heap)) /\ Range(heap) \in SUBSET Events /\ Len(heap) \in Nat
           /\ heap \in [1..Len(heap) -> Range(heap)] /\ DOMAIN heap = 1..Len(heap)
           /\ DOMAIN positions = SeqsOf(Range(heap))
           /\ \A i \in 1..Len(heap) : positions[heap[i].seq] = i
           /\ \A e \in Range(heap) : \E i \in 1..Len(heap) : heap[i] = e
           /\ Sorted(heap, Len(heap))
  <1>1. Holds(heap, positions, Range(heap))
    BY DEF HeapInv, Holds, State
  <1>2. Range(heap) \in SUBSET Events
    <2>1. next \in Nat
      BY SchedulerAssumption DEF HeapInv
    <2>2. \A e \in Due(next) : e \in Events
      BY <2>1, DueEvents
    <2> QED
      BY <2>2 DEF HeapInv
  <1>3. Books(State, Len(heap), Range(heap)) /\ Sorted(State.heap, Len(heap)) /\ State.heap = heap /\ State.positions = positions
    BY DEF HeapInv, Repaired, State
  <1>4. /\ heap \in [1..Len(heap) -> Range(heap)]
        /\ positions \in [SeqsOf(Range(heap)) -> 1..Len(heap)]
        /\ \A i \in 1..Len(heap) : positions[heap[i].seq] = i
        /\ \A e \in Range(heap) : \E i \in 1..Len(heap) : heap[i] = e
    BY <1>3 DEF Books
  <1> QED
    BY <1>1, <1>2, <1>3, <1>4 DEF HeapInv

\* In a heap in order, a sequence number names one event.
LEMMA HeldOneEach ==
    ASSUME HeapInv
    PROVE  OneEach(Range(heap)) /\ IsFiniteSet(Range(heap))
  <1> DEFINE n == Len(heap)
             R == Range(heap)
  <1>1. /\ R \in SUBSET Events /\ n \in Nat /\ heap \in [1..n -> R]
        /\ \A i \in 1..n : positions[heap[i].seq] = i
        /\ \A e \in R : \E i \in 1..n : heap[i] = e
        /\ DOMAIN heap = 1..n
    BY Held
  <1>2. R = {heap[x] : x \in 1..n}
    BY <1>1 DEF Range
  <1> HIDE DEF R, n
  <1>3. \A e, f \in R : e.seq = f.seq => e = f
    <2> SUFFICES ASSUME NEW e \in R, NEW f \in R, e.seq = f.seq PROVE e = f
      OBVIOUS
    <2>1. PICK i \in 1..n : heap[i] = e
      BY <1>1
    <2>2. PICK j \in 1..n : heap[j] = f
      BY <1>1
    <2> QED
      BY <1>1, <2>1, <2>2
  <1>4. heap \in Seq(R) /\ Len(heap) = n
    BY <1>1, Long
  <1>5. IsFiniteSet(R)
    BY <1>1, <1>4 DEF IsFiniteSet
  <1> QED
    BY <1>1, <1>2, <1>3, <1>5 DEF OneEach, R

\* The event a call of schedule adds, on its way.
Added(t) == [time |-> t, seq |-> next]

LEMMA ScheduleHolds ==
    ASSUME SchedulerInv, NEW t \in Times, Schedule(t)
    PROVE  /\ Holds(heap', positions', Range(heap) \cup {Added(t)})
           /\ Added(t) \in Due(next + 1) /\ \A e \in Range(heap) : e.seq # next
  <1> DEFINE R == Range(heap)
             e == Added(t)
  <1>1. Repaired(State, Len(heap), R) /\ Len(heap) \in Nat /\ R \in SUBSET Events
    BY Held DEF SchedulerInv, HeapInv
  <1>2. e \in Due(next + 1) /\ e.seq = next /\ e \in Events /\ next \in Nat
    BY SchedulerAssumption DEF SchedulerInv, HeapInv, Due, Events, Added
  <1>3. \A x \in R : x.seq # next
    BY <1>2 DEF SchedulerInv, HeapInv, Due
  <1>4. e.seq \notin SeqsOf(R)
    BY <1>2, <1>3 DEF SeqsOf
  <1>5. Become(Insert(State, e))
    BY DEF Schedule, Added
  <1> HIDE DEF e, R
  <1>6. Repaired(Insert(State, e), Len(heap) + 1, R \cup {e})
    BY <1>1, <1>2, <1>4, Inserted
  <1>7. Len(heap) + 1 \in Nat
    BY <1>1
  <1> DEFINE V == Insert(State, e)
             Q == R \cup {e}
  <1> HIDE DEF V, Q
  <1>8. Holds(heap', positions', Q)
    <2>1. Repaired(V, Len(heap) + 1, Q) /\ Become(V)
      BY <1>5, <1>6 DEF V, Q
    <2> QED
      BY <1>7, <2>1, Becoming
  <1> QED
    BY <1>2, <1>3, <1>8 DEF Q, R, e

LEMMA RemoveHolds ==
    ASSUME SchedulerInv, NEW i \in 1..Len(heap), Become(RemoveIndex(State, i))
    PROVE  Holds(heap', positions', Range(heap) \ {heap[i]})
  <1> DEFINE R == Range(heap)
             n == Len(heap)
             V == RemoveIndex(State, i)
             e == heap[i]
  <1>1. Repaired(State, n, R) /\ n \in Nat /\ R \in SUBSET Events /\ State.heap = heap
    BY Held DEF SchedulerInv, HeapInv, State
  <1>2. n - 1 \in Nat
    BY <1>1
  <1>3. Repaired(V, n - 1, R \ {State.heap[i]})
    <2> HIDE DEF R, n
    <2> USE DEF n
    <2> QED
      BY <1>1, Removed
  <1> DEFINE Q == R \ {e}
             m == n - 1
  <1>4. Repaired(V, m, Q) /\ m \in Nat /\ Become(V)
    BY <1>1, <1>2, <1>3
  <1> HIDE DEF V, Q, m
  <1>5. Holds(heap', positions', Q)
    BY <1>4, Becoming
  <1> QED
    BY <1>5 DEF Q

\* A handle that is honoured and whose event is in the index cancels that event.
LEMMA CancelHolds ==
    ASSUME SchedulerInv, NEW h \in handles, Cancel(h)
    PROVE  h.event \in Range(heap) /\ h.era = generation /\ Holds(heap', positions', Range(heap) \ {h.event})
  <1> DEFINE R == Range(heap)
             i == positions[h.event.seq]
  <1>1. h.era = generation /\ h.event.seq \in DOMAIN positions /\ Become(RemoveIndex(State, i))
    BY DEF Cancel, Honoured
  <1>2. \A e \in R : e.seq = h.event.seq => e = h.event
    BY <1>1 DEF SchedulerInv, HandlesInv, Names
  <1>3. PICK e \in R : e.seq = h.event.seq
    BY <1>1, Held DEF SchedulerInv, SeqsOf
  <1>4. PICK k \in 1..Len(heap) : heap[k] = e
    BY Held DEF SchedulerInv
  <1>5. i = k
    BY <1>3, <1>4, Held DEF SchedulerInv
  <1>6. e = h.event /\ heap[i] = h.event /\ i \in 1..Len(heap)
    BY <1>2, <1>3, <1>4, <1>5
  <1> HIDE DEF i
  <1>7. Holds(heap', positions', Range(heap) \ {heap[i]})
    BY <1>1, <1>6, RemoveHolds
  <1> QED
    BY <1>1, <1>6, <1>7

LEMMA TakeHolds ==
    ASSUME SchedulerInv, TakeNext
    PROVE  /\ heap[1] \in Range(heap) /\ IsFirst(heap[1], Range(heap))
           /\ Holds(heap', positions', Range(heap) \ {heap[1]})
  <1> DEFINE R == Range(heap)
             n == Len(heap)
  <1>1. Repaired(State, n, R) /\ n \in Nat /\ R \in SUBSET Events /\ State.heap = heap
    BY Held DEF SchedulerInv, HeapInv, State
  <1>2. n > 0
    <2>1. heap \in [1..n -> R] /\ heap # <<>>
      BY Held DEF SchedulerInv, TakeNext
    <2>2. n = 0 => heap = <<>>
      BY <2>1
    <2> QED
      BY <1>1, <2>2, <2>1
  <1>3. heap[1] \in R /\ IsFirst(heap[1], R)
    <2> HIDE DEF R, n
    <2> QED
      BY <1>1, <1>2, RootFirst
  <1>4. 1 \in 1..Len(heap)
    BY <1>1, <1>2
  <1>5. Holds(heap', positions', R \ {heap[1]})
    BY <1>4, RemoveHolds DEF TakeNext
  <1> QED
    BY <1>3, <1>5

LEMMA ResetHolds ==
    ASSUME Become(Empty)
    PROVE  Holds(heap', positions', {})
  BY EmptyRepaired, Becoming

LEMMA RestoreHolds ==
    ASSUME SchedulerInv, Become(Filled(saved.pending))
    PROVE  LET R == Among(saved.pending, Len(saved.pending))
           IN  /\ Holds(heap', positions', R) /\ R \subseteq Due(saved.next)
               /\ \A e, f \in R : e.seq = f.seq => e = f
  <1> DEFINE p == saved.pending
             n == Len(p)
             R == Among(p, n)
             V == Filled(p)
  <1>1. IsPending(p, n) /\ \A k \in 1..n : p[k] \in Due(saved.next)
    BY DEF SchedulerInv, SavedInv
  <1>2. n \in Nat /\ Become(V)
    BY <1>1 DEF IsPending
  <1> HIDE DEF p, n
  <1>3. Repaired(V, n, R)
    BY <1>1, FilledRepaired
  <1>4. R \subseteq Due(saved.next)
    BY <1>1 DEF Among
  <1>5. \A e, f \in R : e.seq = f.seq => e = f
    BY <1>1 DEF IsPending, Among
  <1> HIDE DEF R, V
  <1>6. Holds(heap', positions', R)
    BY <1>2, <1>3, Becoming
  <1> QED
    BY <1>4, <1>5, <1>6 DEF R, n, p

-----------------------------------------------------------------------------
(* The invariant is kept                                                    *)

LEMMA HeapKept ==
    ASSUME NEW R, Holds(heap', positions', R), R \subseteq Due(next'), next' \in 0..MaxSequence
    PROVE  HeapInv' /\ Range(heap') = R
  BY DEF Holds, HeapInv, State

LEMMA DueMore == ASSUME NEW m \in Nat PROVE Due(m) \subseteq Due(m + 1)
  <1>1. 0..(m - 1) \subseteq 0..((m + 1) - 1)
    OBVIOUS
  <1> QED
    BY <1>1 DEF Due

LEMMA InitKeeps == Init => SchedulerInv
  <1> SUFFICES ASSUME Init PROVE SchedulerInv
    OBVIOUS
  <1>1. heap = <<>> /\ positions = <<>> /\ next = 0 /\ generation = 0 /\ now \in Times /\ handles = {} /\ saved = Nothing
    BY DEF Init
  <1>2. State = Empty
    BY <1>1 DEF State, Empty
  <1>3. Len(heap) = 0 /\ Range(heap) = {}
    BY <1>1 DEF Range
  <1>4. HeapInv
    BY <1>1, <1>2, <1>3, EmptyRepaired, SchedulerAssumption DEF HeapInv
  <1>5. HandlesInv
    BY <1>1 DEF HandlesInv
  <1>6. saved.next = 0 /\ saved.pending = <<>>
    BY <1>1 DEF Nothing
  <1>7. SavedInv
    <2>1. Len(saved.pending) = 0 /\ saved.pending \in [1..0 -> Events] /\ 1..0 = {}
      BY <1>6
    <2> QED
      BY <1>6, <2>1, SchedulerAssumption DEF SavedInv, IsPending
  <1> QED
    BY <1>1, <1>4, <1>5, <1>7 DEF SchedulerInv

LEMMA ScheduleKeeps ==
    ASSUME SchedulerInv, NEW t \in Times, Schedule(t)
    PROVE  SchedulerInv' /\ Range(heap') = Range(heap) \cup {Added(t)}
  <1> DEFINE R == Range(heap)
             e == Added(t)
             Q == R \cup {e}
  <1>1. /\ Holds(heap', positions', Q) /\ e \in Due(next + 1) /\ \A x \in R : x.seq # next
    BY ScheduleHolds
  <1>2. /\ next < MaxSequence /\ next' = next + 1 /\ next \in 0..MaxSequence /\ R \subseteq Due(next)
        /\ handles' = handles \cup {[event |-> e, era |-> generation]}
        /\ UNCHANGED <<generation, now, saved>>
    BY DEF Schedule, SchedulerInv, HeapInv, Added
  <1>3. next \in Nat /\ next' \in 0..MaxSequence
    BY <1>2, SchedulerAssumption
  <1>4. Due(next) \subseteq Due(next + 1)
    BY <1>3, DueMore
  <1>5. Q \subseteq Due(next')
    BY <1>1, <1>2, <1>4
  <1>6. e.seq = next
    BY DEF Added
  <1> HIDE DEF R, Q, e
  <1>7. HeapInv' /\ Range(heap') = Q
    BY <1>1, <1>3, <1>5, HeapKept
  <1>8. HandlesInv'
    <2> SUFFICES ASSUME NEW h \in handles'
                 PROVE  h.era \in Nat /\ h.era <= generation' /\ (h.era = generation' => Names(h, Range(heap'), next'))
      BY DEF HandlesInv
    <2>1. CASE h \in handles
      <3>1. h.era \in Nat /\ h.era <= generation /\ (h.era = generation => Names(h, R, next))
        BY <2>1 DEF SchedulerInv, HandlesInv, R
      <3>2. ASSUME h.era = generation PROVE Names(h, Q, next')
        <4>1. h.event \in Due(next) /\ \A x \in R : x.seq = h.event.seq => x = h.event
          BY <3>1, <3>2 DEF Names
        <4>2. h.event.seq # next
          <5>1. h.event.seq \in Nat /\ h.event.seq < next
            BY <1>3, <4>1, DueEvents
          <5> QED
            BY <1>3, <5>1
        <4>3. h.event \in Due(next')
          BY <1>2, <1>4, <4>1
        <4> QED
          BY <1>6, <4>1, <4>2, <4>3 DEF Names, Q
      <3> QED
        BY <1>2, <1>7, <3>1, <3>2
    <2>2. CASE h = [event |-> e, era |-> generation]
      <3>1. h.event = e /\ h.era = generation /\ generation \in Nat
        BY <2>2 DEF SchedulerInv
      <3>2. Names(h, Q, next')
        BY <1>1, <1>2, <1>6, <3>1 DEF Names, Q
      <3> QED
        BY <1>2, <1>7, <3>1, <3>2
    <2> QED
      BY <1>2, <2>1, <2>2
  <1>9. SavedInv'
    BY <1>2 DEF SchedulerInv, SavedInv
  <1> QED
    BY <1>2, <1>7, <1>8, <1>9 DEF SchedulerInv, R, Q, e

\* An operation that takes an event out of the heap.
LEMMA LessKeeps ==
    ASSUME SchedulerInv, NEW Q, Q \subseteq Range(heap), Holds(heap', positions', Q), now' \in Times,
           UNCHANGED <<next, generation, pristine, handles, saved>>
    PROVE  SchedulerInv' /\ Range(heap') = Q
  <1>1. next \in 0..MaxSequence /\ Range(heap) \subseteq Due(next)
    BY DEF SchedulerInv, HeapInv
  <1>2. HeapInv' /\ Range(heap') = Q
    BY <1>1, HeapKept
  <1>3. HandlesInv'
    BY <1>2 DEF SchedulerInv, HandlesInv, Names
  <1>4. SavedInv'
    BY DEF SchedulerInv, SavedInv
  <1> QED
    BY <1>2, <1>3, <1>4 DEF SchedulerInv

LEMMA CancelKeeps ==
    ASSUME SchedulerInv, NEW h \in handles, Cancel(h)
    PROVE  SchedulerInv' /\ Range(heap') = Range(heap) \ {h.event}
  <1>1. Holds(heap', positions', Range(heap) \ {h.event})
    BY CancelHolds
  <1>2. UNCHANGED <<next, generation, pristine, now, handles, saved>> /\ now \in Times
    BY DEF Cancel, SchedulerInv
  <1> DEFINE Q == Range(heap) \ {h.event}
  <1>3. Holds(heap', positions', Q) /\ Q \subseteq Range(heap)
    BY <1>1
  <1> HIDE DEF Q
  <1>4. SchedulerInv' /\ Range(heap') = Q
    BY <1>2, <1>3, LessKeeps
  <1> QED
    BY <1>4 DEF Q

LEMMA TakeKeeps ==
    ASSUME SchedulerInv, TakeNext
    PROVE  SchedulerInv' /\ Range(heap') = Range(heap) \ {heap[1]}
  <1>1. heap[1] \in Range(heap) /\ Holds(heap', positions', Range(heap) \ {heap[1]})
    BY TakeHolds
  <1>2. UNCHANGED <<next, generation, pristine, handles, saved>> /\ now' = heap[1].time
    BY DEF TakeNext
  <1>3. heap[1].time \in Times
    <2>1. next \in Nat /\ heap[1] \in Due(next)
      BY <1>1, SchedulerAssumption DEF SchedulerInv, HeapInv
    <2> QED
      BY <2>1, DueEvents
  <1> DEFINE Q == Range(heap) \ {heap[1]}
  <1>4. Holds(heap', positions', Q) /\ Q \subseteq Range(heap)
    BY <1>1
  <1> HIDE DEF Q
  <1>5. SchedulerInv' /\ Range(heap') = Q
    BY <1>2, <1>3, <1>4, LessKeeps
  <1> QED
    BY <1>5 DEF Q

\* A new era: no handle is of it.
LEMMA EraKeeps ==
    ASSUME SchedulerInv, NEW R, Holds(heap', positions', R), R \subseteq Due(next'), next' \in 0..MaxSequence,
           generation' = generation + 1, UNCHANGED <<now, handles, saved>>
    PROVE  SchedulerInv' /\ Range(heap') = R
  <1>1. HeapInv' /\ Range(heap') = R
    BY HeapKept
  <1>2. HandlesInv'
    <2>1. generation \in Nat /\ \A h \in handles : h.era \in Nat /\ h.era <= generation
      BY DEF SchedulerInv, HandlesInv
    <2>2. \A h \in handles : h.era <= generation' /\ h.era # generation'
      BY <2>1
    <2> QED
      BY <2>1, <2>2 DEF HandlesInv
  <1>3. SavedInv'
    BY DEF SchedulerInv, SavedInv
  <1>4. generation' \in Nat /\ now' \in Times
    BY DEF SchedulerInv
  <1> QED
    BY <1>1, <1>2, <1>3, <1>4 DEF SchedulerInv

LEMMA ResetKeeps ==
    ASSUME SchedulerInv, Reset
    PROVE  SchedulerInv' /\ Range(heap') = {}
  <1>1. /\ Become(Empty) /\ next' = 0 /\ generation' = generation + 1
        /\ UNCHANGED <<now, handles, saved>>
    BY DEF Reset
  <1>2. Holds(heap', positions', {})
    BY <1>1, ResetHolds
  <1>3. next' \in 0..MaxSequence
    BY <1>1, SchedulerAssumption
  <1> DEFINE R == {}
  <1>4. Holds(heap', positions', R) /\ R \subseteq Due(next')
    BY <1>2
  <1> HIDE DEF R
  <1>5. SchedulerInv' /\ Range(heap') = R
    BY <1>1, <1>3, <1>4, EraKeeps
  <1> QED
    BY <1>5 DEF R

LEMMA RestoreKeeps ==
    ASSUME SchedulerInv, Restore
    PROVE  SchedulerInv' /\ Range(heap') = Among(saved.pending, Len(saved.pending))
  <1> DEFINE R == Among(saved.pending, Len(saved.pending))
  <1>1. /\ Become(Filled(saved.pending)) /\ next' = saved.next /\ generation' = generation + 1
        /\ UNCHANGED <<now, handles, saved>>
    BY DEF Restore
  <1>2. Holds(heap', positions', R) /\ R \subseteq Due(saved.next)
    BY <1>1, RestoreHolds
  <1>3. next' \in 0..MaxSequence
    BY <1>1 DEF SchedulerInv, SavedInv
  <1> HIDE DEF R
  <1>4. SchedulerInv' /\ Range(heap') = R
    BY <1>1, <1>2, <1>3, EraKeeps
  <1> QED
    BY <1>4 DEF R

LEMMA ExportKeeps ==
    ASSUME SchedulerInv, ExportState
    PROVE  SchedulerInv'
  <1> DEFINE R == Range(heap)
             N == Cardinality(R)
             p == InOrder(R)
  <1>1. saved' = [next |-> next, taken |-> TRUE, pending |-> p] /\ UNCHANGED <<heap, positions, next, generation, pristine, now, handles>>
    BY DEF ExportState
  <1>2. OneEach(R) /\ IsFiniteSet(R) /\ R \subseteq Due(next) /\ next \in 0..MaxSequence
    BY HeldOneEach DEF SchedulerInv, HeapInv
  <1> HIDE DEF R
  <1>3. IsPending(p, N) /\ \A k \in 1..N : p[k] \in R
    BY <1>2, OrderedPending
  <1> HIDE DEF p, N
  <1>4. Len(p) = N
    BY <1>3, Long DEF IsPending
  <1>5. saved'.next = next /\ saved'.pending = p
    BY <1>1
  <1>6. SavedInv'
    BY <1>1, <1>2, <1>3, <1>4, <1>5 DEF SavedInv
  <1> QED
    BY <1>1, <1>6 DEF SchedulerInv, HeapInv, HandlesInv, State

LEMMA NextKeeps == SchedulerInv /\ [Next]_vars => SchedulerInv'
  <1> SUFFICES ASSUME SchedulerInv, [Next]_vars PROVE SchedulerInv'
    OBVIOUS
  <1>1. CASE \E t \in Times : Schedule(t)
    BY <1>1, ScheduleKeeps
  <1>2. CASE \E h \in handles : Cancel(h)
    BY <1>2, CancelKeeps
  <1>3. CASE TakeNext
    BY <1>3, TakeKeeps
  <1>4. CASE ExportState
    BY <1>4, ExportKeeps
  <1>5. CASE Reset
    BY <1>5, ResetKeeps
  <1>6. CASE Restore
    BY <1>6, RestoreKeeps
  <1>7. CASE UNCHANGED vars
    BY <1>7 DEF vars, SchedulerInv, HeapInv, HandlesInv, SavedInv, State
  <1> QED
    BY <1>1, <1>2, <1>3, <1>4, <1>5, <1>6, <1>7 DEF Next

LEMMA Invariant == Spec => []SchedulerInv
  BY InitKeeps, NextKeeps, PTL DEF Spec

\* The heap is in order and the index agrees with it, after any sequence of
\* insertions, removals from any place, resets and restorations, whatever the
\* number of events.
THEOREM HeapIsExact == Spec => []HeapExact
  <1>1. SchedulerInv => HeapExact
    <2> SUFFICES ASSUME SchedulerInv PROVE HeapExact
      OBVIOUS
    <2> DEFINE n == Len(heap)
    <2>1. /\ heap \in [1..n -> Range(heap)] /\ n \in Nat /\ DOMAIN heap = 1..n
          /\ DOMAIN positions = SeqsOf(Range(heap))
          /\ (\A i \in 1..n : positions[heap[i].seq] = i)
          /\ Sorted(heap, n)
      BY Held DEF SchedulerInv
    <2> HIDE DEF n
    <2>2. \A i \in DOMAIN heap : i > 1 => Earlier(heap[Parent(i)], heap[i])
      BY <2>1 DEF Sorted, InOrderAt
    <2>3. SeqsOf(Range(heap)) = {heap[i].seq : i \in DOMAIN heap}
      BY DEF SeqsOf, Range
    <2> QED
      BY <2>1, <2>2, <2>3 DEF HeapExact
  <1> QED
    BY <1>1, Invariant, PTL

-----------------------------------------------------------------------------
(* The agenda                                                               *)

LEMMA ScheduleIs ==
    ASSUME SchedulerInv, NEW t \in Times, Schedule(t)
    PROVE  AgendaOf!Schedule(t)
  <1>1. Range(heap') = Range(heap) \cup {Added(t)}
    BY ScheduleKeeps
  <1> QED
    BY <1>1 DEF Schedule, Added, AgendaOf!Schedule

LEMMA CancelIs ==
    ASSUME SchedulerInv, NEW h \in handles, Cancel(h)
    PROVE  AgendaOf!Cancel(h)
  <1>1. Range(heap') = Range(heap) \ {h.event} /\ h.event \in Range(heap) /\ h.era = generation
    BY CancelKeeps, CancelHolds
  <1> QED
    BY <1>1 DEF Cancel, AgendaOf!Cancel

LEMMA TakeIs ==
    ASSUME SchedulerInv, TakeNext
    PROVE  AgendaOf!Take
  <1>1. Range(heap') = Range(heap) \ {heap[1]} /\ heap[1] \in Range(heap) /\ IsFirst(heap[1], Range(heap))
    BY TakeKeeps, TakeHolds
  <1>2. now' = heap[1].time /\ UNCHANGED <<next, generation, handles>>
    BY DEF TakeNext
  <1> DEFINE x == heap[1]
  <1>3. /\ x \in Range(heap) /\ IsFirst(x, Range(heap)) /\ Range(heap') = Range(heap) \ {x} /\ now' = x.time
    BY <1>1, <1>2
  <1> HIDE DEF x
  <1>4. x \in Range(heap) /\ AgendaOf!IsFirst(x, Range(heap)) /\ Range(heap') = Range(heap) \ {x} /\ now' = x.time
    BY <1>3 DEF IsFirst, Earlier, AgendaOf!IsFirst, AgendaOf!Earlier
  <1> QED
    BY <1>2, <1>4 DEF AgendaOf!Take

LEMMA Numbers == ASSUME NEW m \in Nat, m <= MaxSequence PROVE 0..(m - 1) \subseteq 0..(MaxSequence - 1)
  BY SchedulerAssumption

\* What Agenda asks of the events a new era begins with.
LEMMA EraIs ==
    ASSUME NEW R, Range(heap') = R, next' \in 0..MaxSequence, R \subseteq Due(next'),
           \A e, f \in R : e.seq = f.seq => e = f,
           generation' = generation + 1, UNCHANGED <<now, handles>>
    PROVE  AgendaOf!Restart
  <1>1. next' \in Nat /\ next' <= MaxSequence
    BY SchedulerAssumption
  <1>2. \A e \in R : e \in AgendaOf!Event /\ e.seq < next'
    <2> SUFFICES ASSUME NEW e \in R PROVE e \in AgendaOf!Event /\ e.seq < next'
      OBVIOUS
    <2>1. 0..(next' - 1) \subseteq 0..(MaxSequence - 1)
      BY <1>1, Numbers
    <2>2. e \in Due(next') /\ Due(next') \subseteq AgendaOf!Event
      BY <2>1 DEF Due, AgendaOf!Event
    <2> QED
      BY <1>1, <2>2, DueEvents
  <1> QED
    BY <1>2 DEF AgendaOf!Restart

LEMMA ResetIs ==
    ASSUME SchedulerInv, Reset
    PROVE  AgendaOf!Restart
  <1>1. Range(heap') = {} /\ generation' = generation + 1 /\ next' = 0 /\ UNCHANGED <<now, handles>>
    BY ResetKeeps DEF Reset
  <1>2. next' \in 0..MaxSequence
    BY <1>1, SchedulerAssumption
  <1> QED
    BY <1>1, <1>2, EraIs

LEMMA RestoreIs ==
    ASSUME SchedulerInv, Restore
    PROVE  AgendaOf!Restart
  <1> DEFINE R == Among(saved.pending, Len(saved.pending))
  <1>1. Range(heap') = R /\ generation' = generation + 1 /\ next' = saved.next /\ UNCHANGED <<now, handles>>
    BY RestoreKeeps DEF Restore
  <1>2. R \subseteq Due(saved.next) /\ \A e, f \in R : e.seq = f.seq => e = f
    BY RestoreHolds DEF Restore
  <1>3. next' \in 0..MaxSequence
    BY <1>1 DEF SchedulerInv, SavedInv
  <1> HIDE DEF R
  <1> QED
    BY <1>1, <1>2, <1>3, EraIs

LEMMA InitIs == Init => AgendaOf!Init
  BY DEF Init, AgendaOf!Init, Range

LEMMA NextIs == SchedulerInv /\ [Next]_vars => [AgendaOf!Next]_AgendaOf!vars
  <1> SUFFICES ASSUME SchedulerInv, [Next]_vars PROVE [AgendaOf!Next]_AgendaOf!vars
    OBVIOUS
  <1>1. CASE \E t \in Times : Schedule(t)
    BY <1>1, ScheduleIs DEF AgendaOf!Next
  <1>2. CASE \E h \in handles : Cancel(h)
    BY <1>2, CancelIs DEF AgendaOf!Next
  <1>3. CASE TakeNext
    BY <1>3, TakeIs DEF AgendaOf!Next
  <1>4. CASE ExportState
    BY <1>4 DEF ExportState, AgendaOf!vars
  <1>5. CASE Reset
    BY <1>5, ResetIs DEF AgendaOf!Next
  <1>6. CASE Restore
    BY <1>6, RestoreIs DEF AgendaOf!Next
  <1>7. CASE UNCHANGED vars
    BY <1>7 DEF vars, AgendaOf!vars
  <1> QED
    BY <1>1, <1>2, <1>3, <1>4, <1>5, <1>6, <1>7 DEF Next

\* The binary heap, its index and its handles implement the agenda: events are
\* taken in the order of time and insertion, a handle cancels its own event and
\* no other, and none that was issued before a reset or a restore does anything.
THEOREM SchedulerIsAnAgenda == Spec => ImplementsAgenda
  BY Invariant, InitIs, NextIs, PTL DEF Spec, ImplementsAgenda, AgendaOf!Spec
=============================================================================
