--------------------------- MODULE AssemblyProofs ---------------------------
(***************************************************************************)
(* What StartRun accepts and what a Host resumes, for every assembly,      *)
(* registry, selection, plan and set of artifacts.                         *)
(***************************************************************************)
EXTENDS AssemblyProperties, FiniteSetTheorems, SequenceTheorems, TLAPS

(* Recursive functions. *)

LEMMA Least ==
    ASSUME NEW S, S \subseteq Nat, S # {}
    PROVE  \E x \in S : \A y \in S : x <= y
<1>1. PICK x \in S : \A y \in S : ~ (<<y, x>> \in OpToRel(<, Nat))
  BY NatLessThanWellFounded, WFMin
<1>2. \A y \in S : ~(y < x)
  BY <1>1 DEF OpToRel
<1>3. x \in Nat /\ \A y \in S : y \in Nat
  OBVIOUS
<1>4. \A y \in S : x <= y
  BY <1>2, <1>3
<1> QED BY <1>4

\* The function that starts with s0 and whose k-th value is step of k and the value before.
Steps(N, T) == [N \X T -> T]
Solves(h, T, s0, step) ==
    /\ h \in [Nat -> T]
    /\ h = [k \in Nat |-> IF k = 0 THEN s0 ELSE step[<<k, h[k - 1]>>]]
SolvesTo(L, g, T, s0, step) ==
    /\ g \in [0..L -> T]
    /\ g[0] = s0
    /\ \A k \in 1..L : g[k] = step[<<k, g[k - 1]>>]

LEMMA Recursion ==
    ASSUME NEW T, NEW s0 \in T, NEW step \in Steps(Nat, T)
    PROVE  \E h : Solves(h, T, s0, step)
<1>0. step \in [Nat \X T -> T]
  BY DEF Steps
<1> DEFINE A(n, g) == /\ g \in [0..n -> T]
                      /\ g[0] = s0
                      /\ \A k \in 1..n : g[k] = step[<<k, g[k - 1]>>]
<1>1. \A n \in Nat : \E g : A(n, g)
  <2> DEFINE Bad == {n \in Nat : ~ \E g : A(n, g)}
  <2> SUFFICES ASSUME Bad # {} PROVE FALSE
    OBVIOUS
  <2>1. PICK n \in Bad : \A m \in Bad : n <= m
    BY Least
  <2>2. n \in Nat /\ ~ \E g : A(n, g)
    OBVIOUS
  <2>3. n # 0
    <3> DEFINE g == [k \in 0..0 |-> s0]
    <3>1. A(0, g)
      OBVIOUS
    <3> QED BY <2>2, <3>1
  <2>4. n - 1 \in Nat /\ n - 1 \notin Bad
    BY <2>1, <2>2, <2>3
  <2>5. PICK g : A(n - 1, g)
    BY <2>4
  <2> DEFINE f == [k \in 0..n |-> IF k = n THEN step[<<n, g[n - 1]>>] ELSE g[k]]
  <2>6. g[n - 1] \in T /\ \A k \in 0..(n - 1) : g[k] \in T
    BY <2>2, <2>4, <2>5
  <2>7. f \in [0..n -> T]
    BY <1>0, <2>2, <2>4, <2>6
  <2>8. f[0] = s0
    BY <2>2, <2>3, <2>5
  <2>9. ASSUME NEW k \in 1..n PROVE f[k] = step[<<k, f[k - 1]>>]
    <3>1. k - 1 \in 0..n /\ k - 1 # n /\ k \in 0..n /\ f[k - 1] = g[k - 1]
      BY <2>2
    <3>2. CASE k = n
      BY <3>1, <3>2
    <3>3. CASE k # n
      <4>1. k \in 1..(n - 1)
        BY <2>2, <3>3
      <4> QED BY <2>5, <3>1, <3>3, <4>1
    <3> QED BY <3>2, <3>3
  <2> QED BY <2>2, <2>7, <2>8, <2>9
<1>2. ASSUME NEW m \in Nat, NEW n \in Nat, NEW g, NEW h, A(m, g), A(n, h)
      PROVE  \A k \in Nat : k <= m /\ k <= n => g[k] = h[k]
  <2> DEFINE Bad == {k \in Nat : k <= m /\ k <= n /\ g[k] # h[k]}
  <2> SUFFICES ASSUME Bad # {} PROVE FALSE
    OBVIOUS
  <2>1. PICK k \in Bad : \A j \in Bad : k <= j
    BY Least
  <2>2. k \in Nat /\ k <= m /\ k <= n /\ g[k] # h[k]
    OBVIOUS
  <2>3. k # 0
    BY <1>2, <2>2
  <2>4. g[k - 1] = h[k - 1]
    BY <2>1, <2>2, <2>3
  <2>5. k \in 1..m /\ k \in 1..n
    BY <2>2, <2>3
  <2> QED BY <1>2, <2>2, <2>4, <2>5
<1> DEFINE G(n) == CHOOSE g : A(n, g)
           h == [n \in Nat |-> G(n)[n]]
<1>3. \A n \in Nat : A(n, G(n))
  BY <1>1
<1> HIDE DEF G
<1>4. \A n \in Nat : G(n)[n] \in T
  BY <1>3
<1>5. h \in [Nat -> T]
  BY <1>4
<1>6. ASSUME NEW k \in Nat PROVE h[k] = IF k = 0 THEN s0 ELSE step[<<k, h[k - 1]>>]
  <2>1. CASE k = 0
    BY <1>3, <2>1
  <2>2. CASE k # 0
    <3>1. k - 1 \in Nat /\ k \in 1..k
      BY <2>2
    <3>2. A(k, G(k)) /\ A(k - 1, G(k - 1))
      BY <1>3, <3>1
    <3>3. G(k)[k - 1] = G(k - 1)[k - 1]
      <4>1. k - 1 <= k /\ k - 1 <= k - 1
        BY <3>1
      <4> HIDE DEF A, h
      <4>2. \A j \in Nat : j <= k /\ j <= k - 1 => G(k)[j] = G(k - 1)[j]
        BY <1>2, <3>1, <3>2
      <4> QED BY <3>1, <4>1, <4>2
    <3>4. G(k)[k] = step[<<k, G(k)[k - 1]>>]
      BY <3>1, <3>2
    <3>5. h[k] = G(k)[k] /\ h[k - 1] = G(k - 1)[k - 1]
      BY <3>1
    <3> HIDE DEF h
    <3> QED BY <2>2, <3>3, <3>4, <3>5
  <2> QED BY <2>1, <2>2
<1>7. h = [k \in Nat |-> IF k = 0 THEN s0 ELSE step[<<k, h[k - 1]>>]]
  <2> HIDE DEF h
  <2>1. h = [k \in Nat |-> h[k]]
    BY <1>5
  <2> QED BY <1>6, <2>1
<1> HIDE DEF h
<1> QED BY <1>5, <1>7 DEF Solves

\* The same over an interval.
LEMMA RecursionTo ==
    ASSUME NEW T, NEW s0 \in T, NEW L \in Nat, NEW step \in Steps(1..L, T)
    PROVE  \E g : SolvesTo(L, g, T, s0, step)
<1> DEFINE all == [ks \in Nat \X T |-> IF ks[1] \in 1..L THEN step[<<ks[1], ks[2]>>] ELSE ks[2]]
<1>1. all \in Steps(Nat, T)
  BY DEF Steps
<1>2. \A k \in 1..L, s \in T : all[<<k, s>>] = step[<<k, s>>]
  OBVIOUS
<1> HIDE DEF all
<1>3. PICK h : Solves(h, T, s0, all)
  BY <1>1, Recursion
<1>a. h \in [Nat -> T] /\ h = [k \in Nat |-> IF k = 0 THEN s0 ELSE all[<<k, h[k - 1]>>]]
  BY <1>3 DEF Solves
<1> DEFINE g == [k \in 0..L |-> h[k]]
<1>4. g \in [0..L -> T] /\ g[0] = s0
  BY <1>a
<1>5. ASSUME NEW k \in 1..L PROVE g[k] = step[<<k, g[k - 1]>>]
  <2>1. k \in Nat /\ k # 0 /\ k - 1 \in 0..L /\ k \in 0..L /\ k - 1 \in Nat
    OBVIOUS
  <2>2. h[k] = all[<<k, h[k - 1]>>] /\ h[k - 1] \in T
    BY <1>a, <2>1
  <2> QED BY <1>2, <2>1, <2>2
<1> HIDE DEF g
<1> QED BY <1>4, <1>5 DEF SolvesTo

\* What Through computes is the last of a sequence of states.
Moves(T, E) == [T \X E -> T]
Passes(at, T, step, start, seq) ==
    /\ at \in [0..Len(seq) -> T]
    /\ at[0] = start
    /\ \A k \in 1..Len(seq) : at[k] = step[<<at[k - 1], seq[k]>>]
    /\ Through(step, start, seq) = at[Len(seq)]

LEMMA ThroughStates ==
    ASSUME NEW T, NEW E, NEW step \in Moves(T, E), NEW start \in T, NEW seq \in Seq(E)
    PROVE  \E at : Passes(at, T, step, start, seq)
<1>m. step \in [T \X E -> T]
  BY DEF Moves
<1> DEFINE L == Len(seq)
           by == [ks \in (1..L) \X T |-> step[<<ks[2], seq[ks[1]]>>]]
<1>0. L \in Nat /\ \A k \in 1..L : seq[k] \in E
  OBVIOUS
<1>1. by \in Steps(1..L, T) /\ \A k \in 1..L, s \in T : by[<<k, s>>] = step[<<s, seq[k]>>]
  BY <1>m, <1>0 DEF Steps
<1> HIDE DEF by, L
<1>a. PICK g : SolvesTo(L, g, T, start, by)
  BY <1>0, <1>1, RecursionTo
<1>2. g \in [0..L -> T] /\ g[0] = start /\ \A k \in 1..L : g[k] = by[<<k, g[k - 1]>>]
  BY <1>a DEF SolvesTo
<1>3. g = [k \in 0..L |-> IF k = 0 THEN start ELSE step[<<g[k - 1], seq[k]>>]]
  <2>1. ASSUME NEW k \in 0..L
        PROVE  g[k] = IF k = 0 THEN start ELSE step[<<g[k - 1], seq[k]>>]
    <3>1. CASE k = 0
      BY <1>2, <3>1
    <3>2. CASE k # 0
      <4>1. k \in 1..L /\ k - 1 \in 0..L
        BY <1>0, <3>2
      <4> QED BY <1>1, <1>2, <3>2, <4>1
    <3> QED BY <3>1, <3>2
  <2> QED BY <1>2, <2>1
<1> DEFINE at == CHOOSE f : f = [k \in 0..L |-> IF k = 0 THEN start ELSE step[<<f[k - 1], seq[k]>>]]
<1>4. at = [k \in 0..L |-> IF k = 0 THEN start ELSE step[<<at[k - 1], seq[k]>>]]
  BY <1>3
<1>5. Through(step, start, seq) = at[L]
  BY DEF Through, L
<1> HIDE DEF at
<1>6. at[0] = start /\ \A k \in 1..L : at[k] = step[<<at[k - 1], seq[k]>>]
  BY <1>0, <1>4
<1>7. \A k \in 0..L : at[k] \in T
  <2> DEFINE Bad == {k \in 0..L : at[k] \notin T}
  <2> SUFFICES ASSUME Bad # {} PROVE FALSE
    OBVIOUS
  <2>1. PICK k \in Bad : \A j \in Bad : k <= j
    <3>1. Bad \subseteq Nat
      BY <1>0
    <3> HIDE DEF Bad
    <3> QED BY <3>1, Least
  <2>2. k \in 0..L /\ at[k] \notin T
    OBVIOUS
  <2>3. k # 0
    BY <1>6, <2>2
  <2>4. k \in 1..L /\ k - 1 \in 0..L /\ k - 1 \notin Bad
    BY <1>0, <2>1, <2>2, <2>3
  <2>5. at[k - 1] \in T
    BY <2>4
  <2> QED BY <1>m, <1>0, <1>6, <2>2, <2>4, <2>5
<1>8. at \in [0..L -> T]
  BY <1>4, <1>7
<1> QED BY <1>5, <1>6, <1>8 DEF L, Passes

\* t lists the members of S among the first n of seq, in order: pos is where they were.
Lists(t, seq, S, n, pos) ==
    /\ pos \in [1..Len(t) -> 1..n]
    /\ \A j \in 1..Len(t) : t[j] = seq[pos[j]] /\ seq[pos[j]] \in S
    /\ \A i, j \in 1..Len(t) : i < j => pos[i] < pos[j]
    /\ \A k \in 1..n : seq[k] \in S => \E j \in 1..Len(t) : pos[j] = k

LEMMA ListsMore ==
    ASSUME NEW E, NEW seq \in Seq(E), NEW S, NEW n \in 1..Len(seq), NEW t \in Seq(E),
           NEW pos, Lists(t, seq, S, n - 1, pos)
    PROVE  IF seq[n] \in S THEN \E p : Lists(Append(t, seq[n]), seq, S, n, p)
           ELSE Lists(t, seq, S, n, pos)
<1>0. /\ pos \in [1..Len(t) -> 1..(n - 1)] /\ Len(t) \in Nat /\ n \in Nat /\ n # 0
      /\ \A j \in 1..Len(t) : t[j] = seq[pos[j]] /\ seq[pos[j]] \in S
      /\ \A i, j \in 1..Len(t) : i < j => pos[i] < pos[j]
      /\ \A k \in 1..(n - 1) : seq[k] \in S => \E j \in 1..Len(t) : pos[j] = k
  BY DEF Lists
<1>1. CASE seq[n] \notin S
  <2>1. pos \in [1..Len(t) -> 1..n]
    BY <1>0
  <2>2. \A k \in 1..n : seq[k] \in S => \E j \in 1..Len(t) : pos[j] = k
    BY <1>0, <1>1
  <2> QED BY <1>0, <1>1, <2>1, <2>2 DEF Lists
<1>2. CASE seq[n] \in S
  <2> DEFINE len == Len(t)
             u == Append(t, seq[n])
             p == [j \in 1..(len + 1) |-> IF j = len + 1 THEN n ELSE pos[j]]
  <2>1. Len(u) = len + 1 /\ u[len + 1] = seq[n] /\ \A j \in 1..len : u[j] = t[j]
    <3>1. seq[n] \in E
      OBVIOUS
    <3> QED BY <3>1
  <2>2. p[len + 1] = n /\ \A j \in 1..len : p[j] = pos[j] /\ pos[j] \in 1..(n - 1)
    BY <1>0
  <2>3. p \in [1..(len + 1) -> 1..n]
    BY <1>0
  <2>4. \A j \in 1..(len + 1) : j = len + 1 \/ j \in 1..len
    BY <1>0
  <2> HIDE DEF u, p
  <2>5. \A j \in 1..(len + 1) : u[j] = seq[p[j]] /\ seq[p[j]] \in S
    BY <1>0, <1>2, <2>1, <2>2, <2>4
  <2>6. ASSUME NEW i \in 1..(len + 1), NEW j \in 1..(len + 1), i < j PROVE p[i] < p[j]
    <3>1. i \in 1..len
      BY <1>0, <2>6
    <3>2. CASE j = len + 1
      <4>1. pos[i] \in 1..(n - 1)
        BY <2>2, <3>1
      <4> QED BY <1>0, <2>2, <3>1, <3>2, <4>1
    <3>3. CASE j \in 1..len
      BY <1>0, <2>2, <2>6, <3>1, <3>3
    <3> QED BY <2>4, <3>2, <3>3
  <2>7. ASSUME NEW k \in 1..n, seq[k] \in S PROVE \E j \in 1..(len + 1) : p[j] = k
    <3>1. CASE k = n
      BY <1>0, <2>2, <3>1
    <3>2. CASE k # n
      <4>1. k \in 1..(n - 1)
        BY <1>0, <3>2
      <4>2. PICK j \in 1..len : pos[j] = k
        BY <1>0, <2>7, <4>1
      <4>3. j \in 1..(len + 1)
        BY <1>0
      <4> QED BY <2>2, <4>2, <4>3
    <3> QED BY <3>1, <3>2
  <2>8. Lists(u, seq, S, n, p)
    BY <2>1, <2>3, <2>5, <2>6, <2>7 DEF Lists
  <2> QED BY <1>2, <2>8 DEF u
<1> QED BY <1>1, <1>2

\* What Select computes.
LEMMA SelectLists ==
    ASSUME NEW E, NEW seq \in Seq(E), NEW S
    PROVE  /\ Select(seq, S) \in Seq(E)
           /\ \E pos : Lists(Select(seq, S), seq, S, Len(seq), pos)
<1> DEFINE L == Len(seq)
           T == Seq(E)
           by == [ks \in (1..L) \X T |->
                    IF seq[ks[1]] \in S THEN Append(ks[2], seq[ks[1]]) ELSE ks[2]]
<1>0. L \in Nat /\ (\A k \in 1..L : seq[k] \in E) /\ << >> \in T
  OBVIOUS
<1>1. \A k \in 1..L, t \in T : Append(t, seq[k]) \in T
  BY <1>0
<1>2. /\ by \in Steps(1..L, T)
      /\ \A k \in 1..L, t \in T :
            by[<<k, t>>] = IF seq[k] \in S THEN Append(t, seq[k]) ELSE t
  <2> HIDE DEF T
  <2> QED BY <1>1 DEF Steps
<1> HIDE DEF by, L, T
<1>a. PICK g : SolvesTo(L, g, T, << >>, by)
  BY <1>0, <1>2, RecursionTo
<1>3. g \in [0..L -> T] /\ g[0] = << >> /\ \A k \in 1..L : g[k] = by[<<k, g[k - 1]>>]
  BY <1>a DEF SolvesTo
<1>4. g = [k \in 0..L |-> IF k = 0 THEN << >>
                          ELSE IF seq[k] \in S THEN Append(g[k - 1], seq[k])
                          ELSE g[k - 1]]
  <2>1. ASSUME NEW k \in 0..L
        PROVE  g[k] = IF k = 0 THEN << >>
                      ELSE IF seq[k] \in S THEN Append(g[k - 1], seq[k])
                      ELSE g[k - 1]
    <3>1. CASE k = 0
      BY <1>3, <3>1
    <3>2. CASE k # 0
      <4>1. k \in 1..L /\ k - 1 \in 0..L
        BY <1>0, <3>2
      <4> QED BY <1>2, <1>3, <3>2, <4>1
    <3> QED BY <3>1, <3>2
  <2> QED BY <1>3, <2>1
<1> DEFINE at == CHOOSE f : f = [k \in 0..L |-> IF k = 0 THEN << >>
                                  ELSE IF seq[k] \in S THEN Append(f[k - 1], seq[k])
                                  ELSE f[k - 1]]
<1>5. at = [k \in 0..L |-> IF k = 0 THEN << >>
                           ELSE IF seq[k] \in S THEN Append(at[k - 1], seq[k])
                           ELSE at[k - 1]]
  BY <1>4
<1>6. Select(seq, S) = at[L]
  BY DEF Select, L
<1> HIDE DEF at
<1>7. /\ at[0] = << >>
      /\ \A k \in 1..L : at[k] = IF seq[k] \in S THEN Append(at[k - 1], seq[k]) ELSE at[k - 1]
  <2>1. \A k \in 0..L : at[k] = IF k = 0 THEN << >>
                                ELSE IF seq[k] \in S THEN Append(at[k - 1], seq[k])
                                ELSE at[k - 1]
    BY <1>5
  <2>2. 0 \in 0..L /\ \A k \in 1..L : k \in 0..L /\ k # 0
    BY <1>0
  <2> QED BY <2>1, <2>2
<1> DEFINE Good(k) == at[k] \in T /\ \E pos : Lists(at[k], seq, S, k, pos)
<1>8. \A k \in 0..L : Good(k)
  <2> DEFINE Bad == {k \in 0..L : ~Good(k)}
  <2> SUFFICES ASSUME Bad # {} PROVE FALSE
    OBVIOUS
  <2>1. PICK k \in Bad : \A j \in Bad : k <= j
    <3>1. Bad \subseteq Nat
      BY <1>0
    <3> HIDE DEF Bad
    <3> QED BY <3>1, Least
  <2>2. k \in 0..L /\ ~Good(k)
    OBVIOUS
  <2>3. Good(0)
    <3> DEFINE p == [j \in 1..0 |-> 0]
    <3>1. Len(<< >>) = 0
      OBVIOUS
    <3>2. Lists(<< >>, seq, S, 0, p)
      BY <3>1 DEF Lists
    <3> QED BY <1>0, <1>7, <3>2
  <2>4. k # 0
    BY <2>2, <2>3
  <2>5. k \in 1..L /\ k - 1 \in 0..L /\ k - 1 \notin Bad
    BY <1>0, <2>1, <2>2, <2>4
  <2>6. PICK pos : at[k - 1] \in T /\ Lists(at[k - 1], seq, S, k - 1, pos)
    BY <2>5
  <2>7. at[k] \in T /\ \E p : Lists(at[k], seq, S, k, p)
    <3>1. IF seq[k] \in S THEN \E p : Lists(Append(at[k - 1], seq[k]), seq, S, k, p)
          ELSE Lists(at[k - 1], seq, S, k, pos)
      BY <2>5, <2>6, ListsMore DEF T, L
    <3> QED BY <1>1, <1>7, <2>5, <2>6, <3>1
  <2> QED BY <2>2, <2>7
<1>9. Good(L)
  BY <1>0, <1>8
<1> QED BY <1>6, <1>9 DEF L, T
-----------------------------------------------------------------------------
(* The depth-first search. *)

EdgeTo(edges, y, x) == \E k \in DOMAIN edges[y] : edges[y][k] = x
FedFrom(edges, x, S) == \E y \in S : EdgeTo(edges, y, x)

\* Nodes of which each is fed by another of them.
Looping(edges) ==
    \E S \in SUBSET DOMAIN edges : S # {} /\ \A x \in S : FedFrom(edges, x, S)

\* Finished nodes are not on the path, lead to finished nodes, and hold no cycle.
Sound(edges, st) ==
    /\ st.done \cap st.visiting = {}
    /\ \A y \in st.done, x \in DOMAIN edges : EdgeTo(edges, y, x) => x \in st.done
    /\ \A S \in SUBSET st.done : S # {} => \E x \in S : ~FedFrom(edges, x, S)

\* Every node of the path V leads to n along the path.
OnPath(edges, V, n) ==
    \A x \in V : \E S \in SUBSET V :
        x \in S /\ FedFrom(edges, n, S) /\ \A z \in S \ {x} : FedFrom(edges, z, S)

\* What a visit of n makes of search st: a cycle there is, or n finished and the path as it was.
Visited(edges, st, n, r) ==
    /\ r.cycle => Looping(edges)
    /\ ~r.cycle => r.visiting = st.visiting /\ Sound(edges, r) /\ n \in r.done
                   /\ st.done \subseteq r.done

\* f visits nodes correctly from path V.
VisitsFrom(edges, f, V) ==
    \A st \in Search(DOMAIN edges), n \in DOMAIN edges :
        /\ st.cycle => f[<<st, n>>] = st
        /\ (~st.cycle /\ Sound(edges, st) /\ st.visiting = V /\ OnPath(edges, V, n))
             => Visited(edges, st, n, f[<<st, n>>])

\* Adjacency lists of nodes over nodes.
Adjacency(edges) == edges \in [DOMAIN edges -> Seq(DOMAIN edges)]

\* Visiting the nodes of a sequence, one after the other, finishes them all.
LEMMA VisitSequence ==
    ASSUME NEW edges, NEW f \in Moves(Search(DOMAIN edges), DOMAIN edges), NEW V,
           VisitsFrom(edges, f, V), NEW seq \in Seq(DOMAIN edges),
           \A k \in DOMAIN seq : OnPath(edges, V, seq[k]),
           NEW start \in Search(DOMAIN edges), ~start.cycle, start.visiting = V,
           Sound(edges, start)
    PROVE  LET r == Through(f, start, seq) IN
           /\ r \in Search(DOMAIN edges)
           /\ r.cycle => Looping(edges)
           /\ ~r.cycle => r.visiting = V /\ Sound(edges, r) /\ start.done \subseteq r.done
                          /\ \A k \in DOMAIN seq : seq[k] \in r.done
<1> DEFINE ids == DOMAIN edges
           T == Search(ids)
           L == Len(seq)
<1>0. L \in Nat /\ DOMAIN seq = 1..L /\ \A k \in 1..L : seq[k] \in ids
  OBVIOUS
<1>1. PICK at : Passes(at, T, f, start, seq)
  BY ThroughStates
<1>2. /\ at \in [0..L -> T] /\ at[0] = start
      /\ \A k \in 1..L : at[k] = f[<<at[k - 1], seq[k]>>]
      /\ Through(f, start, seq) = at[L]
  BY <1>1 DEF Passes
<1> HIDE DEF T, L, ids
<1> DEFINE Good(k) == /\ at[k].cycle => Looping(edges)
                      /\ ~at[k].cycle => at[k].visiting = V /\ Sound(edges, at[k])
                                         /\ start.done \subseteq at[k].done
                                         /\ \A j \in 1..k : seq[j] \in at[k].done
<1>3. \A k \in 0..L : Good(k)
  <2> DEFINE Bad == {k \in 0..L : ~Good(k)}
  <2> SUFFICES ASSUME Bad # {} PROVE FALSE
    OBVIOUS
  <2>1. PICK k \in Bad : \A j \in Bad : k <= j
    <3>1. Bad \subseteq Nat
      BY <1>0
    <3> HIDE DEF Bad
    <3> QED BY <3>1, Least
  <2>2. k \in 0..L /\ ~Good(k)
    OBVIOUS
  <2>3. Good(0)
    BY <1>2
  <2>4. k # 0
    BY <2>2, <2>3
  <2>5. k \in 1..L /\ k - 1 \in 0..L /\ k - 1 \notin Bad
    BY <1>0, <2>1, <2>2, <2>4
  <2>6. Good(k - 1)
    BY <2>5
  <2>7. at[k - 1] \in T /\ seq[k] \in ids /\ at[k] = f[<<at[k - 1], seq[k]>>]
    BY <1>0, <1>2, <2>5
  <2>8. CASE at[k - 1].cycle
    <3>1. at[k] = at[k - 1]
      BY <2>7, <2>8 DEF VisitsFrom, T, ids
    <3> QED BY <2>2, <2>6, <2>8, <3>1
  <2>9. CASE ~at[k - 1].cycle
    <3>1. OnPath(edges, V, seq[k])
      BY <1>0, <2>5
    <3>2. Visited(edges, at[k - 1], seq[k], at[k])
      BY <2>6, <2>7, <2>9, <3>1 DEF VisitsFrom, T, ids
    <3>3. \A j \in 1..k : j = k \/ j \in 1..(k - 1)
      BY <2>5
    <3>4. Good(k)
      BY <2>6, <2>9, <3>2, <3>3 DEF Visited
    <3> QED BY <2>2, <3>4
  <2> QED BY <2>8, <2>9
<1>4. Good(L) /\ at[L] \in T
  BY <1>0, <1>2, <1>3
<1> QED BY <1>0, <1>2, <1>4 DEF T, L, ids

LEMMA ThroughTyped ==
    ASSUME NEW T, NEW E, NEW step \in Moves(T, E), NEW start \in T, NEW seq \in Seq(E)
    PROVE  Through(step, start, seq) \in T
<1>1. PICK at : Passes(at, T, step, start, seq)
  BY ThroughStates
<1>2. Len(seq) \in 0..Len(seq)
  OBVIOUS
<1> QED BY <1>1, <1>2 DEF Passes

\* What one level of visit does with a search and a node.
AfterNode(edges, f, st, n) == Through(f, [st EXCEPT !.visiting = @ \cup {n}], edges[n])
VisitOf(edges, f, st, n) ==
    IF st.cycle \/ n \in st.done THEN st
    ELSE IF n \in st.visiting THEN [st EXCEPT !.cycle = TRUE]
    ELSE IF AfterNode(edges, f, st, n).cycle THEN AfterNode(edges, f, st, n)
    ELSE [AfterNode(edges, f, st, n) EXCEPT !.visiting = @ \ {n}, !.done = @ \cup {n}]

LEMMA VisitTyped ==
    ASSUME NEW edges, Adjacency(edges), NEW f \in Moves(Search(DOMAIN edges), DOMAIN edges)
    PROVE  /\ Visit(edges, f) \in Moves(Search(DOMAIN edges), DOMAIN edges)
           /\ \A st \in Search(DOMAIN edges), n \in DOMAIN edges :
                /\ Visit(edges, f)[<<st, n>>] = VisitOf(edges, f, st, n)
                /\ AfterNode(edges, f, st, n) \in Search(DOMAIN edges)
<1> DEFINE ids == DOMAIN edges
           T == Search(ids)
<1>1. ASSUME NEW st \in T, NEW n \in ids PROVE AfterNode(edges, f, st, n) \in T
  <2>1. [st EXCEPT !.visiting = @ \cup {n}] \in T
    BY DEF Search
  <2>2. edges[n] \in Seq(ids)
    BY DEF Adjacency
  <2> HIDE DEF T, ids
  <2> QED BY <2>1, <2>2, ThroughTyped DEF AfterNode, T, ids
<1>2. ASSUME NEW st \in T, NEW n \in ids PROVE VisitOf(edges, f, st, n) \in T
  <2>1. AfterNode(edges, f, st, n) \in T
    BY <1>1
  <2>2. \A r \in T : /\ [r EXCEPT !.cycle = TRUE] \in T
                     /\ [r EXCEPT !.visiting = @ \ {n}, !.done = @ \cup {n}] \in T
    BY DEF Search
  <2> HIDE DEF T
  <2> QED BY <2>1, <2>2 DEF VisitOf
<1>3. Visit(edges, f) = [call \in T \X ids |-> VisitOf(edges, f, call[1], call[2])]
  BY DEF Visit, VisitOf, AfterNode
<1> HIDE DEF T, ids
<1>4. \A st \in T, n \in ids : Visit(edges, f)[<<st, n>>] = VisitOf(edges, f, st, n)
  BY <1>3
<1>5. Visit(edges, f) \in [T \X ids -> T]
  BY <1>2, <1>3
<1> QED BY <1>1, <1>4, <1>5 DEF Moves, T, ids

\* The path leads on from n to the nodes n feeds.
LEMMA PathLeadsOn ==
    ASSUME NEW edges, NEW V, NEW n, NEW m, OnPath(edges, V, n), EdgeTo(edges, n, m)
    PROVE  OnPath(edges, V \cup {n}, m)
<1> SUFFICES ASSUME NEW x \in V \cup {n}
             PROVE  \E S \in SUBSET (V \cup {n}) :
                      x \in S /\ FedFrom(edges, m, S) /\ \A z \in S \ {x} : FedFrom(edges, z, S)
  BY DEF OnPath
<1>1. CASE x \in V
  <2>1. PICK S \in SUBSET V :
          x \in S /\ FedFrom(edges, n, S) /\ \A z \in S \ {x} : FedFrom(edges, z, S)
    BY <1>1 DEF OnPath
  <2> DEFINE R == S \cup {n}
  <2>2. \A z : FedFrom(edges, z, S) => FedFrom(edges, z, R)
    BY DEF FedFrom
  <2>3. FedFrom(edges, m, R)
    BY DEF FedFrom
  <2>4. R \in SUBSET (V \cup {n}) /\ x \in R
    BY <2>1
  <2>5. \A z \in R \ {x} : FedFrom(edges, z, R)
    BY <2>1, <2>2
  <2> HIDE DEF R
  <2> QED BY <2>3, <2>4, <2>5
<1>2. CASE x = n
  <2>1. FedFrom(edges, m, {n})
    BY DEF FedFrom
  <2> QED BY <1>2, <2>1
<1> QED BY <1>1, <1>2

\* One level of visit is correct from path V when the next is from V and one node more.
LEMMA VisitCorrect ==
    ASSUME NEW edges, Adjacency(edges), NEW f \in Moves(Search(DOMAIN edges), DOMAIN edges),
           NEW V \in SUBSET DOMAIN edges,
           \A n \in DOMAIN edges \ V : VisitsFrom(edges, f, V \cup {n})
    PROVE  VisitsFrom(edges, Visit(edges, f), V)
<1> DEFINE ids == DOMAIN edges
           T == Search(ids)
<1> SUFFICES ASSUME NEW st \in T, NEW n \in ids
             PROVE  LET r == VisitOf(edges, f, st, n) IN
                    /\ st.cycle => r = st
                    /\ (~st.cycle /\ Sound(edges, st) /\ st.visiting = V /\ OnPath(edges, V, n))
                         => Visited(edges, st, n, r)
  BY VisitTyped DEF VisitsFrom
<1>1. st.cycle => VisitOf(edges, f, st, n) = st
  BY DEF VisitOf
<1>2. ASSUME ~st.cycle, Sound(edges, st), st.visiting = V, OnPath(edges, V, n)
      PROVE  Visited(edges, st, n, VisitOf(edges, f, st, n))
  <2>0. /\ st.cycle \in BOOLEAN /\ st.visiting \in SUBSET ids /\ st.done \in SUBSET ids
        /\ st = [cycle |-> st.cycle, visiting |-> st.visiting, done |-> st.done]
    BY DEF Search
  <2>1. CASE n \in st.done
    BY <1>2, <2>1 DEF VisitOf, Visited
  <2>2. CASE n \notin st.done /\ n \in V
    <3>1. VisitOf(edges, f, st, n).cycle
      BY <1>2, <2>0, <2>2 DEF VisitOf
    <3>2. PICK S \in SUBSET V :
            n \in S /\ FedFrom(edges, n, S) /\ \A z \in S \ {n} : FedFrom(edges, z, S)
      BY <1>2, <2>2 DEF OnPath
    <3>3. Looping(edges)
      BY <3>2 DEF Looping
    <3> QED BY <3>1, <3>3 DEF Visited
  <2>3. CASE n \notin st.done /\ n \notin V
    <3> DEFINE W == V \cup {n}
               start == [st EXCEPT !.visiting = @ \cup {n}]
               after == AfterNode(edges, f, st, n)
    <3>1. start \in T /\ ~start.cycle /\ start.visiting = W /\ start.done = st.done
      BY <1>2, <2>0 DEF Search
    <3>2. Sound(edges, start)
      BY <1>2, <2>3, <3>1 DEF Sound
    <3>3. edges[n] \in Seq(ids)
      BY DEF Adjacency
    <3>4. \A k \in DOMAIN edges[n] : OnPath(edges, W, edges[n][k])
      BY <1>2, PathLeadsOn DEF EdgeTo
    <3>5. VisitsFrom(edges, f, W)
      BY <2>3
    <3>6. after = Through(f, start, edges[n])
      BY DEF AfterNode
    <3> HIDE DEF start, W, after, T
    <3>7. /\ after \in T
          /\ after.cycle => Looping(edges)
          /\ ~after.cycle => after.visiting = W /\ Sound(edges, after)
                             /\ start.done \subseteq after.done
                             /\ \A k \in DOMAIN edges[n] : edges[n][k] \in after.done
      BY <3>1, <3>2, <3>3, <3>4, <3>5, <3>6, VisitSequence DEF T
    <3>8. CASE after.cycle
      <4>1. VisitOf(edges, f, st, n) = after
        BY <1>2, <2>3, <3>8 DEF VisitOf, after
      <4> QED BY <3>7, <3>8, <4>1 DEF Visited
    <3>9. CASE ~after.cycle
      <4> DEFINE r == [after EXCEPT !.visiting = @ \ {n}, !.done = @ \cup {n}]
      <4>1. VisitOf(edges, f, st, n) = r
        BY <1>2, <2>3, <3>9 DEF VisitOf, after
      <4>2. ~r.cycle /\ r.visiting = after.visiting \ {n} /\ r.done = after.done \cup {n}
        BY <3>7, <3>9 DEF T, Search
      <4> HIDE DEF r
      <4>3. after.visiting = W /\ Sound(edges, after) /\ st.done \subseteq after.done
        BY <3>1, <3>7, <3>9
      <4>4. \A x \in ids : EdgeTo(edges, n, x) => x \in after.done
        BY <3>7, <3>9 DEF EdgeTo
      <4>5. n \notin after.done
        BY <4>3 DEF Sound, W
      <4>6. ~FedFrom(edges, n, r.done)
        BY <4>2, <4>3, <4>4, <4>5 DEF FedFrom, Sound
      <4>7. r.visiting = V
        BY <2>3, <4>2, <4>3 DEF W
      <4>8. r.done \cap r.visiting = {}
        BY <2>3, <4>2, <4>3, <4>7 DEF Sound, W
      <4>9. \A y \in r.done, x \in ids : EdgeTo(edges, y, x) => x \in r.done
        BY <4>2, <4>3, <4>4 DEF Sound
      <4>10. ASSUME NEW S \in SUBSET r.done, S # {} PROVE \E x \in S : ~FedFrom(edges, x, S)
        <5>1. CASE n \in S
          BY <4>6, <5>1 DEF FedFrom
        <5>2. CASE n \notin S
          <6>1. S \in SUBSET after.done
            BY <4>2, <5>2
          <6> QED BY <4>3, <4>10, <6>1 DEF Sound
        <5> QED BY <5>1, <5>2
      <4>11. Sound(edges, r)
        BY <4>8, <4>9, <4>10 DEF Sound
      <4> QED BY <1>2, <4>1, <4>2, <4>3, <4>7, <4>11 DEF Visited
    <3> QED BY <3>8, <3>9
  <2> QED BY <2>1, <2>2, <2>3
<1> QED BY <1>1, <1>2

\* The levels of VisitAll.
LEMMA VisitLevels ==
    ASSUME NEW edges, Adjacency(edges), IsFiniteSet(DOMAIN edges)
    PROVE  \E v : /\ \A d \in Nat : v[d] \in Moves(Search(DOMAIN edges), DOMAIN edges)
                  /\ \A st \in Search(DOMAIN edges), n \in DOMAIN edges : v[0][<<st, n>>] = st
                  /\ \A d \in Nat \ {0} : v[d] = Visit(edges, v[d - 1])
                  /\ VisitAll(edges) = v[Cardinality(DOMAIN edges) + 1]
<1> DEFINE ids == DOMAIN edges
           M == Moves(Search(ids), ids)
           base == [call \in Search(ids) \X ids |-> call[1]]
           step == [kf \in Nat \X M |-> Visit(edges, kf[2])]
<1>0. base \in M /\ \A st \in Search(ids), n \in ids : base[<<st, n>>] = st
  BY DEF Moves
<1>1. \A f \in M : Visit(edges, f) \in M
  BY VisitTyped
<1> HIDE DEF M, ids
<1>2. step \in Steps(Nat, M) /\ \A k \in Nat, f \in M : step[<<k, f>>] = Visit(edges, f)
  BY <1>1 DEF Steps
<1> HIDE DEF base, step
<1>3. PICK h : Solves(h, M, base, step)
  BY <1>0, <1>2, Recursion
<1>4. h \in [Nat -> M] /\ h = [k \in Nat |-> IF k = 0 THEN base ELSE step[<<k, h[k - 1]>>]]
  BY <1>3 DEF Solves
<1>5. h = [k \in Nat |-> IF k = 0 THEN base ELSE Visit(edges, h[k - 1])]
  <2>1. ASSUME NEW k \in Nat PROVE h[k] = IF k = 0 THEN base ELSE Visit(edges, h[k - 1])
    <3>1. CASE k = 0
      BY <1>4, <3>1
    <3>2. CASE k # 0
      <4>1. k - 1 \in Nat /\ h[k - 1] \in M
        BY <1>4, <3>2
      <4>2. h[k] = step[<<k, h[k - 1]>>]
        BY <1>4, <3>2
      <4> QED BY <1>2, <3>2, <4>1, <4>2
    <3> QED BY <3>1, <3>2
  <2> QED BY <1>4, <2>1
<1> DEFINE v == CHOOSE f : f = [k \in Nat |-> IF k = 0 THEN base ELSE Visit(edges, f[k - 1])]
<1>6. v = [k \in Nat |-> IF k = 0 THEN base ELSE Visit(edges, v[k - 1])]
  BY <1>5
<1>7. VisitAll(edges) = v[Cardinality(ids) + 1]
  BY DEF VisitAll, base, ids
<1> HIDE DEF v
<1>8. v[0] = base /\ \A d \in Nat \ {0} : v[d] = Visit(edges, v[d - 1])
  BY <1>6
<1>9. \A d \in Nat : v[d] \in M
  <2> DEFINE Bad == {d \in Nat : v[d] \notin M}
  <2> SUFFICES ASSUME Bad # {} PROVE FALSE
    OBVIOUS
  <2>1. PICK d \in Bad : \A j \in Bad : d <= j
    BY Least
  <2>2. d \in Nat /\ v[d] \notin M /\ d # 0
    BY <1>0, <1>8
  <2>3. d - 1 \in Nat /\ d - 1 \notin Bad
    BY <2>1, <2>2
  <2> QED BY <1>1, <1>8, <2>2, <2>3
<1> QED BY <1>0, <1>7, <1>8, <1>9 DEF M, ids

\* Every level is correct from the paths it has levels left for.
LEMMA LevelsCorrect ==
    ASSUME NEW edges, Adjacency(edges), IsFiniteSet(DOMAIN edges), NEW v,
           \A d \in Nat : v[d] \in Moves(Search(DOMAIN edges), DOMAIN edges),
           \A d \in Nat \ {0} : v[d] = Visit(edges, v[d - 1])
    PROVE  \A d \in Nat : \A V \in SUBSET DOMAIN edges :
             Cardinality(DOMAIN edges \ V) < d => VisitsFrom(edges, v[d], V)
<1> DEFINE ids == DOMAIN edges
           Good(d) == \A V \in SUBSET ids : Cardinality(ids \ V) < d => VisitsFrom(edges, v[d], V)
           Bad == {d \in Nat : ~Good(d)}
<1> SUFFICES ASSUME Bad # {} PROVE FALSE
  OBVIOUS
<1>1. PICK d \in Bad : \A j \in Bad : d <= j
  BY Least
<1>2. PICK V \in SUBSET ids : Cardinality(ids \ V) < d /\ ~VisitsFrom(edges, v[d], V)
  OBVIOUS
<1>3. IsFiniteSet(ids \ V) /\ Cardinality(ids \ V) \in Nat /\ d \in Nat
  BY FS_Difference, FS_CardinalityType
<1>4. d \in Nat \ {0} /\ d - 1 \in Nat /\ Good(d - 1)
  <2>1. d \in Nat \ {0} /\ d - 1 \in Nat /\ ~(d <= d - 1)
    BY <1>2, <1>3
  <2>2. d - 1 \notin Bad
    <3> HIDE DEF Bad
    <3> QED BY <1>1, <2>1
  <2> QED BY <2>1, <2>2
<1>5. ASSUME NEW n \in ids \ V PROVE VisitsFrom(edges, v[d - 1], V \cup {n})
  <2>1. ids \ (V \cup {n}) = (ids \ V) \ {n}
    OBVIOUS
  <2> DEFINE rest == ids \ V
  <2>2. Cardinality(ids \ (V \cup {n})) = Cardinality(rest) - 1
    <3>1. n \in rest /\ IsFiniteSet(rest) /\ ids \ (V \cup {n}) = rest \ {n}
      BY <1>3, <2>1
    <3> HIDE DEF rest
    <3>2. Cardinality(rest \ {n}) = Cardinality(rest) - 1
      BY <3>1, FS_RemoveElement
    <3> QED BY <3>1, <3>2
  <2>3. Cardinality(ids \ (V \cup {n})) < d - 1 /\ V \cup {n} \in SUBSET ids
    BY <1>2, <1>3, <2>2
  <2> QED BY <1>4, <2>3
<1>6. v[d - 1] \in Moves(Search(ids), ids)
  BY <1>4
<1>7. VisitsFrom(edges, Visit(edges, v[d - 1]), V)
  BY <1>5, <1>6, VisitCorrect
<1> QED BY <1>2, <1>4, <1>7

\* visit, started on a path of no nodes, is correct.
LEMMA VisitAllCorrect ==
    ASSUME NEW edges, Adjacency(edges), IsFiniteSet(DOMAIN edges)
    PROVE  /\ VisitAll(edges) \in Moves(Search(DOMAIN edges), DOMAIN edges)
           /\ VisitsFrom(edges, VisitAll(edges), {})
<1> DEFINE ids == DOMAIN edges
           c == Cardinality(ids)
<1>1. PICK v : /\ \A d \in Nat : v[d] \in Moves(Search(ids), ids)
               /\ \A d \in Nat \ {0} : v[d] = Visit(edges, v[d - 1])
               /\ VisitAll(edges) = v[c + 1]
  BY VisitLevels
<1>2. c \in Nat /\ c + 1 \in Nat /\ c < c + 1
  BY FS_CardinalityType
<1>3. ids \ {} = ids /\ {} \in SUBSET ids
  OBVIOUS
<1>4. \A d \in Nat : \A V \in SUBSET ids : Cardinality(ids \ V) < d => VisitsFrom(edges, v[d], V)
  BY <1>1, LevelsCorrect
<1>5. VisitsFrom(edges, v[c + 1], {})
  BY <1>2, <1>3, <1>4
<1> QED BY <1>1, <1>2, <1>5

\* The search over all nodes, in any order, finds a cycle exactly if there is one.
LEMMA SearchCorrect ==
    ASSUME NEW edges, Adjacency(edges), IsFiniteSet(DOMAIN edges),
           NEW seq \in Seq(DOMAIN edges), \A x \in DOMAIN edges : \E k \in DOMAIN seq : seq[k] = x
    PROVE  LET start == [cycle |-> FALSE, visiting |-> {}, done |-> {}]
           IN  Through(VisitAll(edges), start, seq).cycle <=> Looping(edges)
<1> DEFINE start == [cycle |-> FALSE, visiting |-> {}, done |-> {}]
           r == Through(VisitAll(edges), start, seq)
<1>1. start \in Search(DOMAIN edges) /\ ~start.cycle /\ start.visiting = {} /\ start.done = {}
  BY DEF Search
<1>2. Sound(edges, start)
  BY <1>1 DEF Sound
<1>3. \A k \in DOMAIN seq : OnPath(edges, {}, seq[k])
  BY DEF OnPath
<1> HIDE DEF start
<1>4. /\ r \in Search(DOMAIN edges)
      /\ r.cycle => Looping(edges)
      /\ ~r.cycle => Sound(edges, r) /\ \A k \in DOMAIN seq : seq[k] \in r.done
  BY <1>1, <1>2, <1>3, VisitAllCorrect, VisitSequence
<1> HIDE DEF r
<1>5. ASSUME ~r.cycle, Looping(edges) PROVE FALSE
  <2>1. PICK S \in SUBSET DOMAIN edges : S # {} /\ \A x \in S : FedFrom(edges, x, S)
    BY <1>5 DEF Looping
  <2>2. S \in SUBSET r.done
    BY <1>4, <1>5
  <2> QED BY <1>4, <1>5, <2>1, <2>2 DEF Sound
<1>6. r.cycle <=> Looping(edges)
  <2>1. r.cycle \in BOOLEAN
    BY <1>4 DEF Search
  <2> QED BY <1>4, <1>5, <2>1
<1> QED BY <1>6 DEF r, start

-----------------------------------------------------------------------------
(* Assemblies. *)

\* What a message holds.
LEMMA AssemblyParts ==
    ASSUME NEW a \in AssemblyRecord
    PROVE  /\ a.nodes \in Seq(NodeRecord) /\ a.bindings \in Seq(BindingRecord)
           /\ Len(a.nodes) \in Nat /\ DOMAIN a.nodes = 1..Len(a.nodes)
           /\ Len(a.bindings) \in Nat /\ DOMAIN a.bindings = 1..Len(a.bindings)
           /\ \A k \in DOMAIN a.nodes : a.nodes[k] \in NodeRecord
           /\ \A k \in DOMAIN a.bindings : a.bindings[k] \in BindingRecord
<1>1. a.nodes \in Seq(NodeRecord) /\ a.bindings \in Seq(BindingRecord)
  BY DEF AssemblyRecord
<1> QED BY <1>1

LEMMA IdsFinite ==
    ASSUME NEW a \in AssemblyRecord
    PROVE  /\ IsFiniteSet(Ids(a)) /\ IsFiniteSet(DOMAIN a.nodes)
           /\ Cardinality(Ids(a)) \in Nat /\ Cardinality(Ids(a)) <= Len(a.nodes)
<1>1. Len(a.nodes) \in Nat /\ DOMAIN a.nodes = 1..Len(a.nodes)
  BY AssemblyParts
<1>2. IsFiniteSet(DOMAIN a.nodes) /\ Cardinality(DOMAIN a.nodes) = Len(a.nodes)
  BY <1>1, FS_Interval
<1> DEFINE f == [k \in DOMAIN a.nodes |-> a.nodes[k].id]
<1>3. f \in Surjection(DOMAIN a.nodes, Ids(a))
  BY DEF Surjection, Ids
<1> HIDE DEF f
<1>4. IsFiniteSet(Ids(a)) /\ Cardinality(Ids(a)) <= Cardinality(DOMAIN a.nodes)
  BY <1>2, <1>3, FS_Surjection
<1> QED BY <1>2, <1>4, FS_CardinalityType

\* The members a selected sequence has.
LEMMA SelectMembers ==
    ASSUME NEW E, NEW seq \in Seq(E), NEW S
    PROVE  LET t == Select(seq, S) IN
           /\ t \in Seq(E)
           /\ \A k \in DOMAIN t : t[k] \in S /\ \E j \in DOMAIN seq : seq[j] = t[k]
           /\ \A j \in DOMAIN seq : seq[j] \in S => \E k \in DOMAIN t : t[k] = seq[j]
<1> DEFINE t == Select(seq, S)
<1>1. t \in Seq(E)
  BY SelectLists
<1>2. PICK pos : Lists(t, seq, S, Len(seq), pos)
  BY SelectLists
<1> HIDE DEF t
<1>3. DOMAIN t = 1..Len(t) /\ DOMAIN seq = 1..Len(seq)
  BY <1>1
<1>4. /\ \A k \in DOMAIN t : t[k] \in S /\ \E j \in DOMAIN seq : seq[j] = t[k]
      /\ \A j \in DOMAIN seq : seq[j] \in S => \E k \in DOMAIN t : t[k] = seq[j]
  BY <1>2, <1>3 DEF Lists
<1> QED BY <1>1, <1>4 DEF t

\* The adjacency lists are those of the bindings.
LEMMA EdgesAreBindings ==
    ASSUME NEW a \in AssemblyRecord, \A k \in DOMAIN a.bindings : a.bindings[k].to \in Ids(a)
    PROVE  /\ DOMAIN Edges(a) = Ids(a) /\ Adjacency(Edges(a))
           /\ \A y \in Ids(a) : \A x : EdgeTo(Edges(a), y, x) <=>
                \E k \in DOMAIN a.bindings : a.bindings[k].from = y /\ a.bindings[k].to = x
<1> DEFINE ids == Ids(a)
           S(y) == {b \in ToSet(a.bindings) : b.from = y}
           down(y) == Select(a.bindings, S(y))
<1>1. a.bindings \in Seq(BindingRecord)
  BY AssemblyParts
<1>2. \A y \in ids : Edges(a)[y] = [k \in DOMAIN down(y) |-> down(y)[k].to]
  BY DEF Edges
<1>3. DOMAIN Edges(a) = ids
  BY DEF Edges
<1>4. ASSUME NEW y \in ids
      PROVE  /\ Edges(a)[y] \in Seq(ids)
             /\ \A x : EdgeTo(Edges(a), y, x) <=>
                  \E k \in DOMAIN a.bindings : a.bindings[k].from = y /\ a.bindings[k].to = x
  <2> DEFINE t == down(y)
  <2>1. /\ t \in Seq(BindingRecord)
        /\ \A k \in DOMAIN t : t[k] \in S(y) /\ \E j \in DOMAIN a.bindings : a.bindings[j] = t[k]
        /\ \A j \in DOMAIN a.bindings : a.bindings[j] \in S(y) => \E k \in DOMAIN t : t[k] = a.bindings[j]
    <3> HIDE DEF S
    <3> QED BY <1>1, SelectMembers
  <2>2. Edges(a)[y] = [k \in DOMAIN t |-> t[k].to]
    BY <1>2
  <2>3. \A j \in DOMAIN a.bindings : a.bindings[j] \in S(y) <=> a.bindings[j].from = y
    BY DEF ToSet
  <2> HIDE DEF t, S
  <2>4. \A k \in DOMAIN t : t[k].to \in ids /\ \E j \in DOMAIN a.bindings : a.bindings[j] = t[k] /\ a.bindings[j].from = y
    BY <2>1, <2>3
  <2>5. DOMAIN t = 1..Len(t) /\ Len(t) \in Nat
    BY <2>1
  <2>6. Edges(a)[y] \in Seq(ids)
    BY <2>2, <2>4, <2>5
  <2>7. DOMAIN Edges(a)[y] = DOMAIN t /\ \A k \in DOMAIN t : Edges(a)[y][k] = t[k].to
    BY <2>2
  <2>8. ASSUME NEW x
        PROVE  EdgeTo(Edges(a), y, x) <=>
                 \E k \in DOMAIN a.bindings : a.bindings[k].from = y /\ a.bindings[k].to = x
    <3>1. EdgeTo(Edges(a), y, x) <=> \E k \in DOMAIN t : t[k].to = x
      BY <2>7 DEF EdgeTo
    <3> QED BY <2>1, <2>3, <2>4, <3>1
  <2> QED BY <2>6, <2>8
<1>5. Adjacency(Edges(a))
  <2>1. \A y \in ids : Edges(a)[y] \in Seq(ids)
    BY <1>4
  <2>2. Edges(a) = [y \in ids |-> Edges(a)[y]]
    BY <1>3 DEF Edges
  <2> QED BY <1>3, <2>1, <2>2 DEF Adjacency
<1> QED BY <1>3, <1>4, <1>5

\* The depth-first search of validate_assembly tells exactly the cyclic assemblies.
LEMMA SearchFindsCycles ==
    ASSUME NEW a \in AssemblyRecord, \A k \in DOMAIN a.bindings : a.bindings[k].to \in Ids(a)
    PROVE  FindsCycle(a) <=> Cyclic(a)
<1> DEFINE ids == Ids(a)
           edges == Edges(a)
           seq == [k \in DOMAIN a.nodes |-> a.nodes[k].id]
<1>1. /\ DOMAIN edges = ids /\ Adjacency(edges)
      /\ \A y \in ids : \A x : EdgeTo(edges, y, x) <=>
           \E k \in DOMAIN a.bindings : a.bindings[k].from = y /\ a.bindings[k].to = x
  BY EdgesAreBindings
<1>2. IsFiniteSet(ids)
  BY IdsFinite
<1>3. seq \in Seq(ids) /\ \A x \in ids : \E k \in DOMAIN seq : seq[k] = x
  <2>1. DOMAIN a.nodes = 1..Len(a.nodes) /\ Len(a.nodes) \in Nat
    BY AssemblyParts
  <2> QED BY <2>1 DEF Ids
<1>4. FindsCycle(a) = Through(VisitAll(edges), [cycle |-> FALSE, visiting |-> {}, done |-> {}], seq).cycle
  BY DEF FindsCycle
<1> HIDE DEF edges, seq, ids
<1>5. FindsCycle(a) <=> Looping(edges)
  BY <1>1, <1>2, <1>3, <1>4, SearchCorrect
<1>6. ASSUME NEW S \in SUBSET ids, NEW x
      PROVE  FedFrom(edges, x, S) <=>
               \E k \in DOMAIN a.bindings : a.bindings[k].to = x /\ a.bindings[k].from \in S
  BY <1>1 DEF FedFrom
<1>7. Looping(edges) <=> Cyclic(a)
  <2>1. Looping(edges) <=> \E S \in SUBSET ids : S # {} /\ \A x \in S : FedFrom(edges, x, S)
    BY <1>1 DEF Looping
  <2>2. Cyclic(a) <=> \E S \in SUBSET ids : S # {} /\ \A x \in S :
            \E k \in DOMAIN a.bindings : a.bindings[k].to = x /\ a.bindings[k].from \in S
    BY DEF Cyclic, ids
  <2> QED BY <1>6, <2>1, <2>2
<1> QED BY <1>5, <1>7

\* Valid is: everything but the search finds no fault, and there is no cycle.
LEMMA ValidMeans ==
    ASSUME NEW a \in AssemblyRecord, NEW ins
    PROVE  Valid(a, ins) <=> WellTyped(a, ins) /\ ~Cyclic(a)
<1>1. CASE \A k \in DOMAIN a.bindings : ValidBinding(a, a.bindings[k], ins)
  <2>1. \A k \in DOMAIN a.bindings : a.bindings[k].to \in Ids(a)
    BY <1>1 DEF ValidBinding
  <2>2. FindsCycle(a) <=> Cyclic(a)
    BY <2>1, SearchFindsCycles
  <2> QED BY <2>2 DEF Valid, WellTyped
<1>2. CASE ~ \A k \in DOMAIN a.bindings : ValidBinding(a, a.bindings[k], ins)
  BY <1>2 DEF Valid, WellTyped
<1> QED BY <1>1, <1>2

\* A restricted assembly, and a cut one, is an assembly.
LEMMA MaterializeMakes ==
    ASSUME NEW a \in AssemblyRecord, NEW include
    PROVE  Materialize(a, include) \in AssemblyRecord
<1> DEFINE n == IncludedNodes(a, ToSet(include))
           b == IncludedBindings(a, ToSet(include))
<1>1. a.nodes \in Seq(NodeRecord) /\ a.bindings \in Seq(BindingRecord)
  BY AssemblyParts
<1>2. n \in Seq(NodeRecord)
  BY <1>1, SelectLists DEF IncludedNodes
<1>3. b \in Seq(BindingRecord)
  BY <1>1, SelectLists DEF IncludedBindings
<1> HIDE DEF n, b
<1>4. [a EXCEPT !.nodes = n, !.bindings = b] \in AssemblyRecord
  BY <1>2, <1>3 DEF AssemblyRecord
<1> QED BY <1>4 DEF Materialize, n, b

LEMMA SeedsAreNames ==
    ASSUME NEW b \in BindingRecord
    PROVE  Seeded(b) \in BindingRecord
<1>1. b.from \in Seq(STRING) /\ b.fromPort \in Seq(STRING) /\ << >> \in Seq(STRING)
  BY DEF BindingRecord, Text
<1>2. SeedInputPrefix \in Seq(STRING)
  BY SeedPrefixAssumption DEF Text
<1>3. SeedInputPrefix \o b.from \in Seq(STRING)
  BY <1>1, <1>2
<1>4. SeedInputName(b.from, b.fromPort) \in Seq(STRING)
  BY <1>1, <1>3 DEF SeedInputName
<1> QED BY <1>1, <1>4 DEF Seeded, BindingRecord, Text, Empty

LEMMA MaterializeCutMakes ==
    ASSUME NEW a \in AssemblyRecord, NEW plan
    PROVE  MaterializeCut(a, plan) \in AssemblyRecord
<1> DEFINE kept == Kept(a, plan)
           n == IncludedNodes(a, kept)
           down == KeptBindings(a, kept)
           b == [k \in DOMAIN down |-> IF CrossesCut(down[k], kept) THEN Seeded(down[k]) ELSE down[k]]
<1>1. a.nodes \in Seq(NodeRecord) /\ a.bindings \in Seq(BindingRecord)
  BY AssemblyParts
<1>2. n \in Seq(NodeRecord)
  BY <1>1, SelectLists DEF IncludedNodes
<1>3. down \in Seq(BindingRecord)
  BY <1>1, SelectLists DEF KeptBindings
<1> HIDE DEF n, down
<1>4. \A k \in DOMAIN down : down[k] \in BindingRecord /\ Seeded(down[k]) \in BindingRecord
  BY <1>3, SeedsAreNames
<1>5. DOMAIN down = 1..Len(down) /\ Len(down) \in Nat
  BY <1>3
<1>6. b \in Seq(BindingRecord)
  BY <1>4, <1>5
<1> HIDE DEF b
<1>7. [a EXCEPT !.nodes = n, !.bindings = b] \in AssemblyRecord
  BY <1>2, <1>6 DEF AssemblyRecord
<1> QED BY <1>7 DEF MaterializeCut, n, down, b

-----------------------------------------------------------------------------
(* The steps of a run, and of a Host that resumes it. *)

\* A step that starts a run.
Starts ==
    /\ state' = "RUNNING" /\ produced' = << >>
    /\ assembly' \in AssemblyRecord /\ Valid(assembly', inputs')

\* A step in which the first run is refused.
FirstRefused ==
    /\ state = "NONE" /\ state' = "REFUSED"
    /\ Selects => ~Valid(Requested, request.inputs)

RunTyped ==
    /\ request \in Request /\ state \in {"NONE", "REFUSED"} \cup Started
    /\ state \in Started => assembly \in AssemblyRecord

\* What the kernel freezes it has validated.
LEMMA FreezeStarts ==
    ASSUME NEW a \in AssemblyRecord, NEW include, NEW ins,
           MayStart(a, include, ins), Freeze(a, include, ins)
    PROVE  Starts
BY MaterializeMakes DEF MayStart, Freeze, Starts

LEMMA PipelineStartsRun ==
    ASSUME NEW a \in AssemblyRecord, NEW ins, NEW plan, NEW number,
           PipelineStarts(a, ins, plan, number)
    PROVE  Starts
<1> DEFINE cut == MaterializeCut(a, plan)
<1>1. cut \in AssemblyRecord
  BY MaterializeCutMakes
<1>2. MayStart(cut, << >>, ins) /\ Freeze(cut, << >>, ins)
  BY DEF PipelineStarts
<1> HIDE DEF cut
<1> QED BY <1>1, <1>2, FreezeStarts

\* The kernel starts a whole assembly if it is valid.
LEMMA WholeStarts ==
    ASSUME NEW a, NEW ins
    PROVE  MayStart(a, << >>, ins) <=> Valid(a, ins)
BY DEF MayStart, MayInclude, Materialize

LEMMA RefusedForWiring ==
    ASSUME state = "NONE", state' = "REFUSED", request.plan.kind # "NONE", NEW number,
           PipelineRefused(request.assembly, request.inputs, request.plan, number)
    PROVE  FirstRefused
<1>1. ASSUME Selects PROVE ~Valid(Requested, request.inputs)
  <2>1. MayPrepare(request.assembly, request.inputs, request.plan)
    BY <1>1 DEF Selects
  <2>2. ~MayStart(Requested, << >>, request.inputs)
    BY <2>1 DEF PipelineRefused, Requested
  <2> QED BY <2>2, WholeStarts
<1> QED BY <1>1 DEF FirstRefused

LEMMA StepKinds ==
    ASSUME RunTyped, CutNext
    PROVE  /\ request' = request
           /\ \/ Starts
              \/ FirstRefused
              \/ CommitSome
              \/ InjectSome
              \/ UNCHANGED run
<1>0. request.assembly \in AssemblyRecord
  BY RequestAssumption DEF RunTyped
<1>1. CASE StartRun
  <2>1. request' = request /\ state = "NONE" /\ request.plan.kind = "NONE"
    BY <1>1 DEF StartRun
  <2>2. CASE /\ MayStart(request.assembly, request.include, request.inputs)
             /\ Freeze(request.assembly, request.include, request.inputs)
    BY <1>0, <2>1, <2>2, FreezeStarts
  <2>3. CASE ~MayStart(request.assembly, request.include, request.inputs) /\ Refused
    BY <2>1, <2>3 DEF Refused, FirstRefused, Selects, Requested, MayStart
  <2> QED BY <1>1, <2>2, <2>3 DEF StartRun
<1>2. CASE StartPipeline
  <2>1. request' = request /\ state = "NONE" /\ request.plan.kind # "NONE"
    BY <1>2 DEF StartPipeline
  <2>2. CASE PipelineStarts(request.assembly, request.inputs, request.plan, 0)
    BY <1>0, <2>1, <2>2, PipelineStartsRun
  <2>3. CASE PipelineRefused(request.assembly, request.inputs, request.plan, 0) /\ Refused
    BY <2>1, <2>3, RefusedForWiring DEF Refused
  <2> QED BY <1>2, <2>2, <2>3 DEF StartPipeline
<1>3. CASE RunStep
  BY <1>3 DEF RunStep, CommitSome, InjectSome, Commit, InjectInput
<1>4. ASSUME NEW id, ResumeAfter(id)
      PROVE  request' = request /\ (Starts \/ UNCHANGED run)
  <2>1. state \in Started
    <3>1. state \notin {"NONE", "REFUSED"}
      BY <1>4 DEF ResumeAfter
    <3> QED BY <3>1 DEF RunTyped, Started
  <2> QED BY <1>4, <2>1, PipelineStartsRun DEF ResumeAfter, RunTyped
<1> QED BY <1>1, <1>2, <1>3, <1>4 DEF CutNext

\* A binding of a frozen assembly: validated, and a run input it names is there.  What
\* inject_input puts under the name is not validated.
Bound(a, b, ins) ==
    /\ b.to \in Ids(a)
    /\ HasPort(Capability(a, b.to).inputs, b.toPort)
    /\ IF b.input # Empty THEN b.from = Empty /\ b.fromPort = Empty /\ b.input \in DOMAIN ins
       ELSE ValidUpstream(a, b, Port(Capability(a, b.to).inputs, b.toPort))

Accepted(a, ins) ==
    /\ a \in AssemblyRecord
    /\ ValidNodes(a) /\ ValidTerminal(a) /\ PortsBound(a) /\ ~Cyclic(a)
    /\ Empty \notin DOMAIN ins
    /\ \A k \in DOMAIN a.bindings : Bound(a, a.bindings[k], ins)

\* The inductive invariant of acceptance: what runs was accepted, and the first run was
\* refused for its wiring or its selection.
Acceptance ==
    /\ RunTyped
    /\ state \in Started => Accepted(assembly, inputs)
    /\ state = "REFUSED" /\ Selects => ~Valid(Requested, request.inputs)

LEMMA ValidIsAccepted ==
    ASSUME NEW a \in AssemblyRecord, NEW ins, Valid(a, ins)
    PROVE  Accepted(a, ins)
<1>1. WellTyped(a, ins) /\ ~Cyclic(a)
  BY ValidMeans
<1>2. ASSUME NEW k \in DOMAIN a.bindings PROVE Bound(a, a.bindings[k], ins)
  <2>1. ValidBinding(a, a.bindings[k], ins)
    BY <1>1 DEF WellTyped
  <2> QED BY <2>1 DEF ValidBinding, ValidExternal, Bound
<1> QED BY <1>1, <1>2 DEF WellTyped, Accepted

LEMMA CommitLeaves ==
    ASSUME CommitSome
    PROVE  /\ UNCHANGED <<request, assembly, inputs>> /\ state = "RUNNING" /\ state' \in Started
           /\ \E id \in Ids(assembly) : \E outs : Commit(id, outs)
BY DEF CommitSome, Commit, StateAfterCommit, Started

LEMMA InjectLeaves ==
    ASSUME InjectSome
    PROVE  /\ UNCHANGED <<request, state, assembly, produced>> /\ state = "RUNNING"
           /\ \E name, bag : bag \in Injected /\ InjectInput(name, bag)
BY DEF InjectSome, InjectInput

LEMMA InjectBinds ==
    ASSUME NEW name, NEW bag, InjectInput(name, bag)
    PROVE  /\ DOMAIN inputs' = DOMAIN inputs \cup {name} /\ name # Empty
           /\ \A i \in DOMAIN inputs' : inputs'[i] = IF i = name THEN bag ELSE inputs[i]
BY DEF InjectInput

LEMMA AcceptanceInit == CutInit => Acceptance
BY DEF CutInit, Init, Acceptance, RunTyped, Started

LEMMA AcceptanceNext == Acceptance /\ [CutNext]_cvars => Acceptance'
<1> SUFFICES ASSUME Acceptance, [CutNext]_cvars PROVE Acceptance'
  OBVIOUS
<1> USE DEF Acceptance, RunTyped
<1>1. CASE CutNext
  <2>1. request' = request
    BY <1>1, StepKinds
  <2>2. CASE Starts
    <3>1. Accepted(assembly', inputs')
      BY <2>2, ValidIsAccepted DEF Starts
    <3>2. Accepted(assembly, inputs)'
      BY <3>1 DEF Accepted, Bound
    <3> QED BY <2>1, <2>2, <3>2 DEF Starts, Started
  <2>3. CASE FirstRefused
    <3>1. state' = "REFUSED" /\ (Selects => ~Valid(Requested, request.inputs))
      BY <2>3 DEF FirstRefused
    <3>2. (Selects <=> Selects') /\ Requested' = Requested
      BY <2>1 DEF Selects, Requested
    <3> QED BY <2>1, <3>1, <3>2 DEF Started
  <2>4. CASE CommitSome
    <3>1. Accepted(assembly, inputs)
      BY <2>4, CommitLeaves DEF Started
    <3>2. UNCHANGED <<assembly, inputs>> /\ state' \in Started
      BY <2>4, CommitLeaves
    <3>3. Accepted(assembly, inputs)'
      BY <3>1, <3>2 DEF Accepted, Bound
    <3> QED BY <2>1, <3>2, <3>3, <3>1 DEF Started, Accepted
  <2>5. CASE InjectSome
    <3>1. Accepted(assembly, inputs) /\ UNCHANGED <<state, assembly>> /\ state = "RUNNING"
      BY <2>5, InjectLeaves DEF Started
    <3>2. PICK name, bag : InjectInput(name, bag)
      BY <2>5, InjectLeaves
    <3>3. DOMAIN inputs' = DOMAIN inputs \cup {name} /\ name # Empty
      BY <3>2, InjectBinds
    <3>4. \A k \in DOMAIN assembly.bindings : Bound(assembly, assembly.bindings[k], inputs')
      BY <3>1, <3>3 DEF Accepted, Bound
    <3>5. Accepted(assembly, inputs')
      BY <3>1, <3>3, <3>4 DEF Accepted
    <3>6. Accepted(assembly, inputs)'
      BY <3>1, <3>5
    <3> QED BY <2>1, <3>1, <3>6
  <2>6. CASE UNCHANGED run
    <3>1. UNCHANGED <<state, assembly, inputs>>
      BY <2>6 DEF run
    <3>2. (Selects <=> Selects') /\ Requested' = Requested
      BY <2>1 DEF Selects, Requested
    <3> QED BY <2>1, <3>1, <3>2
  <2> QED BY <1>1, <2>2, <2>3, <2>4, <2>5, <2>6, StepKinds
<1>2. CASE UNCHANGED cvars
  <2>1. UNCHANGED <<request, state, assembly, inputs>>
    BY <1>2 DEF cvars, run
  <2>2. (Selects <=> Selects') /\ Requested' = Requested
    BY <2>1 DEF Selects, Requested
  <2> QED BY <2>1, <2>2
<1> QED BY <1>1, <1>2

LEMMA AcceptanceHolds == CutSpec => []Acceptance
<1>1. CutInit => Acceptance
  BY AcceptanceInit
<1>2. Acceptance /\ [CutNext]_cvars => Acceptance'
  BY AcceptanceNext
<1> QED BY <1>1, <1>2, PTL DEF CutSpec

LEMMA RequestedMakes ==
    ASSUME Acceptance
    PROVE  Requested \in AssemblyRecord
<1>1. request.assembly \in AssemblyRecord
  BY RequestAssumption DEF Acceptance, RunTyped
<1> QED BY <1>1, MaterializeMakes, MaterializeCutMakes DEF Requested

\* The depth-first search of StartRun refuses every cyclic assembly and nothing else, for every
\* assembly, registry and selection: the recursive walk of validate_assembly computes Cyclic.
THEOREM CyclesRefused == CutSpec => []CyclesAreRefused
<1>1. Acceptance => CyclesAreRefused
  <2> SUFFICES ASSUME Acceptance PROVE CyclesAreRefused
    OBVIOUS
  <2>1. state \in Started => ~Cyclic(assembly)
    BY DEF Acceptance, Accepted
  <2>2. ASSUME state = "REFUSED", Selects, WellTyped(Requested, request.inputs)
        PROVE  Cyclic(Requested)
    <3>1. ~Valid(Requested, request.inputs)
      BY <2>2 DEF Acceptance
    <3> QED BY <2>2, <3>1, RequestedMakes, ValidMeans
  <2> QED BY <2>1, <2>2 DEF CyclesAreRefused
<1> QED BY <1>1, AcceptanceHolds, PTL

-----------------------------------------------------------------------------
(* What the run has committed, and how it closes. *)

TerminalOut ==
    /\ assembly.terminal.node \in DOMAIN produced
    /\ assembly.terminal.port \in DOMAIN produced[assembly.terminal.node]

\* The inductive invariant of closure: commits are of nodes whose sources committed, with
\* valid outputs; a run that is not COMPLETED has no answer; STALLED and FAILED keep the reason
\* they were decided for.
Closed ==
    /\ \A n \in DOMAIN produced :
        n \in Ids(assembly) /\ ValidOutputs(Capability(assembly, n).outputs, produced[n])
    /\ \A k \in DOMAIN assembly.bindings :
        assembly.bindings[k].to \in DOMAIN produced => BindingResolves(assembly.bindings[k])
    /\ state = "COMPLETED" \/ ~TerminalOut
    /\ state = "STALLED" => ~AnyReady
    /\ state = "FAILED" => Cardinality(DOMAIN produced) >= Len(assembly.nodes)

Closure == Acceptance /\ (state \in Started => Closed)

LEMMA ClosureNext == Closure /\ [CutNext]_cvars => Closure'
<1> SUFFICES ASSUME Closure, [CutNext]_cvars PROVE Closure'
  OBVIOUS
<1>0. Acceptance /\ Acceptance'
  BY AcceptanceNext DEF Closure
<1>c. state \in Started => Closed
  BY DEF Closure
<1> SUFFICES ASSUME state' \in Started PROVE Closed'
  BY <1>0 DEF Closure
<1>1. CASE CutNext
  <2>0. RunTyped
    BY <1>0 DEF Acceptance
  <2>2. CASE Starts
    <3>1. state' = "RUNNING" /\ DOMAIN produced' = {}
      BY <2>2 DEF Starts
    <3> QED BY <3>1 DEF Closed, TerminalOut
  <2>3. CASE FirstRefused
    BY <2>3 DEF FirstRefused, Started
  <2>4. CASE CommitSome
    <3>1. /\ UNCHANGED <<request, assembly, inputs>> /\ state = "RUNNING" /\ Closed
          /\ \E id \in Ids(assembly) : \E outs : Commit(id, outs)
      BY <1>c, <2>4, CommitLeaves DEF Started
    <3>2. PICK id \in Ids(assembly) : \E outs : Commit(id, outs)
      BY <3>1
    <3>p. PICK outs : Commit(id, outs)
      BY <3>2
    <3>3. /\ Ready(id) /\ ValidOutputs(Capability(assembly, id).outputs, outs)
          /\ DOMAIN produced' = DOMAIN produced \cup {id}
          /\ produced'[id] = outs /\ id \notin DOMAIN produced
          /\ \A n \in DOMAIN produced : produced'[n] = produced[n]
          /\ state' = StateAfterCommit(id, outs)
      BY <3>p DEF Commit, Ready
    <3>4. \A n \in DOMAIN produced' :
            n \in Ids(assembly) /\ ValidOutputs(Capability(assembly, n).outputs, produced'[n])
      BY <3>1, <3>3 DEF Closed
    <3>5. ASSUME NEW b, BindingResolves(b) PROVE BindingResolves(b)'
      BY <3>1, <3>3, <3>5 DEF BindingResolves
    <3>6. ASSUME NEW k \in DOMAIN assembly.bindings, assembly.bindings[k].to \in DOMAIN produced'
          PROVE  BindingResolves(assembly.bindings[k])
      <4>1. CASE assembly.bindings[k].to = id
        BY <3>3, <4>1 DEF Ready, BindingsTo
      <4>2. CASE assembly.bindings[k].to \in DOMAIN produced
        BY <3>1, <4>2 DEF Closed
      <4> QED BY <3>3, <3>6, <4>1, <4>2
    <3>7. state' = "COMPLETED" \/ ~TerminalOut'
      <4>1. ASSUME TerminalOut', state' # "COMPLETED" PROVE FALSE
        <5>1. ~Answers(id, outs)
          BY <3>3, <4>1 DEF StateAfterCommit
        <5>2. ~TerminalOut
          BY <3>1 DEF Closed
        <5> QED BY <3>1, <3>3, <4>1, <5>1, <5>2 DEF TerminalOut, Answers
      <4> QED BY <4>1
    <3>8. state' = "STALLED" => ~AnyReady'
      BY <3>1, <3>3 DEF StateAfterCommit
    <3>9. state' = "FAILED" => Cardinality(DOMAIN produced') >= Len(assembly.nodes)
      BY <3>1, <3>3 DEF StateAfterCommit
    <3> QED BY <3>1, <3>4, <3>5, <3>6, <3>7, <3>8, <3>9 DEF Closed
  <2>5. CASE InjectSome
    <3>1. UNCHANGED <<request, state, assembly, produced>> /\ state = "RUNNING" /\ Closed
      BY <1>c, <2>5, InjectLeaves DEF Started
    <3>2. PICK name, bag : InjectInput(name, bag)
      BY <2>5, InjectLeaves
    <3>3. DOMAIN inputs' = DOMAIN inputs \cup {name}
      BY <3>2, InjectBinds
    <3>4. ASSUME NEW b, BindingResolves(b) PROVE BindingResolves(b)'
      BY <3>1, <3>3, <3>4 DEF BindingResolves
    <3> QED BY <3>1, <3>4 DEF Closed, TerminalOut
  <2>6. CASE UNCHANGED run
    <3>1. UNCHANGED <<state, assembly, inputs, produced>>
      BY <2>6 DEF run
    <3> QED BY <1>c, <3>1 DEF Closed, TerminalOut, BindingResolves, AnyReady, Ready, BindingsTo
  <2> QED BY <1>1, <2>0, <2>2, <2>3, <2>4, <2>5, <2>6, StepKinds
<1>2. CASE UNCHANGED cvars
  <2>1. UNCHANGED <<state, assembly, inputs, produced>>
    BY <1>2 DEF cvars, run
  <2> QED BY <1>c, <2>1 DEF Closed, TerminalOut, BindingResolves, AnyReady, Ready, BindingsTo
<1> QED BY <1>1, <1>2

LEMMA ClosureHolds == CutSpec => []Closure
<1>1. CutInit => Closure
  BY AcceptanceInit DEF CutInit, Init, Closure, Started
<1>2. Closure /\ [CutNext]_cvars => Closure'
  BY ClosureNext
<1> QED BY <1>1, <1>2, PTL DEF CutSpec

\* When every commit emits all its ports, the nodes that have not run, if none is ready, feed
\* each other.
LEMMA WaitingIsCyclic ==
    ASSUME Closure, state \in Started, Ids(assembly) \ DOMAIN produced # {}, ~AnyReady,
           \A id \in DOMAIN produced :
               DOMAIN produced[id] = PortNames(Capability(assembly, id).outputs)
    PROVE  Cyclic(assembly)
<1> DEFINE S == Ids(assembly) \ DOMAIN produced
<1>1. ASSUME NEW x \in S
      PROVE  \E k \in DOMAIN assembly.bindings :
                assembly.bindings[k].to = x /\ assembly.bindings[k].from \in S
  <2>1. PICK k \in DOMAIN assembly.bindings :
            assembly.bindings[k].to = x /\ ~BindingResolves(assembly.bindings[k])
    BY DEF AnyReady, Ready, BindingsTo
  <2> DEFINE b == assembly.bindings[k]
  <2>2. Bound(assembly, b, inputs)
    BY DEF Closure, Acceptance, Accepted
  <2>3. b.input = Empty /\ b.from \in Ids(assembly)
        /\ HasPort(Capability(assembly, b.from).outputs, b.fromPort)
    BY <2>1, <2>2 DEF Bound, BindingResolves, ValidUpstream
  <2>4. b.fromPort \in PortNames(Capability(assembly, b.from).outputs)
    BY <2>3 DEF HasPort, PortNames
  <2>5. b.from \notin DOMAIN produced
    BY <2>1, <2>3, <2>4 DEF BindingResolves
  <2> QED BY <2>1, <2>3, <2>5
<1>2. S \in (SUBSET Ids(assembly)) \ {{}}
  OBVIOUS
<1> QED BY <1>1, <1>2 DEF Cyclic

\* An accepted run whose commits emit every declared port always has a ready node until it
\* is COMPLETED, and is never closed STALLED or FAILED: for every assembly, selection and cut.
THEOREM NeverStalls == CutSpec => []NoStall
<1>1. Closure => NoStall
  <2> SUFFICES ASSUME Closure, state \in Started, state # "COMPLETED",
                      \A id \in DOMAIN produced :
                          DOMAIN produced[id] = PortNames(Capability(assembly, id).outputs)
               PROVE  state = "RUNNING" /\ AnyReady
    BY DEF NoStall
  <2>1. Accepted(assembly, inputs) /\ DOMAIN produced \subseteq Ids(assembly) /\ ~TerminalOut
    BY DEF Closure, Closed, Acceptance
  <2>2. /\ assembly.terminal.node \in Ids(assembly)
        /\ assembly.terminal.port \in PortNames(Capability(assembly, assembly.terminal.node).outputs)
    BY <2>1 DEF Accepted, ValidTerminal, HasPort, PortNames
  <2>3. assembly.terminal.node \notin DOMAIN produced
    BY <2>1, <2>2 DEF TerminalOut
  <2>4. AnyReady
    BY <2>1, <2>2, <2>3, WaitingIsCyclic DEF Accepted
  <2>5. state # "STALLED"
    BY <2>4 DEF Closure, Closed
  <2>6. state # "FAILED"
    <3>1. /\ IsFiniteSet(Ids(assembly)) /\ Cardinality(Ids(assembly)) \in Nat
          /\ Cardinality(Ids(assembly)) <= Len(assembly.nodes) /\ Len(assembly.nodes) \in Nat
      BY <2>1, IdsFinite, AssemblyParts DEF Accepted
    <3>2. /\ Cardinality(DOMAIN produced) < Cardinality(Ids(assembly))
          /\ IsFiniteSet(DOMAIN produced) /\ Cardinality(DOMAIN produced) \in Nat
      BY <2>1, <2>2, <2>3, <3>1, FS_Subset, FS_CardinalityType
    <3> QED BY <3>1, <3>2 DEF Closure, Closed
  <2> QED BY <2>4, <2>5, <2>6 DEF Started
<1> QED BY <1>1, ClosureHolds, PTL

-----------------------------------------------------------------------------
(* What is delivered. *)

\* What callers inject has every trait any registered capability requires of an input.
InjectedCover ==
    \A bag \in Injected, m \in DOMAIN Provides :
        Len(Provides[m]) = 1 =>
            \A j \in DOMAIN Provides[m][1].inputs : Provides[m][1].inputs[j].traits \subseteq bag

\* The run inputs of a started run have the traits the ports they are bound to require.
InputsCover ==
    state \in Started =>
        \A k \in DOMAIN assembly.bindings :
            LET b == assembly.bindings[k] IN
            b.input # Empty =>
                Port(Capability(assembly, b.to).inputs, b.toPort).traits \subseteq inputs[b.input]

Coverage == Acceptance /\ InputsCover

LEMMA CapabilityOf ==
    ASSUME NEW a \in AssemblyRecord, ValidNodes(a), NEW k \in DOMAIN a.nodes
    PROVE  /\ a.nodes[k].module \in DOMAIN Provides
           /\ Len(Provides[a.nodes[k].module]) = 1
           /\ Capability(a, a.nodes[k].id) = Provides[a.nodes[k].module][1]
<1>1. \A j \in DOMAIN a.nodes : a.nodes[j].id = a.nodes[k].id => j = k
  BY DEF ValidNodes
<1>2. Provided(a, a.nodes[k].id)
  BY DEF ValidNodes
<1>3. Len(Provides[a.nodes[k].module]) = 1
  BY <1>1, <1>2 DEF Provided
<1>4. (CHOOSE j \in DOMAIN a.nodes : a.nodes[j].id = a.nodes[k].id) = k
  BY <1>1
<1>5. a.nodes[k] \in NodeRecord
  BY AssemblyParts
<1> QED BY <1>3, <1>4, <1>5 DEF Capability, NodeRecord

LEMMA PortAmong ==
    ASSUME NEW ports, NEW name, HasPort(ports, name)
    PROVE  \E j \in DOMAIN ports : ports[j].name = name /\ Port(ports, name) = ports[j]
BY DEF HasPort, Port

LEMMA InjectedSuits ==
    ASSUME InjectedCover, NEW a \in AssemblyRecord, ValidNodes(a), NEW id \in Ids(a), NEW name,
           HasPort(Capability(a, id).inputs, name), NEW bag \in Injected
    PROVE  Port(Capability(a, id).inputs, name).traits \subseteq bag
<1>1. PICK k \in DOMAIN a.nodes : a.nodes[k].id = id
  BY DEF Ids
<1>2. /\ a.nodes[k].module \in DOMAIN Provides /\ Len(Provides[a.nodes[k].module]) = 1
      /\ Capability(a, id) = Provides[a.nodes[k].module][1]
  BY <1>1, CapabilityOf
<1>3. PICK j \in DOMAIN Capability(a, id).inputs :
        Port(Capability(a, id).inputs, name) = Capability(a, id).inputs[j]
  BY PortAmong
<1> QED BY <1>2, <1>3 DEF InjectedCover

LEMMA ValidCovers ==
    ASSUME NEW a, NEW ins, Valid(a, ins), NEW k \in DOMAIN a.bindings, a.bindings[k].input # Empty
    PROVE  Port(Capability(a, a.bindings[k].to).inputs, a.bindings[k].toPort).traits
               \subseteq ins[a.bindings[k].input]
BY DEF Valid, ValidBinding, ValidExternal, TraitSetCovers

LEMMA CoverageNext == InjectedCover /\ Coverage /\ [CutNext]_cvars => Coverage'
<1> SUFFICES ASSUME InjectedCover, Coverage, [CutNext]_cvars PROVE Coverage'
  OBVIOUS
<1>0. Acceptance /\ Acceptance' /\ InputsCover
  BY AcceptanceNext DEF Coverage
<1> SUFFICES ASSUME state' \in Started, NEW k \in DOMAIN assembly'.bindings,
                    assembly'.bindings[k].input # Empty
             PROVE  Port(Capability(assembly', assembly'.bindings[k].to).inputs,
                         assembly'.bindings[k].toPort).traits
                        \subseteq inputs'[assembly'.bindings[k].input]
  BY <1>0 DEF Coverage, InputsCover
<1>1. CASE CutNext
  <2>0. RunTyped
    BY <1>0 DEF Acceptance
  <2>2. CASE Starts
    BY <2>2, ValidCovers DEF Starts
  <2>3. CASE FirstRefused
    BY <2>3 DEF FirstRefused, Started
  <2>4. CASE CommitSome
    BY <1>0, <2>4, CommitLeaves DEF InputsCover, Started
  <2>5. CASE InjectSome
    <3> DEFINE b == assembly.bindings[k]
    <3>1. UNCHANGED assembly /\ state = "RUNNING"
      BY <2>5, InjectLeaves
    <3>2. PICK name, bag : bag \in Injected /\ InjectInput(name, bag)
      BY <2>5, InjectLeaves
    <3>3. /\ DOMAIN inputs' = DOMAIN inputs \cup {name}
          /\ \A i \in DOMAIN inputs' : inputs'[i] = IF i = name THEN bag ELSE inputs[i]
      BY <3>2, InjectBinds
    <3>4. Accepted(assembly, inputs) /\ Bound(assembly, b, inputs)
      BY <1>0, <3>1 DEF Acceptance, Accepted, Started
    <3>5. Port(Capability(assembly, b.to).inputs, b.toPort).traits \subseteq bag
      BY <3>2, <3>4, InjectedSuits DEF Accepted, Bound
    <3>6. b.input \in DOMAIN inputs
      BY <3>1, <3>4 DEF Bound
    <3>7. Port(Capability(assembly, b.to).inputs, b.toPort).traits \subseteq inputs[b.input]
      BY <1>0, <3>1 DEF InputsCover, Started
    <3>8. inputs'[b.input] = bag \/ inputs'[b.input] = inputs[b.input]
      BY <3>3, <3>6
    <3> QED BY <3>1, <3>5, <3>7, <3>8
  <2>6. CASE UNCHANGED run
    BY <1>0, <2>6 DEF run, InputsCover
  <2> QED BY <1>1, <2>0, <2>2, <2>3, <2>4, <2>5, <2>6, StepKinds
<1>2. CASE UNCHANGED cvars
  BY <1>0, <1>2 DEF cvars, run, InputsCover
<1> QED BY <1>1, <1>2

LEMMA CoverageHolds ==
    ASSUME InjectedCover
    PROVE  CutSpec => []Coverage
<1>1. CutInit => Coverage
  BY AcceptanceInit DEF CutInit, Init, Coverage, InputsCover, Started
<1>2. Coverage /\ [CutNext]_cvars => Coverage'
  BY CoverageNext
<1> QED BY <1>1, <1>2, PTL DEF CutSpec

\* What the ports of the target require is what a committed upstream output guarantees.
LEMMA UpstreamCovers ==
    ASSUME Closure, state \in Started, NEW k \in DOMAIN assembly.bindings,
           assembly.bindings[k].input = Empty, BindingResolves(assembly.bindings[k])
    PROVE  Port(Capability(assembly, assembly.bindings[k].to).inputs,
                assembly.bindings[k].toPort).traits \subseteq Delivered(assembly.bindings[k])
<1> DEFINE b == assembly.bindings[k]
           outs == Capability(assembly, b.from).outputs
<1>1. Bound(assembly, b, inputs)
  BY DEF Closure, Acceptance, Accepted
<1>2. Port(Capability(assembly, b.to).inputs, b.toPort).traits \subseteq Port(outs, b.fromPort).traits
  BY <1>1 DEF Bound, ValidUpstream, TraitSetCovers
<1>3. b.from \in DOMAIN produced /\ b.fromPort \in DOMAIN produced[b.from]
  BY DEF BindingResolves
<1>4. ValidOutputs(outs, produced[b.from])
  BY <1>3 DEF Closure, Closed
<1>5. Port(outs, b.fromPort).traits \subseteq produced[b.from][b.fromPort]
  BY <1>3, <1>4 DEF ValidOutputs, TraitSetCovers
<1> QED BY <1>2, <1>5 DEF Delivered

\* Whatever reaches an input port has every trait the port requires, if injected artifacts do:
\* validate_assembly compares ports once, validate_outputs the artifacts of each commit, and
\* nothing looks at an artifact again when it is delivered.
THEOREM TraitsDelivered ==
    ASSUME InjectedCover
    PROVE  CutSpec => []DeliveredTraits
<1>1. Closure /\ Coverage => DeliveredTraits
  <2> SUFFICES ASSUME Closure, Coverage, state \in Started, NEW k \in DOMAIN assembly.bindings,
                      BindingResolves(assembly.bindings[k])
               PROVE  Port(Capability(assembly, assembly.bindings[k].to).inputs,
                           assembly.bindings[k].toPort).traits
                          \subseteq Delivered(assembly.bindings[k])
    BY DEF DeliveredTraits
  <2>1. CASE assembly.bindings[k].input = Empty
    BY <2>1, UpstreamCovers
  <2>2. CASE assembly.bindings[k].input # Empty
    BY <2>2 DEF Coverage, InputsCover, Delivered
  <2> QED BY <2>1, <2>2
<1> QED BY <1>1, ClosureHolds, CoverageHolds, PTL

-----------------------------------------------------------------------------
(* Parts of assemblies. *)

\* Where the members of a selected sequence were.
Places(t, seq, S, pos) ==
    /\ pos \in [DOMAIN t -> DOMAIN seq]
    /\ \A j \in DOMAIN t : t[j] = seq[pos[j]] /\ seq[pos[j]] \in S
    /\ \A i, j \in DOMAIN t : pos[i] = pos[j] => i = j
    /\ \A k \in DOMAIN seq : seq[k] \in S => \E j \in DOMAIN t : pos[j] = k

LEMMA SelectPlaces ==
    ASSUME NEW E, NEW seq \in Seq(E), NEW S
    PROVE  Select(seq, S) \in Seq(E) /\ \E pos : Places(Select(seq, S), seq, S, pos)
<1> DEFINE t == Select(seq, S)
<1>1. t \in Seq(E)
  BY SelectLists
<1>2. PICK pos : Lists(t, seq, S, Len(seq), pos)
  BY SelectLists
<1> HIDE DEF t
<1>3. DOMAIN t = 1..Len(t) /\ DOMAIN seq = 1..Len(seq) /\ Len(t) \in Nat /\ Len(seq) \in Nat
  BY <1>1
<1>4. /\ pos \in [DOMAIN t -> DOMAIN seq]
      /\ \A j \in DOMAIN t : t[j] = seq[pos[j]] /\ seq[pos[j]] \in S
      /\ \A i, j \in DOMAIN t : i < j => pos[i] < pos[j]
      /\ \A k \in DOMAIN seq : seq[k] \in S => \E j \in DOMAIN t : pos[j] = k
  BY <1>2, <1>3 DEF Lists
<1>5. ASSUME NEW i \in DOMAIN t, NEW j \in DOMAIN t, pos[i] = pos[j] PROVE i = j
  <2>1. i \in Nat /\ j \in Nat /\ pos[i] \in Nat /\ pos[j] \in Nat
    BY <1>3, <1>4
  <2>2. ~(i < j) /\ ~(j < i)
    BY <1>4, <1>5, <2>1
  <2> QED BY <2>1, <2>2
<1>6. Places(t, seq, S, pos)
  BY <1>4, <1>5 DEF Places
<1> QED BY <1>1, <1>6 DEF t

\* m is what a restriction or a cut leaves of a: the nodes that are kept, and the bindings to
\* them, in their places; a binding is left as it was or has lost its source.
Restricts(m, a, kept, pos) ==
    /\ m \in AssemblyRecord /\ m.id = a.id /\ m.terminal = a.terminal
    /\ m.nodes = IncludedNodes(a, kept)
    /\ pos \in [DOMAIN m.bindings -> DOMAIN a.bindings]
    /\ \A i, j \in DOMAIN m.bindings : pos[i] = pos[j] => i = j
    /\ \A k \in DOMAIN a.bindings :
        a.bindings[k].to \in kept <=> \E j \in DOMAIN m.bindings : pos[j] = k
    /\ \A j \in DOMAIN m.bindings :
        /\ m.bindings[j].to = a.bindings[pos[j]].to
        /\ m.bindings[j].toPort = a.bindings[pos[j]].toPort
        /\ m.bindings[j] = a.bindings[pos[j]] \/ m.bindings[j].from = Empty

\* The nodes that are left, and that they are what they were.
LEMMA RestrictedNodes ==
    ASSUME NEW a \in AssemblyRecord, NEW m, NEW kept, NEW pos, Restricts(m, a, kept, pos),
           ValidNodes(a), a.terminal.node \in kept, a.terminal.node \in Ids(a)
    PROVE  /\ Ids(m) = Ids(a) \cap kept
           /\ ValidNodes(m)
           /\ \A id \in Ids(m) : Capability(m, id) = Capability(a, id)
<1> DEFINE S == {n \in ToSet(a.nodes) : n.id \in kept}
<1>1. a.nodes \in Seq(NodeRecord) /\ m \in AssemblyRecord /\ m.nodes = Select(a.nodes, S)
  BY AssemblyParts DEF Restricts, IncludedNodes
<1>2. PICK at : Places(Select(a.nodes, S), a.nodes, S, at)
  <2> HIDE DEF S
  <2> QED BY <1>1, SelectPlaces
<1>3. \A k \in DOMAIN a.nodes : a.nodes[k] \in S <=> a.nodes[k].id \in kept
  BY DEF ToSet
<1> HIDE DEF S
<1>4. /\ at \in [DOMAIN m.nodes -> DOMAIN a.nodes]
      /\ \A j \in DOMAIN m.nodes : m.nodes[j] = a.nodes[at[j]] /\ a.nodes[at[j]].id \in kept
      /\ \A i, j \in DOMAIN m.nodes : at[i] = at[j] => i = j
      /\ \A k \in DOMAIN a.nodes : a.nodes[k].id \in kept => \E j \in DOMAIN m.nodes : at[j] = k
  BY <1>1, <1>2, <1>3 DEF Places
<1>5. Ids(m) = Ids(a) \cap kept
  <2>1. \A j \in DOMAIN m.nodes : m.nodes[j].id \in Ids(a) /\ m.nodes[j].id \in kept
    BY <1>4 DEF Ids
  <2>2. \A k \in DOMAIN a.nodes : a.nodes[k].id \in kept =>
            \E j \in DOMAIN m.nodes : m.nodes[j].id = a.nodes[k].id
    BY <1>4
  <2> QED BY <2>1, <2>2 DEF Ids
<1>6. ASSUME NEW k \in DOMAIN m.nodes
      PROVE  /\ m.nodes[k].id # Empty
             /\ \A j \in DOMAIN m.nodes : m.nodes[j].id = m.nodes[k].id => j = k
             /\ Provided(m, m.nodes[k].id)
             /\ Capability(m, m.nodes[k].id) = Capability(a, m.nodes[k].id)
             /\ TypedPorts(Capability(a, m.nodes[k].id).inputs)
             /\ TypedPorts(Capability(a, m.nodes[k].id).outputs)
  <2>1. at[k] \in DOMAIN a.nodes /\ m.nodes[k] = a.nodes[at[k]]
    BY <1>4
  <2>2. /\ m.nodes[k].id # Empty
        /\ TypedPorts(Capability(a, m.nodes[k].id).inputs)
        /\ TypedPorts(Capability(a, m.nodes[k].id).outputs)
    BY <2>1 DEF ValidNodes
  <2>3. \A j \in DOMAIN m.nodes : m.nodes[j].id = m.nodes[k].id => j = k
    BY <1>4, <2>1 DEF ValidNodes
  <2>4. /\ Len(Provides[m.nodes[k].module]) = 1
        /\ Capability(a, m.nodes[k].id) = Provides[m.nodes[k].module][1]
    BY <2>1, CapabilityOf
  <2>5. Provided(m, m.nodes[k].id)
    BY <2>4 DEF Provided
  <2>6. (CHOOSE j \in DOMAIN m.nodes : m.nodes[j].id = m.nodes[k].id) = k
    BY <2>3
  <2>7. Capability(m, m.nodes[k].id) = Provides[m.nodes[k].module][1]
    BY <2>6 DEF Capability
  <2> QED BY <2>2, <2>3, <2>4, <2>5, <2>7
<1>7. m.id # Empty /\ m.nodes # << >>
  <2>1. m.id # Empty
    BY DEF Restricts, ValidNodes
  <2>2. a.terminal.node \in Ids(m)
    BY <1>5
  <2>3. PICK j \in DOMAIN m.nodes : TRUE
    BY <2>2 DEF Ids
  <2> QED BY <2>1, <2>3
<1>8. ValidNodes(m)
  BY <1>6, <1>7 DEF ValidNodes
<1> QED BY <1>5, <1>6, <1>8 DEF Ids

\* A kept node keeps all its bindings.
LEMMA RestrictedCount ==
    ASSUME NEW a \in AssemblyRecord, NEW m, NEW kept, NEW pos, Restricts(m, a, kept, pos),
           NEW id \in kept, NEW name
    PROVE  BindingCount(m, id, name) = BindingCount(a, id, name)
<1> DEFINE S == {k \in DOMAIN m.bindings : m.bindings[k].to = id /\ m.bindings[k].toPort = name}
           T == {k \in DOMAIN a.bindings : a.bindings[k].to = id /\ a.bindings[k].toPort = name}
           f == [k \in S |-> pos[k]]
<1>0. m \in AssemblyRecord
  BY DEF Restricts
<1>1. IsFiniteSet(S)
  <2>1. IsFiniteSet(DOMAIN m.bindings)
    <3> HIDE DEF S, T, f
    <3>1. Len(m.bindings) \in Nat /\ DOMAIN m.bindings = 1..Len(m.bindings)
      BY <1>0, AssemblyParts
    <3>2. 1 \in Int /\ Len(m.bindings) \in Int
      BY <3>1
    <3> QED BY <3>1, <3>2, FS_Interval
  <2> QED BY <2>1, FS_Subset
<1>2. \A k \in S : pos[k] \in T
  BY DEF Restricts
<1>3. \A k \in T : \E j \in S : pos[j] = k
  BY DEF Restricts
<1>4. \A i, j \in S : pos[i] = pos[j] => i = j
  BY DEF Restricts
<1>5. f \in Bijection(S, T)
  <2> HIDE DEF S, T
  <2>1. f \in [S -> T] /\ \A k \in S : f[k] = pos[k]
    BY <1>2
  <2> HIDE DEF f
  <2>2. \A k \in T : \E j \in S : f[j] = k
    BY <1>3, <2>1
  <2>3. \A i, j \in S : f[i] = f[j] => i = j
    BY <1>4, <2>1
  <2>4. f \in Injection(S, T)
    BY <2>1, <2>3 DEF Injection, IsInjective
  <2>5. f \in Surjection(S, T)
    BY <2>1, <2>2 DEF Surjection
  <2> QED BY <2>4, <2>5 DEF Bijection
<1>6. Cardinality(S) = Cardinality(T)
  <2> HIDE DEF S, T, f
  <2>1. ExistsBijection(S, T)
    BY <1>5 DEF ExistsBijection
  <2> QED BY <1>1, <2>1, FS_Bijection
<1> QED BY <1>6 DEF BindingCount

\* All of validation but the bindings holds of the part.
LEMMA RestrictedValid ==
    ASSUME NEW a \in AssemblyRecord, NEW m, NEW kept, NEW pos, Restricts(m, a, kept, pos),
           ValidNodes(a), ValidTerminal(a), PortsBound(a), ~Cyclic(a), a.terminal.node \in kept
    PROVE  ValidNodes(m) /\ ValidTerminal(m) /\ PortsBound(m) /\ ~Cyclic(m)
<1>0. a.terminal.node \in Ids(a)
  BY DEF ValidTerminal
<1>1. /\ Ids(m) = Ids(a) \cap kept /\ ValidNodes(m)
      /\ \A id \in Ids(m) : Capability(m, id) = Capability(a, id)
  BY <1>0, RestrictedNodes
<1>2. ValidTerminal(m)
  BY <1>0, <1>1 DEF ValidTerminal, Restricts
<1>3. PortsBound(m)
  BY <1>1, RestrictedCount DEF PortsBound
<1>4. ASSUME Cyclic(m) PROVE FALSE
  <2>1. PICK S \in (SUBSET Ids(m)) \ {{}} : \A id \in S :
          \E k \in DOMAIN m.bindings : m.bindings[k].to = id /\ m.bindings[k].from \in S
    BY <1>4 DEF Cyclic
  <2>2. \A x \in Ids(m) : x # Empty
    BY <1>1 DEF ValidNodes, Ids
  <2>3. S \in (SUBSET Ids(a)) \ {{}}
    BY <1>1
  <2>4. ASSUME NEW id \in S
        PROVE  \E k \in DOMAIN a.bindings : a.bindings[k].to = id /\ a.bindings[k].from \in S
    <3>1. PICK j \in DOMAIN m.bindings : m.bindings[j].to = id /\ m.bindings[j].from \in S
      BY <2>1
    <3>2. m.bindings[j] = a.bindings[pos[j]] /\ pos[j] \in DOMAIN a.bindings
      BY <2>2, <3>1 DEF Restricts
    <3> QED BY <3>1, <3>2
  <2> QED BY <2>3, <2>4 DEF Cyclic
<1> QED BY <1>1, <1>2, <1>3, <1>4

\* A selection that leaves out no source of a node it has.
Encloses(a, want) ==
    \A k \in DOMAIN a.bindings :
        (a.bindings[k].to \in want /\ a.bindings[k].from # Empty) => a.bindings[k].from \in want

LEMMA SelectionRestricts ==
    ASSUME NEW a \in AssemblyRecord, NEW include, include # << >>, NEW ins,
           ValidNodes(a), \A k \in DOMAIN a.bindings : ValidBinding(a, a.bindings[k], ins),
           Encloses(a, ToSet(include))
    PROVE  LET m == Materialize(a, include) IN
           \E pos : /\ Restricts(m, a, ToSet(include), pos)
                    /\ \A j \in DOMAIN m.bindings : m.bindings[j] = a.bindings[pos[j]]
<1> DEFINE m == Materialize(a, include)
           want == ToSet(include)
           S == {b \in ToSet(a.bindings) : b.to \in want /\ (b.input # Empty \/ b.from \in want)}
<1>1. m \in AssemblyRecord
  BY MaterializeMakes
<1>2. /\ m.id = a.id /\ m.terminal = a.terminal /\ m.nodes = IncludedNodes(a, want)
      /\ m.bindings = Select(a.bindings, S)
  BY DEF Materialize, IncludedBindings, AssemblyRecord
<1>3. a.bindings \in Seq(BindingRecord)
  BY AssemblyParts
<1>4. PICK pos : Places(Select(a.bindings, S), a.bindings, S, pos)
  <2> HIDE DEF S
  <2> QED BY <1>3, SelectPlaces
<1>5. ASSUME NEW k \in DOMAIN a.bindings PROVE a.bindings[k] \in S <=> a.bindings[k].to \in want
  <2>1. a.bindings[k] \in ToSet(a.bindings)
    BY DEF ToSet
  <2>2. ASSUME a.bindings[k].to \in want, a.bindings[k].input = Empty
        PROVE  a.bindings[k].from \in want
    <3>1. a.bindings[k].from \in Ids(a)
      BY <2>2 DEF ValidBinding, ValidUpstream
    <3>2. a.bindings[k].from # Empty
      BY <3>1 DEF ValidNodes, Ids
    <3> QED BY <2>2, <3>2 DEF Encloses
  <2> QED BY <2>1, <2>2
<1> HIDE DEF m, want, S
<1>6. /\ pos \in [DOMAIN m.bindings -> DOMAIN a.bindings]
      /\ \A j \in DOMAIN m.bindings : m.bindings[j] = a.bindings[pos[j]] /\ a.bindings[pos[j]].to \in want
      /\ \A i, j \in DOMAIN m.bindings : pos[i] = pos[j] => i = j
      /\ \A k \in DOMAIN a.bindings : a.bindings[k].to \in want => \E j \in DOMAIN m.bindings : pos[j] = k
  BY <1>2, <1>4, <1>5 DEF Places
<1>7. Restricts(m, a, want, pos)
  BY <1>1, <1>2, <1>6 DEF Restricts
<1> QED BY <1>6, <1>7 DEF m, want

\* An enclosed selection of a valid assembly is valid.
LEMMA SelectionValid ==
    ASSUME NEW a \in AssemblyRecord, NEW include, NEW ins, Valid(a, ins),
           MayInclude(a, include), Encloses(a, ToSet(include))
    PROVE  Valid(Materialize(a, include), ins)
<1> DEFINE m == Materialize(a, include)
           want == ToSet(include)
<1>0. WellTyped(a, ins) /\ ~Cyclic(a)
  BY ValidMeans
<1>1. CASE include = << >>
  BY <1>1 DEF Materialize
<1>2. CASE include # << >>
  <2>1. PICK pos : /\ Restricts(m, a, want, pos)
                   /\ \A j \in DOMAIN m.bindings : m.bindings[j] = a.bindings[pos[j]]
    BY <1>0, <1>2, SelectionRestricts DEF WellTyped
  <2>2. a.terminal.node \in want /\ a.terminal.node \in Ids(a)
    BY <1>0, <1>2 DEF MayInclude, WellTyped, ValidTerminal
  <2> HIDE DEF m, want
  <2>3. ValidNodes(m) /\ ValidTerminal(m) /\ PortsBound(m) /\ ~Cyclic(m) /\ m \in AssemblyRecord
    <3>1. ValidNodes(a) /\ ValidTerminal(a) /\ PortsBound(a)
      BY <1>0 DEF WellTyped
    <3>2. m \in AssemblyRecord
      BY <2>1 DEF Restricts
    <3> QED BY <1>0, <2>1, <2>2, <3>1, <3>2, RestrictedValid
  <2>4. Ids(m) = Ids(a) \cap want /\ \A id \in Ids(m) : Capability(m, id) = Capability(a, id)
    BY <1>0, <2>1, <2>2, RestrictedNodes DEF WellTyped
  <2>5. ASSUME NEW j \in DOMAIN m.bindings PROVE ValidBinding(m, m.bindings[j], ins)
    <3> DEFINE b == m.bindings[j]
    <3>1. pos[j] \in DOMAIN a.bindings /\ b = a.bindings[pos[j]] /\ b.to \in want
      BY <2>1 DEF Restricts
    <3>2. ValidBinding(a, b, ins)
      BY <1>0, <3>1 DEF WellTyped
    <3>3. b.from \in Ids(a) => b.from \in want
      BY <1>0, <3>1 DEF Encloses, WellTyped, ValidNodes, Ids, want
    <3> HIDE DEF b
    <3>4. b.to \in Ids(m) /\ Capability(m, b.to) = Capability(a, b.to)
      BY <2>4, <3>1, <3>2 DEF ValidBinding
    <3>5. ASSUME NEW target, ValidUpstream(a, b, target) PROVE ValidUpstream(m, b, target)
      BY <2>4, <3>3, <3>5 DEF ValidUpstream
    <3>6. ValidBinding(m, b, ins)
      BY <3>2, <3>4, <3>5 DEF ValidBinding
    <3> QED BY <3>6 DEF b
  <2>6. WellTyped(m, ins)
    BY <1>0, <2>3, <2>5 DEF WellTyped
  <2>7. Valid(m, ins)
    BY <2>3, <2>6, ValidMeans
  <2> QED BY <2>7 DEF m
<1> QED BY <1>1, <1>2

\* include_nodes never makes a good assembly bad, whatever the assembly: a selection with the
\* terminal and all that feeds it is refused only if the whole assembly would be.
THEOREM SelectionsSound == CutSpec => []SelectionSound
<1>1. Acceptance => SelectionSound
  <2> SUFFICES ASSUME Acceptance, state = "REFUSED", request.plan.kind = "NONE",
                      MayInclude(request.assembly, request.include),
                      Valid(request.assembly, request.inputs),
                      Encloses(request.assembly, ToSet(request.include))
               PROVE  FALSE
    BY DEF SelectionSound, Encloses
  <2>1. request.assembly \in AssemblyRecord
    BY RequestAssumption DEF Acceptance, RunTyped
  <2>2. Selects /\ Requested = Materialize(request.assembly, request.include)
    BY DEF Selects, Requested
  <2>3. ~Valid(Requested, request.inputs)
    BY <2>2 DEF Acceptance
  <2> QED BY <2>1, <2>2, <2>3, SelectionValid
<1> QED BY <1>1, AcceptanceHolds, PTL

-----------------------------------------------------------------------------
(* The breadth-first walk of the cut. *)

LEMMA SourceOf ==
    ASSUME NEW a, NEW S, NEW x
    PROVE  x \in Sources(a, S) <=>
             x # Empty /\ \E k \in DOMAIN a.bindings : a.bindings[k].to \in S /\ a.bindings[k].from = x
BY DEF Sources

SourceClosed(a, S) == Sources(a, S) \subseteq S

\* The sources of all bindings are no more than the bindings.
LEMMA SourcesFinite ==
    ASSUME NEW a \in AssemblyRecord
    PROVE  LET all == {a.bindings[k].from : k \in DOMAIN a.bindings} IN
           IsFiniteSet(all) /\ Cardinality(all) \in Nat /\ Cardinality(all) <= Len(a.bindings)
<1> DEFINE all == {a.bindings[k].from : k \in DOMAIN a.bindings}
           f == [k \in DOMAIN a.bindings |-> a.bindings[k].from]
<1>1. Len(a.bindings) \in Nat /\ DOMAIN a.bindings = 1..Len(a.bindings)
  BY AssemblyParts
<1>2. IsFiniteSet(DOMAIN a.bindings) /\ Cardinality(DOMAIN a.bindings) = Len(a.bindings)
  BY <1>1, FS_Interval
<1>3. f \in Surjection(DOMAIN a.bindings, all)
  BY DEF Surjection
<1> HIDE DEF f, all
<1>4. IsFiniteSet(all) /\ Cardinality(all) <= Cardinality(DOMAIN a.bindings)
  BY <1>2, <1>3, FS_Surjection
<1>5. IsFiniteSet(all) /\ Cardinality(all) \in Nat /\ Cardinality(all) <= Len(a.bindings)
  BY <1>2, <1>4, FS_CardinalityType
<1> QED BY <1>5 DEF all

\* The rounds of the walk.
Rounds(at, a, S) ==
    /\ at[0] = S
    /\ \A d \in Nat : d # 0 => at[d] = at[d - 1] \cup Sources(a, at[d - 1])
    /\ WithPredecessors(a, S) = at[Len(a.bindings)]

LEMMA WalkRounds ==
    ASSUME NEW a \in AssemblyRecord, NEW S
    PROVE  \E at : Rounds(at, a, S)
<1> DEFINE U == S \cup {a.bindings[k].from : k \in DOMAIN a.bindings}
           T == SUBSET U
           by == [ks \in Nat \X T |-> ks[2] \cup Sources(a, ks[2])]
<1>1. \A X : Sources(a, X) \subseteq U
  BY SourceOf
<1>2. \A X \in T : X \cup Sources(a, X) \in T
  <2> HIDE DEF U
  <2> QED BY <1>1
<1>3. S \in T
  OBVIOUS
<1> HIDE DEF T
<1>4. by \in Steps(Nat, T) /\ \A k \in Nat, X \in T : by[<<k, X>>] = X \cup Sources(a, X)
  BY <1>2 DEF Steps
<1> HIDE DEF by
<1>5. PICK h : Solves(h, T, S, by)
  BY <1>3, <1>4, Recursion
<1>6. h \in [Nat -> T] /\ h = [k \in Nat |-> IF k = 0 THEN S ELSE by[<<k, h[k - 1]>>]]
  BY <1>5 DEF Solves
<1>7. h = [round \in Nat |-> IF round = 0 THEN S
                              ELSE LET found == h[round - 1] IN found \cup Sources(a, found)]
  <2>1. ASSUME NEW k \in Nat
        PROVE  h[k] = IF k = 0 THEN S ELSE h[k - 1] \cup Sources(a, h[k - 1])
    <3>1. CASE k = 0
      BY <1>6, <3>1
    <3>2. CASE k # 0
      <4>1. k - 1 \in Nat /\ h[k - 1] \in T
        BY <1>6, <3>2
      <4>2. h[k] = by[<<k, h[k - 1]>>]
        BY <1>6, <3>2
      <4> QED BY <1>4, <3>2, <4>1, <4>2
    <3> QED BY <3>1, <3>2
  <2>2. h = [k \in Nat |-> h[k]]
    BY <1>6
  <2> QED BY <2>1, <2>2
<1> DEFINE at == CHOOSE f : f = [round \in Nat |->
                    IF round = 0 THEN S
                    ELSE LET found == f[round - 1] IN found \cup Sources(a, found)]
<1>8. at = [round \in Nat |-> IF round = 0 THEN S
                              ELSE LET found == at[round - 1] IN found \cup Sources(a, found)]
  BY <1>7
<1>9. WithPredecessors(a, S) = at[Len(a.bindings)]
  BY DEF WithPredecessors
<1> HIDE DEF at
<1>10. at[0] = S /\ \A d \in Nat : d # 0 => at[d] = at[d - 1] \cup Sources(a, at[d - 1])
  BY <1>8
<1> QED BY <1>9, <1>10 DEF Rounds

\* After as many rounds as there are bindings the walk has found everything: each round before
\* either finds a new source or is the last.
LEMMA WalkCloses ==
    ASSUME NEW a \in AssemblyRecord, NEW S
    PROVE  LET W == WithPredecessors(a, S) IN
           /\ S \subseteq W /\ SourceClosed(a, W)
           /\ \A X : S \subseteq X /\ SourceClosed(a, X) => W \subseteq X
<1>0. PICK at : Rounds(at, a, S)
  BY WalkRounds
<1> DEFINE L == Len(a.bindings)
           all == {a.bindings[k].from : k \in DOMAIN a.bindings}
<1>1. L \in Nat /\ IsFiniteSet(all) /\ Cardinality(all) \in Nat /\ Cardinality(all) <= L
  BY AssemblyParts, SourcesFinite
<1>2. /\ at[0] = S /\ WithPredecessors(a, S) = at[L]
      /\ \A d \in Nat : d # 0 => at[d] = at[d - 1] \cup Sources(a, at[d - 1])
  BY <1>0 DEF Rounds
<1>3. \A X : Sources(a, X) \subseteq all
  BY SourceOf
<1> HIDE DEF L, all
<1> DEFINE Good(d) == /\ S \subseteq at[d] /\ at[d] \ S \subseteq all
                      /\ SourceClosed(a, at[d]) \/ Cardinality(at[d] \ S) >= d
<1>4. \A d \in Nat : Good(d)
  <2> DEFINE Bad == {d \in Nat : ~Good(d)}
  <2> SUFFICES ASSUME Bad # {} PROVE FALSE
    OBVIOUS
  <2>1. PICK d \in Bad : \A e \in Bad : d <= e
    <3>1. Bad \subseteq Nat
      OBVIOUS
    <3> HIDE DEF Bad
    <3> QED BY <3>1, Least
  <2>2. d \in Nat /\ ~Good(d)
    OBVIOUS
  <2>3. d # 0
    <3>1. at[0] \ S = {} /\ Cardinality({}) = 0
      BY <1>2, FS_EmptySet
    <3>2. Good(0)
      BY <1>2, <3>1
    <3> QED BY <2>2, <3>2
  <2>4. d - 1 \in Nat /\ d - 1 \notin Bad
    <3> HIDE DEF Bad
    <3> QED BY <2>1, <2>2, <2>3
  <2>5. Good(d - 1)
    BY <2>4
  <2> DEFINE old == at[d - 1]
             new == at[d]
  <2>6. new = old \cup Sources(a, old)
    BY <1>2, <2>2, <2>3
  <2>7. S \subseteq old /\ old \ S \subseteq all /\ (SourceClosed(a, old) \/ Cardinality(old \ S) >= d - 1)
    BY <2>5
  <2> HIDE DEF old, new, Good
  <2>8. S \subseteq new /\ new \ S \subseteq all
    BY <1>3, <2>6, <2>7
  <2>9. SourceClosed(a, new) \/ Cardinality(new \ S) >= d
    <3>1. CASE SourceClosed(a, old)
      BY <2>6, <3>1 DEF SourceClosed
    <3>2. CASE ~SourceClosed(a, old)
      <4>1. old \ S \subseteq new \ S /\ old \ S # new \ S
        BY <2>6, <2>7, <3>2 DEF SourceClosed
      <4>2. IsFiniteSet(new \ S)
        BY <1>1, <2>8, FS_Subset
      <4>3. /\ Cardinality(old \ S) < Cardinality(new \ S)
            /\ Cardinality(old \ S) \in Nat /\ Cardinality(new \ S) \in Nat
        BY <4>1, <4>2, FS_Subset, FS_CardinalityType
      <4> QED BY <2>2, <2>7, <3>2, <4>3
    <3> QED BY <3>1, <3>2
  <2> QED BY <2>2, <2>8, <2>9 DEF new, Good
<1>5. S \subseteq at[L] /\ SourceClosed(a, at[L])
  <2>1. Good(L)
    BY <1>1, <1>4
  <2>2. ASSUME Cardinality(at[L] \ S) >= L PROVE SourceClosed(a, at[L])
    <3> DEFINE new == at[L] \ S
    <3>1. new \subseteq all /\ Cardinality(new) >= L
      BY <2>1, <2>2
    <3> HIDE DEF new
    <3>2. IsFiniteSet(new) /\ Cardinality(new) \in Nat
      BY <1>1, <3>1, FS_Subset, FS_CardinalityType
    <3>3. Cardinality(new) <= Cardinality(all) /\ (Cardinality(all) = Cardinality(new) => all = new)
      BY <1>1, <3>1, FS_Subset
    <3>4. new = all
      BY <1>1, <3>1, <3>2, <3>3
    <3> QED BY <1>3, <3>4 DEF SourceClosed, new
  <2> QED BY <2>1, <2>2
<1> HIDE DEF Good
<1>6. ASSUME NEW X, S \subseteq X, SourceClosed(a, X) PROVE at[L] \subseteq X
  <2> DEFINE Bad == {d \in Nat : ~(at[d] \subseteq X)}
  <2>0. Bad = {}
    <3> SUFFICES ASSUME Bad # {} PROVE FALSE
      OBVIOUS
    <3>1. PICK d \in Bad : \A e \in Bad : d <= e
      <4>1. Bad \subseteq Nat
        OBVIOUS
      <4> HIDE DEF Bad
      <4> QED BY <4>1, Least
    <3>2. d \in Nat /\ ~(at[d] \subseteq X)
      OBVIOUS
    <3>3. d # 0
      BY <1>2, <1>6, <3>2
    <3>4. d - 1 \in Nat /\ d - 1 \notin Bad
      <4> HIDE DEF Bad
      <4> QED BY <3>1, <3>2, <3>3
    <3>5. at[d - 1] \subseteq X
      BY <3>4
    <3>6. at[d] = at[d - 1] \cup Sources(a, at[d - 1])
      BY <1>2, <3>2, <3>3
    <3>7. Sources(a, at[d - 1]) \subseteq Sources(a, X)
      BY <3>5, SourceOf
    <3> QED BY <1>6, <3>2, <3>5, <3>6, <3>7 DEF SourceClosed
  <2> QED BY <1>1, <2>0
<1> QED BY <1>2, <1>5, <1>6

\* In an assembly whose sources are its nodes, the walk finds what is upstream.
LEMMA WalkIsUpstream ==
    ASSUME NEW a \in AssemblyRecord, NEW id \in Ids(a), SourceClosed(a, Ids(a))
    PROVE  WithPredecessors(a, {id}) = Upstream(a, id)
<1> DEFINE W == WithPredecessors(a, {id})
<1>1. /\ {id} \subseteq W /\ SourceClosed(a, W)
      /\ \A X : {id} \subseteq X /\ SourceClosed(a, X) => W \subseteq X
  BY WalkCloses
<1> HIDE DEF W
<1>2. W \subseteq Ids(a)
  BY <1>1
<1>3. ASSUME NEW n \in W PROVE n \in Upstream(a, id)
  BY <1>1, <1>2 DEF Upstream, SourceClosed
<1>4. ASSUME NEW n \in Upstream(a, id) PROVE n \in W
  BY <1>1, <1>2 DEF Upstream, SourceClosed
<1> QED BY <1>3, <1>4 DEF W

-----------------------------------------------------------------------------
(* Resuming. *)

\* The bindings of a cut assembly: those to kept nodes, with seeds for what crosses the cut.
SeedsAt(m, a, kept, pos) ==
    \A j \in DOMAIN m.bindings :
        m.bindings[j] = IF CrossesCut(a.bindings[pos[j]], kept) THEN Seeded(a.bindings[pos[j]])
                        ELSE a.bindings[pos[j]]

LEMMA SeededParts ==
    ASSUME NEW b \in BindingRecord
    PROVE  /\ Seeded(b).to = b.to /\ Seeded(b).toPort = b.toPort
           /\ Seeded(b).from = Empty /\ Seeded(b).fromPort = Empty
           /\ Seeded(b).input = SeedInputName(b.from, b.fromPort)
BY DEF Seeded, BindingRecord

LEMMA CutRestricts ==
    ASSUME NEW a \in AssemblyRecord, NEW plan, ~IsWhole(a, plan)
    PROVE  \E pos : /\ Restricts(MaterializeCut(a, plan), a, Kept(a, plan), pos)
                    /\ SeedsAt(MaterializeCut(a, plan), a, Kept(a, plan), pos)
<1> DEFINE kept == Kept(a, plan)
           m == MaterializeCut(a, plan)
           down == KeptBindings(a, kept)
           S == {b \in ToSet(a.bindings) : b.to \in kept}
<1>1. m \in AssemblyRecord
  BY MaterializeCutMakes
<1>2. /\ m.id = a.id /\ m.terminal = a.terminal /\ m.nodes = IncludedNodes(a, kept)
      /\ m.bindings = [k \in DOMAIN down |->
                        IF CrossesCut(down[k], kept) THEN Seeded(down[k]) ELSE down[k]]
  BY DEF MaterializeCut, AssemblyRecord
<1>3. a.bindings \in Seq(BindingRecord) /\ \A k \in DOMAIN a.bindings : a.bindings[k] \in BindingRecord
  BY AssemblyParts
<1>4. PICK pos : Places(down, a.bindings, S, pos)
  <2>1. down = Select(a.bindings, S)
    BY DEF KeptBindings
  <2> HIDE DEF S, down
  <2> QED BY <1>3, <2>1, SelectPlaces
<1>5. \A k \in DOMAIN a.bindings : a.bindings[k] \in S <=> a.bindings[k].to \in kept
  BY DEF ToSet
<1> HIDE DEF m, down, S
<1>6. /\ DOMAIN m.bindings = DOMAIN down
      /\ pos \in [DOMAIN m.bindings -> DOMAIN a.bindings]
      /\ \A j \in DOMAIN m.bindings : down[j] = a.bindings[pos[j]] /\ a.bindings[pos[j]].to \in kept
      /\ \A i, j \in DOMAIN m.bindings : pos[i] = pos[j] => i = j
      /\ \A k \in DOMAIN a.bindings : a.bindings[k].to \in kept => \E j \in DOMAIN m.bindings : pos[j] = k
  BY <1>2, <1>4, <1>5 DEF Places
<1>7. SeedsAt(m, a, kept, pos)
  BY <1>2, <1>6 DEF SeedsAt
<1>8. ASSUME NEW j \in DOMAIN m.bindings
      PROVE  /\ m.bindings[j].to = a.bindings[pos[j]].to
             /\ m.bindings[j].toPort = a.bindings[pos[j]].toPort
             /\ m.bindings[j] = a.bindings[pos[j]] \/ m.bindings[j].from = Empty
  <2>1. a.bindings[pos[j]] \in BindingRecord
    BY <1>3, <1>6
  <2> QED BY <1>7, <2>1, SeededParts DEF SeedsAt
<1>9. Restricts(m, a, kept, pos)
  BY <1>1, <1>2, <1>6, <1>8 DEF Restricts
<1> QED BY <1>7, <1>9 DEF m

\* The sources of an accepted assembly are its nodes.
LEMMA SourcesAreNodes ==
    ASSUME NEW a, NEW ins, Accepted(a, ins)
    PROVE  /\ SourceClosed(a, Ids(a)) /\ Empty \notin Ids(a)
           /\ \A k \in DOMAIN a.bindings :
                IF a.bindings[k].input = Empty THEN a.bindings[k].from \in Ids(a)
                ELSE a.bindings[k].from = Empty
<1>1. Empty \notin Ids(a)
  BY DEF Accepted, ValidNodes, Ids
<1>2. \A k \in DOMAIN a.bindings :
        IF a.bindings[k].input = Empty THEN a.bindings[k].from \in Ids(a)
        ELSE a.bindings[k].from = Empty
  BY DEF Accepted, Bound, ValidUpstream
<1>3. SourceClosed(a, Ids(a))
  BY <1>2, SourceOf DEF SourceClosed
<1> QED BY <1>1, <1>2, <1>3

\* What is cut off when a run is resumed after a node.
LEMMA CutOff ==
    ASSUME NEW a, NEW ins, Accepted(a, ins), NEW id \in Ids(a)
    PROVE  /\ id \in Upstream(a, id) /\ Upstream(a, id) \subseteq Ids(a)
           /\ SourceClosed(a, Upstream(a, id))
           /\ WithPredecessors(a, ToSet(After(id).ids)) = Upstream(a, id)
           /\ Kept(a, After(id)) = Ids(a) \ Upstream(a, id)
           /\ ~IsWhole(a, After(id))
           /\ Skipped(a, After(id)) = Upstream(a, id)
<1>0. a \in AssemblyRecord /\ SourceClosed(a, Ids(a))
  BY SourcesAreNodes DEF Accepted
<1>1. WithPredecessors(a, {id}) = Upstream(a, id)
  BY <1>0, WalkIsUpstream
<1>2. {id} \subseteq Upstream(a, id) /\ SourceClosed(a, Upstream(a, id)) /\ Upstream(a, id) \subseteq Ids(a)
  <2>1. {id} \subseteq Upstream(a, id) /\ SourceClosed(a, Upstream(a, id))
    BY <1>0, <1>1, WalkCloses
  <2> QED BY <2>1 DEF Upstream
<1>3. After(id).kind = "AFTER" /\ ToSet(After(id).ids) = {id}
  <2>1. After(id).kind = "AFTER" /\ After(id).ids = <<id>>
    BY DEF After
  <2>2. ToSet(<<id>>) = {id}
    BY DEF ToSet
  <2> QED BY <2>1, <2>2
<1>4. Kept(a, After(id)) = Ids(a) \ Upstream(a, id)
  BY <1>1, <1>3 DEF Kept
<1> DEFINE kept == Ids(a) \ Upstream(a, id)
<1>5. ~IsWhole(a, After(id))
  <2>1. /\ IsFiniteSet(Ids(a)) /\ Cardinality(Ids(a)) \in Nat /\ Cardinality(Ids(a)) <= Len(a.nodes)
        /\ Len(a.nodes) \in Nat
    BY <1>0, IdsFinite, AssemblyParts
  <2>2. kept \subseteq Ids(a) /\ kept # Ids(a)
    BY <1>2
  <2> HIDE DEF kept
  <2>3. /\ Cardinality(kept) <= Cardinality(Ids(a)) /\ Cardinality(kept) # Cardinality(Ids(a))
        /\ Cardinality(kept) \in Nat
    BY <2>1, <2>2, FS_Subset, FS_CardinalityType
  <2>4. Cardinality(Kept(a, After(id))) # Len(a.nodes)
    BY <1>4, <2>1, <2>3 DEF kept
  <2> QED BY <1>3, <2>4 DEF IsWhole
<1>6. Skipped(a, After(id)) = Upstream(a, id)
  BY <1>2, <1>4, <1>5 DEF Skipped
<1> QED BY <1>1, <1>2, <1>3, <1>4, <1>5, <1>6

\* A step that resumes.
LEMMA Resumption ==
    ASSUME Acceptance, CutNext, resumes' # resumes
    PROVE  \E id \in Ids(assembly) :
             LET kept == Kept(assembly, After(id))
                 ins == MergeInputs(OwnInputs, SeedsFromRun(Skipped(assembly, After(id))))
             IN  /\ state \in Started /\ Accepted(assembly, inputs) /\ answer'.after = id
                 /\ Skipped(assembly, After(id)) \subseteq DOMAIN produced
                 /\ assembly.terminal.node \in kept
                 /\ Valid(MaterializeCut(assembly, After(id)), ins)
                 /\ assembly' = MaterializeCut(assembly, After(id)) /\ inputs' = ins /\ produced' = << >>
                 /\ announced' = announced \cup {<<resumes', n>> : n \in Skipped(assembly, After(id))}
<1>1. PICK id \in Ids(request.assembly) : ResumeAfter(id)
  BY DEF CutNext, StartRun, StartPipeline, RunStep
<1> DEFINE kept == Kept(assembly, After(id))
           ins == MergeInputs(OwnInputs, SeedsFromRun(Skipped(assembly, After(id))))
<1>2. state \in Started
  BY <1>1 DEF ResumeAfter, Acceptance, RunTyped
<1>3. Accepted(assembly, inputs)
  BY <1>2 DEF Acceptance
<1>4. /\ MayCut(assembly, After(id)) /\ Skipped(assembly, After(id)) \subseteq DOMAIN produced
      /\ PipelineStarts(assembly, ins, After(id), resumes + 1)
      /\ resumes' = resumes + 1 /\ answer' = [after |-> id, ok |-> TRUE]
  BY <1>1 DEF ResumeAfter
<1> HIDE DEF ins
<1>5. /\ MayStart(MaterializeCut(assembly, After(id)), << >>, ins)
      /\ Freeze(MaterializeCut(assembly, After(id)), << >>, ins)
      /\ announced' = announced \cup {<<resumes', n>> : n \in Skipped(assembly, After(id))}
  BY <1>4 DEF PipelineStarts, EmitSkipEvents
<1>6. /\ assembly' = MaterializeCut(assembly, After(id)) /\ inputs' = ins /\ produced' = << >>
      /\ Valid(MaterializeCut(assembly, After(id)), ins)
  BY <1>5, WholeStarts DEF Freeze, Materialize
<1>7. id \in Ids(assembly) /\ assembly.terminal.node \in kept
  <2>1. /\ After(id).kind = "AFTER" /\ ToSet(After(id).ids) = {id}
    <3>1. After(id).kind = "AFTER" /\ After(id).ids = <<id>>
      BY DEF After
    <3>2. ToSet(<<id>>) = {id}
      BY DEF ToSet
    <3> QED BY <3>1, <3>2
  <2>2. /\ {id} \subseteq Ids(assembly) /\ assembly.terminal.node \in Ids(assembly)
        /\ assembly.terminal.node \notin WithPredecessors(assembly, {id})
    BY <1>4, <2>1 DEF MayCut, MayKeep
  <2>3. kept = Ids(assembly) \ WithPredecessors(assembly, {id})
    BY <2>1 DEF Kept
  <2> QED BY <2>2, <2>3
<1> QED BY <1>2, <1>3, <1>4, <1>5, <1>6, <1>7 DEF ins

\* A resumed run does all that was not done before the node and nothing else, whatever the
\* assembly: the rounds of transitive_predecessors find the least set that is closed under
\* feeding, and what materialize_cut leaves has no source outside.
THEOREM ResumesTheRest == CutSpec => ResumeRunsTheRest
<1>1. ASSUME Acceptance, [CutNext]_cvars, resumes' # resumes
      PROVE  /\ Ids(assembly') = Ids(assembly) \ Upstream(assembly, answer'.after)
             /\ Sources(assembly', Ids(assembly')) \subseteq Ids(assembly')
             /\ \A n \in Ids(assembly) \ Ids(assembly') : <<resumes', n>> \in announced'
  <2>0. CutNext
    BY <1>1 DEF cvars
  <2>1. PICK id \in Ids(assembly) :
          /\ Accepted(assembly, inputs) /\ answer'.after = id
          /\ assembly.terminal.node \in Kept(assembly, After(id))
          /\ assembly' = MaterializeCut(assembly, After(id))
          /\ announced' = announced \cup
                {<<resumes', n>> : n \in Skipped(assembly, After(id))}
    BY <1>1, <2>0, Resumption
  <2> DEFINE kept == Kept(assembly, After(id))
             m == MaterializeCut(assembly, After(id))
  <2>2. /\ kept = Ids(assembly) \ Upstream(assembly, id) /\ ~IsWhole(assembly, After(id))
        /\ Skipped(assembly, After(id)) = Upstream(assembly, id)
    BY <2>1, CutOff
  <2>3. assembly \in AssemblyRecord
    BY <2>1 DEF Accepted
  <2>4. PICK pos : Restricts(m, assembly, kept, pos) /\ SeedsAt(m, assembly, kept, pos)
    BY <2>2, <2>3, CutRestricts
  <2>a. assembly' = m /\ assembly.terminal.node \in kept
    BY <2>1
  <2> HIDE DEF m, kept
  <2>5. Ids(m) = Ids(assembly) \cap kept
    BY <2>a, <2>1, <2>3, <2>4, RestrictedNodes DEF Accepted, ValidTerminal
  <2>6. Ids(m) = kept /\ kept \subseteq Ids(assembly)
    BY <2>2, <2>5
  <2>7. ASSUME NEW j \in DOMAIN m.bindings, m.bindings[j].from # Empty
        PROVE  m.bindings[j].from \in kept
    <3> DEFINE b == assembly.bindings[pos[j]]
    <3>1. pos[j] \in DOMAIN assembly.bindings
      BY <2>4 DEF Restricts
    <3>2. b \in BindingRecord
      BY <2>3, <3>1, AssemblyParts
    <3>3. ~CrossesCut(b, kept) /\ m.bindings[j] = b
      BY <2>4, <2>7, <3>2, SeededParts DEF SeedsAt
    <3>4. b.from # Empty => b.input = Empty
      BY <2>1, <3>1, SourcesAreNodes
    <3> QED BY <2>7, <3>3, <3>4 DEF CrossesCut
  <2>8. Sources(m, Ids(m)) \subseteq Ids(m)
    BY <2>6, <2>7, SourceOf
  <2>9. \A n \in Ids(assembly) \ Ids(m) : <<resumes', n>> \in announced'
    BY <2>1, <2>2, <2>6 DEF kept
  <2> QED BY <2>a, <2>1, <2>2, <2>6, <2>8, <2>9
<1>2. Acceptance /\ [CutNext]_cvars =>
        [resumes' # resumes =>
            /\ Ids(assembly') = Ids(assembly) \ Upstream(assembly, answer'.after)
            /\ Sources(assembly', Ids(assembly')) \subseteq Ids(assembly')
            /\ \A n \in Ids(assembly) \ Ids(assembly') : <<resumes', n>> \in announced']_cvars
  BY <1>1
<1> QED BY <1>2, AcceptanceHolds, PTL DEF CutSpec, ResumeRunsTheRest

-----------------------------------------------------------------------------
(* Seeds. *)

\* Names of which seed_input_name makes no two alike: no node id has a "/" in it, and no
\* binding of a requested assembly is spelled as a seed.
PlainNames ==
    \A r \in Request :
        /\ \A k \in DOMAIN r.assembly.nodes : Len(r.assembly.nodes[k].id) <= 1
        /\ \A k \in DOMAIN r.assembly.bindings :
            /\ Len(r.assembly.bindings[k].from) <= 1
            /\ ~IsSeedInputName(r.assembly.bindings[k].input)

LEMMA Joined ==
    ASSUME NEW E, NEW r \in Seq(E), NEW n \in Seq(E), NEW p \in Seq(E), Len(r) = 1, Len(n) = 1
    PROVE  /\ (r \o n) \o p \in Seq(E)
           /\ Len((r \o n) \o p) = 2 + Len(p)
           /\ ((r \o n) \o p)[1] = r[1] /\ ((r \o n) \o p)[2] = n[1]
           /\ \A i \in 1..Len(p) : ((r \o n) \o p)[i + 2] = p[i]
<1>1. PICK q : q = r \o n
  OBVIOUS
<1>2. /\ q \in Seq(E) /\ Len(q) = 2
      /\ \A i \in 1..2 : q[i] = IF i <= 1 THEN r[i] ELSE n[i - 1]
  <2>1. /\ q \in Seq(E) /\ Len(q) = Len(r) + Len(n)
        /\ \A i \in 1..(Len(r) + Len(n)) : q[i] = IF i <= Len(r) THEN r[i] ELSE n[i - Len(r)]
    BY <1>1, ConcatProperties
  <2>2. Len(r) + Len(n) = 2
    OBVIOUS
  <2> QED BY <2>1, <2>2
<1>3. q[1] = r[1] /\ q[2] = n[1]
  BY <1>2
<1>4. PICK s : s = q \o p
  OBVIOUS
<1>5. /\ s \in Seq(E) /\ Len(s) = 2 + Len(p)
      /\ \A i \in 1..(2 + Len(p)) : s[i] = IF i <= 2 THEN q[i] ELSE p[i - 2]
  <2>1. /\ s \in Seq(E) /\ Len(s) = Len(q) + Len(p)
        /\ \A i \in 1..(Len(q) + Len(p)) : s[i] = IF i <= Len(q) THEN q[i] ELSE p[i - Len(q)]
    BY <1>2, <1>4, ConcatProperties
  <2> QED BY <1>2, <2>1
<1>6. Len(p) \in Nat
  OBVIOUS
<1>7. s[1] = r[1] /\ s[2] = n[1]
  BY <1>3, <1>5, <1>6
<1>8. ASSUME NEW i \in 1..Len(p) PROVE s[i + 2] = p[i]
  <2>1. i + 2 \in 1..(2 + Len(p)) /\ ~(i + 2 <= 2) /\ (i + 2) - 2 = i
    BY <1>6
  <2> QED BY <1>5, <2>1
<1> QED BY <1>1, <1>4, <1>5, <1>7, <1>8

\* A seed name is its own kind of name, and tells the port.
LEMMA SeedNameParts ==
    ASSUME NEW n \in Text, Len(n) = 1, NEW p \in Text
    PROVE  LET s == SeedInputName(n, p) IN
           /\ s \in Text /\ Len(s) = 2 + Len(p) /\ s[2] = n[1]
           /\ \A i \in 1..Len(p) : s[i + 2] = p[i]
           /\ IsSeedInputName(s) /\ s # Empty
<1>1. PICK pre : pre = SeedInputPrefix
  OBVIOUS
<1>2. pre \in Seq(STRING) /\ n \in Seq(STRING) /\ p \in Seq(STRING) /\ Len(p) \in Nat
  BY <1>1, SeedPrefixAssumption DEF Text
<1>3. Len(pre) = 1
  BY <1>1 DEF SeedInputPrefix
<1>4. PICK s : s = SeedInputName(n, p)
  OBVIOUS
<1>5. s = (pre \o n) \o p
  BY <1>1, <1>4 DEF SeedInputName
<1>6. /\ s \in Seq(STRING) /\ Len(s) = 2 + Len(p) /\ s[1] = pre[1] /\ s[2] = n[1]
      /\ \A i \in 1..Len(p) : s[i + 2] = p[i]
  BY <1>2, <1>3, <1>5, Joined
<1>7. Len(s) > 1 /\ s # << >>
  BY <1>2, <1>6
<1>8. IsPrefix(pre, s)
  <2>1. SubSeq(pre, 1, 1) = SubSeq(s, 1, 1)
    BY <1>2, <1>3, <1>6, <1>7
  <2> QED BY <1>3, <1>7, <2>1 DEF IsPrefix
<1> QED BY <1>1, <1>4, <1>6, <1>7, <1>8 DEF IsSeedInputName, Text, Empty

LEMMA SeedNamesDiffer ==
    ASSUME NEW n \in Text, Len(n) = 1, NEW p \in Text, NEW o \in Text, Len(o) = 1, NEW q \in Text,
           SeedInputName(n, p) = SeedInputName(o, q)
    PROVE  n = o /\ p = q
<1> DEFINE s == SeedInputName(n, p)
           t == SeedInputName(o, q)
<1>1. Len(s) = 2 + Len(p) /\ s[2] = n[1] /\ \A i \in 1..Len(p) : s[i + 2] = p[i]
  BY SeedNameParts
<1>2. Len(t) = 2 + Len(q) /\ t[2] = o[1] /\ \A i \in 1..Len(q) : t[i + 2] = q[i]
  BY SeedNameParts
<1>3. s = t
  OBVIOUS
<1> HIDE DEF s, t
<1>4. /\ n \in Seq(STRING) /\ o \in Seq(STRING) /\ p \in Seq(STRING) /\ q \in Seq(STRING)
  BY DEF Text
<1>5. n[1] = o[1] /\ Len(p) = Len(q) /\ \A i \in 1..Len(p) : p[i] = q[i]
  BY <1>1, <1>2, <1>3, <1>4
<1>6. n = o
  <2>1. n = [i \in 1..1 |-> n[i]] /\ o = [i \in 1..1 |-> o[i]]
    BY <1>4
  <2>2. \A i \in 1..1 : n[i] = o[i]
    BY <1>5
  <2> QED BY <2>1, <2>2
<1>7. p = q
  <2>1. p = [i \in 1..Len(p) |-> p[i]] /\ q = [i \in 1..Len(q) |-> q[i]]
    BY <1>4
  <2> QED BY <1>5, <2>1
<1> QED BY <1>6, <1>7

\* What PlainNames makes of an assembly and of all that is cut from it: a seed in it is never
\* one of a node it has.
Plain(a) ==
    /\ \A id \in Ids(a) : Len(id) <= 1
    /\ \A k \in DOMAIN a.bindings :
        /\ Len(a.bindings[k].from) <= 1
        /\ \A id \in Ids(a) \ {Empty}, port \in Text : a.bindings[k].input # SeedInputName(id, port)

LEMMA IdsAreText ==
    ASSUME NEW a \in AssemblyRecord
    PROVE  \A id \in Ids(a) : id \in Text
BY AssemblyParts DEF Ids, NodeRecord

LEMMA OnePart ==
    ASSUME NEW id \in Text, Len(id) <= 1, id # Empty
    PROVE  Len(id) = 1
<1>1. id \in Seq(STRING) /\ id # << >>
  BY DEF Text, Empty
<1>2. PICK n : n = Len(id)
  OBVIOUS
<1>3. n \in Nat /\ n # 0 /\ n <= 1
  BY <1>1, <1>2
<1>4. n = 1
  BY <1>3
<1> QED BY <1>2, <1>4

LEMMA PlainRequest ==
    ASSUME PlainNames, NEW r \in Request
    PROVE  Plain(r.assembly)
<1>1. r.assembly \in AssemblyRecord
  BY RequestAssumption
<1>2. \A id \in Ids(r.assembly) : Len(id) <= 1
  BY DEF PlainNames, Ids
<1>3. ASSUME NEW k \in DOMAIN r.assembly.bindings, NEW id \in Ids(r.assembly) \ {Empty}, NEW port \in Text
      PROVE  r.assembly.bindings[k].input # SeedInputName(id, port)
  <2>1. id \in Text /\ Len(id) = 1
    BY <1>1, <1>2, IdsAreText, OnePart
  <2>2. IsSeedInputName(SeedInputName(id, port))
    BY <2>1, SeedNameParts
  <2> QED BY <2>2 DEF PlainNames
<1>4. \A k \in DOMAIN r.assembly.bindings : Len(r.assembly.bindings[k].from) <= 1
  BY DEF PlainNames
<1> QED BY <1>2, <1>3, <1>4 DEF Plain

LEMMA IncludedIds ==
    ASSUME NEW a \in AssemblyRecord, NEW m, NEW kept, m.nodes = IncludedNodes(a, kept)
    PROVE  Ids(m) \subseteq Ids(a) /\ Ids(m) \subseteq kept
<1> DEFINE S == {n \in ToSet(a.nodes) : n.id \in kept}
<1>1. a.nodes \in Seq(NodeRecord) /\ m.nodes = Select(a.nodes, S)
  BY AssemblyParts DEF IncludedNodes
<1>2. \A k \in DOMAIN m.nodes : m.nodes[k] \in S /\ \E j \in DOMAIN a.nodes : a.nodes[j] = m.nodes[k]
  <2> HIDE DEF S
  <2> QED BY <1>1, SelectMembers
<1>3. \A k \in DOMAIN m.nodes : m.nodes[k].id \in kept /\ \E j \in DOMAIN a.nodes : a.nodes[j].id = m.nodes[k].id
  BY <1>2
<1> QED BY <1>3 DEF Ids

LEMMA PlainSelection ==
    ASSUME NEW a \in AssemblyRecord, Plain(a), NEW include
    PROVE  Plain(Materialize(a, include))
<1> DEFINE m == Materialize(a, include)
           want == ToSet(include)
           S == {b \in ToSet(a.bindings) : b.to \in want /\ (b.input # Empty \/ b.from \in want)}
<1>1. CASE include = << >>
  BY <1>1 DEF Materialize
<1>2. CASE include # << >>
  <2>1. m.nodes = IncludedNodes(a, want) /\ m.bindings = Select(a.bindings, S)
    BY <1>2 DEF Materialize, IncludedBindings, AssemblyRecord
  <2>2. a.bindings \in Seq(BindingRecord)
    BY AssemblyParts
  <2> HIDE DEF m, want, S
  <2>3. \A k \in DOMAIN m.bindings : \E j \in DOMAIN a.bindings : a.bindings[j] = m.bindings[k]
    BY <2>1, <2>2, SelectMembers
  <2>4. Ids(m) \subseteq Ids(a)
    BY <2>1, IncludedIds
  <2>5. Plain(m)
    BY <2>3, <2>4 DEF Plain
  <2> QED BY <2>5 DEF m
<1> QED BY <1>1, <1>2

LEMMA PlainCut ==
    ASSUME NEW a \in AssemblyRecord, Plain(a), NEW plan, MayCut(a, plan)
    PROVE  Plain(MaterializeCut(a, plan))
<1> DEFINE kept == Kept(a, plan)
           m == MaterializeCut(a, plan)
<1>1. CASE IsWhole(a, plan)
  BY <1>1 DEF MaterializeCut
<1>2. CASE ~IsWhole(a, plan)
  <2>1. PICK pos : Restricts(m, a, kept, pos) /\ SeedsAt(m, a, kept, pos)
    BY <1>2, CutRestricts
  <2>2. \A b \in ToSet(KeptBindings(a, kept)) : b.input # Empty \/ b.from # Empty
    BY <1>2 DEF MayCut
  <2>3. ASSUME NEW k \in DOMAIN a.bindings, a.bindings[k].to \in kept
        PROVE  a.bindings[k].input # Empty \/ a.bindings[k].from # Empty
    <3> DEFINE S == {b \in ToSet(a.bindings) : b.to \in kept}
    <3>1. a.bindings[k] \in S
      BY <2>3 DEF ToSet
    <3>2. a.bindings \in Seq(BindingRecord) /\ KeptBindings(a, kept) = Select(a.bindings, S)
      BY AssemblyParts DEF KeptBindings
    <3> HIDE DEF S
    <3>3. \E j \in DOMAIN KeptBindings(a, kept) : KeptBindings(a, kept)[j] = a.bindings[k]
      BY <3>1, <3>2, SelectMembers
    <3> QED BY <2>2, <3>3 DEF ToSet
  <2>4. Ids(m) \subseteq Ids(a) /\ Ids(m) \subseteq kept
    BY <2>1, IncludedIds DEF Restricts
  <2> HIDE DEF m, kept
  <2>5. \A id \in Ids(m) : Len(id) <= 1
    BY <2>4 DEF Plain
  <2>6. ASSUME NEW j \in DOMAIN m.bindings
        PROVE  /\ Len(m.bindings[j].from) <= 1
               /\ \A id \in Ids(m) \ {Empty}, port \in Text :
                    m.bindings[j].input # SeedInputName(id, port)
    <3> DEFINE b == a.bindings[pos[j]]
    <3>1. pos[j] \in DOMAIN a.bindings /\ b.to \in kept
      BY <2>1 DEF Restricts
    <3>2. b \in BindingRecord
      BY <3>1, AssemblyParts
    <3>3. CASE ~CrossesCut(b, kept)
      <4>1. m.bindings[j] = b
        BY <2>1, <3>3 DEF SeedsAt
      <4> QED BY <2>4, <3>1, <4>1 DEF Plain
    <3>4. CASE CrossesCut(b, kept)
      <4>1. m.bindings[j] = Seeded(b)
        BY <2>1, <3>4 DEF SeedsAt
      <4>2. m.bindings[j].from = Empty /\ m.bindings[j].input = SeedInputName(b.from, b.fromPort)
        BY <3>2, <4>1, SeededParts
      <4>3. b.from # Empty /\ b.from \notin kept
        BY <2>3, <3>1, <3>4 DEF CrossesCut
      <4>4. b.from \in Text /\ b.fromPort \in Text /\ Len(b.from) <= 1
        BY <3>1, <3>2 DEF BindingRecord, Plain
      <4> HIDE DEF b
      <4>5. Len(b.from) = 1
        BY <4>3, <4>4, OnePart
      <4>6. ASSUME NEW id \in Ids(m) \ {Empty}, NEW port \in Text,
                   m.bindings[j].input = SeedInputName(id, port)
            PROVE  FALSE
        <5>1. id \in Text /\ Len(id) = 1 /\ id \in kept
          BY <2>4, <2>5, IdsAreText, OnePart
        <5>2. id = b.from
          BY <4>2, <4>4, <4>5, <4>6, <5>1, SeedNamesDiffer
        <5> QED BY <4>3, <5>1, <5>2
      <4>7. Len(Empty) <= 1
        BY DEF Empty
      <4> QED BY <4>2, <4>6, <4>7
    <3> QED BY <3>3, <3>4
  <2>7. Plain(m)
    BY <2>5, <2>6 DEF Plain
  <2> QED BY <2>7 DEF m, kept
<1> QED BY <1>1, <1>2

\* The assemblies of all runs are plain.
Plainness == state \in Started => Plain(assembly)

LEMMA PlainNext ==
    ASSUME PlainNames
    PROVE  Acceptance /\ Plainness /\ [CutNext]_cvars => Plainness'
<1> SUFFICES ASSUME Acceptance, Plainness, [CutNext]_cvars, state' \in Started
             PROVE  Plain(assembly')
  BY DEF Plainness, Plain
<1>0. request \in Request /\ request.assembly \in AssemblyRecord /\ Plain(request.assembly)
  BY RequestAssumption, PlainRequest DEF Acceptance, RunTyped
<1>1. ASSUME NEW a \in AssemblyRecord, Plain(a), NEW ins, NEW plan, NEW number,
             PipelineStarts(a, ins, plan, number)
      PROVE  Plain(assembly')
  <2>1. MayCut(a, plan) /\ assembly' = MaterializeCut(a, plan)
    BY <1>1 DEF PipelineStarts, MayPrepare, Freeze, Materialize
  <2> QED BY <1>1, <2>1, PlainCut
<1>2. CASE StartRun
  <2>1. assembly' = Materialize(request.assembly, request.include)
    BY <1>2 DEF StartRun, Freeze, Refused, Started
  <2> QED BY <1>0, <2>1, PlainSelection
<1>3. CASE StartPipeline
  <2>1. PipelineStarts(request.assembly, request.inputs, request.plan, 0)
    BY <1>3 DEF StartPipeline, Refused, Started
  <2> QED BY <1>0, <1>1, <2>1
<1>4. CASE RunStep
  BY <1>4 DEF RunStep, CommitSome, InjectSome, Commit, InjectInput, Plainness, Started
<1>5. ASSUME NEW id, ResumeAfter(id) PROVE Plain(assembly')
  <2>1. state \in Started
    BY <1>5 DEF ResumeAfter, Acceptance, RunTyped
  <2>2. assembly \in AssemblyRecord /\ Plain(assembly)
    BY <2>1 DEF Acceptance, Accepted, Plainness
  <2> DEFINE ins == MergeInputs(OwnInputs, SeedsFromRun(Skipped(assembly, After(id))))
  <2>3. PipelineStarts(assembly, ins, After(id), resumes + 1) \/ assembly' = assembly
    BY <1>5 DEF ResumeAfter, run
  <2> HIDE DEF ins
  <2> QED BY <1>1, <2>2, <2>3
<1>6. CASE UNCHANGED cvars
  BY <1>6 DEF cvars, run, Plainness
<1> QED BY <1>2, <1>3, <1>4, <1>5, <1>6 DEF CutNext

\* Committed nodes and ports have proper names.
NamedNode(n) == n \in Text /\ Len(n) = 1 /\ \A p \in DOMAIN produced[n] : p \in Text

LEMMA ProducedNames ==
    ASSUME Closure, Plainness, state \in Started, NEW n \in DOMAIN produced
    PROVE  n \in Ids(assembly) /\ NamedNode(n)
<1>1. assembly \in AssemblyRecord /\ ValidNodes(assembly) /\ Empty \notin Ids(assembly)
  BY SourcesAreNodes DEF Closure, Acceptance, Accepted
<1>2. n \in Ids(assembly) /\ ValidOutputs(Capability(assembly, n).outputs, produced[n])
  BY DEF Closure, Closed
<1>3. n \in Text /\ Len(n) = 1
  BY <1>1, <1>2, IdsAreText, OnePart DEF Plainness, Plain
<1>4. PICK k \in DOMAIN assembly.nodes : assembly.nodes[k].id = n
  BY <1>2 DEF Ids
<1> DEFINE m == assembly.nodes[k].module
           outs == Provides[m][1].outputs
<1>5. m \in DOMAIN Provides /\ Len(Provides[m]) = 1 /\ Capability(assembly, n) = Provides[m][1]
  BY <1>1, <1>4, CapabilityOf
<1>6. Provides[m][1] \in [inputs : Seq(PortRecord), outputs : Seq(PortRecord)]
  <2>1. Provides[m] \in Seq([inputs : Seq(PortRecord), outputs : Seq(PortRecord)])
    BY <1>5, ProvidesAssumption
  <2>2. PICK list : list = Provides[m]
    OBVIOUS
  <2>3. PICK R : R = [inputs : Seq(PortRecord), outputs : Seq(PortRecord)]
    OBVIOUS
  <2>4. list \in Seq(R) /\ Len(list) = 1
    BY <1>5, <2>1, <2>2, <2>3
  <2>5. list[1] \in R
    <3>1. 1 \in 1..Len(list)
      BY <2>4
    <3> QED BY <2>4, <3>1, ElementOfSeq
  <2> QED BY <2>2, <2>3, <2>5
<1>7. \A j \in DOMAIN outs : outs[j].name \in Text
  <2>1. outs \in Seq(PortRecord)
    BY <1>6
  <2> HIDE DEF outs
  <2>2. \A j \in DOMAIN outs : outs[j] \in PortRecord
    BY <2>1
  <2> QED BY <2>2 DEF PortRecord
<1>8. \A p \in DOMAIN produced[n] : p \in Text
  BY <1>2, <1>5, <1>7 DEF ValidOutputs, HasPort
<1> QED BY <1>2, <1>3, <1>8 DEF NamedNode

\* What seeds_from_run collects.
LEMMA SeedsAre ==
    ASSUME NEW nodes, \A n \in nodes : NamedNode(n)
    PROVE  /\ \A name : name \in DOMAIN SeedsFromRun(nodes) <=>
                \E n \in nodes : \E p \in DOMAIN produced[n] : name = SeedInputName(n, p)
           /\ \A n \in nodes : \A p \in DOMAIN produced[n] :
                SeedsFromRun(nodes)[SeedInputName(n, p)] = produced[n][p]
<1> DEFINE ports == UNION {{<<n, p>> : p \in DOMAIN produced[n]} : n \in nodes}
           names == {SeedInputName(np[1], np[2]) : np \in ports}
           pick(name) == CHOOSE np \in ports : SeedInputName(np[1], np[2]) = name
<1>1. SeedsFromRun(nodes) = [name \in names |-> produced[pick(name)[1]][pick(name)[2]]]
  BY DEF SeedsFromRun
<1>2. \A np \in ports : \E n \in nodes : \E p \in DOMAIN produced[n] : np = <<n, p>>
  OBVIOUS
<1>3. \A n \in nodes : \A p \in DOMAIN produced[n] : <<n, p>> \in ports
  OBVIOUS
<1> HIDE DEF ports
<1>4. ASSUME NEW name
      PROVE  name \in names <=> \E n \in nodes : \E p \in DOMAIN produced[n] : name = SeedInputName(n, p)
  <2>1. ASSUME name \in names
        PROVE  \E n \in nodes : \E p \in DOMAIN produced[n] : name = SeedInputName(n, p)
    <3>1. PICK np \in ports : name = SeedInputName(np[1], np[2])
      BY <2>1
    <3>2. PICK n \in nodes : \E p \in DOMAIN produced[n] : np = <<n, p>>
      BY <1>2
    <3>3. PICK p \in DOMAIN produced[n] : np = <<n, p>>
      BY <3>2
    <3>4. np[1] = n /\ np[2] = p
      BY <3>3
    <3> QED BY <3>1, <3>4
  <2>2. ASSUME NEW n \in nodes, NEW p \in DOMAIN produced[n], name = SeedInputName(n, p)
        PROVE  name \in names
    <3>1. PICK np : np = <<n, p>>
      OBVIOUS
    <3>2. np \in ports /\ np[1] = n /\ np[2] = p
      BY <1>3, <3>1
    <3> QED BY <2>2, <3>2
  <2> QED BY <2>1, <2>2
<1>5. ASSUME NEW n \in nodes, NEW p \in DOMAIN produced[n]
      PROVE  pick(SeedInputName(n, p)) = <<n, p>>
  <2> DEFINE np == pick(SeedInputName(n, p))
  <2>1. <<n, p>> \in ports /\ <<n, p>>[1] = n /\ <<n, p>>[2] = p
    BY <1>3
  <2>2. np \in ports /\ SeedInputName(np[1], np[2]) = SeedInputName(n, p)
    BY <2>1
  <2> HIDE DEF np
  <2>3. PICK o \in nodes : \E q \in DOMAIN produced[o] : np = <<o, q>>
    BY <1>2, <2>2
  <2>4. PICK q \in DOMAIN produced[o] : np = <<o, q>>
    BY <2>3
  <2>5. SeedInputName(o, q) = SeedInputName(n, p)
    BY <2>2, <2>4
  <2>6. n \in Text /\ Len(n) = 1 /\ p \in Text /\ o \in Text /\ Len(o) = 1 /\ q \in Text
    BY DEF NamedNode
  <2>7. o = n /\ q = p
    BY <2>5, <2>6, SeedNamesDiffer
  <2> QED BY <2>4, <2>7 DEF np
<1> HIDE DEF names, pick
<1>6. DOMAIN SeedsFromRun(nodes) = names
  BY <1>1
<1>7. ASSUME NEW n \in nodes, NEW p \in DOMAIN produced[n]
      PROVE  SeedsFromRun(nodes)[SeedInputName(n, p)] = produced[n][p]
  <2>1. SeedInputName(n, p) \in names
    BY <1>4
  <2>2. pick(SeedInputName(n, p))[1] = n /\ pick(SeedInputName(n, p))[2] = p
    BY <1>5
  <2>3. SeedsFromRun(nodes)[SeedInputName(n, p)] =
            produced[pick(SeedInputName(n, p))[1]][pick(SeedInputName(n, p))[2]]
    BY <1>1, <2>1
  <2> QED BY <2>2, <2>3
<1> QED BY <1>4, <1>6, <1>7

\* The inputs a resumed run is started with.
ResumeInputs(nodes) == MergeInputs(OwnInputs, SeedsFromRun(nodes))

LEMMA ResumeInputsAre ==
    ASSUME NEW nodes, \A n \in nodes : NamedNode(n)
    PROVE  /\ \A n \in nodes : \A p \in DOMAIN produced[n] :
                /\ SeedInputName(n, p) \in DOMAIN ResumeInputs(nodes)
                /\ ResumeInputs(nodes)[SeedInputName(n, p)] = produced[n][p]
           /\ \A name \in DOMAIN ResumeInputs(nodes) :
                \/ \E n \in nodes : \E p \in DOMAIN produced[n] : name = SeedInputName(n, p)
                \/ /\ name \in DOMAIN inputs /\ ~IsSeedInputName(name)
                   /\ ResumeInputs(nodes)[name] = inputs[name]
           /\ \A name \in DOMAIN inputs : ~IsSeedInputName(name) =>
                name \in DOMAIN ResumeInputs(nodes) /\ ResumeInputs(nodes)[name] = inputs[name]
<1> DEFINE seeds == SeedsFromRun(nodes)
           ins == MergeInputs(OwnInputs, seeds)
<1>0. ResumeInputs(nodes) = ins
  BY DEF ResumeInputs
<1>1. /\ \A name : name \in DOMAIN seeds <=>
                \E n \in nodes : \E p \in DOMAIN produced[n] : name = SeedInputName(n, p)
      /\ \A n \in nodes : \A p \in DOMAIN produced[n] : seeds[SeedInputName(n, p)] = produced[n][p]
  BY SeedsAre
<1>2. /\ DOMAIN OwnInputs = {name \in DOMAIN inputs : ~IsSeedInputName(name)}
      /\ \A name \in DOMAIN OwnInputs : OwnInputs[name] = inputs[name]
  BY DEF OwnInputs
<1>3. /\ DOMAIN ins = DOMAIN OwnInputs \cup DOMAIN seeds
      /\ \A name \in DOMAIN ins :
            ins[name] = IF name \in DOMAIN seeds THEN seeds[name] ELSE OwnInputs[name]
  <2> HIDE DEF seeds
  <2> QED BY DEF MergeInputs
<1>4. \A name \in DOMAIN seeds : IsSeedInputName(name)
  BY <1>1, SeedNameParts DEF NamedNode
<1> HIDE DEF seeds, ins
<1>5. \A n \in nodes : \A p \in DOMAIN produced[n] :
        SeedInputName(n, p) \in DOMAIN ins /\ ins[SeedInputName(n, p)] = produced[n][p]
  BY <1>1, <1>3
<1>6. \A name \in DOMAIN ins :
        \/ \E n \in nodes : \E p \in DOMAIN produced[n] : name = SeedInputName(n, p)
        \/ name \in DOMAIN inputs /\ ~IsSeedInputName(name) /\ ins[name] = inputs[name]
  BY <1>1, <1>2, <1>3
<1>7. \A name \in DOMAIN inputs : ~IsSeedInputName(name) =>
        name \in DOMAIN ins /\ ins[name] = inputs[name]
  BY <1>2, <1>3, <1>4
<1> QED BY <1>0, <1>5, <1>6, <1>7

LEMMA PlainHolds ==
    ASSUME PlainNames
    PROVE  CutSpec => [](Closure /\ Plainness)
<1>1. CutInit => Plainness
  BY DEF CutInit, Init, Plainness, Started
<1>2. Closure /\ Plainness /\ [CutNext]_cvars => Plainness'
  BY PlainNext DEF Closure
<1> QED BY <1>1, <1>2, ClosureHolds, PTL DEF CutSpec

\* The binding of a kept node, in the cut assembly.
LEMMA KeptPlace ==
    ASSUME NEW a, NEW m, NEW kept, NEW pos, Restricts(m, a, kept, pos), SeedsAt(m, a, kept, pos),
           NEW k \in DOMAIN a.bindings, a.bindings[k].to \in kept
    PROVE  \E j \in DOMAIN m.bindings :
             m.bindings[j] = IF CrossesCut(a.bindings[k], kept) THEN Seeded(a.bindings[k])
                             ELSE a.bindings[k]
BY DEF Restricts, SeedsAt

\* A resumed run, when names are plain, gets on every port of every node what the prior run
\* delivered there: a seed is the very artifact the binding carried, and no seed takes the
\* place of an input.
THEOREM ResumptionDelivers ==
    ASSUME PlainNames
    PROVE  CutSpec => ResumeDelivers
<1> DEFINE Carried(b) ==
             \E c \in ToSet(assembly'.bindings) :
                /\ c.to = b.to /\ c.toPort = b.toPort /\ c.from = Empty
                /\ BindingResolves(c)'
                /\ inputs'[c.input] = Delivered(b)
<1>1. ASSUME Closure, Plainness, [CutNext]_cvars, resumes' # resumes,
             NEW b \in ToSet(assembly.bindings),
             b.to \in Ids(assembly'), b.from \notin Ids(assembly')
      PROVE  Carried(b)
  <2>0. CutNext /\ Acceptance
    BY <1>1 DEF cvars, Closure
  <2>1. PICK id \in Ids(assembly) :
          /\ state \in Started /\ Accepted(assembly, inputs)
          /\ Skipped(assembly, After(id)) \subseteq DOMAIN produced
          /\ assembly.terminal.node \in Kept(assembly, After(id))
          /\ Valid(assembly', inputs')
          /\ assembly' = MaterializeCut(assembly, After(id))
          /\ inputs' = ResumeInputs(Skipped(assembly, After(id)))
    BY <1>1, <2>0, Resumption DEF ResumeInputs
  <2> DEFINE kept == Kept(assembly, After(id))
             up == Skipped(assembly, After(id))
             m == MaterializeCut(assembly, After(id))
  <2>2. kept = Ids(assembly) \ up /\ ~IsWhole(assembly, After(id)) /\ up \subseteq Ids(assembly)
    BY <2>1, CutOff
  <2>3. assembly \in AssemblyRecord
    BY <2>1 DEF Accepted
  <2>4. PICK pos : Restricts(m, assembly, kept, pos) /\ SeedsAt(m, assembly, kept, pos)
    BY <2>2, <2>3, CutRestricts
  <2>5. assembly' = m /\ assembly.terminal.node \in kept /\ up \subseteq DOMAIN produced
        /\ inputs' = ResumeInputs(up) /\ Valid(m, inputs')
    BY <2>1
  <2>6. \A n \in up : NamedNode(n)
    BY <1>1, <2>1, <2>5, ProducedNames
  <2> HIDE DEF m, kept, up
  <2>7. Ids(m) = kept /\ m \in AssemblyRecord
    BY <2>1, <2>2, <2>3, <2>4, <2>5, RestrictedNodes DEF Accepted, ValidTerminal, Restricts
  <2>8. PICK k \in DOMAIN assembly.bindings : assembly.bindings[k] = b
    BY DEF ToSet
  <2>9. b.to \in kept /\ b.from \notin kept /\ b \in BindingRecord
    BY <1>1, <2>3, <2>5, <2>7, <2>8, AssemblyParts
  <2>10. PICK c : /\ \E j \in DOMAIN m.bindings : c = m.bindings[j]
                  /\ c = IF CrossesCut(b, kept) THEN Seeded(b) ELSE b
    BY <2>4, <2>8, <2>9, KeptPlace
  <2>11. Bound(m, c, inputs') /\ c \in ToSet(assembly'.bindings)
    BY <2>5, <2>7, <2>10, ValidIsAccepted DEF Accepted, ToSet
  <2>12. c.input # Empty => BindingResolves(c)'
    BY <2>11 DEF Bound, BindingResolves
  <2>13. CASE b.input # Empty
    <3>1. c = b /\ b.from = Empty
      BY <2>1, <2>8, <2>10, <2>13, SourcesAreNodes DEF CrossesCut
    <3>2. b.input \in DOMAIN ResumeInputs(up)
      BY <2>5, <2>11, <2>13, <3>1 DEF Bound
    <3>3. \A n \in up : \A p \in DOMAIN produced[n] : b.input # SeedInputName(n, p)
      <4>1. ASSUME NEW n \in up, NEW p \in DOMAIN produced[n] PROVE b.input # SeedInputName(n, p)
        <5>1. n \in Ids(assembly) \ {Empty} /\ p \in Text
          BY <2>1, <2>2, <2>6, SourcesAreNodes DEF NamedNode
        <5>2. Plain(assembly)
          BY <1>1, <2>1 DEF Plainness
        <5> QED BY <2>8, <5>1, <5>2 DEF Plain
      <4> QED BY <4>1
    <3>4. ResumeInputs(up)[b.input] = inputs[b.input]
      BY <2>6, <3>2, <3>3, ResumeInputsAre
    <3> QED BY <2>5, <2>11, <2>12, <2>13, <3>1, <3>4 DEF Delivered
  <2>14. CASE b.input = Empty
    <3>1. CrossesCut(b, kept) /\ c = Seeded(b) /\ b.from \in up
      BY <2>1, <2>2, <2>8, <2>9, <2>10, <2>14, SourcesAreNodes DEF CrossesCut
    <3>2. /\ c.to = b.to /\ c.toPort = b.toPort /\ c.from = Empty
          /\ c.input = SeedInputName(b.from, b.fromPort)
      BY <2>9, <3>1, SeededParts
    <3>3. b.from \in Text /\ Len(b.from) = 1 /\ b.fromPort \in Text
      BY <2>6, <2>9, <3>1 DEF NamedNode, BindingRecord
    <3>4. IsSeedInputName(c.input) /\ c.input # Empty
      BY <3>2, <3>3, SeedNameParts
    <3>5. c.input \in DOMAIN ResumeInputs(up)
      BY <2>5, <2>11, <3>4 DEF Bound
    <3>6. PICK n \in up : \E p \in DOMAIN produced[n] : c.input = SeedInputName(n, p)
      BY <2>6, <3>4, <3>5, ResumeInputsAre
    <3>7. PICK p \in DOMAIN produced[n] : c.input = SeedInputName(n, p)
      BY <3>6
    <3>8. n = b.from /\ p = b.fromPort
      <4>1. n \in Text /\ Len(n) = 1 /\ p \in Text
        BY <2>6 DEF NamedNode
      <4>2. SeedInputName(n, p) = SeedInputName(b.from, b.fromPort)
        BY <3>2, <3>7
      <4> QED BY <3>3, <4>1, <4>2, SeedNamesDiffer
    <3>9. ResumeInputs(up)[c.input] = produced[b.from][b.fromPort]
      BY <2>6, <3>7, <3>8, ResumeInputsAre
    <3> QED BY <2>5, <2>11, <2>12, <2>14, <3>2, <3>4, <3>9 DEF Delivered
  <2> QED BY <2>13, <2>14
<1>2. Closure /\ Plainness /\ [CutNext]_cvars =>
        [resumes' # resumes =>
            \A b \in {b \in ToSet(assembly.bindings) :
                        b.to \in Ids(assembly') /\ b.from \notin Ids(assembly')} :
                \E c \in ToSet(assembly'.bindings) :
                    /\ c.to = b.to /\ c.toPort = b.toPort /\ c.from = Empty
                    /\ BindingResolves(c)'
                    /\ inputs'[c.input] = Delivered(b)]_cvars
  BY <1>1
<1> QED BY <1>2, PlainHolds, PTL DEF CutSpec, ResumeDelivers

\* No seed in the assembly of the present run.
Uncut == \A b \in ToSet(assembly.bindings) : ~IsSeedInputName(b.input)

\* All that feeds a committed node has committed.
LEMMA UpstreamProduced ==
    ASSUME Closure, state \in Started, NEW id \in DOMAIN produced
    PROVE  id \in Ids(assembly) /\ Upstream(assembly, id) \subseteq DOMAIN produced
<1>1. Accepted(assembly, inputs) /\ Closed
  BY DEF Closure, Acceptance
<1>2. DOMAIN produced \subseteq Ids(assembly)
  BY <1>1 DEF Closed
<1>3. Sources(assembly, DOMAIN produced) \subseteq DOMAIN produced
  <2>1. ASSUME NEW k \in DOMAIN assembly.bindings, assembly.bindings[k].to \in DOMAIN produced,
               assembly.bindings[k].from # Empty
        PROVE  assembly.bindings[k].from \in DOMAIN produced
    <3>1. BindingResolves(assembly.bindings[k])
      BY <1>1, <2>1 DEF Closed
    <3>2. assembly.bindings[k].input = Empty
      BY <1>1, <2>1, SourcesAreNodes
    <3> QED BY <3>1, <3>2 DEF BindingResolves
  <2> QED BY <2>1, SourceOf
<1> QED BY <1>2, <1>3 DEF Upstream

\* The cut of an uncut run after a resumable node is valid over what resume_after collects.
LEMMA ResumedValid ==
    ASSUME Closure, Coverage, Plainness, state \in Started, Uncut, NEW id, Resumable(id)
    PROVE  LET kept == Kept(assembly, After(id))
               ins == ResumeInputs(Upstream(assembly, id))
           IN  /\ MayCut(assembly, After(id)) /\ MayPrepare(assembly, ins, After(id))
               /\ Valid(MaterializeCut(assembly, After(id)), ins)
<1> DEFINE kept == Kept(assembly, After(id))
           up == Upstream(assembly, id)
           ins == ResumeInputs(up)
           m == MaterializeCut(assembly, After(id))
<1>1. Accepted(assembly, inputs) /\ Closed /\ assembly \in AssemblyRecord
  BY DEF Closure, Acceptance, Accepted
<1>2. /\ id \in Ids(assembly) /\ up \subseteq DOMAIN produced
      /\ assembly.terminal.node \notin up
      /\ \A k \in DOMAIN assembly.bindings :
            (assembly.bindings[k].from \in up /\ assembly.bindings[k].to \notin up)
                => BindingResolves(assembly.bindings[k])
  BY UpstreamProduced DEF Resumable, ToSet
<1>3. /\ id \in up /\ up \subseteq Ids(assembly)
      /\ WithPredecessors(assembly, ToSet(After(id).ids)) = up
      /\ kept = Ids(assembly) \ up /\ ~IsWhole(assembly, After(id))
  BY <1>1, <1>2, CutOff
<1>4. \A n \in up : NamedNode(n)
  BY <1>2, ProducedNames
<1>5. /\ assembly.terminal.node \in kept /\ assembly.nodes # << >>
      /\ assembly.terminal.node \in Ids(assembly)
  BY <1>1, <1>2, <1>3 DEF Accepted, ValidTerminal, ValidNodes
<1>6. PICK pos : Restricts(m, assembly, kept, pos) /\ SeedsAt(m, assembly, kept, pos)
  BY <1>1, <1>3, CutRestricts
<1>7. \A k \in DOMAIN assembly.bindings :
        /\ assembly.bindings[k] \in BindingRecord
        /\ IF assembly.bindings[k].input = Empty THEN assembly.bindings[k].from \in Ids(assembly)
           ELSE assembly.bindings[k].from = Empty
        /\ ~IsSeedInputName(assembly.bindings[k].input)
  BY <1>1, AssemblyParts, SourcesAreNodes DEF Uncut, ToSet
<1>8. Empty \notin Ids(assembly)
  BY <1>1, SourcesAreNodes
<1>9. \A b \in ToSet(KeptBindings(assembly, kept)) :
        \E k \in DOMAIN assembly.bindings : assembly.bindings[k] = b /\ b.to \in kept
  <2> DEFINE S == {b \in ToSet(assembly.bindings) : b.to \in kept}
  <2>1. assembly.bindings \in Seq(BindingRecord) /\ KeptBindings(assembly, kept) = Select(assembly.bindings, S)
    BY <1>1, AssemblyParts DEF KeptBindings
  <2>2. \A b \in S : b.to \in kept
    OBVIOUS
  <2> HIDE DEF S
  <2>3. \A j \in DOMAIN Select(assembly.bindings, S) :
          /\ Select(assembly.bindings, S)[j] \in S
          /\ \E k \in DOMAIN assembly.bindings : assembly.bindings[k] = Select(assembly.bindings, S)[j]
    BY <2>1, SelectMembers
  <2> QED BY <2>1, <2>2, <2>3 DEF ToSet
\* What crosses the cut was delivered: it is a seed.
<1>10. ASSUME NEW k \in DOMAIN assembly.bindings, assembly.bindings[k].to \in kept,
              CrossesCut(assembly.bindings[k], kept)
       PROVE  LET b == assembly.bindings[k] IN
              /\ BindingResolves(b) /\ b.from \in up
              /\ SeedInputName(b.from, b.fromPort) \in DOMAIN ins
              /\ ins[SeedInputName(b.from, b.fromPort)] = Delivered(b)
              /\ SeedInputName(b.from, b.fromPort) # Empty
  <2> DEFINE b == assembly.bindings[k]
  <2>1. b.input = Empty /\ b.from \in up /\ b.to \notin up /\ b \in BindingRecord
    BY <1>3, <1>7, <1>10 DEF CrossesCut
  <2>2. BindingResolves(b)
    BY <1>2, <2>1
  <2>3. b.from \in up /\ b.fromPort \in DOMAIN produced[b.from] /\ Delivered(b) = produced[b.from][b.fromPort]
    BY <2>1, <2>2 DEF BindingResolves, Delivered
  <2>4. NamedNode(b.from)
    BY <1>4, <2>3
  <2> HIDE DEF b, up
  <2>5. /\ SeedInputName(b.from, b.fromPort) \in DOMAIN ins
        /\ ins[SeedInputName(b.from, b.fromPort)] = produced[b.from][b.fromPort]
    BY <1>4, <2>3, ResumeInputsAre
  <2>6. SeedInputName(b.from, b.fromPort) # Empty
    BY <2>3, <2>4, SeedNameParts DEF NamedNode
  <2> QED BY <2>2, <2>3, <2>5, <2>6 DEF b
<1>11. MayCut(assembly, After(id)) /\ MayPrepare(assembly, ins, After(id))
  <2>1. After(id).kind = "AFTER" /\ ToSet(After(id).ids) = {id}
    <3>1. After(id).kind = "AFTER" /\ After(id).ids = <<id>>
      BY DEF After
    <3>2. ToSet(<<id>>) = {id}
      BY DEF ToSet
    <3> QED BY <3>1, <3>2
  <2>2. MayKeep(assembly, After(id))
    BY <1>2, <1>3, <1>5, <2>1 DEF MayKeep
  <2>3. \A b \in ToSet(KeptBindings(assembly, kept)) : b.input # Empty \/ b.from # Empty
    BY <1>7, <1>8, <1>9
  <2>4. MayCut(assembly, After(id))
    BY <2>2, <2>3 DEF MayCut
  <2>5. RequiredSeeds(assembly, After(id)) \subseteq DOMAIN ins
    <3>1. ASSUME NEW b \in ToSet(KeptBindings(assembly, kept)), CrossesCut(b, kept)
          PROVE  SeedInputName(b.from, b.fromPort) \in DOMAIN ins
      BY <1>9, <1>10, <3>1
    <3>2. \A s \in RequiredSeeds(assembly, After(id)) :
            \E b \in ToSet(KeptBindings(assembly, kept)) :
                CrossesCut(b, kept) /\ s = SeedInputName(b.from, b.fromPort)
      BY <1>3 DEF RequiredSeeds
    <3> HIDE DEF kept, ins
    <3> QED BY <3>1, <3>2
  <2> QED BY <2>1, <2>4, <2>5 DEF MayPrepare, ValidateSeedsPresent
<1> HIDE DEF m, kept, ins, up
<1>12. ValidNodes(m) /\ ValidTerminal(m) /\ PortsBound(m) /\ ~Cyclic(m) /\ m \in AssemblyRecord
  <2>1. ValidNodes(assembly) /\ ValidTerminal(assembly) /\ PortsBound(assembly) /\ ~Cyclic(assembly)
    BY <1>1 DEF Accepted
  <2>2. m \in AssemblyRecord
    BY <1>6 DEF Restricts
  <2> QED BY <1>1, <1>5, <1>6, <2>1, <2>2, RestrictedValid
<1>13. Ids(m) = kept /\ \A x \in kept : Capability(m, x) = Capability(assembly, x)
  <2>1. Ids(m) = Ids(assembly) \cap kept /\ \A x \in Ids(m) : Capability(m, x) = Capability(assembly, x)
    BY <1>1, <1>5, <1>6, RestrictedNodes DEF Accepted
  <2> QED BY <1>3, <2>1
<1>14. Empty \notin DOMAIN ins
  <2>1. Empty \notin DOMAIN inputs
    BY <1>1 DEF Accepted
  <2>2. \A n \in up : \A p \in DOMAIN produced[n] : SeedInputName(n, p) # Empty
    BY <1>4, SeedNameParts DEF NamedNode
  <2> QED BY <1>4, <2>1, <2>2, ResumeInputsAre DEF ins
<1>15. ASSUME NEW j \in DOMAIN m.bindings PROVE ValidBinding(m, m.bindings[j], ins)
  <2> DEFINE b == assembly.bindings[pos[j]]
             target == Port(Capability(assembly, b.to).inputs, b.toPort)
  <2>1. pos[j] \in DOMAIN assembly.bindings /\ b.to \in kept
    BY <1>6 DEF Restricts
  <2>2. PICK c : c = m.bindings[j]
    OBVIOUS
  <2>3. c = IF CrossesCut(b, kept) THEN Seeded(b) ELSE b
    BY <1>6, <2>2 DEF SeedsAt
  <2>4. /\ b \in BindingRecord /\ Bound(assembly, b, inputs)
        /\ IF b.input = Empty THEN b.from \in Ids(assembly) ELSE b.from = Empty
        /\ ~IsSeedInputName(b.input)
    BY <1>1, <1>7, <2>1 DEF Accepted
  <2>5. c.to = b.to /\ c.toPort = b.toPort
    BY <2>3, <2>4, SeededParts
  <2>6. /\ c.to \in Ids(m) /\ HasPort(Capability(m, c.to).inputs, c.toPort)
        /\ Port(Capability(m, c.to).inputs, c.toPort) = target
    BY <1>13, <2>1, <2>4, <2>5 DEF Bound
  <2>7. CASE CrossesCut(b, kept)
    <3>1. /\ c.from = Empty /\ c.fromPort = Empty /\ c.input = SeedInputName(b.from, b.fromPort)
      BY <2>3, <2>4, <2>7, SeededParts
    <3>2. BindingResolves(b) /\ c.input \in DOMAIN ins /\ ins[c.input] = Delivered(b) /\ c.input # Empty
      BY <1>10, <2>1, <2>7, <3>1
    <3>3. target.traits \subseteq ins[c.input]
      BY <2>1, <2>7, <3>2, UpstreamCovers DEF CrossesCut
    <3> HIDE DEF target, b
    <3>4. ValidBinding(m, c, ins)
      BY <2>6, <3>1, <3>2, <3>3 DEF ValidBinding, ValidExternal, TraitSetCovers
    <3> QED BY <2>2, <3>4
  <2>8. CASE ~CrossesCut(b, kept) /\ b.input # Empty
    <3>1. c = b /\ b.from = Empty /\ b.fromPort = Empty /\ b.input \in DOMAIN inputs
      BY <2>3, <2>4, <2>8 DEF Bound
    <3>2. b.input \in DOMAIN ins /\ ins[b.input] = inputs[b.input]
      BY <1>4, <2>4, <3>1, ResumeInputsAre DEF ins
    <3>3. target.traits \subseteq inputs[b.input]
      BY <2>1, <2>8 DEF Coverage, InputsCover
    <3> HIDE DEF target, b
    <3>4. ValidBinding(m, c, ins)
      BY <2>6, <2>8, <3>1, <3>2, <3>3 DEF ValidBinding, ValidExternal, TraitSetCovers
    <3> QED BY <2>2, <3>4
  <2>9. CASE ~CrossesCut(b, kept) /\ b.input = Empty
    <3>1. c = b /\ b.from \in kept /\ b.from # Empty
      BY <1>8, <2>3, <2>4, <2>9 DEF CrossesCut
    <3>2. ValidUpstream(assembly, b, target)
      BY <2>4, <2>9 DEF Bound
    <3> HIDE DEF target, b
    <3>3. ValidUpstream(m, b, target)
      BY <1>13, <3>1, <3>2 DEF ValidUpstream
    <3>4. ValidBinding(m, c, ins)
      BY <2>6, <2>9, <3>1, <3>3 DEF ValidBinding
    <3> QED BY <2>2, <3>4
  <2> QED BY <2>7, <2>8, <2>9
<1>16. Valid(m, ins)
  BY <1>12, <1>14, <1>15, ValidMeans DEF WellTyped
<1> QED BY <1>11, <1>16 DEF m, kept, ins, up

\* The inductive invariant of answers: there is none before the first run, and a refusal is of a
\* node that the run, as it still is, cannot be resumed after.
Answered ==
    /\ state \notin Started => answer = NoAnswer
    /\ ~answer.ok => state \in Started /\ (Uncut => ~Resumable(answer.after))

LEMMA ResumableResumes ==
    ASSUME Closure, Coverage, Plainness, state \in Started, Uncut, NEW id, Resumable(id),
           ResumeAfter(id)
    PROVE  answer' = [after |-> id, ok |-> TRUE]
<1> DEFINE kept == Kept(assembly, After(id))
           up == Upstream(assembly, id)
           ins == ResumeInputs(up)
<1>1. /\ MayCut(assembly, After(id)) /\ MayPrepare(assembly, ins, After(id))
      /\ MayStart(MaterializeCut(assembly, After(id)), << >>, ins)
  BY ResumedValid, WholeStarts
<1>2. id \in Ids(assembly) /\ up \subseteq DOMAIN produced
  BY UpstreamProduced DEF Resumable
<1>3. Skipped(assembly, After(id)) = up
  BY <1>2, CutOff DEF Closure, Acceptance
<1>4. ~PipelineRefused(assembly, ins, After(id), resumes + 1)
  BY <1>1 DEF PipelineRefused
<1>5. MergeInputs(OwnInputs, SeedsFromRun(Skipped(assembly, After(id)))) = ins
  BY <1>3 DEF ResumeInputs
<1> HIDE DEF up, ins
<1> QED BY <1>1, <1>2, <1>3, <1>4, <1>5 DEF ResumeAfter

LEMMA AnsweredNext ==
    Closure /\ Coverage /\ Plainness /\ Answered /\ [CutNext]_cvars => Answered'
<1> SUFFICES ASSUME Closure, Coverage, Plainness, Answered, [CutNext]_cvars PROVE Answered'
  OBVIOUS
<1>0. NoAnswer.ok = TRUE
  BY DEF NoAnswer
<1>1. CASE StartRun \/ StartPipeline
  <2>1. state = "NONE" /\ answer' = answer
    BY <1>1 DEF StartRun, StartPipeline
  <2>2. answer = NoAnswer
    BY <2>1 DEF Answered, Started
  <2> QED BY <1>0, <2>1, <2>2 DEF Answered
<1>2. CASE RunStep
  BY <1>0, <1>2 DEF RunStep, Answered
<1>3. ASSUME NEW id, ResumeAfter(id) PROVE Answered'
  <2>1. state \in Started
    BY <1>3 DEF ResumeAfter, Closure, Acceptance, RunTyped
  <2>2. CASE answer' = [after |-> id, ok |-> TRUE]
    <3>1. state' \in Started
      <4>1. state' = "RUNNING" \/ state' = state
        BY <1>3 DEF ResumeAfter, PipelineStarts, Freeze, run
      <4> QED BY <2>1, <4>1 DEF Started
    <3> QED BY <2>2, <3>1 DEF Answered
  <2>3. CASE answer' # [after |-> id, ok |-> TRUE]
    <3>1. answer' = [after |-> id, ok |-> FALSE] /\ UNCHANGED run
      BY <1>3, <2>3 DEF ResumeAfter
    <3>2. UNCHANGED <<state, assembly, inputs, produced>>
      BY <3>1 DEF run
    <3>3. Uncut => ~Resumable(id)
      BY <1>3, <2>1, <2>3, ResumableResumes
    <3>4. (Uncut <=> Uncut') /\ (Resumable(id) <=> Resumable(id)')
      BY <3>2 DEF Uncut, Resumable, BindingResolves
    <3>5. answer'.after = id
      BY <3>1
    <3>6. ~Resumable(answer.after)' <=> ~Resumable(id)'
      BY <3>5 DEF Resumable, BindingResolves
    <3> QED BY <2>1, <3>2, <3>3, <3>4, <3>6 DEF Answered
  <2> QED BY <2>2, <2>3
<1>4. CASE UNCHANGED cvars
  <2>1. UNCHANGED <<state, assembly, inputs, produced, answer>>
    BY <1>4 DEF cvars, run
  <2> QED BY <2>1 DEF Answered, Uncut, Resumable, BindingResolves
<1> QED BY <1>1, <1>2, <1>3, <1>4 DEF CutNext

\* A run whose assembly has no seed in it can be resumed after every node that committed, with
\* the answer still to come: every binding across the cut has its seed, with the traits the
\* port requires, and what is left of the assembly is valid.
THEOREM UncutResumptionAccepted ==
    ASSUME PlainNames, InjectedCover
    PROVE  CutSpec => []UncutResumeAccepted
<1>1. CutInit => Answered
  BY DEF CutInit, Init, Answered, NoAnswer, Started
<1>2. Closure /\ Coverage /\ Plainness /\ Answered /\ [CutNext]_cvars => Answered'
  BY AnsweredNext
<1>3. Answered => UncutResumeAccepted
  BY DEF Answered, UncutResumeAccepted, Uncut
<1> QED BY <1>1, <1>2, <1>3, PlainHolds, CoverageHolds, PTL DEF CutSpec
=============================================================================
