-------------------------- MODULE SelectionProofs --------------------------
(***************************************************************************)
(* Induction and recursion over the positions of a sequence, and lemmas    *)
(* about what is selected from one, for every sequence and every set of    *)
(* its positions.  Positions are numbers, so every induction that is       *)
(* needed goes by the least number with a property.                        *)
(***************************************************************************)
EXTENDS Selection, Integers, WellFoundedInduction, TLAPS

\* Every set of natural numbers that is not empty has a least element.
LEMMA Least ==
    ASSUME NEW T \in SUBSET Nat, T # {}
    PROVE  \E m \in T : \A k \in T : m <= k
<1> DEFINE R == OpToRel(<, Nat)
<1>1. IsWellFoundedOn(R, Nat)
  BY NatLessThanWellFounded
<1>2. \A k, n \in Nat : k < n => <<k, n>> \in R
  BY DEF OpToRel
<1> HIDE DEF R
<1>3. PICK m \in T : \A k \in T : ~ (<<k, m>> \in R)
  BY <1>1, WFMin
<1>4. \A k \in T : k \in Nat /\ m \in Nat /\ ~ (k < m)
  BY <1>2, <1>3
<1> QED
  BY <1>4

\* A set of numbers that has 0, and with a number below N the next one, has N.
LEMMA ByInduction ==
    ASSUME NEW N \in Nat, NEW S, 0 \in S, \A n \in 0 .. N - 1 : n \in S => n + 1 \in S
    PROVE  N \in S
<1> SUFFICES ASSUME N \notin S PROVE FALSE
  OBVIOUS
<1> DEFINE T == {n \in 0 .. N : n \notin S}
<1>1. T \in SUBSET Nat /\ T # {}
  OBVIOUS
<1>2. PICK m \in T : \A k \in T : m <= k
  BY <1>1, Least
<1>3. m # 0 /\ m - 1 \in 0 .. N - 1
  BY <1>2
<1>4. m - 1 \notin T
  BY <1>2, <1>3
<1>5. m - 1 \in S
  BY <1>3, <1>4
<1> QED
  BY <1>2, <1>3, <1>5

\* The same for all the numbers up to N.
LEMMA Forwards ==
    ASSUME NEW N \in Nat, NEW S, 0 \in S, \A k \in 1 .. N : k - 1 \in S => k \in S
    PROVE  \A k \in 0 .. N : k \in S
<1> SUFFICES ASSUME NEW k \in 0 .. N PROVE k \in S
  OBVIOUS
<1>1. \A m \in 0 .. k - 1 : m \in S => m + 1 \in S
  <2> SUFFICES ASSUME NEW m \in 0 .. k - 1, m \in S PROVE m + 1 \in S
    OBVIOUS
  <2>1. m + 1 \in 1 .. N /\ (m + 1) - 1 = m
    OBVIOUS
  <2> QED
    BY <2>1
<1> QED
  BY <1>1, ByInduction

\* The same backwards: a set of numbers up to N that has every number of which it has
\* all the greater ones.
LEMMA Backwards ==
    ASSUME NEW lo \in Int, NEW N \in Int, NEW S,
           \A i \in lo .. N : (\A k \in i + 1 .. N : k \in S) => i \in S
    PROVE  \A i \in lo .. N : i \in S
<1> SUFFICES ASSUME NEW i \in lo .. N PROVE i \in S
  OBVIOUS
<1> DEFINE U == {m \in Nat : \A k \in lo .. N : k > N - m => k \in S}
<1>1. 0 \in U
  OBVIOUS
<1>2. ASSUME NEW m \in 0 .. (N - i + 1) - 1, m \in U PROVE m + 1 \in U
  <2>1. ASSUME NEW k \in lo .. N, k > N - (m + 1) PROVE k \in S
    <3>1. \A j \in k + 1 .. N : j \in lo .. N /\ j > N - m
      BY <2>1
    <3>2. \A j \in k + 1 .. N : j \in S
      BY <1>2, <3>1
    <3> QED
      BY <3>2
  <2> QED
    BY <2>1
<1>3. N - i + 1 \in Nat
  OBVIOUS
<1>4. N - i + 1 \in U
  <2> HIDE DEF U
  <2> QED
    BY <1>1, <1>2, <1>3, ByInduction
<1> QED
  BY <1>4

\* A set of positions in a sequence has a last one, if it has any.
LEMMA Greatest ==
    ASSUME NEW n \in Nat, NEW I \in SUBSET (1 .. n), I # {}
    PROVE  \E i \in I : \A k \in I : k <= i
<1> DEFINE T == {m \in 0 .. n : \A k \in I : k <= m}
<1>1. n \in T /\ T \in SUBSET Nat
  OBVIOUS
<1>2. PICK m \in T : \A k \in T : m <= k
  BY <1>1, Least
<1>3. m \in I
  <2> SUFFICES ASSUME m \notin I PROVE FALSE
    OBVIOUS
  <2>1. PICK i \in I : TRUE
    OBVIOUS
  <2>2. m >= 1
    BY <2>1
  <2>3. \A k \in I : k <= m - 1
    OBVIOUS
  <2>4. m - 1 \in T
    BY <2>2, <2>3
  <2> QED
    BY <1>2, <2>4
<1> QED
  BY <1>3

\* h makes a value for k, which is in D, of another value.
Steps(h, D, T) == \A k \in D : \A v \in T : h[<<k, v>>] \in T

\* f gets its value at k from the one before it.
Rises(f, n, T, base, h) ==
    /\ f \in [0 .. n -> T]
    /\ f[0] = base
    /\ \A k \in 1 .. n : f[k] = h[<<k, f[k - 1]>>]

\* f gets its value at i from the one at next[i].
Falls(f, lo, N, T, base, h, next) ==
    /\ f \in [lo .. N -> T]
    /\ f[N] = base
    /\ \A i \in lo .. N - 1 : f[i] = h[<<i, f[next[i]]>>]

\* There is a function that gets every value from the one before it.
LEMMA Rising ==
    ASSUME NEW n \in Nat, NEW T, NEW base \in T, NEW h, Steps(h, 1 .. n, T)
    PROVE  \E f : Rises(f, n, T, base, h)
<1> DEFINE Upto(f, m) == /\ f \in [0 .. m -> T]
                         /\ \A k \in 0 .. m : f[k] = IF k = 0 THEN base ELSE h[<<k, f[k - 1]>>]
           S == {m \in 0 .. n : \E f : Upto(f, m)}
<1>1. 0 \in S
  <2>1. Upto([k \in 0 .. 0 |-> base], 0)
    OBVIOUS
  <2> HIDE DEF Upto
  <2> QED
    BY <2>1
<1>2. ASSUME NEW m \in 0 .. n - 1, m \in S PROVE m + 1 \in S
  <2>1. PICK f : Upto(f, m)
    BY <1>2
  <2> DEFINE v == h[<<m + 1, f[m]>>]
             g == [k \in 0 .. m + 1 |-> IF k \in 0 .. m THEN f[k] ELSE v]
  <2>2. v \in T
    <3>1. m + 1 \in 1 .. n /\ f[m] \in T
      BY <2>1
    <3> QED
      BY <3>1 DEF Steps
  <2>3. g \in [0 .. m + 1 -> T]
    BY <2>1, <2>2
  <2>4. ASSUME NEW k \in 0 .. m + 1 PROVE g[k] = IF k = 0 THEN base ELSE h[<<k, g[k - 1]>>]
    <3>1. CASE k \in 0 .. m
      <4>1. g[k] = f[k] /\ (k # 0 => g[k - 1] = f[k - 1])
        BY <3>1
      <4> HIDE DEF g
      <4> QED
        BY <2>1, <3>1, <4>1
    <3>2. CASE k = m + 1
      <4>1. g[k] = v /\ k # 0 /\ k - 1 = m /\ g[m] = f[m]
        BY <3>2
      <4> HIDE DEF g
      <4> QED
        BY <3>2, <4>1
    <3> QED
      BY <3>1, <3>2
  <2> HIDE DEF g
  <2>5. Upto(g, m + 1) /\ m + 1 \in 0 .. n
    BY <2>3, <2>4
  <2> HIDE DEF Upto
  <2> QED
    BY <2>5
<1>3. n \in S
  <2> HIDE DEF S
  <2> QED
    BY <1>1, <1>2, ByInduction
<1>4. PICK f : Upto(f, n)
  BY <1>3
<1>5. f[0] = base
  <2>1. 0 \in 0 .. n
    OBVIOUS
  <2> QED
    BY <1>4, <2>1
<1>6. \A k \in 1 .. n : f[k] = h[<<k, f[k - 1]>>]
  <2> SUFFICES ASSUME NEW k \in 1 .. n PROVE f[k] = h[<<k, f[k - 1]>>]
    OBVIOUS
  <2>1. k \in 0 .. n /\ k # 0
    OBVIOUS
  <2> QED
    BY <1>4, <2>1
<1> QED
  BY <1>4, <1>5, <1>6 DEF Rises

\* There is a function that gets every value from one further on.
LEMMA Falling ==
    ASSUME NEW lo \in Int, NEW N \in Int, lo <= N, NEW T, NEW base \in T,
           NEW h, Steps(h, lo .. N - 1, T),
           NEW next, \A i \in lo .. N - 1 : next[i] \in i + 1 .. N
    PROVE  \E f : Falls(f, lo, N, T, base, h, next)
<1> DEFINE From(f, m) == /\ f \in [N - m .. N -> T]
                         /\ \A i \in N - m .. N : f[i] = IF i = N THEN base ELSE h[<<i, f[next[i]]>>]
           S == {m \in Nat : \E f : From(f, m)}
<1>1. 0 \in S
  <2>1. N - 0 = N
    OBVIOUS
  <2>2. From([k \in N .. N |-> base], 0)
    BY <2>1
  <2> HIDE DEF From
  <2> QED
    BY <2>2
<1>2. ASSUME NEW m \in 0 .. (N - lo) - 1, m \in S PROVE m + 1 \in S
  <2>1. PICK f : From(f, m)
    BY <1>2
  <2> DEFINE j == N - (m + 1)
  <2>2. j \in lo .. N - 1 /\ N - m = j + 1
    OBVIOUS
  <2> DEFINE v == h[<<j, f[next[j]]>>]
             g == [k \in j .. N |-> IF k = j THEN v ELSE f[k]]
  <2>3. next[j] \in j + 1 .. N
    BY <2>2
  <2>4. v \in T
    <3>1. f[next[j]] \in T
      BY <2>1, <2>2, <2>3
    <3> QED
      BY <2>2, <3>1 DEF Steps
  <2> HIDE DEF j
  <2>5. f \in [j + 1 .. N -> T]
    BY <2>1, <2>2
  <2>6. g \in [j .. N -> T]
    <3> HIDE DEF v
    <3>1. \A k \in j .. N : k # j => f[k] \in T
      BY <2>2, <2>5
    <3> QED
      BY <2>4, <3>1
  <2>7. ASSUME NEW k \in j .. N PROVE g[k] = IF k = N THEN base ELSE h[<<k, g[next[k]]>>]
    <3>1. CASE k = j
      <4>1. g[next[k]] = f[next[j]] /\ k # N
        BY <2>2, <2>3, <3>1
      <4> QED
        BY <3>1, <4>1, <2>2
    <3>2. CASE k # j
      <4>1. k \in N - m .. N /\ g[k] = f[k]
        BY <2>2, <3>2
      <4>2. f[k] = IF k = N THEN base ELSE h[<<k, f[next[k]]>>]
        BY <2>1, <4>1
      <4>3. k # N => g[next[k]] = f[next[k]]
        BY <2>2, <3>2
      <4> QED
        BY <4>1, <4>2, <4>3
    <3> QED
      BY <3>1, <3>2
  <2> HIDE DEF g
  <2>8. g \in [N - (m + 1) .. N -> T]
    BY <2>6 DEF j
  <2>9. \A k \in N - (m + 1) .. N : g[k] = IF k = N THEN base ELSE h[<<k, g[next[k]]>>]
    BY <2>7 DEF j
  <2>10. From(g, m + 1) /\ m + 1 \in Nat
    BY <2>8, <2>9
  <2> HIDE DEF From
  <2> QED
    BY <2>10
<1>3. N - lo \in Nat
  OBVIOUS
<1>4. N - lo \in S
  <2> HIDE DEF S
  <2> QED
    BY <1>1, <1>2, <1>3, ByInduction
<1>5. N - (N - lo) = lo
  OBVIOUS
<1>6. PICK f : From(f, N - lo)
  BY <1>4
<1>7. f[N] = base
  <2>1. N \in lo .. N
    OBVIOUS
  <2> QED
    BY <1>5, <1>6, <2>1
<1>8. \A i \in lo .. N - 1 : f[i] = h[<<i, f[next[i]]>>]
  <2> SUFFICES ASSUME NEW i \in lo .. N - 1 PROVE f[i] = h[<<i, f[next[i]]>>]
    OBVIOUS
  <2>1. i \in lo .. N /\ i # N
    OBVIOUS
  <2> QED
    BY <1>5, <1>6, <2>1
<1>9. f \in [lo .. N -> T]
  BY <1>5, <1>6
<1> QED
  BY <1>7, <1>8, <1>9 DEF Falls
\* h makes a value of T[k], of another one of T[k - 1].
StepsThrough(h, n, T) == \A k \in 1 .. n : \A v \in T[k - 1] : h[<<k, v>>] \in T[k]

\* f gets its value at k, which is in T[k], from the one before it.
RisesThrough(f, n, T, base, h) ==
    /\ DOMAIN f = 0 .. n /\ f = [k \in 0 .. n |-> f[k]]
    /\ f[0] = base
    /\ \A k \in 1 .. n : f[k] = h[<<k, f[k - 1]>>]
    /\ \A k \in 0 .. n : f[k] \in T[k]

\* The same as Rising, where each value has a set of its own.
LEMMA RisingThrough ==
    ASSUME NEW n \in Nat, NEW T, NEW base \in T[0], NEW h, StepsThrough(h, n, T)
    PROVE  \E f : RisesThrough(f, n, T, base, h)
<1> DEFINE V == UNION {T[k] : k \in 0 .. n}
           U == {p \in (0 .. n) \X V : p[2] \in T[p[1]]}
           g == [q \in (1 .. n) \X U |->
                    IF q[2][1] = q[1] - 1 THEN <<q[1], h[<<q[1], q[2][2]>>]>> ELSE <<0, base>>]
<1>1. ASSUME NEW k \in 0 .. n, NEW v \in T[k] PROVE <<k, v>> \in U
  <2>1. v \in V
    OBVIOUS
  <2> HIDE DEF V
  <2> QED
    BY <2>1
<1>2. ASSUME NEW p \in U PROVE p[1] \in 0 .. n /\ p[2] \in T[p[1]] /\ p = <<p[1], p[2]>>
  <2> HIDE DEF V
  <2> QED
    OBVIOUS
<1> HIDE DEF U, V
<1>3. ASSUME NEW k \in 1 .. n, NEW p \in U
      PROVE  g[<<k, p>>] = IF p[1] = k - 1 THEN <<k, h[<<k, p[2]>>]>> ELSE <<0, base>>
  OBVIOUS
<1> HIDE DEF g
<1>4. Steps(g, 1 .. n, U)
  <2>1. ASSUME NEW k \in 1 .. n, NEW p \in U PROVE g[<<k, p>>] \in U
    <3>1. CASE p[1] = k - 1
      <4>1. h[<<k, p[2]>>] \in T[k] /\ k \in 0 .. n
        BY <1>2, <3>1 DEF StepsThrough
      <4>2. <<k, h[<<k, p[2]>>]>> \in U
        BY <1>1, <4>1
      <4> QED
        BY <1>3, <3>1, <4>2
    <3>2. CASE p[1] # k - 1
      <4>1. <<0, base>> \in U
        BY <1>1
      <4> QED
        BY <1>3, <3>2, <4>1
    <3> QED
      BY <3>1, <3>2
  <2> QED
    BY <2>1 DEF Steps
<1>5. <<0, base>> \in U /\ n \in Nat
  BY <1>1
<1> DEFINE start == <<0, base>>
<1> HIDE DEF start
<1>6. PICK f : Rises(f, n, U, start, g)
  <2>1. start \in U /\ n \in Nat
    BY <1>5 DEF start
  <2> QED
    BY ONLY <1>4, <2>1, Rising
<1>7. f \in [0 .. n -> U] /\ f[0] = <<0, base>> /\ \A k \in 1 .. n : f[k] = g[<<k, f[k - 1]>>]
  BY <1>6 DEF Rises, start
<1> DEFINE S == {k \in 0 .. n : f[k][1] = k}
<1>8. 0 \in S
  BY <1>7
<1>9. ASSUME NEW k \in 1 .. n, k - 1 \in S PROVE k \in S /\ f[k] = <<k, h[<<k, f[k - 1][2]>>]>>
  <2>1. k - 1 \in 0 .. n /\ f[k - 1][1] = k - 1
    BY <1>9
  <2>2. f[k - 1] \in U
    BY ONLY <1>7, <2>1
  <2>3. f[k] = <<k, h[<<k, f[k - 1][2]>>]>>
    BY <1>3, <1>7, <2>1, <2>2
  <2> QED
    BY <2>3
<1>10. \A k \in 0 .. n : k \in S
  <2> HIDE DEF S
  <2> QED
    BY ONLY <1>5, <1>8, <1>9, Forwards
<1> DEFINE w == [k \in 0 .. n |-> f[k][2]]
<1>11. w[0] = base
  BY <1>7
<1>12. ASSUME NEW k \in 1 .. n PROVE w[k] = h[<<k, w[k - 1]>>]
  <2>1. k - 1 \in 0 .. n /\ k \in 0 .. n
    OBVIOUS
  <2>2. f[k] = <<k, h[<<k, f[k - 1][2]>>]>>
    BY <1>9, <1>10, <2>1
  <2>3. w[k] = f[k][2] /\ w[k - 1] = f[k - 1][2]
    BY <2>1
  <2> QED
    BY <2>2, <2>3
<1>13. ASSUME NEW k \in 0 .. n PROVE w[k] \in T[k]
  <2>1. f[k] \in U /\ f[k][1] = k
    BY <1>7, <1>10
  <2> QED
    BY <1>2, <2>1
<1>14. DOMAIN w = 0 .. n /\ w = [k \in 0 .. n |-> w[k]]
  OBVIOUS
<1> HIDE DEF w
<1> QED
  BY <1>11, <1>12, <1>13, <1>14 DEF RisesThrough

-----------------------------------------------------------------------------
(* What is selected.                                                        *)

\* Positions in order.
Increasing(f) == \A i, k \in DOMAIN f : i < k => f[i] < f[k]

\* v holds, in order, elements that s has up to position n.
Within(v, s, n) ==
    \E f \in [1 .. Len(v) -> 1 .. n] : Increasing(f) /\ \A k \in 1 .. Len(v) : v[k] = s[f[k]]

\* Selected by its recursion: one position after the other.
LEMMA SelectedSteps ==
    ASSUME NEW T, NEW s \in Seq(T), NEW I
    PROVE  \E f \in [0 .. Len(s) -> Seq(T)] :
               /\ Selected(s, I) = f[Len(s)]
               /\ f[0] = <<>>
               /\ \A k \in 1 .. Len(s) : f[k] = IF k \in I THEN Append(f[k - 1], s[k]) ELSE f[k - 1]
<1> DEFINE n == Len(s)
           Body(f) == [k \in 0 .. Len(s) |->
                          IF k = 0 THEN <<>>
                          ELSE IF k \in I THEN Append(f[k - 1], s[k]) ELSE f[k - 1]]
           F == CHOOSE f : f = Body(f)
           h == [p \in (1 .. n) \X Seq(T) |-> IF p[1] \in I THEN Append(p[2], s[p[1]]) ELSE p[2]]
<1>1. n \in Nat /\ <<>> \in Seq(T)
  OBVIOUS
<1>2. \A k \in 1 .. n : \A v \in Seq(T) :
          h[<<k, v>>] = IF k \in I THEN Append(v, s[k]) ELSE v
  OBVIOUS
<1>3. Steps(h, 1 .. n, Seq(T))
  <2> SUFFICES ASSUME NEW k \in 1 .. n, NEW v \in Seq(T) PROVE h[<<k, v>>] \in Seq(T)
    BY DEF Steps
  <2>1. Append(v, s[k]) \in Seq(T)
    OBVIOUS
  <2> HIDE DEF h
  <2> QED
    BY <1>2, <2>1
<1> HIDE DEF n, h
<1>4. PICK f : Rises(f, n, Seq(T), <<>>, h)
  BY ONLY <1>1, <1>3, Rising
<1>5. \A k \in 1 .. n : f[k] = IF k \in I THEN Append(f[k - 1], s[k]) ELSE f[k - 1]
  <2> SUFFICES ASSUME NEW k \in 1 .. n
               PROVE  f[k] = IF k \in I THEN Append(f[k - 1], s[k]) ELSE f[k - 1]
    OBVIOUS
  <2>1. f[k] = h[<<k, f[k - 1]>>] /\ f[k - 1] \in Seq(T)
    BY <1>1, <1>4 DEF Rises
  <2> QED
    BY <1>2, <2>1
<1>6. f \in [0 .. n -> Seq(T)] /\ f[0] = <<>>
  BY <1>4 DEF Rises
<1>7. f = Body(f)
  <2>1. ASSUME NEW k \in 0 .. n PROVE f[k] = Body(f)[k]
    <3>1. CASE k = 0
      BY <1>6, <3>1 DEF n
    <3>2. CASE k # 0
      <4>1. k \in 1 .. n
        BY <1>1, <3>2
      <4> QED
        BY <1>5, <3>2, <4>1 DEF n
    <3> QED
      BY <3>1, <3>2
  <2>2. f = [k \in 0 .. n |-> f[k]] /\ Body(f) = [k \in 0 .. n |-> Body(f)[k]]
    BY <1>6 DEF n
  <2> HIDE DEF Body
  <2> QED
    BY <2>1, <2>2
<1>8. F = Body(F)
  BY <1>7
<1>9. Selected(s, I) = F[n]
  BY DEF Selected, n
<1> HIDE DEF F
<1>10. F = [k \in 0 .. n |-> IF k = 0 THEN <<>>
                             ELSE IF k \in I THEN Append(F[k - 1], s[k]) ELSE F[k - 1]]
  BY <1>8 DEF n
<1> HIDE DEF Body
<1>11. F[0] = <<>>
  BY <1>1, <1>10
<1>12. \A k \in 1 .. n : F[k] = IF k \in I THEN Append(F[k - 1], s[k]) ELSE F[k - 1]
  <2> SUFFICES ASSUME NEW k \in 1 .. n
               PROVE  F[k] = IF k \in I THEN Append(F[k - 1], s[k]) ELSE F[k - 1]
    OBVIOUS
  <2>1. k \in 0 .. n /\ k # 0
    BY <1>1
  <2> QED
    BY ONLY <1>10, <2>1
<1>13. \A k \in 0 .. n : F[k] = f[k]
  <2> DEFINE S == {k \in Nat : F[k] = f[k]}
  <2>1. 0 \in S
    BY <1>6, <1>11
  <2>2. ASSUME NEW k \in 1 .. n, k - 1 \in S PROVE k \in S
    BY <1>5, <1>12, <2>2
  <2> HIDE DEF S
  <2>3. \A k \in 0 .. n : k \in S
    BY <1>1, <2>1, <2>2, Forwards
  <2> QED
    BY <2>3 DEF S
<1>14. F[n] = f[n]
  BY <1>1, <1>13
<1> QED
  BY <1>5, <1>6, <1>9, <1>14 DEF n

\* p has the positions I in order, and v what s has at them.
Picks(p, v, s, I) ==
    /\ p \in [1 .. Len(v) -> I]
    /\ Increasing(p)
    /\ \A k \in 1 .. Len(v) : v[k] = s[p[k]]
    /\ \A i \in I : \E k \in 1 .. Len(v) : p[k] = i

\* One more position is picked.
LEMMA PicksOneMore ==
    ASSUME NEW T, NEW s \in Seq(T), NEW m \in 1 .. Len(s), NEW I \in SUBSET (1 .. m - 1),
           NEW v \in Seq(T), NEW p, Picks(p, v, s, I)
    PROVE  \E q : Picks(q, Append(v, s[m]), s, I \cup {m})
<1> DEFINE c == Len(v)
           w == Append(v, s[m])
           q == [k \in 1 .. c + 1 |-> IF k = c + 1 THEN m ELSE p[k]]
<1>1. c \in Nat /\ s[m] \in T
  OBVIOUS
<1>2. w \in Seq(T) /\ Len(w) = c + 1 /\ w[c + 1] = s[m] /\ \A k \in 1 .. c : w[k] = v[k]
  BY <1>1
<1>3. /\ p \in [1 .. c -> I]
      /\ \A i, k \in 1 .. c : i < k => p[i] < p[k]
      /\ \A k \in 1 .. c : v[k] = s[p[k]]
      /\ \A i \in I : \E k \in 1 .. c : p[k] = i
  BY DEF Picks, Increasing
<1> HIDE DEF w, c
<1>4. ASSUME NEW k \in 1 .. c + 1, k # c + 1 PROVE k \in 1 .. c /\ q[k] = p[k] /\ p[k] \in I
  <2>1. k \in 1 .. c
    BY <1>1, <1>4
  <2> QED
    BY <1>3, <1>4, <2>1
<1>5. q \in [1 .. c + 1 -> I \cup {m}] /\ q[c + 1] = m /\ DOMAIN q = 1 .. c + 1
  <2>1. c + 1 \in 1 .. c + 1
    BY <1>1
  <2>2. \A k \in 1 .. c + 1 : q[k] \in I \cup {m}
    BY <1>4
  <2> QED
    BY <2>1, <2>2
<1> HIDE DEF q
<1>6. ASSUME NEW i \in 1 .. c + 1, NEW k \in 1 .. c + 1, i < k PROVE q[i] < q[k]
  <2>1. i \in 1 .. c /\ q[i] = p[i] /\ p[i] \in I
    BY <1>1, <1>4, <1>6
  <2>2. CASE k = c + 1
    <3>1. q[k] = m /\ q[i] \in 1 .. m - 1
      BY <1>5, <2>1, <2>2
    <3>2. m \in Int
      OBVIOUS
    <3> QED
      BY ONLY <3>1, <3>2
  <2>3. CASE k # c + 1
    BY <1>3, <1>4, <1>6, <2>1, <2>3
  <2> QED
    BY <2>2, <2>3
<1>7. ASSUME NEW k \in 1 .. c + 1 PROVE w[k] = s[q[k]]
  <2>1. CASE k = c + 1
    BY <1>2, <1>5, <2>1
  <2>2. CASE k # c + 1
    BY <1>2, <1>3, <1>4, <2>2
  <2> QED
    BY <2>1, <2>2
<1>8. ASSUME NEW i \in I \cup {m} PROVE \E k \in 1 .. c + 1 : q[k] = i
  <2>1. CASE i = m
    BY <1>1, <1>5, <2>1
  <2>2. CASE i # m
    <3>1. PICK k \in 1 .. c : p[k] = i
      BY <1>3, <2>2
    <3>2. k \in 1 .. c + 1 /\ k # c + 1
      BY <1>1
    <3> QED
      BY <1>4, <3>1, <3>2
  <2> QED
    BY <2>1, <2>2
<1>9. Picks(q, w, s, I \cup {m})
  BY <1>2, <1>5, <1>6, <1>7, <1>8 DEF Picks, Increasing
<1> QED
  BY <1>9 DEF w

\* What is selected from a sequence is what it has at the positions, in order.
LEMMA SelectedPicks ==
    ASSUME NEW T, NEW s \in Seq(T), NEW I \in SUBSET DOMAIN s
    PROVE  Selected(s, I) \in Seq(T) /\ \E p : Picks(p, Selected(s, I), s, I)
<1> DEFINE n == Len(s)
           Upto(k) == I \cap (1 .. k)
<1>1. n \in Nat /\ I \in SUBSET (1 .. n)
  OBVIOUS
<1>2. PICK f \in [0 .. Len(s) -> Seq(T)] :
         /\ Selected(s, I) = f[Len(s)]
         /\ f[0] = <<>>
         /\ \A k \in 1 .. Len(s) : f[k] = IF k \in I THEN Append(f[k - 1], s[k]) ELSE f[k - 1]
  BY SelectedSteps
<1> DEFINE S == {k \in 0 .. n : \E p : Picks(p, f[k], s, Upto(k))}
<1>3. 0 \in S
  <2> DEFINE p == [k \in 1 .. 0 |-> k]
  <2>1. Len(<<>>) = 0 /\ Upto(0) = {} /\ 0 \in 0 .. n
    BY <1>1
  <2>2. p \in [1 .. 0 -> {}] /\ Increasing(p)
    BY DEF Increasing
  <2> HIDE DEF p, Upto
  <2>3. Picks(p, <<>>, s, Upto(0))
    BY <2>1, <2>2 DEF Picks
  <2> QED
    BY <1>2, <2>1, <2>3
<1>4. ASSUME NEW k \in 1 .. n, k - 1 \in S PROVE k \in S
  <2>1. k - 1 \in 0 .. n /\ k \in 0 .. n /\ Upto(k - 1) \in SUBSET (1 .. k - 1)
    BY <1>1
  <2>2. PICK p : Picks(p, f[k - 1], s, Upto(k - 1))
    BY <1>4
  <2>3. f[k] = IF k \in I THEN Append(f[k - 1], s[k]) ELSE f[k - 1]
    BY <1>2
  <2>4. f[k - 1] \in Seq(T)
    BY ONLY <1>2, <2>1
  <2>5. CASE k \in I
    <3>1. Upto(k) = Upto(k - 1) \cup {k}
      BY <1>1, <2>5
    <3> HIDE DEF Upto
    <3>2. \E q : Picks(q, Append(f[k - 1], s[k]), s, Upto(k - 1) \cup {k})
      BY <2>1, <2>2, <2>4, PicksOneMore
    <3> QED
      BY <2>1, <2>3, <2>5, <3>1, <3>2
  <2>6. CASE k \notin I
    <3>1. Upto(k) = Upto(k - 1)
      BY <1>1, <2>6
    <3> HIDE DEF Upto
    <3> QED
      BY <2>1, <2>2, <2>3, <2>6, <3>1
  <2> QED
    BY <2>5, <2>6
<1>5. n \in S
  <2> HIDE DEF S, n
  <2>1. \A k \in 0 .. n : k \in S
    BY ONLY <1>1, <1>3, <1>4, Forwards
  <2> QED
    BY <1>1, <2>1
<1>6. Upto(n) = I /\ n \in 0 .. n
  BY <1>1
<1>7. \E p : Picks(p, f[n], s, I)
  BY <1>5, <1>6
<1>8. f[n] \in Seq(T)
  BY ONLY <1>2, <1>6
<1> QED
  BY <1>2, <1>7, <1>8

\* In particular it is within the sequence.
LEMMA SelectedWithin ==
    ASSUME NEW T, NEW s \in Seq(T), NEW I \in SUBSET DOMAIN s
    PROVE  Selected(s, I) \in Seq(T) /\ Within(Selected(s, I), s, Len(s))
<1> DEFINE v == Selected(s, I)
<1>1. v \in Seq(T)
  BY SelectedPicks
<1>2. PICK p : Picks(p, v, s, I)
  BY SelectedPicks
<1> HIDE DEF v
<1>3. p \in [1 .. Len(v) -> 1 .. Len(s)] /\ Increasing(p) /\ \A k \in 1 .. Len(v) : v[k] = s[p[k]]
  BY <1>2 DEF Picks
<1>4. Within(v, s, Len(s))
  BY <1>3 DEF Within
<1> QED
  BY <1>1, <1>4 DEF v

\* Nothing is within every sequence.
LEMMA NothingWithin == ASSUME NEW s, NEW n PROVE Within(<<>>, s, n)
<1> DEFINE f == [k \in 1 .. 0 |-> k]
<1>1. Len(<<>>) = 0
  OBVIOUS
<1>2. f \in [1 .. 0 -> 1 .. n] /\ Increasing(f)
  BY DEF Increasing
<1>3. \A k \in 1 .. 0 : <<>>[k] = s[f[k]]
  OBVIOUS
<1> HIDE DEF f
<1>4. \E g \in [1 .. 0 -> 1 .. n] : Increasing(g) /\ \A k \in 1 .. 0 : <<>>[k] = s[g[k]]
  BY <1>2, <1>3
<1> QED
  BY <1>1, <1>4 DEF Within

\* What is within a sequence that is within another one is within that.
LEMMA WithinWithin ==
    ASSUME NEW T, NEW v \in Seq(T), NEW s \in Seq(T), NEW u \in Seq(T), NEW n \in 0 .. Len(s),
           Within(v, s, n), Within(s, u, Len(u))
    PROVE  Within(v, u, Len(u))
<1>1. PICK f \in [1 .. Len(v) -> 1 .. n] : Increasing(f) /\ \A k \in 1 .. Len(v) : v[k] = s[f[k]]
  BY DEF Within
<1>2. PICK g \in [1 .. Len(s) -> 1 .. Len(u)] :
         Increasing(g) /\ \A k \in 1 .. Len(s) : s[k] = u[g[k]]
  BY DEF Within
<1> DEFINE h == [k \in 1 .. Len(v) |-> g[f[k]]]
<1>3. \A k \in 1 .. Len(v) : f[k] \in 1 .. Len(s)
  OBVIOUS
<1>4. h \in [1 .. Len(v) -> 1 .. Len(u)] /\ \A k \in 1 .. Len(v) : v[k] = u[h[k]]
  BY <1>1, <1>2, <1>3
<1>5. \A i, k \in 1 .. Len(v) : i < k => g[f[i]] < g[f[k]]
  BY <1>1, <1>2, <1>3 DEF Increasing
<1>6. Increasing(h)
  BY <1>5 DEF Increasing
<1> QED
  BY <1>4, <1>6 DEF Within

\* The next elements of s, or some of them, go behind those that v has.
LEMMA WithinExtended ==
    ASSUME NEW T, NEW s \in Seq(T), NEW n \in Nat, NEW m \in Nat, n + m <= Len(s),
           NEW v \in Seq(T), Within(v, s, n),
           NEW b \in Seq(T), Len(b) = m, \A i \in 1 .. m : b[i] = s[n + i],
           NEW r \in Seq(T), Within(r, b, Len(b))
    PROVE  v \o r \in Seq(T) /\ Within(v \o r, s, n + m)
<1>1. PICK f \in [1 .. Len(v) -> 1 .. n] : Increasing(f) /\ \A k \in 1 .. Len(v) : v[k] = s[f[k]]
  BY DEF Within
<1>2. PICK g \in [1 .. Len(r) -> 1 .. m] : Increasing(g) /\ \A k \in 1 .. Len(r) : r[k] = b[g[k]]
  BY DEF Within
<1> DEFINE a == Len(v)
           c == Len(r)
           w == v \o r
           h == [k \in 1 .. a + c |-> IF k \in 1 .. a THEN f[k] ELSE n + g[k - a]]
<1>3. /\ a \in Nat /\ c \in Nat /\ w \in Seq(T) /\ Len(w) = a + c
      /\ \A k \in 1 .. a : w[k] = v[k]
      /\ \A k \in 1 .. a + c : k \notin 1 .. a => w[k] = r[k - a] /\ k - a \in 1 .. c
  OBVIOUS
<1>4. f \in [1 .. a -> 1 .. n] /\ g \in [1 .. c -> 1 .. m]
  OBVIOUS
<1>5. \A k \in 1 .. a + c : k \notin 1 .. a => g[k - a] \in 1 .. m
  BY <1>3, <1>4
<1>6. \A k \in 1 .. a : f[k] \in 1 .. n
  BY <1>4
<1>7. \A k \in 1 .. a + c : w[k] = s[h[k]]
  <2> TAKE k \in 1 .. a + c
  <2>1. CASE k \in 1 .. a
    BY <1>1, <1>3, <2>1
  <2>2. CASE k \notin 1 .. a
    <3>1. w[k] = r[k - a] /\ k - a \in 1 .. c /\ g[k - a] \in 1 .. m
      BY <1>3, <1>5, <2>2
    <3>2. r[k - a] = b[g[k - a]] /\ b[g[k - a]] = s[n + g[k - a]]
      BY <1>2, <3>1
    <3> QED
      BY <2>2, <3>1, <3>2
  <2> QED
    BY <2>1, <2>2
<1>8. h \in [1 .. a + c -> 1 .. n + m] /\ DOMAIN h = 1 .. a + c
  BY <1>5, <1>6
<1>9. ASSUME NEW i \in 1 .. a + c, NEW k \in 1 .. a + c, i < k PROVE h[i] < h[k]
  <2> HIDE DEF a, c, w
  <2>1. CASE k \in 1 .. a
    BY <1>1, <1>3, <1>4, <1>9, <2>1 DEF Increasing
  <2>2. CASE k \notin 1 .. a /\ i \in 1 .. a
    <3>1. f[i] \in 1 .. n /\ g[k - a] \in 1 .. m
      BY <1>5, <1>6, <2>2
    <3> QED
      BY <2>2, <3>1
  <2>3. CASE k \notin 1 .. a /\ i \notin 1 .. a
    <3>1. k - a \in 1 .. c /\ i - a \in 1 .. c /\ i - a < k - a
      BY <1>3, <1>9, <2>3
    <3>2. g[i - a] < g[k - a] /\ g[i - a] \in 1 .. m /\ g[k - a] \in 1 .. m
      BY <1>2, <1>4, <3>1 DEF Increasing
    <3> QED
      BY <2>3, <3>2
  <2> QED
    BY <1>3, <1>9, <2>1, <2>2, <2>3
<1> HIDE DEF h
<1>10. Increasing(h)
  BY <1>8, <1>9 DEF Increasing
<1>11. Within(w, s, n + m)
  BY ZenonT(30), <1>3, <1>7, <1>8, <1>10 DEF Within
<1> QED
  BY <1>3, <1>11

\* Positions in order are at least as far apart as their numbers.
LEMMA IncreasingGrows ==
    ASSUME NEW n \in Nat, NEW f \in [1 .. n -> 1 .. n], Increasing(f)
    PROVE  \A k \in 1 .. n : f[k] = k
<1>1. ASSUME NEW k \in 1 .. n PROVE f[k] >= k
  <2> DEFINE S == {i \in Nat : i \in 1 .. n => f[i] >= i}
  <2>1. 0 \in S
    OBVIOUS
  <2>2. ASSUME NEW i \in 0 .. k - 1, i \in S PROVE i + 1 \in S
    <3>1. CASE i = 0
      BY <3>1
    <3>2. CASE i # 0
      <4>1. i \in 1 .. n /\ i + 1 \in 1 .. n
        BY <3>2
      <4>2. f[i] < f[i + 1] /\ f[i] >= i /\ f[i] \in Nat /\ f[i + 1] \in Nat
        BY <2>2, <4>1 DEF Increasing
      <4> QED
        BY <4>1, <4>2
    <3> QED
      BY <3>1, <3>2
  <2>3. k \in S
    <3> HIDE DEF S
    <3> QED
      BY <2>1, <2>2, ByInduction
  <2> QED
    BY <2>3
<1>2. ASSUME NEW k \in 1 .. n PROVE f[k] <= k
  <2> DEFINE S == {i \in Nat : n - i \in 1 .. n => f[n - i] <= n - i}
  <2>1. 0 \in S
    OBVIOUS
  <2>2. ASSUME NEW i \in 0 .. (n - k) - 1, i \in S PROVE i + 1 \in S
    <3>1. n - i \in 1 .. n /\ n - (i + 1) \in 1 .. n /\ n - (i + 1) < n - i
      OBVIOUS
    <3>2. f[n - (i + 1)] < f[n - i] /\ f[n - i] <= n - i
      BY <2>2, <3>1 DEF Increasing
    <3>3. f[n - (i + 1)] \in Nat /\ f[n - i] \in Nat
      BY <3>1
    <3>4. f[n - (i + 1)] <= n - (i + 1)
      BY <3>2, <3>3
    <3> QED
      BY <3>4
  <2>3. n - k \in S
    <3> HIDE DEF S
    <3>1. n - k \in Nat
      OBVIOUS
    <3> QED
      BY <2>1, <2>2, <3>1, ByInduction
  <2>4. n - (n - k) = k
    OBVIOUS
  <2> QED
    BY <2>3, <2>4
<1> QED
  BY <1>1, <1>2

\* A sequence within another one of its length is that sequence.
LEMMA WithinSameLength ==
    ASSUME NEW T, NEW v \in Seq(T), NEW s \in Seq(T), Within(v, s, Len(s)), Len(v) = Len(s)
    PROVE  v = s
<1>1. PICK f \in [1 .. Len(v) -> 1 .. Len(s)] :
         Increasing(f) /\ \A k \in 1 .. Len(v) : v[k] = s[f[k]]
  BY DEF Within
<1>2. Len(v) \in Nat /\ f \in [1 .. Len(v) -> 1 .. Len(v)] /\ Increasing(f)
  BY <1>1
<1>3. \A k \in 1 .. Len(v) : f[k] = k
  BY ONLY <1>2, IncreasingGrows
<1>4. \A k \in 1 .. Len(v) : v[k] = s[k]
  BY <1>1, <1>3
<1> QED
  BY <1>4
-----------------------------------------------------------------------------
(* What a scan finds.                                                       *)

\* f has at i what the scan finds from i on.
Finds(f, T, n, piece, next) ==
    /\ f \in [1 .. n + 1 -> Seq(T)]
    /\ f[n + 1] = <<>>
    /\ \A i \in 1 .. n : f[i] = piece[i] \o f[next[i]]

\* A scan finds a sequence: every piece goes before what is found behind it.
LEMMA ScannedSteps ==
    ASSUME NEW T, NEW n \in Nat, NEW piece, \A i \in 1 .. n : piece[i] \in Seq(T),
           NEW next, \A i \in 1 .. n : next[i] \in i + 1 .. n + 1
    PROVE  \E f : Finds(f, T, n, piece, next) /\ Scanned(n, piece, next) = f[1]
<1> DEFINE Body(f) == [i \in 1 .. n + 1 |-> IF i > n THEN <<>> ELSE piece[i] \o f[next[i]]]
           F == CHOOSE f : f = Body(f)
           h == [p \in (1 .. n) \X Seq(T) |-> piece[p[1]] \o p[2]]
<1>1. /\ 1 \in Int /\ n + 1 \in Int /\ 1 <= n + 1 /\ <<>> \in Seq(T)
      /\ \A i \in 1 .. (n + 1) - 1 : next[i] \in i + 1 .. n + 1
  OBVIOUS
<1>2. \A i \in 1 .. n : \A v \in Seq(T) : h[<<i, v>>] = piece[i] \o v
  OBVIOUS
<1> HIDE DEF h
<1>3. Steps(h, 1 .. (n + 1) - 1, Seq(T))
  <2>1. ASSUME NEW i \in 1 .. (n + 1) - 1, NEW v \in Seq(T) PROVE h[<<i, v>>] \in Seq(T)
    <3>1. i \in 1 .. n
      OBVIOUS
    <3>2. piece[i] \o v \in Seq(T)
      BY <3>1
    <3> QED
      BY <1>2, <3>1, <3>2
  <2> QED
    BY <2>1 DEF Steps
<1>4. PICK f : Falls(f, 1, n + 1, Seq(T), <<>>, h, next)
  BY ONLY <1>1, <1>3, Falling
<1>5. f \in [1 .. n + 1 -> Seq(T)] /\ f[n + 1] = <<>>
  BY <1>4 DEF Falls
<1>6. \A i \in 1 .. n : f[i] = piece[i] \o f[next[i]]
  <2> SUFFICES ASSUME NEW i \in 1 .. n PROVE f[i] = piece[i] \o f[next[i]]
    OBVIOUS
  <2>1. i \in 1 .. (n + 1) - 1 /\ next[i] \in 1 .. n + 1
    OBVIOUS
  <2>2. f[i] = h[<<i, f[next[i]]>>] /\ f[next[i]] \in Seq(T)
    BY <1>4, <1>5, <2>1 DEF Falls
  <2> QED
    BY <1>2, <2>2
<1>7. f = Body(f)
  <2>1. ASSUME NEW i \in 1 .. n + 1 PROVE f[i] = Body(f)[i]
    <3>1. CASE i = n + 1
      BY <1>5, <3>1
    <3>2. CASE i \in 1 .. n
      <4>1. ~ (i > n)
        BY <3>2
      <4>2. Body(f)[i] = piece[i] \o f[next[i]]
        BY <4>1
      <4> QED
        BY <1>6, <3>2, <4>2
    <3> QED
      BY <3>1, <3>2
  <2>2. f = [i \in 1 .. n + 1 |-> f[i]] /\ Body(f) = [i \in 1 .. n + 1 |-> Body(f)[i]]
    BY <1>5
  <2> HIDE DEF Body
  <2> QED
    BY <2>1, <2>2
<1>8. F = Body(F)
  BY <1>7
<1>9. Scanned(n, piece, next) = F[1]
  BY DEF Scanned
<1> HIDE DEF F
<1>10. F = [i \in 1 .. n + 1 |-> IF i > n THEN <<>> ELSE piece[i] \o F[next[i]]]
  BY <1>8
<1> HIDE DEF Body
<1>11. F[n + 1] = <<>>
  BY <1>10
<1>12. ASSUME NEW i \in 1 .. n PROVE F[i] = piece[i] \o F[next[i]]
  <2>1. i \in 1 .. n + 1 /\ ~ (i > n)
    OBVIOUS
  <2> QED
    BY ONLY <1>10, <2>1
<1>13. \A i \in 1 .. n + 1 : F[i] = f[i]
  <2> DEFINE S == {i \in Int : F[i] = f[i]}
  <2>1. ASSUME NEW i \in 1 .. n + 1, \A k \in i + 1 .. n + 1 : k \in S PROVE i \in S
    <3>1. CASE i = n + 1
      BY <1>5, <1>11, <3>1
    <3>2. CASE i \in 1 .. n
      <4>1. F[next[i]] = f[next[i]]
        BY <2>1, <3>2
      <4>2. F[i] = f[i]
        BY <1>6, <1>12, <3>2, <4>1
      <4> QED
        BY <4>2
    <3> QED
      BY <3>1, <3>2
  <2> HIDE DEF S
  <2>2. \A i \in 1 .. n + 1 : i \in S
    BY ONLY <1>1, <2>1, Backwards
  <2> QED
    BY <2>2 DEF S
<1>14. Scanned(n, piece, next) = f[1]
  BY <1>9, <1>13
<1> QED
  BY <1>5, <1>6, <1>14 DEF Finds

\* A scan finds a sequence.
LEMMA ScannedSequence ==
    ASSUME NEW T, NEW n \in Nat, NEW piece, \A i \in 1 .. n : piece[i] \in Seq(T),
           NEW next, \A i \in 1 .. n : next[i] \in i + 1 .. n + 1
    PROVE  Scanned(n, piece, next) \in Seq(T)
<1>1. PICK f : Finds(f, T, n, piece, next) /\ Scanned(n, piece, next) = f[1]
  BY ScannedSteps
<1> QED
  BY <1>1 DEF Finds
=============================================================================
