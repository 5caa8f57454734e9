----------------------------- MODULE Recursion ------------------------------
(***************************************************************************)
(* Functions on numbers that are defined by a recursion, without induction *)
(* over an operator: that there is such a function is shown for the        *)
(* smallest number up to which there is none.                              *)
(***************************************************************************)
EXTENDS Integers, FiniteSetsExt, TLAPS, FiniteSetTheorems

(* The smallest element of a set of numbers is one of them. *)
LEMMA MinIn ==
  ASSUME NEW S \in SUBSET Nat, S # {}
  PROVE  Min(S) \in S /\ \A m \in S : Min(S) =< m
<1>. DEFINE less == {ss \in Nat \X Nat : ss[1] < ss[2]}
<1>1. IsWellFoundedOn(less, Nat)
  BY NatLessThanWellFounded, Zenon DEF OpToRel
<1>2. PICK n \in S : \A m \in S : <<m, n>> \notin less
  <2>. HIDE DEF less
  <2>. QED
    BY <1>1, WFMin, Zenon
<1>3. \A m, k \in Nat : <<m, k>> \notin less => k =< m
  OBVIOUS
<1>4. \E k \in S : \A m \in S : k =< m
  <2>. HIDE DEF less
  <2>. QED
    BY <1>2, <1>3, Zenon
<1>. QED
  BY <1>4, Zenon DEF Min

(* And the greatest of a set that is bounded. *)
LEMMA MaxIn ==
  ASSUME NEW n \in Nat, NEW S \in SUBSET (0 .. n), S # {}
  PROVE  Max(S) \in S /\ \A m \in S : m <= Max(S)
<1>. DEFINE rest == {n - m : m \in S}
<1>1. rest \in SUBSET Nat /\ rest # {}
  <2>1. \A m \in S : n - m \in Nat
    OBVIOUS
  <2>. QED
    BY <2>1, Zenon
<1>2. PICK r \in rest : \A s \in rest : r <= s
  <2>. HIDE DEF rest
  <2>. QED
    BY <1>1, MinIn
<1>3. PICK k \in S : r = n - k
  OBVIOUS
<1>4. \A m \in S : m <= k
  BY <1>2, <1>3
<1>. QED
  BY <1>4, Zenon DEF Max

(* A step taken again and again. *)
LEMMA Iteration ==
  ASSUME NEW D, NEW start \in D, NEW step \in [D -> D]
  PROVE  \E c \in [Nat -> D] :
           c[0] = start /\ \A k \in Nat : c[k + 1] = step[c[k]]
<1>. DEFINE Begun(g, n) == /\ g \in [0 .. n -> D]
                           /\ g[0] = start
                           /\ \A k \in 0 .. n - 1 : g[k + 1] = step[g[k]]
            missing == {n \in Nat : \A g : ~Begun(g, n)}
<1>1. \A n \in Nat : \E g : Begun(g, n)
  <2>1. SUFFICES ASSUME missing # {} PROVE FALSE
    OBVIOUS
  <2>2. PICK n \in missing : \A m \in missing : n <= m
    <3>1. missing \in SUBSET Nat
      OBVIOUS
    <3>. HIDE DEF missing
    <3>. QED
      BY <2>1, <3>1, MinIn
  <2>3. n \in Nat
    OBVIOUS
  <2>4. CASE n = 0
    <3>1. Begun([k \in 0 .. 0 |-> start], 0)
      OBVIOUS
    <3>. QED
      BY <2>4, <3>1
  <2>5. CASE n # 0
    <3>1. n - 1 \in Nat /\ n - 1 \notin missing
      <4>1. n - 1 \in Nat /\ ~(n <= n - 1)
        BY <2>3, <2>5
      <4>. HIDE DEF missing
      <4>. QED
        BY <2>2, <4>1
    <3>2. PICK g : Begun(g, n - 1)
      BY <3>1
    <3>. DEFINE h == [k \in 0 .. n |-> IF k = n THEN step[g[n - 1]] ELSE g[k]]
    <3>3. h \in [0 .. n -> D] /\ h[0] = start
      <4>1. step[g[n - 1]] \in D /\ n - 1 \in 0 .. n - 1
        BY <3>1, <3>2
      <4>2. \A k \in 0 .. n : k # n => k \in 0 .. n - 1
        BY <2>3
      <4>3. h \in [0 .. n -> D]
        BY <3>2, <4>1, <4>2
      <4>4. 0 \in 0 .. n /\ 0 # n
        BY <2>3, <2>5
      <4>. QED
        BY <3>2, <4>3, <4>4
    <3>4. ASSUME NEW k \in 0 .. n - 1 PROVE h[k + 1] = step[h[k]]
      <4>1. k \in 0 .. n /\ k + 1 \in 0 .. n /\ k # n /\ h[k] = g[k]
        BY <2>3, <3>4
      <4>2. CASE k = n - 1
        BY <2>3, <4>1, <4>2
      <4>3. CASE k # n - 1
        <5>1. k \in 0 .. (n - 1) - 1 /\ k + 1 # n
          BY <2>3, <3>4, <4>3
        <5>2. g[k + 1] = step[g[k]]
          BY <3>2, <5>1
        <5>. QED
          BY <4>1, <5>1, <5>2
      <4>. QED
        BY <4>2, <4>3
    <3>5. Begun(h, n)
      BY <3>3, <3>4
    <3>. QED
      BY <3>5
  <2>. QED
    BY <2>4, <2>5
<1>2. ASSUME NEW n \in Nat, NEW m \in Nat, n <= m, NEW g, NEW h,
             Begun(g, n), Begun(h, m)
      PROVE  g[n] = h[n]
  <2>. DEFINE differ == {k \in 0 .. n : g[k] # h[k]}
  <2>1. SUFFICES ASSUME differ # {} PROVE FALSE
    OBVIOUS
  <2>2. PICK k \in differ : \A j \in differ : k <= j
    <3>1. differ \in SUBSET Nat
      OBVIOUS
    <3>. HIDE DEF differ
    <3>. QED
      BY <2>1, <3>1, MinIn
  <2>3. k # 0 /\ k - 1 \in 0 .. n - 1 /\ k - 1 \in 0 .. m - 1 /\ k - 1 \notin differ
    BY <1>2, <2>2
  <2>4. g[k - 1] = h[k - 1] /\ k = (k - 1) + 1
    BY <2>3
  <2>5. g[k] = step[g[k - 1]] /\ h[k] = step[h[k - 1]]
    BY <1>2, <2>3, <2>4
  <2>. QED
    BY <2>2, <2>4, <2>5
<1>3. PICK at : \A n \in Nat : Begun(at[n], n)
  <2>. DEFINE some == [n \in Nat |-> CHOOSE g : Begun(g, n)]
  <2>. HIDE DEF Begun
  <2>1. \A n \in Nat : Begun(some[n], n)
    BY <1>1
  <2>. QED
    BY <2>1
<1>. DEFINE c == [n \in Nat |-> at[n][n]]
<1>4. c \in [Nat -> D] /\ c[0] = start
  BY <1>3
<1>5. ASSUME NEW k \in Nat PROVE c[k + 1] = step[c[k]]
  <2>1. Begun(at[k], k) /\ Begun(at[k + 1], k + 1)
    <3>. HIDE DEF Begun
    <3>. QED
      BY <1>3
  <2>2. at[k][k] = at[k + 1][k]
    <3>. HIDE DEF Begun
    <3>. QED
      BY <1>2, <2>1
  <2>3. at[k + 1][k + 1] = step[at[k + 1][k]]
    <3>1. k \in 0 .. (k + 1) - 1
      OBVIOUS
    <3>. QED
      BY <2>1, <3>1, Zenon
  <2>. QED
    BY <2>2, <2>3
<1>. QED
  BY <1>4, <1>5

(* A function that is defined by what it is at a place of a smaller rank. *)
Descends(f, S, stop, val, next, step) ==
  \A s \in S : f[s] = IF s \in stop THEN val[s] ELSE step[<<s, f[next[s]]>>]

(* Places, the ranks below which there are no more, where to stop and with what,
   and where to go on and with what. *)
IsDescent(S, D, N, rank, stop, val, next, step) ==
  /\ N \in Nat /\ rank \in [S -> 0 .. N]
  /\ val \in [S -> D]
  /\ next \in [S -> S]
  /\ step \in [S \X D -> D]
  /\ \A s \in S : s \notin stop => rank[next[s]] < rank[s]

(* There is one, and whatever is one has its values where the steps have
   theirs. *)
LEMMA Descent ==
  ASSUME NEW S, NEW D, NEW N, NEW rank, NEW stop, NEW val, NEW next, NEW step,
         IsDescent(S, D, N, rank, stop, val, next, step)
  PROVE  /\ \E f \in [S -> D] : Descends(f, S, stop, val, next, step)
         /\ \A f : Descends(f, S, stop, val, next, step) => \A s \in S : f[s] \in D
<1>. DEFINE value(f, s) == IF s \in stop THEN val[s] ELSE step[<<s, f[next[s]]>>]
            Below(n)    == {s \in S : rank[s] <= n}
            Begun(f, n) == f \in [S -> D] /\ \A s \in Below(n) : f[s] = value(f, s)
            missing     == {n \in Nat : \A f : ~Begun(f, n)}
<1>1. /\ N \in Nat /\ rank \in [S -> 0 .. N]
      /\ val \in [S -> D] /\ next \in [S -> S] /\ step \in [S \X D -> D]
      /\ \A s \in S : s \notin stop => rank[next[s]] < rank[s]
  BY DEF IsDescent
<1>2. \A s \in S : rank[s] \in Nat /\ rank[s] <= N /\ next[s] \in S
  BY <1>1
<1>3. ASSUME NEW f \in [S -> D] PROVE \A s \in S : value(f, s) \in D
  <2>. SUFFICES ASSUME NEW s \in S PROVE value(f, s) \in D
    OBVIOUS
  <2>1. <<s, f[next[s]]>> \in S \X D
    BY <1>2
  <2>2. step[<<s, f[next[s]]>>] \in D /\ val[s] \in D
    BY <1>1, <2>1
  <2>. QED
    BY <2>2
<1>4. \A n \in Nat : \E f : Begun(f, n)
  <2>. HIDE DEF Begun
  <2>1. SUFFICES ASSUME missing # {} PROVE FALSE
    OBVIOUS
  <2>2. PICK n \in missing : \A m \in missing : n <= m
    <3>1. missing \in SUBSET Nat
      OBVIOUS
    <3>. HIDE DEF missing
    <3>. QED
      BY <2>1, <3>1, MinIn
  <2>3. n \in Nat /\ \A f : ~Begun(f, n)
    OBVIOUS
  <2>4. PICK f \in [S -> D] : n # 0 => Begun(f, n - 1)
    <3>1. CASE n = 0
      BY <1>1, <3>1
    <3>2. CASE n # 0
      <4>1. n - 1 \in Nat /\ ~(n <= n - 1)
        BY <2>3, <3>2
      <4>2. n - 1 \notin missing
        BY <2>2, <4>1
      <4>. QED
        BY <4>1, <4>2 DEF Begun
    <3>. QED
      BY <3>1, <3>2
  <2>. DEFINE g == [s \in S |-> value(f, s)]
  <2>5. g \in [S -> D]
    BY <1>3
  <2>6. ASSUME NEW s \in S, rank[s] <= n, s \notin stop PROVE g[next[s]] = f[next[s]]
    <3>1. n # 0 /\ next[s] \in Below(n - 1)
      BY <1>1, <1>2, <2>3, <2>6
    <3>. HIDE DEF value, Below
    <3>2. f[next[s]] = value(f, next[s])
      BY <2>4, <3>1 DEF Begun
    <3>. QED
      BY <1>2, <3>2
  <2>7. \A s \in Below(n) : g[s] = value(g, s)
    <3>. HIDE DEF g
    <3>1. \A s \in S : g[s] = value(f, s)
      BY DEF g
    <3>. QED
      BY <2>6, <3>1
  <2>. QED
    BY <2>3, <2>5, <2>7 DEF Begun
<1>5. \E f \in [S -> D] : Descends(f, S, stop, val, next, step)
  <2>1. PICK f : Begun(f, N)
    BY <1>1, <1>4
  <2>2. \A s \in S : s \in Below(N)
    BY <1>2
  <2>. QED
    BY <2>1, <2>2 DEF Descends
<1>6. ASSUME NEW f, Descends(f, S, stop, val, next, step)
      PROVE  \A s \in S : f[s] \in D
  <2>. DEFINE off == {n \in Nat : \E s \in S : rank[s] = n /\ f[s] \notin D}
  <2>1. SUFFICES ASSUME off # {} PROVE FALSE
    BY <1>2
  <2>2. PICK n \in off : \A m \in off : n <= m
    <3>1. off \in SUBSET Nat
      OBVIOUS
    <3>. HIDE DEF off
    <3>. QED
      BY <2>1, <3>1, MinIn
  <2>3. PICK s \in S : rank[s] = n /\ f[s] \notin D
    OBVIOUS
  <2>4. f[s] = value(f, s)
    BY <1>6 DEF Descends
  <2>5. s \notin stop
    BY <1>1, <2>3, <2>4
  <2>6. rank[next[s]] \notin off
    BY <1>1, <1>2, <2>2, <2>3, <2>5
  <2>7. f[next[s]] \in D
    BY <1>2, <2>6
  <2>8. <<s, f[next[s]]>> \in S \X D
    BY <2>7
  <2>. QED
    BY <1>1, <2>3, <2>4, <2>5, <2>8
<1>. QED
  BY <1>5, <1>6
=============================================================================
