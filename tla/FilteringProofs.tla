--------------------------- MODULE FilteringProofs ---------------------------
(***************************************************************************)
(* What Keeping computes, for every sequence and every set.  The proof is  *)
(* an induction over the turns of its loop.  The induction theorems of the *)
(* library have an operator as a parameter; but that "less than" on the    *)
(* numbers is well founded, and that a well-founded relation has minimal   *)
(* elements in every set, are stated of sets, so the turns for which       *)
(* something holds are put into a set, and the least one outside it, which *)
(* is none, is looked at (Least, Induction).                               *)
(***************************************************************************)
EXTENDS Filtering, FiniteSetTheorems, WellFoundedInduction, TLAPS

\* Some member of a set of numbers is the least.
LEMMA Least ==
    ASSUME NEW T \in SUBSET Nat, T # {}
    PROVE  \E x \in T : \A y \in T : x <= y
<1>1. IsWellFoundedOn(OpToRel(<,Nat), Nat)
  BY NatLessThanWellFounded
<1>2. PICK x \in T : \A y \in T : ~ (<<y, x>> \in OpToRel(<,Nat))
  BY <1>1, WFMin
<1>3. \A y \in T : ~ (y < x)
  BY <1>2 DEF OpToRel
<1> QED
  BY <1>3

\* What holds of 0, and of n + 1 when it holds of n, holds of every number up to m.
LEMMA Induction ==
    ASSUME NEW m \in Nat, NEW T, 0 \in T, \A n \in 0 .. m : n \in T /\ n < m => n + 1 \in T
    PROVE  \A n \in 0 .. m : n \in T
<1> DEFINE U == {n \in 0 .. m : n \notin T}
<1>1. SUFFICES ASSUME U # {} PROVE FALSE
  OBVIOUS
<1>2. PICK u \in U : \A y \in U : u <= y
  <2>1. U \in SUBSET Nat
    OBVIOUS
  <2> HIDE DEF U
  <2> QED
    BY <1>1, <2>1, Least
<1>3. u # 0 /\ u - 1 \in 0 .. m /\ u - 1 < m /\ u - 1 \notin U
  BY <1>2
<1> QED
  BY <1>3

-----------------------------------------------------------------------------
(* The loop *)

\* What the loop has kept after entry n, and its values up to m.
KeptAfter(s, K, before, n) == IF s[n] \in K THEN Append(before, s[n]) ELSE before

IsLoop(s, K, f, m) == f = [n \in 0 .. m |-> IF n = 0 THEN <<>> ELSE KeptAfter(s, K, f[n - 1], n)]

\* A function that does what the loop does exists, for each number of turns.
LEMMA LoopExists ==
    ASSUME NEW m \in Nat, NEW s, NEW K
    PROVE  \E f : IsLoop(s, K, f, m)
<1> DEFINE T == {n \in 0 .. m : \E f : IsLoop(s, K, f, n)}
<1>1. 0 \in T
  <2>1. IsLoop(s, K, [n \in 0 .. 0 |-> <<>>], 0)
    BY DEF IsLoop
  <2> QED
    BY <2>1
<1>2. ASSUME NEW n \in 0 .. m, n \in T, n < m PROVE n + 1 \in T
  <2>1. PICK f : IsLoop(s, K, f, n)
    BY <1>2
  <2> DEFINE g == [i \in 0 .. n + 1 |-> IF i = 0 THEN <<>> ELSE KeptAfter(s, K, f[i - 1], i)]
  <2>2. \A i \in 0 .. n : g[i] = f[i]
    BY <2>1 DEF IsLoop
  <2>3. g = [i \in 0 .. n + 1 |-> IF i = 0 THEN <<>> ELSE KeptAfter(s, K, g[i - 1], i)]
    <3>1. \A i \in 0 .. n + 1 : i # 0 => g[i - 1] = f[i - 1]
      BY <2>2
    <3> QED
      BY <3>1
  <2>4. IsLoop(s, K, g, n + 1)
    BY <2>3 DEF IsLoop
  <2> QED
    BY <2>4, <1>2
<1>3. m \in T
  <2> HIDE DEF T
  <2> QED
    BY <1>1, <1>2, Induction
<1> QED
  BY <1>3

\* So Keeping is what the loop has kept in the end.
LEMMA KeepingIsLoop ==
    ASSUME NEW s, NEW K, Len(s) \in Nat
    PROVE  \E f : IsLoop(s, K, f, Len(s)) /\ Keeping(s, K) = f[Len(s)]
<1> DEFINE f == CHOOSE g : IsLoop(s, K, g, Len(s))
<1>1. IsLoop(s, K, f, Len(s))
  BY LoopExists
<1>2. Keeping(s, K) = f[Len(s)]
  BY DEF Keeping, IsLoop, KeptAfter
<1> QED
  BY <1>1, <1>2

-----------------------------------------------------------------------------
(* What it keeps *)

\* at tells where in the first n entries of s those of t come from, and it misses none
\* that is in K.
Places(s, K, t, n, at) ==
    /\ at \in [1 .. Len(t) -> 1 .. n]
    /\ \A i \in 1 .. Len(t) : t[i] = s[at[i]]
    /\ \A i, j \in 1 .. Len(t) : i < j => at[i] < at[j]
    /\ \A k \in 1 .. n : s[k] \in K => \E i \in 1 .. Len(t) : at[i] = k

\* t holds the entries of the first n of s that are in K, in their order.
Keeps(s, K, t, n) == t \in Seq(K) /\ \E at : Places(s, K, t, n, at)

\* Each turn of the loop keeps what it has to.
LEMMA KeepsStep ==
    ASSUME NEW s, NEW K, NEW n \in Nat, NEW t, Keeps(s, K, t, n)
    PROVE  Keeps(s, K, KeptAfter(s, K, t, n + 1), n + 1)
<1>1. t \in Seq(K) /\ Len(t) \in Nat
  BY DEF Keeps
<1>2. PICK at : Places(s, K, t, n, at)
  BY DEF Keeps
<1>3. CASE s[n + 1] \notin K
  <2>1. KeptAfter(s, K, t, n + 1) = t
    BY <1>3 DEF KeptAfter
  <2>2. Places(s, K, t, n + 1, at)
    <3>1. at \in [1 .. Len(t) -> 1 .. n + 1]
      BY <1>1, <1>2 DEF Places
    <3>2. \A k \in 1 .. n + 1 : s[k] \in K => k \in 1 .. n
      BY <1>3
    <3> QED
      BY <1>2, <3>1, <3>2 DEF Places
  <2> QED
    BY <1>1, <2>1, <2>2 DEF Keeps
<1>4. CASE s[n + 1] \in K
  <2> DEFINE u == Append(t, s[n + 1])
  <2>1. KeptAfter(s, K, t, n + 1) = u
    BY <1>4 DEF KeptAfter
  <2>2. u \in Seq(K) /\ Len(u) = Len(t) + 1 /\ u[Len(t) + 1] = s[n + 1]
        /\ \A i \in 1 .. Len(t) : u[i] = t[i]
    BY <1>1, <1>4
  <2> HIDE DEF u
  <2> DEFINE bt == [i \in 1 .. Len(u) |-> IF i = Len(u) THEN n + 1 ELSE at[i]]
  <2>3. bt \in [1 .. Len(u) -> 1 .. n + 1]
    BY <1>1, <1>2, <2>2 DEF Places
  <2>4. \A i \in 1 .. Len(u) : u[i] = s[bt[i]]
    BY <1>1, <1>2, <2>2 DEF Places
  <2>5. ASSUME NEW i \in 1 .. Len(u), NEW j \in 1 .. Len(u), i < j PROVE bt[i] < bt[j]
    <3>1. i \in 1 .. Len(t) /\ at[i] \in 1 .. n /\ bt[i] = at[i]
      BY <1>1, <1>2, <2>2, <2>5 DEF Places
    <3>2. CASE j = Len(u)
      BY <3>1, <3>2
    <3>3. CASE j # Len(u)
      <4>1. j \in 1 .. Len(t) /\ bt[j] = at[j]
        BY <1>1, <2>2, <3>3
      <4> QED
        BY <1>2, <2>5, <3>1, <4>1 DEF Places
    <3> QED
      BY <3>2, <3>3
  <2>6. ASSUME NEW k \in 1 .. n + 1, s[k] \in K PROVE \E i \in 1 .. Len(u) : bt[i] = k
    <3>1. CASE k = n + 1
      BY <3>1, <1>1, <2>2
    <3>2. CASE k # n + 1
      <4>1. PICK i \in 1 .. Len(t) : at[i] = k
        BY <1>2, <2>6, <3>2 DEF Places
      <4> QED
        BY <4>1, <1>1, <2>2
    <3> QED
      BY <3>1, <3>2
  <2>7. Places(s, K, u, n + 1, bt)
    <3> HIDE DEF bt
    <3> QED
      BY <2>3, <2>4, <2>5, <2>6 DEF Places
  <2> QED
    BY <2>1, <2>2, <2>7 DEF Keeps
<1> QED
  BY <1>3, <1>4

\* The loop keeps exactly the entries that are in K, each as often as it is in s and in
\* the order of s, for every s and K (runner.go:221-232, workloadjobs.go:61-72,
\* broker.go:80-84).
THEOREM KeepingKeeps ==
    ASSUME NEW s, NEW K, Len(s) \in Nat
    PROVE  Keeps(s, K, Keeping(s, K), Len(s))
<1>1. PICK f : IsLoop(s, K, f, Len(s)) /\ Keeping(s, K) = f[Len(s)]
  BY KeepingIsLoop
<1> DEFINE T == {n \in 0 .. Len(s) : Keeps(s, K, f[n], n)}
<1>2. 0 \in T
  <2>1. f[0] = <<>>
    BY <1>1 DEF IsLoop
  <2>2. Places(s, K, <<>>, 0, <<>>)
    BY DEF Places
  <2>3. <<>> \in Seq(K)
    OBVIOUS
  <2>4. Keeps(s, K, f[0], 0)
    BY <2>1, <2>2, <2>3 DEF Keeps
  <2> QED
    BY <2>4
<1>3. ASSUME NEW n \in 0 .. Len(s), n \in T, n < Len(s) PROVE n + 1 \in T
  <2>1. f[n + 1] = KeptAfter(s, K, f[n], n + 1)
    BY <1>1, <1>3 DEF IsLoop
  <2> QED
    BY <1>3, <2>1, KeepsStep
<1>4. Len(s) \in T
  <2> HIDE DEF T
  <2>1. \A n \in 0 .. Len(s) : n \in T /\ n < Len(s) => n + 1 \in T
    BY <1>3
  <2>2. \A n \in 0 .. Len(s) : n \in T
    BY <1>2, <2>1, Induction
  <2> QED
    BY <2>2
<1> QED
  BY <1>1, <1>4

-----------------------------------------------------------------------------
(* A suffix *)

\* When what is in K is what comes after the first d entries, that is what is kept.
LEMMA KeepingSuffix ==
    ASSUME NEW s, NEW K, Len(s) \in Nat, NEW d \in 0 .. Len(s),
           \A n \in 1 .. Len(s) : s[n] \in K <=> n > d
    PROVE  /\ Len(Keeping(s, K)) = Len(s) - d
           /\ \A i \in 1 .. Len(s) - d : Keeping(s, K)[i] = s[d + i]
<1> DEFINE t == Keeping(s, K)
           l == Len(s)
           m == Len(t)
<1>1. t \in Seq(K) /\ \E at : Places(s, K, t, l, at)
  BY KeepingKeeps DEF Keeps
<1>2. m \in Nat /\ l \in Nat
  BY <1>1
<1>3. PICK at : Places(s, K, t, l, at)
  BY <1>1
<1>4. /\ \A i \in 1 .. m : t[i] = s[at[i]] /\ at[i] \in 1 .. l
      /\ \A i, j \in 1 .. m : i < j => at[i] < at[j]
  BY <1>3 DEF Places
<1>5. \A i \in 1 .. m : at[i] \in (d + 1) .. l
  <2>1. \A i \in 1 .. m : t[i] \in K
    BY <1>1
  <2>. QED
    BY <1>2, <1>4, <2>1
<1>6. \A n \in (d + 1) .. l : \E i \in 1 .. m : at[i] = n
  BY <1>2, <1>3 DEF Places
<1> HIDE DEF t, l, m
<1>7. \A i \in 1 .. m : at[i] = d + i
  <2> DEFINE U == {i \in 1 .. m : at[i] # d + i}
  <2>1. SUFFICES ASSUME U # {} PROVE FALSE
    OBVIOUS
  <2>2. PICK u \in U : \A i \in U : u <= i
    <3>1. U \in SUBSET Nat
      BY <1>2
    <3> HIDE DEF U
    <3>. QED
      BY <2>1, <3>1, Least
  <2>3. \A i \in 1 .. m : i < u => at[i] = d + i
    BY <1>2, <2>2
  <2>4. CASE at[u] > d + u
    <3>1. PICK i \in 1 .. m : at[i] = d + u
      BY <1>2, <1>5, <1>6, <2>2, <2>4
    <3>2. i < u
      BY <1>2, <1>4, <1>5, <2>2, <2>4, <3>1
    <3>. QED
      BY <1>2, <2>2, <2>3, <3>1, <3>2
  <2>5. CASE at[u] < d + u
    <3>1. at[u] - d \in 1 .. m /\ at[u] - d < u
      BY <1>2, <1>5, <2>2, <2>5
    <3>2. at[at[u] - d] = at[u]
      BY <1>5, <2>2, <2>3, <3>1
    <3>. QED
      BY <1>2, <1>4, <1>5, <2>2, <3>1, <3>2
  <2>6. u \in 1 .. m /\ at[u] # d + u /\ at[u] \in (d + 1) .. l
    BY <1>5, <2>2
  <2>. QED
    BY <1>2, <2>4, <2>5, <2>6
<1>8. m = l - d
  <2>1. m > 0 => d + m <= l
    BY <1>2, <1>5, <1>7
  <2>2. ASSUME l > d PROVE l - d <= m
    <3>1. l \in (d + 1) .. l
      BY <1>2, <2>2
    <3>2. PICK i \in 1 .. m : at[i] = l
      BY <1>6, <3>1
    <3>3. at[i] = d + i
      BY <1>7
    <3>. QED
      BY <1>2, <3>2, <3>3
  <2>. QED
    BY <1>2, <2>1, <2>2 DEF l
<1>. QED
  BY <1>2, <1>4, <1>7, <1>8 DEF t, l, m

-----------------------------------------------------------------------------
(* Lists *)

\* s lists the members of S, each once.
Lists(s, S) ==
    /\ s \in Seq(S)
    /\ \A x \in S : \E n \in 1 .. Len(s) : s[n] = x
    /\ \A m, n \in 1 .. Len(s) : s[m] = s[n] => m = n

\* A list is as long as its set has members.
LEMMA ListLength ==
    ASSUME NEW S, NEW s, Lists(s, S)
    PROVE  IsFiniteSet(S) /\ Cardinality(S) = Len(s)
<1>1. s \in [1 .. Len(s) -> S] /\ Len(s) \in Nat
  BY DEF Lists
<1>2. s \in Bijection(1 .. Len(s), S)
  BY <1>1 DEF Lists, Bijection, Injection, IsInjective, Surjection
<1>3. ExistsBijection(1 .. Len(s), S)
  BY <1>2 DEF ExistsBijection
<1> QED
  BY <1>1, <1>3, FS_NatBijection, FS_CountingElements

\* What is kept of a list is a list of those in K.
LEMMA KeepingLists ==
    ASSUME NEW S, NEW s, Lists(s, S), NEW K
    PROVE  Lists(Keeping(s, K), S \cap K)
<1> DEFINE t == Keeping(s, K)
<1>1. Len(s) \in Nat
  BY DEF Lists
<1>2. t \in Seq(K) /\ \E at : Places(s, K, t, Len(s), at)
  BY <1>1, KeepingKeeps DEF Keeps
<1> HIDE DEF t
<1>3. PICK at : Places(s, K, t, Len(s), at)
  BY <1>2
<1>4. Len(t) \in Nat
  BY <1>2
<1>5. \A i \in 1 .. Len(t) : t[i] \in S \cap K
  BY <1>2, <1>3 DEF Places, Lists
<1>6. t \in Seq(S \cap K)
  BY <1>2, <1>5
<1>7. ASSUME NEW x \in S \cap K PROVE \E i \in 1 .. Len(t) : t[i] = x
  <2>1. PICK n \in 1 .. Len(s) : s[n] = x
    BY DEF Lists
  <2>2. PICK i \in 1 .. Len(t) : at[i] = n
    BY <1>3, <2>1 DEF Places
  <2> QED
    BY <1>3, <2>1, <2>2 DEF Places
<1>8. ASSUME NEW i \in 1 .. Len(t), NEW j \in 1 .. Len(t), t[i] = t[j] PROVE i = j
  <2>1. at[i] = at[j] /\ at[i] \in Nat
    <3>1. at[i] \in 1 .. Len(s) /\ at[j] \in 1 .. Len(s) /\ s[at[i]] = s[at[j]]
      BY <1>3, <1>8 DEF Places
    <3>2. \A m, n \in 1 .. Len(s) : s[m] = s[n] => m = n
      BY DEF Lists
    <3>3. at[i] = at[j]
      BY <3>1, <3>2, Zenon
    <3> QED
      BY <1>1, <3>1, <3>3
  <2>2. ~ (i < j) /\ ~ (j < i)
    BY <1>1, <1>3, <2>1 DEF Places
  <2> QED
    BY <1>4, <2>2
<1> QED
  BY <1>6, <1>7, <1>8 DEF Lists, t

\* A list with one more entry.
LEMMA AppendLists ==
    ASSUME NEW S, NEW s, Lists(s, S), NEW x, x \notin S
    PROVE  Lists(Append(s, x), S \cup {x})
<1> DEFINE t == Append(s, x)
<1>1. s \in Seq(S) /\ Len(s) \in Nat
  BY DEF Lists
<1>2. /\ t \in Seq(S \cup {x}) /\ Len(t) = Len(s) + 1 /\ t[Len(t)] = x
      /\ \A n \in 1 .. Len(s) : t[n] = s[n] /\ s[n] \in S
  <2>1. s \in Seq(S \cup {x})
    BY <1>1
  <2> QED
    BY <1>1, <2>1
<1> HIDE DEF t
<1>3. \A y \in S \cup {x} : \E n \in 1 .. Len(t) : t[n] = y
  BY <1>1, <1>2 DEF Lists
<1>4. ASSUME NEW m \in 1 .. Len(t), NEW n \in 1 .. Len(t), t[m] = t[n] PROVE m = n
  <2>1. CASE m \in 1 .. Len(s) /\ n \in 1 .. Len(s)
    BY <1>2, <1>4, <2>1 DEF Lists
  <2>2. CASE m = Len(t) \/ n = Len(t)
    <3>1. \A k \in 1 .. Len(s) : t[k] # x
      BY <1>2
    <3> QED
      BY <1>1, <1>2, <1>4, <2>2, <3>1
  <2> QED
    BY <1>1, <1>2, <2>1, <2>2
<1> QED
  BY <1>2, <1>3, <1>4 DEF Lists, t
=============================================================================
