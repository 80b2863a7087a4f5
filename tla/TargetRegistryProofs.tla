------------------------- MODULE TargetRegistryProofs -------------------------
(* Proofs about TargetRegistry: for every set of spellings, every manifest, *)
(* every list of ranges and any number of reloads.                          *)
EXTENDS TargetRegistry, SequenceTheorems, WellFoundedInduction, TLAPS

-----------------------------------------------------------------------------
(* What Only keeps. *)

LEMMA NatLeast ==
    ASSUME NEW T, T \subseteq Nat, T # {}
    PROVE  \E x \in T : \A y \in T : x <= y
<1>1. OpToRel(<, Nat) = {ss \in Nat \X Nat : ss[1] < ss[2]}
  BY DEF OpToRel
<1>2. \E x \in T : \A y \in T : ~ (<<y, x>> \in OpToRel(<, Nat))
  BY NatLessThanWellFounded, WFMin
<1>3. \E x \in T : \A y \in T : ~ (<<y, x>> \in {ss \in Nat \X Nat : ss[1] < ss[2]})
  BY <1>1, <1>2, Zenon
<1>4. PICK x \in T : \A y \in T : ~ (<<y, x>> \in {ss \in Nat \X Nat : ss[1] < ss[2]})
  BY <1>3
<1>5. \A y \in T : ~ (y < x)
  <2> TAKE y \in T
  <2>1. <<y, x>> \in Nat \X Nat
    OBVIOUS
  <2> QED
    BY <1>4, <2>1
<1>6. \A y \in T : y \in Nat /\ x \in Nat
  OBVIOUS
<1> QED
  BY <1>5, <1>6

\* f is the record of a pass over s: f[i] is what is kept of the first i.
Pass(s, K, f) ==
    f = [i \in 0..Len(s) |-> IF i = 0 THEN <<>>
                             ELSE IF s[i] \in K THEN Append(f[i - 1], s[i])
                             ELSE f[i - 1]]

\* The value of f[n], f of n - 1 known.
Grown(s, K, f, n) == IF n = 0 THEN <<>>
                     ELSE IF s[n] \in K THEN Append(f[n - 1], s[n]) ELSE f[n - 1]

\* There is a pass over every sequence.
LEMMA PassExists ==
    ASSUME NEW S, NEW s \in Seq(S), NEW K
    PROVE  \E f : Pass(s, K, f)
<1>1. Len(s) \in Nat
  BY LenProperties
<1> DEFINE Good(n) == \E f : /\ DOMAIN f = 0..n
                            /\ \A i \in 0..n : f[i] = Grown(s, K, f, i)
           T == {n \in 0..Len(s) : ~ Good(n)}
<1>2. T = {}
  <2> SUFFICES ASSUME T # {} PROVE FALSE
    OBVIOUS
  <2>1. T \subseteq Nat
    OBVIOUS
  <2>2. PICK n \in T : \A m \in T : n <= m
    <3> HIDE DEF T
    <3> QED
      BY <2>1, NatLeast
  <2>3. n \in Nat /\ n \in 0..Len(s) /\ ~ Good(n)
    BY <1>1
  <2>4. n # 0
    <3>1. Good(0)
      <4>1. /\ DOMAIN [i \in 0..0 |-> <<>>] = 0..0
            /\ \A i \in 0..0 : [j \in 0..0 |-> <<>>][i] = Grown(s, K, [j \in 0..0 |-> <<>>], i)
        BY DEF Grown
      <4> QED
        BY <4>1
    <3> QED
      BY <2>3, <3>1
  <2>5. n - 1 \in 0..Len(s) /\ n - 1 \in Nat /\ n - 1 \notin T
    <3> HIDE DEF Good
    <3> QED
      BY <1>1, <2>2, <2>3, <2>4
  <2>6. Good(n - 1)
    BY <2>5
  <2>7. PICK f : /\ DOMAIN f = 0..(n - 1)
                 /\ \A i \in 0..(n - 1) : f[i] = Grown(s, K, f, i)
    BY <2>6
  <2> DEFINE g == [i \in 0..n |-> IF i = n THEN Grown(s, K, f, n) ELSE f[i]]
  <2>8. \A i \in 0..n : g[i] = Grown(s, K, g, i)
    <3> SUFFICES ASSUME NEW i \in 0..n PROVE g[i] = Grown(s, K, g, i)
      OBVIOUS
    <3>1. i # 0 => i - 1 \in 0..n /\ i - 1 # n
      BY <2>3
    <3>2. i # 0 => g[i - 1] = f[i - 1]
      BY <3>1
    <3>3. Grown(s, K, g, i) = Grown(s, K, f, i)
      <4> HIDE DEF g
      <4> QED
        BY <3>2 DEF Grown
    <3>4. i # n => i \in 0..(n - 1)
      BY <2>3
    <3>5. g[i] = Grown(s, K, f, i)
      BY <2>7, <3>4
    <3> QED
      BY <3>3, <3>5
  <2>9. DOMAIN g = 0..n
    OBVIOUS
  <2>10. Good(n)
    <3> HIDE DEF g
    <3> QED
      BY <2>8, <2>9
  <2> QED
    BY <2>3, <2>10
<1>3. Good(Len(s))
  <2>1. Len(s) \in 0..Len(s)
    BY <1>1
  <2> QED
    BY <1>2, <2>1
<1>4. PICK f : /\ DOMAIN f = 0..Len(s)
               /\ \A i \in 0..Len(s) : f[i] = Grown(s, K, f, i)
  BY <1>3
<1> DEFINE h == [i \in 0..Len(s) |-> Grown(s, K, f, i)]
<1>5. \A i \in 0..Len(s) : h[i] = f[i]
  BY <1>4
<1>6. h = [i \in 0..Len(s) |-> Grown(s, K, h, i)]
  <2>1. \A i \in 0..Len(s) : Grown(s, K, h, i) = Grown(s, K, f, i)
    <3> SUFFICES ASSUME NEW i \in 0..Len(s) PROVE Grown(s, K, h, i) = Grown(s, K, f, i)
      OBVIOUS
    <3>1. i # 0 => i - 1 \in 0..Len(s)
      BY <1>1
    <3> HIDE DEF h
    <3> QED
      BY <1>5, <3>1 DEF Grown
  <2> QED
    BY <2>1
<1> HIDE DEF h
<1>7. Pass(s, K, h)
  BY <1>6, Zenon DEF Pass, Grown
<1> QED
  BY <1>7

\* Only is the last value of a pass.
LEMMA OnlyPass ==
    ASSUME NEW S, NEW s \in Seq(S), NEW K
    PROVE  \E f : /\ Only(s, K) = f[Len(s)] /\ f[0] = <<>>
                  /\ \A i \in 1..Len(s) :
                       f[i] = IF s[i] \in K THEN Append(f[i - 1], s[i]) ELSE f[i - 1]
<1> DEFINE f == CHOOSE g : Pass(s, K, g)
<1>1. Pass(s, K, f)
  BY PassExists
<1>2. Only(s, K) = f[Len(s)]
  BY DEF Only, Pass
<1> HIDE DEF f
<1>3. Len(s) \in Nat
  BY LenProperties
<1>4. f[0] = <<>>
  BY <1>1, <1>3 DEF Pass
<1>5. \A i \in 1..Len(s) : f[i] = IF s[i] \in K THEN Append(f[i - 1], s[i]) ELSE f[i - 1]
  <2> TAKE i \in 1..Len(s)
  <2>1. i \in 0..Len(s) /\ i # 0
    OBVIOUS
  <2> QED
    BY <1>1, <2>1 DEF Pass
<1> QED
  BY <1>2, <1>4, <1>5

\* Induction up to a bound, with the set of the numbers it holds for.
LEMMA StepByStep ==
    ASSUME NEW N \in Nat, NEW T, 0 \in T,
           \A n \in 1..N : n - 1 \in T => n \in T
    PROVE  \A n \in 0..N : n \in T
<1> DEFINE R == {n \in 0..N : n \notin T}
<1> SUFFICES R = {}
  OBVIOUS
<1> SUFFICES ASSUME R # {} PROVE FALSE
  OBVIOUS
<1>1. R \subseteq Nat
  OBVIOUS
<1>2. PICK n \in R : \A m \in R : n <= m
  <2> HIDE DEF R
  <2> QED
    BY <1>1, NatLeast
<1>3. n \in 0..N /\ n \notin T /\ n # 0
  OBVIOUS
<1>4. n \in 1..N /\ n - 1 \in 0..N /\ ~(n <= n - 1)
  BY <1>3
<1>5. n - 1 \in T
  BY <1>2, <1>4
<1> QED
  BY <1>3, <1>4, <1>5

\* t is made of the elements of the first n of s that are in K: h says where
\* each of them comes from.
Picks(S, s, K, n, t, h) ==
    /\ t \in Seq(S)
    /\ h \in [1..Len(t) -> 1..n]
    /\ \A j \in 1..Len(t) : t[j] = s[h[j]] /\ t[j] \in K
    /\ \A i, j \in 1..Len(t) : i < j => h[i] < h[j]
    /\ \A i \in 1..n : s[i] \in K => \E j \in 1..Len(t) : h[j] = i

LEMMA PicksNone ==
    ASSUME NEW S, NEW s, NEW K
    PROVE  \E h : Picks(S, s, K, 0, <<>>, h)
<1>1. <<>> \in Seq(S) /\ Len(<<>>) = 0
  BY EmptySeq
<1>2. Picks(S, s, K, 0, <<>>, [i \in 1..0 |-> i])
  BY <1>1 DEF Picks
<1> QED
  BY <1>2

LEMMA PicksMore ==
    ASSUME NEW S, NEW s \in Seq(S), NEW K, NEW n \in 1..Len(s), NEW t, NEW h,
           Picks(S, s, K, n - 1, t, h)
    PROVE  /\ s[n] \in K => \E g : Picks(S, s, K, n, Append(t, s[n]), g)
           /\ s[n] \notin K => Picks(S, s, K, n, t, h)
<1>1. Len(s) \in Nat /\ s[n] \in S /\ n \in Nat /\ n \in 1..n
  BY LenProperties, ElementOfSeq
<1>2. t \in Seq(S) /\ Len(t) \in Nat /\ h \in [1..Len(t) -> 1..(n - 1)]
  BY LenProperties DEF Picks
<1>3. \A j \in 1..Len(t) : h[j] \in 1..n /\ h[j] < n /\ h[j] \in Nat
  BY <1>1, <1>2
<1>4. \A i \in 1..n : i = n \/ i \in 1..(n - 1)
  BY <1>1
<1>5. ASSUME s[n] \in K PROVE \E g : Picks(S, s, K, n, Append(t, s[n]), g)
  <2> DEFINE u == Append(t, s[n])
             g == [j \in 1..(Len(t) + 1) |-> IF j = Len(t) + 1 THEN n ELSE h[j]]
  <2>1. /\ u \in Seq(S) /\ Len(u) = Len(t) + 1 /\ u[Len(t) + 1] = s[n]
        /\ \A j \in 1..Len(t) : u[j] = t[j]
    BY <1>1, <1>2, AppendProperties
  <2>2. \A j \in 1..(Len(t) + 1) : j = Len(t) + 1 \/ j \in 1..Len(t)
    BY <1>2
  <2>3. Len(t) + 1 \in 1..(Len(t) + 1) /\ \A j \in 1..Len(t) : j # Len(t) + 1 /\ j \in 1..(Len(t) + 1)
    BY <1>2
  <2>4. g[Len(t) + 1] = n /\ \A j \in 1..Len(t) : g[j] = h[j]
    BY <2>3
  <2>5. g \in [1..(Len(t) + 1) -> 1..n]
    BY <1>1, <1>3, <2>2
  <2> HIDE DEF u, g
  <2>6. \A j \in 1..Len(u) : u[j] = s[g[j]] /\ u[j] \in K
    <3>1. \A j \in 1..Len(t) : t[j] = s[h[j]] /\ t[j] \in K
      BY DEF Picks
    <3>2. \A j \in 1..Len(t) : u[j] = s[g[j]] /\ u[j] \in K
      BY <2>1, <2>4, <3>1
    <3>3. u[Len(t) + 1] = s[g[Len(t) + 1]] /\ u[Len(t) + 1] \in K
      BY <1>5, <2>1, <2>4
    <3> QED
      BY <2>1, <2>2, <3>2, <3>3
  <2>7. \A i, j \in 1..Len(u) : i < j => g[i] < g[j]
    <3> SUFFICES ASSUME NEW i \in 1..Len(u), NEW j \in 1..Len(u), i < j PROVE g[i] < g[j]
      OBVIOUS
    <3>1. i \in 1..Len(t)
      BY <1>2, <2>1
    <3>2. CASE j = Len(t) + 1
      BY <1>3, <2>4, <3>1, <3>2
    <3>3. CASE j \in 1..Len(t)
      BY <2>4, <3>1, <3>3 DEF Picks
    <3> QED
      BY <2>1, <2>2, <3>2, <3>3
  <2>8. \A i \in 1..n : s[i] \in K => \E j \in 1..Len(u) : g[j] = i
    <3> SUFFICES ASSUME NEW i \in 1..n, s[i] \in K PROVE \E j \in 1..Len(u) : g[j] = i
      OBVIOUS
    <3>1. CASE i = n
      BY <2>1, <2>3, <2>4, <3>1
    <3>2. CASE i \in 1..(n - 1)
      <4>1. PICK j \in 1..Len(t) : h[j] = i
        BY <3>2 DEF Picks
      <4> QED
        BY <2>1, <2>3, <2>4, <4>1
    <3> QED
      BY <1>4, <3>1, <3>2
  <2>9. Picks(S, s, K, n, u, g)
    BY <2>1, <2>5, <2>6, <2>7, <2>8 DEF Picks
  <2> QED
    BY <2>9 DEF u
<1>6. ASSUME s[n] \notin K PROVE Picks(S, s, K, n, t, h)
  <2>1. h \in [1..Len(t) -> 1..n]
    BY <1>2, <1>3
  <2>2. \A i \in 1..n : s[i] \in K => \E j \in 1..Len(t) : h[j] = i
    BY <1>4, <1>6 DEF Picks
  <2> QED
    BY <2>1, <2>2 DEF Picks
<1> QED
  BY <1>5, <1>6

LEMMA OnlyPicks ==
    ASSUME NEW S, NEW s \in Seq(S), NEW K
    PROVE  \E h : Picks(S, s, K, Len(s), Only(s, K), h)
<1>1. PICK f : /\ Only(s, K) = f[Len(s)] /\ f[0] = <<>>
               /\ \A i \in 1..Len(s) :
                    f[i] = IF s[i] \in K THEN Append(f[i - 1], s[i]) ELSE f[i - 1]
  BY OnlyPass
<1> DEFINE T == {n \in 0..Len(s) : \E h : Picks(S, s, K, n, f[n], h)}
<1>2. Len(s) \in Nat
  BY LenProperties
<1>3. 0 \in T
  <2>1. \E h : Picks(S, s, K, 0, f[0], h)
    BY <1>1, PicksNone
  <2>2. 0 \in 0..Len(s)
    BY <1>2
  <2> QED
    BY <2>1, <2>2
<1>4. \A n \in 1..Len(s) : n - 1 \in T => n \in T
  <2> SUFFICES ASSUME NEW n \in 1..Len(s), n - 1 \in T PROVE n \in T
    OBVIOUS
  <2>1. PICK h : Picks(S, s, K, n - 1, f[n - 1], h)
    OBVIOUS
  <2>2. f[n] = IF s[n] \in K THEN Append(f[n - 1], s[n]) ELSE f[n - 1]
    BY <1>1
  <2>3. \E g : Picks(S, s, K, n, f[n], g)
    BY <2>1, <2>2, PicksMore
  <2> QED
    BY <2>3
<1>5. Len(s) \in T
  <2> HIDE DEF T
  <2>1. \A n \in 0..Len(s) : n \in T
    BY <1>2, <1>3, <1>4, StepByStep
  <2> QED
    BY <1>2, <2>1
<1> QED
  BY <1>1, <1>5

\* What is kept of two sequences in a row.
LEMMA OnlyConcat ==
    ASSUME NEW S, NEW s \in Seq(S), NEW t \in Seq(S), NEW K
    PROVE  Only(s \o t, K) = Only(s, K) \o Only(t, K)
<1>1. PICK a : /\ Only(s, K) = a[Len(s)] /\ a[0] = <<>>
               /\ \A i \in 1..Len(s) :
                    a[i] = IF s[i] \in K THEN Append(a[i - 1], s[i]) ELSE a[i - 1]
  BY OnlyPass
<1>2. PICK b : /\ Only(t, K) = b[Len(t)] /\ b[0] = <<>>
               /\ \A i \in 1..Len(t) :
                    b[i] = IF t[i] \in K THEN Append(b[i - 1], t[i]) ELSE b[i - 1]
  BY OnlyPass
<1>3. /\ s \o t \in Seq(S) /\ Len(s \o t) = Len(s) + Len(t)
      /\ \A i \in 1..Len(s) + Len(t) :
           (s \o t)[i] = IF i <= Len(s) THEN s[i] ELSE t[i - Len(s)]
  BY ConcatProperties
<1> DEFINE w == s \o t
<1>4. PICK f : /\ Only(w, K) = f[Len(w)] /\ f[0] = <<>>
               /\ \A i \in 1..Len(w) :
                    f[i] = IF w[i] \in K THEN Append(f[i - 1], w[i]) ELSE f[i - 1]
  <2>1. w \in Seq(S)
    BY <1>3
  <2> HIDE DEF w
  <2> QED
    BY <2>1, OnlyPass
<1>5. PICK M \in Nat : M = Len(s)
  BY LenProperties
<1>6. PICK N \in Nat : N = Len(t)
  BY LenProperties
<1>7. /\ \A i \in 1..M : i \in 1..Len(w) /\ w[i] = s[i]
      /\ \A i \in 1..N : M + i \in 1..Len(w) /\ w[M + i] = t[i]
  <2>1. \A i \in 1..M : i \in 1..(M + N) /\ i <= M
    BY <1>5, <1>6
  <2>2. \A i \in 1..N : M + i \in 1..(M + N) /\ ~(M + i <= M) /\ M + i - M = i
    BY <1>5, <1>6
  <2> QED
    <3>1. \A i \in 1..(M + N) : i \in 1..Len(s \o t) /\ (s \o t)[i] = IF i <= M THEN s[i] ELSE t[i - M]
      BY <1>3, <1>5, <1>6
    <3>2. \A i \in 1..M : i \in 1..Len(s \o t) /\ (s \o t)[i] = s[i]
      BY <2>1, <3>1
    <3>3. \A i \in 1..N : M + i \in 1..Len(s \o t) /\ (s \o t)[M + i] = t[i]
      BY <2>2, <3>1
    <3> QED
      BY <3>2, <3>3
<1>8. Len(w) = M + N
  BY <1>3, <1>5, <1>6
<1> HIDE DEF w
<1> DEFINE A == {n \in 0..M : f[n] = a[n] /\ a[n] \in Seq(S)}
<1>9. 0 \in A
  <2>1. f[0] = a[0] /\ a[0] \in Seq(S) /\ 0 \in 0..M
    BY <1>1, <1>4, EmptySeq
  <2> QED
    BY <2>1
<1>10. \A n \in 1..M : n - 1 \in A => n \in A
  <2> SUFFICES ASSUME NEW n \in 1..M, n - 1 \in A PROVE n \in A
    OBVIOUS
  <2>0. n \in 1..Len(w) /\ w[n] = s[n] /\ n \in 1..Len(s)
    BY <1>5, <1>7
  <2>1. /\ f[n] = IF s[n] \in K THEN Append(f[n - 1], s[n]) ELSE f[n - 1]
        /\ a[n] = IF s[n] \in K THEN Append(a[n - 1], s[n]) ELSE a[n - 1]
    BY <1>1, <1>4, <2>0
  <2>2. f[n - 1] = a[n - 1] /\ a[n - 1] \in Seq(S) /\ s[n] \in S /\ n \in 0..M
    BY <1>5, ElementOfSeq
  <2>3. Append(a[n - 1], s[n]) \in Seq(S)
    BY <2>2, AppendProperties
  <2>4. f[n] = a[n]
    BY <2>1, <2>2
  <2>5. a[n] \in Seq(S)
    BY <2>1, <2>2, <2>3
  <2> QED
    BY <2>2, <2>4, <2>5
<1>11. f[M] = a[M] /\ a[M] \in Seq(S)
  <2> HIDE DEF A
  <2>1. \A n \in 0..M : n \in A
    BY <1>9, <1>10, StepByStep
  <2>2. M \in A
    BY <2>1
  <2> QED
    BY <2>2 DEF A
<1> HIDE DEF A
<1> DEFINE B == {n \in 0..N : f[M + n] = a[M] \o b[n] /\ b[n] \in Seq(S)}
<1>12. 0 \in B
  <2>1. a[M] \o <<>> = a[M] /\ <<>> \in Seq(S) /\ M + 0 = M /\ 0 \in 0..N
    BY <1>11, ConcatEmptySeq, EmptySeq
  <2> QED
    BY <1>2, <1>11, <2>1
<1>13. \A n \in 1..N : n - 1 \in B => n \in B
  <2> SUFFICES ASSUME NEW n \in 1..N, n - 1 \in B PROVE n \in B
    OBVIOUS
  <2>1. M + n - 1 = M + (n - 1) /\ n \in 0..N
    OBVIOUS
  <2>2. f[M + n] = IF t[n] \in K THEN Append(f[M + (n - 1)], t[n]) ELSE f[M + (n - 1)]
    <3>1. f[M + n] = IF w[M + n] \in K THEN Append(f[M + n - 1], w[M + n]) ELSE f[M + n - 1]
      <4>1. M + n \in 1..Len(w)
        BY <1>7
      <4> DEFINE m == M + n
      <4>2. m \in 1..Len(w)
        BY <4>1
      <4> HIDE DEF m
      <4>3. f[m] = IF w[m] \in K THEN Append(f[m - 1], w[m]) ELSE f[m - 1]
        BY <1>4, <4>2
      <4> QED
        BY <4>3 DEF m
    <3>2. w[M + n] = t[n]
      BY <1>7
    <3> QED
      BY <2>1, <3>1, <3>2
  <2>3. b[n] = IF t[n] \in K THEN Append(b[n - 1], t[n]) ELSE b[n - 1]
    BY <1>2, <1>6
  <2>4. f[M + (n - 1)] = a[M] \o b[n - 1] /\ b[n - 1] \in Seq(S) /\ t[n] \in S
    BY <1>6, ElementOfSeq
  <2>5. Append(b[n - 1], t[n]) \in Seq(S) /\ Append(b[n - 1], t[n]) = b[n - 1] \o <<t[n]>>
    BY <2>4, AppendProperties, AppendIsConcat
  <2>6. a[M] \o b[n - 1] \in Seq(S)
    BY <1>11, <2>4, ConcatProperties
  <2>7. Append(a[M] \o b[n - 1], t[n]) = (a[M] \o b[n - 1]) \o <<t[n]>>
    BY <2>4, <2>6, AppendIsConcat
  <2>8. <<t[n]>> \in Seq(S)
    <3>1. Append(<<>>, t[n]) \in Seq(S) /\ Append(<<>>, t[n]) = <<>> \o <<t[n]>>
      BY <2>4, EmptySeq, AppendProperties, AppendIsConcat
    <3> QED
      BY <2>4
  <2>9. (a[M] \o b[n - 1]) \o <<t[n]>> = a[M] \o (b[n - 1] \o <<t[n]>>)
    <3> DEFINE u == a[M]
               v == b[n - 1]
               x == <<t[n]>>
    <3>1. u \in Seq(S) /\ v \in Seq(S) /\ x \in Seq(S)
      BY <1>11, <2>4, <2>8
    <3> HIDE DEF u, v, x
    <3>2. (u \o v) \o x = u \o (v \o x)
      BY <3>1, ConcatAssociative
    <3> QED
      BY <3>2 DEF u, v, x
  <2> QED
    BY <2>1, <2>2, <2>3, <2>4, <2>5, <2>7, <2>9
<1>14. f[M + N] = a[M] \o b[N]
  <2> HIDE DEF B
  <2>1. \A n \in 0..N : n \in B
    BY <1>12, <1>13, StepByStep
  <2>2. N \in B
    BY <2>1
  <2> QED
    BY <2>2 DEF B
<1> QED
  BY <1>1, <1>2, <1>4, <1>5, <1>6, <1>8, <1>14 DEF w

\* Nothing is kept of a sequence without members of K, and all of one with
\* members of K alone.
LEMMA OnlyNone ==
    ASSUME NEW S, NEW s \in Seq(S), NEW K, \A i \in 1..Len(s) : s[i] \notin K
    PROVE  Only(s, K) = <<>>
<1>1. PICK h : Picks(S, s, K, Len(s), Only(s, K), h)
  BY OnlyPicks
<1>2. Only(s, K) \in Seq(S) /\ Len(Only(s, K)) \in Nat
  BY <1>1, LenProperties DEF Picks
<1>3. \A j \in 1..Len(Only(s, K)) : h[j] \in 1..Len(s) /\ s[h[j]] \in K
  BY <1>1 DEF Picks
<1>4. Len(Only(s, K)) = 0
  BY <1>2, <1>3
<1> QED
  BY <1>2, <1>4, EmptySeq

LEMMA OnlyAll ==
    ASSUME NEW S, NEW s \in Seq(S), NEW K, \A i \in 1..Len(s) : s[i] \in K
    PROVE  Only(s, K) = s
<1>1. PICK f : /\ Only(s, K) = f[Len(s)] /\ f[0] = <<>>
               /\ \A i \in 1..Len(s) :
                    f[i] = IF s[i] \in K THEN Append(f[i - 1], s[i]) ELSE f[i - 1]
  BY OnlyPass
<1>2. PICK N \in Nat : N = Len(s)
  BY LenProperties
<1> DEFINE A == {n \in 0..N : f[n] = SubSeq(s, 1, n)}
<1>3. 0 \in A
  <2>1. SubSeq(s, 1, 0) = <<>> /\ 0 \in 0..N
    BY SubSeqEmpty
  <2> QED
    BY <1>1, <2>1
<1>4. \A n \in 1..N : n - 1 \in A => n \in A
  <2> SUFFICES ASSUME NEW n \in 1..N, n - 1 \in A PROVE n \in A
    OBVIOUS
  <2>1. f[n] = Append(SubSeq(s, 1, n - 1), s[n]) /\ n \in 0..N
    <3>1. n \in 1..Len(s) /\ n \in 0..N
      BY <1>2
    <3>2. f[n - 1] = SubSeq(s, 1, n - 1)
      OBVIOUS
    <3>3. f[n] = Append(f[n - 1], s[n])
      BY <1>1, <3>1
    <3> QED
      BY <3>1, <3>2, <3>3
  <2>2. SubSeq(s, 1, n) = SubSeq(s, 1, n - 1) \o <<s[n]>>
    <3>1. 1 \in 1..Len(s) /\ n \in 1..Len(s)
      BY <1>2
    <3> QED
      BY <3>1, SubSeqRecursiveSecond
  <2>3. SubSeq(s, 1, n - 1) \in Seq(S) /\ s[n] \in S
    <3>1. \A i \in 1..(n - 1) : i \in 1..Len(s)
      BY <1>2
    <3>2. \A i \in 1..(n - 1) : s[i] \in S
      BY <3>1, ElementOfSeq
    <3> QED
      BY <1>2, <3>2, SubSeqProperties, ElementOfSeq
  <2> QED
    BY <2>1, <2>2, <2>3, AppendIsConcat
<1>5. f[N] = SubSeq(s, 1, N)
  <2> HIDE DEF A
  <2>1. \A n \in 0..N : n \in A
    BY <1>3, <1>4, StepByStep
  <2>2. N \in A
    BY <2>1
  <2> QED
    BY <2>2 DEF A
<1> QED
  BY <1>1, <1>2, <1>5, SubSeqFull

\* A sequence is what comes before a position, its element there and the rest.
LEMMA Parts ==
    ASSUME NEW S, NEW s \in Seq(S), NEW i \in 1..Len(s)
    PROVE  /\ SubSeq(s, 1, i - 1) \in Seq(S) /\ SubSeq(s, i + 1, Len(s)) \in Seq(S)
           /\ Len(SubSeq(s, 1, i - 1)) = i - 1
           /\ Len(SubSeq(s, i + 1, Len(s))) = Len(s) - i
           /\ \A j \in 1..(i - 1) : SubSeq(s, 1, i - 1)[j] = s[j]
           /\ \A j \in 1..(Len(s) - i) : SubSeq(s, i + 1, Len(s))[j] = s[i + j]
<1>1. PICK N \in Nat : N = Len(s)
  BY LenProperties
<1>2. i \in 1..N /\ i \in Nat /\ i - 1 \in Int /\ i + 1 \in Int
  BY <1>1
<1>3. \A j \in 1..(i - 1) : s[j] \in S
  <2> TAKE j \in 1..(i - 1)
  <2>1. j \in 1..Len(s)
    BY <1>1, <1>2
  <2> QED
    BY <2>1, ElementOfSeq
<1>4. \A j \in (i + 1)..N : s[j] \in S
  <2> TAKE j \in (i + 1)..N
  <2>1. j \in 1..Len(s)
    BY <1>1, <1>2
  <2> QED
    BY <2>1, ElementOfSeq
<1>5. /\ SubSeq(s, 1, i - 1) \in Seq(S)
      /\ Len(SubSeq(s, 1, i - 1)) = IF 1 <= i - 1 THEN i - 1 - 1 + 1 ELSE 0
      /\ \A j \in 1..(i - 1 - 1 + 1) : SubSeq(s, 1, i - 1)[j] = s[1 + j - 1]
  BY <1>2, <1>3, SubSeqProperties
<1>6. /\ SubSeq(s, i + 1, N) \in Seq(S)
      /\ Len(SubSeq(s, i + 1, N)) = IF i + 1 <= N THEN N - (i + 1) + 1 ELSE 0
      /\ \A j \in 1..(N - (i + 1) + 1) : SubSeq(s, i + 1, N)[j] = s[i + 1 + j - 1]
  BY <1>2, <1>4, SubSeqProperties
<1>7. /\ (IF 1 <= i - 1 THEN i - 1 - 1 + 1 ELSE 0) = i - 1 /\ i - 1 - 1 + 1 = i - 1
      /\ (IF i + 1 <= N THEN N - (i + 1) + 1 ELSE 0) = N - i /\ N - (i + 1) + 1 = N - i
      /\ \A j \in 1..(i - 1) : 1 + j - 1 = j
      /\ \A j \in 1..(N - i) : i + 1 + j - 1 = i + j
  BY <1>2
<1>8. \A j \in 1..(i - 1) : SubSeq(s, 1, i - 1)[j] = s[j]
  BY <1>5, <1>7
<1>9. \A j \in 1..(N - i) : SubSeq(s, i + 1, N)[j] = s[i + j]
  BY <1>6, <1>7
<1> QED
  BY <1>1, <1>5, <1>6, <1>7, <1>8, <1>9

LEMMA Single ==
    ASSUME NEW S, NEW x \in S
    PROVE  <<x>> \in Seq(S) /\ Len(<<x>>) = 1 /\ <<x>>[1] = x
  OBVIOUS

\* Replacing an element puts another one between the same parts.
LEMMA Replaced ==
    ASSUME NEW S, NEW s \in Seq(S), NEW i \in 1..Len(s), NEW x \in S
    PROVE  [s EXCEPT ![i] = x] = (SubSeq(s, 1, i - 1) \o <<x>>) \o SubSeq(s, i + 1, Len(s))
<1>1. PICK N \in Nat : N = Len(s)
  BY LenProperties
<1>2. i \in 1..N /\ i \in Nat
  BY <1>1
<1> DEFINE a == SubSeq(s, 1, i - 1)
           b == SubSeq(s, i + 1, Len(s))
           l == [s EXCEPT ![i] = x]
<1>3. /\ a \in Seq(S) /\ b \in Seq(S) /\ Len(a) = i - 1 /\ Len(b) = N - i
      /\ \A j \in 1..(i - 1) : a[j] = s[j]
      /\ \A j \in 1..(N - i) : b[j] = s[i + j]
  BY <1>1, Parts
<1>4. l \in Seq(S) /\ Len(l) = N /\ \A j \in 1..N : l[j] = IF j = i THEN x ELSE s[j]
  BY <1>1, ExceptSeq
<1> HIDE DEF a, b, l
<1> DEFINE ax == a \o <<x>>
<1>5. /\ ax \in Seq(S) /\ Len(ax) = i
      /\ \A j \in 1..i : ax[j] = IF j = i THEN x ELSE s[j]
  <2>1. <<x>> \in Seq(S) /\ Len(<<x>>) = 1 /\ <<x>>[1] = x
    BY Single
  <2>2. /\ a \o <<x>> \in Seq(S) /\ Len(a \o <<x>>) = Len(a) + 1
        /\ \A j \in 1..Len(a) + 1 :
             (a \o <<x>>)[j] = IF j <= Len(a) THEN a[j] ELSE <<x>>[j - Len(a)]
    BY <1>3, <2>1, ConcatProperties
  <2>3. Len(a) + 1 = i
    BY <1>2, <1>3
  <2>4. ASSUME NEW j \in 1..i PROVE ax[j] = IF j = i THEN x ELSE s[j]
    <3>1. ax[j] = IF j <= i - 1 THEN a[j] ELSE <<x>>[j - (i - 1)]
      BY <1>3, <2>2, <2>3
    <3>2. CASE j = i
      <4>1. ~(j <= i - 1) /\ j - (i - 1) = 1
        BY <1>2, <3>2
      <4>2. ax[j] = <<x>>[1]
        <5> HIDE DEF ax
        <5> QED
          BY <3>1, <4>1
      <4> QED
        BY <3>2, <4>2, <2>1
    <3>3. CASE j # i
      <4>1. j \in 1..(i - 1)
        BY <1>2, <3>3
      <4> QED
        BY <1>3, <3>1, <3>3, <4>1
    <3> QED
      BY <3>2, <3>3
  <2> QED
    BY <2>2, <2>3, <2>4
<1> HIDE DEF ax
<1>6. /\ ax \o b \in Seq(S) /\ Len(ax \o b) = Len(ax) + Len(b)
      /\ \A j \in 1..Len(ax) + Len(b) :
           (ax \o b)[j] = IF j <= Len(ax) THEN ax[j] ELSE b[j - Len(ax)]
  BY <1>3, <1>5, ConcatProperties
<1>7. Len(ax) + Len(b) = N
  BY <1>2, <1>3, <1>5
<1>8. ASSUME NEW j \in 1..N PROVE l[j] = (ax \o b)[j]
  <2>1. (ax \o b)[j] = IF j <= i THEN ax[j] ELSE b[j - i]
    BY <1>5, <1>6, <1>7
  <2>2. CASE j <= i
    <3>1. j \in 1..i
      BY <1>2, <2>2
    <3> QED
      BY <1>4, <1>5, <2>1, <2>2, <3>1
  <2>3. CASE ~(j <= i)
    <3>1. j - i \in 1..(N - i) /\ i + (j - i) = j /\ j # i
      BY <1>2, <2>3
    <3>2. b[j - i] = s[i + (j - i)]
      BY <1>3, <3>1
    <3> QED
      BY <1>4, <2>1, <2>3, <3>1, <3>2
  <2> QED
    BY <2>2, <2>3
<1>9. l = ax \o b
  BY <1>4, <1>6, <1>7, <1>8, SeqEqual
<1> QED
  BY <1>9 DEF a, b, l, ax

LEMMA Removed ==
    ASSUME NEW S, NEW s \in Seq(S), NEW i \in 1..Len(s)
    PROVE  /\ RemoveAt(s, i) \in Seq(S) /\ Len(RemoveAt(s, i)) = Len(s) - 1
           /\ \A j \in 1..(Len(s) - 1) :
                RemoveAt(s, i)[j] = IF j < i THEN s[j] ELSE s[j + 1]
<1>1. PICK N \in Nat : N = Len(s)
  BY LenProperties
<1>2. i \in 1..N /\ i \in Nat
  BY <1>1
<1> DEFINE a == SubSeq(s, 1, i - 1)
           b == SubSeq(s, i + 1, Len(s))
<1>3. /\ a \in Seq(S) /\ b \in Seq(S) /\ Len(a) = i - 1 /\ Len(b) = N - i
      /\ \A j \in 1..(i - 1) : a[j] = s[j]
      /\ \A j \in 1..(N - i) : b[j] = s[i + j]
  BY <1>1, Parts
<1>4. RemoveAt(s, i) = a \o b
  BY DEF RemoveAt
<1> HIDE DEF a, b
<1>5. /\ a \o b \in Seq(S) /\ Len(a \o b) = Len(a) + Len(b)
      /\ \A j \in 1..Len(a) + Len(b) : (a \o b)[j] = IF j <= Len(a) THEN a[j] ELSE b[j - Len(a)]
  BY <1>3, ConcatProperties
<1>6. Len(a) + Len(b) = N - 1
  BY <1>2, <1>3
<1>7. ASSUME NEW j \in 1..(N - 1) PROVE (a \o b)[j] = IF j < i THEN s[j] ELSE s[j + 1]
  <2>1. (a \o b)[j] = IF j <= i - 1 THEN a[j] ELSE b[j - (i - 1)]
    BY <1>3, <1>5, <1>6
  <2>2. CASE j < i
    <3>1. j \in 1..(i - 1) /\ j <= i - 1
      BY <1>2, <2>2
    <3> QED
      BY <1>3, <2>1, <2>2, <3>1
  <2>3. CASE ~(j < i)
    <3>1. j - (i - 1) \in 1..(N - i) /\ i + (j - (i - 1)) = j + 1 /\ ~(j <= i - 1)
      BY <1>2, <2>3
    <3>2. b[j - (i - 1)] = s[i + (j - (i - 1))]
      BY <1>3, <3>1
    <3> QED
      BY <2>1, <2>3, <3>1, <3>2
  <2> QED
    BY <2>2, <2>3
<1> QED
  BY <1>1, <1>4, <1>5, <1>6, <1>7

LEMMA OnlyBetween ==
    ASSUME NEW S, NEW K, NEW a \in Seq(S), NEW b \in Seq(S), NEW u \in Seq(S)
    PROVE  Only(u, K) = <<>> => /\ Only(a \o u, K) = Only(a, K)
                                /\ Only((a \o u) \o b, K) = Only(a \o b, K)
<1>1. a \o u \in Seq(S)
  BY ConcatProperties
<1>2. Only(a, K) \in Seq(S)
  BY OnlyPicks DEF Picks
<1>3. Only(a \o u, K) = Only(a, K) \o Only(u, K)
  BY OnlyConcat
<1>4. Only(u, K) = <<>> => Only(a \o u, K) = Only(a, K)
  BY <1>2, <1>3, ConcatEmptySeq
<1>5. Only((a \o u) \o b, K) = Only(a \o u, K) \o Only(b, K)
  <2> DEFINE au == a \o u
  <2>1. au \in Seq(S)
    BY <1>1
  <2> HIDE DEF au
  <2>2. Only(au \o b, K) = Only(au, K) \o Only(b, K)
    BY <2>1, OnlyConcat
  <2> QED
    BY <2>2 DEF au
<1>6. Only(a \o b, K) = Only(a, K) \o Only(b, K)
  BY OnlyConcat
<1> QED
  BY <1>4, <1>5, <1>6

\* Taking away, replacing and adding elements outside K changes nothing of
\* what is kept.
LEMMA OnlyUndisturbed ==
    ASSUME NEW S, NEW s \in Seq(S), NEW K
    PROVE  /\ \A x \in S \ K : Only(Append(s, x), K) = Only(s, K)
           /\ \A i \in 1..Len(s) : s[i] \notin K => Only(RemoveAt(s, i), K) = Only(s, K)
           /\ \A i \in 1..Len(s), x \in S \ K :
                s[i] \notin K => Only([s EXCEPT ![i] = x], K) = Only(s, K)
<1>1. ASSUME NEW x \in S \ K PROVE <<x>> \in Seq(S) /\ Only(<<x>>, K) = <<>>
  <2> DEFINE u == <<x>>
  <2>1. u \in Seq(S) /\ Len(u) = 1 /\ u[1] = x
    BY Single
  <2>2. \A j \in 1..Len(u) : u[j] \notin K
    BY <2>1
  <2> HIDE DEF u
  <2>3. Only(u, K) = <<>>
    BY <2>1, <2>2, OnlyNone
  <2> QED
    BY <2>1, <2>3 DEF u
<1>3. ASSUME NEW x \in S \ K PROVE Only(Append(s, x), K) = Only(s, K)
  <2> DEFINE u == <<x>>
  <2>1. u \in Seq(S) /\ Only(u, K) = <<>> /\ Append(s, x) = s \o u
    BY <1>1, AppendIsConcat
  <2> HIDE DEF u
  <2> QED
    BY <2>1, OnlyBetween
<1>4. ASSUME NEW i \in 1..Len(s), NEW x \in S \ K
      PROVE  Only((SubSeq(s, 1, i - 1) \o <<x>>) \o SubSeq(s, i + 1, Len(s)), K)
               = Only(RemoveAt(s, i), K)
  <2> DEFINE a == SubSeq(s, 1, i - 1)
             b == SubSeq(s, i + 1, Len(s))
             u == <<x>>
  <2>1. a \in Seq(S) /\ b \in Seq(S) /\ u \in Seq(S) /\ Only(u, K) = <<>>
    BY <1>1, Parts
  <2>2. RemoveAt(s, i) = a \o b
    BY DEF RemoveAt
  <2> HIDE DEF a, b, u
  <2>3. Only((a \o u) \o b, K) = Only(a \o b, K)
    BY <2>1, OnlyBetween, Zenon
  <2>4. Only((a \o u) \o b, K) = Only(RemoveAt(s, i), K)
    BY <2>2, <2>3, Zenon
  <2> QED
    BY <2>4, Zenon DEF a, b, u
<1>5. ASSUME NEW i \in 1..Len(s), s[i] \notin K
      PROVE  Only(RemoveAt(s, i), K) = Only(s, K)
  <2>1. s[i] \in S \ K
    BY <1>5, ElementOfSeq
  <2>2. [s EXCEPT ![i] = s[i]] = (SubSeq(s, 1, i - 1) \o <<s[i]>>) \o SubSeq(s, i + 1, Len(s))
    BY <2>1, Replaced
  <2>3. [s EXCEPT ![i] = s[i]] = s
    BY LenProperties
  <2> QED
    BY <1>4, <2>1, <2>2, <2>3
<1>6. ASSUME NEW i \in 1..Len(s), NEW x \in S \ K, s[i] \notin K
      PROVE  Only([s EXCEPT ![i] = x], K) = Only(s, K)
  <2>1. x \in S
    OBVIOUS
  <2>2. [s EXCEPT ![i] = x] = (SubSeq(s, 1, i - 1) \o <<x>>) \o SubSeq(s, i + 1, Len(s))
    BY <2>1, Replaced
  <2> QED
    <3>1. /\ Only((SubSeq(s, 1, i - 1) \o <<x>>) \o SubSeq(s, i + 1, Len(s)), K)
               = Only(RemoveAt(s, i), K)
          /\ Only(RemoveAt(s, i), K) = Only(s, K)
      BY <1>4, <1>5, <1>6
    <3> QED
      BY <2>2, <3>1, Zenon
<1> QED
  BY <1>3, <1>5, <1>6

-----------------------------------------------------------------------------
(* The records. *)

\* Two records of one name are a built-in and, after it, a custom: the built-in
\* was published when the custom existed.
Twins(rs) == \A i, j \in DOMAIN rs :
                 i < j /\ lower[rs[i].name] = lower[rs[j].name]
                     => rs[i].builtin /\ ~rs[j].builtin

Tidy(rs) == /\ rs \in Seq(Record)
            /\ \A i \in DOMAIN rs : trim[rs[i].name] = rs[i].name
            /\ Twins(rs)

\* The built-ins are those the first manifest names.
FirstKeys   == {lower[n] : n \in Range(FirstManifest)}
Flagged(rs) == \A i \in DOMAIN rs : rs[i].builtin <=> lower[rs[i].name] \in FirstKeys

\* A manifest: trimmed names, each once.
Entries(m) == m \in Seq(Published) /\ IsInjective(m)

LEMMA RecordFields ==
    ASSUME NEW r \in Record
    PROVE  /\ r.name \in Names /\ r.cidrs \in Lists /\ r.api \in AllUrls /\ r.builtin \in BOOLEAN
           /\ lower[r.name] \in Keys
  BY DEF Record, Keys

LEMMA PublishedNames ==
    /\ Published \subseteq Names
    /\ \A n \in Published : trim[n] = n /\ lower[n] \in Keys
    /\ \A m, n \in Published : lower[m] = lower[n] => m = n
    /\ Entries(FirstManifest)
<1>1. Range(FirstManifest) \subseteq Names
  BY RegistryAssumption, RangeOfSeq
<1>2. Published \subseteq Names
  BY <1>1, RegistryAssumption DEF Published
<1>3. FirstManifest \in Seq(Published)
  <2>1. FirstManifest \in Seq(Range(FirstManifest))
    BY RegistryAssumption, SeqOfRange
  <2>2. Range(FirstManifest) \subseteq Published
    BY DEF Published
  <2> QED
    BY <2>1, <2>2, SeqMonotonic
<1> QED
  BY <1>2, <1>3, RegistryAssumption DEF Keys, Entries

\* What a lookup finds.
LEMMA Finds ==
    ASSUME NEW rs \in Seq(Record), NEW n \in Names
    PROVE  /\ indexOf(rs, n) \in 0..Len(rs)
           /\ indexOf(rs, n) = 0 =>
                \A j \in 1..Len(rs) : lower[rs[j].name] # lower[trim[n]]
           /\ indexOf(rs, n) # 0 =>
                /\ indexOf(rs, n) \in 1..Len(rs)
                /\ lower[rs[indexOf(rs, n)].name] = lower[trim[n]]
                /\ \A j \in 1..Len(rs) :
                     lower[rs[j].name] = lower[trim[n]] => indexOf(rs, n) <= j
<1> DEFINE at == {i \in DOMAIN rs : EqualFold(rs[i].name, trim[n])}
<1>1. DOMAIN rs = 1..Len(rs) /\ Len(rs) \in Nat
  BY LenProperties
<1>2. at = {i \in 1..Len(rs) : lower[rs[i].name] = lower[trim[n]]}
  BY <1>1 DEF EqualFold
<1>3. indexOf(rs, n) = IF at = {} THEN 0 ELSE CHOOSE i \in at : \A j \in at : i <= j
  BY DEF indexOf
<1>4. at \subseteq Nat
  BY <1>2
<1> HIDE DEF at
<1>5. CASE at = {}
  BY <1>1, <1>2, <1>3, <1>5
<1>6. CASE at # {}
  <2>1. \E i \in at : \A j \in at : i <= j
    BY <1>4, <1>6, NatLeast
  <2>2. indexOf(rs, n) \in at /\ \A j \in at : indexOf(rs, n) <= j
    BY <1>3, <1>6, <2>1
  <2>3. indexOf(rs, n) \in 1..Len(rs) /\ indexOf(rs, n) # 0 /\ indexOf(rs, n) \in 0..Len(rs)
    BY <1>1, <1>2, <2>2
  <2> QED
    BY <1>2, <2>2, <2>3
<1> QED
  BY <1>5, <1>6

\* Records after records.
LEMMA TidyConcat ==
    ASSUME NEW a, NEW b, Tidy(a), Tidy(b),
           \A i \in 1..Len(a), j \in 1..Len(b) :
               lower[a[i].name] = lower[b[j].name] => a[i].builtin /\ ~b[j].builtin
    PROVE  Tidy(a \o b)
<1>1. a \in Seq(Record) /\ b \in Seq(Record)
  BY DEF Tidy
<1>2. PICK M \in Nat : M = Len(a) /\ DOMAIN a = 1..M
  BY <1>1, LenProperties
<1>3. PICK N \in Nat : N = Len(b) /\ DOMAIN b = 1..N
  BY <1>1, LenProperties
<1> DEFINE w == a \o b
<1>4. /\ w \in Seq(Record) /\ Len(w) = M + N
      /\ \A i \in 1..M + N : w[i] = IF i <= M THEN a[i] ELSE b[i - M]
  BY <1>1, <1>2, <1>3, ConcatProperties
<1>5. DOMAIN w = 1..(M + N)
  BY <1>4, LenProperties
<1> HIDE DEF w
<1>6. \A i \in 1..(M + N) :
        \/ i \in 1..M /\ w[i] = a[i]
        \/ i \notin 1..M /\ i - M \in 1..N /\ w[i] = b[i - M]
  <2> TAKE i \in 1..(M + N)
  <2>1. CASE i <= M
    BY <1>4, <2>1
  <2>2. CASE ~(i <= M)
    BY <1>4, <2>2
  <2> QED
    BY <2>1, <2>2
<1>7. \A i \in DOMAIN w : trim[w[i].name] = w[i].name
  <2>1. /\ \A i \in 1..M : trim[a[i].name] = a[i].name
        /\ \A i \in 1..N : trim[b[i].name] = b[i].name
    BY <1>2, <1>3 DEF Tidy
  <2> QED
    BY <1>5, <1>6, <2>1
<1>8. Twins(w)
  <2> SUFFICES ASSUME NEW i \in 1..(M + N), NEW j \in 1..(M + N), i < j,
                      lower[w[i].name] = lower[w[j].name]
               PROVE  w[i].builtin /\ ~w[j].builtin
    BY <1>5 DEF Twins
  <2>1. CASE i \in 1..M /\ j \in 1..M
    <3>1. w[i] = a[i] /\ w[j] = a[j]
      BY <1>6, <2>1
    <3> QED
      BY <1>2, <2>1, <3>1 DEF Tidy, Twins
  <2>2. CASE i \in 1..M /\ j \notin 1..M
    <3>1. w[i] = a[i] /\ w[j] = b[j - M] /\ j - M \in 1..N
      BY <1>6, <2>2
    <3> QED
      BY <1>2, <1>3, <2>2, <3>1
  <2>3. CASE i \notin 1..M /\ j \notin 1..M
    <3>1. /\ w[i] = b[i - M] /\ w[j] = b[j - M]
          /\ i - M \in 1..N /\ j - M \in 1..N /\ i - M < j - M
      BY <1>6, <2>3
    <3> QED
      BY <1>3, <3>1 DEF Tidy, Twins
  <2>4. ~(i \notin 1..M /\ j \in 1..M)
    OBVIOUS
  <2> QED
    BY <2>1, <2>2, <2>3, <2>4
<1> QED
  BY <1>4, <1>7, <1>8 DEF Tidy, w

\* Records made of entries.
Seeds(t) == [i \in DOMAIN t |-> Builtin(t[i])]

LEMMA TidySeeds ==
    ASSUME files \in [Names -> Lists], NEW t, Entries(t)
    PROVE  /\ Tidy(Seeds(t)) /\ Len(Seeds(t)) = Len(t)
           /\ \A i \in 1..Len(t) :
                /\ t[i] \in Published /\ t[i] \in Names /\ Seeds(t)[i].name = t[i]
                /\ Seeds(t)[i].builtin /\ Seeds(t)[i].cidrs = files[t[i]]
<1> DEFINE seeds == [i \in DOMAIN t |-> Builtin(t[i])]
<1>1. PICK N \in Nat : N = Len(t) /\ DOMAIN t = 1..N
  BY LenProperties DEF Entries
<1>2. ASSUME NEW i \in 1..N
      PROVE  /\ t[i] \in Published /\ t[i] \in Names
             /\ Builtin(t[i]) \in Record /\ seeds[i] = Builtin(t[i])
             /\ Builtin(t[i]).name = t[i] /\ Builtin(t[i]).builtin
             /\ Builtin(t[i]).cidrs = files[t[i]]
  <2>1. t[i] \in Published /\ t[i] \in Names
    BY <1>1, ElementOfSeq, PublishedNames DEF Entries
  <2>2. files[t[i]] \in Lists /\ Feed \in AllUrls /\ TRUE \in BOOLEAN
    BY <2>1 DEF AllUrls
  <2> QED
    BY <1>1, <2>1, <2>2 DEF Builtin, Record
<1>3. seeds \in Seq(Record) /\ Len(seeds) = N /\ DOMAIN seeds = 1..N
  <2>1. seeds \in [1..N -> Record]
    BY <1>1, <1>2
  <2> QED
    BY <2>1
<1> HIDE DEF seeds
<1>4. \A i \in 1..N : trim[seeds[i].name] = seeds[i].name
  BY <1>2, PublishedNames
<1>5. Twins(seeds)
  <2> SUFFICES ASSUME NEW i \in 1..N, NEW j \in 1..N, i < j,
                      lower[seeds[i].name] = lower[seeds[j].name]
               PROVE  FALSE
    BY <1>3 DEF Twins
  <2>1. t[i] = t[j]
    BY <1>2, PublishedNames
  <2>2. i = j
    BY <1>1, <2>1 DEF Entries, IsInjective
  <2> QED
    BY <2>2
<1>6. Tidy(seeds)
  BY <1>3, <1>4, <1>5 DEF Tidy
<1>7. \A i \in 1..N :
        /\ t[i] \in Published /\ t[i] \in Names /\ seeds[i].name = t[i]
        /\ seeds[i].builtin /\ seeds[i].cidrs = files[t[i]]
  BY <1>2
<1>8. Seeds(t) = seeds
  BY DEF Seeds, seeds
<1> QED
  BY <1>1, <1>3, <1>6, <1>7, <1>8

\* A choice among the entries.
LEMMA EntriesOnly ==
    ASSUME NEW m, Entries(m), NEW K
    PROVE  /\ Entries(Only(m, K))
           /\ \A j \in 1..Len(Only(m, K)) :
                Only(m, K)[j] \in K /\ \E i \in 1..Len(m) : Only(m, K)[j] = m[i]
           /\ \A i \in 1..Len(m) :
                m[i] \in K => \E j \in 1..Len(Only(m, K)) : Only(m, K)[j] = m[i]
<1> DEFINE t == Only(m, K)
<1>1. m \in Seq(Published)
  BY DEF Entries
<1>2. PICK h : Picks(Published, m, K, Len(m), t, h)
  BY <1>1, OnlyPicks
<1> HIDE DEF t
<1>3. PICK N \in Nat : N = Len(t) /\ DOMAIN t = 1..N
  BY <1>2, LenProperties DEF Picks
<1>4. PICK M \in Nat : M = Len(m) /\ DOMAIN m = 1..M
  BY <1>1, LenProperties
<1>5. /\ h \in [1..N -> 1..M] /\ \A j \in 1..N : t[j] = m[h[j]] /\ t[j] \in K
      /\ \A i, j \in 1..N : i < j => h[i] < h[j]
      /\ \A i \in 1..M : m[i] \in K => \E j \in 1..N : h[j] = i
  BY <1>2, <1>3, <1>4 DEF Picks
<1>6. \A i, j \in 1..N : t[i] = t[j] => i = j
  <2> SUFFICES ASSUME NEW i \in 1..N, NEW j \in 1..N, t[i] = t[j], i < j PROVE FALSE
    OBVIOUS
  <2>1. h[i] \in 1..M /\ h[j] \in 1..M /\ h[i] < h[j] /\ m[h[i]] = m[h[j]]
    BY <1>5
  <2>2. h[i] = h[j]
    BY <1>4, <2>1 DEF Entries, IsInjective
  <2> QED
    BY <2>1, <2>2
<1>7. Entries(t)
  BY <1>2, <1>3, <1>6 DEF Entries, IsInjective, Picks
<1> QED
  BY <1>3, <1>4, <1>5, <1>7 DEF t

\* The customs of tidy records, and what is left of them.
LEMMA CustomsTidy ==
    ASSUME NEW rs, Tidy(rs)
    PROVE  /\ Tidy(customsOf(rs))
           /\ \A j \in 1..Len(customsOf(rs)) :
                /\ ~customsOf(rs)[j].builtin
                /\ \E i \in 1..Len(rs) : customsOf(rs)[j] = rs[i]
           /\ \A i \in 1..Len(rs) :
                ~rs[i].builtin => \E j \in 1..Len(customsOf(rs)) : customsOf(rs)[j] = rs[i]
<1> DEFINE t == customsOf(rs)
<1>1. rs \in Seq(Record)
  BY DEF Tidy
<1>2. PICK h : Picks(Record, rs, Customs, Len(rs), t, h)
  BY <1>1, OnlyPicks DEF customsOf
<1> HIDE DEF t
<1>3. PICK N \in Nat : N = Len(t) /\ DOMAIN t = 1..N
  BY <1>2, LenProperties DEF Picks
<1>4. PICK M \in Nat : M = Len(rs) /\ DOMAIN rs = 1..M
  BY <1>1, LenProperties
<1>5. /\ h \in [1..N -> 1..M] /\ \A j \in 1..N : t[j] = rs[h[j]] /\ t[j] \in Customs
      /\ \A i, j \in 1..N : i < j => h[i] < h[j]
      /\ \A i \in 1..M : rs[i] \in Customs => \E j \in 1..N : h[j] = i
  BY <1>2, <1>3, <1>4 DEF Picks
<1>6. \A j \in 1..N : ~t[j].builtin
  BY <1>5 DEF Customs
<1>7. \A i \in 1..M : ~rs[i].builtin => rs[i] \in Customs
  BY <1>1, <1>4, ElementOfSeq DEF Customs
<1>8. \A i \in 1..N : trim[t[i].name] = t[i].name
  <2> TAKE i \in 1..N
  <2>1. h[i] \in 1..M /\ t[i] = rs[h[i]]
    BY <1>5
  <2> QED
    BY <1>4, <2>1 DEF Tidy
<1>9. Twins(t)
  <2> SUFFICES ASSUME NEW i \in 1..N, NEW j \in 1..N, i < j,
                      lower[t[i].name] = lower[t[j].name]
               PROVE  FALSE
    BY <1>3 DEF Twins
  <2>1. h[i] \in 1..M /\ h[j] \in 1..M /\ h[i] < h[j] /\ t[i] = rs[h[i]] /\ t[j] = rs[h[j]]
    BY <1>5
  <2>2. rs[h[i]].builtin
    BY <1>4, <2>1 DEF Tidy, Twins
  <2> QED
    BY <1>6, <2>1, <2>2
<1>10. Tidy(t)
  BY <1>2, <1>3, <1>8, <1>9 DEF Tidy, Picks
<1>11. \A j \in 1..N : \E i \in 1..M : t[j] = rs[i]
  BY <1>5
<1>12. \A i \in 1..M : ~rs[i].builtin => \E j \in 1..N : t[j] = rs[i]
  <2> SUFFICES ASSUME NEW i \in 1..M, ~rs[i].builtin PROVE \E j \in 1..N : t[j] = rs[i]
    OBVIOUS
  <2>1. PICK j \in 1..N : h[j] = i
    BY <1>5, <1>7
  <2> QED
    BY <1>5, <2>1
<1> QED
  BY <1>3, <1>4, <1>6, <1>10, <1>11, <1>12 DEF t

LEMMA CustomsUndisturbed ==
    ASSUME NEW rs \in Seq(Record)
    PROVE  /\ \A x \in Record : x.builtin => customsOf(Append(rs, x)) = customsOf(rs)
           /\ \A i \in 1..Len(rs) : rs[i].builtin => customsOf(RemoveAt(rs, i)) = customsOf(rs)
           /\ \A i \in 1..Len(rs), x \in Record :
                rs[i].builtin /\ x.builtin => customsOf([rs EXCEPT ![i] = x]) = customsOf(rs)
<1> DEFINE K == Customs
<1>1. \A x \in Record : x.builtin => x \in Record \ K
  BY DEF Customs
<1>2. \A i \in 1..Len(rs) : rs[i].builtin => rs[i] \notin K
  BY DEF Customs
<1>3. \A t : customsOf(t) = Only(t, K)
  BY DEF customsOf
<1> HIDE DEF K
<1>4. /\ \A x \in Record \ K : Only(Append(rs, x), K) = Only(rs, K)
      /\ \A i \in 1..Len(rs) : rs[i] \notin K => Only(RemoveAt(rs, i), K) = Only(rs, K)
      /\ \A i \in 1..Len(rs), x \in Record \ K :
           rs[i] \notin K => Only([rs EXCEPT ![i] = x], K) = Only(rs, K)
  BY OnlyUndisturbed
<1> QED
  BY <1>1, <1>2, <1>3, <1>4, Zenon

\* Where Upsert puts a record, and with which flag.
Placed(r, i) ==
    /\ stored(r)[i] = merged(r) /\ i \in 1..Len(stored(r))
    /\ \A j \in 1..Len(stored(r)) : j # i => j \in 1..Len(recs) /\ stored(r)[j] = recs[j]
    /\ \/ /\ i \in 1..Len(recs) /\ Len(stored(r)) = Len(recs)
          /\ stored(r) = [recs EXCEPT ![i] = merged(r)]
          /\ lower[recs[i].name] = lower[r.name]
          /\ \A j \in 1..Len(recs) : lower[recs[j].name] = lower[r.name] => i <= j
          /\ merged(r).builtin = (recs[i].builtin \/ lower[r.name] \in builtinNames)
       \/ /\ i = Len(recs) + 1 /\ Len(stored(r)) = Len(recs) + 1
          /\ stored(r) = Append(recs, merged(r))
          /\ \A j \in 1..Len(recs) : lower[recs[j].name] # lower[r.name]
          /\ merged(r).builtin = (lower[r.name] \in builtinNames)

LEMMA MergedIs ==
    ASSUME recs \in Seq(Record), NEW r \in Record
    PROVE  /\ merged(r) \in Record /\ merged(r).name = r.name /\ merged(r).cidrs = r.cidrs
           /\ merged(r).builtin =
                IF indexOf(recs, r.name) = 0 THEN lower[r.name] \in builtinNames
                ELSE recs[indexOf(recs, r.name)].builtin \/ lower[r.name] \in builtinNames
<1> DEFINE i == indexOf(recs, r.name)
<1>1. i \in 0..Len(recs) /\ (i # 0 => i \in 1..Len(recs))
  BY RecordFields, Finds
<1> HIDE DEF i
<1>2. i # 0 => recs[i] \in Record /\ recs[i].builtin \in BOOLEAN /\ recs[i].api \in AllUrls
  BY <1>1, ElementOfSeq, RecordFields
<1>3. (lower[r.name] \in builtinNames) \in BOOLEAN
  OBVIOUS
<1>4. /\ r = [name |-> r.name, cidrs |-> r.cidrs, api |-> r.api, builtin |-> r.builtin]
      /\ r.name \in Names /\ r.cidrs \in Lists /\ r.api \in AllUrls
  BY DEF Record
<1>5. CASE i = 0
  <2> DEFINE b == lower[r.name] \in builtinNames
  <2>1. merged(r) = [r EXCEPT !.builtin = b]
    BY <1>5 DEF merged, i
  <2>2. b \in BOOLEAN
    OBVIOUS
  <2> HIDE DEF b
  <2>3. /\ merged(r) \in Record /\ merged(r).name = r.name
        /\ merged(r).cidrs = r.cidrs /\ merged(r).builtin = b
    BY <2>1, <2>2 DEF Record
  <2> QED
    BY <1>5, <2>3 DEF b, i
<1>6. CASE i # 0
  <2> DEFINE b == recs[i].builtin \/ lower[r.name] \in builtinNames
             u == IF r.api = NoUrl THEN recs[i].api ELSE r.api
  <2>1. merged(r) = [r EXCEPT !.builtin = b, !.api = u]
    BY <1>6 DEF merged, i
  <2>2. b \in BOOLEAN /\ u \in AllUrls
    BY <1>2, <1>4, <1>6
  <2> HIDE DEF b, u
  <2>3. /\ merged(r) \in Record /\ merged(r).name = r.name
        /\ merged(r).cidrs = r.cidrs /\ merged(r).builtin = b
    BY <2>1, <2>2 DEF Record
  <2> QED
    BY <1>6, <2>3 DEF b, i
<1> QED
  BY <1>5, <1>6

LEMMA StoredPlaced ==
    ASSUME recs \in Seq(Record), NEW r \in Record, trim[r.name] = r.name
    PROVE  stored(r) \in Seq(Record) /\ \E i \in Nat : Placed(r, i)
<1> DEFINE i == indexOf(recs, r.name)
           x == merged(r)
<1>1. /\ i \in 0..Len(recs)
      /\ i = 0 => \A j \in 1..Len(recs) : lower[recs[j].name] # lower[r.name]
      /\ i # 0 => /\ i \in 1..Len(recs)
                  /\ lower[recs[i].name] = lower[r.name]
                  /\ \A j \in 1..Len(recs) : lower[recs[j].name] = lower[r.name] => i <= j
  BY RecordFields, Finds
<1>2. /\ x \in Record
      /\ x.builtin = IF i = 0 THEN lower[r.name] \in builtinNames
                     ELSE recs[i].builtin \/ lower[r.name] \in builtinNames
  BY MergedIs
<1>3. stored(r) = IF i = 0 THEN Append(recs, x) ELSE [recs EXCEPT ![i] = x]
  BY DEF stored
<1>4. PICK N \in Nat : N = Len(recs)
  BY LenProperties
<1> HIDE DEF i, x
<1>5. CASE i = 0
  <2>1. /\ stored(r) \in Seq(Record) /\ Len(stored(r)) = N + 1
        /\ \A j \in 1..N : stored(r)[j] = recs[j]
        /\ stored(r)[N + 1] = x
    BY <1>2, <1>3, <1>4, <1>5, AppendProperties
  <2>2. \A j \in 1..(N + 1) : j # N + 1 => j \in 1..N
    OBVIOUS
  <2>3. N + 1 \in 1..Len(stored(r)) /\ N + 1 \in Nat
    BY <2>1
  <2>4. x.builtin = (lower[r.name] \in builtinNames)
    BY <1>2, <1>5
  <2>5. stored(r) = Append(recs, x) /\ \A j \in 1..N : lower[recs[j].name] # lower[r.name]
    BY <1>1, <1>3, <1>4, <1>5
  <2>6. Placed(r, N + 1)
    BY <1>4, <2>1, <2>2, <2>3, <2>4, <2>5 DEF Placed, x
  <2> QED
    BY <2>1, <2>3, <2>6
<1>6. CASE i # 0
  <2>1. /\ stored(r) \in Seq(Record) /\ Len(stored(r)) = N
        /\ \A j \in 1..N : stored(r)[j] = IF j = i THEN x ELSE recs[j]
    BY <1>1, <1>2, <1>3, <1>4, <1>6, ExceptSeq
  <2>2. i \in 1..N /\ i \in Nat /\ stored(r)[i] = x
    BY <1>1, <1>4, <1>6, <2>1
  <2>3. \A j \in 1..N : j # i => stored(r)[j] = recs[j]
    BY <2>1
  <2>4. /\ lower[recs[i].name] = lower[r.name]
        /\ \A j \in 1..N : lower[recs[j].name] = lower[r.name] => i <= j
        /\ stored(r) = [recs EXCEPT ![i] = x]
    BY <1>1, <1>3, <1>4, <1>6
  <2>5. x.builtin = (recs[i].builtin \/ lower[r.name] \in builtinNames)
    BY <1>2, <1>6
  <2>6. Placed(r, i)
    BY <1>4, <2>1, <2>2, <2>3, <2>4, <2>5 DEF Placed, x
  <2> QED
    BY <2>1, <2>2, <2>6
<1> QED
  BY <1>5, <1>6

LEMMA StoredTidy ==
    ASSUME Tidy(recs), NEW r \in Record, trim[r.name] = r.name
    PROVE  Tidy(stored(r))
<1>1. recs \in Seq(Record)
  BY DEF Tidy
<1>2. stored(r) \in Seq(Record)
  BY <1>1, StoredPlaced
<1>3. PICK i \in Nat : Placed(r, i)
  BY <1>1, StoredPlaced
<1>4. PICK N \in Nat : N = Len(recs) /\ DOMAIN recs = 1..N
  BY <1>1, LenProperties
<1>5. PICK M \in Nat : M = Len(stored(r)) /\ DOMAIN stored(r) = 1..M
  BY <1>2, LenProperties
<1>6. merged(r).name = r.name
  BY <1>1, MergedIs
<1> DEFINE w == stored(r)
<1>7. w[i] = merged(r) /\ i \in 1..M /\ \A j \in 1..M : j # i => j \in 1..N /\ w[j] = recs[j]
  BY <1>3, <1>4, <1>5 DEF Placed
<1> HIDE DEF w
<1>8. \A j \in 1..M : trim[w[j].name] = w[j].name
  <2> TAKE j \in 1..M
  <2>1. CASE j = i
    BY <1>6, <1>7, <2>1
  <2>2. CASE j # i
    BY <1>4, <1>7, <2>2 DEF Tidy
  <2> QED
    BY <2>1, <2>2
<1>9. ASSUME NEW a \in 1..M, NEW b \in 1..M, a < b, lower[w[a].name] = lower[w[b].name]
      PROVE  w[a].builtin /\ ~w[b].builtin
  <2>1. CASE a # i /\ b # i
    <3>1. a \in 1..N /\ b \in 1..N /\ w[a] = recs[a] /\ w[b] = recs[b]
      BY <1>7, <2>1
    <3> QED
      BY <1>4, <1>9, <3>1 DEF Tidy, Twins
  <2>2. CASE b = i
    <3>1. a # i /\ a \in 1..N /\ w[a] = recs[a] /\ lower[recs[a].name] = lower[r.name]
      BY <1>6, <1>7, <1>9, <2>2
    <3>2. ~(i <= a)
      BY <1>9, <2>2
    <3> QED
      BY <1>3, <1>4, <3>1, <3>2 DEF Placed
  <2>3. CASE a = i /\ b # i
    <3>1. b \in 1..N /\ w[b] = recs[b] /\ lower[recs[b].name] = lower[r.name]
      BY <1>6, <1>7, <1>9, <2>3
    <3>2. /\ i \in 1..N /\ lower[recs[i].name] = lower[r.name]
          /\ merged(r).builtin = (recs[i].builtin \/ lower[r.name] \in builtinNames)
      BY <1>3, <1>4, <3>1 DEF Placed
    <3>3. recs[i].builtin /\ ~recs[b].builtin
      BY <1>4, <1>9, <2>3, <3>1, <3>2 DEF Tidy, Twins
    <3> QED
      BY <1>7, <2>3, <3>1, <3>2, <3>3
  <2> QED
    BY <2>1, <2>2, <2>3
<1> QED
  BY <1>2, <1>5, <1>8, <1>9 DEF Tidy, Twins, w

\* A deletion leaves the others.
LEMMA RemovedTidy ==
    ASSUME Tidy(recs), NEW i \in 1..Len(recs)
    PROVE  /\ Tidy(RemoveAt(recs, i))
           /\ \A j \in 1..Len(RemoveAt(recs, i)) :
                \E k \in 1..Len(recs) : k # i /\ RemoveAt(recs, i)[j] = recs[k]
           /\ \A k \in 1..Len(recs) : k # i =>
                \E j \in 1..Len(RemoveAt(recs, i)) : RemoveAt(recs, i)[j] = recs[k]
<1> DEFINE w == RemoveAt(recs, i)
<1>1. recs \in Seq(Record)
  BY DEF Tidy
<1>2. PICK N \in Nat : N = Len(recs) /\ DOMAIN recs = 1..N
  BY <1>1, LenProperties
<1>3. /\ w \in Seq(Record) /\ Len(w) = N - 1
      /\ \A j \in 1..(N - 1) : w[j] = IF j < i THEN recs[j] ELSE recs[j + 1]
  BY <1>1, <1>2, Removed
<1>4. DOMAIN w = 1..(N - 1)
  BY <1>3, LenProperties
<1> HIDE DEF w
<1> DEFINE from(j) == IF j < i THEN j ELSE j + 1
<1>5. \A j \in 1..(N - 1) : from(j) \in 1..N /\ from(j) # i /\ w[j] = recs[from(j)]
  BY <1>2, <1>3
<1>6. \A a, b \in 1..(N - 1) : a < b => from(a) < from(b)
  BY <1>2
<1>7. \A k \in 1..N : k # i => \E j \in 1..(N - 1) : from(j) = k
  <2> SUFFICES ASSUME NEW k \in 1..N, k # i PROVE \E j \in 1..(N - 1) : from(j) = k
    OBVIOUS
  <2>1. CASE k < i
    <3>1. k \in 1..(N - 1) /\ from(k) = k
      BY <1>2, <2>1
    <3> QED
      BY <3>1
  <2>2. CASE ~(k < i)
    <3>1. k - 1 \in 1..(N - 1) /\ from(k - 1) = k
      BY <1>2, <2>2
    <3> QED
      BY <3>1
  <2> QED
    BY <2>1, <2>2
<1> HIDE DEF from
<1>8. \A j \in 1..(N - 1) : trim[w[j].name] = w[j].name
  BY <1>2, <1>5 DEF Tidy
<1>9. ASSUME NEW a \in 1..(N - 1), NEW b \in 1..(N - 1), a < b,
             lower[w[a].name] = lower[w[b].name]
      PROVE  w[a].builtin /\ ~w[b].builtin
  <2>1. /\ from(a) \in 1..N /\ from(b) \in 1..N /\ from(a) < from(b)
        /\ w[a] = recs[from(a)] /\ w[b] = recs[from(b)]
    BY <1>5, <1>6, <1>9
  <2> QED
    BY <1>2, <1>9, <2>1 DEF Tidy, Twins
<1>10. Tidy(w)
  BY <1>3, <1>4, <1>8, <1>9 DEF Tidy, Twins
<1>11. \A j \in 1..(N - 1) : \E k \in 1..N : k # i /\ w[j] = recs[k]
  BY <1>5
<1>12. \A k \in 1..N : k # i => \E j \in 1..(N - 1) : w[j] = recs[k]
  BY <1>5, <1>7
<1> QED
  BY <1>2, <1>3, <1>10, <1>11, <1>12 DEF w

LEMMA ConcatElements ==
    ASSUME NEW S, NEW a \in Seq(S), NEW b \in Seq(S)
    PROVE  /\ \A i \in 1..Len(a \o b) :
                \/ \E j \in 1..Len(a) : (a \o b)[i] = a[j]
                \/ \E j \in 1..Len(b) : (a \o b)[i] = b[j]
           /\ \A j \in 1..Len(a) : j \in 1..Len(a \o b) /\ (a \o b)[j] = a[j]
           /\ \A j \in 1..Len(b) : Len(a) + j \in 1..Len(a \o b) /\ (a \o b)[Len(a) + j] = b[j]
<1>1. PICK M \in Nat : M = Len(a)
  BY LenProperties
<1>2. PICK N \in Nat : N = Len(b)
  BY LenProperties
<1> DEFINE w == a \o b
<1>3. Len(w) = M + N /\ \A i \in 1..M + N : w[i] = IF i <= M THEN a[i] ELSE b[i - M]
  BY <1>1, <1>2, ConcatProperties
<1> HIDE DEF w
<1>4. ASSUME NEW i \in 1..(M + N)
      PROVE  (\E j \in 1..M : w[i] = a[j]) \/ (\E j \in 1..N : w[i] = b[j])
  <2>1. CASE i <= M
    BY <1>3, <2>1
  <2>2. CASE ~(i <= M)
    <3>1. i - M \in 1..N /\ w[i] = b[i - M]
      BY <1>3, <2>2
    <3> QED
      BY <3>1
  <2> QED
    BY <2>1, <2>2
<1>5. \A j \in 1..M : j \in 1..(M + N) /\ w[j] = a[j]
  BY <1>3
<1>6. ASSUME NEW j \in 1..N PROVE M + j \in 1..(M + N) /\ w[M + j] = b[j]
  <2>1. M + j \in 1..(M + N) /\ ~(M + j <= M) /\ M + j - M = j
    OBVIOUS
  <2> QED
    BY <1>3, <2>1
<1> QED
  BY <1>1, <1>2, <1>3, <1>4, <1>5, <1>6 DEF w

\* The records of the missing entries, as RestoreBuiltins adds them, and those
\* of the entries that are shown, as Open makes them.
Added(m) == Seeds(Missing(m))
Shown(m) == Only(m, {n \in Names : lower[n] \notin envelope.hidden})
Seeded(m) == Seeds(Shown(m))

LEMMA AddedTidy ==
    ASSUME Tidy(recs), files \in [Names -> Lists], NEW m, Entries(m)
    PROVE  /\ Added(m) \in Seq(Record) /\ Tidy(recs \o Added(m))
           /\ \A j \in 1..Len(Added(m)) :
                /\ Added(m)[j].builtin
                /\ Added(m)[j].cidrs = files[Added(m)[j].name]
                /\ \E i \in 1..Len(m) : Added(m)[j].name = m[i]
           /\ \A i \in 1..Len(m) :
                \/ \E k \in 1..Len(recs) : lower[recs[k].name] = lower[m[i]]
                \/ \E j \in 1..Len(Added(m)) : Added(m)[j].name = m[i]
<1> DEFINE K == {n \in Names : indexOf(recs, n) = 0}
           t == Missing(m)
<1>1. t = Only(m, K)
  BY DEF Missing
<1> HIDE DEF K, t
<1>2. /\ Entries(t)
      /\ \A j \in 1..Len(t) : t[j] \in K /\ \E i \in 1..Len(m) : t[j] = m[i]
      /\ \A i \in 1..Len(m) : m[i] \in K => \E j \in 1..Len(t) : t[j] = m[i]
  BY <1>1, EntriesOnly
<1> DEFINE a == Seeds(t)
<1>3. /\ Tidy(a) /\ Len(a) = Len(t)
      /\ \A i \in 1..Len(t) :
           /\ t[i] \in Published /\ t[i] \in Names
           /\ a[i].name = t[i] /\ a[i].builtin /\ a[i].cidrs = files[t[i]]
  BY <1>2, TidySeeds
<1>4. a = Added(m)
  BY DEF Added, t
<1> HIDE DEF a
<1>5. recs \in Seq(Record) /\ a \in Seq(Record)
  BY <1>3 DEF Tidy
<1>6. \A n \in Published :
         n \in K <=> \A k \in 1..Len(recs) : lower[recs[k].name] # lower[n]
  <2> SUFFICES ASSUME NEW n \in Published
               PROVE  n \in K <=> \A k \in 1..Len(recs) : lower[recs[k].name] # lower[n]
    OBVIOUS
  <2>1. n \in Names /\ trim[n] = n
    BY PublishedNames
  <2> QED
    BY <1>5, <2>1, Finds DEF K
<1>7. \A i \in 1..Len(recs), j \in 1..Len(a) :
         lower[recs[i].name] = lower[a[j].name] => recs[i].builtin /\ ~a[j].builtin
  BY <1>2, <1>3, <1>6
<1>8. Tidy(recs \o a)
  BY <1>3, <1>7, TidyConcat
<1>9. \A i \in 1..Len(m) :
        \/ \E k \in 1..Len(recs) : lower[recs[k].name] = lower[m[i]]
        \/ \E j \in 1..Len(a) : a[j].name = m[i]
  <2> SUFFICES ASSUME NEW i \in 1..Len(m)
               PROVE  \/ \E k \in 1..Len(recs) : lower[recs[k].name] = lower[m[i]]
                      \/ \E j \in 1..Len(a) : a[j].name = m[i]
    OBVIOUS
  <2>1. m[i] \in Published
    BY ElementOfSeq DEF Entries
  <2> QED
    BY <1>2, <1>3, <1>6, <2>1
<1> QED
  BY <1>2, <1>3, <1>4, <1>5, <1>8, <1>9

LEMMA OpenedTidy ==
    ASSUME files \in [Names -> Lists], NEW m, Entries(m), Tidy(envelope.targets),
           \A i \in 1..Len(envelope.targets) : ~envelope.targets[i].builtin
    PROVE  /\ Opened(m) = Seeded(m) \o envelope.targets
           /\ Seeded(m) \in Seq(Record) /\ Tidy(Opened(m))
           /\ \A j \in 1..Len(Seeded(m)) :
                /\ Seeded(m)[j].builtin
                /\ Seeded(m)[j].cidrs = files[Seeded(m)[j].name]
                /\ lower[Seeded(m)[j].name] \notin envelope.hidden
                /\ \E i \in 1..Len(m) : Seeded(m)[j].name = m[i]
           /\ \A i \in 1..Len(m) : lower[m[i]] \notin envelope.hidden =>
                \E j \in 1..Len(Seeded(m)) : Seeded(m)[j].name = m[i]
<1> DEFINE K == {n \in Names : lower[n] \notin envelope.hidden}
           t == Shown(m)
<1>1. t = Only(m, K)
  BY DEF Shown
<1>2. \A n \in Names : n \in K <=> lower[n] \notin envelope.hidden
  OBVIOUS
<1> HIDE DEF K, t
<1>3. /\ Entries(t)
      /\ \A j \in 1..Len(t) : t[j] \in K /\ \E i \in 1..Len(m) : t[j] = m[i]
      /\ \A i \in 1..Len(m) : m[i] \in K => \E j \in 1..Len(t) : t[j] = m[i]
  BY <1>1, EntriesOnly
<1> DEFINE a == Seeds(t)
<1>4. /\ Tidy(a) /\ Len(a) = Len(t)
      /\ \A i \in 1..Len(t) :
           /\ t[i] \in Published /\ t[i] \in Names
           /\ a[i].name = t[i] /\ a[i].builtin /\ a[i].cidrs = files[t[i]]
  BY <1>3, TidySeeds
<1>5. a = Seeded(m) /\ Opened(m) = a \o envelope.targets
  BY DEF Seeded, Opened, Seeds, Shown, t
<1> HIDE DEF a
<1>6. a \in Seq(Record)
  BY <1>4 DEF Tidy
<1>7. Tidy(a \o envelope.targets)
  BY <1>4, TidyConcat
<1>8. \A j \in 1..Len(a) : /\ a[j].builtin /\ a[j].cidrs = files[a[j].name]
                          /\ lower[a[j].name] \notin envelope.hidden
                          /\ \E i \in 1..Len(m) : a[j].name = m[i]
  BY <1>2, <1>3, <1>4
<1>9. \A i \in 1..Len(m) : lower[m[i]] \notin envelope.hidden =>
        \E j \in 1..Len(a) : a[j].name = m[i]
  <2> SUFFICES ASSUME NEW i \in 1..Len(m), lower[m[i]] \notin envelope.hidden
               PROVE  \E j \in 1..Len(a) : a[j].name = m[i]
    OBVIOUS
  <2>1. m[i] \in Names
    BY ElementOfSeq, PublishedNames DEF Entries
  <2>2. PICK j \in 1..Len(t) : t[j] = m[i]
    BY <1>2, <1>3, <2>1
  <2> QED
    BY <1>4, <2>2
<1> QED
  BY <1>5, <1>6, <1>7, <1>8, <1>9

-----------------------------------------------------------------------------
(* The inductive invariant. *)

Envelope == [targets : Seq(Record), hidden : SUBSET Keys]

CoreTyped == /\ upstream \in Seq(Names) /\ manifest \in Seq(Names)
             /\ recs \in Seq(Record)
             /\ builtinNames \subseteq Keys /\ hidden \subseteq Keys
             /\ files \in [Names -> Lists] /\ envelope \in Envelope
             /\ refetched \subseteq Names
             /\ failed \in BOOLEAN /\ torn \in BOOLEAN /\ up \in BOOLEAN

\* The manifests name each target once, and change only by a publication.
Manifests == /\ Entries(upstream) /\ Entries(manifest)
             /\ Len(FirstManifest) <= Len(upstream)
             /\ Unpublished => manifest = FirstManifest

\* Before a publication the built-ins are known, and flagged as such in the
\* registry and in custom.json.
Known == Unpublished => /\ up => builtinNames = FirstKeys
                        /\ Flagged(recs) /\ Flagged(envelope.targets)

\* The registry is tidy, and so is what custom.json will add to the built-ins.
Kept == /\ Tidy(recs) /\ Tidy(envelope.targets)
        /\ \A i \in 1..Len(envelope.targets) : ~envelope.targets[i].builtin

Core == CoreTyped /\ Manifests /\ Known /\ Kept /\ FilesCurrent

\* What requests hold.
Requests == /\ todo \in [Reloaders -> Seq(Names)]
            /\ held \in [Reloaders -> {<<>>} \union {<<r>> : r \in Record}]
            /\ \A p \in Reloaders : held[p] # <<>> =>
                 todo[p] # <<>> /\ trim[Head(held[p]).name] = Head(held[p]).name

IInv == Core /\ Requests

LEMMA IInvTyped == IInv => TypeOK
  BY DEF IInv, Core, CoreTyped, Requests, TypeOK, Envelope

\* A write of custom.json leaves the old contents or the new ones.
LEMMA EnvelopeSaved ==
    ASSUME NEW ok \in BOOLEAN, NEW e, SavesEnvelope(ok, e), torn \in BOOLEAN
    PROVE  /\ torn' \in BOOLEAN
           /\ ok => envelope' = e /\ torn' = FALSE /\ torn = FALSE
           /\ ~ok => envelope' = envelope
  BY DEF SavesEnvelope

LEMMA EnvelopeFields ==
    ASSUME envelope \in Envelope, NEW h, NEW t
    PROVE  /\ envelope.targets \in Seq(Record) /\ envelope.hidden \subseteq Keys
           /\ SaveHidden(h).targets = envelope.targets /\ SaveHidden(h).hidden = h
           /\ SaveCustoms(t).targets = t /\ SaveCustoms(t).hidden = envelope.hidden
           /\ h \subseteq Keys => SaveHidden(h) \in Envelope
           /\ t \in Seq(Record) => SaveCustoms(t) \in Envelope
  BY DEF Envelope, SaveHidden, SaveCustoms

\* Upsert keeps the registry tidy and its files current.
LEMMA UpsertedTyped ==
    ASSUME Core, NEW r \in Record, trim[r.name] = r.name, NEW ok \in BOOLEAN,
           Upserted(r, ok)
    PROVE  /\ CoreTyped'
           /\ recs' = recs \/ recs' = stored(r)
           /\ \/ envelope'.targets = envelope.targets
              \/ envelope'.targets = customsOf(stored(r)) /\ recs' = stored(r)
<1>1. stored(r) \in Seq(Record)
  BY StoredPlaced DEF Core, CoreTyped
<1>2. customsOf(stored(r)) \in Seq(Record)
  <2>1. PICK h : Picks(Record, stored(r), Customs, Len(stored(r)), customsOf(stored(r)), h)
    BY <1>1, OnlyPicks DEF customsOf
  <2> QED
    BY <2>1 DEF Picks
<1>3. /\ envelope.targets \in Seq(Record) /\ envelope.hidden \subseteq Keys
      /\ \A h : SaveHidden(h).targets = envelope.targets /\ (h \subseteq Keys => SaveHidden(h) \in Envelope)
      /\ \A t : SaveCustoms(t).targets = t /\ (t \in Seq(Record) => SaveCustoms(t) \in Envelope)
  BY EnvelopeFields DEF Core, CoreTyped
<1>4. /\ hidden' \subseteq Keys /\ hidden \ {lower[r.name]} \subseteq Keys /\ failed' \in BOOLEAN
      /\ refetched' \subseteq Names
  BY DEF Upserted, Core, CoreTyped
<1>5. /\ upstream' \in Seq(Names) /\ manifest' \in Seq(Names) /\ builtinNames' \subseteq Keys
      /\ up' \in BOOLEAN /\ torn \in BOOLEAN /\ envelope \in Envelope /\ files \in [Names -> Lists]
      /\ recs \in Seq(Record)
  BY DEF Upserted, Core, CoreTyped
<1>6. CASE /\ Unhides(r) /\ ~ok
           /\ SavesEnvelope(FALSE, envelope)
           /\ UNCHANGED <<recs, files, refetched>>
  <2>1. envelope' = envelope /\ torn' \in BOOLEAN
    BY <1>5, <1>6, EnvelopeSaved
  <2> QED
    BY <1>4, <1>5, <1>6, <2>1 DEF CoreTyped
<1>7. CASE /\ merged(r).builtin
           /\ recs' = stored(r)
           /\ SavesRanges(ok, r.name, r.cidrs)
           /\ refetched' = refetched \ {r.name}
           /\ IF Unhides(r) THEN SavesEnvelope(TRUE, SaveHidden(hidden \ {lower[r.name]})) ELSE KeepsEnvelope
  <2>1. files' \in [Names -> Lists]
    <3>1. r.name \in Names /\ r.cidrs \in Lists /\ NoRanges \in Lists
      BY RecordFields DEF Lists
    <3> QED
      BY <1>5, <1>7, <3>1 DEF SavesRanges
  <2>2. torn' \in BOOLEAN /\ (envelope' = envelope \/ envelope' = SaveHidden(hidden \ {lower[r.name]}))
    BY <1>5, <1>7, EnvelopeSaved DEF KeepsEnvelope
  <2>3. envelope' \in Envelope /\ envelope'.targets = envelope.targets
    BY <1>3, <1>4, <1>5, <2>2
  <2> QED
    BY <1>1, <1>4, <1>5, <1>7, <2>1, <2>2, <2>3 DEF CoreTyped
<1>8. CASE /\ ~merged(r).builtin
           /\ recs' = stored(r)
           /\ SavesEnvelope(ok, SaveCustoms(customsOf(stored(r))))
           /\ UNCHANGED <<files, refetched>>
  <2>1. torn' \in BOOLEAN /\ (envelope' = envelope \/ envelope' = SaveCustoms(customsOf(stored(r))))
    BY <1>5, <1>8, EnvelopeSaved
  <2>2. /\ envelope' \in Envelope
        /\ envelope'.targets = envelope.targets \/ envelope'.targets = customsOf(stored(r))
    BY <1>2, <1>3, <1>5, <2>1
  <2> QED
    BY <1>1, <1>4, <1>5, <1>8, <2>1, <2>2 DEF CoreTyped
<1> QED
  BY <1>6, <1>7, <1>8 DEF Upserted

LEMMA UpsertedKept ==
    ASSUME Core, up, NEW r \in Record, trim[r.name] = r.name, NEW ok \in BOOLEAN,
           Upserted(r, ok)
    PROVE  CoreTyped' /\ Manifests' /\ Known' /\ Kept'
<1>1. /\ CoreTyped'
      /\ recs' = recs \/ recs' = stored(r)
      /\ \/ envelope'.targets = envelope.targets
         \/ envelope'.targets = customsOf(stored(r)) /\ recs' = stored(r)
  BY UpsertedTyped
<1>2. UNCHANGED <<upstream, manifest, builtinNames, up>>
  BY DEF Upserted
<1>3. Manifests'
  BY <1>2 DEF Core, Manifests, Unpublished
<1>4. Tidy(stored(r))
  BY StoredTidy DEF Core, Kept
<1>5. /\ Tidy(customsOf(stored(r)))
      /\ \A j \in 1..Len(customsOf(stored(r))) :
           /\ ~customsOf(stored(r))[j].builtin
           /\ \E i \in 1..Len(stored(r)) : customsOf(stored(r))[j] = stored(r)[i]
  BY <1>4, CustomsTidy
<1>6. Kept'
  <2>1. Tidy(recs)'
    BY <1>1, <1>4 DEF Core, Kept, Tidy, Twins
  <2>2. Tidy(envelope.targets)' /\ (\A i \in 1..Len(envelope.targets) : ~envelope.targets[i].builtin)'
    <3>1. CASE envelope'.targets = envelope.targets
      BY <3>1 DEF Core, Kept, Tidy, Twins
    <3>2. CASE envelope'.targets = customsOf(stored(r))
      BY <1>5, <3>2 DEF Tidy, Twins
    <3> QED
      BY <1>1, <3>1, <3>2
  <2> QED
    BY <2>1, <2>2 DEF Kept
<1>7. ASSUME Unpublished
      PROVE  Flagged(stored(r)) /\ Flagged(customsOf(stored(r)))
  <2>1. /\ builtinNames = FirstKeys /\ recs \in Seq(Record)
        /\ \A j \in 1..Len(recs) : recs[j].builtin <=> lower[recs[j].name] \in FirstKeys
    <3>1. recs \in Seq(Record) /\ DOMAIN recs = 1..Len(recs)
      BY LenProperties DEF Core, CoreTyped
    <3> QED
      BY <1>7, <3>1 DEF Core, Known, Flagged
  <2>2. PICK i \in Nat : Placed(r, i)
    BY <2>1, StoredPlaced
  <2>3. merged(r).name = r.name
    BY <2>1, MergedIs
  <2>4. merged(r).builtin <=> lower[r.name] \in FirstKeys
    BY <2>1, <2>2 DEF Placed
  <2>5. \A j \in 1..Len(stored(r)) : stored(r)[j].builtin <=> lower[stored(r)[j].name] \in FirstKeys
    <3> TAKE j \in 1..Len(stored(r))
    <3>1. CASE j = i
      BY <2>2, <2>3, <2>4, <3>1 DEF Placed
    <3>2. CASE j # i
      BY <2>1, <2>2, <3>2 DEF Placed
    <3> QED
      BY <3>1, <3>2
  <2>6. DOMAIN stored(r) = 1..Len(stored(r)) /\ DOMAIN customsOf(stored(r)) = 1..Len(customsOf(stored(r)))
    BY <1>4, <1>5, LenProperties DEF Tidy
  <2>7. Flagged(stored(r))
    BY <2>5, <2>6 DEF Flagged
  <2>8. Flagged(customsOf(stored(r)))
    BY <1>5, <2>5, <2>6 DEF Flagged
  <2> QED
    BY <2>7, <2>8
<1>8. Known'
  <2> SUFFICES ASSUME Unpublished'
               PROVE  builtinNames' = FirstKeys /\ Flagged(recs)' /\ Flagged(envelope.targets)'
    BY DEF Known
  <2>1. Unpublished /\ builtinNames' = FirstKeys
    BY <1>2 DEF Core, Known, Unpublished
  <2>2. Flagged(recs)'
    BY <1>1, <1>7, <2>1 DEF Core, Known, Flagged
  <2>3. Flagged(envelope.targets)'
    BY <1>1, <1>7, <2>1 DEF Core, Known, Flagged
  <2> QED
    BY <2>1, <2>2, <2>3
<1> QED
  BY <1>1, <1>3, <1>6, <1>8

LEMMA UpsertedFiles ==
    ASSUME Core, up, NEW r \in Record, trim[r.name] = r.name, NEW ok \in BOOLEAN,
           Upserted(r, ok)
    PROVE  FilesCurrent'
<1> SUFFICES ASSUME ~failed'
             PROVE  /\ ~torn' /\ envelope'.hidden = hidden'
                    /\ Unpublished' => envelope'.targets = customsOf(recs')
                    /\ \A i \in DOMAIN recs' :
                         recs'[i].builtin /\ recs'[i].name \notin refetched'
                           => files'[recs'[i].name] = recs'[i].cidrs
  BY DEF FilesCurrent, customsOf
<1>1. ok = TRUE /\ ~failed
  BY DEF Upserted
<1>2. /\ ~torn /\ envelope.hidden = hidden
      /\ Unpublished => envelope.targets = customsOf(recs)
      /\ \A i \in DOMAIN recs : recs[i].builtin /\ recs[i].name \notin refetched
                                 => files[recs[i].name] = recs[i].cidrs
  BY <1>1 DEF Core, FilesCurrent
<1>3. /\ recs \in Seq(Record) /\ envelope \in Envelope /\ torn \in BOOLEAN
      /\ files \in [Names -> Lists]
  BY DEF Core, CoreTyped
<1>4. PICK i \in Nat : Placed(r, i)
  BY <1>3, StoredPlaced
<1>5. Tidy(stored(r)) /\ stored(r) \in Seq(Record)
  BY StoredTidy DEF Core, Kept, Tidy
<1>6. PICK N \in Nat : N = Len(recs) /\ DOMAIN recs = 1..N
  BY <1>3, LenProperties
<1>7. PICK M \in Nat : M = Len(stored(r)) /\ DOMAIN stored(r) = 1..M
  BY <1>5, LenProperties
<1> DEFINE w == stored(r)
<1>8. w[i] = merged(r) /\ i \in 1..M /\ \A j \in 1..M : j # i => j \in 1..N /\ w[j] = recs[j]
  BY <1>4, <1>6, <1>7 DEF Placed
<1>9. merged(r) \in Record /\ merged(r).name = r.name /\ merged(r).cidrs = r.cidrs /\ r.name \in Names
  BY <1>3, MergedIs, RecordFields
<1>10. /\ \A h : SaveHidden(h).targets = envelope.targets /\ SaveHidden(h).hidden = h
       /\ \A t : SaveCustoms(t).targets = t /\ SaveCustoms(t).hidden = envelope.hidden
  BY <1>3, EnvelopeFields
<1>11. hidden' = IF Unhides(r) THEN hidden \ {lower[r.name]} ELSE hidden
  BY DEF Upserted
<1>12. Unpublished' <=> Unpublished
  BY DEF Upserted, Unpublished
<1>13. CASE /\ merged(r).builtin
            /\ recs' = stored(r)
            /\ SavesRanges(ok, r.name, r.cidrs)
            /\ refetched' = refetched \ {r.name}
            /\ IF Unhides(r) THEN SavesEnvelope(TRUE, SaveHidden(hidden \ {lower[r.name]})) ELSE KeepsEnvelope
  <2>1. torn' = FALSE /\ envelope'.hidden = hidden' /\ envelope'.targets = envelope.targets
    <3>1. CASE Unhides(r)
      <4>1. SavesEnvelope(TRUE, SaveHidden(hidden \ {lower[r.name]}))
        BY <1>13, <3>1
      <4>2. torn' = FALSE /\ envelope' = SaveHidden(hidden \ {lower[r.name]})
        BY <4>1 DEF SavesEnvelope
      <4> QED
        BY <1>10, <1>11, <3>1, <4>2
    <3>2. CASE ~Unhides(r)
      BY <1>2, <1>3, <1>11, <1>13, <3>2 DEF KeepsEnvelope
    <3> QED
      BY <3>1, <3>2
  <2>2. Unpublished => customsOf(w) = customsOf(recs)
    <3> SUFFICES ASSUME Unpublished PROVE customsOf(w) = customsOf(recs)
      OBVIOUS
    <3>1. merged(r) \in Record /\ merged(r).builtin
      BY <1>9, <1>13
    <3>2. CASE w = Append(recs, merged(r))
      BY <1>3, <3>1, <3>2, CustomsUndisturbed
    <3>3. CASE /\ i \in 1..Len(recs) /\ w = [recs EXCEPT ![i] = merged(r)]
               /\ lower[recs[i].name] = lower[r.name]
               /\ merged(r).builtin = (recs[i].builtin \/ lower[r.name] \in builtinNames)
      <4>1. recs[i].builtin
        <5>1. /\ builtinNames = FirstKeys
              /\ recs[i].builtin <=> lower[recs[i].name] \in FirstKeys
          BY <1>6, <3>3 DEF Core, Known, Flagged
        <5> QED
          BY <1>13, <3>3, <5>1
      <4>2. customsOf([recs EXCEPT ![i] = merged(r)]) = customsOf(recs)
        BY <1>3, <3>1, <3>3, <4>1, CustomsUndisturbed
      <4> QED
        BY <3>3, <4>2
    <3> QED
      BY <1>4, <3>2, <3>3 DEF Placed
  <2>3. files' = [files EXCEPT ![r.name] = r.cidrs]
    BY <1>1, <1>13 DEF SavesRanges
  <2>4. ASSUME NEW j \in 1..M, w[j].builtin, w[j].name \notin refetched'
        PROVE  files'[w[j].name] = w[j].cidrs
    <3>1. CASE j = i
      BY <1>3, <1>8, <1>9, <2>3, <3>1
    <3>2. CASE j # i
      <4>1. lower[w[j].name] # lower[w[i].name]
        <5>1. w[i].builtin
          BY <1>8, <1>13
        <5> QED
          BY <1>5, <1>7, <1>8, <2>4, <3>2, <5>1 DEF Tidy, Twins
      <4>2. w[j] = recs[j] /\ j \in 1..N /\ w[j].name # r.name
        BY <1>8, <1>9, <3>2, <4>1
      <4>3. w[j].name \in Names
        BY <1>5, <1>7, ElementOfSeq, RecordFields
      <4>4. files[w[j].name] = w[j].cidrs
        BY <1>2, <1>6, <1>13, <2>4, <4>2
      <4> QED
        BY <1>3, <2>3, <4>2, <4>3, <4>4
    <3> QED
      BY <3>1, <3>2
  <2>5. recs' = w
    BY <1>13
  <2> QED
    BY <1>2, <1>7, <1>12, <2>1, <2>2, <2>4, <2>5
<1>14. CASE /\ ~merged(r).builtin
            /\ recs' = stored(r)
            /\ SavesEnvelope(ok, SaveCustoms(customsOf(stored(r))))
            /\ UNCHANGED <<files, refetched>>
  <2>1. ~Unhides(r)
    BY <1>4, <1>14 DEF Placed, Unhides
  <2>2. envelope' = SaveCustoms(customsOf(w)) /\ torn' = FALSE
    BY <1>1, <1>3, <1>14, EnvelopeSaved
  <2>3. envelope'.hidden = hidden' /\ envelope'.targets = customsOf(w)
    BY <1>2, <1>10, <1>11, <2>1, <2>2
  <2>4. ASSUME NEW j \in 1..M, w[j].builtin, w[j].name \notin refetched'
        PROVE  files'[w[j].name] = w[j].cidrs
    <3>1. j # i
      BY <1>8, <1>14, <2>4
    <3> QED
      BY <1>2, <1>6, <1>8, <1>14, <2>4, <3>1
  <2>5. recs' = w
    BY <1>14
  <2> QED
    BY <1>7, <2>2, <2>3, <2>4, <2>5
<1> QED
  BY <1>1, <1>13, <1>14 DEF Upserted

LEMMA UpsertedCore ==
    ASSUME Core, up, NEW r \in Record, trim[r.name] = r.name, NEW ok \in BOOLEAN,
           Upserted(r, ok)
    PROVE  Core'
  BY UpsertedKept, UpsertedFiles DEF Core

LEMMA FirstKeysAre ==
    /\ \A i \in 1..Len(FirstManifest) : lower[FirstManifest[i]] \in FirstKeys
    /\ {lower[FirstManifest[i]] : i \in DOMAIN FirstManifest} = FirstKeys
    /\ FirstKeys \subseteq Keys
<1>1. DOMAIN FirstManifest = 1..Len(FirstManifest)
  BY RegistryAssumption, LenProperties
<1>2. Range(FirstManifest) = {FirstManifest[i] : i \in DOMAIN FirstManifest}
  BY DEF Range
<1>3. Range(FirstManifest) \subseteq Names
  BY RegistryAssumption, RangeOfSeq
<1> QED
  BY <1>1, <1>2, <1>3 DEF FirstKeys, Keys

\* RestoreBuiltins reads no file of a target that is listed.
LEMMA MissingUnlisted ==
    ASSUME Tidy(recs), NEW m, Entries(m)
    PROVE  \A j \in 1..Len(recs) : recs[j].name \notin Range(Missing(m))
<1> DEFINE K == {n \in Names : indexOf(recs, n) = 0}
           t == Missing(m)
<1> SUFFICES ASSUME NEW j \in 1..Len(recs), NEW l \in DOMAIN t, recs[j].name = t[l]
             PROVE  FALSE
  BY DEF Range
<1>1. t = Only(m, K)
  BY DEF Missing
<1>2. Entries(t) /\ \A i \in 1..Len(t) : t[i] \in K
  BY <1>1, EntriesOnly
<1> HIDE DEF t
<1>3. t[l] \in K
  BY <1>2, LenProperties DEF Entries
<1>4. recs \in Seq(Record) /\ trim[recs[j].name] = recs[j].name
  BY DEF Tidy
<1>5. lower[recs[j].name] # lower[trim[t[l]]]
  BY <1>3, <1>4, Finds
<1> QED
  BY <1>4, <1>5

\* What RestoreBuiltins adds: built-ins with the ranges of their files.
LEMMA AddedCurrent ==
    ASSUME Tidy(recs), files \in [Names -> Lists], NEW m, Entries(m)
    PROVE  /\ Tidy(recs \o Added(m)) /\ customsOf(recs \o Added(m)) = customsOf(recs)
           /\ (\A i \in DOMAIN recs : recs[i].builtin /\ recs[i].name \notin refetched
                                       => files[recs[i].name] = recs[i].cidrs)
                => \A i \in DOMAIN (recs \o Added(m)) :
                     /\ (recs \o Added(m))[i].builtin
                     /\ (recs \o Added(m))[i].name \notin refetched \ Range(Missing(m))
                     => files[(recs \o Added(m))[i].name] = (recs \o Added(m))[i].cidrs
           /\ Flagged(recs) /\ m = FirstManifest => Flagged(recs \o Added(m))
<1> DEFINE a == Added(m)
<1>1. /\ a \in Seq(Record) /\ Tidy(recs \o a)
      /\ \A j \in 1..Len(a) : /\ a[j].builtin /\ a[j].cidrs = files[a[j].name]
                              /\ \E i \in 1..Len(m) : a[j].name = m[i]
  BY AddedTidy
<1> HIDE DEF a
<1>2. recs \in Seq(Record) /\ recs \o a \in Seq(Record)
  BY <1>1 DEF Tidy
<1> DEFINE w == recs \o a
<1>3. \A i \in 1..Len(w) : (\E j \in 1..Len(recs) : w[i] = recs[j]) \/ (\E j \in 1..Len(a) : w[i] = a[j])
  BY <1>1, <1>2, ConcatElements
<1>4. DOMAIN recs = 1..Len(recs) /\ DOMAIN w = 1..Len(w)
  BY <1>2, LenProperties
<1>5. Only(w, Customs) = Only(recs, Customs)
  <2>1. \A j \in 1..Len(a) : a[j] \notin Customs
    BY <1>1 DEF Customs
  <2>2. Only(a, Customs) = <<>>
    BY <1>1, <2>1, OnlyNone
  <2> QED
    BY <1>1, <1>2, <2>2, OnlyBetween, EmptySeq
<1> HIDE DEF w
<1>6. (\A i \in DOMAIN recs : recs[i].builtin /\ recs[i].name \notin refetched
                              => files[recs[i].name] = recs[i].cidrs)
         => \A i \in DOMAIN w : w[i].builtin /\ w[i].name \notin refetched \ Range(Missing(m))
                              => files[w[i].name] = w[i].cidrs
  <2> SUFFICES ASSUME \A j \in 1..Len(recs) : recs[j].builtin /\ recs[j].name \notin refetched
                                               => files[recs[j].name] = recs[j].cidrs,
                      NEW i \in 1..Len(w), w[i].builtin,
                      w[i].name \notin refetched \ Range(Missing(m))
               PROVE  files[w[i].name] = w[i].cidrs
    BY <1>4
  <2>1. CASE \E j \in 1..Len(recs) : w[i] = recs[j]
    BY <2>1, MissingUnlisted
  <2>2. CASE \E j \in 1..Len(a) : w[i] = a[j]
    BY <1>1, <2>2
  <2> QED
    BY <1>3, <2>1, <2>2
<1>7. Flagged(recs) /\ m = FirstManifest => Flagged(w)
  <2> SUFFICES ASSUME Flagged(recs), m = FirstManifest, NEW i \in 1..Len(w)
               PROVE  w[i].builtin <=> lower[w[i].name] \in FirstKeys
    BY <1>4 DEF Flagged
  <2>1. CASE \E j \in 1..Len(recs) : w[i] = recs[j]
    BY <1>4, <2>1 DEF Flagged
  <2>2. CASE \E j \in 1..Len(a) : w[i] = a[j]
    <3>1. PICK j \in 1..Len(a) : w[i] = a[j]
      BY <2>2
    <3>2. a[j].builtin /\ \E k \in 1..Len(FirstManifest) : a[j].name = FirstManifest[k]
      BY <1>1
    <3>3. lower[a[j].name] \in FirstKeys
      BY <3>2, FirstKeysAre
    <3> QED
      BY <3>1, <3>2, <3>3
  <2> QED
    BY <1>3, <2>1, <2>2
<1> QED
  BY <1>1, <1>5, <1>6, <1>7 DEF customsOf, w, a

\* What Open makes of the files.
LEMMA OpenedCurrent ==
    ASSUME files \in [Names -> Lists], NEW m, Entries(m), Tidy(envelope.targets),
           \A i \in 1..Len(envelope.targets) : ~envelope.targets[i].builtin
    PROVE  /\ Tidy(Opened(m)) /\ customsOf(Opened(m)) = envelope.targets
           /\ \A i \in DOMAIN Opened(m) :
                Opened(m)[i].builtin => files[Opened(m)[i].name] = Opened(m)[i].cidrs
           /\ Flagged(envelope.targets) /\ m = FirstManifest => Flagged(Opened(m))
<1> DEFINE a == Seeded(m)
           b == envelope.targets
           w == Opened(m)
<1>1. /\ w = a \o b /\ a \in Seq(Record) /\ Tidy(w)
      /\ \A j \in 1..Len(a) : /\ a[j].builtin /\ a[j].cidrs = files[a[j].name]
                              /\ \E i \in 1..Len(m) : a[j].name = m[i]
  BY OpenedTidy
<1>2. b \in Seq(Record) /\ w \in Seq(Record) /\ \A j \in 1..Len(b) : ~b[j].builtin
  BY <1>1 DEF Tidy
<1>3. Flagged(b) <=> \A j \in 1..Len(b) : b[j].builtin <=> lower[b[j].name] \in FirstKeys
  <2>1. DOMAIN b = 1..Len(b)
    BY <1>2, LenProperties
  <2> QED
    BY <2>1 DEF Flagged
<1> HIDE DEF a, b, w
<1>4. \A i \in 1..Len(w) : (\E j \in 1..Len(a) : w[i] = a[j]) \/ (\E j \in 1..Len(b) : w[i] = b[j])
  BY <1>1, <1>2, ConcatElements
<1>5. DOMAIN w = 1..Len(w)
  BY <1>2, LenProperties
<1>6. Only(w, Customs) = b
  <2>1. \A j \in 1..Len(a) : a[j] \notin Customs
    BY <1>1 DEF Customs
  <2>2. \A j \in 1..Len(b) : b[j] \in Customs
    BY <1>2, ElementOfSeq DEF Customs
  <2>3. Only(a, Customs) = <<>>
    BY <1>1, <2>1, OnlyNone
  <2>4. Only(b, Customs) = b
    BY <1>2, <2>2, OnlyAll
  <2>5. Only(a \o b, Customs) = Only(a, Customs) \o Only(b, Customs)
    BY <1>1, <1>2, OnlyConcat
  <2> QED
    BY <1>1, <1>2, <2>3, <2>4, <2>5, ConcatEmptySeq
<1>7. \A i \in DOMAIN w : w[i].builtin => files[w[i].name] = w[i].cidrs
  BY <1>1, <1>2, <1>4, <1>5
<1>8. Flagged(b) /\ m = FirstManifest => Flagged(w)
  <2> SUFFICES ASSUME Flagged(b), m = FirstManifest, NEW i \in 1..Len(w)
               PROVE  w[i].builtin <=> lower[w[i].name] \in FirstKeys
    BY <1>5 DEF Flagged
  <2>1. CASE \E j \in 1..Len(b) : w[i] = b[j]
    BY <1>3, <2>1
  <2>2. CASE \E j \in 1..Len(a) : w[i] = a[j]
    <3>1. PICK j \in 1..Len(a) : w[i] = a[j]
      BY <2>2
    <3>2. a[j].builtin /\ \E k \in 1..Len(FirstManifest) : a[j].name = FirstManifest[k]
      BY <1>1
    <3>3. lower[a[j].name] \in FirstKeys
      BY <3>2, FirstKeysAre
    <3> QED
      BY <3>1, <3>2, <3>3
  <2> QED
    BY <1>4, <2>1, <2>2
<1> QED
  BY <1>1, <1>6, <1>7, <1>8 DEF customsOf, b, w

\* A deletion.
LEMMA DeletedCore ==
    ASSUME Core, up, NEW n \in Names, NEW ok \in BOOLEAN, deleted(n, ok),
           failed' = (failed \/ ~ok),
           UNCHANGED <<upstream, manifest, builtinNames, files, refetched, up>>
    PROVE  Core'
<1> DEFINE i == indexOf(recs, n)
           w == RemoveAt(recs, i)
<1>1. /\ recs \in Seq(Record) /\ envelope \in Envelope /\ torn \in BOOLEAN /\ lower[n] \in Keys
      /\ hidden \subseteq Keys /\ failed \in BOOLEAN
  BY DEF Core, CoreTyped, Keys
<1>2. i \in 1..Len(recs) /\ recs' = w
  BY <1>1, Finds DEF deleted
<1>3. \/ /\ recs[i].builtin /\ hidden' = hidden \union {lower[n]}
         /\ SavesEnvelope(ok, SaveHidden(hidden'))
      \/ /\ ~recs[i].builtin /\ hidden' = hidden
         /\ SavesEnvelope(ok, SaveCustoms(customsOf(w)))
  BY <1>2 DEF deleted
<1>4. /\ Tidy(w)
      /\ \A j \in 1..Len(w) : \E k \in 1..Len(recs) : k # i /\ w[j] = recs[k]
  BY <1>2, RemovedTidy DEF Core, Kept
<1>5. recs[i].builtin => customsOf(w) = customsOf(recs)
  BY <1>1, <1>2, CustomsUndisturbed
<1> HIDE DEF i, w
<1>6. /\ Tidy(customsOf(w))
      /\ \A j \in 1..Len(customsOf(w)) :
           /\ ~customsOf(w)[j].builtin
           /\ \E k \in 1..Len(w) : customsOf(w)[j] = w[k]
  BY <1>4, CustomsTidy
<1>7. /\ w \in Seq(Record) /\ customsOf(w) \in Seq(Record)
      /\ DOMAIN w = 1..Len(w) /\ DOMAIN customsOf(w) = 1..Len(customsOf(w))
      /\ DOMAIN recs = 1..Len(recs)
  BY <1>1, <1>4, <1>6, LenProperties DEF Tidy
<1>8. /\ hidden' \subseteq Keys
      /\ SaveHidden(hidden').targets = envelope.targets /\ SaveHidden(hidden').hidden = hidden'
      /\ SaveHidden(hidden') \in Envelope
      /\ SaveCustoms(customsOf(w)).targets = customsOf(w)
      /\ SaveCustoms(customsOf(w)).hidden = envelope.hidden
      /\ SaveCustoms(customsOf(w)) \in Envelope
  <2>1. hidden' \subseteq Keys
    BY <1>1, <1>3
  <2> QED
    BY <1>1, <1>7, <2>1, EnvelopeFields
<1>9. /\ torn' \in BOOLEAN /\ envelope' \in Envelope
      /\ envelope'.targets = envelope.targets \/ envelope'.targets = customsOf(w)
  <2>1. torn' \in BOOLEAN
    BY <1>1, <1>3, EnvelopeSaved
  <2>2. \/ envelope' = envelope \/ envelope' = SaveHidden(hidden')
        \/ envelope' = SaveCustoms(customsOf(w))
    BY <1>1, <1>3, EnvelopeSaved
  <2> QED
    BY <1>1, <1>8, <2>1, <2>2
<1>10. CoreTyped'
  BY <1>1, <1>2, <1>7, <1>8, <1>9 DEF Core, CoreTyped
<1>11. Manifests'
  BY DEF Core, Manifests, Unpublished
<1>12. Kept'
  <2>1. Tidy(recs)'
    BY <1>2, <1>4 DEF Tidy, Twins
  <2>2. Tidy(envelope.targets)' /\ (\A k \in 1..Len(envelope.targets) : ~envelope.targets[k].builtin)'
    <3>1. CASE envelope'.targets = envelope.targets
      BY <3>1 DEF Core, Kept, Tidy, Twins
    <3>2. CASE envelope'.targets = customsOf(w)
      BY <1>6, <3>2 DEF Tidy, Twins
    <3> QED
      BY <1>9, <3>1, <3>2
  <2> QED
    BY <2>1, <2>2 DEF Kept
<1>13. Known'
  <2> SUFFICES ASSUME Unpublished'
               PROVE  builtinNames' = FirstKeys /\ Flagged(recs)' /\ Flagged(envelope.targets)'
    BY DEF Known
  <2>1. /\ Unpublished /\ builtinNames' = FirstKeys
        /\ Flagged(recs) /\ Flagged(envelope.targets)
    BY DEF Core, Known, Unpublished
  <2>2. Flagged(w)
    BY <1>4, <1>7, <2>1 DEF Flagged
  <2>3. Flagged(customsOf(w))
    BY <1>6, <1>7, <2>2 DEF Flagged
  <2> QED
    BY <1>2, <1>9, <2>1, <2>2, <2>3 DEF Flagged
<1>14. FilesCurrent'
  <2> SUFFICES ASSUME ~failed'
               PROVE  /\ ~torn' /\ envelope'.hidden = hidden'
                      /\ Unpublished' => envelope'.targets = customsOf(recs')
                      /\ \A j \in DOMAIN recs' :
                           recs'[j].builtin /\ recs'[j].name \notin refetched'
                             => files'[recs'[j].name] = recs'[j].cidrs
    BY DEF FilesCurrent, customsOf
  <2>1. ok = TRUE /\ ~failed
    OBVIOUS
  <2>2. /\ ~torn /\ envelope.hidden = hidden
        /\ Unpublished => envelope.targets = customsOf(recs)
        /\ \A j \in DOMAIN recs : recs[j].builtin /\ recs[j].name \notin refetched
                                   => files[recs[j].name] = recs[j].cidrs
    BY <2>1 DEF Core, FilesCurrent
  <2>3. Unpublished' <=> Unpublished
    BY DEF Unpublished
  <2>4. \A j \in DOMAIN w : w[j].builtin /\ w[j].name \notin refetched
                            => files[w[j].name] = w[j].cidrs
    BY <1>4, <1>7, <2>2
  <2>5. torn' = FALSE /\ envelope'.hidden = hidden'
        /\ (Unpublished => envelope'.targets = customsOf(w))
    <3>1. CASE /\ recs[i].builtin /\ hidden' = hidden \union {lower[n]}
               /\ SavesEnvelope(ok, SaveHidden(hidden'))
      <4>1. torn' = FALSE /\ envelope' = SaveHidden(hidden')
        BY <1>1, <2>1, <3>1, EnvelopeSaved
      <4> QED
        BY <1>5, <1>8, <2>2, <3>1, <4>1
    <3>2. CASE /\ ~recs[i].builtin /\ hidden' = hidden
               /\ SavesEnvelope(ok, SaveCustoms(customsOf(w)))
      <4>1. torn' = FALSE /\ envelope' = SaveCustoms(customsOf(w))
        BY <1>1, <2>1, <3>2, EnvelopeSaved
      <4> QED
        BY <1>8, <2>2, <3>2, <4>1
    <3> QED
      BY <1>3, <3>1, <3>2
  <2> QED
    BY <1>2, <2>3, <2>4, <2>5
<1> QED
  BY <1>10, <1>11, <1>12, <1>13, <1>14 DEF Core

\* RestoreBuiltins, after the manifest was loaded or could not be.
LEMMA RestoredCore ==
    ASSUME Core, up, manifest' \in {upstream, manifest}, NEW ok \in BOOLEAN,
           Restored(manifest', ok), UNCHANGED <<upstream, files, up>>
    PROVE  Core'
<1> DEFINE m == manifest'
           w == recs \o Added(m)
<1>1. /\ recs \in Seq(Record) /\ envelope \in Envelope /\ torn \in BOOLEAN
      /\ files \in [Names -> Lists] /\ hidden \subseteq Keys /\ failed \in BOOLEAN
      /\ builtinNames \subseteq Keys /\ refetched \subseteq Names
  BY DEF Core, CoreTyped
<1>2. Entries(m) /\ m \in Seq(Names)
  BY DEF Core, CoreTyped, Manifests
<1>3. Unpublished => m = FirstManifest
  BY DEF Core, Manifests, Unpublished
<1> HIDE DEF m
<1>4. /\ Tidy(w) /\ customsOf(w) = customsOf(recs)
      /\ (\A i \in DOMAIN recs : recs[i].builtin /\ recs[i].name \notin refetched
                                  => files[recs[i].name] = recs[i].cidrs)
           => \A i \in DOMAIN w : w[i].builtin /\ w[i].name \notin refetched \ Range(Missing(m))
                                 => files[w[i].name] = w[i].cidrs
      /\ Flagged(recs) /\ m = FirstManifest => Flagged(w)
  BY <1>1, <1>2, AddedCurrent DEF Core, Kept
<1>5. w = recs \o [i \in DOMAIN Missing(m) |-> Builtin(Missing(m)[i])]
  BY DEF Added, Seeds
<1>6. /\ hidden' = {} /\ failed' = (failed \/ ~ok)
      /\ \/ hidden # {} /\ SavesEnvelope(ok, SaveHidden({}))
         \/ hidden = {} /\ ok /\ KeepsEnvelope
      /\ \/ /\ ok /\ recs' = w
            /\ builtinNames' = builtinNames \union {lower[m[i]] : i \in DOMAIN m}
            /\ refetched' = refetched \ Range(Missing(m))
         \/ ~ok /\ UNCHANGED <<recs, builtinNames, refetched>>
  BY <1>5 DEF Restored, m
<1> HIDE DEF w
<1>7. {lower[m[i]] : i \in DOMAIN m} \subseteq Keys
  <2>1. \A i \in DOMAIN m : m[i] \in Names
    BY <1>2, LenProperties, ElementOfSeq
  <2> QED
    BY <2>1 DEF Keys
<1>8. /\ envelope.targets \in Seq(Record)
      /\ SaveHidden({}).targets = envelope.targets /\ SaveHidden({}).hidden = {}
      /\ SaveHidden({}) \in Envelope
  BY <1>1, EnvelopeFields
<1>9. /\ torn' \in BOOLEAN /\ envelope' \in Envelope /\ envelope'.targets = envelope.targets
      /\ ok => /\ torn = FALSE => torn' = FALSE
               /\ envelope.hidden = hidden => envelope'.hidden = {}
  <2>1. CASE hidden # {} /\ SavesEnvelope(ok, SaveHidden({}))
    <3>1. torn' \in BOOLEAN /\ (ok => envelope' = SaveHidden({}) /\ torn' = FALSE)
                            /\ (~ok => envelope' = envelope)
      BY <1>1, <2>1, EnvelopeSaved
    <3> QED
      BY <1>1, <1>8, <3>1
  <2>2. CASE hidden = {} /\ ok /\ KeepsEnvelope
    BY <1>1, <2>2 DEF KeepsEnvelope
  <2> QED
    BY <1>6, <2>1, <2>2
<1>10. /\ recs' \in Seq(Record) /\ Tidy(recs') /\ builtinNames' \subseteq Keys
       /\ refetched' \subseteq Names
  BY <1>1, <1>4, <1>6, <1>7 DEF Tidy, Core, Kept
<1>11. CoreTyped'
  BY <1>1, <1>2, <1>6, <1>9, <1>10 DEF Core, CoreTyped, m
<1>12. Manifests'
  BY <1>2, <1>3 DEF Core, Manifests, Unpublished, m
<1>13. Kept'
  BY <1>9, <1>10 DEF Core, Kept, Tidy, Twins
<1>14. Known'
  <2> SUFFICES ASSUME Unpublished'
               PROVE  builtinNames' = FirstKeys /\ Flagged(recs)' /\ Flagged(envelope.targets)'
    BY DEF Known
  <2>1. /\ Unpublished /\ builtinNames = FirstKeys /\ m = FirstManifest
        /\ Flagged(recs) /\ Flagged(envelope.targets)
    BY <1>3 DEF Core, Known, Unpublished
  <2>2. Flagged(w)
    BY <1>4, <2>1
  <2>3. builtinNames' = FirstKeys
    BY <1>6, <2>1, FirstKeysAre
  <2>4. Flagged(recs')
    BY <1>6, <2>1, <2>2
  <2> QED
    BY <1>9, <2>1, <2>3, <2>4 DEF Flagged
<1>15. FilesCurrent'
  <2> SUFFICES ASSUME ~failed'
               PROVE  /\ ~torn' /\ envelope'.hidden = hidden'
                      /\ Unpublished' => envelope'.targets = customsOf(recs')
                      /\ \A j \in DOMAIN recs' :
                           recs'[j].builtin /\ recs'[j].name \notin refetched'
                             => files'[recs'[j].name] = recs'[j].cidrs
    BY DEF FilesCurrent, customsOf
  <2>1. ok /\ ~failed
    BY <1>6
  <2>2. /\ ~torn /\ envelope.hidden = hidden
        /\ Unpublished => envelope.targets = customsOf(recs)
        /\ \A j \in DOMAIN recs : recs[j].builtin /\ recs[j].name \notin refetched
                                   => files[recs[j].name] = recs[j].cidrs
    BY <2>1 DEF Core, FilesCurrent
  <2>3. Unpublished' <=> Unpublished
    BY DEF Unpublished
  <2>4. recs' = w /\ hidden' = {} /\ refetched' = refetched \ Range(Missing(m))
    BY <1>6, <2>1
  <2>5. torn' = FALSE /\ envelope'.hidden = {}
    BY <1>1, <1>9, <2>1, <2>2
  <2>6. \A j \in DOMAIN w : w[j].builtin /\ w[j].name \notin refetched'
                            => files[w[j].name] = w[j].cidrs
    BY <1>4, <2>2, <2>4
  <2> QED
    BY <1>4, <1>9, <2>2, <2>3, <2>4, <2>5, <2>6
<1> QED
  BY <1>11, <1>12, <1>13, <1>14, <1>15 DEF Core

\* Open, at the start and at every restart.
LEMMA OpenedCore ==
    ASSUME Core, up, Restart
    PROVE  Core'
<1> DEFINE m == manifest'
           w == Opened(m)
<1>1. /\ files \in [Names -> Lists] /\ envelope \in Envelope /\ up \in BOOLEAN
      /\ ~torn /\ torn \in BOOLEAN
  BY DEF Core, CoreTyped, Restart
<1>2. Entries(m) /\ m \in Seq(Names) /\ (Unpublished => m = FirstManifest)
  BY DEF Core, CoreTyped, Manifests, Restart, Unpublished
<1> HIDE DEF m
<1>3. /\ Tidy(w) /\ customsOf(w) = envelope.targets
      /\ \A i \in DOMAIN w : w[i].builtin => files[w[i].name] = w[i].cidrs
      /\ Flagged(envelope.targets) /\ m = FirstManifest => Flagged(w)
  BY <1>1, <1>2, OpenedCurrent DEF Core, Kept
<1> HIDE DEF w
<1>4. /\ recs' = w /\ hidden' = envelope.hidden /\ failed' = FALSE /\ refetched' = {}
      /\ builtinNames' = {lower[m[i]] : i \in DOMAIN m}
      /\ UNCHANGED <<upstream, files, envelope, torn, up>> /\ manifest' = m
  BY DEF Restart, m, w
<1>5. {lower[m[i]] : i \in DOMAIN m} \subseteq Keys
  <2>1. \A i \in DOMAIN m : m[i] \in Names
    BY <1>2, LenProperties, ElementOfSeq
  <2> QED
    BY <2>1 DEF Keys
<1>6. envelope.hidden \subseteq Keys
  BY <1>1 DEF Envelope
<1>7. CoreTyped'
  <2>1. recs' \in Seq(Record)
    BY <1>3, <1>4 DEF Tidy
  <2>2. builtinNames' \subseteq Keys /\ hidden' \subseteq Keys /\ failed' \in BOOLEAN
    BY <1>4, <1>5, <1>6
  <2> QED
    BY <1>2, <1>4, <2>1, <2>2 DEF Core, CoreTyped
<1>8. Manifests'
  BY <1>2, <1>4 DEF Core, Manifests, Unpublished
<1>9. Kept'
  BY <1>3, <1>4 DEF Core, Kept, Tidy, Twins
<1>10. Known'
  <2> SUFFICES ASSUME Unpublished'
               PROVE  builtinNames' = FirstKeys /\ Flagged(recs)' /\ Flagged(envelope.targets)'
    BY DEF Known
  <2>1. m = FirstManifest /\ Flagged(envelope.targets)
    BY <1>2, <1>4 DEF Core, Known, Unpublished
  <2>2. Flagged(w)
    BY <1>3, <2>1
  <2>3. builtinNames' = FirstKeys
    BY <1>4, <2>1, FirstKeysAre
  <2> QED
    BY <1>4, <2>1, <2>2, <2>3 DEF Flagged
<1>11. FilesCurrent'
  BY <1>1, <1>3, <1>4 DEF FilesCurrent, customsOf
<1> QED
  BY <1>7, <1>8, <1>9, <1>10, <1>11 DEF Core

LEMMA RefusedCore ==
    ASSUME Core, Refuse
    PROVE  Core'
<1>1. /\ recs' = <<>> /\ builtinNames' = {} /\ hidden' = {} /\ up' = FALSE /\ torn
      /\ UNCHANGED <<upstream, manifest, files, envelope, torn, failed, refetched>>
  BY DEF Refuse, diskVars
<1>2. <<>> \in Seq(Record) /\ DOMAIN <<>> = {}
  OBVIOUS
<1>3. CoreTyped'
  BY <1>1, <1>2 DEF Core, CoreTyped
<1>4. Manifests'
  BY <1>1 DEF Core, Manifests, Unpublished
<1>5. Kept'
  BY <1>1, <1>2 DEF Core, Kept, Tidy, Twins
<1>6. Known'
  <2> SUFFICES ASSUME Unpublished'
               PROVE  (up => builtinNames = FirstKeys)' /\ Flagged(recs)' /\ Flagged(envelope.targets)'
    BY DEF Known
  <2>1. Unpublished
    BY <1>1 DEF Unpublished
  <2>2. Flagged(envelope.targets)'
    BY <1>1, <2>1 DEF Core, Known, Flagged
  <2>3. Flagged(recs)'
    BY <1>1, <1>2 DEF Flagged
  <2> QED
    BY <1>1, <2>2, <2>3
<1>7. FilesCurrent'
  <2>1. failed
    BY <1>1 DEF Core, FilesCurrent
  <2> QED
    BY <1>1, <2>1 DEF FilesCurrent
<1> QED
  BY <1>3, <1>4, <1>5, <1>6, <1>7 DEF Core

\* A publication: from then on the built-ins are no longer those at the start.
LEMMA PublishedCore ==
    ASSUME Core, Publish
    PROVE  Core'
<1>1. PICK n \in Upcoming : ~Contains(upstream, n) /\ upstream' = Append(upstream, n)
  BY DEF Publish
<1>2. UNCHANGED <<manifest, recs, builtinNames, hidden, files, envelope, torn, up, failed,
                  refetched>>
  BY DEF Publish, memVars, diskVars
<1>3. n \in Published /\ n \in Names
  BY PublishedNames DEF Published
<1>4. /\ upstream \in Seq(Published) /\ upstream \in Seq(Names)
      /\ IsInjective(upstream) /\ Len(FirstManifest) <= Len(upstream)
  BY DEF Core, CoreTyped, Manifests, Entries
<1>5. /\ upstream' \in Seq(Published) /\ Len(upstream') = Len(upstream) + 1
      /\ \A i \in 1..Len(upstream) : upstream'[i] = upstream[i]
      /\ upstream'[Len(upstream) + 1] = n
  BY <1>1, <1>3, <1>4, AppendProperties
<1>6. upstream' \in Seq(Names)
  BY <1>1, <1>3, <1>4, AppendProperties
<1>7. Len(FirstManifest) \in Nat /\ Len(upstream) \in Nat
  BY <1>4, RegistryAssumption, LenProperties
<1>8. DOMAIN upstream = 1..Len(upstream) /\ DOMAIN upstream' = 1..(Len(upstream) + 1)
  BY <1>4, <1>5, LenProperties
<1>9. IsInjective(upstream')
  <2> SUFFICES ASSUME NEW i \in DOMAIN upstream', NEW j \in DOMAIN upstream',
                      upstream'[i] = upstream'[j]
               PROVE  i = j
    BY DEF IsInjective
  <2>1. \A k \in 1..Len(upstream) : upstream[k] # n
    BY <1>1 DEF Contains
  <2>2. \A k \in DOMAIN upstream' : k = Len(upstream) + 1 \/ k \in 1..Len(upstream)
    BY <1>7, <1>8
  <2>3. CASE i \in 1..Len(upstream) /\ j \in 1..Len(upstream)
    BY <1>4, <1>5, <1>8, <2>3 DEF IsInjective
  <2>4. CASE i = Len(upstream) + 1 /\ j \in 1..Len(upstream)
    BY <1>5, <2>1, <2>4
  <2>5. CASE i \in 1..Len(upstream) /\ j = Len(upstream) + 1
    BY <1>5, <2>1, <2>5
  <2> QED
    BY <2>2, <2>3, <2>4, <2>5
<1>10. ~Unpublished'
  <2>1. Len(upstream') # Len(FirstManifest)
    BY <1>4, <1>5, <1>7
  <2> QED
    BY <2>1 DEF Unpublished
<1>11. CoreTyped'
  BY <1>2, <1>6 DEF Core, CoreTyped
<1>12. Manifests'
  <2>1. Entries(upstream)'
    BY <1>5, <1>9 DEF Entries
  <2>2. Entries(manifest)'
    BY <1>2 DEF Core, Manifests, Entries
  <2>3. Len(FirstManifest) <= Len(upstream')
    BY <1>4, <1>5, <1>7
  <2> QED
    BY <1>10, <2>1, <2>2, <2>3 DEF Manifests
<1>13. Kept'
  BY <1>2 DEF Core, Kept, Tidy, Twins
<1>14. Known'
  BY <1>10 DEF Known
<1>15. FilesCurrent'
  BY <1>2, <1>10 DEF Core, FilesCurrent
<1> QED
  BY <1>11, <1>12, <1>13, <1>14, <1>15 DEF Core

\* A scan writes a range file of its own: the registry does not change, and the
\* name counts as fetched again.
LEMMA ScannedCore ==
    ASSUME Core, ScanRefreshes
    PROVE  Core'
<1>1. UNCHANGED <<upstream, manifest, recs, builtinNames, hidden, envelope, torn, up, failed>>
  BY DEF ScanRefreshes, memVars
<1>2. PICK n \in Scanned, c \in Lists :
        files' = [files EXCEPT ![n] = c] /\ refetched' = refetched \union {n}
  BY DEF ScanRefreshes
<1>3. n \in Names /\ files \in [Names -> Lists] /\ refetched \subseteq Names
  BY RegistryAssumption DEF Core, CoreTyped
<1>4. /\ files' \in [Names -> Lists] /\ refetched' \subseteq Names
      /\ \A x \in Names : x # n => files'[x] = files[x]
  BY <1>2, <1>3
<1>5. CoreTyped'
  BY <1>1, <1>4 DEF Core, CoreTyped
<1>6. Manifests'
  BY <1>1 DEF Core, Manifests, Entries, Unpublished
<1>7. Kept'
  BY <1>1 DEF Core, Kept, Tidy, Twins
<1>8. Known'
  BY <1>1 DEF Core, Known, Flagged, Unpublished
<1>9. FilesCurrent'
  <2> SUFFICES ASSUME ~failed'
               PROVE  /\ ~torn' /\ envelope'.hidden = hidden'
                      /\ Unpublished' => envelope'.targets = customsOf(recs')
                      /\ \A j \in DOMAIN recs' :
                           recs'[j].builtin /\ recs'[j].name \notin refetched'
                             => files'[recs'[j].name] = recs'[j].cidrs
    BY DEF FilesCurrent, customsOf
  <2>1. /\ ~torn /\ envelope.hidden = hidden
        /\ Unpublished => envelope.targets = customsOf(recs)
        /\ \A j \in DOMAIN recs : recs[j].builtin /\ recs[j].name \notin refetched
                                   => files[recs[j].name] = recs[j].cidrs
    BY <1>1 DEF Core, FilesCurrent
  <2>2. Unpublished' <=> Unpublished
    BY <1>1 DEF Unpublished
  <2>3. ASSUME NEW j \in DOMAIN recs, recs[j].builtin, recs[j].name \notin refetched'
        PROVE  files'[recs[j].name] = recs[j].cidrs
    <3>1. recs[j].name # n /\ recs[j].name \notin refetched
      BY <1>2, <2>3
    <3>2. recs \in Seq(Record)
      BY DEF Core, CoreTyped
    <3>3. recs[j].name \in Names
      BY <3>2, ElementOfSeq, LenProperties, RecordFields
    <3> QED
      BY <1>4, <2>1, <2>3, <3>1, <3>3
  <2> QED
    BY <1>1, <2>1, <2>2, <2>3
<1> QED
  BY <1>5, <1>6, <1>7, <1>8, <1>9 DEF Core

LEMMA Unchanged ==
    ASSUME Core, UNCHANGED <<upstream, manifest, memVars, diskVars, up, failed>>
    PROVE  Core'
<1>1. UNCHANGED <<upstream, manifest, recs, builtinNames, hidden, files, envelope, torn, up,
                  failed, refetched>>
  BY DEF memVars, diskVars
<1>2. CoreTyped'
  BY <1>1 DEF Core, CoreTyped
<1>3. Manifests'
  BY <1>1 DEF Core, Manifests, Entries, Unpublished
<1>4. Kept'
  BY <1>1 DEF Core, Kept, Tidy, Twins
<1>5. Known'
  BY <1>1 DEF Core, Known, Flagged, Unpublished
<1>6. FilesCurrent'
  BY <1>1 DEF Core, FilesCurrent, Unpublished, customsOf
<1> QED
  BY <1>2, <1>3, <1>4, <1>5, <1>6 DEF Core

-----------------------------------------------------------------------------
(* Requests *)

LEMMA ReloadableTyped ==
    ASSUME NEW rs \in Seq(Record)
    PROVE  Reloadable(rs) \in Seq(Names)
<1> DEFINE a == Only(rs, Record \ Customs)
           b == Only(rs, {r \in Customs : r.api # NoUrl})
<1>1. a \in Seq(Record)
  BY OnlyPicks DEF Picks
<1>2. b \in Seq(Record)
  BY OnlyPicks DEF Picks
<1>3. Reloadable(rs) = [i \in DOMAIN (a \o b) |-> (a \o b)[i].name]
  BY DEF Reloadable
<1> HIDE DEF a, b
<1> DEFINE all == a \o b
<1>4. all \in Seq(Record)
  BY <1>1, <1>2, ConcatProperties
<1> HIDE DEF all
<1>5. PICK N \in Nat : N = Len(all) /\ DOMAIN all = 1..N
  BY <1>4, LenProperties
<1>6. \A i \in 1..N : all[i].name \in Names
  BY <1>4, <1>5, ElementOfSeq, RecordFields
<1>7. [i \in 1..N |-> all[i].name] \in Seq(Names)
  BY <1>6
<1> QED
  BY <1>3, <1>5, <1>7 DEF all

\* What a request holds after a step that gives it names and drops its copy.
LEMMA RequestsDrop ==
    ASSUME Requests, NEW p \in Reloaders, NEW ns \in Seq(Names),
           todo' = [todo EXCEPT ![p] = ns],
           (held' = held /\ held[p] = <<>>) \/ held' = [held EXCEPT ![p] = <<>>]
    PROVE  Requests'
<1>1. todo' \in [Reloaders -> Seq(Names)]
  BY DEF Requests
<1>2. held' \in [Reloaders -> {<<>>} \union {<<r>> : r \in Record}]
  BY DEF Requests
<1>3. /\ held'[p] = <<>>
      /\ \A q \in Reloaders : q # p => held'[q] = held[q] /\ todo'[q] = todo[q]
  BY DEF Requests
<1> QED
  BY <1>1, <1>2, <1>3 DEF Requests

-----------------------------------------------------------------------------
(* Every step keeps the invariant. *)

LEMMA InitInv == Init => IInv
<1> SUFFICES ASSUME Init PROVE IInv
  OBVIOUS
<1>1. <<>> \in Seq(Record) /\ DOMAIN <<>> = {} /\ Len(<<>>) = 0
  OBVIOUS
<1>2. /\ envelope \in Envelope /\ envelope.targets = <<>> /\ envelope.hidden = {}
      /\ files \in [Names -> Lists]
  BY <1>1 DEF Init, Envelope, Lists
<1>3. Tidy(envelope.targets) /\ Flagged(envelope.targets)
  BY <1>1, <1>2 DEF Tidy, Twins, Flagged
<1>4. /\ Tidy(recs) /\ customsOf(recs) = envelope.targets /\ Flagged(recs)
      /\ \A i \in DOMAIN recs : recs[i].builtin => files[recs[i].name] = recs[i].cidrs
  <2>1. recs = Opened(FirstManifest)
    BY DEF Init
  <2>2. \A i \in 1..Len(envelope.targets) : ~envelope.targets[i].builtin
    BY <1>1, <1>2
  <2> QED
    BY <1>2, <1>3, <2>1, <2>2, PublishedNames, OpenedCurrent
<1>5. builtinNames = FirstKeys
  BY FirstKeysAre DEF Init, EntryKeys
<1>6. CoreTyped
  BY <1>2, <1>4, <1>5, FirstKeysAre, RegistryAssumption DEF Init, CoreTyped, Tidy
<1>7. Manifests
  <2>1. Len(FirstManifest) \in Nat
    BY RegistryAssumption, LenProperties
  <2> QED
    BY <2>1, PublishedNames DEF Init, Manifests
<1>8. Known
  BY <1>3, <1>4, <1>5 DEF Known
<1>9. Kept
  BY <1>1, <1>2, <1>3, <1>4 DEF Kept
<1>10. FilesCurrent
  BY <1>2, <1>4 DEF Init, FilesCurrent
<1>11. Requests
  BY DEF Init, Requests
<1> QED
  BY <1>6, <1>7, <1>8, <1>9, <1>10, <1>11 DEF IInv, Core

LEMMA HeldRecord ==
    ASSUME Requests, NEW p \in Reloaders, held[p] # <<>>
    PROVE  Head(held[p]) \in Record /\ trim[Head(held[p]).name] = Head(held[p]).name
<1>1. held[p] \in {<<r>> : r \in Record}
  BY DEF Requests
<1>2. PICK r \in Record : held[p] = <<r>>
  BY <1>1
<1>3. Head(held[p]) = r
  BY <1>2
<1>4. trim[Head(held[p]).name] = Head(held[p]).name
  BY DEF Requests
<1> QED
  BY <1>3, <1>4

LEMMA ReloaderInv ==
    ASSUME IInv, up, NEW p \in Reloaders, Reloader(p)
    PROVE  IInv'
<1>1. Core /\ Requests
  BY DEF IInv
<1>2. todo[p] \in Seq(Names)
  BY <1>1 DEF Requests
<1>3. todo[p] # <<>> => Head(todo[p]) \in Names /\ Tail(todo[p]) \in Seq(Names)
  BY <1>2, HeadTailProperties
<1>4. held[p] # <<>> => todo[p] # <<>>
  BY <1>1 DEF Requests
<1>5. CASE ReloadOne(p)
  <2>1. Core'
    BY <1>1, <1>5, Unchanged DEF ReloadOne
  <2>2. PICK n \in Names : todo' = [todo EXCEPT ![p] = <<n>>]
    BY <1>5 DEF ReloadOne
  <2>3. <<n>> \in Seq(Names) /\ held' = held /\ held[p] = <<>>
    BY <1>5 DEF ReloadOne, Idle
  <2> QED
    BY <1>1, <2>1, <2>2, <2>3, RequestsDrop DEF IInv
<1>6. CASE ReloadAll(p)
  <2>1. Core'
    <3>1. CASE manifest' \in {upstream, manifest} /\ \E ok \in BOOLEAN : Restored(manifest', ok)
      BY <1>1, <1>6, <3>1, RestoredCore DEF ReloadAll
    <3>2. CASE UNCHANGED <<manifest, memVars, envelope, torn, refetched, failed>>
      BY <1>1, <1>6, <3>2, Unchanged DEF ReloadAll, diskVars
    <3> QED
      BY <1>6, <3>1, <3>2 DEF ReloadAll
  <2>2. recs' \in Seq(Record)
    BY <2>1 DEF Core, CoreTyped
  <2>3. Reloadable(recs') \in Seq(Names)
    BY <2>2, ReloadableTyped
  <2>4. todo' = [todo EXCEPT ![p] = Reloadable(recs')] /\ held' = held /\ held[p] = <<>>
    BY <1>6 DEF ReloadAll, Idle
  <2> QED
    BY <1>1, <2>1, <2>3, <2>4, RequestsDrop DEF IInv
<1>7. CASE Fetch(p)
  <2>1. Core'
    BY <1>1, <1>7, Unchanged DEF Fetch
  <2> DEFINE i == indexOf(recs, Head(todo[p]))
  <2>2. CASE /\ i # 0 /\ held' = [held EXCEPT ![p] = <<recs[i]>>] /\ todo' = todo
    <3>1. recs \in Seq(Record) /\ Head(todo[p]) \in Names
      BY <1>1, <1>3, <1>7 DEF Core, CoreTyped, Fetch
    <3>2. i \in 1..Len(recs)
      BY <2>2, <3>1, Finds
    <3>3. DOMAIN recs = 1..Len(recs)
      BY <3>1, LenProperties
    <3>4. recs[i] \in Record /\ trim[recs[i].name] = recs[i].name
      BY <1>1, <3>1, <3>2, <3>3, ElementOfSeq DEF Core, Kept, Tidy
    <3> HIDE DEF i
    <3>5. held' \in [Reloaders -> {<<>>} \union {<<r>> : r \in Record}]
      BY <1>1, <2>2, <3>4 DEF Requests
    <3>6. \A q \in Reloaders : held'[q] = IF q = p THEN <<recs[i]>> ELSE held[q]
      BY <1>1, <2>2 DEF Requests
    <3>7. \A q \in Reloaders : held'[q] # <<>> =>
            todo'[q] # <<>> /\ trim[Head(held'[q]).name] = Head(held'[q]).name
      <4> SUFFICES ASSUME NEW q \in Reloaders, held'[q] # <<>>
                   PROVE  todo'[q] # <<>> /\ trim[Head(held'[q]).name] = Head(held'[q]).name
        OBVIOUS
      <4>1. CASE q = p
        <5>1. held'[q] = <<recs[i]>>
          BY <3>6, <4>1
        <5>2. Head(held'[q]) = recs[i]
          BY <5>1
        <5>3. todo'[q] # <<>>
          BY <1>7, <2>2, <4>1 DEF Fetch
        <5> QED
          BY <3>4, <5>2, <5>3
      <4>2. CASE q # p
        BY <1>1, <2>2, <3>6, <4>2 DEF Requests
      <4> QED
        BY <4>1, <4>2
    <3>8. Requests'
      BY <1>1, <2>2, <3>5, <3>7 DEF Requests
    <3> QED
      BY <2>1, <3>8 DEF IInv
  <2>3. CASE todo' = [todo EXCEPT ![p] = Tail(@)] /\ held' = held
    <3>1. Tail(todo[p]) \in Seq(Names)
      BY <1>3, <1>7 DEF Fetch
    <3> QED
      BY <1>1, <1>7, <2>1, <2>3, <3>1, RequestsDrop DEF IInv, Fetch
  <2> QED
    BY <1>7, <2>2, <2>3 DEF Fetch
<1>8. CASE Store(p)
  <2>1. Head(held[p]) \in Record /\ trim[Head(held[p]).name] = Head(held[p]).name
    BY <1>1, <1>8, HeldRecord DEF Store
  <2>2. PICK c \in Lists, ok \in BOOLEAN : Upserted([Head(held[p]) EXCEPT !.cidrs = c], ok)
    BY <1>8 DEF Store
  <2> DEFINE r == [Head(held[p]) EXCEPT !.cidrs = c]
  <2>3. r \in Record /\ trim[r.name] = r.name
    BY <2>1 DEF Record
  <2>4. Upserted(r, ok)
    BY <2>2
  <2> HIDE DEF r
  <2>5. Core'
    BY <1>1, <2>3, <2>4, UpsertedCore
  <2>6. held' = [held EXCEPT ![p] = <<>>] /\ todo' = [todo EXCEPT ![p] = Tail(@)]
    BY <1>8 DEF Store
  <2>7. Tail(todo[p]) \in Seq(Names)
    BY <1>3, <1>4, <1>8 DEF Store
  <2> QED
    BY <1>1, <2>5, <2>6, <2>7, RequestsDrop DEF IInv
<1>9. CASE FetchFails(p)
  <2>1. Core'
    BY <1>1, <1>9, Unchanged DEF FetchFails
  <2>2. held' = [held EXCEPT ![p] = <<>>] /\ todo' = [todo EXCEPT ![p] = Tail(@)]
    BY <1>9 DEF FetchFails
  <2>3. Tail(todo[p]) \in Seq(Names)
    BY <1>3, <1>4, <1>9 DEF FetchFails
  <2> QED
    BY <1>1, <2>1, <2>2, <2>3, RequestsDrop DEF IInv
<1> QED
  BY <1>5, <1>6, <1>7, <1>8, <1>9 DEF Reloader

LEMMA StepInv == IInv /\ [Next]_vars => IInv'
<1> SUFFICES ASSUME IInv, [Next]_vars PROVE IInv'
  OBVIOUS
<1>1. Core /\ Requests
  BY DEF IInv
<1>2. ASSUME UNCHANGED <<todo, held>> PROVE Requests'
  BY <1>1, <1>2 DEF Requests
<1>3. ASSUME todo' = [p \in Reloaders |-> <<>>], held' = [p \in Reloaders |-> <<>>]
      PROVE  Requests'
  BY <1>3 DEF Requests
<1>4. CASE Upsert
  <2>1. PICK n \in Names, c \in Lists, u \in Urls \union {NoUrl}, ok \in BOOLEAN :
          Upserted([name |-> trim[n], cidrs |-> c, api |-> u, builtin |-> FALSE], ok)
    BY <1>4 DEF Upsert
  <2> DEFINE r == [name |-> trim[n], cidrs |-> c, api |-> u, builtin |-> FALSE]
  <2>2. r \in Record /\ trim[r.name] = r.name
    BY RegistryAssumption DEF Record, AllUrls
  <2>3. Upserted(r, ok)
    BY <2>1
  <2> HIDE DEF r
  <2>4. Core'
    BY <1>1, <1>4, <2>2, <2>3, UpsertedCore DEF Upsert
  <2>5. UNCHANGED <<todo, held>>
    BY <1>4 DEF Upsert
  <2> QED
    BY <1>2, <2>4, <2>5 DEF IInv
<1>5. CASE Delete
  <2>1. Core'
    BY <1>1, <1>5, DeletedCore DEF Delete
  <2>2. UNCHANGED <<todo, held>>
    BY <1>5 DEF Delete
  <2> QED
    BY <1>2, <2>1, <2>2 DEF IInv
<1>6. CASE up /\ \E p \in Reloaders : Reloader(p)
  BY <1>6, ReloaderInv
<1>7. CASE up /\ Publish
  <2>1. Core'
    BY <1>1, <1>7, PublishedCore
  <2>2. UNCHANGED <<todo, held>>
    BY <1>7 DEF Publish
  <2> QED
    BY <1>2, <2>1, <2>2 DEF IInv
<1>8. CASE Restart
  <2>1. Core'
    BY <1>1, <1>8, OpenedCore DEF Restart
  <2>2. todo' = [p \in Reloaders |-> <<>>] /\ held' = [p \in Reloaders |-> <<>>]
    BY <1>8 DEF Restart
  <2> QED
    BY <1>3, <2>1, <2>2 DEF IInv
<1>9. CASE Refuse
  <2>1. Core'
    BY <1>1, <1>9, RefusedCore
  <2>2. todo' = [p \in Reloaders |-> <<>>] /\ held' = [p \in Reloaders |-> <<>>]
    BY <1>9 DEF Refuse
  <2> QED
    BY <1>3, <2>1, <2>2 DEF IInv
<1>10. CASE up /\ ScanRefreshes
  <2>1. Core'
    BY <1>1, <1>10, ScannedCore
  <2>2. UNCHANGED <<todo, held>>
    BY <1>10 DEF ScanRefreshes
  <2> QED
    BY <1>2, <2>1, <2>2 DEF IInv
<1>11. CASE UNCHANGED vars
  <2>1. UNCHANGED <<upstream, manifest, memVars, diskVars, up, failed>> /\ UNCHANGED <<todo, held>>
    BY <1>11 DEF vars, memVars, diskVars
  <2>2. Core'
    BY <1>1, <2>1, Unchanged
  <2> QED
    BY <1>2, <2>1, <2>2 DEF IInv
<1> QED
  BY <1>4, <1>5, <1>6, <1>7, <1>8, <1>9, <1>10, <1>11 DEF Next

LEMMA Invariance == Spec => []IInv
<1> QED
  BY InitInv, StepInv, PTL DEF Spec

\* Before a publication no two records have one name.
LEMMA Distinct ==
    ASSUME Core, Unpublished, NEW i \in DOMAIN recs, NEW j \in DOMAIN recs,
           lower[recs[i].name] = lower[recs[j].name]
    PROVE  i = j
<1>1. recs \in Seq(Record) /\ Tidy(recs) /\ Flagged(recs)
  BY DEF Core, CoreTyped, Kept, Known
<1>2. i \in Nat /\ j \in Nat
  BY <1>1, LenProperties
<1>3. ~(i < j) /\ ~(j < i)
  BY <1>1 DEF Tidy, Twins, Flagged
<1> QED
  BY <1>2, <1>3

-----------------------------------------------------------------------------
(* Listed or hidden *)

\* No request names a built-in with spaces around it: a deletion looks the
\* trimmed name up and hides the name as given.
Unpadded == \A n \in Names : lower[trim[n]] \in FirstKeys => lower[n] = lower[trim[n]]

Accounted == Unpublished =>
    \A k \in FirstKeys : /\ ~(Has(recs, k) /\ k \in hidden)
                         /\ ~failed => Has(recs, k) \/ k \in hidden

LEMMA HasIs ==
    ASSUME NEW rs \in Seq(Record), NEW k
    PROVE  Has(rs, k) <=> \E i \in 1..Len(rs) : lower[rs[i].name] = k
<1>1. DOMAIN rs = 1..Len(rs)
  BY LenProperties
<1> QED
  BY <1>1 DEF Has

\* The keys of the first manifest and the names they belong to.
LEMMA FirstNames ==
    \A k \in FirstKeys : \E i \in 1..Len(FirstManifest) : k = lower[FirstManifest[i]]
  BY FirstKeysAre, RegistryAssumption, LenProperties

LEMMA UpsertedAccounted ==
    ASSUME Core, Accounted, up, NEW r \in Record, trim[r.name] = r.name, NEW ok \in BOOLEAN,
           Upserted(r, ok)
    PROVE  Accounted'
<1> SUFFICES ASSUME Unpublished', NEW k \in FirstKeys
             PROVE  /\ ~(Has(recs', k) /\ k \in hidden')
                    /\ ~failed' => Has(recs', k) \/ k \in hidden'
  BY DEF Accounted, Has
<1>1. /\ Unpublished /\ builtinNames = FirstKeys /\ recs \in Seq(Record)
      /\ ~(Has(recs, k) /\ k \in hidden) /\ (~failed => Has(recs, k) \/ k \in hidden)
  BY DEF Upserted, Unpublished, Core, CoreTyped, Known, Accounted
<1>2. PICK i \in Nat : Placed(r, i)
  BY <1>1, StoredPlaced
<1>3. stored(r) \in Seq(Record) /\ merged(r).name = r.name
  BY <1>1, StoredPlaced, MergedIs
<1>4. Has(stored(r), k) <=> Has(recs, k) \/ k = lower[r.name]
  <2>1. Has(stored(r), k) => Has(recs, k) \/ k = lower[r.name]
    <3> SUFFICES ASSUME NEW j \in 1..Len(stored(r)), lower[stored(r)[j].name] = k
                 PROVE  Has(recs, k) \/ k = lower[r.name]
      BY <1>3, HasIs
    <3>1. CASE j = i
      BY <1>2, <1>3, <3>1 DEF Placed
    <3>2. CASE j # i
      <4>1. j \in 1..Len(recs) /\ stored(r)[j] = recs[j]
        BY <1>2, <3>2 DEF Placed
      <4> QED
        BY <1>1, <4>1, HasIs
    <3> QED
      BY <3>1, <3>2
  <2>2. k = lower[r.name] => Has(stored(r), k)
    <3>1. i \in 1..Len(stored(r)) /\ stored(r)[i] = merged(r)
      BY <1>2 DEF Placed
    <3> QED
      BY <1>3, <3>1, HasIs
  <2>3. ASSUME NEW j \in 1..Len(recs), lower[recs[j].name] = k, k # lower[r.name]
        PROVE  Has(stored(r), k)
    <3>1. PICK N \in Nat : N = Len(recs)
      BY <1>1, LenProperties
    <3>2. Len(stored(r)) = N \/ Len(stored(r)) = N + 1
      BY <1>2, <3>1 DEF Placed
    <3>3. j \in 1..Len(stored(r))
      BY <3>1, <3>2
    <3>4. j # i
      BY <1>2, <2>3, <3>1 DEF Placed
    <3>5. stored(r)[j] = recs[j]
      BY <1>2, <3>3, <3>4 DEF Placed
    <3> QED
      BY <1>3, <2>3, <3>3, <3>5, HasIs
  <2> QED
    BY <1>1, <2>1, <2>2, <2>3, HasIs
<1>5. /\ hidden' = IF Unhides(r) THEN hidden \ {lower[r.name]} ELSE hidden
      /\ failed' = (failed \/ ~ok)
      /\ \/ Unhides(r) /\ ~ok /\ recs' = recs
         \/ recs' = stored(r)
  BY DEF Upserted
<1>6. k = lower[r.name] => k \notin hidden'
  BY <1>1, <1>5 DEF Unhides
<1>7. k # lower[r.name] => (k \in hidden' <=> k \in hidden)
  BY <1>5
<1>8. CASE ~ok /\ recs' = recs
  BY <1>1, <1>5, <1>6, <1>7, <1>8
<1>9. CASE recs' = stored(r)
  BY <1>1, <1>4, <1>5, <1>6, <1>7, <1>9
<1> QED
  BY <1>5, <1>8, <1>9

LEMMA DeletedAccounted ==
    ASSUME Unpadded, Core, Accounted, NEW n \in Names, NEW ok \in BOOLEAN, deleted(n, ok),
           failed' = (failed \/ ~ok), UNCHANGED upstream
    PROVE  Accounted'
<1> SUFFICES ASSUME Unpublished', NEW k \in FirstKeys
             PROVE  /\ ~(Has(recs', k) /\ k \in hidden')
                    /\ ~failed' => Has(recs', k) \/ k \in hidden'
  BY DEF Accounted, Has
<1> DEFINE i == indexOf(recs, n)
           w == RemoveAt(recs, i)
<1>1. /\ Unpublished /\ recs \in Seq(Record) /\ Tidy(recs) /\ DOMAIN recs = 1..Len(recs)
      /\ ~(Has(recs, k) /\ k \in hidden) /\ (~failed => Has(recs, k) \/ k \in hidden)
  BY LenProperties DEF Unpublished, Core, CoreTyped, Kept, Accounted
<1>2. i \in 1..Len(recs) /\ recs' = w /\ lower[recs[i].name] = lower[trim[n]]
  BY <1>1, Finds DEF deleted
<1>3. /\ hidden' = IF recs[i].builtin THEN hidden \union {lower[n]} ELSE hidden
  BY DEF deleted
<1>4. /\ w \in Seq(Record)
      /\ \A j \in 1..Len(w) : \E l \in 1..Len(recs) : l # i /\ w[j] = recs[l]
      /\ \A l \in 1..Len(recs) : l # i => \E j \in 1..Len(w) : w[j] = recs[l]
  BY <1>1, <1>2, RemovedTidy DEF Tidy
<1>5. recs[i].builtin <=> lower[recs[i].name] \in FirstKeys
  BY <1>1, <1>2 DEF Core, Known, Flagged
<1> HIDE DEF i, w
<1>6. lower[n] = k => lower[trim[n]] = k
  <2>1. PICK j \in 1..Len(FirstManifest) : k = lower[FirstManifest[j]]
    BY FirstNames
  <2>2. FirstManifest[j] \in Published
    BY PublishedNames, ElementOfSeq DEF Entries
  <2>3. FirstManifest[j] \in Names /\ trim[FirstManifest[j]] = FirstManifest[j]
    BY <2>2, PublishedNames
  <2> QED
    BY <2>1, <2>3, RegistryAssumption
<1>7. CASE k = lower[trim[n]]
  <2>1. k \in hidden'
    BY <1>2, <1>3, <1>5, <1>7 DEF Unpadded
  <2>2. ~Has(w, k)
    <3> SUFFICES ASSUME NEW j \in 1..Len(w), lower[w[j].name] = k PROVE FALSE
      BY <1>4, HasIs
    <3>1. PICK l \in 1..Len(recs) : l # i /\ w[j] = recs[l]
      BY <1>4
    <3> QED
      BY <1>1, <1>2, <1>7, <3>1, Distinct
  <2> QED
    BY <1>2, <2>1, <2>2
<1>8. CASE k # lower[trim[n]]
  <2>1. k \in hidden' <=> k \in hidden
    BY <1>3, <1>6, <1>8
  <2>2. Has(w, k) => Has(recs, k)
    <3> SUFFICES ASSUME NEW j \in 1..Len(w), lower[w[j].name] = k PROVE Has(recs, k)
      BY <1>4, HasIs
    <3>1. PICK l \in 1..Len(recs) : w[j] = recs[l]
      BY <1>4
    <3> QED
      BY <1>1, <3>1, HasIs
  <2>3. Has(recs, k) => Has(w, k)
    <3> SUFFICES ASSUME NEW l \in 1..Len(recs), lower[recs[l].name] = k PROVE Has(w, k)
      BY <1>1, HasIs
    <3>1. l # i
      BY <1>2, <1>8
    <3>2. PICK j \in 1..Len(w) : w[j] = recs[l]
      BY <1>4, <3>1
    <3> QED
      BY <1>4, <3>2, HasIs
  <2> QED
    BY <1>1, <1>2, <2>1, <2>2, <2>3
<1> QED
  BY <1>7, <1>8

LEMMA RestoredAccounted ==
    ASSUME Core, manifest' \in {upstream, manifest}, NEW ok \in BOOLEAN,
           Restored(manifest', ok), UNCHANGED upstream
    PROVE  Accounted'
<1> SUFFICES ASSUME Unpublished', NEW k \in FirstKeys
             PROVE  /\ ~(Has(recs', k) /\ k \in hidden')
                    /\ ~failed' => Has(recs', k) \/ k \in hidden'
  BY DEF Accounted, Has
<1>1. manifest' = FirstManifest
  BY DEF Unpublished, Core, Manifests
<1> DEFINE a == Added(FirstManifest)
<1>2. /\ hidden' = {} /\ failed' = (failed \/ ~ok)
      /\ ok => recs' = recs \o a
  BY <1>1 DEF Restored, Added, Seeds
<1>3. /\ a \in Seq(Record)
      /\ \A i \in 1..Len(FirstManifest) :
           \/ \E l \in 1..Len(recs) : lower[recs[l].name] = lower[FirstManifest[i]]
           \/ \E j \in 1..Len(a) : a[j].name = FirstManifest[i]
  BY PublishedNames, AddedTidy DEF Core, CoreTyped, Kept
<1> HIDE DEF a
<1>4. recs \in Seq(Record) /\ recs \o a \in Seq(Record)
  BY <1>3, ConcatProperties DEF Core, CoreTyped
<1>5. PICK i \in 1..Len(FirstManifest) : k = lower[FirstManifest[i]]
  BY FirstNames
<1>6. \E l \in 1..Len(recs \o a) : lower[(recs \o a)[l].name] = k
  <2>1. CASE \E l \in 1..Len(recs) : lower[recs[l].name] = k
    BY <1>3, <1>4, <2>1, ConcatElements
  <2>2. CASE \E j \in 1..Len(a) : a[j].name = FirstManifest[i]
    <3>1. PICK j \in 1..Len(a) : a[j].name = FirstManifest[i]
      BY <2>2
    <3>2. Len(recs) + j \in 1..Len(recs \o a) /\ (recs \o a)[Len(recs) + j] = a[j]
      BY <1>3, <1>4, <3>1, ConcatElements
    <3> QED
      BY <1>5, <3>1, <3>2
  <2> QED
    BY <1>3, <1>5, <2>1, <2>2
<1>7. Has(recs \o a, k)
  BY <1>4, <1>6, HasIs
<1> QED
  BY <1>2, <1>7

LEMMA OpenedHas ==
    ASSUME Core, Unpublished, NEW k \in FirstKeys
    PROVE  Has(Opened(FirstManifest), k) <=> k \notin envelope.hidden
<1> DEFINE a == Seeded(FirstManifest)
           b == envelope.targets
           w == Opened(FirstManifest)
<1>1. /\ w = a \o b /\ a \in Seq(Record) /\ Tidy(w)
      /\ \A j \in 1..Len(a) : lower[a[j].name] \notin envelope.hidden
      /\ \A i \in 1..Len(FirstManifest) : lower[FirstManifest[i]] \notin envelope.hidden =>
           \E j \in 1..Len(a) : a[j].name = FirstManifest[i]
  BY PublishedNames, OpenedTidy DEF Core, CoreTyped, Kept
<1>2. b \in Seq(Record) /\ w \in Seq(Record)
  BY <1>1 DEF Core, Kept, Tidy
<1>3. \A j \in 1..Len(b) : lower[b[j].name] \notin FirstKeys
  <2>1. DOMAIN b = 1..Len(b)
    BY <1>2, LenProperties
  <2> QED
    BY <2>1 DEF Core, Kept, Known, Flagged
<1> HIDE DEF a, b, w
<1>4. /\ \A i \in 1..Len(w) : (\E j \in 1..Len(a) : w[i] = a[j]) \/ (\E j \in 1..Len(b) : w[i] = b[j])
      /\ \A j \in 1..Len(a) : j \in 1..Len(w) /\ w[j] = a[j]
  BY <1>1, <1>2, ConcatElements
<1>5. PICK i \in 1..Len(FirstManifest) : k = lower[FirstManifest[i]]
  BY FirstNames
<1>6. ASSUME NEW l \in 1..Len(w), lower[w[l].name] = k PROVE k \notin envelope.hidden
  BY <1>1, <1>3, <1>4, <1>6
<1>7. ASSUME k \notin envelope.hidden PROVE \E l \in 1..Len(w) : lower[w[l].name] = k
  BY <1>1, <1>4, <1>5, <1>7
<1>8. Has(w, k) <=> k \notin envelope.hidden
  BY <1>2, <1>6, <1>7, HasIs
<1> QED
  BY <1>8 DEF w

LEMMA AccountedStep ==
    ASSUME Unpadded, IInv, Accounted, [Next]_vars
    PROVE  Accounted'
<1>1. Core /\ Requests
  BY DEF IInv
<1>2. ASSUME UNCHANGED <<upstream, recs, hidden, failed>> PROVE Accounted'
  BY <1>2 DEF Accounted, Unpublished, Has
<1>3. CASE Upsert
  <2>1. PICK n \in Names, c \in Lists, u \in Urls \union {NoUrl}, ok \in BOOLEAN :
          Upserted([name |-> trim[n], cidrs |-> c, api |-> u, builtin |-> FALSE], ok)
    BY <1>3 DEF Upsert
  <2> DEFINE r == [name |-> trim[n], cidrs |-> c, api |-> u, builtin |-> FALSE]
  <2>2. r \in Record /\ trim[r.name] = r.name
    BY RegistryAssumption DEF Record, AllUrls
  <2>3. Upserted(r, ok)
    BY <2>1
  <2> HIDE DEF r
  <2> QED
    BY <1>1, <1>3, <2>2, <2>3, UpsertedAccounted DEF Upsert
<1>4. CASE Delete
  BY <1>1, <1>4, DeletedAccounted DEF Delete
<1>5. ASSUME up, NEW p \in Reloaders, Reloader(p) PROVE Accounted'
  <2>1. CASE ReloadOne(p)
    BY <1>2, <2>1 DEF ReloadOne, memVars
  <2>2. CASE ReloadAll(p)
    <3>1. CASE manifest' \in {upstream, manifest} /\ \E ok \in BOOLEAN : Restored(manifest', ok)
      BY <1>1, <2>2, <3>1, RestoredAccounted DEF ReloadAll
    <3>2. CASE UNCHANGED <<manifest, memVars, envelope, torn, refetched, failed>>
      BY <1>2, <2>2, <3>2 DEF ReloadAll, memVars
    <3> QED
      BY <2>2, <3>1, <3>2 DEF ReloadAll
  <2>3. CASE Fetch(p)
    BY <1>2, <2>3 DEF Fetch, memVars
  <2>4. CASE Store(p)
    <3>1. Head(held[p]) \in Record /\ trim[Head(held[p]).name] = Head(held[p]).name
      BY <1>1, <2>4, HeldRecord DEF Store
    <3>2. PICK c \in Lists, ok \in BOOLEAN : Upserted([Head(held[p]) EXCEPT !.cidrs = c], ok)
      BY <2>4 DEF Store
    <3> DEFINE r == [Head(held[p]) EXCEPT !.cidrs = c]
    <3>3. r \in Record /\ trim[r.name] = r.name
      BY <3>1 DEF Record
    <3>4. Upserted(r, ok)
      BY <3>2
    <3> HIDE DEF r
    <3> QED
      BY <1>1, <1>5, <3>3, <3>4, UpsertedAccounted
  <2>5. CASE FetchFails(p)
    BY <1>2, <2>5 DEF FetchFails, memVars
  <2> QED
    BY <1>5, <2>1, <2>2, <2>3, <2>4, <2>5 DEF Reloader
<1>6. CASE Publish
  <2>1. ~Unpublished'
    <3>1. PICK n \in Upcoming : upstream' = Append(upstream, n)
      BY <1>6 DEF Publish
    <3>2. upstream \in Seq(Names) /\ n \in Names /\ Len(FirstManifest) <= Len(upstream)
      BY <1>1, RegistryAssumption DEF Core, CoreTyped, Manifests
    <3>3. Len(upstream') = Len(upstream) + 1
      BY <3>1, <3>2, AppendProperties
    <3>4. Len(FirstManifest) \in Nat /\ Len(upstream) \in Nat
      BY <3>2, RegistryAssumption, LenProperties
    <3>5. Len(upstream') # Len(FirstManifest)
      BY <3>2, <3>3, <3>4
    <3> QED
      BY <3>5 DEF Unpublished
  <2> QED
    BY <2>1 DEF Accounted
<1>7. CASE Restart
  <2> SUFFICES ASSUME Unpublished', NEW k \in FirstKeys
               PROVE  Has(recs', k) <=> k \notin hidden'
    BY DEF Accounted, Has
  <2>1. Unpublished /\ manifest' = FirstManifest
    BY <1>1, <1>7 DEF Restart, Unpublished, Core, Manifests
  <2>2. recs' = Opened(FirstManifest) /\ hidden' = envelope.hidden
    BY <1>7, <2>1 DEF Restart
  <2> QED
    BY <1>1, <2>1, <2>2, OpenedHas
<1>8. CASE Refuse
  <2>1. failed' /\ recs' = <<>>
    BY <1>1, <1>8 DEF Refuse, Core, FilesCurrent
  <2>2. \A k : ~Has(recs', k)
    BY <2>1 DEF Has
  <2> QED
    BY <2>1, <2>2 DEF Accounted, Has
<1>9. CASE ScanRefreshes
  BY <1>2, <1>9 DEF ScanRefreshes, memVars
<1>10. CASE UNCHANGED vars
  BY <1>2, <1>10 DEF vars
<1> QED
  BY <1>3, <1>4, <1>5, <1>6, <1>7, <1>8, <1>9, <1>10 DEF Next

LEMMA AccountedInit == Init => Accounted
<1> SUFFICES ASSUME Init, NEW k \in FirstKeys
             PROVE  Has(recs, k) <=> k \notin hidden
  BY DEF Accounted
<1>1. Core /\ Unpublished
  BY InitInv DEF IInv, Init, Unpublished
<1>2. Has(Opened(FirstManifest), k) <=> k \notin envelope.hidden
  BY <1>1, OpenedHas
<1>3. recs = Opened(FirstManifest) /\ hidden = envelope.hidden
  BY DEF Init
<1> QED
  BY <1>2, <1>3

-----------------------------------------------------------------------------
(* Theorems *)

\* The registry, its files and its requests keep their types, for any manifest
\* and any number of requests at once: `targets.Registry` and `storage.FileStore`.
THEOREM TypeCorrect == Spec => []TypeOK
<1> QED
  BY Invariance, IInvTyped, PTL

\* While no entry is published, a name means one target, whatever upserts,
\* deletions, reloads, restores and restarts do (`Registry.indexOf`).
THEOREM NamesStayUnique == Spec => []NamesUnique
<1>1. IInv => NamesUnique
  BY Distinct DEF IInv, NamesUnique
<1> QED
  BY <1>1, Invariance, PTL

\* Unless a write of the registry failed, the files say what it says, for any
\* interleaving of reloads with upserts, deletions, restores and scans, but for
\* the range files scans have fetched since the registry last wrote or read them
\* (`Registry.persistLocked`, `saveHiddenLocked`, `saveCustomsLocked`,
\* `providers.Refresh`).
THEOREM FilesFollow == Spec => []FilesCurrent
<1>1. IInv => FilesCurrent
  BY DEF IInv, Core
<1> QED
  BY <1>1, Invariance, PTL

\* While no entry is published, exactly the manifest's targets are built-ins,
\* and each is listed or hidden and not both (`Registry.Delete`, `RestoreBuiltins`,
\* `Upsert`), if no request pads the name of a built-in with spaces.
THEOREM BuiltinsStayAccounted ==
    ASSUME Unpadded
    PROVE  Spec => []BuiltinsAccounted
<1>1. IInv /\ Accounted => BuiltinsAccounted
  <2> SUFFICES ASSUME Core, Accounted, Unpublished PROVE BuiltinsAccounted
    BY DEF IInv, BuiltinsAccounted
  <2>1. EntryKeys = FirstKeys
    BY FirstKeysAre DEF Core, Manifests, EntryKeys
  <2> QED
    BY <2>1 DEF BuiltinsAccounted, Accounted, Core, Known, Flagged
<1>2. IInv /\ Accounted /\ [Next]_vars => Accounted'
  BY AccountedStep
<1> QED
  BY <1>1, <1>2, AccountedInit, Invariance, PTL DEF Spec

\* Requests spell every built-in as the manifest does.
OneSpelling ==
    \A n \in Names, m \in Range(FirstManifest) : lower[trim[n]] = lower[m] => n = m

LEMMA SpelledUnpadded == OneSpelling => Unpadded
<1> SUFFICES ASSUME OneSpelling, NEW n \in Names, lower[trim[n]] \in FirstKeys
             PROVE  lower[n] = lower[trim[n]]
  BY DEF Unpadded
<1>1. PICK m \in Range(FirstManifest) : lower[trim[n]] = lower[m]
  BY DEF FirstKeys
<1>2. n = m
  BY <1>1 DEF OneSpelling
<1> QED
  BY <1>1, <1>2

\* A record of a built-in is named as the manifest names it.
LEMMA Spelled ==
    ASSUME OneSpelling, NEW rs, Tidy(rs), NEW i \in DOMAIN rs, NEW m \in Range(FirstManifest),
           lower[rs[i].name] = lower[m]
    PROVE  rs[i].name = m
<1>1. rs[i] \in Record /\ trim[rs[i].name] = rs[i].name
  BY ElementOfSeq, LenProperties DEF Tidy
<1>2. rs[i].name \in Names
  BY <1>1, RecordFields
<1> QED
  BY <1>1, <1>2 DEF OneSpelling

\* The records of a concatenation.
LEMMA RecordsConcat ==
    ASSUME NEW a \in Seq(Record), NEW b \in Seq(Record), NEW w, w = a \o b
    PROVE  /\ \A i \in 1..Len(w) : \/ \E j \in 1..Len(a) : w[i] = a[j]
                                  \/ \E j \in 1..Len(b) : w[i] = b[j]
           /\ \A j \in 1..Len(b) : Len(a) + j \in 1..Len(w) /\ w[Len(a) + j] = b[j]
<1>1. a \in Seq(Record) /\ b \in Seq(Record)
  OBVIOUS
<1>2. /\ \A i \in 1..Len(w) : \/ \E j \in 1..Len(a) : w[i] = a[j]
                              \/ \E j \in 1..Len(b) : w[i] = b[j]
      /\ \A j \in 1..Len(b) : Len(a) + j \in 1..Len(w) /\ w[Len(a) + j] = b[j]
  BY <1>1, ConcatElements
<1> QED
  BY <1>2

\* The ranges a restart brings for the i-th record: those listed for it, or
\* what a scan wrote since.
Brought(i) == IF recs[i].builtin /\ recs[i].name \in refetched
              THEN files[recs[i].name] ELSE recs[i].cidrs

\* What a restart makes of the registry, when no write failed.
LEMMA RestartBrings ==
    ASSUME OneSpelling, Core, Accounted, ~failed, Unpublished, Restart
    PROVE  /\ \A k \in Keys : Has(recs, k) <=> Has(recs', k)
           /\ \A i \in DOMAIN recs, j \in DOMAIN recs' :
                EqualFold(recs[i].name, recs'[j].name) => recs'[j].cidrs = Brought(i)
<1> DEFINE a == Seeded(FirstManifest)
           b == envelope.targets
           w == Opened(FirstManifest)
<1>1. recs' = w
  BY DEF Restart, Core, Manifests, Unpublished
<1>2. b = customsOf(recs) /\ envelope.hidden = hidden
  BY DEF Core, FilesCurrent
<1>3. /\ w = a \o b /\ a \in Seq(Record) /\ Tidy(w)
      /\ \A j \in 1..Len(a) : \E i \in 1..Len(FirstManifest) : a[j].name = FirstManifest[i]
  BY PublishedNames, OpenedTidy DEF Core, CoreTyped, Kept
<1>4. /\ \A i \in DOMAIN w : w[i].builtin => files[w[i].name] = w[i].cidrs
      /\ Flagged(w)
  BY PublishedNames, OpenedCurrent DEF Core, CoreTyped, Kept, Known
<1>5. /\ recs \in Seq(Record) /\ Tidy(recs) /\ Flagged(recs)
      /\ b \in Seq(Record) /\ w \in Seq(Record)
  BY <1>3 DEF Core, CoreTyped, Kept, Known, Tidy
<1>6. /\ \A j \in 1..Len(b) : ~b[j].builtin /\ \E i \in 1..Len(recs) : b[j] = recs[i]
      /\ \A i \in 1..Len(recs) : ~recs[i].builtin => \E j \in 1..Len(b) : b[j] = recs[i]
  <2> DEFINE t == customsOf(recs)
  <2>1. /\ \A j \in 1..Len(t) : ~t[j].builtin /\ \E i \in 1..Len(recs) : t[j] = recs[i]
        /\ \A i \in 1..Len(recs) : ~recs[i].builtin => \E j \in 1..Len(t) : t[j] = recs[i]
    BY <1>5, CustomsTidy
  <2>2. b = t
    BY <1>2
  <2> HIDE DEF b, t
  <2> QED
    BY <2>1, <2>2
<1>7. \A k \in FirstKeys : Has(w, k) <=> k \notin hidden
  BY <1>2, OpenedHas
<1> HIDE DEF a, b, w
<1>8. /\ \A i \in 1..Len(w) : (\E j \in 1..Len(a) : w[i] = a[j]) \/ (\E j \in 1..Len(b) : w[i] = b[j])
      /\ \A j \in 1..Len(b) : Len(a) + j \in 1..Len(w) /\ w[Len(a) + j] = b[j]
  BY <1>3, <1>5, RecordsConcat
<1>9. DOMAIN w = 1..Len(w) /\ DOMAIN recs = 1..Len(recs)
  BY <1>5, LenProperties
<1>10. ASSUME NEW j \in 1..Len(w), lower[w[j].name] \notin FirstKeys
       PROVE  \E i \in 1..Len(recs) : w[j] = recs[i]
  <2>1. \A l \in 1..Len(a) : lower[a[l].name] \in FirstKeys
    BY <1>3, FirstKeysAre
  <2>2. PICK l \in 1..Len(b) : w[j] = b[l]
    BY <1>8, <1>10, <2>1
  <2> QED
    BY <1>6, <2>2
<1>11. ASSUME NEW k \in Keys PROVE Has(recs, k) <=> Has(w, k)
  <2>1. CASE k \in FirstKeys
    BY <1>7, <2>1 DEF Accounted
  <2>2. ASSUME k \notin FirstKeys, NEW i \in 1..Len(recs), lower[recs[i].name] = k
        PROVE  \E j \in 1..Len(w) : lower[w[j].name] = k
    <3>1. ~recs[i].builtin
      BY <1>5, <1>9, <2>2 DEF Flagged
    <3>2. PICK j \in 1..Len(b) : b[j] = recs[i]
      BY <1>6, <3>1
    <3>3. Len(a) + j \in 1..Len(w) /\ w[Len(a) + j] = b[j]
      BY <1>8
    <3> QED
      BY <2>2, <3>2, <3>3
  <2>3. ASSUME k \notin FirstKeys, NEW j \in 1..Len(w), lower[w[j].name] = k
        PROVE  \E i \in 1..Len(recs) : lower[recs[i].name] = k
    BY <1>10, <2>3
  <2>4. /\ Has(recs, k) <=> \E i \in 1..Len(recs) : lower[recs[i].name] = k
        /\ Has(w, k) <=> \E i \in 1..Len(w) : lower[w[i].name] = k
    BY <1>5, HasIs
  <2> QED
    BY <2>1, <2>2, <2>3, <2>4
<1>12. ASSUME NEW i \in DOMAIN recs, NEW j \in DOMAIN w, lower[recs[i].name] = lower[w[j].name]
       PROVE  w[j].cidrs = Brought(i)
  <2>1. CASE lower[recs[i].name] \in FirstKeys
    <3>1. PICK m \in Range(FirstManifest) : lower[recs[i].name] = lower[m]
      BY <2>1 DEF FirstKeys
    <3>2. recs[i].name = m
      BY <1>5, <3>1, Spelled
    <3>3. w[j].name = m
      BY <1>3, <1>12, <3>1, Spelled
    <3>4. recs[i].builtin /\ w[j].builtin
      BY <1>4, <1>5, <1>12, <2>1 DEF Flagged
    <3>5. m \notin refetched => files[m] = recs[i].cidrs
      BY <3>2, <3>4 DEF Core, FilesCurrent
    <3>6. w[j].cidrs = files[m]
      BY <1>4, <3>3, <3>4
    <3> QED
      BY <3>2, <3>4, <3>5, <3>6 DEF Brought
  <2>2. CASE lower[recs[i].name] \notin FirstKeys
    <3>1. PICK l \in 1..Len(recs) : w[j] = recs[l]
      BY <1>9, <1>10, <1>12, <2>2
    <3>2. i = l
      BY <1>9, <1>12, <3>1, Distinct
    <3>3. ~recs[i].builtin
      BY <1>5, <2>2 DEF Flagged
    <3> QED
      BY <3>1, <3>2, <3>3 DEF Brought
  <2> QED
    BY <2>1, <2>2
<1> QED
  BY <1>1, <1>11, <1>12 DEF EqualFold

\* A restart under the same manifest brings back the same targets, each with the
\* ranges that were listed, or with those a scan has fetched since
\* (`storage.FileStore.Open`, `Registry.load`, `providers.Refresh`), if every
\* request spells a built-in as the manifest does.
THEOREM RangesRestart ==
    ASSUME OneSpelling
    PROVE  Spec => RangesSurviveRestart
<1>1. IInv /\ Accounted /\ [Next]_vars
        => (~failed /\ Unpublished /\ Restart =>
             /\ \A k \in Keys : Has(recs, k) <=> Has(recs', k)
             /\ \A i \in DOMAIN recs, j \in DOMAIN recs' :
                  EqualFold(recs[i].name, recs'[j].name) =>
                    recs'[j].cidrs = IF recs[i].builtin /\ recs[i].name \in refetched
                                     THEN files[recs[i].name] ELSE recs[i].cidrs)
  BY RestartBrings DEF IInv, Brought
<1>2. IInv /\ Accounted /\ [Next]_vars => Accounted'
  BY AccountedStep, SpelledUnpadded
<1> QED
  BY <1>1, <1>2, AccountedInit, Invariance, PTL DEF Spec, RangesSurviveRestart

=============================================================================
