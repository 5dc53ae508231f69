---------------------------- MODULE IngestProofs ----------------------------
(***************************************************************************)
(* Proofs about Ingest, Projection and Schema, for any JSON values nested  *)
(* to any depth, any specifications and any batches.  The first            *)
(* part is about recursive functions, sequences of optional values and     *)
(* sums; the second unfolds the recursive functions of the model; the      *)
(* third proves, by induction over the depth of a value, what projection   *)
(* keeps, what it drops and what it does to what it kept; the last proves  *)
(* the invariant of the ingest service and what follows from it.           *)
(***************************************************************************)
EXTENDS Ingest, FiniteSetTheorems, WellFoundedInduction, TLAPS

(* Recursion. *)

\* A set of numbers that is not empty has a smallest one.
LEMMA SmallestOfSet ==
    ASSUME NEW S \in SUBSET Nat, S # {}
    PROVE  \E n \in S : \A m \in S : n <= m
<1> DEFINE R == {p \in Nat \X Nat : p[1] < p[2]}
<1>1. IsWellFoundedOn(R, Nat)
  BY NatLessThanWellFounded DEF OpToRel
<1> HIDE DEF R
<1>2. PICK n \in S : \A m \in S : ~(<<m, n>> \in R)
  BY <1>1, WFMin
<1>3. \A m \in S : ~(m < n)
  BY <1>2 DEF R
<1> QED
  BY <1>3

\* A set of numbers with zero, and with each number its successor, has them all.
LEMMA Induction ==
    ASSUME NEW S, 0 \in S, \A n \in Nat : n \in S => n + 1 \in S
    PROVE  \A n \in Nat : n \in S
<1> DEFINE Rest == {n \in Nat : n \notin S}
<1> SUFFICES ASSUME Rest # {} PROVE FALSE
  OBVIOUS
<1>1. PICK n \in Rest : \A m \in Rest : n <= m
  BY SmallestOfSet
<1>2. n # 0 /\ n - 1 \in Nat /\ n - 1 \notin Rest
  BY <1>1
<1>3. n - 1 \in S
  BY <1>2
<1>4. (n - 1) + 1 \in S
  BY <1>2, <1>3
<1> QED
  BY <1>1, <1>4

\* A property of the elements of a set that is inherited from those of lower rank holds of all.
LEMMA RankInduction ==
    ASSUME NEW S, NEW rank, \A x \in S : rank[x] \in Nat, NEW Good,
           \A x \in S : (\A y \in S : rank[y] < rank[x] => y \in Good) => x \in Good
    PROVE  S \subseteq Good
<1> DEFINE Bad == {x \in S : x \notin Good}
           Ranks == {rank[x] : x \in Bad}
<1> SUFFICES ASSUME Bad # {} PROVE FALSE
  OBVIOUS
<1>1. Ranks \in SUBSET Nat /\ Ranks # {}
  OBVIOUS
<1>2. PICK n \in Ranks : \A m \in Ranks : n <= m
  BY <1>1, SmallestOfSet
<1>3. PICK x \in Bad : rank[x] = n
  BY <1>2
<1>4. ASSUME NEW y \in S, rank[y] < rank[x] PROVE y \in Good
  <2>1. rank[y] \in Nat /\ n \in Nat /\ rank[y] < n
    BY <1>1, <1>2, <1>3, <1>4
  <2> HIDE DEF Ranks
  <2>2. rank[y] \notin Ranks
    BY <1>2, <2>1
  <2> QED
    BY <2>2 DEF Ranks
<1> QED
  BY <1>3, <1>4

\* A functional whose value at an argument depends on arguments of lower rank, has a fixed point.
Recursive(S, rank, V, H) ==
    /\ \A x \in S : rank[x] \in Nat
    /\ V # {}
    /\ H \in [S \X [S -> V] -> V]
    /\ \A x \in S : \A g, h \in [S -> V] :
         (\A y \in S : rank[y] < rank[x] => g[y] = h[y]) => H[<<x, g>>] = H[<<x, h>>]

\* A definition that looks only at arguments of a lower rank has a function that
\* satisfies it: what makes a recursive function of the model be what it says.
LEMMA Recursion ==
    ASSUME NEW S, NEW rank, NEW V, NEW H, Recursive(S, rank, V, H)
    PROVE  \E f \in [S -> V] : \A x \in S : f[x] = H[<<x, f>>]
<1> USE DEF Recursive
<1> DEFINE Upto(g, n) == g \in [S -> V] /\ \A x \in S : rank[x] < n => g[x] = H[<<x, g>>]
           Reached == {n \in Nat : \E g \in [S -> V] : Upto(g, n)}
<1>1. 0 \in Reached
  <2>1. PICK v \in V : TRUE
    OBVIOUS
  <2> DEFINE g == [x \in S |-> v]
  <2>2. g \in [S -> V]
    BY <2>1
  <2> HIDE DEF g
  <2>3. \A x \in S : ~(rank[x] < 0)
    OBVIOUS
  <2> QED
    BY <2>2, <2>3
<1>2. ASSUME NEW n \in Nat, n \in Reached PROVE n + 1 \in Reached
  <2>1. PICK g \in [S -> V] : Upto(g, n)
    BY <1>2
  <2> DEFINE next == [x \in S |-> IF rank[x] < n THEN g[x] ELSE H[<<x, g>>]]
  <2>2. next \in [S -> V]
    OBVIOUS
  <2>3. ASSUME NEW x \in S, rank[x] < n + 1 PROVE next[x] = H[<<x, next>>]
    <3>1. \A y \in S : rank[y] < rank[x] => g[y] = next[y]
      BY <2>3
    <3>2. H[<<x, g>>] = H[<<x, next>>]
      BY <2>2, <3>1
    <3>3. next[x] = H[<<x, g>>]
      BY <2>1
    <3> QED
      BY <3>2, <3>3
  <2> HIDE DEF next
  <2> QED
    BY <2>2, <2>3
<1>3. \A n \in Nat : n \in Reached
  BY <1>1, <1>2, Induction
<1>4. ASSUME NEW g, NEW h, NEW n \in Nat, Upto(g, n), Upto(h, n)
      PROVE  \A x \in S : rank[x] < n => g[x] = h[x]
  <2> DEFINE Same == {x \in S : rank[x] < n => g[x] = h[x]}
  <2>1. ASSUME NEW x \in S, \A y \in S : rank[y] < rank[x] => y \in Same PROVE x \in Same
    <3> SUFFICES ASSUME rank[x] < n PROVE g[x] = h[x]
      OBVIOUS
    <3>1. \A y \in S : rank[y] < rank[x] => g[y] = h[y]
      BY <2>1
    <3>2. H[<<x, g>>] = H[<<x, h>>]
      BY <1>4, <3>1
    <3> QED
      BY <1>4, <3>2
  <2> HIDE DEF Same
  <2>2. S \subseteq Same
    BY <2>1, RankInduction
  <2> QED
    BY <2>2 DEF Same
<1> DEFINE best(n) == CHOOSE g \in [S -> V] : Upto(g, n)
           f == [x \in S |-> best(rank[x] + 1)[x]]
<1>5. \A n \in Nat : Upto(best(n), n)
  BY <1>3
<1> HIDE DEF best, Upto
<1>6. f \in [S -> V]
  BY <1>5 DEF Upto
<1>7. ASSUME NEW x \in S PROVE f[x] = H[<<x, f>>]
  <2> DEFINE n == rank[x] + 1
             g == best(n)
  <2>1. n \in Nat /\ rank[x] < n
    OBVIOUS
  <2>2. Upto(g, n)
    BY <1>5, <2>1
  <2>3. ASSUME NEW y \in S, rank[y] < rank[x] PROVE g[y] = f[y]
    <3> DEFINE m == rank[y] + 1
               h == best(m)
    <3>1. m \in Nat /\ m <= n /\ rank[y] < m
      BY <2>3
    <3>2. Upto(h, m)
      BY <1>5, <3>1
    <3>3. \A z \in S : rank[z] < m => rank[z] < n
      BY <3>1, <2>1
    <3> HIDE DEF n, m, g, h
    <3>4. Upto(g, m)
      BY <2>2, <3>3 DEF Upto
    <3>5. g[y] = h[y]
      BY <1>4, <3>1, <3>2, <3>4
    <3> QED
      BY <3>5 DEF h, m
  <2>4. g \in [S -> V] /\ g[x] = H[<<x, g>>]
    BY <2>1, <2>2 DEF Upto
  <2>5. f[x] = g[x]
    OBVIOUS
  <2> HIDE DEF f, g
  <2>6. H[<<x, g>>] = H[<<x, f>>]
    BY <1>6, <2>3, <2>4
  <2> QED
    BY <2>4, <2>5, <2>6
<1> QED
  BY <1>6, <1>7

-----------------------------------------------------------------------------
(* Sequences of optional values, and what FlattenSeq leaves of them. *)

Optionals(s, V) ==
    /\ s \in Seq(Seq(V))
    /\ \A i \in 1 .. Len(s) : s[i] = << >> \/ \E v \in V : s[i] = <<v>>

\* The results of flattening the first i elements of a sequence.
Compacting(F, s, V) ==
    /\ F \in [0 .. Len(s) -> Seq(V)]
    /\ F[0] = << >>
    /\ \A i \in 1 .. Len(s) : s[i] = << >> => F[i] = F[i - 1]
    /\ \A i \in 1 .. Len(s) : \A v \in V : s[i] = <<v>> => F[i] = Append(F[i - 1], v)

\* Flattening a sequence of values that may be absent runs through it once, and
\* adds each value that is there.
LEMMA Compacts ==
    ASSUME NEW s, NEW V, Optionals(s, V)
    PROVE  \E F : Compacting(F, s, V) /\ FlattenSeq(s) = F[Len(s)]
<1> DEFINE N == Len(s)
           S == 1 .. N
           Q == Seq(V)
           rank == [i \in S |-> i]
           H == [p \in S \X [S -> Q] |-> IF p[1] = 1 THEN s[1] ELSE p[2][p[1] - 1] \o s[p[1]]]
<1>1. N \in Nat /\ \A i \in S : s[i] \in Q
  BY DEF Optionals
<1>2. CASE N = 0
  <2> DEFINE F == [i \in 0 .. N |-> << >>]
  <2>1. FlattenSeq(s) = << >> /\ s = << >>
    BY <1>2 DEF FlattenSeq, Optionals
  <2>2. << >> \in Seq(V)
    OBVIOUS
  <2>3. Compacting(F, s, V)
    BY <1>2, <2>2 DEF Compacting
  <2> QED
    BY <1>2, <2>1, <2>3
<1>3. CASE N # 0
  <2>1. Recursive(S, rank, Q, H)
    <3>1. \A i \in S : rank[i] \in Nat
      BY <1>1
    <3>2. Q # {}
      <4>1. << >> \in Q
        OBVIOUS
      <4> QED
        BY <4>1
    <3>3. ASSUME NEW i \in S, NEW g \in [S -> Q]
          PROVE  H[<<i, g>>] = (IF i = 1 THEN s[1] ELSE g[i - 1] \o s[i]) /\ H[<<i, g>>] \in Q
      <4>1. H[<<i, g>>] = IF i = 1 THEN s[1] ELSE g[i - 1] \o s[i]
        <5> HIDE DEF S, Q, N
        <5> QED
          OBVIOUS
      <4>2. CASE i = 1
        <5>1. s[1] \in Q
          BY <1>1, <4>2
        <5> HIDE DEF H, Q, S
        <5> QED
          BY <4>1, <4>2, <5>1
      <4>3. CASE i # 1
        <5>1. i - 1 \in S
          BY <1>1, <4>3
        <5>2. g[i - 1] \in Q /\ s[i] \in Q
          BY <1>1, <5>1
        <5>3. g[i - 1] \o s[i] \in Q
          BY <5>2
        <5> HIDE DEF H, Q, S
        <5> QED
          BY <4>1, <4>3, <5>3
      <4> QED
        BY <4>1, <4>2, <4>3
    <3>4. H \in [S \X [S -> Q] -> Q]
      <4>1. \A p \in S \X [S -> Q] : p = <<p[1], p[2]>> /\ p[1] \in S /\ p[2] \in [S -> Q]
        OBVIOUS
      <4>2. H = [p \in S \X [S -> Q] |-> H[p]]
        OBVIOUS
      <4> HIDE DEF H, S, Q
      <4>3. \A p \in S \X [S -> Q] : H[p] \in Q
        BY <3>3, <4>1
      <4> DEFINE D == S \X [S -> Q]
      <4>4. H = [p \in D |-> H[p]] /\ \A p \in D : H[p] \in Q
        BY <4>2, <4>3
      <4> HIDE DEF D
      <4>5. H \in [D -> Q]
        BY <4>4
      <4> QED
        BY <4>5 DEF D
    <3>5. ASSUME NEW i \in S, NEW g \in [S -> Q], NEW h \in [S -> Q],
                 \A j \in S : rank[j] < rank[i] => g[j] = h[j]
          PROVE  H[<<i, g>>] = H[<<i, h>>]
      <4>1. i # 1 => i - 1 \in S /\ rank[i - 1] < rank[i]
        BY <1>1
      <4> HIDE DEF H, S, Q, rank
      <4> QED
        BY <3>3, <3>5, <4>1
    <3> HIDE DEF H, S, Q, rank
    <3> QED
      BY <3>1, <3>2, <3>4, <3>5 DEF Recursive
  <2>2. PICK f \in [S -> Q] : \A i \in S : f[i] = H[<<i, f>>]
    <3> HIDE DEF H, S, Q, rank
    <3> QED
      BY <2>1, Recursion
  <2>3. f = [i \in S |-> IF i = 1 THEN s[i] ELSE f[i - 1] \o s[i]]
    <3>1. \A i \in S : H[<<i, f>>] = IF i = 1 THEN s[1] ELSE f[i - 1] \o s[i]
      <4> HIDE DEF S, Q, N
      <4> QED
        OBVIOUS
    <3> HIDE DEF H, Q
    <3> QED
      BY <2>2, <3>1
  <2> DEFINE fl == CHOOSE g : g = [i \in S |-> IF i = 1 THEN s[i] ELSE g[i - 1] \o s[i]]
  <2>4. FlattenSeq(s) = fl[N]
    BY <1>3 DEF FlattenSeq
  <2>5. fl = [i \in S |-> IF i = 1 THEN s[i] ELSE fl[i - 1] \o s[i]]
    BY <2>3
  <2> HIDE DEF fl, H
  <2>6. \A i \in S : fl[i] = IF i = 1 THEN s[i] ELSE fl[i - 1] \o s[i]
    BY <2>5
  <2> DEFINE F == [i \in 0 .. N |-> IF i = 0 THEN << >> ELSE fl[i]]
             Good == {n \in Nat : n <= N => F[n] \in Q}
  <2>7. F[0] = << >> /\ \A i \in S : F[i] = fl[i]
    BY <1>1
  <2>8. ASSUME NEW i \in S, F[i - 1] \in Q PROVE F[i] \in Q /\ F[i] = F[i - 1] \o s[i]
    <3>1. CASE i = 1
      <4>1. F[i] = s[1] /\ F[i - 1] = << >> /\ s[1] \in Q
        BY <1>1, <2>6, <2>7, <3>1
      <4> HIDE DEF F
      <4> QED
        BY <3>1, <4>1
    <3>2. CASE i # 1
      <4>1. i - 1 \in S
        BY <1>1, <3>2
      <4>2. F[i] = F[i - 1] \o s[i] /\ s[i] \in Q
        BY <1>1, <2>6, <2>7, <3>2, <4>1
      <4> HIDE DEF F
      <4> QED
        BY <2>8, <4>2
    <3> QED
      BY <3>1, <3>2
  <2>9. \A n \in Nat : n \in Good
    <3>1. 0 \in Good
      BY <2>7
    <3>2. ASSUME NEW n \in Nat, n \in Good PROVE n + 1 \in Good
      <4> SUFFICES ASSUME n + 1 <= N PROVE F[n + 1] \in Q
        OBVIOUS
      <4>1. F[n] \in Q
        BY <1>1, <3>2
      <4>2. n + 1 \in S /\ (n + 1) - 1 = n
        BY <1>1
      <4> QED
        BY <2>8, <4>1, <4>2
    <3> HIDE DEF Good
    <3> QED
      BY <3>1, <3>2, Induction
  <2>10. DOMAIN F = 0 .. N /\ F = [i \in 0 .. N |-> F[i]]
    OBVIOUS
  <2> HIDE DEF F
  <2>11. F \in [0 .. N -> Q]
    <3>1. \A i \in 0 .. N : F[i] \in Q
      BY <1>1, <2>9
    <3> QED
      BY <2>10, <3>1
  <2>12. ASSUME NEW i \in S
         PROVE  /\ s[i] = << >> => F[i] = F[i - 1]
                /\ \A v \in V : s[i] = <<v>> => F[i] = Append(F[i - 1], v)
    <3>1. i - 1 \in 0 .. N /\ F[i - 1] \in Seq(V)
      BY <1>1, <2>11
    <3>2. F[i] = F[i - 1] \o s[i]
      BY <2>8, <3>1
    <3> DEFINE q == F[i - 1]
    <3>3. q \in Seq(V) /\ F[i] = q \o s[i]
      BY <3>1, <3>2
    <3> HIDE DEF q
    <3>4. q \o << >> = q /\ \A v \in V : q \o <<v>> = Append(q, v)
      BY <3>3
    <3> QED
      BY <3>3, <3>4 DEF q
  <2>13. Compacting(F, s, V)
    BY <2>7, <2>11, <2>12 DEF Compacting
  <2> QED
    BY <1>1, <1>3, <2>4, <2>7, <2>13
<1> QED
  BY <1>2, <1>3

\* What has been collected so far is a sequence of the values.
LEMMA CompactingType ==
    ASSUME NEW s, NEW V, Optionals(s, V), NEW F, Compacting(F, s, V)
    PROVE  Len(s) \in Nat /\ \A n \in 0 .. Len(s) : F[n] \in Seq(V) /\ Len(F[n]) \in Nat
<1>1. s \in Seq(Seq(V))
  BY DEF Optionals
<1>2. Len(s) \in Nat
  BY <1>1
<1>3. ASSUME NEW n \in 0 .. Len(s) PROVE F[n] \in Seq(V) /\ Len(F[n]) \in Nat
  <2>1. F[n] \in Seq(V)
    BY DEF Compacting
  <2> QED
    BY <2>1
<1> QED
  BY <1>2, <1>3

\* Flattening never loses what it has, and adds the elements that are there in order.
LEMMA CompactingGrows ==
    ASSUME NEW s, NEW V, Optionals(s, V), NEW F, Compacting(F, s, V)
    PROVE  \A n \in 0 .. Len(s) : \A m \in 0 .. n :
             /\ Len(F[m]) <= Len(F[n])
             /\ \A j \in 1 .. Len(F[m]) : F[n][j] = F[m][j]
<1> DEFINE N == Len(s)
           Prefix(m, n) == /\ Len(F[m]) <= Len(F[n])
                           /\ \A j \in 1 .. Len(F[m]) : F[n][j] = F[m][j]
           Good == {n \in Nat : n <= N => \A m \in 0 .. n : Prefix(m, n)}
<1>1. N \in Nat /\ \A n \in 0 .. N : F[n] \in Seq(V)
  BY CompactingType
<1>2. ASSUME NEW i \in 1 .. N PROVE Prefix(i - 1, i)
  <2>1. i - 1 \in 0 .. N /\ F[i - 1] \in Seq(V) /\ F[i] \in Seq(V)
    BY <1>1
  <2>2. CASE s[i] = << >>
    <3>1. F[i] = F[i - 1]
      BY <2>2 DEF Compacting
    <3> QED
      BY <2>1, <3>1
  <2>3. CASE s[i] # << >>
    <3>1. PICK v \in V : F[i] = Append(F[i - 1], v)
      BY <2>3 DEF Compacting, Optionals
    <3> DEFINE q == F[i - 1]
    <3>2. q \in Seq(V) /\ F[i] = Append(q, v)
      BY <2>1, <3>1
    <3> HIDE DEF q
    <3>3. Len(q) \in Nat /\ Len(Append(q, v)) = Len(q) + 1
          /\ \A j \in 1 .. Len(q) : Append(q, v)[j] = q[j]
      BY <3>2
    <3> QED
      BY <3>2, <3>3 DEF q
  <2> QED
    BY <2>2, <2>3
<1>3. 0 \in Good
  <2>1. Prefix(0, 0)
    BY <1>1
  <2> HIDE DEF Prefix
  <2> QED
    BY <2>1
<1>4. ASSUME NEW n \in Nat, n \in Good PROVE n + 1 \in Good
  <2> SUFFICES ASSUME n + 1 <= N, NEW m \in 0 .. n + 1 PROVE Prefix(m, n + 1)
    OBVIOUS
  <2>1. CASE m = n + 1
    <3>1. F[m] \in Seq(V)
      BY <1>1
    <3> QED
      BY <2>1, <3>1
  <2>2. CASE m # n + 1
    <3>1. m \in 0 .. n /\ n + 1 \in 1 .. N /\ (n + 1) - 1 = n /\ n <= N /\ m \in 0 .. N
      BY <1>1, <2>2
    <3>2. Prefix(m, n)
      BY <1>1, <1>4, <3>1
    <3>3. Prefix(n, n + 1)
      BY <1>2, <3>1
    <3>4. Len(F[m]) \in Nat /\ Len(F[n]) \in Nat /\ Len(F[n + 1]) \in Nat
      BY <1>1, <3>1
    <3> QED
      BY <3>2, <3>3, <3>4
  <2> QED
    BY <2>1, <2>2
<1> HIDE DEF Good
<1>5. \A n \in Nat : n \in Good
  BY <1>3, <1>4, Induction
<1> QED
  BY <1>1, <1>5 DEF Good

\* Each element that is there ends up at a position of its own, and nothing else does.
LEMMA Positions ==
    ASSUME NEW s, NEW V, Optionals(s, V)
    PROVE  LET r == FlattenSeq(s)
               There == {i \in 1 .. Len(s) : s[i] # << >>}
           IN  /\ r \in Seq(V)
               /\ \E pos \in [There -> 1 .. Len(r)] :
                    /\ \A i \in There : s[i] = <<r[pos[i]]>>
                    /\ \A i, k \in There : pos[i] = pos[k] => i = k
                    /\ {pos[i] : i \in There} = 1 .. Len(r)
<1> DEFINE N == Len(s)
           r == FlattenSeq(s)
           There == {i \in 1 .. N : s[i] # << >>}
<1>1. PICK F : Compacting(F, s, V) /\ r = F[N]
  BY Compacts
<1>2. N \in Nat /\ \A n \in 0 .. N : F[n] \in Seq(V) /\ Len(F[n]) \in Nat
  BY <1>1, CompactingType
<1>3. r \in Seq(V)
  BY <1>1, <1>2
<1>4. \A n \in 0 .. N : \A m \in 0 .. n :
         Len(F[m]) <= Len(F[n]) /\ \A j \in 1 .. Len(F[m]) : F[n][j] = F[m][j]
  BY <1>1, CompactingGrows
<1>5. ASSUME NEW i \in There
      PROVE  /\ Len(F[i]) = Len(F[i - 1]) + 1
             /\ s[i] = <<F[i][Len(F[i])]>>
  <2>1. PICK v \in V : s[i] = <<v>> /\ F[i] = Append(F[i - 1], v)
    BY <1>1 DEF Compacting, Optionals
  <2> DEFINE q == F[i - 1]
  <2>2. q \in Seq(V) /\ F[i] = Append(q, v)
    BY <1>2, <2>1
  <2> HIDE DEF q
  <2>3. Len(Append(q, v)) = Len(q) + 1 /\ Append(q, v)[Len(q) + 1] = v
    BY <2>2
  <2> QED
    BY <2>1, <2>2, <2>3 DEF q
<1> DEFINE pos == [i \in There |-> Len(F[i])]
<1>6. ASSUME NEW i \in There PROVE pos[i] \in 1 .. Len(r) /\ s[i] = <<r[pos[i]]>>
  <2>1. i \in 0 .. N /\ N \in 0 .. N /\ i - 1 \in 0 .. N /\ i \in 0 .. N
    BY <1>2
  <2>2. Len(F[i]) <= Len(r) /\ \A j \in 1 .. Len(F[i]) : r[j] = F[i][j]
    BY <1>1, <1>4, <2>1
  <2>3. Len(F[i]) \in Nat /\ Len(F[i]) >= 1 /\ Len(r) \in Nat
    BY <1>1, <1>2, <1>5, <2>1
  <2>4. r[Len(F[i])] = F[i][Len(F[i])]
    BY <2>2, <2>3
  <2> QED
    BY <1>5, <2>2, <2>3, <2>4
<1>7. ASSUME NEW i \in There, NEW k \in There, i < k PROVE pos[i] < pos[k]
  <2>1. i \in 0 .. k - 1 /\ k - 1 \in 0 .. N /\ i \in 0 .. N /\ k \in 0 .. N
    BY <1>2, <1>7
  <2>2. Len(F[i]) <= Len(F[k - 1]) /\ Len(F[k]) = Len(F[k - 1]) + 1
    BY <1>4, <1>5, <2>1
  <2>3. Len(F[i]) \in Nat /\ Len(F[k]) \in Nat /\ Len(F[k - 1]) \in Nat
    BY <1>2, <2>1
  <2> QED
    BY <2>2, <2>3
<1>8. ASSUME NEW i \in There, NEW k \in There, pos[i] = pos[k] PROVE i = k
  <2>1. pos[i] \in Nat /\ ~(pos[i] < pos[k]) /\ ~(pos[k] < pos[i])
    <3>1. pos[i] \in Nat
      BY <1>2
    <3> QED
      BY <1>8, <3>1
  <2>2. ~(i < k) /\ ~(k < i)
    BY <1>7, <2>1
  <2>3. i \in Nat /\ k \in Nat
    BY <1>2
  <2> QED
    BY <2>2, <2>3
<1> DEFINE Good == {n \in Nat : n <= N =>
                      \A j \in 1 .. Len(F[n]) : \E i \in There : pos[i] = j}
<1>9. \A n \in Nat : n \in Good
  <2>1. 0 \in Good
    <3>1. Len(F[0]) = 0
      BY <1>1 DEF Compacting
    <3> HIDE DEF pos
    <3> QED
      BY <3>1
  <2>2. ASSUME NEW n \in Nat, n \in Good PROVE n + 1 \in Good
    <3> HIDE DEF pos
    <3> SUFFICES ASSUME n + 1 <= N, NEW j \in 1 .. Len(F[n + 1])
                 PROVE  \E i \in There : pos[i] = j
      OBVIOUS
    <3>1. n + 1 \in 1 .. N /\ n <= N /\ (n + 1) - 1 = n /\ n \in 0 .. N
      BY <1>2
    <3>2. \A l \in 1 .. Len(F[n]) : \E i \in There : pos[i] = l
      BY <1>2, <2>2, <3>1
    <3>3. CASE s[n + 1] = << >>
      <4>1. F[n + 1] = F[n]
        BY <1>1, <3>1, <3>3 DEF Compacting
      <4> HIDE DEF pos
      <4> QED
        BY <3>2, <4>1
    <3>4. CASE s[n + 1] # << >>
      <4>1. n + 1 \in There
        BY <3>1, <3>4
      <4>2. Len(F[n + 1]) = Len(F[n]) + 1 /\ pos[n + 1] = Len(F[n + 1]) /\ Len(F[n]) \in Nat
        BY <1>2, <1>5, <3>1, <4>1 DEF pos
      <4> HIDE DEF pos
      <4>3. j \in 1 .. Len(F[n]) \/ j = Len(F[n + 1])
        BY <4>2
      <4> QED
        BY <3>2, <4>1, <4>2, <4>3
    <3> QED
      BY <3>3, <3>4
  <2> HIDE DEF Good
  <2> QED
    BY <2>1, <2>2, Induction
<1>10. \A j \in 1 .. Len(r) : \E i \in There : pos[i] = j
  <2>1. N \in Good
    BY <1>2, <1>9
  <2> HIDE DEF pos, There
  <2>2. \A j \in 1 .. Len(F[N]) : \E i \in There : pos[i] = j
    BY <1>2, <2>1
  <2> QED
    BY <1>1, <2>2
<1>11. pos \in [There -> 1 .. Len(r)]
  BY <1>6
<1> HIDE DEF pos, r, There
<1>12. {pos[i] : i \in There} = 1 .. Len(r)
  BY <1>10, <1>11
<1> QED
  BY <1>3, <1>6, <1>8, <1>11, <1>12 DEF r, There

\* The elements of a sequence, each turned into what a function has for it.
Mapped(r, b) == [j \in 1 .. Len(r) |-> b[r[j]]]
MappedOptionals(s, b) ==
    [i \in 1 .. Len(s) |-> IF s[i] = << >> THEN << >> ELSE b[Head(s[i])]]

GivesOptionals(b, V, W) == \A v \in V : b[v] = << >> \/ \E w \in W : b[v] = <<w>>

\* What a flattened sequence is turned into, element by element, is what its elements are.
LEMMA FlattenOfFlatten ==
    ASSUME NEW s, NEW V, Optionals(s, V), NEW b, NEW W, GivesOptionals(b, V, W)
    PROVE  FlattenSeq(Mapped(FlattenSeq(s), b)) = FlattenSeq(MappedOptionals(s, b))
<1> DEFINE N == Len(s)
           r == FlattenSeq(s)
           R == Len(r)
           t == MappedOptionals(s, b)
           u == Mapped(r, b)
<1> USE DEF MappedOptionals, Mapped, GivesOptionals
<1>1. PICK F : Compacting(F, s, V) /\ r = F[N]
  BY Compacts
<1>2. N \in Nat /\ \A n \in 0 .. N : F[n] \in Seq(V) /\ Len(F[n]) \in Nat
  BY <1>1, CompactingType
<1>3. r \in Seq(V) /\ R \in Nat
  BY <1>1, <1>2
<1>4. \A w \in W : <<w>> \in Seq(W)
  OBVIOUS
<1>5. \A v \in V : b[v] \in Seq(W)
  <2>1. << >> \in Seq(W)
    OBVIOUS
  <2> QED
    BY <1>4, <2>1
<1>6. Optionals(u, W) /\ Len(u) = R
  <2>1. \A j \in 1 .. R : r[j] \in V
    BY <1>3
  <2>2. u \in Seq(Seq(W)) /\ Len(u) = R
    BY <1>3, <1>5, <2>1
  <2>3. \A j \in 1 .. R : u[j] = b[r[j]]
    OBVIOUS
  <2> HIDE DEF u
  <2> QED
    BY <2>1, <2>2, <2>3 DEF Optionals
<1>7. ASSUME NEW i \in 1 .. N, NEW v \in V, s[i] = <<v>> PROVE t[i] = b[v]
  BY <1>7
<1>8. ASSUME NEW i \in 1 .. N, s[i] = << >> PROVE t[i] = << >>
  BY <1>8
<1>9. \A i \in 1 .. N : s[i] = << >> \/ \E v \in V : s[i] = <<v>>
  BY DEF Optionals
<1>10. Optionals(t, W) /\ Len(t) = N
  <2>1. \A i \in 1 .. N : t[i] = << >> \/ \E w \in W : t[i] = <<w>>
    <3> HIDE DEF t
    <3> QED
      BY <1>7, <1>8, <1>9
  <2>2. \A i \in 1 .. N : t[i] \in Seq(W)
    <3> HIDE DEF t
    <3>1. << >> \in Seq(W)
      OBVIOUS
    <3> QED
      BY <1>4, <2>1, <3>1
  <2>3. DOMAIN t = 1 .. N /\ t = [i \in 1 .. N |-> t[i]]
    OBVIOUS
  <2> HIDE DEF t
  <2>4. t \in Seq(Seq(W)) /\ Len(t) = N
    BY <1>2, <2>2, <2>3
  <2> QED
    BY <2>1, <2>4 DEF Optionals
<1> HIDE DEF t, u, r
<1>11. PICK T : Compacting(T, t, W) /\ FlattenSeq(t) = T[N]
  BY <1>10, Compacts
<1>12. PICK U : Compacting(U, u, W) /\ FlattenSeq(u) = U[R]
  BY <1>6, Compacts
<1>13. \A n \in 0 .. N : Len(F[n]) <= R /\ \A j \in 1 .. Len(F[n]) : r[j] = F[n][j]
  <2>1. \A n \in 0 .. N : n \in 0 .. N /\ N \in 0 .. N
    BY <1>2
  <2> QED
    BY <1>1, <1>2, <2>1, CompactingGrows
<1> DEFINE Good == {n \in Nat : n <= N => U[Len(F[n])] = T[n]}
<1>14. 0 \in Good
  BY <1>1, <1>11, <1>12 DEF Compacting
<1>15. ASSUME NEW n \in Nat, n \in Good PROVE n + 1 \in Good
  <2> SUFFICES ASSUME n + 1 <= N PROVE U[Len(F[n + 1])] = T[n + 1]
    OBVIOUS
  <2>1. n + 1 \in 1 .. N /\ (n + 1) - 1 = n /\ n \in 0 .. N /\ n + 1 \in 0 .. N
    BY <1>2
  <2>2. U[Len(F[n])] = T[n]
    BY <1>2, <1>15, <2>1
  <2>3. CASE s[n + 1] = << >>
    <3>1. F[n + 1] = F[n]
      BY <1>1, <2>1, <2>3 DEF Compacting
    <3>2. T[n + 1] = T[n]
      BY <1>8, <1>10, <1>11, <2>1, <2>3 DEF Compacting
    <3> QED
      BY <2>2, <3>1, <3>2
  <2>4. CASE s[n + 1] # << >>
    <3>1. PICK v \in V : s[n + 1] = <<v>>
      BY <1>9, <2>1, <2>4
    <3> DEFINE q == F[n]
               l == Len(q)
    <3>2. F[n + 1] = Append(q, v) /\ q \in Seq(V) /\ l \in Nat
      BY <1>1, <1>2, <2>1, <3>1 DEF Compacting
    <3>3. Len(Append(q, v)) = l + 1 /\ Append(q, v)[l + 1] = v
      BY <3>2
    <3>4. l + 1 <= R /\ r[l + 1] = v /\ Len(F[n + 1]) = l + 1
      <4>1. Len(F[n + 1]) = l + 1 /\ F[n + 1][l + 1] = v
        BY <3>2, <3>3
      <4>2. Len(F[n + 1]) <= R /\ \A j \in 1 .. Len(F[n + 1]) : r[j] = F[n + 1][j]
        BY <1>13, <2>1
      <4> HIDE DEF l, q
      <4>3. l + 1 \in 1 .. Len(F[n + 1])
        BY <3>2, <4>1
      <4> QED
        BY <4>1, <4>2, <4>3
    <3>5. u[l + 1] = b[v] /\ t[n + 1] = b[v] /\ l + 1 \in 1 .. R /\ (l + 1) - 1 = l
      BY <1>3, <1>7, <2>1, <3>1, <3>2, <3>4 DEF u
    <3> HIDE DEF l, q
    <3>6. U[l] = T[n]
      BY <2>2 DEF l, q
    <3>7. CASE b[v] = << >>
      BY <1>6, <1>10, <1>11, <1>12, <2>1, <3>4, <3>5, <3>6, <3>7 DEF Compacting
    <3>8. CASE b[v] # << >>
      <4>1. PICK w \in W : b[v] = <<w>>
        BY <3>8
      <4>2. U[l + 1] = Append(U[l], w)
        BY <1>6, <1>12, <3>5, <4>1 DEF Compacting
      <4>3. T[n + 1] = Append(T[n], w)
        BY <1>10, <1>11, <2>1, <3>5, <4>1 DEF Compacting
      <4> QED
        BY <3>4, <3>6, <4>2, <4>3
    <3> QED
      BY <3>7, <3>8
  <2> QED
    BY <2>3, <2>4
<1> HIDE DEF Good
<1>16. \A n \in Nat : n \in Good
  BY <1>14, <1>15, Induction
<1>17. U[R] = T[N]
  BY <1>1, <1>2, <1>16 DEF Good
<1> QED
  BY <1>11, <1>12, <1>17 DEF t, u, r

\* Flattening a sequence of sequences of one gives their elements.
LEMMA FlattenSingles ==
    ASSUME NEW V, NEW r \in Seq(V)
    PROVE  FlattenSeq([j \in 1 .. Len(r) |-> <<r[j]>>]) = r
<1> DEFINE R == Len(r)
           u == [j \in 1 .. R |-> <<r[j]>>]
<1>1. R \in Nat /\ (\A j \in 1 .. R : r[j] \in V) /\ r = [j \in 1 .. R |-> r[j]]
  OBVIOUS
<1>2. Optionals(u, V) /\ Len(u) = R
  <2>1. \A v \in V : <<v>> \in Seq(V)
    OBVIOUS
  <2>2. \A j \in 1 .. R : <<r[j]>> \in Seq(V)
    BY <1>1, <2>1
  <2>3. u \in Seq(Seq(V)) /\ Len(u) = R
    BY <1>1, <2>2
  <2>4. \A j \in 1 .. R : u[j] = <<r[j]>>
    OBVIOUS
  <2> HIDE DEF u
  <2> QED
    BY <1>1, <2>3, <2>4 DEF Optionals
<1>3. \A j \in 1 .. R : u[j] = <<r[j]>>
  OBVIOUS
<1> HIDE DEF u
<1>4. PICK F : Compacting(F, u, V) /\ FlattenSeq(u) = F[R]
  BY <1>2, Compacts
<1>5. \A n \in 0 .. R : F[n] \in Seq(V)
  BY <1>2, <1>4, CompactingType
<1> DEFINE Good == {n \in Nat : n <= R =>
                      Len(F[n]) = n /\ \A j \in 1 .. n : F[n][j] = r[j]}
<1>6. 0 \in Good
  BY <1>4 DEF Compacting
<1>7. ASSUME NEW n \in Nat, n \in Good PROVE n + 1 \in Good
  <2> SUFFICES ASSUME n + 1 <= R
               PROVE  Len(F[n + 1]) = n + 1 /\ \A j \in 1 .. n + 1 : F[n + 1][j] = r[j]
    OBVIOUS
  <2>1. n + 1 \in 1 .. R /\ (n + 1) - 1 = n /\ n \in 0 .. R /\ n <= R
    BY <1>1
  <2> DEFINE q == F[n]
             v == r[n + 1]
  <2>2. v \in V /\ q \in Seq(V) /\ F[n + 1] = Append(q, v)
    BY <1>1, <1>2, <1>3, <1>4, <1>5, <2>1 DEF Compacting
  <2>3. Len(q) = n /\ \A j \in 1 .. n : q[j] = r[j]
    BY <1>7, <2>1
  <2> HIDE DEF q, Good
  <2>4. /\ Len(Append(q, v)) = n + 1 /\ Append(q, v)[n + 1] = v
        /\ \A j \in 1 .. n : Append(q, v)[j] = q[j]
    BY <2>2, <2>3
  <2>5. \A j \in 1 .. n + 1 : j \in 1 .. n \/ j = n + 1
    OBVIOUS
  <2> QED
    BY <2>2, <2>3, <2>4, <2>5
<1> HIDE DEF Good
<1>8. \A n \in Nat : n \in Good
  BY <1>6, <1>7, Induction
<1>9. Len(F[R]) = R /\ (\A j \in 1 .. R : F[R][j] = r[j]) /\ F[R] \in Seq(V)
  BY <1>1, <1>5, <1>8 DEF Good
<1> DEFINE q == F[R]
<1>10. q \in Seq(V) /\ Len(q) = R /\ \A j \in 1 .. R : q[j] = r[j]
  BY <1>9
<1> HIDE DEF q
<1>11. q = [j \in 1 .. R |-> q[j]]
  BY <1>10
<1>12. q = r
  BY <1>1, <1>10, <1>11
<1> QED
  BY <1>4, <1>12 DEF q, u

-----------------------------------------------------------------------------
(* Sums over finite sets. *)

\* The proper subsets of a finite set have a lower rank than the set.
LEMMA SubsetRank ==
    ASSUME NEW T, IsFiniteSet(T)
    PROVE  \E rank : /\ \A s \in SUBSET T : rank[s] \in Nat
                     /\ \A s \in SUBSET T : \A t \in SUBSET s : t # s => rank[t] < rank[s]
<1> DEFINE rank == [s \in SUBSET T |-> Cardinality(s)]
<1>1. ASSUME NEW s \in SUBSET T PROVE rank[s] \in Nat
  BY FS_Subset, FS_CardinalityType
<1>2. ASSUME NEW s \in SUBSET T, NEW t \in SUBSET s, t # s PROVE rank[t] < rank[s]
  <2>1. IsFiniteSet(s) /\ Cardinality(s) \in Nat /\ Cardinality(t) \in Nat
    BY FS_Subset, FS_CardinalityType
  <2>2. Cardinality(t) <= Cardinality(s) /\ Cardinality(t) # Cardinality(s)
    BY <1>2, <2>1, FS_Subset
  <2>3. rank[t] = Cardinality(t) /\ rank[s] = Cardinality(s)
    OBVIOUS
  <2> HIDE DEF rank
  <2> QED
    BY <2>1, <2>2, <2>3
<1> HIDE DEF rank
<1> QED
  BY <1>1, <1>2

\* What holds of a finite set whenever it holds of all its proper subsets holds of it.
LEMMA SubsetInduction ==
    ASSUME NEW T, IsFiniteSet(T), NEW Good,
           \A s \in SUBSET T : (\A t \in SUBSET s : t # s => t \in Good) => s \in Good
    PROVE  \A s \in SUBSET T : s \in Good
<1> DEFINE S == SUBSET T
<1>1. PICK rank : /\ \A s \in S : rank[s] \in Nat
                  /\ \A s \in S : \A t \in SUBSET s : t # s => rank[t] < rank[s]
  BY SubsetRank
<1>2. ASSUME NEW s \in S, \A t \in S : rank[t] < rank[s] => t \in Good PROVE s \in Good
  <2>1. \A t \in SUBSET s : t # s => t \in Good
    BY <1>1, <1>2
  <2> QED
    BY <2>1
<1> HIDE DEF S
<1>3. S \subseteq Good
  BY <1>1, <1>2, RankInduction
<1> QED
  BY <1>3 DEF S

\* A fold over a set, in the order in which elements are taken from what is left of it.
Foldable(T, V, base, Op, first) ==
    /\ IsFiniteSet(T)
    /\ base \in V
    /\ Op \in [T \X V -> V]
    /\ \A s \in SUBSET T : s # {} => first[s] \in s

Fold(iter, T, V, base, Op, first) ==
    /\ iter \in [SUBSET T -> V]
    /\ \A s \in SUBSET T :
         iter[s] = IF s = {} THEN base ELSE Op[<<first[s], iter[s \ {first[s]}]>>]

\* There is a function that folds an operation over the subsets of a finite set.
LEMMA FoldExists ==
    ASSUME NEW T, NEW V, NEW base, NEW Op, NEW first, Foldable(T, V, base, Op, first)
    PROVE  \E iter : Fold(iter, T, V, base, Op, first)
<1> USE DEF Foldable, Fold
<1> DEFINE S == SUBSET T
           rest(s) == s \ {first[s]}
           H == [p \in S \X [S -> V] |->
                   IF p[1] = {} THEN base ELSE Op[<<first[p[1]], p[2][rest(p[1])]>>]]
<1>1. PICK rank : /\ \A s \in S : rank[s] \in Nat
                  /\ \A s \in S : \A t \in SUBSET s : t # s => rank[t] < rank[s]
  BY SubsetRank
<1>2. ASSUME NEW s \in S, s # {}
      PROVE  first[s] \in T /\ rest(s) \in S /\ rank[rest(s)] < rank[s]
  <2>1. first[s] \in s
    BY <1>2
  <2>2. rest(s) \in SUBSET s /\ rest(s) # s
    BY <2>1
  <2> HIDE DEF rest
  <2> QED
    BY <1>1, <2>1, <2>2
<1>3. ASSUME NEW s \in S, NEW g \in [S -> V]
      PROVE  H[<<s, g>>] = IF s = {} THEN base ELSE Op[<<first[s], g[rest(s)]>>]
  <2>1. <<s, g>> \in S \X [S -> V]
    OBVIOUS
  <2> QED
    BY <2>1
<1> HIDE DEF S, rest
<1>4. H \in [S \X [S -> V] -> V]
  <2>1. ASSUME NEW s \in S, NEW g \in [S -> V] PROVE H[<<s, g>>] \in V
    <3>1. CASE s = {}
      BY <1>3, <3>1
    <3>2. CASE s # {}
      <4>1. <<first[s], g[rest(s)]>> \in T \X V
        BY <1>2, <3>2
      <4> QED
        BY <1>3, <3>2, <4>1
    <3> QED
      BY <3>1, <3>2
  <2>2. \A p \in S \X [S -> V] : p = <<p[1], p[2]>> /\ p[1] \in S /\ p[2] \in [S -> V]
    OBVIOUS
  <2>3. \A p \in S \X [S -> V] : H[p] \in V
    BY <2>1, <2>2
  <2>4. DOMAIN H = S \X [S -> V] /\ H = [p \in S \X [S -> V] |-> H[p]]
    OBVIOUS
  <2> HIDE DEF H
  <2> QED
    BY <2>3, <2>4
<1> HIDE DEF H
<1>5. ASSUME NEW s \in S, NEW g \in [S -> V], NEW h \in [S -> V],
             \A t \in S : rank[t] < rank[s] => g[t] = h[t]
      PROVE  H[<<s, g>>] = H[<<s, h>>]
  <2>1. CASE s = {}
    BY <1>3, <2>1
  <2>2. CASE s # {}
    <3>1. g[rest(s)] = h[rest(s)]
      BY <1>2, <1>5, <2>2
    <3>2. H[<<s, g>>] = Op[<<first[s], g[rest(s)]>>]
      BY <1>3, <2>2
    <3>3. H[<<s, h>>] = Op[<<first[s], h[rest(s)]>>]
      BY <1>3, <2>2
    <3> QED
      BY <3>1, <3>2, <3>3
  <2> QED
    BY <2>1, <2>2
<1>6. Recursive(S, rank, V, H)
  BY <1>1, <1>4, <1>5 DEF Recursive
<1>7. PICK iter \in [S -> V] : \A s \in S : iter[s] = H[<<s, iter>>]
  BY <1>6, Recursion
<1>8. \A s \in S : iter[s] = IF s = {} THEN base ELSE Op[<<first[s], iter[rest(s)]>>]
  BY <1>3, <1>7
<1> QED
  BY <1>7, <1>8 DEF S, rest

\* How SumFunctionOnSet runs through a set.
Chosen(s) == CHOOSE x \in s : TRUE

SumFrom(f, T) == CHOOSE iter :
    iter = [s \in SUBSET T |-> IF s = {} THEN 0 ELSE f[Chosen(s)] + iter[s \ {Chosen(s)}]]

\* A sum over a set is the community modules' iteration over it.
LEMMA SumIsIterated == ASSUME NEW f, NEW T PROVE SumFunctionOnSet(f, T) = SumFrom(f, T)[T]
BY DEF SumFunctionOnSet, FoldFunctionOnSet, MapThenFoldSet, SumFrom, Chosen

SumsUp(iter, f, T) ==
    \A s \in SUBSET T :
        /\ iter[s] \in Nat
        /\ iter[s] = IF s = {} THEN 0 ELSE f[Chosen(s)] + iter[s \ {Chosen(s)}]

\* The iteration is defined: it adds the chosen element to the sum over the others.
LEMMA SumFromDef ==
    ASSUME NEW f, NEW T, IsFiniteSet(T), \A x \in T : f[x] \in Nat
    PROVE  SumsUp(SumFrom(f, T), f, T)
<1> DEFINE first == [s \in SUBSET T |-> Chosen(s)]
           Op == [p \in T \X Nat |-> f[p[1]] + p[2]]
<1>1. \A s \in SUBSET T : first[s] = Chosen(s) /\ (s # {} => Chosen(s) \in s)
  BY DEF Chosen
<1>2. \A x \in T, n \in Nat : Op[<<x, n>>] = f[x] + n
  OBVIOUS
<1>3. Op \in [T \X Nat -> Nat]
  OBVIOUS
<1> HIDE DEF first, Op
<1>4. PICK it : Fold(it, T, Nat, 0, Op, first)
  <2>1. Foldable(T, Nat, 0, Op, first)
    BY <1>1, <1>3 DEF Foldable
  <2> QED
    BY <2>1, FoldExists
<1>5. ASSUME NEW s \in SUBSET T
      PROVE  it[s] = IF s = {} THEN 0 ELSE f[Chosen(s)] + it[s \ {Chosen(s)}]
  <2>1. CASE s = {}
    BY <1>4, <2>1 DEF Fold
  <2>2. CASE s # {}
    <3>1. Chosen(s) \in T /\ s \ {Chosen(s)} \in SUBSET T
      BY <1>1, <2>2
    <3>2. it[s] = Op[<<Chosen(s), it[s \ {Chosen(s)}]>>]
      BY <1>1, <1>4, <2>2 DEF Fold
    <3>3. it[s \ {Chosen(s)}] \in Nat
      BY <1>4, <3>1 DEF Fold
    <3> QED
      BY <1>2, <2>2, <3>1, <3>2, <3>3
  <2> QED
    BY <2>1, <2>2
<1>6. it = [s \in SUBSET T |-> IF s = {} THEN 0 ELSE f[Chosen(s)] + it[s \ {Chosen(s)}]]
  BY <1>4, <1>5 DEF Fold
<1> DEFINE iter == SumFrom(f, T)
<1>7. iter = [s \in SUBSET T |-> IF s = {} THEN 0 ELSE f[Chosen(s)] + iter[s \ {Chosen(s)}]]
  BY <1>6 DEF SumFrom
<1> HIDE DEF iter
<1>8. \A s \in SUBSET T :
        iter[s] = IF s = {} THEN 0 ELSE f[Chosen(s)] + iter[s \ {Chosen(s)}]
  BY <1>7
<1> DEFINE Good == {s \in SUBSET T : iter[s] \in Nat}
<1>9. ASSUME NEW s \in SUBSET T, \A t \in SUBSET s : t # s => t \in Good
      PROVE  s \in Good
  <2>1. CASE s = {}
    <3>1. iter[s] = 0
      BY <1>8, <2>1
    <3> QED
      BY <3>1
  <2>2. CASE s # {}
    <3>1. Chosen(s) \in s
      BY <1>1, <2>2
    <3>2. s \ {Chosen(s)} \in SUBSET s /\ s \ {Chosen(s)} # s
      BY <3>1
    <3>3. iter[s \ {Chosen(s)}] \in Nat
      BY <1>9, <3>2
    <3>4. iter[s] = f[Chosen(s)] + iter[s \ {Chosen(s)}] /\ f[Chosen(s)] \in Nat
      BY <1>8, <2>2, <3>1
    <3> QED
      BY <3>3, <3>4
  <2> QED
    BY <2>1, <2>2
<1> HIDE DEF Good
<1>10. \A s \in SUBSET T : s \in Good
  BY <1>9, SubsetInduction
<1> QED
  BY <1>8, <1>10 DEF iter, Good, SumsUp

\* One step of a sum, and its type.
LEMMA SumStep ==
    ASSUME NEW f, NEW T, IsFiniteSet(T), \A x \in T : f[x] \in Nat
    PROVE  /\ SumFunctionOnSet(f, T) \in Nat
           /\ T = {} => SumFunctionOnSet(f, T) = 0
           /\ T # {} => /\ Chosen(T) \in T
                        /\ SumFunctionOnSet(f, T)
                             = f[Chosen(T)] + SumFunctionOnSet(f, T \ {Chosen(T)})
<1>1. /\ SumFunctionOnSet(f, T) \in Nat
      /\ T = {} => SumFunctionOnSet(f, T) = 0
  BY SumIsIterated, SumFromDef DEF SumsUp
<1>2. ASSUME T # {}
      PROVE  /\ Chosen(T) \in T
             /\ SumFunctionOnSet(f, T) = f[Chosen(T)] + SumFunctionOnSet(f, T \ {Chosen(T)})
  <2> DEFINE U == T \ {Chosen(T)}
             iT == SumFrom(f, T)
             iU == SumFrom(f, U)
             Same == {s \in SUBSET U : iT[s] = iU[s]}
  <2>1. Chosen(T) \in T /\ U \in SUBSET T /\ \A x \in U : f[x] \in Nat
    BY <1>2 DEF Chosen
  <2>2. IsFiniteSet(U)
    BY FS_Subset
  <2> HIDE DEF U
  <2>3. \A s \in SUBSET T : iT[s] = IF s = {} THEN 0 ELSE f[Chosen(s)] + iT[s \ {Chosen(s)}]
    <3>1. SumsUp(iT, f, T)
      BY SumFromDef
    <3> QED
      BY <3>1 DEF SumsUp
  <2>4. \A s \in SUBSET U : iU[s] = IF s = {} THEN 0 ELSE f[Chosen(s)] + iU[s \ {Chosen(s)}]
    <3>1. SumsUp(iU, f, U)
      BY <2>1, <2>2, SumFromDef
    <3> QED
      BY <3>1 DEF SumsUp
  <2> HIDE DEF iT, iU
  <2>5. ASSUME NEW s \in SUBSET U, \A t \in SUBSET s : t # s => t \in Same
        PROVE  s \in Same
    <3>1. s \in SUBSET T
      BY <2>1
    <3>2. CASE s = {}
      BY <2>3, <2>4, <3>1, <3>2
    <3>3. CASE s # {}
      <4> DEFINE t == s \ {Chosen(s)}
      <4>1. Chosen(s) \in s
        BY <3>3 DEF Chosen
      <4>2. t \in SUBSET s /\ t # s
        BY <4>1
      <4>3. iT[s] = f[Chosen(s)] + iT[t]
        BY <2>3, <3>1, <3>3
      <4>4. iU[s] = f[Chosen(s)] + iU[t]
        BY <2>4, <3>3
      <4> HIDE DEF t
      <4>5. iT[t] = iU[t]
        BY <2>5, <4>2
      <4> QED
        BY <4>3, <4>4, <4>5
    <3> QED
      BY <3>2, <3>3
  <2> HIDE DEF Same
  <2>6. U \in Same
    BY <2>2, <2>5, SubsetInduction
  <2>7. iT[U] = iU[U]
    BY <2>6 DEF Same
  <2>8. SumFunctionOnSet(f, T) = f[Chosen(T)] + iT[U]
    BY <1>2, <2>3, SumIsIterated DEF iT, U
  <2>9. SumFunctionOnSet(f, U) = iU[U]
    BY SumIsIterated DEF iU
  <2> QED
    BY <2>1, <2>7, <2>8, <2>9 DEF U
<1> QED
  BY <1>1, <1>2

-----------------------------------------------------------------------------
(* The recursive functions of the model are what their definitions say. *)

ReleasesIf(g, p) ==
    LET spec == p[1]  value == p[2] IN
    CASE spec.kind = "object" ->
           /\ value.kind = "object"
           /\ \A key \in DOMAIN value.fields :
                key \in DOMAIN spec.allow /\ g[<<spec.allow[key], value.fields[key]>>]
      [] spec.kind = "array" ->
           /\ value.kind = "array"
           /\ \A n \in DOMAIN value.items : g[<<spec.items, value.items[n]>>]
      [] OTHER -> Accepts(spec.kind, value)

\* The values and specifications inside a composite one are of lower rank.
LEMMA JsonParts ==
    ASSUME NEW value \in Json
    PROVE  /\ Depth[value] \in Nat
           /\ IsFiniteSet(DOMAIN Parts(value))
           /\ \A step \in DOMAIN Parts(value) :
                Parts(value)[step] \in Json /\ Depth[Parts(value)[step]] < Depth[value]
           /\ value.kind = "object" => \A key \in DOMAIN value.fields :
                value.fields[key] \in Json /\ Depth[value.fields[key]] < Depth[value]
           /\ value.kind = "array" => \A n \in DOMAIN value.items :
                value.items[n] \in Json /\ Depth[value.items[n]] < Depth[value]
<1>1. /\ Depth[value] \in Nat
      /\ IsFiniteSet(DOMAIN Parts(value))
      /\ \A step \in DOMAIN Parts(value) :
           Parts(value)[step] \in Json /\ Depth[Parts(value)[step]] < Depth[value]
  BY JsonAssumption
<1>2. value.kind = "object" => Parts(value) = value.fields
  BY DEF Parts
<1>3. value.kind = "array" => Parts(value) = value.items
  BY DEF Parts
<1> QED
  BY <1>1, <1>2, <1>3

\* The specifications inside a specification are specifications of a lower depth.
LEMMA SpecParts ==
    ASSUME NEW spec \in Specs
    PROVE  /\ SpecDepth[spec] \in Nat
           /\ spec.kind \in ScalarTypes \cup {"object", "array"}
           /\ spec.kind = "object" => \A key \in DOMAIN spec.allow :
                spec.allow[key] \in Specs /\ SpecDepth[spec.allow[key]] < SpecDepth[spec]
           /\ spec.kind = "array" => spec.items \in Specs /\ SpecDepth[spec.items] < SpecDepth[spec]
BY SpecAssumption DEF ScalarTypes

\* Whether a specification releases a value is decided by its parts, as written.
LEMMA ReleasesUnfolds ==
    /\ Releases \in [Specs \X Json -> BOOLEAN]
    /\ \A spec \in Specs, value \in Json :
         Releases[<<spec, value>>] = ReleasesIf(Releases, <<spec, value>>)
<1> DEFINE S == Specs \X Json
           rank == [p \in S |-> Depth[p[2]]]
           H == [q \in S \X [S -> BOOLEAN] |-> ReleasesIf(q[2], q[1])]
<1>1. ASSUME NEW p \in S, NEW g PROVE ReleasesIf(g, p) \in BOOLEAN
  BY DEF ReleasesIf, Accepts
<1>2. ASSUME NEW p \in S, NEW g \in [S -> BOOLEAN], NEW h \in [S -> BOOLEAN],
             \A q \in S : rank[q] < rank[p] => g[q] = h[q]
      PROVE  ReleasesIf(g, p) = ReleasesIf(h, p)
  <2>1. PICK spec \in Specs, value \in Json : p = <<spec, value>>
    OBVIOUS
  <2>2. \A s \in Specs, v \in Json : Depth[v] < Depth[value] => g[<<s, v>>] = h[<<s, v>>]
    BY <1>2, <2>1
  <2>3. CASE spec.kind = "object"
    <3>1. value.kind = "object" => \A key \in DOMAIN value.fields :
             key \in DOMAIN spec.allow =>
               g[<<spec.allow[key], value.fields[key]>>] = h[<<spec.allow[key], value.fields[key]>>]
      BY <2>2, <2>3, JsonParts, SpecParts
    <3> HIDE DEF S, rank
    <3> QED
      BY <2>1, <2>3, <3>1 DEF ReleasesIf
  <2>4. CASE spec.kind = "array"
    <3>1. value.kind = "array" => \A n \in DOMAIN value.items :
             g[<<spec.items, value.items[n]>>] = h[<<spec.items, value.items[n]>>]
      BY <2>2, <2>4, JsonParts, SpecParts
    <3> HIDE DEF S, rank
    <3> QED
      BY <2>1, <2>4, <3>1 DEF ReleasesIf
  <2>5. CASE spec.kind \notin {"object", "array"}
    BY <2>1, <2>5 DEF ReleasesIf
  <2> QED
    BY <2>3, <2>4, <2>5
<1>3. \A p \in S : rank[p] \in Nat
  BY JsonParts
<1>4. H \in [S \X [S -> BOOLEAN] -> BOOLEAN]
  <2> HIDE DEF S
  <2> QED
    BY <1>1
<1>5. \A p \in S : \A g \in [S -> BOOLEAN] : H[<<p, g>>] = ReleasesIf(g, p)
  <2> HIDE DEF S
  <2> QED
    OBVIOUS
<1> HIDE DEF S, rank, H
<1>6. Recursive(S, rank, BOOLEAN, H)
  <2>1. ASSUME NEW p \in S, NEW g \in [S -> BOOLEAN], NEW h \in [S -> BOOLEAN],
               \A q \in S : rank[q] < rank[p] => g[q] = h[q]
        PROVE  H[<<p, g>>] = H[<<p, h>>]
    <3>1. ReleasesIf(g, p) = ReleasesIf(h, p)
      BY <1>2, <2>1
    <3>2. H[<<p, g>>] = ReleasesIf(g, p) /\ H[<<p, h>>] = ReleasesIf(h, p)
      BY <1>5
    <3> QED
      BY <3>1, <3>2
  <2> QED
    BY <1>3, <1>4, <2>1 DEF Recursive
<1>7. PICK f \in [S -> BOOLEAN] : \A p \in S : f[p] = H[<<p, f>>]
  BY <1>6, Recursion
<1>8. f = [p \in S |-> ReleasesIf(f, p)]
  BY <1>5, <1>7
<1>9. Releases = CHOOSE g : g = [p \in S |-> ReleasesIf(g, p)]
  BY DEF Releases, ReleasesIf, S
<1>10. Releases = [p \in S |-> ReleasesIf(Releases, p)]
  BY <1>8, <1>9
<1>11. Releases \in [S -> BOOLEAN]
  BY <1>1, <1>10
<1>12. \A spec \in Specs, value \in Json : <<spec, value>> \in S
  BY DEF S
<1>13. \A p \in S : Releases[p] = ReleasesIf(Releases, p)
  BY <1>10
<1> QED
  BY <1>11, <1>12, <1>13 DEF S

NarrowerIf(g, p) ==
    LET spec == p[1]  wide == p[2] IN
    CASE spec.kind = "object" ->
           /\ wide.kind = "object"
           /\ \A key \in DOMAIN spec.allow :
                key \in DOMAIN wide.allow /\ g[<<spec.allow[key], wide.allow[key]>>]
      [] spec.kind = "array" -> wide.kind = "array" /\ g[<<spec.items, wide.items>>]
      [] OTHER -> wide.kind \in {spec.kind, "scalar"}

\* Whether a specification is narrower than another is decided by their parts.
LEMMA NarrowerUnfolds ==
    /\ Narrower \in [Specs \X Specs -> BOOLEAN]
    /\ \A spec, wide \in Specs : Narrower[<<spec, wide>>] = NarrowerIf(Narrower, <<spec, wide>>)
<1> DEFINE S == Specs \X Specs
           rank == [p \in S |-> SpecDepth[p[1]]]
           H == [q \in S \X [S -> BOOLEAN] |-> NarrowerIf(q[2], q[1])]
<1>1. ASSUME NEW p \in S, NEW g PROVE NarrowerIf(g, p) \in BOOLEAN
  <2>1. ASSUME NEW spec, NEW wide, p = <<spec, wide>> PROVE NarrowerIf(g, p) \in BOOLEAN
    <3>1. CASE spec.kind = "object"
      BY <2>1, <3>1 DEF NarrowerIf
    <3>2. CASE spec.kind = "array"
      <4> DEFINE inside == g[<<spec.items, wide.items>>]
      <4>1. NarrowerIf(g, p) = (wide.kind = "array" /\ inside)
        BY <2>1, <3>2 DEF NarrowerIf
      <4> HIDE DEF inside
      <4>2. (wide.kind = "array" /\ inside) \in BOOLEAN
        BY Zenon
      <4> QED
        BY <4>1, <4>2, Zenon
    <3>3. CASE spec.kind \notin {"object", "array"}
      <4>1. NarrowerIf(g, p) = (wide.kind \in {spec.kind, "scalar"})
        BY <2>1, <3>3 DEF NarrowerIf
      <4> QED
        BY <4>1
    <3> QED
      BY <3>1, <3>2, <3>3
  <2> QED
    BY <2>1
<1>2. ASSUME NEW p \in S, NEW g \in [S -> BOOLEAN], NEW h \in [S -> BOOLEAN],
             \A q \in S : rank[q] < rank[p] => g[q] = h[q]
      PROVE  NarrowerIf(g, p) = NarrowerIf(h, p)
  <2>1. PICK spec \in Specs, wide \in Specs : p = <<spec, wide>>
    OBVIOUS
  <2>2. \A s, w \in Specs : SpecDepth[s] < SpecDepth[spec] => g[<<s, w>>] = h[<<s, w>>]
    BY <1>2, <2>1
  <2>3. CASE spec.kind = "object"
    <3>1. wide.kind = "object" => \A key \in DOMAIN spec.allow :
             key \in DOMAIN wide.allow =>
               g[<<spec.allow[key], wide.allow[key]>>] = h[<<spec.allow[key], wide.allow[key]>>]
      BY <2>2, <2>3, SpecParts
    <3> HIDE DEF S, rank
    <3> QED
      BY <2>1, <2>3, <3>1 DEF NarrowerIf
  <2>4. CASE spec.kind = "array"
    <3>1. wide.kind = "array" => g[<<spec.items, wide.items>>] = h[<<spec.items, wide.items>>]
      BY <2>2, <2>4, SpecParts
    <3> HIDE DEF S, rank
    <3> QED
      BY <2>1, <2>4, <3>1 DEF NarrowerIf
  <2>5. CASE spec.kind \notin {"object", "array"}
    BY <2>1, <2>5 DEF NarrowerIf
  <2> QED
    BY <2>3, <2>4, <2>5
<1>3. \A p \in S : rank[p] \in Nat
  BY SpecParts
<1>4. H \in [S \X [S -> BOOLEAN] -> BOOLEAN]
  <2> HIDE DEF S
  <2> QED
    BY <1>1
<1>5. \A p \in S : \A g \in [S -> BOOLEAN] : H[<<p, g>>] = NarrowerIf(g, p)
  <2> HIDE DEF S
  <2> QED
    OBVIOUS
<1> HIDE DEF S, rank, H
<1>6. Recursive(S, rank, BOOLEAN, H)
  <2>1. ASSUME NEW p \in S, NEW g \in [S -> BOOLEAN], NEW h \in [S -> BOOLEAN],
               \A q \in S : rank[q] < rank[p] => g[q] = h[q]
        PROVE  H[<<p, g>>] = H[<<p, h>>]
    <3>1. NarrowerIf(g, p) = NarrowerIf(h, p)
      BY <1>2, <2>1
    <3>2. H[<<p, g>>] = NarrowerIf(g, p) /\ H[<<p, h>>] = NarrowerIf(h, p)
      BY <1>5
    <3> QED
      BY <3>1, <3>2
  <2> QED
    BY <1>3, <1>4, <2>1 DEF Recursive
<1>7. PICK f \in [S -> BOOLEAN] : \A p \in S : f[p] = H[<<p, f>>]
  BY <1>6, Recursion
<1>8. f = [p \in S |-> NarrowerIf(f, p)]
  BY <1>5, <1>7
<1>9. Narrower = CHOOSE g : g = [p \in S |-> NarrowerIf(g, p)]
  BY DEF Narrower, NarrowerIf, S
<1>10. Narrower = [p \in S |-> NarrowerIf(Narrower, p)]
  BY <1>8, <1>9
<1>11. Narrower \in [S -> BOOLEAN]
  BY <1>1, <1>10
<1>12. \A spec, wide \in Specs : <<spec, wide>> \in S
  BY DEF S
<1>13. \A p \in S : Narrower[p] = NarrowerIf(Narrower, p)
  BY <1>10
<1> QED
  BY <1>11, <1>12, <1>13 DEF S

SizeIf(g, value) == 1 + SumFunction([step \in DOMAIN Parts(value) |-> g[Parts(value)[step]]])

\* The size of a value is one more than the sizes of its parts.
LEMMA SizeUnfolds ==
    /\ Size \in [Json -> Nat]
    /\ \A value \in Json : Size[value] = SizeIf(Size, value)
<1> DEFINE H == [q \in Json \X [Json -> Nat] |-> SizeIf(q[2], q[1])]
<1>1. ASSUME NEW value \in Json, NEW g \in [Json -> Nat] PROVE SizeIf(g, value) \in Nat
  <2> DEFINE T == DOMAIN Parts(value)
             sizes == [step \in T |-> g[Parts(value)[step]]]
  <2>1. IsFiniteSet(T) /\ \A step \in T : sizes[step] \in Nat
    BY JsonParts
  <2>2. SizeIf(g, value) = 1 + SumFunctionOnSet(sizes, T)
    BY DEF SizeIf, SumFunction
  <2> HIDE DEF T, sizes
  <2>3. SumFunctionOnSet(sizes, T) \in Nat
    BY <2>1, SumStep
  <2> QED
    BY <2>2, <2>3
<1>2. ASSUME NEW value \in Json, NEW g \in [Json -> Nat], NEW h \in [Json -> Nat],
             \A v \in Json : Depth[v] < Depth[value] => g[v] = h[v]
      PROVE  SizeIf(g, value) = SizeIf(h, value)
  <2>1. [step \in DOMAIN Parts(value) |-> g[Parts(value)[step]]]
          = [step \in DOMAIN Parts(value) |-> h[Parts(value)[step]]]
    BY <1>2, JsonParts
  <2> QED
    BY <2>1 DEF SizeIf
<1>3. \A value \in Json : Depth[value] \in Nat
  BY JsonParts
<1>4. H \in [Json \X [Json -> Nat] -> Nat]
  BY <1>1
<1>5. \A value \in Json : \A g \in [Json -> Nat] : H[<<value, g>>] = SizeIf(g, value)
  OBVIOUS
<1> HIDE DEF H
<1>6. Recursive(Json, Depth, Nat, H)
  <2>1. ASSUME NEW value \in Json, NEW g \in [Json -> Nat], NEW h \in [Json -> Nat],
               \A v \in Json : Depth[v] < Depth[value] => g[v] = h[v]
        PROVE  H[<<value, g>>] = H[<<value, h>>]
    <3>1. SizeIf(g, value) = SizeIf(h, value)
      BY <1>2, <2>1
    <3>2. H[<<value, g>>] = SizeIf(g, value) /\ H[<<value, h>>] = SizeIf(h, value)
      BY <1>5
    <3> QED
      BY <3>1, <3>2
  <2> QED
    BY <1>3, <1>4, <2>1 DEF Recursive
<1>7. PICK f \in [Json -> Nat] : \A value \in Json : f[value] = H[<<value, f>>]
  BY <1>6, Recursion
<1>8. f = [value \in Json |-> SizeIf(f, value)]
  BY <1>5, <1>7
<1>9. Size = CHOOSE g : g = [value \in Json |-> SizeIf(g, value)]
  BY DEF Size, SizeIf
<1>10. Size = [value \in Json |-> SizeIf(Size, value)]
  BY <1>8, <1>9
<1>11. Size = f
  <2> DEFINE Same == {v \in Json : Size[v] = f[v]}
  <2>1. ASSUME NEW value \in Json, \A v \in Json : Depth[v] < Depth[value] => v \in Same
        PROVE  value \in Same
    <3>1. [step \in DOMAIN Parts(value) |-> Size[Parts(value)[step]]]
            = [step \in DOMAIN Parts(value) |-> f[Parts(value)[step]]]
      BY <2>1, JsonParts
    <3>2. SizeIf(Size, value) = SizeIf(f, value)
      BY <3>1 DEF SizeIf
    <3>3. Size[value] = SizeIf(Size, value) /\ f[value] = SizeIf(f, value)
      BY <1>8, <1>10
    <3> QED
      BY <3>2, <3>3
  <2> HIDE DEF Same
  <2>2. Json \subseteq Same
    BY <1>3, <2>1, RankInduction
  <2>3. \A v \in Json : Size[v] = f[v]
    BY <2>2 DEF Same
  <2> QED
    BY <1>7, <1>10, <2>3
<1> QED
  BY <1>5, <1>7, <1>11

OutcomeIf(g, p) ==
    LET spec == p[1]  value == p[2] IN
    CASE spec.kind = "object" /\ value.kind = "object" ->
           ProjectObject(g, spec.allow, value.fields)
      [] spec.kind = "array" /\ value.kind = "array" ->
           ProjectArray(g, spec.items, value.items)
      [] spec.kind \in ScalarTypes /\ Accepts(spec.kind, value) -> Keep(value)
      [] OTHER -> Drop(TypeMismatch(spec, value))

\* What project() makes of a value depends on what it makes of the value's parts only.
LEMMA OutcomeIsLocal ==
    ASSUME NEW spec \in Specs, NEW value \in Json, NEW g, NEW h,
           \A s \in Specs, v \in Json : Depth[v] < Depth[value] => g[<<s, v>>] = h[<<s, v>>]
    PROVE  OutcomeIf(g, <<spec, value>>) = OutcomeIf(h, <<spec, value>>)
<1>1. CASE spec.kind = "object" /\ value.kind = "object"
  <2>1. [key \in DOMAIN value.fields |->
            IF key \in DOMAIN spec.allow THEN g[<<spec.allow[key], value.fields[key]>>]
            ELSE Drop(UnknownKey)]
          = [key \in DOMAIN value.fields |->
            IF key \in DOMAIN spec.allow THEN h[<<spec.allow[key], value.fields[key]>>]
            ELSE Drop(UnknownKey)]
    BY <1>1, JsonParts, SpecParts
  <2>2. ProjectObject(g, spec.allow, value.fields) = ProjectObject(h, spec.allow, value.fields)
    BY <2>1 DEF ProjectObject
  <2> QED
    BY <1>1, <2>2 DEF OutcomeIf
<1>2. CASE spec.kind = "array" /\ value.kind = "array"
  <2>1. [n \in DOMAIN value.items |-> g[<<spec.items, value.items[n]>>]]
          = [n \in DOMAIN value.items |-> h[<<spec.items, value.items[n]>>]]
    BY <1>2, JsonParts, SpecParts
  <2>2. ProjectArray(g, spec.items, value.items) = ProjectArray(h, spec.items, value.items)
    BY <2>1 DEF ProjectArray
  <2> QED
    BY <1>2, <2>2 DEF OutcomeIf
<1>3. CASE /\ ~(spec.kind = "object" /\ value.kind = "object")
           /\ ~(spec.kind = "array" /\ value.kind = "array")
  BY <1>3 DEF OutcomeIf
<1> QED
  BY <1>1, <1>2, <1>3

\* So project_value, which calls itself on the parts, is what its code says.
LEMMA ProjectValueUnfolds ==
    \A spec \in Specs, value \in Json :
        ProjectValue[<<spec, value>>] = OutcomeIf(ProjectValue, <<spec, value>>)
<1> DEFINE S == Specs \X Json
           rank == [p \in S |-> Depth[p[2]]]
           Upto(g, n) == \A p \in S : rank[p] < n => g[p] = OutcomeIf(g, p)
           Reached == {n \in Nat : \E g : Upto(g, n)}
<1>1. \A p \in S : rank[p] \in Nat
  BY JsonParts
<1>2. ASSUME NEW p \in S, NEW g, NEW h, \A q \in S : rank[q] < rank[p] => g[q] = h[q]
      PROVE  OutcomeIf(g, p) = OutcomeIf(h, p)
  <2>1. PICK spec \in Specs, value \in Json : p = <<spec, value>>
    OBVIOUS
  <2>2. \A s \in Specs, v \in Json : Depth[v] < Depth[value] => g[<<s, v>>] = h[<<s, v>>]
    BY <1>2, <2>1
  <2> QED
    BY <2>1, <2>2, OutcomeIsLocal
<1> HIDE DEF S, rank
<1>3. 0 \in Reached
  <2>1. \A p \in S : ~(rank[p] < 0)
    BY <1>1
  <2> QED
    BY <2>1
<1>4. ASSUME NEW n \in Nat, n \in Reached PROVE n + 1 \in Reached
  <2>1. PICK g : Upto(g, n)
    BY <1>4
  <2> DEFINE next == [p \in S |-> IF rank[p] < n THEN g[p] ELSE OutcomeIf(g, p)]
  <2>2. ASSUME NEW p \in S, rank[p] < n + 1 PROVE next[p] = OutcomeIf(next, p)
    <3>1. \A q \in S : rank[q] < rank[p] => g[q] = next[q]
      BY <1>1, <2>2
    <3>2. next[p] = OutcomeIf(g, p)
      BY <2>1
    <3> HIDE DEF next
    <3>3. OutcomeIf(g, p) = OutcomeIf(next, p)
      BY <1>2, <3>1
    <3> QED
      BY <3>2, <3>3
  <2> HIDE DEF next
  <2>3. Upto(next, n + 1)
    BY <2>2
  <2> QED
    BY <2>3
<1>5. \A n \in Nat : n \in Reached
  <2> HIDE DEF Reached
  <2> QED
    BY <1>3, <1>4, Induction
<1>6. ASSUME NEW g, NEW h, NEW n \in Nat, Upto(g, n), Upto(h, n)
      PROVE  \A p \in S : rank[p] < n => g[p] = h[p]
  <2> DEFINE Same == {p \in S : rank[p] < n => g[p] = h[p]}
  <2>1. ASSUME NEW p \in S, \A q \in S : rank[q] < rank[p] => q \in Same PROVE p \in Same
    <3> SUFFICES ASSUME rank[p] < n PROVE g[p] = h[p]
      OBVIOUS
    <3>1. \A q \in S : rank[q] < rank[p] => g[q] = h[q]
      BY <1>1, <2>1
    <3>2. OutcomeIf(g, p) = OutcomeIf(h, p)
      BY <1>2, <3>1
    <3> QED
      BY <1>6, <3>2
  <2> HIDE DEF Same
  <2>2. S \subseteq Same
    BY <1>1, <2>1, RankInduction
  <2> QED
    BY <2>2 DEF Same
<1> DEFINE best(n) == CHOOSE g : Upto(g, n)
           f == [p \in S |-> best(rank[p] + 1)[p]]
<1>7. \A n \in Nat : Upto(best(n), n)
  BY <1>5
<1> HIDE DEF best, Upto, Reached
<1>8. ASSUME NEW p \in S PROVE f[p] = OutcomeIf(f, p)
  <2> DEFINE n == rank[p] + 1
             g == best(n)
  <2>1. n \in Nat /\ rank[p] < n
    BY <1>1
  <2>2. Upto(g, n)
    BY <1>7, <2>1
  <2>3. ASSUME NEW q \in S, rank[q] < rank[p] PROVE g[q] = f[q]
    <3> DEFINE m == rank[q] + 1
               h == best(m)
    <3>1. m \in Nat /\ m <= n /\ rank[q] < m
      BY <1>1, <2>3
    <3>2. Upto(h, m)
      BY <1>7, <3>1
    <3>3. f[q] = h[q]
      OBVIOUS
    <3> HIDE DEF g, h, m, n, f
    <3>4. Upto(g, m)
      <4>1. \A x \in S : rank[x] < m => rank[x] < n
        BY <1>1, <2>1, <3>1
      <4> QED
        BY <2>2, <4>1 DEF Upto
    <3>5. \A x \in S : rank[x] < m => g[x] = h[x]
      BY <1>6, <3>1, <3>2, <3>4
    <3> QED
      BY <3>1, <3>3, <3>5
  <2>4. f[p] = g[p]
    OBVIOUS
  <2> HIDE DEF g, n, f
  <2>5. OutcomeIf(g, p) = OutcomeIf(f, p)
    BY <1>2, <2>3
  <2> QED
    BY <2>1, <2>2, <2>4, <2>5 DEF Upto
<1>9. f = [p \in S |-> OutcomeIf(f, p)]
  <2>1. DOMAIN f = S /\ f = [p \in S |-> f[p]]
    OBVIOUS
  <2> HIDE DEF f
  <2> QED
    BY <1>8, <2>1
<1> HIDE DEF f
<1>10. ProjectValue = CHOOSE g : g = [p \in S |-> OutcomeIf(g, p)]
  BY DEF ProjectValue, OutcomeIf, S
<1>11. ProjectValue = [p \in S |-> OutcomeIf(ProjectValue, p)]
  BY <1>9, <1>10
<1>12. \A p \in S : ProjectValue[p] = OutcomeIf(ProjectValue, p)
  BY <1>11
<1> QED
  BY <1>12 DEF S

-----------------------------------------------------------------------------
(* The outcome of projecting a value. *)

\* A specification is an object, an array or a scalar, and only one of them.
LEMMA KindsDiffer ==
    ASSUME NEW spec \in Specs
    PROVE  /\ spec.kind = "object" \/ spec.kind = "array" \/ spec.kind \in ScalarTypes
           /\ spec.kind \in ScalarTypes => spec.kind # "object" /\ spec.kind # "array"
BY SpecParts DEF ScalarTypes

\* The cases of projecting a value.
LEMMA ObjectCase ==
    ASSUME NEW spec \in Specs, NEW value \in Json, spec.kind = "object", value.kind = "object"
    PROVE  ProjectValue[<<spec, value>>] = ProjectObject(ProjectValue, spec.allow, value.fields)
<1>1. ProjectValue[<<spec, value>>] = OutcomeIf(ProjectValue, <<spec, value>>)
  BY ProjectValueUnfolds
<1>2. OutcomeIf(ProjectValue, <<spec, value>>)
        = ProjectObject(ProjectValue, spec.allow, value.fields)
  <2>1. spec.kind \notin ScalarTypes
    BY KindsDiffer
  <2> QED
    BY <2>1 DEF OutcomeIf
<1> QED
  BY <1>1, <1>2

\* project_value of an array under an array specification is project_array.
LEMMA ArrayCase ==
    ASSUME NEW spec \in Specs, NEW value \in Json, spec.kind = "array", value.kind = "array"
    PROVE  ProjectValue[<<spec, value>>] = ProjectArray(ProjectValue, spec.items, value.items)
<1>1. ProjectValue[<<spec, value>>] = OutcomeIf(ProjectValue, <<spec, value>>)
  BY ProjectValueUnfolds
<1>2. OutcomeIf(ProjectValue, <<spec, value>>)
        = ProjectArray(ProjectValue, spec.items, value.items)
  <2>1. spec.kind \notin ScalarTypes
    BY KindsDiffer
  <2> QED
    BY <2>1 DEF OutcomeIf
<1> QED
  BY <1>1, <1>2

\* A scalar specification keeps a value it accepts and drops any other whole.
LEMMA ScalarCase ==
    ASSUME NEW spec \in Specs, NEW value \in Json, spec.kind \in ScalarTypes
    PROVE  ProjectValue[<<spec, value>>]
             = IF Accepts(spec.kind, value) THEN Keep(value) ELSE Drop(TypeMismatch(spec, value))
<1>1. ProjectValue[<<spec, value>>] = OutcomeIf(ProjectValue, <<spec, value>>)
  BY ProjectValueUnfolds
<1>2. spec.kind # "object" /\ spec.kind # "array"
  BY KindsDiffer
<1>3. OutcomeIf(ProjectValue, <<spec, value>>)
        = IF Accepts(spec.kind, value) THEN Keep(value) ELSE Drop(TypeMismatch(spec, value))
  BY <1>2 DEF OutcomeIf
<1> QED
  BY <1>1, <1>3

\* An object or array specification drops whole what is not an object or an array.
LEMMA MisfitCase ==
    ASSUME NEW spec \in Specs, NEW value \in Json, spec.kind \in {"object", "array"},
           value.kind # spec.kind
    PROVE  ProjectValue[<<spec, value>>] = Drop(TypeMismatch(spec, value))
<1>1. ProjectValue[<<spec, value>>] = OutcomeIf(ProjectValue, <<spec, value>>)
  BY ProjectValueUnfolds
<1>2. spec.kind \notin ScalarTypes
  BY KindsDiffer
<1>3. OutcomeIf(ProjectValue, <<spec, value>>) = Drop(TypeMismatch(spec, value))
  BY <1>2 DEF OutcomeIf
<1> QED
  BY <1>1, <1>3

\* The values kept of an array, item by item.
KeptItems(spec, value) ==
    [n \in DOMAIN value.items |-> ProjectValue[<<spec.items, value.items[n]>>].kept]

ObjectOutcomes(spec, value) ==
    [key \in DOMAIN value.fields |->
        IF key \in DOMAIN spec.allow THEN ProjectValue[<<spec.allow[key], value.fields[key]>>]
                                     ELSE Drop(UnknownKey)]

ArrayOutcomes(spec, value) ==
    [n \in DOMAIN value.items |-> ProjectValue[<<spec.items, value.items[n]>>]]

\* What project_object keeps and drops is collected from its fields.
LEMMA ObjectOutcome ==
    ASSUME NEW spec \in Specs, NEW value \in Json, spec.kind = "object", value.kind = "object"
    PROVE  /\ ProjectValue[<<spec, value>>].kept = <<Released(ObjectOutcomes(spec, value))>>
           /\ ProjectValue[<<spec, value>>].dropped = AllDropped(ObjectOutcomes(spec, value))
<1>1. ProjectValue[<<spec, value>>] = ProjectObject(ProjectValue, spec.allow, value.fields)
  BY ObjectCase
<1>2. ProjectObject(ProjectValue, spec.allow, value.fields)
        = [kept |-> <<Released(ObjectOutcomes(spec, value))>>,
           dropped |-> AllDropped(ObjectOutcomes(spec, value))]
  BY DEF ProjectObject, ObjectOutcomes
<1> QED
  BY <1>1, <1>2

\* What project_array keeps and drops is collected from its items, in their order.
LEMMA ArrayKept ==
    ASSUME NEW spec \in Specs, NEW value \in Json, spec.kind = "array", value.kind = "array"
    PROVE  /\ ProjectValue[<<spec, value>>].kept = <<Array(FlattenSeq(KeptItems(spec, value)))>>
           /\ ProjectValue[<<spec, value>>].dropped = AllDropped(ArrayOutcomes(spec, value))
<1>1. ProjectValue[<<spec, value>>] = ProjectArray(ProjectValue, spec.items, value.items)
  BY ArrayCase
<1>2. [n \in DOMAIN value.items |-> ArrayOutcomes(spec, value)[n].kept] = KeptItems(spec, value)
  BY DEF KeptItems, ArrayOutcomes
<1>3. ProjectArray(ProjectValue, spec.items, value.items)
        = [kept |-> <<Array(FlattenSeq([n \in DOMAIN value.items |->
                                          ArrayOutcomes(spec, value)[n].kept]))>>,
           dropped |-> AllDropped(ArrayOutcomes(spec, value))]
  BY DEF ProjectArray, ArrayOutcomes
<1> QED
  BY <1>1, <1>2, <1>3

\* What is kept of a value is a JSON value, or nothing is.
LEMMA KeptIsOptional ==
    ASSUME NEW spec \in Specs, NEW value \in Json
    PROVE  /\ ProjectValue[<<spec, value>>].kept \in Seq(Json)
           /\ \/ ProjectValue[<<spec, value>>].kept = << >>
              \/ \E v \in Json : ProjectValue[<<spec, value>>].kept = <<v>>
<1> DEFINE out == ProjectValue[<<spec, value>>]
<1>1. out.kept \in Seq(Json)
  BY ProjectionAssumption
<1>2. out.kept = << >> \/ \E v : out.kept = <<v>>
  <2>1. CASE spec.kind = "object" /\ value.kind = "object"
    <3>1. out.kept = <<Released(ObjectOutcomes(spec, value))>>
      BY <2>1, ObjectOutcome
    <3> HIDE DEF out
    <3> QED
      BY <3>1
  <2>2. CASE spec.kind = "array" /\ value.kind = "array"
    <3>1. out.kept = <<Array(FlattenSeq(KeptItems(spec, value)))>>
      BY <2>2, ArrayKept
    <3> HIDE DEF out
    <3> QED
      BY <3>1
  <2>3. CASE spec.kind \in ScalarTypes
    <3>1. out = Keep(value) \/ out = Drop(TypeMismatch(spec, value))
      BY <2>3, ScalarCase
    <3> QED
      BY <3>1 DEF Keep, Drop
  <2>4. CASE spec.kind \in {"object", "array"} /\ value.kind # spec.kind
    <3>1. out = Drop(TypeMismatch(spec, value))
      BY <2>4, MisfitCase
    <3> QED
      BY <3>1 DEF Drop
  <2> HIDE DEF out
  <2> QED
    BY <2>1, <2>2, <2>3, <2>4, KindsDiffer
<1> HIDE DEF out
<1>3. ASSUME NEW v, out.kept = <<v>> PROVE v \in Json
  BY <1>1, <1>3
<1> QED
  BY <1>1, <1>2, <1>3 DEF out

\* The items of an array each have an outcome with one kept value or none.
LEMMA ArrayItems ==
    ASSUME NEW spec \in Specs, NEW value \in Json, spec.kind = "array", value.kind = "array"
    PROVE  /\ Optionals(KeptItems(spec, value), Json)
           /\ value.items \in Seq(Json) /\ spec.items \in Specs
           /\ DOMAIN value.items = 1 .. Len(value.items)
           /\ Len(KeptItems(spec, value)) = Len(value.items) /\ Len(value.items) \in Nat
<1> DEFINE items == value.items
           s == KeptItems(spec, value)
<1>1. items \in Seq(Json) /\ spec.items \in Specs
  BY JsonAssumption, SpecParts
<1>2. /\ DOMAIN items = 1 .. Len(items) /\ Len(items) \in Nat
      /\ \A n \in DOMAIN items : items[n] \in Json
  BY <1>1
<1>3. \A n \in DOMAIN items : /\ s[n] \in Seq(Json)
                              /\ s[n] = << >> \/ \E v \in Json : s[n] = <<v>>
  BY <1>1, <1>2, KeptIsOptional DEF KeptItems
<1>4. DOMAIN s = DOMAIN items /\ s = [n \in DOMAIN items |-> s[n]]
  BY DEF KeptItems
<1> HIDE DEF s, items
<1>5. s \in Seq(Seq(Json)) /\ Len(s) = Len(items)
  BY <1>2, <1>3, <1>4
<1>6. Optionals(s, Json)
  BY <1>2, <1>3, <1>5 DEF Optionals
<1> QED
  BY <1>1, <1>2, <1>5, <1>6 DEF s, items

-----------------------------------------------------------------------------
(* What is kept is released. *)

\* Whatever project_value keeps, its specification releases at every depth: nothing
\* that was not allowed gets through, however deep it is nested.
LEMMA KeptIsReleased ==
    \A value \in Json : \A spec \in Specs : \A v \in Json :
        ProjectValue[<<spec, value>>].kept = <<v>> => Releases[<<spec, v>>]
<1> DEFINE Good == {value \in Json : \A spec \in Specs : \A v \in Json :
                      ProjectValue[<<spec, value>>].kept = <<v>> => Releases[<<spec, v>>]}
<1>1. ASSUME NEW value \in Json, \A w \in Json : Depth[w] < Depth[value] => w \in Good
      PROVE  value \in Good
  <2> SUFFICES ASSUME NEW spec \in Specs, NEW v \in Json, ProjectValue[<<spec, value>>].kept = <<v>>
               PROVE  Releases[<<spec, v>>]
    OBVIOUS
  <2>1. \A w \in Json : Depth[w] < Depth[value] =>
          \A sp \in Specs : \A x \in Json :
            ProjectValue[<<sp, w>>].kept = <<x>> => Releases[<<sp, x>>]
    BY <1>1
  <2>2. Releases[<<spec, v>>] = ReleasesIf(Releases, <<spec, v>>)
    BY ReleasesUnfolds
  <2> HIDE DEF Good
  <2>3. CASE spec.kind = "object"
    <3>1. value.kind = "object"
      <4>1. SUFFICES ASSUME value.kind # "object" PROVE FALSE
        OBVIOUS
      <4>2. ProjectValue[<<spec, value>>] = Drop(TypeMismatch(spec, value))
        BY <2>3, <4>1, MisfitCase
      <4> QED
        BY <4>2 DEF Drop
    <3> DEFINE outs == ObjectOutcomes(spec, value)
    <3>2. v = Released(outs)
      <4>1. ProjectValue[<<spec, value>>].kept = <<Released(outs)>>
        BY <2>3, <3>1, ObjectOutcome
      <4> HIDE DEF outs
      <4> QED
        BY <4>1
    <3>3. /\ v.kind = "object"
          /\ DOMAIN v.fields = {k \in DOMAIN outs : outs[k].kept # << >>}
          /\ \A key \in DOMAIN v.fields : v.fields[key] = Head(outs[key].kept)
      BY <3>2 DEF Released, Object
    <3>4. ASSUME NEW key \in DOMAIN v.fields
          PROVE  key \in DOMAIN spec.allow /\ Releases[<<spec.allow[key], v.fields[key]>>]
      <4>1. key \in DOMAIN value.fields /\ outs[key].kept # << >>
        BY <3>3 DEF ObjectOutcomes
      <4>2. key \in DOMAIN spec.allow
        BY <4>1 DEF ObjectOutcomes, Drop
      <4>3. outs[key] = ProjectValue[<<spec.allow[key], value.fields[key]>>]
        BY <4>1, <4>2 DEF ObjectOutcomes
      <4>4. /\ spec.allow[key] \in Specs /\ value.fields[key] \in Json
            /\ Depth[value.fields[key]] < Depth[value]
        BY <2>3, <3>1, <4>1, <4>2, JsonParts, SpecParts
      <4>5. PICK x \in Json : outs[key].kept = <<x>>
        BY <4>1, <4>3, <4>4, KeptIsOptional
      <4>6. v.fields[key] = x
        BY <3>3, <4>5
      <4> HIDE DEF outs
      <4> QED
        BY <2>1, <4>2, <4>3, <4>4, <4>5, <4>6
    <3> HIDE DEF outs
    <3> QED
      BY <2>2, <2>3, <3>3, <3>4 DEF ReleasesIf
  <2>4. CASE spec.kind = "array"
    <3>1. value.kind = "array"
      <4>1. SUFFICES ASSUME value.kind # "array" PROVE FALSE
        OBVIOUS
      <4>2. ProjectValue[<<spec, value>>] = Drop(TypeMismatch(spec, value))
        BY <2>4, <4>1, MisfitCase
      <4> QED
        BY <4>2 DEF Drop
    <3> DEFINE s == KeptItems(spec, value)
               r == FlattenSeq(s)
               There == {i \in 1 .. Len(s) : s[i] # << >>}
    <3>2. v = Array(r) /\ Optionals(s, Json) /\ spec.items \in Specs
          /\ DOMAIN value.items = 1 .. Len(s)
      <4>1. /\ ProjectValue[<<spec, value>>].kept = <<Array(r)>>
            /\ Optionals(s, Json) /\ spec.items \in Specs /\ DOMAIN value.items = 1 .. Len(s)
        BY <2>4, <3>1, ArrayKept, ArrayItems
      <4> HIDE DEF s, r
      <4> QED
        BY <4>1
    <3>3. /\ r \in Seq(Json)
          /\ \E pos \in [There -> 1 .. Len(r)] :
               /\ \A i \in There : s[i] = <<r[pos[i]]>>
               /\ \A i, k \in There : pos[i] = pos[k] => i = k
               /\ {pos[i] : i \in There} = 1 .. Len(r)
      <4> HIDE DEF s
      <4> QED
        BY <3>2, Positions
    <3>4. ASSUME NEW n \in DOMAIN r PROVE Releases[<<spec.items, r[n]>>]
      <4>1. n \in 1 .. Len(r) /\ r[n] \in Json
        BY <3>3
      <4>2. PICK i \in There : s[i] = <<r[n]>>
        <5> HIDE DEF r, There
        <5> QED
          BY <3>3, <4>1
      <4>3. i \in DOMAIN value.items /\ s[i] = ProjectValue[<<spec.items, value.items[i]>>].kept
        BY <3>2 DEF KeptItems
      <4>4. value.items[i] \in Json /\ Depth[value.items[i]] < Depth[value]
        BY <3>1, <4>3, JsonParts
      <4> HIDE DEF r, s
      <4> QED
        BY <2>1, <3>2, <4>1, <4>2, <4>3, <4>4
    <3>5. v.kind = "array" /\ v.items = r
      BY <3>2 DEF Array
    <3> HIDE DEF r
    <3> QED
      BY <2>2, <2>4, <3>4, <3>5 DEF ReleasesIf
  <2>5. CASE spec.kind \in ScalarTypes
    <3>1. Accepts(spec.kind, value) /\ v = value
      <4>1. ProjectValue[<<spec, value>>] = IF Accepts(spec.kind, value) THEN Keep(value)
                                              ELSE Drop(TypeMismatch(spec, value))
        BY <2>5, ScalarCase
      <4> QED
        BY <4>1 DEF Keep, Drop
    <3>2. spec.kind # "object" /\ spec.kind # "array"
      BY <2>5 DEF ScalarTypes
    <3>3. Releases[<<spec, v>>] = Accepts(spec.kind, v)
      BY <2>2, <3>2 DEF ReleasesIf
    <3> QED
      BY <3>1, <3>3
  <2> QED
    BY <2>3, <2>4, <2>5, KindsDiffer
<1> HIDE DEF Good
<1>2. \A value \in Json : Depth[value] \in Nat
  BY JsonParts
<1>3. Json \subseteq Good
  BY <1>1, <1>2, RankInduction
<1> QED
  BY <1>3 DEF Good
-----------------------------------------------------------------------------
(* What is released is kept whole. *)

\* If no part drops anything, nothing is dropped.
LEMMA NothingDropped ==
    ASSUME NEW outs, \A step \in DOMAIN outs : outs[step].dropped = {}
    PROVE  AllDropped(outs) = {}
BY DEF AllDropped, Under

\* A value that its specification releases is kept whole, with no drop.
LEMMA ReleasedIsKept ==
    \A value \in Json : \A spec \in Specs :
        Releases[<<spec, value>>] => ProjectValue[<<spec, value>>] = Keep(value)
<1> DEFINE Good == {value \in Json : \A spec \in Specs :
                      Releases[<<spec, value>>] => ProjectValue[<<spec, value>>] = Keep(value)}
<1>1. ASSUME NEW value \in Json, \A w \in Json : Depth[w] < Depth[value] => w \in Good
      PROVE  value \in Good
  <2> SUFFICES ASSUME NEW spec \in Specs, Releases[<<spec, value>>]
               PROVE  ProjectValue[<<spec, value>>] = Keep(value)
    OBVIOUS
  <2>1. \A w \in Json : Depth[w] < Depth[value] =>
          \A sp \in Specs : Releases[<<sp, w>>] => ProjectValue[<<sp, w>>] = Keep(w)
    BY <1>1
  <2>2. ReleasesIf(Releases, <<spec, value>>)
    BY ReleasesUnfolds
  <2> HIDE DEF Good
  <2>3. CASE spec.kind = "object"
    <3>1. /\ value.kind = "object"
          /\ \A key \in DOMAIN value.fields :
               key \in DOMAIN spec.allow /\ Releases[<<spec.allow[key], value.fields[key]>>]
      BY <2>2, <2>3 DEF ReleasesIf
    <3> DEFINE outs == ObjectOutcomes(spec, value)
    <3>2. ASSUME NEW key \in DOMAIN value.fields
          PROVE  outs[key].kept = <<value.fields[key]>> /\ outs[key].dropped = {}
      <4>1. /\ spec.allow[key] \in Specs /\ value.fields[key] \in Json
            /\ Depth[value.fields[key]] < Depth[value]
        BY <2>3, <3>1, JsonParts, SpecParts
      <4>2. outs[key] = ProjectValue[<<spec.allow[key], value.fields[key]>>]
        BY <3>1 DEF ObjectOutcomes
      <4> HIDE DEF outs
      <4>3. outs[key] = Keep(value.fields[key])
        BY <2>1, <3>1, <4>1, <4>2
      <4> QED
        BY <4>3 DEF Keep
    <3>3. DOMAIN outs = DOMAIN value.fields
      BY DEF ObjectOutcomes
    <3>4. ProjectValue[<<spec, value>>]
            \in [kept : {<<Released(outs)>>}, dropped : {AllDropped(outs)}]
      <4>1. ProjectValue[<<spec, value>>] = ProjectObject(ProjectValue, spec.allow, value.fields)
        BY <2>3, <3>1, ObjectCase
      <4> QED
        BY <4>1 DEF ProjectObject, ObjectOutcomes
    <3> HIDE DEF outs
    <3>5. AllDropped(outs) = {}
      BY <3>2, <3>3, NothingDropped
    <3>6. Released(outs) = value
      <4>1. {k \in DOMAIN outs : outs[k].kept # << >>} = DOMAIN value.fields
        BY <3>2, <3>3
      <4>2. \A key \in DOMAIN value.fields : Head(outs[key].kept) = value.fields[key]
        BY <3>2
      <4>3. value = Object([key \in DOMAIN value.fields |-> value.fields[key]])
        BY <3>1, JsonAssumption
      <4>4. [key \in {k \in DOMAIN outs : outs[k].kept # << >>} |-> Head(outs[key].kept)]
              = [key \in DOMAIN value.fields |-> value.fields[key]]
        BY <4>1, <4>2
      <4> QED
        BY <4>3, <4>4 DEF Released
    <3> QED
      BY <3>4, <3>5, <3>6 DEF Keep
  <2>4. CASE spec.kind = "array"
    <3>1. /\ value.kind = "array"
          /\ \A n \in DOMAIN value.items : Releases[<<spec.items, value.items[n]>>]
      BY <2>2, <2>4 DEF ReleasesIf
    <3>2. /\ value.items \in Seq(Json) /\ spec.items \in Specs
          /\ DOMAIN value.items = 1 .. Len(value.items)
      BY <2>4, <3>1, ArrayItems
    <3>3. ASSUME NEW n \in DOMAIN value.items
          PROVE  /\ ProjectValue[<<spec.items, value.items[n]>>].kept = <<value.items[n]>>
                 /\ ProjectValue[<<spec.items, value.items[n]>>].dropped = {}
      <4>1. value.items[n] \in Json /\ Depth[value.items[n]] < Depth[value]
        BY <3>1, JsonParts
      <4>2. ProjectValue[<<spec.items, value.items[n]>>] = Keep(value.items[n])
        BY <2>1, <3>1, <3>2, <4>1
      <4> QED
        BY <4>2 DEF Keep
    <3>4. KeptItems(spec, value) = [n \in 1 .. Len(value.items) |-> <<value.items[n]>>]
      BY <3>2, <3>3 DEF KeptItems
    <3>5. FlattenSeq(KeptItems(spec, value)) = value.items
      BY <3>2, <3>4, FlattenSingles
    <3>6. AllDropped(ArrayOutcomes(spec, value)) = {}
      <4>1. \A n \in DOMAIN ArrayOutcomes(spec, value) : ArrayOutcomes(spec, value)[n].dropped = {}
        BY <3>3 DEF ArrayOutcomes
      <4> QED
        BY <4>1, NothingDropped
    <3>7. value = Array(value.items)
      BY <3>1, JsonAssumption
    <3> DEFINE s == KeptItems(spec, value)
               d == AllDropped(ArrayOutcomes(spec, value))
    <3>8. ProjectValue[<<spec, value>>] = [kept |-> <<Array(FlattenSeq(s))>>, dropped |-> d]
      <4>1. ProjectValue[<<spec, value>>] = ProjectArray(ProjectValue, spec.items, value.items)
        BY <2>4, <3>1, ArrayCase
      <4>2. [n \in DOMAIN value.items |-> ArrayOutcomes(spec, value)[n].kept] = s
        BY DEF KeptItems, ArrayOutcomes
      <4>3. ProjectArray(ProjectValue, spec.items, value.items)
              = [kept |-> <<Array(FlattenSeq([n \in DOMAIN value.items |->
                                                ArrayOutcomes(spec, value)[n].kept]))>>,
                 dropped |-> AllDropped(ArrayOutcomes(spec, value))]
        BY DEF ProjectArray, ArrayOutcomes
      <4> HIDE DEF s
      <4> QED
        BY <4>1, <4>2, <4>3
    <3>9. FlattenSeq(s) = value.items /\ d = {}
      BY <3>5, <3>6
    <3> HIDE DEF s, d
    <3> QED
      BY <3>7, <3>8, <3>9 DEF Keep
  <2>5. CASE spec.kind \in ScalarTypes
    <3>1. spec.kind # "object" /\ spec.kind # "array"
      BY <2>5 DEF ScalarTypes
    <3>2. Accepts(spec.kind, value)
      BY <2>2, <3>1 DEF ReleasesIf
    <3> QED
      BY <2>5, <3>2, ScalarCase
  <2> QED
    BY <2>3, <2>4, <2>5, KindsDiffer
<1> HIDE DEF Good
<1>2. \A value \in Json : Depth[value] \in Nat
  BY JsonParts
<1>3. Json \subseteq Good
  BY <1>1, <1>2, RankInduction
<1> QED
  BY <1>3 DEF Good
-----------------------------------------------------------------------------
(* Projecting what a wider specification left is projecting the original. *)

\* What a specification leaves of a value, a narrower one treats as it does the value.
SameFor(value, spec, wide) ==
    LET left == ProjectValue[<<wide, value>>].kept
        direct == ProjectValue[<<spec, value>>].kept
    IN  /\ left = << >> => direct = << >>
        /\ left # << >> => ProjectValue[<<spec, Head(left)>>].kept = direct

\* What a scalar specification keeps.
LEMMA ScalarKept ==
    ASSUME NEW spec \in Specs, NEW value \in Json, spec.kind \in ScalarTypes
    PROVE  ProjectValue[<<spec, value>>].kept
             = IF Accepts(spec.kind, value) THEN <<value>> ELSE << >>
<1>1. ProjectValue[<<spec, value>>]
        = IF Accepts(spec.kind, value) THEN Keep(value) ELSE Drop(TypeMismatch(spec, value))
  BY ScalarCase
<1> QED
  BY <1>1 DEF Keep, Drop

\* An object or array specification keeps nothing of another kind of value.
LEMMA MisfitKept ==
    ASSUME NEW spec \in Specs, NEW value \in Json, spec.kind \in {"object", "array"},
           value.kind # spec.kind
    PROVE  ProjectValue[<<spec, value>>].kept = << >>
<1>1. ProjectValue[<<spec, value>>] = Drop(TypeMismatch(spec, value))
  BY MisfitCase
<1> QED
  BY <1>1 DEF Drop

\* If projecting each field twice is the same as once, so it is for the object.
LEMMA ObjectsSame ==
    ASSUME NEW value \in Json, NEW spec \in Specs, NEW wide \in Specs,
           spec.kind = "object", wide.kind = "object", value.kind = "object",
           \A key \in DOMAIN spec.allow : key \in DOMAIN wide.allow,
           \A key \in DOMAIN value.fields : key \in DOMAIN spec.allow =>
              SameFor(value.fields[key], spec.allow[key], wide.allow[key])
    PROVE  SameFor(value, spec, wide)
<1> DEFINE outs == ObjectOutcomes(wide, value)
           v == Released(outs)
           direct == ObjectOutcomes(spec, value)
           again == ObjectOutcomes(spec, v)
<1>1. /\ ProjectValue[<<wide, value>>].kept = <<v>>
      /\ ProjectValue[<<spec, value>>].kept = <<Released(direct)>>
  BY ObjectOutcome
<1>2. v \in Json
  <2>1. ProjectValue[<<wide, value>>].kept \in Seq(Json)
    BY KeptIsOptional
  <2> HIDE DEF v
  <2> QED
    BY <1>1, <2>1
<1>3. /\ v.kind = "object"
      /\ DOMAIN v.fields = {k \in DOMAIN value.fields : outs[k].kept # << >>}
      /\ \A key \in DOMAIN v.fields : v.fields[key] = Head(outs[key].kept)
  BY DEF Released, Object, ObjectOutcomes
<1>4. ProjectValue[<<spec, v>>].kept = <<Released(again)>>
  BY <1>2, <1>3, ObjectOutcome
<1>5. DOMAIN again = DOMAIN v.fields /\ DOMAIN direct = DOMAIN value.fields
  BY DEF ObjectOutcomes
<1>6. ASSUME NEW key \in DOMAIN value.fields
      PROVE  /\ key \in DOMAIN v.fields => again[key].kept = direct[key].kept
             /\ key \notin DOMAIN v.fields => direct[key].kept = << >>
  <2>1. CASE key \notin DOMAIN spec.allow
    <3>1. direct[key].kept = << >>
      BY <2>1 DEF ObjectOutcomes, Drop
    <3>2. key \in DOMAIN v.fields => again[key].kept = << >>
      BY <2>1 DEF ObjectOutcomes, Drop
    <3> QED
      BY <3>1, <3>2
  <2>2. CASE key \in DOMAIN spec.allow
    <3>1. /\ outs[key] = ProjectValue[<<wide.allow[key], value.fields[key]>>]
          /\ direct[key] = ProjectValue[<<spec.allow[key], value.fields[key]>>]
          /\ key \in DOMAIN v.fields =>
               again[key] = ProjectValue[<<spec.allow[key], v.fields[key]>>]
      BY <2>2 DEF ObjectOutcomes
    <3>2. SameFor(value.fields[key], spec.allow[key], wide.allow[key])
      BY <2>2
    <3> HIDE DEF outs, v, direct, again
    <3> QED
      BY <1>3, <3>1, <3>2 DEF SameFor
  <2> QED
    BY <2>1, <2>2
<1> HIDE DEF outs, v, direct, again
<1>7. {k \in DOMAIN again : again[k].kept # << >>} = {k \in DOMAIN direct : direct[k].kept # << >>}
  BY <1>3, <1>5, <1>6
<1>8. [key \in {k \in DOMAIN again : again[k].kept # << >>} |-> Head(again[key].kept)]
        = [key \in {k \in DOMAIN direct : direct[k].kept # << >>} |-> Head(direct[key].kept)]
  <2>1. \A key \in {k \in DOMAIN direct : direct[k].kept # << >>} :
           Head(again[key].kept) = Head(direct[key].kept)
    BY <1>3, <1>5, <1>6
  <2> QED
    BY <1>7, <2>1
<1>9. Released(again) = Released(direct)
  BY <1>8 DEF Released
<1> QED
  BY <1>1, <1>4, <1>9 DEF SameFor

\* If projecting each item twice is the same as once, so it is for the array.
LEMMA ArraysSame ==
    ASSUME NEW value \in Json, NEW spec \in Specs, NEW wide \in Specs,
           spec.kind = "array", wide.kind = "array", value.kind = "array",
           \A n \in DOMAIN value.items : SameFor(value.items[n], spec.items, wide.items)
    PROVE  SameFor(value, spec, wide)
<1> DEFINE s == KeptItems(wide, value)
           r == FlattenSeq(s)
           v == Array(r)
           b == [w \in Json |-> ProjectValue[<<spec.items, w>>].kept]
           N == Len(s)
           t == MappedOptionals(s, b)
           u == Mapped(r, b)
<1>1. ProjectValue[<<wide, value>>].kept = <<v>>
      /\ ProjectValue[<<spec, value>>].kept = <<Array(FlattenSeq(KeptItems(spec, value)))>>
  BY ArrayKept
<1>2. /\ Optionals(s, Json) /\ spec.items \in Specs /\ wide.items \in Specs
      /\ value.items \in Seq(Json) /\ DOMAIN value.items = 1 .. N
  BY ArrayItems
<1>3. v \in Json
  <2>1. ProjectValue[<<wide, value>>].kept \in Seq(Json)
    BY KeptIsOptional
  <2> HIDE DEF v
  <2> QED
    BY <1>1, <2>1
<1>4. v.kind = "array" /\ v.items = r
  BY DEF Array
<1>5. ProjectValue[<<spec, v>>].kept = <<Array(FlattenSeq(KeptItems(spec, v)))>>
  BY <1>3, <1>4, ArrayKept
<1>6. r \in Seq(Json) /\ DOMAIN r = 1 .. Len(r)
  <2>1. r \in Seq(Json)
    BY <1>3, <1>4, JsonAssumption
  <2> HIDE DEF r
  <2> QED
    BY <2>1
<1>7. GivesOptionals(b, Json, Json)
  BY <1>2, KeptIsOptional DEF GivesOptionals
<1>8. FlattenSeq(u) = FlattenSeq(t)
  <2> HIDE DEF b, s
  <2> QED
    BY <1>2, <1>7, FlattenOfFlatten
<1>9. KeptItems(spec, v) = u
  <2>1. \A j \in 1 .. Len(r) : r[j] \in Json
    BY <1>6
  <2>2. \A j \in 1 .. Len(r) : b[r[j]] = ProjectValue[<<spec.items, r[j]>>].kept
    BY <2>1
  <2> HIDE DEF r, b, v
  <2> QED
    BY <1>4, <1>6, <2>2 DEF KeptItems, Mapped
<1>10. ASSUME NEW i \in 1 .. N PROVE t[i] = ProjectValue[<<spec.items, value.items[i]>>].kept
  <2>1. /\ SameFor(value.items[i], spec.items, wide.items)
        /\ s[i] = ProjectValue[<<wide.items, value.items[i]>>].kept
    BY <1>2 DEF KeptItems
  <2>2. t[i] = IF s[i] = << >> THEN << >> ELSE b[Head(s[i])]
    BY DEF MappedOptionals
  <2>3. s[i] # << >> => Head(s[i]) \in Json
    BY <1>2 DEF Optionals
  <2>4. s[i] # << >> => b[Head(s[i])] = ProjectValue[<<spec.items, Head(s[i])>>].kept
    BY <2>3
  <2> HIDE DEF t, b, s
  <2> QED
    BY <2>1, <2>2, <2>4 DEF SameFor
<1>11. KeptItems(spec, value) = t
  <2>1. DOMAIN t = 1 .. N /\ t = [i \in 1 .. N |-> t[i]]
    BY DEF MappedOptionals
  <2> HIDE DEF t, N
  <2> QED
    BY <1>2, <1>10, <2>1 DEF KeptItems
<1> HIDE DEF s, r, v, b, t, u
<1> QED
  BY <1>1, <1>5, <1>8, <1>9, <1>11 DEF SameFor

\* Projecting under a wide specification and then under a narrower one is projecting
\* under the narrower one at once: what is stored is enough to withdraw a field.
THEOREM ReprojectionIsDirect ==
    \A value \in Json : \A spec, wide \in Specs :
        Narrower[<<spec, wide>>] => SameFor(value, spec, wide)
<1> DEFINE Good == {value \in Json : \A spec, wide \in Specs :
                      Narrower[<<spec, wide>>] => SameFor(value, spec, wide)}
<1>1. ASSUME NEW value \in Json, \A w \in Json : Depth[w] < Depth[value] => w \in Good
      PROVE  value \in Good
  <2> SUFFICES ASSUME NEW spec \in Specs, NEW wide \in Specs, Narrower[<<spec, wide>>]
               PROVE  SameFor(value, spec, wide)
    OBVIOUS
  <2>1. \A w \in Json : Depth[w] < Depth[value] =>
          \A s, t \in Specs : Narrower[<<s, t>>] => SameFor(w, s, t)
    BY <1>1
  <2>2. NarrowerIf(Narrower, <<spec, wide>>)
    BY NarrowerUnfolds
  <2> HIDE DEF Good
  <2>3. CASE spec.kind = "object"
    <3>1. /\ wide.kind = "object"
          /\ \A key \in DOMAIN spec.allow :
               key \in DOMAIN wide.allow /\ Narrower[<<spec.allow[key], wide.allow[key]>>]
      BY <2>2, <2>3 DEF NarrowerIf
    <3>2. CASE value.kind = "object"
      <4>1. ASSUME NEW key \in DOMAIN value.fields, key \in DOMAIN spec.allow
            PROVE  SameFor(value.fields[key], spec.allow[key], wide.allow[key])
        <5>1. /\ spec.allow[key] \in Specs /\ wide.allow[key] \in Specs
              /\ value.fields[key] \in Json /\ Depth[value.fields[key]] < Depth[value]
          BY <2>3, <3>1, <3>2, <4>1, JsonParts, SpecParts
        <5> QED
          BY <2>1, <3>1, <4>1, <5>1
      <4> QED
        BY <2>3, <3>1, <3>2, <4>1, ObjectsSame
    <3>3. CASE value.kind # "object"
      BY <2>3, <3>1, <3>3, MisfitKept DEF SameFor
    <3> QED
      BY <3>2, <3>3
  <2>4. CASE spec.kind = "array"
    <3>1. wide.kind = "array" /\ Narrower[<<spec.items, wide.items>>]
      BY <2>2, <2>4 DEF NarrowerIf
    <3>2. CASE value.kind = "array"
      <4>1. ASSUME NEW n \in DOMAIN value.items
            PROVE  SameFor(value.items[n], spec.items, wide.items)
        <5>1. /\ spec.items \in Specs /\ wide.items \in Specs
              /\ value.items[n] \in Json /\ Depth[value.items[n]] < Depth[value]
          BY <2>4, <3>1, <3>2, <4>1, JsonParts, SpecParts
        <5> QED
          BY <2>1, <3>1, <5>1
      <4> QED
        BY <2>4, <3>1, <3>2, <4>1, ArraysSame
    <3>3. CASE value.kind # "array"
      BY <2>4, <3>1, <3>3, MisfitKept DEF SameFor
    <3> QED
      BY <3>2, <3>3
  <2>5. CASE spec.kind \in ScalarTypes
    <3>1. wide.kind \in {spec.kind, "scalar"}
      BY <2>2, <2>5 DEF NarrowerIf, ScalarTypes
    <3>2. wide.kind \in ScalarTypes
      BY <2>5, <3>1 DEF ScalarTypes
    <3>3. CASE Accepts(wide.kind, value)
      <4>1. ProjectValue[<<wide, value>>].kept = <<value>>
        BY <3>2, <3>3, ScalarKept
      <4> QED
        BY <4>1 DEF SameFor
    <3>4. CASE ~Accepts(wide.kind, value)
      <4>1. ~Accepts(spec.kind, value)
        BY <2>5, <3>1, <3>4 DEF Accepts, ScalarTypes, Composite
      <4>2. ProjectValue[<<wide, value>>].kept = << >> /\ ProjectValue[<<spec, value>>].kept = << >>
        BY <2>5, <3>2, <3>4, <4>1, ScalarKept
      <4> QED
        BY <4>2 DEF SameFor
    <3> QED
      BY <3>3, <3>4
  <2> QED
    BY <2>3, <2>4, <2>5, KindsDiffer
<1> HIDE DEF Good
<1>2. \A value \in Json : Depth[value] \in Nat
  BY JsonParts
<1>3. Json \subseteq Good
  BY <1>1, <1>2, RankInduction
<1> QED
  BY <1>3 DEF Good

-----------------------------------------------------------------------------
(* Folding a sequence goes through its elements in order. *)

\* The largest of 1 .. i is i.
LEMMA MaxOfInterval ==
    ASSUME NEW i \in Nat, i # 0
    PROVE  Max(1 .. i) = i
<1>1. i \in 1 .. i /\ \A y \in 1 .. i : i >= y
  OBVIOUS
<1>2. \A x \in 1 .. i : (\A y \in 1 .. i : x >= y) => x = i
  OBVIOUS
<1> QED
  BY <1>1, <1>2 DEF Max

\* The largest element of a set of numbers is in the set.
LEMMA LargestIsIn ==
    ASSUME NEW n \in Nat, NEW s \in SUBSET (1 .. n), s # {}
    PROVE  Max(s) \in s
<1> DEFINE Beyond == {n - x : x \in s}
<1>1. Beyond \in SUBSET Nat /\ Beyond # {}
  <2>1. \A x \in s : n - x \in Nat
    OBVIOUS
  <2>2. \A e \in Beyond : \E x \in s : e = n - x
    OBVIOUS
  <2>3. PICK x \in s : TRUE
    OBVIOUS
  <2>4. n - x \in Beyond
    BY <2>3
  <2> HIDE DEF Beyond
  <2> QED
    BY <2>1, <2>2, <2>4
<1>2. PICK d \in Beyond : \A e \in Beyond : d <= e
  BY <1>1, SmallestOfSet
<1>3. PICK x \in s : d = n - x
  BY <1>2
<1>4. ASSUME NEW y \in s PROVE x >= y
  <2>1. n - y \in Beyond
    OBVIOUS
  <2>2. x \in 1 .. n /\ y \in 1 .. n
    OBVIOUS
  <2> HIDE DEF Beyond
  <2> QED
    BY <1>2, <1>3, <2>1, <2>2
<1> QED
  BY <1>4 DEF Max

Step(value, step) == IF step \in DOMAIN Parts(value) THEN Parts(value)[step] ELSE Absent

Walk(F, path, value) ==
    /\ F[0] = value
    /\ \A i \in 1 .. Len(path) : F[i] = Step(F[i - 1], path[i])

\* One step into a value ends at a value or nowhere.
LEMMA StepType ==
    ASSUME NEW value \in Json \cup {Absent}, NEW step
    PROVE  Step(value, step) \in Json \cup {Absent}
<1>1. CASE value \in Json
  BY <1>1, JsonParts DEF Step
<1>2. CASE value = Absent
  <2>1. Parts(value) = << >>
    BY <1>2 DEF Parts, Absent
  <2> QED
    BY <2>1 DEF Step
<1> QED
  BY <1>1, <1>2

\* Following a path takes its steps one after the other.
LEMMA AtWalks ==
    ASSUME NEW X, NEW path \in Seq(X), NEW value \in Json \cup {Absent}
    PROVE  \E F : Walk(F, path, value) /\ At(path, value) = F[Len(path)]
<1> DEFINE n == Len(path)
           T == 1 .. n
           V == Json \cup {Absent}
           Op == [p \in T \X V |-> Step(p[2], path[p[1]])]
           first == [s \in SUBSET T |-> Max(s)]
<1>1. n \in Nat /\ DOMAIN path = T
  OBVIOUS
<1>2. Foldable(T, V, value, Op, first)
  <2>1. IsFiniteSet(T)
    BY <1>1, FS_Interval
  <2>2. Op \in [T \X V -> V]
    BY StepType
  <2>3. \A s \in SUBSET T : s # {} => first[s] \in s
    BY <1>1, LargestIsIn
  <2> HIDE DEF T, V, Op, first
  <2> QED
    BY <2>1, <2>2, <2>3 DEF Foldable, V
<1>3. PICK iter : Fold(iter, T, V, value, Op, first)
  <2> HIDE DEF T, V, Op, first
  <2> QED
    BY <1>2, FoldExists
<1>4. ASSUME NEW s \in SUBSET T, s # {}
      PROVE  iter[s] = Step(iter[s \ {Max(s)}], path[Max(s)])
  <2>1. first[s] = Max(s) /\ Max(s) \in T
    BY <1>1, <1>4, LargestIsIn
  <2>2. iter[s] = Op[<<Max(s), iter[s \ {Max(s)}]>>] /\ iter[s \ {Max(s)}] \in V
    <3> HIDE DEF T, V, Op, first
    <3> QED
      BY <1>3, <1>4, <2>1 DEF Fold
  <2>3. \A i \in T : \A v \in V : Op[<<i, v>>] = Step(v, path[i])
    <3> HIDE DEF T, V
    <3> QED
      OBVIOUS
  <2> HIDE DEF T, V, Op, first
  <2> QED
    BY <2>1, <2>2, <2>3
<1> DEFINE it == CHOOSE f : f = [s \in SUBSET T |-> IF s = {} THEN value
                                   ELSE Step(f[s \ {Max(s)}], path[Max(s)])]
<1>5. iter = [s \in SUBSET T |-> IF s = {} THEN value
                                   ELSE Step(iter[s \ {Max(s)}], path[Max(s)])]
  <2>1. iter \in [SUBSET T -> V] /\ iter[{}] = value
    BY <1>3 DEF Fold
  <2> HIDE DEF T, V, Op, first
  <2> QED
    BY <1>4, <2>1
<1>6. it = [s \in SUBSET T |-> IF s = {} THEN value ELSE Step(it[s \ {Max(s)}], path[Max(s)])]
  BY <1>5
<1>7. At(path, value) = it[T]
  <2>1. At(path, value)
          = (CHOOSE f : f = [s \in SUBSET DOMAIN path |-> IF s = {} THEN value
                               ELSE Step(f[s \ {Max(s)}], path[Max(s)])])[DOMAIN path]
    BY DEF At, FoldLeft, MapThenFoldSet, Step
  <2> QED
    BY <1>1, <2>1
<1> HIDE DEF it
<1> DEFINE F == [i \in 0 .. n |-> it[1 .. i]]
<1>8. F[0] = value
  <2>1. it[{}] = value
    <3> HIDE DEF T
    <3> QED
      BY <1>6
  <2>2. 1 .. 0 = {}
    OBVIOUS
  <2>3. F[0] = it[1 .. 0]
    BY <1>1
  <2> HIDE DEF F
  <2> QED
    BY <2>1, <2>2, <2>3
<1>9. ASSUME NEW i \in 1 .. n PROVE F[i] = Step(F[i - 1], path[i])
  <2>1. i \in Nat /\ i # 0 /\ i - 1 \in 0 .. n /\ i \in 0 .. n
    BY <1>1
  <2>2. (1 .. i) \in SUBSET T /\ 1 .. i # {} /\ (1 .. i) \ {i} = 1 .. (i - 1)
    <3>1. \A x \in 1 .. i : x \in T
      BY <1>1, <2>1
    <3>2. i \in 1 .. i
      BY <2>1
    <3>3. \A x : x \in (1 .. i) \ {i} <=> x \in 1 .. (i - 1)
      BY <2>1
    <3> HIDE DEF T
    <3> QED
      BY <3>1, <3>2, <3>3
  <2>3. Max(1 .. i) = i
    BY <2>1, MaxOfInterval
  <2>4. F[i] = it[1 .. i] /\ F[i - 1] = it[1 .. (i - 1)]
    BY <2>1
  <2> DEFINE s == 1 .. i
  <2>5. s \in SUBSET T /\ s # {} /\ s \ {Max(s)} = 1 .. (i - 1) /\ Max(s) = i
    BY <2>2, <2>3
  <2>6. F[i] = it[s]
    BY <2>4
  <2> HIDE DEF s, F, T
  <2>7. it[s] = Step(it[s \ {Max(s)}], path[Max(s)])
    BY <1>6, <2>5
  <2> QED
    BY <2>4, <2>5, <2>6, <2>7
<1>10. F[n] = it[T]
  BY <1>1
<1> HIDE DEF F
<1>11. Walk(F, path, value)
  BY <1>8, <1>9 DEF Walk
<1> QED
  BY <1>7, <1>10, <1>11

\* The empty path stays where it is.
LEMMA AtNowhere ==
    ASSUME NEW value \in Json \cup {Absent}
    PROVE  At(<< >>, value) = value
<1>1. << >> \in Seq(Json) /\ Len(<< >>) = 0
  OBVIOUS
<1>2. PICK F : Walk(F, << >>, value) /\ At(<< >>, value) = F[Len(<< >>)]
  BY <1>1, AtWalks
<1> QED
  BY <1>1, <1>2 DEF Walk

\* A path that starts with a step is the rest of the path, followed from that step.
LEMMA AtInside ==
    ASSUME NEW X, NEW path \in Seq(X), NEW step \in X, NEW value \in Json \cup {Absent}
    PROVE  At(<<step>> \o path, value) = At(path, Step(value, step))
<1> DEFINE long == <<step>> \o path
           n == Len(path)
<1>1. /\ long \in Seq(X) /\ Len(long) = n + 1 /\ n \in Nat /\ long[1] = step
      /\ \A i \in 1 .. n : long[i + 1] = path[i]
  OBVIOUS
<1> HIDE DEF long
<1>2. PICK F : Walk(F, long, value) /\ At(long, value) = F[n + 1]
  BY <1>1, AtWalks
<1>3. PICK G : Walk(G, path, Step(value, step)) /\ At(path, Step(value, step)) = G[n]
  BY StepType, AtWalks
<1> DEFINE Good == {i \in Nat : i <= n => F[i + 1] = G[i]}
<1>4. 0 \in Good
  <2>1. F[1] = Step(F[0], long[1]) /\ F[0] = value /\ G[0] = Step(value, step)
    BY <1>1, <1>2, <1>3 DEF Walk
  <2> QED
    BY <1>1, <2>1
<1>5. ASSUME NEW i \in Nat, i \in Good PROVE i + 1 \in Good
  <2> SUFFICES ASSUME i + 1 <= n PROVE F[(i + 1) + 1] = G[i + 1]
    OBVIOUS
  <2>1. /\ i + 1 \in 1 .. n /\ (i + 1) + 1 \in 1 .. n + 1 /\ ((i + 1) + 1) - 1 = i + 1
        /\ (i + 1) - 1 = i /\ i <= n
    BY <1>1
  <2>2. F[(i + 1) + 1] = Step(F[i + 1], long[(i + 1) + 1])
    BY <1>1, <1>2, <2>1 DEF Walk
  <2>3. G[i + 1] = Step(G[i], path[i + 1])
    BY <1>3, <2>1 DEF Walk
  <2>4. F[i + 1] = G[i]
    BY <1>5, <2>1
  <2> QED
    BY <1>1, <2>1, <2>2, <2>3, <2>4
<1> HIDE DEF Good
<1>6. \A i \in Nat : i \in Good
  BY <1>4, <1>5, Induction
<1>7. F[n + 1] = G[n]
  BY <1>1, <1>6 DEF Good
<1> QED
  BY <1>2, <1>3, <1>7 DEF long
-----------------------------------------------------------------------------
(* What project_value does not keep it reports, and keeps what it does not *)
(* report.                                                                 *)

WithoutIf(g, p) ==
    LET value == p[1]  paths == p[2]
        rest(step) == g[<<Parts(value)[step], Through(step, paths)>>]
    IN  CASE value.kind = "object" ->
               Object([key \in {k \in DOMAIN value.fields : <<k>> \notin paths} |-> rest(key)])
          [] value.kind = "array" ->
               Array(FlattenSeq([n \in DOMAIN value.items |->
                        IF <<n>> \in paths THEN << >> ELSE <<rest(n)>>]))
          [] OTHER -> value

\* What is left of paths through a step are paths.
LEMMA ThroughType ==
    ASSUME NEW step, NEW paths \in SUBSET Seq(Steps)
    PROVE  Through(step, paths) \in SUBSET Seq(Steps)
<1>1. ASSUME NEW path \in paths, path # << >> PROVE Tail(path) \in Seq(Steps)
  <2>1. path \in Seq(Steps)
    OBVIOUS
  <2> QED
    BY <1>1, <2>1
<1> QED
  BY <1>1 DEF Through

\* What is taken out of a value depends on what is taken out of its parts only.
LEMMA WithoutIsLocal ==
    ASSUME NEW value \in Json, NEW paths \in SUBSET Seq(Steps), NEW g, NEW h,
           \A v \in Json, q \in SUBSET Seq(Steps) :
             Depth[v] < Depth[value] => g[<<v, q>>] = h[<<v, q>>]
    PROVE  WithoutIf(g, <<value, paths>>) = WithoutIf(h, <<value, paths>>)
<1>1. ASSUME NEW step \in DOMAIN Parts(value)
      PROVE  g[<<Parts(value)[step], Through(step, paths)>>]
               = h[<<Parts(value)[step], Through(step, paths)>>]
  BY JsonParts, ThroughType
<1>2. CASE value.kind = "object"
  <2>1. DOMAIN value.fields = DOMAIN Parts(value)
    BY <1>2 DEF Parts
  <2>2. [key \in {k \in DOMAIN value.fields : <<k>> \notin paths} |->
              g[<<Parts(value)[key], Through(key, paths)>>]]
          = [key \in {k \in DOMAIN value.fields : <<k>> \notin paths} |->
              h[<<Parts(value)[key], Through(key, paths)>>]]
    BY <1>1, <2>1
  <2> QED
    BY <1>2, <2>2 DEF WithoutIf
<1>3. CASE value.kind = "array"
  <2>1. DOMAIN value.items = DOMAIN Parts(value)
    BY <1>3 DEF Parts
  <2>2. [n \in DOMAIN value.items |->
            IF <<n>> \in paths THEN << >> ELSE <<g[<<Parts(value)[n], Through(n, paths)>>]>>]
          = [n \in DOMAIN value.items |->
            IF <<n>> \in paths THEN << >> ELSE <<h[<<Parts(value)[n], Through(n, paths)>>]>>]
    BY <1>1, <2>1
  <2> QED
    BY <1>3, <2>2 DEF WithoutIf
<1>4. CASE value.kind # "object" /\ value.kind # "array"
  BY <1>4 DEF WithoutIf
<1> QED
  BY <1>2, <1>3, <1>4

\* So Without, which takes the parts out of the parts, is what it says.
LEMMA WithoutUnfolds ==
    \A value \in Json, paths \in SUBSET Seq(Steps) :
        Without[<<value, paths>>] = WithoutIf(Without, <<value, paths>>)
<1> DEFINE S == Json \X SUBSET Seq(Steps)
           rank == [p \in S |-> Depth[p[1]]]
           Upto(g, n) == \A p \in S : rank[p] < n => g[p] = WithoutIf(g, p)
           Reached == {n \in Nat : \E g : Upto(g, n)}
<1>1. \A p \in S : rank[p] \in Nat
  BY JsonParts
<1>2. ASSUME NEW p \in S, NEW g, NEW h, \A q \in S : rank[q] < rank[p] => g[q] = h[q]
      PROVE  WithoutIf(g, p) = WithoutIf(h, p)
  <2>1. PICK value \in Json, paths \in SUBSET Seq(Steps) : p = <<value, paths>>
    OBVIOUS
  <2>2. \A v \in Json, q \in SUBSET Seq(Steps) :
          Depth[v] < Depth[value] => g[<<v, q>>] = h[<<v, q>>]
    BY <1>2, <2>1
  <2> QED
    BY <2>1, <2>2, WithoutIsLocal
<1> HIDE DEF S, rank
<1>3. 0 \in Reached
  <2>1. \A p \in S : ~(rank[p] < 0)
    BY <1>1
  <2> QED
    BY <2>1
<1>4. ASSUME NEW n \in Nat, n \in Reached PROVE n + 1 \in Reached
  <2>1. PICK g : Upto(g, n)
    BY <1>4
  <2> DEFINE next == [p \in S |-> IF rank[p] < n THEN g[p] ELSE WithoutIf(g, p)]
  <2>2. ASSUME NEW p \in S, rank[p] < n + 1 PROVE next[p] = WithoutIf(next, p)
    <3>1. \A q \in S : rank[q] < rank[p] => g[q] = next[q]
      BY <1>1, <2>2
    <3>2. next[p] = WithoutIf(g, p)
      BY <2>1
    <3> HIDE DEF next
    <3>3. WithoutIf(g, p) = WithoutIf(next, p)
      BY <1>2, <3>1
    <3> QED
      BY <3>2, <3>3
  <2> HIDE DEF next
  <2>3. Upto(next, n + 1)
    BY <2>2
  <2> QED
    BY <2>3
<1>5. \A n \in Nat : n \in Reached
  <2> HIDE DEF Reached
  <2> QED
    BY <1>3, <1>4, Induction
<1>6. ASSUME NEW g, NEW h, NEW n \in Nat, Upto(g, n), Upto(h, n)
      PROVE  \A p \in S : rank[p] < n => g[p] = h[p]
  <2> DEFINE Same == {p \in S : rank[p] < n => g[p] = h[p]}
  <2>1. ASSUME NEW p \in S, \A q \in S : rank[q] < rank[p] => q \in Same PROVE p \in Same
    <3> SUFFICES ASSUME rank[p] < n PROVE g[p] = h[p]
      OBVIOUS
    <3>1. \A q \in S : rank[q] < rank[p] => g[q] = h[q]
      BY <1>1, <2>1
    <3>2. WithoutIf(g, p) = WithoutIf(h, p)
      BY <1>2, <3>1
    <3> QED
      BY <1>6, <3>2
  <2> HIDE DEF Same
  <2>2. S \subseteq Same
    BY <1>1, <2>1, RankInduction
  <2> QED
    BY <2>2 DEF Same
<1> DEFINE best(n) == CHOOSE g : Upto(g, n)
           f == [p \in S |-> best(rank[p] + 1)[p]]
<1>7. \A n \in Nat : Upto(best(n), n)
  BY <1>5
<1> HIDE DEF best, Upto, Reached
<1>8. ASSUME NEW p \in S PROVE f[p] = WithoutIf(f, p)
  <2> DEFINE n == rank[p] + 1
             g == best(n)
  <2>1. n \in Nat /\ rank[p] < n
    BY <1>1
  <2>2. Upto(g, n)
    BY <1>7, <2>1
  <2>3. ASSUME NEW q \in S, rank[q] < rank[p] PROVE g[q] = f[q]
    <3> DEFINE m == rank[q] + 1
               h == best(m)
    <3>1. m \in Nat /\ m <= n /\ rank[q] < m
      BY <1>1, <2>3
    <3>2. Upto(h, m)
      BY <1>7, <3>1
    <3>3. f[q] = h[q]
      OBVIOUS
    <3> HIDE DEF g, h, m, n, f
    <3>4. Upto(g, m)
      <4>1. \A x \in S : rank[x] < m => rank[x] < n
        BY <1>1, <2>1, <3>1
      <4> QED
        BY <2>2, <4>1 DEF Upto
    <3>5. \A x \in S : rank[x] < m => g[x] = h[x]
      BY <1>6, <3>1, <3>2, <3>4
    <3> QED
      BY <3>1, <3>3, <3>5
  <2>4. f[p] = g[p]
    OBVIOUS
  <2> HIDE DEF g, n, f
  <2>5. WithoutIf(g, p) = WithoutIf(f, p)
    BY <1>2, <2>3
  <2> QED
    BY <2>1, <2>2, <2>4, <2>5 DEF Upto
<1>9. f = [p \in S |-> WithoutIf(f, p)]
  <2>1. DOMAIN f = S /\ f = [p \in S |-> f[p]]
    OBVIOUS
  <2> HIDE DEF f
  <2> QED
    BY <1>8, <2>1
<1> HIDE DEF f
<1>10. Without = CHOOSE g : g = [p \in S |-> WithoutIf(g, p)]
  BY DEF Without, WithoutIf, S
<1>11. Without = [p \in S |-> WithoutIf(Without, p)]
  BY <1>9, <1>10
<1>12. \A p \in S : Without[p] = WithoutIf(Without, p)
  BY <1>11
<1> QED
  BY <1>12 DEF S

\* The paths of drops, and those that were reported of a value.
PathsOf(dropped) == {drop.path : drop \in dropped}
Reported(out) == PathsOf(out.dropped)

\* Where the drops of a value are: at parts of it, none at or inside another's.
DropsAt(dropped, value) ==
    /\ \A drop \in dropped : /\ drop.path \in Seq(Steps)
                             /\ drop = [path |-> drop.path, reason |-> drop.reason]
                             /\ At(drop.path, value) \in Json
    /\ \A drop, other \in dropped : IsPrefix(drop.path, other.path) => other = drop

\* An outcome reports the whole value, or keeps it without what it reports.
Accounts(out, value) ==
    /\ DropsAt(out.dropped, value)
    /\ \/ out.kept = << >> /\ Reported(out) = {<< >>}
       \/ out.kept = <<Without[<<value, Reported(out)>>]>> /\ << >> \notin Reported(out)

\* A scalar that is kept is accounted for: nothing is taken out of it.
LEMMA KeepAccounts ==
    ASSUME NEW value \in Json, value.kind \notin Composite
    PROVE  Accounts(Keep(value), value)
<1>1. Keep(value).kept = <<value>> /\ Keep(value).dropped = {} /\ Reported(Keep(value)) = {}
  BY DEF Keep, Reported, PathsOf
<1>2. {} \in SUBSET Seq(Steps)
  OBVIOUS
<1>3. Without[<<value, {}>>] = WithoutIf(Without, <<value, {}>>)
  BY <1>2, WithoutUnfolds
<1>4. WithoutIf(Without, <<value, {}>>) = value
  BY DEF WithoutIf, Composite
<1> QED
  BY <1>1, <1>3, <1>4 DEF Accounts, DropsAt

\* A value that is dropped is accounted for: it is reported as a whole.
LEMMA DropAccounts ==
    ASSUME NEW value \in Json, NEW reason
    PROVE  Accounts(Drop(reason), value)
<1> DEFINE drop == [path |-> << >>, reason |-> reason]
<1>1. At(drop.path, value) \in Json
  BY AtNowhere
<1>2. /\ Drop(reason).kept = << >> /\ Drop(reason).dropped = {drop}
      /\ Reported(Drop(reason)) = {<< >>}
  BY DEF Drop, Reported, PathsOf
<1>3. << >> \in Seq(Steps) /\ drop = [path |-> drop.path, reason |-> drop.reason]
  OBVIOUS
<1>4. DropsAt({drop}, value)
  BY <1>1, <1>3 DEF DropsAt
<1> QED
  BY <1>2, <1>4 DEF Accounts

\* A path with a step in front.
LEMMA StepInFront ==
    ASSUME NEW X, NEW step \in X, NEW path \in Seq(X)
    PROVE  LET long == <<step>> \o path IN
           /\ long \in Seq(X) /\ long # << >> /\ Head(long) = step /\ Tail(long) = path
           /\ Len(long) = Len(path) + 1 /\ long[1] = step
           /\ \A i \in 1 .. Len(path) : long[i + 1] = path[i]
           /\ long = <<step>> <=> path = << >>
<1> DEFINE long == <<step>> \o path
<1>1. /\ long \in Seq(X) /\ long # << >> /\ Len(long) = Len(path) + 1 /\ long[1] = step
      /\ \A i \in 1 .. Len(path) : long[i + 1] = path[i]
  OBVIOUS
<1>2. Head(long) = step
  BY <1>1
<1>3. Tail(long) = path
  <2> HIDE DEF long
  <2>1. Tail(long) \in Seq(X) /\ Len(Tail(long)) = Len(path)
    BY <1>1
  <2>2. \A i \in 1 .. Len(path) : Tail(long)[i] = path[i]
    BY <1>1
  <2> QED
    BY <2>1, <2>2
<1>4. long = <<step>> => path = << >>
  <2> SUFFICES ASSUME long = <<step>> PROVE path = << >>
    OBVIOUS
  <2>1. Len(<<step>>) = 1
    OBVIOUS
  <2> HIDE DEF long
  <2> QED
    BY <1>1, <2>1
<1>5. path = << >> => long = <<step>>
  OBVIOUS
<1> HIDE DEF long
<1> QED
  BY <1>1, <1>2, <1>3, <1>4, <1>5 DEF long

\* A path with a step in front begins another only if both have the same step there.
LEMMA PrefixWithin ==
    ASSUME NEW X, NEW x \in X, NEW y \in X, NEW p \in Seq(X), NEW q \in Seq(X),
           IsPrefix(<<x>> \o p, <<y>> \o q)
    PROVE  x = y /\ IsPrefix(p, q)
<1> DEFINE s == <<x>> \o p
           t == <<y>> \o q
<1>1. /\ s \in Seq(X) /\ Len(s) = Len(p) + 1 /\ s[1] = x
      /\ \A i \in 1 .. Len(p) : s[i + 1] = p[i]
  BY StepInFront
<1>2. /\ t \in Seq(X) /\ Len(t) = Len(q) + 1 /\ t[1] = y
      /\ \A i \in 1 .. Len(q) : t[i + 1] = q[i]
  BY StepInFront
<1>3. Len(p) \in Nat /\ Len(q) \in Nat
  OBVIOUS
<1>4. Len(s) <= Len(t) /\ SubSeq(s, 1, Len(s)) = SubSeq(t, 1, Len(s))
  BY DEF IsPrefix
<1> HIDE DEF s, t
<1>5. \A i \in 1 .. Len(s) : s[i] = t[i]
  <2>1. ASSUME NEW i \in 1 .. Len(s) PROVE s[i] = t[i]
    <3>1. SubSeq(s, 1, Len(s))[i] = s[i] /\ SubSeq(t, 1, Len(s))[i] = t[i]
      BY <1>1, <1>2, <1>3, <1>4
    <3> QED
      BY <1>4, <3>1
  <2> QED
    BY <2>1
<1>6. x = y /\ Len(p) <= Len(q)
  BY <1>1, <1>2, <1>3, <1>4, <1>5
<1>7. \A i \in 1 .. Len(p) : p[i] = q[i]
  <2>1. ASSUME NEW i \in 1 .. Len(p) PROVE p[i] = q[i]
    <3>1. i + 1 \in 1 .. Len(s) /\ i \in 1 .. Len(q)
      BY <1>1, <1>3, <1>6
    <3> QED
      BY <1>1, <1>2, <1>5, <3>1
  <2> QED
    BY <2>1
<1>8. SubSeq(p, 1, Len(p)) = SubSeq(q, 1, Len(p))
  <2>1. SubSeq(p, 1, Len(p)) = [i \in 1 .. Len(p) |-> p[i]]
    BY <1>3
  <2>2. SubSeq(q, 1, Len(p)) = [i \in 1 .. Len(p) |-> q[i]]
    BY <1>3, <1>6
  <2> QED
    BY <1>7, <2>1, <2>2
<1> QED
  BY <1>6, <1>8 DEF IsPrefix

\* A drop of a composite value is that of one of its parts, with the step to the part
\* in front.
LEMMA DropIsInside ==
    ASSUME NEW outs, NEW d \in AllDropped(outs)
    PROVE  \E x \in DOMAIN outs : \E drop \in outs[x].dropped :
             d = [path |-> <<x>> \o drop.path, reason |-> drop.reason]
<1>1. PICK x \in DOMAIN outs : d \in Under(x, outs[x].dropped)
  BY DEF AllDropped
<1>2. \E drop \in outs[x].dropped : d = [path |-> <<x>> \o drop.path, reason |-> drop.reason]
  BY <1>1 DEF Under
<1> QED
  BY <1>2

\* And each drop of a part is one of the composite value.
LEMMA InsideIsDropped ==
    ASSUME NEW outs, NEW x \in DOMAIN outs, NEW drop \in outs[x].dropped
    PROVE  [path |-> <<x>> \o drop.path, reason |-> drop.reason] \in AllDropped(outs)
<1>1. [path |-> <<x>> \o drop.path, reason |-> drop.reason] \in Under(x, outs[x].dropped)
  BY DEF Under
<1> QED
  BY <1>1 DEF AllDropped

\* The outcomes of all parts of a value account for them.
Parted(value, outs) ==
    /\ DOMAIN outs = DOMAIN Parts(value)
    /\ \A x \in DOMAIN outs : Accounts(outs[x], Parts(value)[x])

\* The drops of a composite value are at parts of it, as those of its parts are.
LEMMA CompositeDrops ==
    ASSUME NEW value \in Json, NEW outs, Parted(value, outs)
    PROVE  DropsAt(AllDropped(outs), value)
<1> DEFINE all == AllDropped(outs)
           long(x, drop) == [path |-> <<x>> \o drop.path, reason |-> drop.reason]
<1>1. DOMAIN outs = DOMAIN Parts(value) /\ DOMAIN outs \subseteq Steps
  BY DEF Parted, Steps
<1>2. ASSUME NEW x \in DOMAIN outs
      PROVE  DropsAt(outs[x].dropped, Parts(value)[x]) /\ x \in Steps
  BY <1>1 DEF Parted, Accounts
<1>3. ASSUME NEW x \in DOMAIN outs, NEW drop \in outs[x].dropped
      PROVE  /\ drop.path \in Seq(Steps) /\ <<x>> \o drop.path \in Seq(Steps)
             /\ At(<<x>> \o drop.path, value) \in Json
  <2>1. drop.path \in Seq(Steps) /\ At(drop.path, Parts(value)[x]) \in Json
    BY <1>2 DEF DropsAt
  <2>2. At(<<x>> \o drop.path, value) = At(drop.path, Step(value, x))
    BY <1>2, <2>1, AtInside
  <2>3. Step(value, x) = Parts(value)[x]
    BY <1>1 DEF Step
  <2> QED
    BY <1>2, <2>1, <2>2, <2>3
<1>4. ASSUME NEW d \in all
      PROVE  \E x \in DOMAIN outs : \E drop \in outs[x].dropped : d = long(x, drop)
  BY DropIsInside
<1> HIDE DEF all
<1>5. ASSUME NEW d \in all
      PROVE  /\ d.path \in Seq(Steps) /\ d = [path |-> d.path, reason |-> d.reason]
             /\ At(d.path, value) \in Json
  <2>1. PICK x \in DOMAIN outs : \E drop \in outs[x].dropped : d = long(x, drop)
    BY <1>4
  <2>2. PICK drop \in outs[x].dropped : d = long(x, drop)
    BY <2>1
  <2>3. d.path = <<x>> \o drop.path /\ d.reason = drop.reason
    BY <2>2
  <2> QED
    BY <1>3, <2>2, <2>3
<1>6. ASSUME NEW d \in all, NEW e \in all, IsPrefix(d.path, e.path) PROVE e = d
  <2>1. PICK x \in DOMAIN outs : \E drop \in outs[x].dropped : d = long(x, drop)
    BY <1>4
  <2>2. PICK drop \in outs[x].dropped : d = long(x, drop)
    BY <2>1
  <2>3. PICK y \in DOMAIN outs : \E other \in outs[y].dropped : e = long(y, other)
    BY <1>4
  <2>4. PICK other \in outs[y].dropped : e = long(y, other)
    BY <2>3
  <2>5. d.path = <<x>> \o drop.path /\ e.path = <<y>> \o other.path
    BY <2>2, <2>4
  <2>6. x \in Steps /\ y \in Steps /\ drop.path \in Seq(Steps) /\ other.path \in Seq(Steps)
    BY <1>2, <1>3
  <2>7. x = y /\ IsPrefix(drop.path, other.path)
    BY <1>6, <2>5, <2>6, PrefixWithin
  <2>8. other = drop
    BY <1>2, <2>7 DEF DropsAt
  <2> QED
    BY <2>2, <2>4, <2>7, <2>8
<1> QED
  BY <1>5, <1>6 DEF DropsAt, all

\* What a composite value reports, seen from its parts: a part that was dropped is
\* itself reported, and of any other what the part reports.
LEMMA ReportedOfParts ==
    ASSUME NEW value \in Json, NEW outs, Parted(value, outs), NEW paths,
           paths = PathsOf(AllDropped(outs))
    PROVE  /\ paths \in SUBSET Seq(Steps) /\ << >> \notin paths
           /\ \A x \in DOMAIN outs : Through(x, paths) = Reported(outs[x])
           /\ \A x \in DOMAIN outs : <<x>> \in paths <=> outs[x].kept = << >>
           /\ \A x \in DOMAIN outs : <<x>> \notin paths =>
                outs[x].kept = <<Without[<<Parts(value)[x], Through(x, paths)>>]>>
<1>1. DOMAIN outs \subseteq Steps
  BY DEF Parted, Steps
<1>2. ASSUME NEW x \in DOMAIN outs, NEW q \in Reported(outs[x]) PROVE q \in Seq(Steps)
  BY DEF Parted, Accounts, DropsAt, Reported, PathsOf
<1>3. ASSUME NEW p
      PROVE  p \in paths <=> \E x \in DOMAIN outs : \E q \in Reported(outs[x]) : p = <<x>> \o q
  <2>1. ASSUME p \in paths
        PROVE  \E x \in DOMAIN outs : \E q \in Reported(outs[x]) : p = <<x>> \o q
    <3>1. PICK d \in AllDropped(outs) : p = d.path
      BY <2>1 DEF PathsOf
    <3>2. PICK x \in DOMAIN outs : \E drop \in outs[x].dropped :
            d = [path |-> <<x>> \o drop.path, reason |-> drop.reason]
      BY DropIsInside
    <3>3. PICK drop \in outs[x].dropped :
            d = [path |-> <<x>> \o drop.path, reason |-> drop.reason]
      BY <3>2
    <3>4. drop.path \in Reported(outs[x]) /\ p = <<x>> \o drop.path
      BY <3>1, <3>3 DEF Reported, PathsOf
    <3> QED
      BY <3>4
  <2>2. ASSUME NEW x \in DOMAIN outs, NEW q \in Reported(outs[x]), p = <<x>> \o q
        PROVE  p \in paths
    <3>1. PICK drop \in outs[x].dropped : q = drop.path
      BY DEF Reported, PathsOf
    <3> DEFINE d == [path |-> <<x>> \o drop.path, reason |-> drop.reason]
    <3>2. d \in AllDropped(outs) /\ d.path = p
      BY <2>2, <3>1, InsideIsDropped
    <3> HIDE DEF d
    <3> QED
      BY <3>2 DEF PathsOf
  <2> QED
    BY <2>1, <2>2
<1>4. ASSUME NEW x \in DOMAIN outs, NEW q \in Reported(outs[x])
      PROVE  LET p == <<x>> \o q IN
             /\ p \in Seq(Steps) /\ p # << >> /\ Head(p) = x /\ Tail(p) = q
             /\ p = <<x>> <=> q = << >>
  BY <1>1, <1>2, StepInFront
<1>5. paths \in SUBSET Seq(Steps) /\ << >> \notin paths
  <2>1. ASSUME NEW p \in paths PROVE p \in Seq(Steps) /\ p # << >>
    <3>1. PICK x \in DOMAIN outs : \E q \in Reported(outs[x]) : p = <<x>> \o q
      BY <1>3
    <3>2. PICK q \in Reported(outs[x]) : p = <<x>> \o q
      BY <3>1
    <3> QED
      BY <1>4, <3>2
  <2> QED
    BY <2>1
<1>6. ASSUME NEW x \in DOMAIN outs PROVE Through(x, paths) = Reported(outs[x])
  <2>1. ASSUME NEW p \in paths, p # << >>, Head(p) = x PROVE Tail(p) \in Reported(outs[x])
    <3>1. PICK y \in DOMAIN outs : \E q \in Reported(outs[y]) : p = <<y>> \o q
      BY <1>3
    <3>2. PICK q \in Reported(outs[y]) : p = <<y>> \o q
      BY <3>1
    <3>3. Head(p) = y /\ Tail(p) = q
      BY <1>4, <3>2
    <3> QED
      BY <2>1, <3>3
  <2>2. ASSUME NEW q \in Reported(outs[x]) PROVE q \in Through(x, paths)
    <3>1. <<x>> \o q \in paths
      BY <1>3
    <3> QED
      BY <1>4, <3>1 DEF Through
  <2> QED
    BY <2>1, <2>2 DEF Through
<1>7. ASSUME NEW x \in DOMAIN outs PROVE <<x>> \in paths <=> << >> \in Reported(outs[x])
  <2>1. ASSUME << >> \in Reported(outs[x]) PROVE <<x>> \in paths
    <3>1. <<x>> \o << >> \in paths /\ <<x>> \o << >> = <<x>>
      BY <1>3, <1>4, <2>1
    <3> QED
      BY <3>1
  <2>2. ASSUME <<x>> \in paths PROVE << >> \in Reported(outs[x])
    <3>1. PICK y \in DOMAIN outs : \E q \in Reported(outs[y]) : <<x>> = <<y>> \o q
      BY <1>3, <2>2
    <3>2. PICK q \in Reported(outs[y]) : <<x>> = <<y>> \o q
      BY <3>1
    <3>3. Head(<<y>> \o q) = y /\ (<<y>> \o q = <<y>> <=> q = << >>)
      BY <1>4
    <3>4. Head(<<x>>) = x
      OBVIOUS
    <3>5. x = y
      BY <3>2, <3>3, <3>4
    <3> QED
      BY <3>2, <3>3, <3>5
  <2> QED
    BY <2>1, <2>2
<1>8. ASSUME NEW x \in DOMAIN outs
      PROVE  \/ outs[x].kept = << >> /\ Reported(outs[x]) = {<< >>}
             \/ /\ outs[x].kept = <<Without[<<Parts(value)[x], Reported(outs[x])>>]>>
                /\ << >> \notin Reported(outs[x])
  BY DEF Parted, Accounts
<1>9. ASSUME NEW x \in DOMAIN outs
      PROVE  /\ <<x>> \in paths <=> outs[x].kept = << >>
             /\ <<x>> \notin paths =>
                  outs[x].kept = <<Without[<<Parts(value)[x], Through(x, paths)>>]>>
  <2>1. CASE outs[x].kept = << >> /\ Reported(outs[x]) = {<< >>}
    BY <1>7, <2>1
  <2>2. CASE /\ outs[x].kept = <<Without[<<Parts(value)[x], Reported(outs[x])>>]>>
             /\ << >> \notin Reported(outs[x])
    <3>1. outs[x].kept # << >>
      BY <2>2
    <3> QED
      BY <1>6, <1>7, <2>2, <3>1
  <2> QED
    BY <1>8, <2>1, <2>2
<1> QED
  BY <1>5, <1>6, <1>9

\* An object is left without the fields that were dropped.
LEMMA ObjectAccounts ==
    ASSUME NEW value \in Json, value.kind = "object", NEW outs, Parted(value, outs), NEW out,
           out.kept = <<Released(outs)>>, out.dropped = AllDropped(outs)
    PROVE  Accounts(out, value)
<1> DEFINE paths == Reported(out)
           rest(x) == Without[<<Parts(value)[x], Through(x, paths)>>]
<1>1. paths = PathsOf(AllDropped(outs))
  BY DEF Reported
<1> HIDE DEF paths
<1>2. /\ paths \in SUBSET Seq(Steps) /\ << >> \notin paths
      /\ \A x \in DOMAIN outs : <<x>> \in paths <=> outs[x].kept = << >>
      /\ \A x \in DOMAIN outs : <<x>> \notin paths => outs[x].kept = <<rest(x)>>
  BY <1>1, ReportedOfParts
<1>3. DOMAIN outs = DOMAIN value.fields
  BY DEF Parted, Parts
<1>4. Without[<<value, paths>>]
        = Object([key \in {k \in DOMAIN value.fields : <<k>> \notin paths} |-> rest(key)])
  <2>1. Without[<<value, paths>>] = WithoutIf(Without, <<value, paths>>)
    BY <1>2, WithoutUnfolds
  <2> QED
    BY <2>1 DEF WithoutIf
<1>5. [key \in {k \in DOMAIN outs : outs[k].kept # << >>} |-> Head(outs[key].kept)]
        = [key \in {k \in DOMAIN value.fields : <<k>> \notin paths} |-> rest(key)]
  <2>1. {k \in DOMAIN outs : outs[k].kept # << >>}
          = {k \in DOMAIN value.fields : <<k>> \notin paths}
    BY <1>2, <1>3
  <2>2. ASSUME NEW x \in DOMAIN outs, <<x>> \notin paths PROVE Head(outs[x].kept) = rest(x)
    <3>1. outs[x].kept = <<rest(x)>>
      BY <1>2, <2>2
    <3> HIDE DEF rest
    <3> QED
      BY <3>1
  <2> HIDE DEF rest
  <2> QED
    BY <1>3, <2>1, <2>2
<1>6. out.kept = <<Without[<<value, paths>>]>>
  BY <1>4, <1>5 DEF Released
<1>7. DropsAt(out.dropped, value)
  BY CompositeDrops
<1> QED
  BY <1>2, <1>6, <1>7 DEF Accounts, paths

\* An array is left without the items that were dropped, by their places in it.
LEMMA ArrayAccounts ==
    ASSUME NEW value \in Json, value.kind = "array", NEW outs, Parted(value, outs), NEW out,
           out.kept = <<Array(FlattenSeq([n \in DOMAIN value.items |-> outs[n].kept]))>>,
           out.dropped = AllDropped(outs)
    PROVE  Accounts(out, value)
<1> DEFINE paths == Reported(out)
           rest(x) == Without[<<Parts(value)[x], Through(x, paths)>>]
<1>1. paths = PathsOf(AllDropped(outs))
  BY DEF Reported
<1> HIDE DEF paths
<1>2. /\ paths \in SUBSET Seq(Steps) /\ << >> \notin paths
      /\ \A x \in DOMAIN outs : <<x>> \in paths <=> outs[x].kept = << >>
      /\ \A x \in DOMAIN outs : <<x>> \notin paths => outs[x].kept = <<rest(x)>>
  BY <1>1, ReportedOfParts
<1>3. DOMAIN outs = DOMAIN value.items
  BY DEF Parted, Parts
<1>4. Without[<<value, paths>>]
        = Array(FlattenSeq([n \in DOMAIN value.items |->
                   IF <<n>> \in paths THEN << >> ELSE <<rest(n)>>]))
  <2>1. Without[<<value, paths>>] = WithoutIf(Without, <<value, paths>>)
    BY <1>2, WithoutUnfolds
  <2> QED
    BY <2>1 DEF WithoutIf
<1>5. [n \in DOMAIN value.items |-> outs[n].kept]
        = [n \in DOMAIN value.items |-> IF <<n>> \in paths THEN << >> ELSE <<rest(n)>>]
  <2> HIDE DEF rest
  <2> QED
    BY <1>2, <1>3
<1>6. out.kept = <<Without[<<value, paths>>]>>
  BY <1>4, <1>5
<1>7. DropsAt(out.dropped, value)
  BY CompositeDrops
<1> QED
  BY <1>2, <1>6, <1>7 DEF Accounts, paths

\* Of every value, at every depth, project_value keeps exactly what it does not report:
\* it drops and reports the value itself, or keeps it without the parts at the paths it
\* reports, which are parts of it and none of them inside another.
THEOREM OutcomeAccounts ==
    \A value \in Json : \A spec \in Specs : Accounts(ProjectValue[<<spec, value>>], value)
<1> DEFINE Good == {value \in Json : \A spec \in Specs :
                      Accounts(ProjectValue[<<spec, value>>], value)}
<1>1. ASSUME NEW value \in Json, \A w \in Json : Depth[w] < Depth[value] => w \in Good
      PROVE  value \in Good
  <2> SUFFICES ASSUME NEW spec \in Specs PROVE Accounts(ProjectValue[<<spec, value>>], value)
    OBVIOUS
  <2>1. \A w \in Json : Depth[w] < Depth[value] =>
          \A s \in Specs : Accounts(ProjectValue[<<s, w>>], w)
    BY <1>1
  <2> HIDE DEF Good
  <2> DEFINE out == ProjectValue[<<spec, value>>]
  <2>2. CASE spec.kind = "object" /\ value.kind = "object"
    <3> DEFINE outs == ObjectOutcomes(spec, value)
    <3>1. out.kept = <<Released(outs)>> /\ out.dropped = AllDropped(outs)
      BY <2>2, ObjectOutcome
    <3>2. DOMAIN outs = DOMAIN value.fields /\ Parts(value) = value.fields
      BY <2>2 DEF ObjectOutcomes, Parts
    <3>3. ASSUME NEW key \in DOMAIN value.fields PROVE Accounts(outs[key], value.fields[key])
      <4>1. value.fields[key] \in Json /\ Depth[value.fields[key]] < Depth[value]
        BY <2>2, JsonParts
      <4>2. CASE key \in DOMAIN spec.allow
        <5>1. outs[key] = ProjectValue[<<spec.allow[key], value.fields[key]>>]
          BY <4>2 DEF ObjectOutcomes
        <5>2. spec.allow[key] \in Specs
          BY <2>2, <4>2, SpecParts
        <5> HIDE DEF outs
        <5> QED
          BY <2>1, <4>1, <5>1, <5>2
      <4>3. CASE key \notin DOMAIN spec.allow
        <5>1. outs[key] = Drop(UnknownKey)
          BY <4>3 DEF ObjectOutcomes
        <5> HIDE DEF outs
        <5> QED
          BY <4>1, <5>1, DropAccounts
      <4> QED
        BY <4>2, <4>3
    <3> HIDE DEF outs, out
    <3>4. Parted(value, outs)
      BY <3>2, <3>3 DEF Parted
    <3> QED
      BY <2>2, <3>1, <3>4, ObjectAccounts DEF out
  <2>3. CASE spec.kind = "array" /\ value.kind = "array"
    <3> DEFINE outs == ArrayOutcomes(spec, value)
               s == KeptItems(spec, value)
    <3>1. out.kept = <<Array(FlattenSeq(s))>> /\ out.dropped = AllDropped(outs)
      BY <2>3, ArrayKept
    <3>2. /\ DOMAIN outs = DOMAIN value.items /\ Parts(value) = value.items
          /\ s = [n \in DOMAIN value.items |-> outs[n].kept]
          /\ \A i \in DOMAIN value.items : outs[i] = ProjectValue[<<spec.items, value.items[i]>>]
      BY <2>3 DEF ArrayOutcomes, KeptItems, Parts
    <3>3. spec.items \in Specs
      BY <2>3, ArrayItems
    <3>4. ASSUME NEW i \in DOMAIN value.items PROVE Accounts(outs[i], value.items[i])
      <4>1. value.items[i] \in Json /\ Depth[value.items[i]] < Depth[value]
        BY <2>3, JsonParts
      <4> HIDE DEF outs
      <4> QED
        BY <2>1, <3>2, <3>3, <4>1
    <3> HIDE DEF outs, out, s
    <3>5. Parted(value, outs)
      BY <3>2, <3>4 DEF Parted
    <3> QED
      BY <2>3, <3>1, <3>2, <3>5, ArrayAccounts DEF out
  <2>4. CASE spec.kind \in ScalarTypes
    <3>1. out = IF Accepts(spec.kind, value) THEN Keep(value) ELSE Drop(TypeMismatch(spec, value))
      BY <2>4, ScalarCase
    <3>2. Accepts(spec.kind, value) => value.kind \notin Composite
      BY <2>4 DEF Accepts, ScalarTypes, Composite
    <3> HIDE DEF out
    <3> QED
      BY <3>1, <3>2, KeepAccounts, DropAccounts DEF out
  <2>5. CASE spec.kind \in {"object", "array"} /\ value.kind # spec.kind
    <3>1. out = Drop(TypeMismatch(spec, value))
      BY <2>5, MisfitCase
    <3> HIDE DEF out
    <3> QED
      BY <3>1, DropAccounts DEF out
  <2> HIDE DEF out
  <2> QED
    BY <2>2, <2>3, <2>4, <2>5, KindsDiffer DEF out
<1> HIDE DEF Good
<1>2. \A value \in Json : Depth[value] \in Nat
  BY JsonParts
<1>3. Json \subseteq Good
  BY <1>1, <1>2, RankInduction
<1> QED
  BY <1>3 DEF Good

-----------------------------------------------------------------------------
(* Projecting documents. *)

\* project() is project_value under the object specification of the schema.
LEMMA DocumentOutcome ==
    ASSUME NEW s \in Schemas, NEW d \in Json, d.kind = "object"
    PROVE  /\ DocumentSpec(s) \in Specs
           /\ ProjectValue[<<DocumentSpec(s), d>>].kept = <<Project(s, d).payload>>
           /\ ProjectValue[<<DocumentSpec(s), d>>].dropped = Project(s, d).dropped
           /\ Project(s, d) = [payload |-> Project(s, d).payload, dropped |-> Project(s, d).dropped]
           /\ Project(s, d).payload \in Json /\ Project(s, d).payload.kind = "object"
<1> DEFINE spec == DocumentSpec(s)
           out == ProjectValue[<<spec, d>>]
<1>1. spec \in Specs /\ spec.kind = "object" /\ spec.allow = s.fields
  BY IngestAssumption DEF DocumentSpec
<1>2. out = ProjectObject(ProjectValue, s.fields, d.fields)
  BY <1>1, ObjectCase
<1>3. out.kept = <<Released(ObjectOutcomes(spec, d))>>
  BY <1>1, ObjectOutcome
<1>4. out.kept \in Seq(Json)
  BY <1>1, KeptIsOptional
<1>5. Released(ObjectOutcomes(spec, d)).kind = "object"
  BY DEF Released, Object
<1>6. Project(s, d) = [payload |-> Head(out.kept), dropped |-> out.dropped]
  BY <1>2 DEF Project
<1> HIDE DEF out, spec
<1>7. out.kept = <<Project(s, d).payload>> /\ out.dropped = Project(s, d).dropped
  BY <1>3, <1>6
<1>8. Project(s, d).payload \in Json /\ Project(s, d).payload.kind = "object"
  BY <1>3, <1>4, <1>5, <1>7
<1> QED
  BY <1>1, <1>6, <1>7, <1>8 DEF out, spec

-----------------------------------------------------------------------------
(* The invariant: each record is what the schema it was pushed under leaves of *)
(* what was received.                                                        *)

RowOf(s, d) ==
    [payload |-> Project(s, d).payload, dropped |-> Project(s, d).dropped,
     received |-> d, by |-> s]

IsStored(row) ==
    /\ row.by \in Schemas /\ Accepted(row.by)
    /\ row.received \in Json /\ row.received.kind = "object"
    /\ row = RowOf(row.by, row.received)
    /\ Size[row.payload] <= MaxSize

Rows == {row \in {RowOf(s, d) : s \in Schemas, d \in Json} : IsStored(row)}
Tables == UNION {[I -> Rows] : I \in SUBSET Ids}

IngestInv ==
    /\ schema \in Schemas /\ Accepted(schema)
    /\ running \in BOOLEAN
    /\ answer \in Codes
    /\ records \in Tables

\* What a table has at each id is a row that came from a document.
LEMMA RecordsAreStored ==
    ASSUME NEW current \in Tables
    PROVE  /\ DOMAIN current \subseteq Ids
           /\ current = [i \in DOMAIN current |-> current[i]]
           /\ \A id \in DOMAIN current : current[id] \in Rows /\ IsStored(current[id])
<1>1. PICK I \in SUBSET Ids : current \in [I -> Rows]
  BY DEF Tables
<1> QED
  BY <1>1 DEF Rows

\* Rows at ids are a table.
LEMMA TablesByRows ==
    ASSUME NEW I \in SUBSET Ids, NEW current, current = [i \in I |-> current[i]],
           \A i \in I : current[i] \in Rows
    PROVE  current \in Tables
<1>1. current \in [I -> Rows]
  OBVIOUS
<1> QED
  BY <1>1 DEF Tables

\* The id an envelope names or has extracted is an id, or there is none.
LEMMA IdsAreIds ==
    ASSUME NEW envelope \in Envelopes
    PROVE  IdOf(envelope) \in Ids \cup {NoId}
<1>1. \A value : Extracted(value) \in Ids \cup {NoId}
  BY DEF Extracted
<1>2. envelope.id \in Ids \cup {NoId}
  BY DEF Envelopes
<1> HIDE DEF NoId
<1> QED
  BY <1>1, <1>2 DEF IdOf

\* An upsert that is not refused has an id and a row that its schema made.
LEMMA UpsertIsStored ==
    ASSUME NEW envelope \in Envelopes, schema \in Schemas, Accepted(schema),
           RefusedUpsert(envelope) = "none"
    PROVE  IdOf(envelope) \in Ids /\ Stored(envelope) \in Rows
<1> DEFINE d == envelope.payload
<1>1. /\ ~NoPayload(envelope) /\ IdOf(envelope) # NoId /\ d.kind = "object" /\ ~TooLarge(envelope)
  BY DEF RefusedUpsert
<1>2. d \in Json
  <2>1. d \in Json \cup {Absent}
    BY DEF Envelopes
  <2>2. Absent.kind = "absent"
    BY DEF Absent
  <2> HIDE DEF d
  <2> QED
    BY <1>1, <2>1, <2>2
<1>3. Stored(envelope) = RowOf(schema, d)
  BY DEF Stored, RowOf
<1> DEFINE row == RowOf(schema, d)
<1>4. row.by = schema /\ row.received = d /\ row.payload = Project(schema, d).payload
  BY DEF RowOf
<1>5. Size[Project(schema, d).payload] <= MaxSize
  <2>1. ~(Size[Project(schema, d).payload] > MaxSize)
    BY <1>1 DEF TooLarge
  <2>2. Project(schema, d).payload \in Json
    BY <1>1, <1>2, DocumentOutcome
  <2>3. Size[Project(schema, d).payload] \in Nat /\ MaxSize \in Nat
    BY <2>2, SizeUnfolds, IngestAssumption
  <2> QED
    BY <2>1, <2>3
<1> HIDE DEF row, d
<1>6. IsStored(row)
  BY <1>1, <1>2, <1>4, <1>5 DEF IsStored, row
<1>7. row \in Rows
  BY <1>2, <1>6 DEF Rows, row
<1> QED
  BY <1>1, <1>3, <1>7, IdsAreIds DEF row

\* An operation that is not refused turns a table into a table.
LEMMA AppliedIsTable ==
    ASSUME NEW current \in Tables, NEW envelope \in Envelopes, schema \in Schemas, Accepted(schema),
           Refused(envelope) = "none"
    PROVE  Applied(current, envelope) \in Tables
<1> DEFINE next == Applied(current, envelope)
           id == IdOf(envelope)
<1>1. /\ DOMAIN current \subseteq Ids
      /\ \A i \in DOMAIN current : current[i] \in Rows
  BY RecordsAreStored
<1>2. CASE envelope.op = "upsert"
  <2>1. id \in Ids /\ Stored(envelope) \in Rows
    BY <1>2, UpsertIsStored DEF Refused
  <2> DEFINE I == DOMAIN current \cup {id}
  <2>2. next = [i \in I |-> IF i = id THEN Stored(envelope) ELSE current[i]]
    BY <1>2 DEF Applied
  <2> HIDE DEF next, id
  <2>3. I \in SUBSET Ids /\ next = [i \in I |-> next[i]] /\ \A i \in I : next[i] \in Rows
    BY <1>1, <2>1, <2>2
  <2> HIDE DEF I
  <2> QED
    BY <2>3, TablesByRows DEF next
<1>3. CASE envelope.op # "upsert"
  <2> DEFINE I == DOMAIN current \ {envelope.id}
  <2>1. next = [i \in I |-> current[i]]
    BY <1>3 DEF Applied
  <2> HIDE DEF next
  <2>2. I \in SUBSET Ids /\ next = [i \in I |-> next[i]] /\ \A i \in I : next[i] \in Rows
    BY <1>1, <2>1
  <2> HIDE DEF I
  <2> QED
    BY <2>2, TablesByRows DEF next
<1> QED
  BY <1>2, <1>3

\* A batch of envelopes none of which is refused, applied one after the other.
LEMMA BatchApplied ==
    ASSUME NEW current \in Tables, NEW batch \in Seq(Envelopes),
           schema \in Schemas, Accepted(schema),
           \A i \in 1 .. Len(batch) : Refused(batch[i]) = "none"
    PROVE  FoldLeft(Applied, current, batch) \in Tables
<1> DEFINE n == Len(batch)
           T == 1 .. n
           V == Tables
           Op == [p \in T \X V |-> Applied(p[2], batch[p[1]])]
           first == [s \in SUBSET T |-> Max(s)]
<1>1. n \in Nat /\ DOMAIN batch = T /\ \A i \in T : batch[i] \in Envelopes
  OBVIOUS
<1>2. Foldable(T, V, current, Op, first)
  <2>1. IsFiniteSet(T)
    BY <1>1, FS_Interval
  <2>2. Op \in [T \X V -> V]
    <3>1. \A i \in T : \A t \in V : Applied(t, batch[i]) \in V
      BY <1>1, AppliedIsTable
    <3> HIDE DEF T, V
    <3> QED
      BY <3>1
  <2>3. \A s \in SUBSET T : s # {} => first[s] \in s
    BY <1>1, LargestIsIn
  <2> HIDE DEF T, Op, first
  <2> QED
    BY <2>1, <2>2, <2>3 DEF Foldable
<1>3. PICK iter : Fold(iter, T, V, current, Op, first)
  <2> HIDE DEF T, V, Op, first
  <2> QED
    BY <1>2, FoldExists
<1>4. ASSUME NEW s \in SUBSET T, s # {}
      PROVE  iter[s] = Applied(iter[s \ {Max(s)}], batch[Max(s)])
  <2>1. first[s] = Max(s) /\ Max(s) \in T
    BY <1>1, <1>4, LargestIsIn
  <2>2. iter[s] = Op[<<Max(s), iter[s \ {Max(s)}]>>] /\ iter[s \ {Max(s)}] \in V
    <3> HIDE DEF T, V, Op, first
    <3> QED
      BY <1>3, <1>4, <2>1 DEF Fold
  <2>3. \A i \in T : \A v \in V : Op[<<i, v>>] = Applied(v, batch[i])
    <3> HIDE DEF T, V
    <3> QED
      OBVIOUS
  <2> HIDE DEF T, V, Op, first
  <2> QED
    BY <2>1, <2>2, <2>3
<1>5. iter \in [SUBSET T -> V] /\ iter[{}] = current
  BY <1>3 DEF Fold
<1>6. iter = [s \in SUBSET T |-> IF s = {} THEN current
                                   ELSE Applied(iter[s \ {Max(s)}], batch[Max(s)])]
  <2> HIDE DEF T, V, Op, first
  <2> QED
    BY <1>4, <1>5
<1> DEFINE it == CHOOSE f : f = [s \in SUBSET T |-> IF s = {} THEN current
                                   ELSE Applied(f[s \ {Max(s)}], batch[Max(s)])]
<1>7. it = [s \in SUBSET T |-> IF s = {} THEN current ELSE Applied(it[s \ {Max(s)}], batch[Max(s)])]
  BY <1>6
<1>8. FoldLeft(Applied, current, batch) = it[T]
  <2>1. FoldLeft(Applied, current, batch)
          = (CHOOSE f : f = [s \in SUBSET DOMAIN batch |-> IF s = {} THEN current
                               ELSE Applied(f[s \ {Max(s)}], batch[Max(s)])])[DOMAIN batch]
    BY DEF FoldLeft, MapThenFoldSet
  <2> QED
    BY <1>1, <2>1
<1> HIDE DEF it
<1> DEFINE Good == {s \in SUBSET T : it[s] = iter[s]}
<1>9. ASSUME NEW s \in SUBSET T, \A t \in SUBSET s : t # s => t \in Good PROVE s \in Good
  <2>1. CASE s = {}
    BY <1>5, <1>7, <2>1
  <2>2. CASE s # {}
    <3>1. Max(s) \in s
      BY <1>1, <2>2, LargestIsIn
    <3> DEFINE t == s \ {Max(s)}
    <3>2. t \in SUBSET s /\ t # s
      BY <3>1
    <3>3. it[t] = iter[t]
      BY <1>9, <3>2
    <3>4. it[s] = Applied(it[t], batch[Max(s)]) /\ iter[s] = Applied(iter[t], batch[Max(s)])
      <4> HIDE DEF T
      <4> QED
        BY <1>6, <1>7, <2>2
    <3> HIDE DEF t
    <3> QED
      BY <3>3, <3>4
  <2> QED
    BY <2>1, <2>2
<1> HIDE DEF Good
<1>10. IsFiniteSet(T)
  BY <1>2 DEF Foldable
<1>11. \A s \in SUBSET T : s \in Good
  <2> HIDE DEF T
  <2> QED
    BY <1>9, <1>10, SubsetInduction
<1>12. it[T] = iter[T] /\ iter[T] \in V
  <2> HIDE DEF T, V
  <2> QED
    BY <1>5, <1>11 DEF Good
<1> QED
  BY <1>8, <1>12

\* A batch is answered with a code, and with success only if none of its operations
\* is refused.
LEMMA NoneRefused ==
    ASSUME NEW batch \in Seq(Envelopes)
    PROVE  /\ Verdict(batch) \in Codes
           /\ Verdict(batch) = "ok" => \A i \in 1 .. Len(batch) : Refused(batch[i]) = "none"
<1> DEFINE I == {i \in 1 .. Len(batch) : Refused(batch[i]) # "none"}
<1>1. FirstRefused(batch) = IF I # {} THEN Min(I) ELSE 0
  BY DEF FirstRefused, SelectInSeq
<1>2. I # {} => Min(I) \in I
  <2> SUFFICES ASSUME I # {} PROVE Min(I) \in I
    OBVIOUS
  <2>1. I \in SUBSET Nat
    OBVIOUS
  <2> HIDE DEF I
  <2>2. \E x \in I : \A y \in I : x <= y
    BY <2>1, SmallestOfSet
  <2> QED
    BY <2>2 DEF Min
<1>3. \A e : Refused(e) \in Codes \ {"ok"}
  BY DEF Refused, RefusedUpsert, RefusedDelete, Codes
<1>4. \A i \in I : i # 0
  OBVIOUS
<1> HIDE DEF I
<1>5. CASE I = {}
  <2>1. Verdict(batch) \in {"ok", "batch_too_large"}
    BY <1>1, <1>5 DEF Verdict
  <2> QED
    BY <1>5, <2>1 DEF Codes, I
<1>6. CASE I # {}
  <2>1. FirstRefused(batch) # 0
    BY <1>1, <1>2, <1>4, <1>6
  <2>2. Verdict(batch) \in Codes \ {"ok"}
    BY <1>3, <2>1 DEF Verdict, Codes
  <2> QED
    BY <2>2
<1> QED
  BY <1>5, <1>6

-----------------------------------------------------------------------------
(* The invariant holds. *)

\* A fresh service satisfies the invariant.
LEMMA IngestInit == Init => IngestInv
<1> SUFFICES ASSUME Init PROVE IngestInv
  OBVIOUS
<1>1. schema \in Schemas /\ Accepted(schema) /\ running \in BOOLEAN /\ answer \in Codes
  BY DEF Init, Codes
<1>2. << >> = [i \in {} |-> << >>[i]]
  OBVIOUS
<1>3. records \in Tables
  BY <1>2, TablesByRows DEF Init
<1> QED
  BY <1>1, <1>3 DEF IngestInv

\* A batch keeps it, whatever its envelopes are.
LEMMA PostKeepsInv ==
    ASSUME IngestInv, NEW batch \in Batches, Post(batch)
    PROVE  IngestInv'
<1>1. batch \in Seq(Envelopes)
  BY IngestAssumption
<1>2. Verdict(batch) \in Codes
  BY <1>1, NoneRefused
<1>3. records' \in Tables
  <2>1. CASE Verdict(batch) = "ok"
    <3>1. \A i \in 1 .. Len(batch) : Refused(batch[i]) = "none"
      BY <1>1, <2>1, NoneRefused
    <3>2. records \in Tables /\ schema \in Schemas /\ Accepted(schema)
      BY DEF IngestInv
    <3>3. FoldLeft(Applied, records, batch) \in Tables
      BY <1>1, <3>1, <3>2, BatchApplied
    <3>4. records' = FoldLeft(Applied, records, batch)
      BY <2>1 DEF Post
    <3> QED
      BY <3>3, <3>4
  <2>2. CASE Verdict(batch) # "ok"
    BY <2>2 DEF Post, IngestInv
  <2> QED
    BY <2>1, <2>2
<1>4. answer' \in Codes /\ schema' = schema /\ running' = running
  BY <1>2 DEF Post
<1>5. Tables' = Tables /\ Accepted(schema)' = Accepted(schema)
  <2>1. Tables' = Tables
    BY DEF Tables, Rows, RowOf, IsStored, Project, Accepted
  <2>2. Accepted(schema)' = Accepted(schema)
    BY <1>4 DEF Accepted
  <2> QED
    BY <2>1, <2>2
<1> QED
  BY <1>3, <1>4, <1>5 DEF IngestInv

\* A restart with another schema keeps it.
LEMMA RestartKeepsInv ==
    ASSUME IngestInv, NEW deployed \in Schemas, Restart(deployed)
    PROVE  IngestInv'
<1>1. Accepted(deployed) \in BOOLEAN
  BY DEF Accepted
<1>2. running' \in BOOLEAN /\ answer' \in Codes /\ records' \in Tables
  BY <1>1 DEF Restart, Codes, IngestInv
<1>3. schema' \in Schemas /\ Accepted(schema')
  BY DEF Restart, IngestInv
<1> QED
  BY <1>2, <1>3 DEF IngestInv

\* The invariant the other theorems rest on: the service runs under a schema it has
\* accepted, and every row is the projection of the document it came from, under the
\* schema of that time, within the size limit (ingest, and the check of schemas at start).
THEOREM IngestInvariant == Spec => []IngestInv
<1>1. Init => IngestInv
  BY IngestInit
<1>2. IngestInv /\ [Next]_vars => IngestInv'
  <2> SUFFICES ASSUME IngestInv, [Next]_vars PROVE IngestInv'
    OBVIOUS
  <2>1. CASE \E batch \in Batches : Post(batch)
    BY <2>1, PostKeepsInv
  <2>2. CASE \E deployed \in Schemas : Restart(deployed)
    BY <2>2, RestartKeepsInv
  <2>3. CASE UNCHANGED vars
    BY <2>3 DEF vars, IngestInv
  <2> QED
    BY <2>1, <2>2, <2>3 DEF Next
<1> QED
  BY <1>1, <1>2, PTL DEF Spec

-----------------------------------------------------------------------------
(* What follows from it. *)

\* Every variable of the ingest service has its type, for any documents and schemas.
THEOREM IngestTypeCorrect == Spec => []IngestTypeOK
<1>1. IngestInv => IngestTypeOK
  BY RecordsAreStored DEF IngestInv, IngestTypeOK
<1> QED
  BY <1>1, IngestInvariant, PTL

\* Each record of a reachable state, as it was stored.
LEMMA StoredRecord ==
    ASSUME IngestInv, NEW id \in DOMAIN records
    PROVE  LET r == records[id] IN
           /\ r.by \in Schemas /\ Accepted(r.by) /\ DocumentSpec(r.by) \in Specs
           /\ r.received \in Json /\ r.received.kind = "object"
           /\ r.payload = Project(r.by, r.received).payload
           /\ r.dropped = Project(r.by, r.received).dropped
           /\ r.payload \in Json /\ r.payload.kind = "object"
           /\ Size[r.payload] <= MaxSize
           /\ ProjectValue[<<DocumentSpec(r.by), r.received>>].kept = <<r.payload>>
           /\ ProjectValue[<<DocumentSpec(r.by), r.received>>].dropped = r.dropped
<1> DEFINE r == records[id]
<1>1. IsStored(r)
  BY RecordsAreStored DEF IngestInv
<1> HIDE DEF r
<1>2. /\ r.by \in Schemas /\ Accepted(r.by)
      /\ r.received \in Json /\ r.received.kind = "object"
      /\ Size[r.payload] <= MaxSize
      /\ r = RowOf(r.by, r.received)
  BY <1>1 DEF IsStored
<1>3. /\ r.payload = Project(r.by, r.received).payload
      /\ r.dropped = Project(r.by, r.received).dropped
  <2>1. /\ RowOf(r.by, r.received).payload = Project(r.by, r.received).payload
        /\ RowOf(r.by, r.received).dropped = Project(r.by, r.received).dropped
    BY DEF RowOf
  <2> QED
    BY <1>2, <2>1
<1>4. /\ DocumentSpec(r.by) \in Specs
      /\ ProjectValue[<<DocumentSpec(r.by), r.received>>].kept = <<r.payload>>
      /\ ProjectValue[<<DocumentSpec(r.by), r.received>>].dropped = r.dropped
      /\ r.payload \in Json /\ r.payload.kind = "object"
  BY <1>2, <1>3, DocumentOutcome
<1> QED
  BY <1>2, <1>3, <1>4 DEF r

\* No record has anything its schema did not release when it was stored, at any depth
\* of nesting (project, called before the batch reaches the store).
THEOREM StoredIsReleased == Spec => []OnlyReleasedIsStored
<1>1. IngestInv => OnlyReleasedIsStored
  <2> SUFFICES ASSUME IngestInv, NEW id \in DOMAIN records
               PROVE  Releases[<<DocumentSpec(records[id].by), records[id].payload>>]
    BY DEF OnlyReleasedIsStored
  <2> QED
    BY StoredRecord, KeptIsReleased
<1> QED
  BY <1>1, IngestInvariant, PTL

\* What was pushed and is not stored is reported, and nothing else: the stored document
\* is the pushed one without exactly the parts at the paths that project() reports,
\* whatever the document, each of them a part of it that is reported once.
THEOREM DropsAccountForAll == Spec => []NothingIsDroppedSilently
<1>1. IngestInv => NothingIsDroppedSilently
  <2> SUFFICES ASSUME IngestInv, NEW id \in DOMAIN records
               PROVE  LET r == records[id]
                      IN  /\ r.payload = Without[<<r.received, {drop.path : drop \in r.dropped}>>]
                          /\ \A drop \in r.dropped : At(drop.path, r.received) # Absent
                          /\ \A drop, other \in r.dropped :
                               IsPrefix(drop.path, other.path) => other = drop
    BY DEF NothingIsDroppedSilently
  <2> DEFINE r == records[id]
             out == ProjectValue[<<DocumentSpec(r.by), r.received>>]
  <2>1. /\ DocumentSpec(r.by) \in Specs /\ r.received \in Json
        /\ out.kept = <<r.payload>> /\ out.dropped = r.dropped
    BY StoredRecord
  <2>2. Accounts(out, r.received)
    BY <2>1, OutcomeAccounts
  <2> HIDE DEF out, r
  <2>3. Reported(out) = {drop.path : drop \in r.dropped}
    BY <2>1 DEF Reported, PathsOf
  <2>4. r.payload = Without[<<r.received, Reported(out)>>]
    BY <2>1, <2>2 DEF Accounts
  <2>5. DropsAt(r.dropped, r.received)
    BY <2>1, <2>2 DEF Accounts
  <2>6. \A v \in Json : v # Absent
    <3>1. Absent.kind = "absent"
      BY DEF Absent
    <3>2. \A v \in Json : v.kind # "absent"
      BY JsonAssumption
    <3> QED
      BY <3>1, <3>2
  <2> QED
    BY <2>3, <2>4, <2>5, <2>6 DEF DropsAt, r
<1> QED
  BY <1>1, IngestInvariant, PTL

\* Pushing back what is read under the schema it was stored with changes nothing and
\* drops nothing: project() is idempotent.
THEOREM StoredIsStable == Spec => []ReadsBackUnchanged
<1>1. IngestInv => ReadsBackUnchanged
  <2> SUFFICES ASSUME IngestInv, NEW id \in DOMAIN records
               PROVE  /\ Size[records[id].payload] <= MaxSize
                      /\ Project(records[id].by, records[id].payload)
                           = [payload |-> records[id].payload, dropped |-> {}]
    BY DEF ReadsBackUnchanged
  <2> DEFINE r == records[id]
             spec == DocumentSpec(r.by)
  <2>1. /\ r.by \in Schemas /\ spec \in Specs /\ r.received \in Json
        /\ r.payload \in Json /\ r.payload.kind = "object" /\ Size[r.payload] <= MaxSize
        /\ ProjectValue[<<spec, r.received>>].kept = <<r.payload>>
    BY StoredRecord
  <2>2. Releases[<<spec, r.payload>>]
    BY <2>1, KeptIsReleased
  <2>3. ProjectValue[<<spec, r.payload>>] = Keep(r.payload)
    BY <2>1, <2>2, ReleasedIsKept
  <2>4. /\ ProjectValue[<<spec, r.payload>>].kept = <<Project(r.by, r.payload).payload>>
        /\ ProjectValue[<<spec, r.payload>>].dropped = Project(r.by, r.payload).dropped
        /\ Project(r.by, r.payload) = [payload |-> Project(r.by, r.payload).payload,
                                       dropped |-> Project(r.by, r.payload).dropped]
    BY <2>1, DocumentOutcome
  <2> HIDE DEF r, spec
  <2>5. Project(r.by, r.payload).payload = r.payload /\ Project(r.by, r.payload).dropped = {}
    BY <2>3, <2>4 DEF Keep
  <2> QED
    BY <2>1, <2>4, <2>5 DEF r
<1> QED
  BY <1>1, IngestInvariant, PTL

\* To withdraw fields, the stored payload can be projected again under the narrower
\* schema: the result is what the sender's document would give.
THEOREM ReprojectionIsEnough == Spec => []ReprojectionNeedsNoSender
<1>1. IngestInv => ReprojectionNeedsNoSender
  <2> SUFFICES ASSUME IngestInv, NEW id \in DOMAIN records,
                      Narrower[<<DocumentSpec(schema), DocumentSpec(records[id].by)>>]
               PROVE  Project(schema, records[id].payload).payload
                        = Project(schema, records[id].received).payload
    BY DEF ReprojectionNeedsNoSender
  <2> DEFINE r == records[id]
             wide == DocumentSpec(r.by)
             spec == DocumentSpec(schema)
  <2>1. /\ wide \in Specs /\ r.received \in Json /\ r.received.kind = "object"
        /\ r.payload \in Json /\ r.payload.kind = "object"
        /\ ProjectValue[<<wide, r.received>>].kept = <<r.payload>>
    BY StoredRecord
  <2>2. schema \in Schemas
    BY DEF IngestInv
  <2>3. /\ spec \in Specs
        /\ ProjectValue[<<spec, r.payload>>].kept = <<Project(schema, r.payload).payload>>
        /\ ProjectValue[<<spec, r.received>>].kept = <<Project(schema, r.received).payload>>
    BY <2>1, <2>2, DocumentOutcome
  <2>4. SameFor(r.received, spec, wide)
    BY <2>1, <2>3, ReprojectionIsDirect
  <2> HIDE DEF r, spec, wide
  <2>5. ProjectValue[<<spec, r.payload>>].kept = ProjectValue[<<spec, r.received>>].kept
    BY <2>1, <2>4 DEF SameFor
  <2> QED
    BY <2>3, <2>5 DEF r
<1> QED
  BY <1>1, IngestInvariant, PTL

\* A filter on a field finds a record exactly if the pushed document had the value the
\* filter was coerced to (Filter::parse and coerce), for the fields a filter may name.
THEOREM FiltersAreExact == Spec => []FiltersSeeWhatWasPushed
<1>1. IngestInv => FiltersSeeWhatWasPushed
  <2> SUFFICES ASSUME IngestInv, NEW id \in DOMAIN records, NEW query \in Queries,
                      FilterAccepted(query), records[id].by = schema
               PROVE  LET pushed == records[id].received.fields
                      IN  Listed(query, records[id].payload) <=>
                            /\ query.field \in DOMAIN pushed
                            /\ pushed[query.field] =
                                 [kind |-> schema.fields[query.field].kind, is |-> query.text]
    BY DEF FiltersSeeWhatWasPushed
  <2> DEFINE r == records[id]
             field == query.field
             spec == schema.fields[field]
             document == DocumentSpec(schema)
             pushed == r.received.fields
             outs == ObjectOutcomes(document, r.received)
             wanted == [kind |-> spec.kind, is |-> query.text]
  <2>1. /\ r.received \in Json /\ r.received.kind = "object"
        /\ document \in Specs
        /\ ProjectValue[<<document, r.received>>].kept = <<r.payload>>
    BY StoredRecord
  <2>2. field \in DOMAIN schema.fields /\ Indexed(spec)
    BY DEF FilterAccepted, Accepted, IngestInv
  <2>3. document.kind = "object" /\ document.allow = schema.fields
    BY DEF DocumentSpec
  <2>4. spec \in Specs
    BY <2>1, <2>2, <2>3, SpecParts
  <2>5. spec.kind \in ScalarTypes /\ spec.kind # "scalar"
    BY <2>2, <2>4, SpecAssumption DEF Indexed, ScalarTypes
  <2>6. Coerce(spec, query.text) = wanted
    BY <2>5 DEF Coerce
  <2>7. r.payload = Released(outs)
    <3>1. ProjectValue[<<document, r.received>>].kept = <<Released(outs)>>
      BY <2>1, <2>3, ObjectOutcome
    <3> HIDE DEF outs, r
    <3> QED
      BY <2>1, <3>1
  <2>8. /\ DOMAIN outs = DOMAIN pushed
        /\ field \in DOMAIN pushed => outs[field] = ProjectValue[<<spec, pushed[field]>>]
    BY <2>2, <2>3 DEF ObjectOutcomes
  <2>9. /\ field \in DOMAIN r.payload.fields <=> field \in DOMAIN outs /\ outs[field].kept # << >>
        /\ field \in DOMAIN r.payload.fields => r.payload.fields[field] = Head(outs[field].kept)
    BY <2>7 DEF Released, Object
  <2>10. field \in DOMAIN pushed =>
            outs[field].kept = IF pushed[field].kind = spec.kind THEN <<pushed[field]>> ELSE << >>
    <3> SUFFICES ASSUME field \in DOMAIN pushed
                 PROVE  outs[field].kept
                          = IF pushed[field].kind = spec.kind THEN <<pushed[field]>> ELSE << >>
      OBVIOUS
    <3>1. pushed[field] \in Json
      BY <2>1, JsonParts
    <3>2. ProjectValue[<<spec, pushed[field]>>].kept
            = IF Accepts(spec.kind, pushed[field]) THEN <<pushed[field]>> ELSE << >>
      BY <2>4, <2>5, <3>1, ScalarKept
    <3>3. Accepts(spec.kind, pushed[field]) <=> pushed[field].kind = spec.kind
      BY <2>5 DEF Accepts
    <3> HIDE DEF outs, spec, pushed
    <3> QED
      BY <2>8, <3>2, <3>3
  <2>11. Listed(query, r.payload) <=>
            field \in DOMAIN r.payload.fields /\ r.payload.fields[field] = wanted
    BY <2>6 DEF Listed
  <2>12. wanted.kind = spec.kind
    OBVIOUS
  <2> HIDE DEF outs, spec, pushed, r, wanted, field
  <2>13. Listed(query, r.payload) <=> field \in DOMAIN pushed /\ pushed[field] = wanted
    <3>1. CASE field \notin DOMAIN pushed
      BY <2>8, <2>9, <2>11, <3>1
    <3>2. CASE field \in DOMAIN pushed /\ pushed[field].kind = spec.kind
      <4>1. outs[field].kept = <<pushed[field]>>
        BY <2>10, <3>2
      <4>2. field \in DOMAIN r.payload.fields /\ r.payload.fields[field] = pushed[field]
        BY <2>8, <2>9, <3>2, <4>1
      <4> QED
        BY <2>11, <3>2, <4>2
    <3>3. CASE field \in DOMAIN pushed /\ pushed[field].kind # spec.kind
      <4>1. outs[field].kept = << >>
        BY <2>10, <3>3
      <4>2. field \notin DOMAIN r.payload.fields /\ pushed[field] # wanted
        BY <2>9, <2>12, <3>3, <4>1
      <4> QED
        BY <2>11, <4>2
    <3> QED
      BY <3>1, <3>2, <3>3
  <2> QED
    BY <2>13 DEF spec, pushed, r, wanted, field
<1> QED
  BY <1>1, IngestInvariant, PTL
=============================================================================
