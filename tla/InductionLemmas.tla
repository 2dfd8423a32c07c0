-------------------------- MODULE InductionLemmas ---------------------------
(***************************************************************************)
(* Induction over the numbers up to a bound, recursion over them, and      *)
(* searches in rounds: what the proofs about recursive functions need.     *)
(* (The library's theorems on induction take an operator as a parameter;   *)
(* these take a set or a function.)                                        *)
(***************************************************************************)
EXTENDS Naturals, SequencesExt, FiniteSets, FiniteSetTheorems, WellFoundedInduction, TLAPS

-----------------------------------------------------------------------------
(***************************************************************************)
(* A set of numbers has a least one; what holds for 0 and for a number     *)
(* after one for which it holds, holds for all; recursion has a solution.  *)
(***************************************************************************)
LEMMA LeastExists ==
    ASSUME NEW S \in SUBSET Nat, S # {}
    PROVE  \E n \in S : \A k \in S : n <= k
<1> DEFINE Below(n) == 0..n
           Belows == {Below(n) : n \in S}
<1>1. \A n \in S : IsFiniteSet(Below(n)) /\ Below(n) \subseteq Nat
  BY FS_Interval
<1>2. Belows \subseteq FiniteSubsetsOf(Nat) /\ Belows # {}
  BY <1>1 DEF FiniteSubsetsOf
<1>3. PICK B \in Belows : \A C \in Belows : ~(<<C, B>> \in StrictSubsetOrdering(Nat))
  BY <1>2, FS_StrictSubsetOrderingWellFounded, WFMin
<1>4. PICK n \in S : B = Below(n)
  BY <1>3
<1>5. ASSUME NEW k \in S PROVE n <= k
  <2>1. ~(Below(k) \subseteq Below(n) /\ Below(k) # Below(n))
    BY <1>1, <1>3, <1>4 DEF StrictSubsetOrdering
  <2>2. CASE k < n
    <3>1. Below(k) \subseteq Below(n) /\ n \in Below(n) /\ n \notin Below(k)
      BY <2>2
    <3> QED
      BY <2>1, <3>1
  <2> QED
    BY <2>2
<1> QED
  BY <1>5

LEMMA OneAfterTheOther ==
    ASSUME NEW S, 0 \in S, NEW N \in Nat,
           \A n \in 1 .. N : n - 1 \in S => n \in S
    PROVE  \A n \in 0 .. N : n \in S
<1> DEFINE T == {n \in 0 .. N : n \notin S}
<1> SUFFICES ASSUME T # {} PROVE FALSE
  OBVIOUS
<1>1. PICK n \in T : \A k \in T : n <= k
  <2>1. T \in SUBSET Nat
    OBVIOUS
  <2> HIDE DEF T
  <2> QED
    BY <2>1, LeastExists
<1>2. n \in 1 .. N /\ n - 1 \in 0 .. N /\ n - 1 \notin T
  BY <1>1
<1> QED
  BY <1>2

Solves(f, F, start, N) == f[0] = start /\ \A n \in 1 .. N : f[n] = F[<<n, f[n - 1]>>]

LEMMA RecursionExists ==
    ASSUME NEW D, NEW start \in D, NEW F \in [Nat \X D -> D], NEW N \in Nat
    PROVE  \E f \in [0 .. N -> D] : Solves(f, F, start, N)
<1> DEFINE S == {M \in Nat : \E f \in [0 .. M -> D] : Solves(f, F, start, M)}
<1>1. 0 \in S
  <2>1. [n \in 0 .. 0 |-> start] \in [0 .. 0 -> D] /\ Solves([n \in 0 .. 0 |-> start], F, start, 0)
    BY DEF Solves
  <2> QED
    BY <2>1
<1>2. ASSUME NEW M \in 1 .. N, M - 1 \in S PROVE M \in S
  <2>1. PICK f \in [0 .. M - 1 -> D] : Solves(f, F, start, M - 1)
    BY <1>2
  <2> DEFINE g == [n \in 0 .. M |-> IF n = M THEN F[<<M, f[M - 1]>>] ELSE f[n]]
  <2>2. \A n \in 0 .. M - 1 : g[n] = f[n] /\ f[n] \in D
    OBVIOUS
  <2>3. g[M] = F[<<M, f[M - 1]>>] /\ g[M] \in D
    <3>1. f[M - 1] \in D
      BY <2>2
    <3>2. F[<<M, f[M - 1]>>] \in D
      BY <3>1
    <3> QED
      BY <3>2
  <2>4. g \in [0 .. M -> D]
    <3>1. \A n \in 0 .. M : n \in 0 .. M - 1 \/ n = M
      OBVIOUS
    <3> QED
      BY <2>2, <2>3, <3>1
  <2> HIDE DEF g
  <2>5. ASSUME NEW n \in 1 .. M PROVE g[n] = F[<<n, g[n - 1]>>]
    <3>1. CASE n = M
      <4>1. g[M - 1] = f[M - 1]
        BY <2>2
      <4> QED
        BY <2>3, <3>1, <4>1
    <3>2. CASE n # M
      <4>1. n \in 1 .. M - 1 /\ n \in 0 .. M - 1 /\ n - 1 \in 0 .. M - 1
        BY <3>2
      <4>2. f[n] = F[<<n, f[n - 1]>>]
        BY <2>1, <4>1 DEF Solves
      <4> QED
        BY <2>2, <4>1, <4>2
    <3> QED
      BY <3>1, <3>2
  <2>6. g[0] = start
    BY <2>1, <2>2 DEF Solves
  <2>7. Solves(g, F, start, M)
    BY <2>5, <2>6 DEF Solves
  <2> QED
    BY <2>4, <2>7
<1> HIDE DEF S
<1>3. N \in S
  BY <1>1, <1>2, OneAfterTheOther
<1> QED
  BY <1>3 DEF S

(***************************************************************************)
(* Searches.  Rounds that follow the edges G from the items A, N of them.  *)
(***************************************************************************)
Follow(G, X) == X \cup {e[2] : e \in {g \in G : g[1] \in X}}

AreRounds(f, N, G, A) == f = [n \in 0 .. N |-> IF n = 0 THEN A ELSE Follow(G, f[n - 1])]

LEMMA RoundsExist ==
    ASSUME NEW G, NEW A, NEW N \in Nat
    PROVE  \E f : AreRounds(f, N, G, A)
<1> DEFINE D == SUBSET (A \cup {e[2] : e \in G})
           F == [q \in Nat \X D |-> Follow(G, q[2])]
<1>1. \A X \in D : Follow(G, X) \in D
  BY DEF Follow
<1>2. F \in [Nat \X D -> D]
  BY <1>1
<1>3. \A n \in Nat : \A X \in D : F[<<n, X>>] = Follow(G, X)
  OBVIOUS
<1> HIDE DEF F, D
<1>4. A \in D
  BY DEF D
<1>5. PICK f \in [0 .. N -> D] : Solves(f, F, A, N)
  BY <1>2, <1>4, RecursionExists
<1>6. \A n \in 0 .. N : f[n] = IF n = 0 THEN A ELSE Follow(G, f[n - 1])
  <2> SUFFICES ASSUME NEW n \in 0 .. N, n # 0 PROVE f[n] = Follow(G, f[n - 1])
    BY <1>5 DEF Solves
  <2>1. n \in 1 .. N /\ n - 1 \in 0 .. N /\ n \in Nat
    OBVIOUS
  <2>2. f[n - 1] \in D
    BY <1>5, <2>1
  <2> QED
    BY <1>3, <1>5, <2>1, <2>2 DEF Solves
<1>7. AreRounds(f, N, G, A)
  BY <1>6 DEF AreRounds
<1> QED
  BY <1>7

(***************************************************************************)
(* As many rounds as there are items find everything there is to find.     *)
(***************************************************************************)
LEMMA RoundsFindAll ==
    ASSUME NEW All, IsFiniteSet(All), NEW G \in SUBSET (All \X All),
           NEW A \in SUBSET All, A # {},
           NEW f, AreRounds(f, Cardinality(All), G, A)
    PROVE  LET found == f[Cardinality(All)] IN
           /\ A \subseteq found /\ found \subseteq All
           /\ \A e \in G : e[1] \in found => e[2] \in found
           /\ \A W : A \subseteq W /\ (\A e \in G : e[1] \in W => e[2] \in W) => found \subseteq W
<1> DEFINE N == Cardinality(All)
<1>1. IsFiniteSet(All) /\ N \in Nat
  BY FS_CardinalityType
<1> HIDE DEF N
<1>2. /\ f[0] = A
      /\ \A n \in 0 .. N : n # 0 => f[n] = Follow(G, f[n - 1])
  BY <1>1 DEF AreRounds, N
<1>3. \A n \in 0 .. N : A \subseteq f[n] /\ f[n] \subseteq All
  <2> DEFINE S == {n \in 0 .. N : ~(A \subseteq f[n] /\ f[n] \subseteq All)}
  <2> SUFFICES ASSUME S # {} PROVE FALSE
    OBVIOUS
  <2>1. PICK n \in S : \A k \in S : n <= k
    <3> HIDE DEF S
    <3>1. S \subseteq Nat
      BY DEF S
    <3> QED
      BY <3>1, LeastExists
  <2>2. n # 0
    BY <1>2
  <2>3. n - 1 \in 0 .. N /\ n - 1 \notin S
    BY <1>1, <2>1, <2>2
  <2>4. A \subseteq f[n - 1] /\ f[n - 1] \subseteq All
    BY <2>3
  <2>5. f[n] = Follow(G, f[n - 1])
    BY <1>2, <2>2
  <2> QED
    BY <2>4, <2>5 DEF Follow
<1>4. \A W : A \subseteq W /\ (\A e \in G : e[1] \in W => e[2] \in W) => f[N] \subseteq W
  <2> SUFFICES ASSUME NEW W, A \subseteq W, \A e \in G : e[1] \in W => e[2] \in W
               PROVE  f[N] \subseteq W
    OBVIOUS
  <2> DEFINE S == {n \in 0 .. N : ~(f[n] \subseteq W)}
  <2> SUFFICES ASSUME S # {} PROVE FALSE
    BY <1>1
  <2>1. PICK n \in S : \A k \in S : n <= k
    <3> HIDE DEF S
    <3>1. S \subseteq Nat
      BY DEF S
    <3> QED
      BY <3>1, LeastExists
  <2>2. n # 0
    BY <1>2
  <2>3. n - 1 \in 0 .. N /\ n - 1 \notin S
    BY <1>1, <2>1, <2>2
  <2>4. f[n] = Follow(G, f[n - 1])
    BY <1>2, <2>2
  <2> QED
    BY <2>3, <2>4 DEF Follow
<1>5. PICK n \in 0 .. N : n # 0 /\ f[n] = f[n - 1]
  <2> DEFINE S == {k \in 0 .. N : Cardinality(f[k]) <= k}
  <2>1. \A k \in 0 .. N : IsFiniteSet(f[k]) /\ Cardinality(f[k]) \in Nat /\ Cardinality(f[k]) <= N
    BY <1>1, <1>3, FS_Subset, FS_CardinalityType DEF N
  <2>2. N \in S
    BY <1>1, <2>1
  <2>3. PICK n \in S : \A k \in S : n <= k
    <3> HIDE DEF S
    <3>1. S \subseteq Nat
      BY DEF S
    <3> QED
      BY <2>2, <3>1, LeastExists
  <2>4. Cardinality(A) # 0
    <3>1. IsFiniteSet(A)
      BY <1>1, FS_Subset
    <3> QED
      BY <3>1, FS_EmptySet
  <2>5. n # 0
    BY <1>1, <1>2, <2>1, <2>3, <2>4
  <2>6. n - 1 \in 0 .. N /\ n - 1 \notin S
    BY <1>1, <2>3, <2>5
  <2>7. f[n - 1] \subseteq f[n]
    BY <1>2, <2>3, <2>5 DEF Follow
  <2>8. Cardinality(f[n - 1]) <= Cardinality(f[n])
    BY <2>1, <2>3, <2>7, FS_Subset
  <2>9. Cardinality(f[n - 1]) = Cardinality(f[n])
    BY <2>1, <2>3, <2>6, <2>8
  <2>10. f[n - 1] = f[n]
    BY <2>1, <2>3, <2>7, <2>9, FS_Subset
  <2> QED
    BY <2>3, <2>5, <2>10
<1>6. \A k \in n .. N : f[k] = f[n]
  <2> DEFINE S == {k \in n .. N : f[k] # f[n]}
  <2> SUFFICES ASSUME S # {} PROVE FALSE
    OBVIOUS
  <2>1. PICK k \in S : \A j \in S : k <= j
    <3> HIDE DEF S
    <3>1. S \subseteq Nat
      BY <1>1 DEF S
    <3> QED
      BY <3>1, LeastExists
  <2>2. k # n
    OBVIOUS
  <2>3. k - 1 \in n .. N /\ k - 1 \notin S
    BY <1>1, <2>1, <2>2
  <2>4. f[k] = Follow(G, f[k - 1]) /\ f[n] = Follow(G, f[n - 1])
    BY <1>1, <1>2, <1>5, <2>1
  <2>5. f[k - 1] = f[n]
    BY <2>3
  <2> QED
    BY <1>5, <2>4, <2>5
<1>7. Follow(G, f[N]) = f[N]
  <2>1. f[N] = f[n] /\ f[N] = f[n - 1]
    BY <1>1, <1>5, <1>6
  <2>2. f[n] = Follow(G, f[n - 1])
    BY <1>2, <1>5
  <2> QED
    BY <2>1, <2>2
<1>8. \A e \in G : e[1] \in f[N] => e[2] \in f[N]
  BY <1>7 DEF Follow
<1> QED
  BY <1>1, <1>3, <1>4, <1>8 DEF N

-----------------------------------------------------------------------------
(***************************************************************************)
(* Flattening a sequence of sequences appends them one after the other.    *)
(***************************************************************************)
LEMMA Concatenated ==
    ASSUME NEW S, NEW s \in Seq(S), NEW t \in Seq(S)
    PROVE  /\ s \o t \in Seq(S) /\ Len(s \o t) = Len(s) + Len(t)
           /\ \A y \in 1 .. Len(s) : (s \o t)[y] = s[y]
           /\ \A y \in 1 .. Len(t) : (s \o t)[Len(s) + y] = t[y]
OBVIOUS

LEMMA ConcatenatedSet ==
    ASSUME NEW S, NEW s \in Seq(S), NEW t \in Seq(S)
    PROVE  ToSet(s \o t) = ToSet(s) \cup ToSet(t)
<1>1. /\ Len(s) \in Nat /\ Len(t) \in Nat /\ DOMAIN s = 1 .. Len(s) /\ DOMAIN t = 1 .. Len(t)
      /\ DOMAIN (s \o t) = 1 .. (Len(s) + Len(t))
  OBVIOUS
<1>2. /\ \A y \in 1 .. Len(s) : (s \o t)[y] = s[y]
      /\ \A y \in 1 .. Len(t) : (s \o t)[Len(s) + y] = t[y]
  BY Concatenated
<1>3. \A y \in 1 .. (Len(s) + Len(t)) : y \in 1 .. Len(s) \/ \E z \in 1 .. Len(t) : y = Len(s) + z
  <2> SUFFICES ASSUME NEW y \in 1 .. (Len(s) + Len(t)), y \notin 1 .. Len(s)
               PROVE  \E z \in 1 .. Len(t) : y = Len(s) + z
    OBVIOUS
  <2>1. y - Len(s) \in 1 .. Len(t) /\ y = Len(s) + (y - Len(s))
    BY <1>1
  <2> QED
    BY <2>1
<1>4. /\ \A y \in 1 .. Len(s) : y \in 1 .. (Len(s) + Len(t))
      /\ \A z \in 1 .. Len(t) : Len(s) + z \in 1 .. (Len(s) + Len(t))
  BY <1>1
<1>5. ToSet(s \o t) \subseteq ToSet(s) \cup ToSet(t)
  <2> SUFFICES ASSUME NEW y \in 1 .. (Len(s) + Len(t))
               PROVE  (s \o t)[y] \in ToSet(s) \cup ToSet(t)
    BY <1>1 DEF ToSet
  <2>1. CASE y \in 1 .. Len(s)
    BY <1>1, <1>2, <2>1 DEF ToSet
  <2>2. CASE y \notin 1 .. Len(s)
    <3>1. PICK z \in 1 .. Len(t) : y = Len(s) + z
      BY <1>3, <2>2
    <3>2. (s \o t)[y] = t[z]
      BY <1>2, <3>1
    <3> QED
      BY <1>1, <3>2 DEF ToSet
  <2> QED
    BY <2>1, <2>2
<1>6. ToSet(s) \cup ToSet(t) \subseteq ToSet(s \o t)
  BY <1>1, <1>2, <1>4 DEF ToSet
<1> QED
  BY <1>5, <1>6

LEMMA FlattenIsRecursive ==
    ASSUME NEW S, NEW seqs \in Seq(Seq(S))
    PROVE  \E f \in [0 .. Len(seqs) -> Seq(S)] :
              /\ f[0] = <<>>
              /\ \A n \in 1 .. Len(seqs) : f[n] = f[n - 1] \o seqs[n]
              /\ FlattenSeq(seqs) = f[Len(seqs)]
<1> DEFINE N == Len(seqs)
           D == Seq(S)
<1>1. N \in Nat /\ \A n \in 1 .. N : seqs[n] \in D
  OBVIOUS
<1>2. <<>> \in D /\ \A x \in D : <<>> \o x = x
  OBVIOUS
<1>3. CASE N = 0
  <2>1. FlattenSeq(seqs) = <<>>
    BY <1>3 DEF FlattenSeq
  <2> DEFINE f == [n \in 0 .. 0 |-> <<>>]
  <2>2. f \in [0 .. N -> D] /\ f[0] = <<>>
    BY <1>2, <1>3
  <2>3. FlattenSeq(seqs) = f[N] /\ \A n \in 1 .. N : FALSE
    BY <1>3, <2>1
  <2> HIDE DEF f
  <2> QED
    BY <2>2, <2>3
<1>4. CASE N # 0
  <2> DEFINE Glued(x, n) == x \o seqs[n]
             Is(g) == g = [i \in 1 .. N |-> IF i = 1 THEN seqs[i] ELSE Glued(g[i - 1], i)]
             h == CHOOSE g : Is(g)
             F == [q \in Nat \X D |-> IF q[1] \in 1 .. N THEN Glued(q[2], q[1]) ELSE q[2]]
  <2>1. FlattenSeq(seqs) = h[N]
    BY <1>4 DEF FlattenSeq
  <2>2. \A n \in 1 .. N, x \in D : Glued(x, n) \in D
    BY <1>1
  <2>16. \A n \in 1 .. N : Glued(<<>>, n) = seqs[n]
    BY <1>1, <1>2
  <2> HIDE DEF D, N, Glued
  <2>3. F \in [Nat \X D -> D]
    BY <2>2
  <2>4. \A n \in 1 .. N, x \in D : F[<<n, x>>] = Glued(x, n)
    BY <1>1
  <2> HIDE DEF F
  <2>5. PICK g \in [0 .. N -> D] : Solves(g, F, <<>>, N)
    BY <1>1, <1>2, <2>3, RecursionExists
  <2> DEFINE r == [i \in 1 .. N |-> g[i]]
  <2>6. \A i \in 1 .. N : r[i] = IF i = 1 THEN seqs[i] ELSE Glued(r[i - 1], i)
    <3> TAKE i \in 1 .. N
    <3>1. i - 1 \in 0 .. N /\ g[i - 1] \in D
      BY <1>1, <2>5
    <3>2. g[i] = Glued(g[i - 1], i)
      BY <2>4, <2>5, <3>1 DEF Solves
    <3>3. CASE i = 1
      <4>1. g[0] = <<>>
        BY <2>5 DEF Solves
      <4> QED
        BY <1>1, <2>16, <3>2, <3>3, <4>1
    <3>4. CASE i # 1
      <4>1. i - 1 \in 1 .. N
        BY <1>1, <3>4
      <4> QED
        BY <3>2, <3>4, <4>1
    <3> QED
      BY <3>3, <3>4
  <2>7. Is(r)
    <3> HIDE DEF r
    <3>1. r = [i \in 1 .. N |-> IF i = 1 THEN seqs[i] ELSE Glued(r[i - 1], i)]
      BY <2>6 DEF r
    <3> QED
      BY <3>1
  <2>8. Is(h)
    BY <2>7
  <2> HIDE DEF h
  <2>9. \A i \in 1 .. N : h[i] = IF i = 1 THEN seqs[i] ELSE Glued(h[i - 1], i)
    BY <2>8
  <2> DEFINE f == [n \in 0 .. N |-> IF n = 0 THEN <<>> ELSE h[n]]
  <2>10. f[0] = <<>> /\ \A n \in 1 .. N : f[n] = h[n]
    BY <1>1
  <2>11. DOMAIN f = 0 .. N /\ f = [n \in 0 .. N |-> f[n]]
    OBVIOUS
  <2> HIDE DEF f, Is
  <2>12. \A n \in 1 .. N : f[n] = Glued(f[n - 1], n)
    <3> TAKE n \in 1 .. N
    <3>1. CASE n = 1
      <4>1. f[n] = seqs[n] /\ f[n - 1] = <<>>
        BY <2>9, <2>10, <3>1
      <4> QED
        BY <2>16, <3>1, <4>1
    <3>2. CASE n # 1
      <4>1. n - 1 \in 1 .. N
        BY <1>1, <3>2
      <4> QED
        BY <2>9, <2>10, <3>2, <4>1
    <3> QED
      BY <3>1, <3>2
  <2>13. \A n \in 0 .. N : f[n] \in D
    <3> DEFINE T == {n \in 0 .. N : f[n] \in D}
    <3>1. 0 \in T
      BY <1>1, <1>2, <2>10
    <3>2. \A n \in 1 .. N : n - 1 \in T => n \in T
      <4> SUFFICES ASSUME NEW n \in 1 .. N, f[n - 1] \in D PROVE n \in T
        OBVIOUS
      <4> QED
        BY <1>1, <2>2, <2>12
    <3> HIDE DEF T
    <3>3. \A n \in 0 .. N : n \in T
      BY <1>1, <3>1, <3>2, OneAfterTheOther
    <3> QED
      BY <3>3 DEF T
  <2>14. f \in [0 .. N -> D]
    BY <2>11, <2>13
  <2>15. FlattenSeq(seqs) = f[N]
    BY <1>1, <1>4, <2>1, <2>10
  <2> QED
    BY <2>10, <2>12, <2>14, <2>15 DEF N, D, Glued
<1> QED
  BY <1>3, <1>4

LEMMA FlattenedIs ==
    ASSUME NEW S, NEW seqs \in Seq(Seq(S))
    PROVE  /\ FlattenSeq(seqs) \in Seq(S)
           /\ ToSet(FlattenSeq(seqs)) = UNION {ToSet(seqs[n]) : n \in DOMAIN seqs}
<1> DEFINE N == Len(seqs)
<1>1. N \in Nat /\ DOMAIN seqs = 1 .. N /\ \A n \in 1 .. N : seqs[n] \in Seq(S)
  OBVIOUS
<1>2. PICK f \in [0 .. N -> Seq(S)] : /\ f[0] = <<>>
                                      /\ \A n \in 1 .. N : f[n] = f[n - 1] \o seqs[n]
                                      /\ FlattenSeq(seqs) = f[N]
  BY FlattenIsRecursive
<1> HIDE DEF N
<1> DEFINE T == {n \in 0 .. N : ToSet(f[n]) = UNION {ToSet(seqs[k]) : k \in 1 .. n}}
<1>3. 0 \in T
  BY <1>1, <1>2 DEF ToSet
<1>4. ASSUME NEW n \in 1 .. N, n - 1 \in T PROVE n \in T
  <2>1. n \in 0 .. N /\ n - 1 \in 0 .. N
    BY <1>1
  <2>2. f[n - 1] \in Seq(S) /\ seqs[n] \in Seq(S) /\ f[n] = f[n - 1] \o seqs[n]
    BY <1>1, <1>2, <2>1
  <2>3. ToSet(f[n]) = ToSet(f[n - 1]) \cup ToSet(seqs[n])
    BY <2>2, ConcatenatedSet
  <2>4. 1 .. n = (1 .. n - 1) \cup {n}
    BY <1>1
  <2>5. ToSet(f[n - 1]) = UNION {ToSet(seqs[k]) : k \in 1 .. n - 1}
    BY <1>4
  <2>6. ToSet(f[n]) = UNION {ToSet(seqs[k]) : k \in 1 .. n}
    BY <2>3, <2>4, <2>5
  <2> QED
    BY <2>1, <2>6
<1> HIDE DEF T
<1>5. N \in T
  <2>1. N \in 0 .. N
    BY <1>1
  <2> QED
    BY <1>1, <1>3, <1>4, <2>1, OneAfterTheOther
<1>6. N \in 0 .. N
  BY <1>1
<1> QED
  BY <1>1, <1>2, <1>5, <1>6 DEF T

-----------------------------------------------------------------------------
(***************************************************************************)
(* Items with ranks, as structures have whose parts rank lower: what holds *)
(* for an item when it holds for those below, holds for all; recursion     *)
(* over the items below has a solution.                                    *)
(***************************************************************************)
LEMMA RanksInduct ==
    ASSUME NEW E, NEW rank \in [E -> Nat], NEW T,
           \A e \in E : (\A d \in E : rank[d] < rank[e] => d \in T) => e \in T
    PROVE  \A e \in E : e \in T
<1> DEFINE R == {rank[e] : e \in {e \in E : e \notin T}}
<1> SUFFICES ASSUME \E e \in E : e \notin T PROVE FALSE
  OBVIOUS
<1>1. R \in SUBSET Nat /\ R # {}
  OBVIOUS
<1>2. PICK n \in R : \A k \in R : n <= k
  <2> HIDE DEF R
  <2> QED
    BY <1>1, LeastExists
<1>3. PICK e \in E : e \notin T /\ n = rank[e]
  BY <1>2
<1>4. \A d \in E : d \notin T => rank[e] <= rank[d]
  BY <1>2, <1>3
<1>5. \A d \in E : rank[d] < rank[e] => d \in T
  <2>1. \A d \in E : rank[d] \in Nat
    OBVIOUS
  <2>2. \A j, k \in Nat : j < k => ~(k <= j)
    OBVIOUS
  <2> QED
    BY <1>4, <2>1, <2>2
<1> QED
  BY <1>3, <1>5

\* What G gives an item depends only on what f gives the items below.
IsDetermined(G, E, V, rank) ==
    \A e \in E : \A f, g \in [E -> V] :
        (\A d \in E : rank[d] < rank[e] => f[d] = g[d]) => G[<<e, f>>] = G[<<e, g>>]

IsSolution(f, G, E) == \A e \in E : f[e] = G[<<e, f>>]

LEMMA RecursionBelowExists ==
    ASSUME NEW E, NEW V, V # {}, NEW N \in Nat, NEW rank \in [E -> 0 .. N],
           NEW G \in [E \X [E -> V] -> V], IsDetermined(G, E, V, rank)
    PROVE  \E f \in [E -> V] : IsSolution(f, G, E)
<1>0. \A e \in E : \A f, g \in [E -> V] :
        (\A d \in E : rank[d] < rank[e] => f[d] = g[d]) => G[<<e, f>>] = G[<<e, g>>]
  BY DEF IsDetermined
<1> DEFINE Good(n, f) == \A e \in E : rank[e] < n => f[e] = G[<<e, f>>]
           S == {n \in Nat : \E f \in [E -> V] : Good(n, f)}
<1>1. 0 \in S
  <2>1. PICK v \in V : TRUE
    OBVIOUS
  <2>2. [e \in E |-> v] \in [E -> V] /\ Good(0, [e \in E |-> v])
    <3>1. \A e \in E : ~(rank[e] < 0)
      OBVIOUS
    <3> QED
      BY <3>1
  <2> QED
    BY <2>2
<1>2. ASSUME NEW n \in 1 .. N + 1, n - 1 \in S PROVE n \in S
  <2>1. PICK f \in [E -> V] : Good(n - 1, f)
    BY <1>2
  <2> DEFINE g == [e \in E |-> G[<<e, f>>]]
  <2>2. g \in [E -> V] /\ \A e \in E : g[e] = G[<<e, f>>]
    OBVIOUS
  <2> HIDE DEF g
  <2>3. ASSUME NEW e \in E, rank[e] < n PROVE g[e] = G[<<e, g>>]
    <3>1. ASSUME NEW d \in E, rank[d] < rank[e] PROVE g[d] = f[d]
      <4>1. rank[d] < n - 1
        BY <2>3, <3>1
      <4> QED
        BY <2>1, <2>2, <4>1
    <3>2. G[<<e, g>>] = G[<<e, f>>]
      BY <1>0, <2>2, <3>1
    <3> QED
      BY <2>2, <3>2
  <2>4. n \in Nat
    OBVIOUS
  <2> QED
    BY <2>2, <2>3, <2>4
<1>3. N + 1 \in S
  <2>1. N + 1 \in Nat /\ N + 1 \in 0 .. N + 1
    OBVIOUS
  <2> HIDE DEF S
  <2> QED
    BY <1>1, <1>2, <2>1, OneAfterTheOther
<1>4. PICK f \in [E -> V] : Good(N + 1, f)
  BY <1>3
<1>5. \A e \in E : rank[e] < N + 1
  OBVIOUS
<1> QED
  BY <1>4, <1>5 DEF IsSolution
=============================================================================
