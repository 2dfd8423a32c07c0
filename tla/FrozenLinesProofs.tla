-------------------------- MODULE FrozenLinesProofs --------------------------
(***************************************************************************)
(* Theorems about FrozenLines: what a violation file holds reads back as   *)
(* it was written, and evaluating again and again never does more than     *)
(* tighten it, for any lines that can be written.                          *)
(***************************************************************************)
EXTENDS FrozenLines, InductionLemmas, TLAPS

-----------------------------------------------------------------------------
(***************************************************************************)
(* Where the parts of a flattened sequence are: the n-th ends at off[n].   *)
(***************************************************************************)
Offsets(off, seqs, text) ==
    /\ off[0] = 0 /\ off[Len(seqs)] = Len(text)
    /\ \A n \in 1 .. Len(seqs) :
        /\ off[n] = off[n - 1] + Len(seqs[n])
        /\ \A y \in 1 .. Len(seqs[n]) : text[off[n - 1] + y] = seqs[n][y]

LEMMA FlattenOffsets ==
    ASSUME NEW S, NEW seqs \in Seq(Seq(S))
    PROVE  /\ FlattenSeq(seqs) \in Seq(S)
           /\ \E off \in [0 .. Len(seqs) -> Nat] : Offsets(off, seqs, FlattenSeq(seqs))
<1> DEFINE N == Len(seqs)
<1>1. N \in Nat /\ \A n \in 1 .. N : seqs[n] \in Seq(S)
  OBVIOUS
<1>2. PICK f \in [0 .. N -> Seq(S)] :
        /\ f[0] = <<>>
        /\ \A n \in 1 .. N : f[n] = f[n - 1] \o seqs[n]
        /\ FlattenSeq(seqs) = f[N]
  BY FlattenIsRecursive
<1>3. \A n \in 1 .. N :
        /\ n \in 0 .. N /\ n - 1 \in 0 .. N
        /\ f[n - 1] \in Seq(S) /\ f[n] \in Seq(S)
        /\ Len(f[n - 1]) \in Nat /\ Len(seqs[n]) \in Nat
        /\ Len(f[n]) = Len(f[n - 1]) + Len(seqs[n])
        /\ \A y \in 1 .. Len(f[n - 1]) : f[n][y] = f[n - 1][y]
        /\ \A y \in 1 .. Len(seqs[n]) : f[n][Len(f[n - 1]) + y] = seqs[n][y]
  <2> TAKE n \in 1 .. N
  <2>1. n \in 0 .. N /\ n - 1 \in 0 .. N
    BY <1>1
  <2>2. f[n - 1] \in Seq(S) /\ seqs[n] \in Seq(S)
    BY <1>1, <1>2, <2>1
  <2>3. f[n] = f[n - 1] \o seqs[n]
    BY <1>2
  <2>4. f[n] \in Seq(S)
    BY <1>2, <2>1
  <2>5. Len(f[n - 1]) \in Nat /\ Len(seqs[n]) \in Nat
    BY <2>2
  <2> QED
    BY <2>1, <2>2, <2>3, <2>4, <2>5, Concatenated
<1> HIDE DEF N
<1> DEFINE Begins(s, t) == Len(s) <= Len(t) /\ \A y \in 1 .. Len(s) : t[y] = s[y]
<1>4. \A n \in 0 .. N : Begins(f[n], f[N])
  <2> DEFINE T == {k \in 0 .. N : Begins(f[N - k], f[N])}
  <2>1. 0 \in T
    <3>1. f[N] \in Seq(S)
      BY <1>1, <1>2
    <3> QED
      BY <1>1, <3>1
  <2>2. ASSUME NEW k \in 1 .. N, k - 1 \in T
        PROVE  k \in T
    <3> DEFINE n == N - k + 1
    <3>1. n \in 1 .. N /\ N - (k - 1) = n /\ N - k = n - 1
      BY <1>1
    <3>2. Begins(f[n], f[N])
      BY <2>2, <3>1
    <3>3. Len(f[n - 1]) \in Nat /\ Len(f[n]) \in Nat /\ Len(f[N]) \in Nat /\ Len(seqs[n]) \in Nat
      BY <1>1, <1>2, <1>3, <3>1
    <3> HIDE DEF n
    <3>4. Begins(f[n - 1], f[N])
      <4>1. /\ Len(f[n]) = Len(f[n - 1]) + Len(seqs[n])
            /\ \A y \in 1 .. Len(f[n - 1]) : f[n][y] = f[n - 1][y]
        BY <1>3, <3>1
      <4>2. Len(f[n]) <= Len(f[N])
        BY <3>2
      <4>3. Len(f[n - 1]) <= Len(f[N]) /\ Len(f[n - 1]) <= Len(f[n])
        <5>1. \A h, i, j, m \in Nat : i = h + j /\ i <= m => h <= m /\ h <= i
          OBVIOUS
        <5> QED
          BY <3>3, <4>1, <4>2, <5>1
      <4> SUFFICES ASSUME NEW y \in 1 .. Len(f[n - 1]) PROVE f[N][y] = f[n - 1][y]
        BY <4>3
      <4>4. y \in 1 .. Len(f[n])
        BY <3>3, <4>3
      <4> QED
        BY <3>2, <4>1, <4>4
    <3> QED
      BY <1>1, <3>1, <3>4
  <2> HIDE DEF T
  <2>3. \A k \in 0 .. N : k \in T
    BY <1>1, <2>1, <2>2, OneAfterTheOther
  <2> SUFFICES ASSUME NEW n \in 0 .. N PROVE Begins(f[n], f[N])
    OBVIOUS
  <2>4. N - n \in 0 .. N /\ N - (N - n) = n
    BY <1>1
  <2>5. N - n \in T
    BY <2>3, <2>4
  <2> QED
    BY <2>4, <2>5 DEF T
<1> DEFINE off == [n \in 0 .. N |-> Len(f[n])]
<1>5. off \in [0 .. N -> Nat] /\ \A n \in 0 .. N : off[n] = Len(f[n])
  BY <1>2
<1> HIDE DEF off
<1>6. off[0] = 0 /\ off[N] = Len(FlattenSeq(seqs))
  BY <1>1, <1>2, <1>5
<1>7. ASSUME NEW n \in 1 .. N
      PROVE  /\ off[n] = off[n - 1] + Len(seqs[n])
             /\ \A y \in 1 .. Len(seqs[n]) : FlattenSeq(seqs)[off[n - 1] + y] = seqs[n][y]
  <2>1. off[n] = Len(f[n]) /\ off[n - 1] = Len(f[n - 1])
    BY <1>3, <1>5
  <2>2. Len(f[n - 1]) \in Nat /\ Len(seqs[n]) \in Nat /\ Len(f[n]) = Len(f[n - 1]) + Len(seqs[n])
    BY <1>3
  <2>3. ASSUME NEW y \in 1 .. Len(seqs[n])
        PROVE  FlattenSeq(seqs)[off[n - 1] + y] = seqs[n][y]
    <3> DEFINE at == Len(f[n - 1]) + y
    <3>1. at \in 1 .. Len(f[n])
      <4>1. \A j, k, l \in Nat : k = j + l => \A m \in 1 .. l : j + m \in 1 .. k
        OBVIOUS
      <4>2. Len(f[n]) \in Nat
        BY <1>3
      <4> QED
        BY <2>2, <4>1, <4>2
    <3>2. f[n][at] = seqs[n][y]
      BY <1>3
    <3> HIDE DEF at
    <3>3. f[N][at] = f[n][at]
      BY <1>3, <1>4, <3>1
    <3> QED
      BY <1>2, <2>1, <3>2, <3>3 DEF at
  <2> QED
    BY <2>1, <2>2, <2>3
<1>8. Offsets(off, seqs, FlattenSeq(seqs))
  BY <1>6, <1>7 DEF Offsets, N
<1>9. FlattenSeq(seqs) \in Seq(S)
  BY <1>1, <1>2
<1> QED
  BY <1>5, <1>8, <1>9 DEF N

(***************************************************************************)
(* Offsets grow, and every position is in one of the parts.                *)
(***************************************************************************)
LEMMA OffsetsGrow ==
    ASSUME NEW S, NEW seqs \in Seq(Seq(S)), NEW text \in Seq(S),
           NEW off \in [0 .. Len(seqs) -> Nat], Offsets(off, seqs, text)
    PROVE  \A n \in 0 .. Len(seqs) : off[n] <= Len(text)
<1> DEFINE N == Len(seqs)
           T == {k \in 0 .. N : off[N - k] <= off[N]}
<1>1. N \in Nat /\ \A n \in 1 .. N : Len(seqs[n]) \in Nat
  OBVIOUS
<1>2. \A n \in 1 .. N : off[n] = off[n - 1] + Len(seqs[n])
  BY DEF Offsets
<1> HIDE DEF N
<1>3. \A n \in 0 .. N : off[n] \in Nat
  BY DEF N
<1>4. 0 \in T
  BY <1>1, <1>3
<1>5. ASSUME NEW k \in 1 .. N, k - 1 \in T
      PROVE  k \in T
  <2>1. N - k + 1 \in 1 .. N /\ N - (k - 1) = N - k + 1 /\ (N - k + 1) - 1 = N - k /\ N - k \in 0 .. N
    BY <1>1
  <2>2. off[N - k + 1] = off[N - k] + Len(seqs[N - k + 1])
    BY <1>2, <2>1
  <2>3. off[N - k + 1] <= off[N]
    BY <1>5, <2>1
  <2>4. off[N - k] \in Nat /\ off[N] \in Nat /\ Len(seqs[N - k + 1]) \in Nat /\ off[N - k + 1] \in Nat
    BY <1>1, <1>3, <2>1
  <2>5. \A g, h, i, j \in Nat : g = h + i /\ g <= j => h <= j
    OBVIOUS
  <2>6. off[N - k] <= off[N]
    BY <2>2, <2>3, <2>4, <2>5
  <2> QED
    BY <2>6
<1> HIDE DEF T
<1>6. \A k \in 0 .. N : k \in T
  BY <1>1, <1>4, <1>5, OneAfterTheOther
<1> SUFFICES ASSUME NEW n \in 0 .. N PROVE off[n] <= Len(text)
  BY DEF N
<1>7. N - n \in 0 .. N /\ N - (N - n) = n
  BY <1>1
<1>8. off[n] <= off[N]
  BY <1>6, <1>7 DEF T
<1> QED
  BY <1>8 DEF N, Offsets

IsIn(i, n, off, seqs) == \E y \in 1 .. Len(seqs[n]) : i = off[n - 1] + y

LEMMA Located ==
    ASSUME NEW S, NEW seqs \in Seq(Seq(S)), NEW text \in Seq(S),
           NEW off \in [0 .. Len(seqs) -> Nat], Offsets(off, seqs, text),
           NEW i \in 1 .. Len(text)
    PROVE  \E n \in 1 .. Len(seqs) : IsIn(i, n, off, seqs)
<1> DEFINE N == Len(seqs)
           T == {n \in 0 .. N : i <= off[n]}
<1>1. N \in Nat /\ \A n \in 1 .. N : Len(seqs[n]) \in Nat
  OBVIOUS
<1>2. off[0] = 0 /\ off[N] = Len(text) /\ \A n \in 1 .. N : off[n] = off[n - 1] + Len(seqs[n])
  BY DEF Offsets
<1>3. N \in T
  BY <1>1, <1>2
<1>4. PICK n \in T : \A k \in T : n <= k
  <2>1. T \in SUBSET Nat
    OBVIOUS
  <2> HIDE DEF T
  <2> QED
    BY <1>3, <2>1, LeastExists
<1>5. n # 0
  BY <1>2
<1>6. n \in 1 .. N /\ n - 1 \in 0 .. N /\ n - 1 \notin T
  BY <1>1, <1>4, <1>5
<1>7. off[n - 1] \in Nat /\ off[n] \in Nat /\ Len(seqs[n]) \in Nat /\ ~(i <= off[n - 1])
  BY <1>1, <1>6
<1>8. off[n] = off[n - 1] + Len(seqs[n]) /\ i <= off[n]
  BY <1>2, <1>6
<1> DEFINE y == i - off[n - 1]
<1>9. y \in 1 .. Len(seqs[n]) /\ i = off[n - 1] + y
  <2>1. \A g, h, j \in Nat, k \in Nat : g = h + j /\ k <= g /\ ~(k <= h) => k - h \in 1 .. j /\ k = h + (k - h)
    OBVIOUS
  <2> QED
    BY <1>7, <1>8, <2>1
<1>10. IsIn(i, n, off, seqs)
  BY <1>9 DEF IsIn
<1> QED
  BY <1>6, <1>10

-----------------------------------------------------------------------------
(***************************************************************************)
(* A line as it is written.  The k-th character ends at q[k]; the line     *)
(* break that follows ends the line.                                       *)
(***************************************************************************)
EscapedAs(q, line, text) ==
    /\ q \in [0 .. Len(line) -> Nat]
    /\ q[0] = 0
    /\ Len(text) = q[Len(line)] + 1
    /\ text[Len(text)] = "LF"
    /\ \A k \in 1 .. Len(line) :
        /\ q[k] < Len(text)
        /\ line[k] = "LF" => /\ q[k] = q[k - 1] + 2
                             /\ text[q[k - 1] + 1] = "\\" /\ text[q[k - 1] + 2] = "LF"
        /\ line[k] # "LF" => q[k] = q[k - 1] + 1 /\ text[q[k]] = line[k]
    /\ \A y \in 1 .. Len(text) : \/ text[y] \in {"\\", "LF"}
                                 \/ \E k \in 1 .. Len(line) : y = q[k] /\ text[y] = line[k]

LEMMA LinesAreEscaped ==
    ASSUME NEW line \in Seq(Chars)
    PROVE  EscapedLine(line) \in Seq(Chars) /\ \E q : EscapedAs(q, line, EscapedLine(line))
<1> DEFINE L == Len(line)
           seqs == [i \in DOMAIN line |-> IF line[i] = "LF" THEN <<"\\", "LF">> ELSE <<line[i]>>]
           flat == FlattenSeq(seqs)
           text == EscapedLine(line)
<1>1. L \in Nat /\ DOMAIN line = 1 .. L /\ \A k \in 1 .. L : line[k] \in Chars
  OBVIOUS
<1>2. <<"\\", "LF">> \in Seq(Chars) /\ <<"LF">> \in Seq(Chars) /\ \A c \in Chars : <<c>> \in Seq(Chars)
  BY DEF Chars
<1>3. seqs \in Seq(Seq(Chars)) /\ Len(seqs) = L
  <2>1. \A k \in 1 .. L : seqs[k] \in Seq(Chars)
    BY <1>1, <1>2
  <2> QED
    BY <1>1, <2>1
<1>4. \A k \in 1 .. L :
        /\ line[k] = "LF" => Len(seqs[k]) = 2 /\ seqs[k][1] = "\\" /\ seqs[k][2] = "LF"
        /\ line[k] # "LF" => Len(seqs[k]) = 1 /\ seqs[k][1] = line[k]
  BY <1>1
<1> HIDE DEF seqs, L
<1>5. flat \in Seq(Chars) /\ \E off \in [0 .. Len(seqs) -> Nat] : Offsets(off, seqs, flat)
  BY <1>3, FlattenOffsets
<1>6. PICK q \in [0 .. L -> Nat] : Offsets(q, seqs, flat)
  BY <1>3, <1>5
<1>7. text = flat \o <<"LF">>
  BY DEF EscapedLine, seqs
<1> HIDE DEF flat, text
<1>8. /\ text \in Seq(Chars) /\ Len(text) = Len(flat) + 1 /\ Len(flat) \in Nat
      /\ \A y \in 1 .. Len(flat) : text[y] = flat[y]
      /\ text[Len(text)] = "LF"
  BY <1>2, <1>5, <1>7
<1>9. /\ q[0] = 0 /\ q[L] = Len(flat)
      /\ \A k \in 1 .. L : /\ q[k] = q[k - 1] + Len(seqs[k])
                           /\ \A y \in 1 .. Len(seqs[k]) : flat[q[k - 1] + y] = seqs[k][y]
  BY <1>3, <1>6 DEF Offsets
<1>10. \A k \in 0 .. L : q[k] \in Nat /\ q[k] <= Len(flat)
  BY <1>3, <1>5, <1>6, OffsetsGrow
<1>11. ASSUME NEW k \in 1 .. L
       PROVE  /\ q[k] < Len(text)
              /\ line[k] = "LF" => /\ q[k] = q[k - 1] + 2
                                   /\ text[q[k - 1] + 1] = "\\" /\ text[q[k - 1] + 2] = "LF"
              /\ line[k] # "LF" => q[k] = q[k - 1] + 1 /\ text[q[k]] = line[k]
  <2>1. k \in 0 .. L /\ k - 1 \in 0 .. L
    BY <1>1
  <2>2. q[k] \in Nat /\ q[k - 1] \in Nat /\ q[k] <= Len(flat) /\ q[k] < Len(text)
    BY <1>8, <1>10, <2>1
  <2>3. /\ q[k] = q[k - 1] + Len(seqs[k])
        /\ \A y \in 1 .. Len(seqs[k]) : q[k - 1] + y \in 1 .. Len(flat) /\ text[q[k - 1] + y] = seqs[k][y]
    <3>1. q[k] = q[k - 1] + Len(seqs[k]) /\ Len(seqs[k]) \in Nat
      BY <1>4, <1>9
    <3>2. \A g, h, i, j \in Nat : g = h + i /\ g <= j => \A y \in 1 .. i : h + y \in 1 .. j
      OBVIOUS
    <3>3. \A y \in 1 .. Len(seqs[k]) : q[k - 1] + y \in 1 .. Len(flat)
      BY <1>8, <1>10, <2>1, <2>2, <3>1, <3>2
    <3> QED
      BY <1>8, <1>9, <3>1, <3>3
  <2>4. CASE line[k] = "LF"
    <3>1. Len(seqs[k]) = 2 /\ seqs[k][1] = "\\" /\ seqs[k][2] = "LF" /\ 1 \in 1 .. 2 /\ 2 \in 1 .. 2
      BY <1>4, <2>4
    <3>2. q[k] = q[k - 1] + 2 /\ text[q[k - 1] + 1] = "\\" /\ text[q[k - 1] + 2] = "LF"
      BY <2>3, <3>1
    <3> QED
      BY <2>2, <2>4, <3>2
  <2>5. CASE line[k] # "LF"
    <3>1. Len(seqs[k]) = 1 /\ seqs[k][1] = line[k] /\ 1 \in 1 .. 1
      BY <1>4, <2>5
    <3>2. q[k] = q[k - 1] + 1 /\ text[q[k - 1] + 1] = line[k]
      BY <2>3, <3>1
    <3> QED
      BY <2>2, <2>5, <3>2
  <2> QED
    BY <2>4, <2>5
<1>12. ASSUME NEW y \in 1 .. Len(text), text[y] \notin {"\\", "LF"}
       PROVE  \E k \in 1 .. L : y = q[k] /\ text[y] = line[k]
  <2>1. y \in 1 .. Len(flat)
    <3>1. y # Len(text)
      BY <1>8, <1>12
    <3>2. \A g, h \in Nat : g = h + 1 => \A z \in 1 .. g : z # g => z \in 1 .. h
      OBVIOUS
    <3> QED
      BY <1>8, <3>1, <3>2
  <2>2. q \in [0 .. Len(seqs) -> Nat]
    BY <1>3
  <2>3. \E k \in 1 .. Len(seqs) : IsIn(y, k, q, seqs)
    BY <1>3, <1>5, <1>6, <2>1, <2>2, Located
  <2>4. PICK k \in 1 .. L : IsIn(y, k, q, seqs)
    BY <1>3, <2>3
  <2>5. PICK z \in 1 .. Len(seqs[k]) : y = q[k - 1] + z
    BY <2>4 DEF IsIn
  <2>6. text[y] = seqs[k][z]
    <3>1. text[y] = flat[y]
      BY <1>8, <2>1
    <3> QED
      BY <1>9, <2>5, <3>1
  <2>7. line[k] # "LF"
    <3>1. CASE line[k] = "LF"
      <4>1. Len(seqs[k]) = 2 /\ seqs[k][1] = "\\" /\ seqs[k][2] = "LF"
        BY <1>4, <3>1
      <4>2. z = 1 \/ z = 2
        BY <4>1
      <4>3. seqs[k][z] \in {"\\", "LF"}
        BY <4>1, <4>2
      <4> QED
        BY <1>12, <2>6, <4>3
    <3> QED
      BY <3>1
  <2>8. z = 1 /\ text[y] = line[k] /\ q[k] = q[k - 1] + 1
    <3>1. Len(seqs[k]) = 1 /\ seqs[k][1] = line[k]
      BY <1>4, <2>7
    <3>2. z = 1
      BY <3>1
    <3> QED
      BY <1>11, <2>6, <2>7, <3>1, <3>2
  <2> QED
    BY <2>5, <2>8
<1>13. EscapedAs(q, line, text)
  BY <1>1, <1>8, <1>9, <1>11, <1>12 DEF EscapedAs, L
<1> QED
  BY <1>8, <1>13 DEF text

(***************************************************************************)
(* After a character of a line the line break is written only when it was  *)
(* the last one.                                                           *)
(***************************************************************************)
LEMMA BreakEndsLine ==
    ASSUME NEW line \in Seq(Chars), NEW q, NEW text, EscapedAs(q, line, text),
           NEW k \in 0 .. Len(line)
    PROVE  /\ q[k] \in Nat /\ q[k] + 1 <= Len(text)
           /\ text[q[k] + 1] = "LF" <=> k = Len(line)
<1> DEFINE L == Len(line)
<1>1. L \in Nat /\ q \in [0 .. L -> Nat] /\ q[k] \in Nat /\ q[L] \in Nat /\ Len(text) = q[L] + 1
  BY DEF EscapedAs
<1>2. q[0] = 0 /\ \A j \in 1 .. L : q[j] < Len(text)
  BY DEF EscapedAs
<1>3. CASE k = L
  <2>1. text[q[k] + 1] = "LF"
    BY <1>1, <1>3 DEF EscapedAs
  <2> QED
    BY <1>1, <1>3, <2>1
<1>4. CASE k # L
  <2>1. k + 1 \in 1 .. L /\ (k + 1) - 1 = k
    BY <1>1, <1>4
  <2>2. q[k] + 1 <= Len(text)
    <3>1. k = 0 \/ k \in 1 .. L
      BY <1>1
    <3>2. \A g, h \in Nat : g < h => g + 1 <= h
      OBVIOUS
    <3>3. 0 + 1 <= Len(text) /\ Len(text) \in Nat
      BY <1>1
    <3> QED
      BY <1>1, <1>2, <3>1, <3>2, <3>3
  <2>3. text[q[k] + 1] # "LF"
    <3> DEFINE j == k + 1
    <3>1. j \in 1 .. L /\ j - 1 = k
      BY <2>1
    <3> HIDE DEF j
    <3>2. /\ line[j] = "LF" => text[q[k] + 1] = "\\"
          /\ line[j] # "LF" => q[j] = q[k] + 1 /\ text[q[j]] = line[j]
      BY <3>1 DEF EscapedAs
    <3> QED
      BY <3>2
  <2> QED
    BY <1>1, <1>4, <2>2, <2>3
<1> QED
  BY <1>3, <1>4

(***************************************************************************)
(* A line that can be written: it is not empty and does not end with a     *)
(* backslash or a carriage return, which would swallow the line break      *)
(* after it or be swallowed by it.                                         *)
(***************************************************************************)
Readable(line) == line # <<>> /\ line[Len(line)] \notin {"\\", "CR"}
LinesReadable == \A line \in Lines : Readable(line)

\* off[n] is where the n-th of the saved lines ends.
WrittenAt(off, lines) ==
    /\ off \in [0 .. Len(lines) -> Nat]
    /\ off[0] = 0 /\ off[Len(lines)] = Len(Saved(lines))
    /\ \A n \in 1 .. Len(lines) :
        /\ off[n] = off[n - 1] + Len(EscapedLine(lines[n]))
        /\ off[n] <= Len(Saved(lines))
        /\ \A y \in 1 .. Len(EscapedLine(lines[n])) :
              Saved(lines)[off[n - 1] + y] = EscapedLine(lines[n])[y]
    /\ \A i \in 1 .. Len(Saved(lines)) :
        \E n \in 1 .. Len(lines) :
            \E y \in 1 .. Len(EscapedLine(lines[n])) : i = off[n - 1] + y

LEMMA SavedIsWritten ==
    ASSUME NEW lines \in Seq(Seq(Chars))
    PROVE  Saved(lines) \in Seq(Chars) /\ \E off : WrittenAt(off, lines)
<1> DEFINE seqs == [i \in DOMAIN lines |-> EscapedLine(lines[i])]
           N == Len(lines)
<1>1. seqs \in Seq(Seq(Chars)) /\ Len(seqs) = N /\ N \in Nat
  <2>1. N \in Nat /\ DOMAIN lines = 1 .. N /\ \A n \in 1 .. N : lines[n] \in Seq(Chars)
    OBVIOUS
  <2>2. \A n \in 1 .. N : EscapedLine(lines[n]) \in Seq(Chars)
    BY <2>1, LinesAreEscaped
  <2> QED
    BY <2>1, <2>2
<1>2. \A n \in 1 .. N : seqs[n] = EscapedLine(lines[n])
  OBVIOUS
<1>3. Saved(lines) = FlattenSeq(seqs)
  BY DEF Saved
<1> HIDE DEF seqs
<1>4. Saved(lines) \in Seq(Chars)
  BY <1>1, <1>3, FlattenOffsets
<1>5. PICK off \in [0 .. Len(seqs) -> Nat] : Offsets(off, seqs, Saved(lines))
  BY <1>1, <1>3, FlattenOffsets
<1> HIDE DEF N
<1>6. \A n \in 0 .. N : off[n] <= Len(Saved(lines))
  BY <1>1, <1>4, <1>5, OffsetsGrow
<1>7. off[0] = 0 /\ off[N] = Len(Saved(lines)) /\ off \in [0 .. N -> Nat]
  BY <1>1, <1>5 DEF Offsets
<1>8. ASSUME NEW n \in 1 .. N
      PROVE  /\ off[n] = off[n - 1] + Len(EscapedLine(lines[n]))
             /\ off[n] <= Len(Saved(lines))
             /\ \A y \in 1 .. Len(EscapedLine(lines[n])) :
                  Saved(lines)[off[n - 1] + y] = EscapedLine(lines[n])[y]
  <2>1. n \in 0 .. N /\ n \in 1 .. Len(seqs)
    BY <1>1
  <2> QED
    BY <1>2, <1>5, <1>6, <2>1 DEF Offsets
<1>9. ASSUME NEW i \in 1 .. Len(Saved(lines))
      PROVE  \E n \in 1 .. N : \E y \in 1 .. Len(EscapedLine(lines[n])) : i = off[n - 1] + y
  <2>1. \E n \in 1 .. Len(seqs) : IsIn(i, n, off, seqs)
    BY <1>1, <1>4, <1>5, Located
  <2>2. PICK n \in 1 .. N : IsIn(i, n, off, seqs)
    BY <1>1, <2>1
  <2>3. \E y \in 1 .. Len(EscapedLine(lines[n])) : i = off[n - 1] + y
    BY <1>2, <2>2 DEF IsIn
  <2> QED
    BY <2>3
<1>10. WrittenAt(off, lines)
  BY <1>7, <1>8, <1>9 DEF WrittenAt, N
<1> QED
  BY <1>4, <1>10

(***************************************************************************)
(* No line break that save writes follows a carriage return: reading the   *)
(* file with Unix line breaks reads it as it is.                           *)
(***************************************************************************)
LEMMA NothingToUnify ==
    ASSUME NEW text \in Seq(Chars),
           \A i \in 1 .. Len(text) : ~(text[i] = "CR" /\ i < Len(text) /\ text[i + 1] = "LF")
    PROVE  UnixLineBreaks(text) = text
<1> DEFINE L == Len(text)
           seqs == [i \in DOMAIN text |->
                      IF text[i] = "CR" /\ i < Len(text) /\ text[i + 1] = "LF" THEN <<>> ELSE <<text[i]>>]
<1>1. L \in Nat /\ DOMAIN text = 1 .. L /\ \A i \in 1 .. L : text[i] \in Chars
  OBVIOUS
<1>2. \A i \in 1 .. L : seqs[i] = <<text[i]>> /\ seqs[i] \in Seq(Chars) /\ Len(seqs[i]) = 1 /\ seqs[i][1] = text[i]
  BY <1>1
<1>3. seqs \in Seq(Seq(Chars)) /\ Len(seqs) = L
  <2>1. DOMAIN seqs = 1 .. L /\ \A i \in 1 .. L : seqs[i] \in Seq(Chars)
    BY <1>1, <1>2
  <2> QED
    BY <1>1, <2>1
<1> DEFINE flat == FlattenSeq(seqs)
<1>4. UnixLineBreaks(text) = flat
  BY DEF UnixLineBreaks
<1> HIDE DEF seqs
<1>5. flat \in Seq(Chars) /\ \E off \in [0 .. Len(seqs) -> Nat] : Offsets(off, seqs, flat)
  BY <1>3, FlattenOffsets
<1>6. PICK off \in [0 .. L -> Nat] : Offsets(off, seqs, flat)
  BY <1>3, <1>5
<1> HIDE DEF flat, L
<1>7. /\ off[0] = 0 /\ off[L] = Len(flat)
      /\ \A i \in 1 .. L : off[i] = off[i - 1] + 1 /\ flat[off[i - 1] + 1] = text[i]
  <2>1. \A i \in 1 .. L : 1 \in 1 .. Len(seqs[i])
    BY <1>2
  <2> QED
    BY <1>2, <1>3, <1>6, <2>1 DEF Offsets
<1>8. \A i \in 0 .. L : off[i] = i
  <2> DEFINE T == {i \in 0 .. L : off[i] = i}
  <2>1. 0 \in T
    BY <1>1, <1>7 DEF L
  <2>2. ASSUME NEW i \in 1 .. L, i - 1 \in T PROVE i \in T
    BY <1>1, <1>7, <2>2
  <2> HIDE DEF T
  <2>3. L \in Nat
    BY <1>1
  <2>4. \A i \in 0 .. L : i \in T
    BY <2>1, <2>2, <2>3, OneAfterTheOther
  <2> QED
    BY <2>4 DEF T
<1>9. Len(flat) = L /\ \A i \in 1 .. L : flat[i] = text[i]
  <2>1. L \in Nat /\ L \in 0 .. L
    BY <1>1
  <2>2. ASSUME NEW i \in 1 .. L PROVE flat[i] = text[i]
    <3>1. i - 1 \in 0 .. L /\ (i - 1) + 1 = i
      BY <2>1
    <3> QED
      BY <1>7, <1>8, <3>1
  <2> QED
    BY <1>7, <1>8, <2>1, <2>2
<1>10. flat = text
  BY <1>5, <1>9 DEF L
<1> QED
  BY <1>4, <1>10

LEMMA SavedHasUnixBreaks ==
    ASSUME NEW lines \in Seq(Seq(Chars)), \A n \in DOMAIN lines : Readable(lines[n])
    PROVE  UnixLineBreaks(Saved(lines)) = Saved(lines)
<1> DEFINE text == Saved(lines)
           N == Len(lines)
           W(n) == EscapedLine(lines[n])
<1>1. text \in Seq(Chars) /\ N \in Nat /\ DOMAIN lines = 1 .. N
  BY SavedIsWritten
<1>2. PICK off : WrittenAt(off, lines)
  BY SavedIsWritten
<1> SUFFICES ASSUME NEW i \in 1 .. Len(text), text[i] = "CR", i < Len(text), text[i + 1] = "LF"
             PROVE  FALSE
  <2> HIDE DEF text
  <2> QED
    BY <1>1, NothingToUnify DEF text
<1>3. PICK n \in 1 .. N : \E y \in 1 .. Len(W(n)) : i = off[n - 1] + y
  BY <1>2 DEF WrittenAt
<1>4. PICK y \in 1 .. Len(W(n)) : i = off[n - 1] + y
  BY <1>3
<1> DEFINE line == lines[n]
           L == Len(line)
<1>5. line \in Seq(Chars) /\ W(n) \in Seq(Chars) /\ L \in Nat
  BY <1>1, LinesAreEscaped
<1>6. PICK q : EscapedAs(q, line, W(n))
  BY <1>5, LinesAreEscaped
<1>7. \A z \in 1 .. Len(W(n)) : text[off[n - 1] + z] = W(n)[z]
  BY <1>2 DEF WrittenAt
<1>8. W(n)[y] = "CR"
  BY <1>4, <1>7
<1>9. Readable(line)
  BY <1>1
<1>13. off[n - 1] \in Nat
  <2>1. n - 1 \in 0 .. N
    BY <1>1
  <2> QED
    BY <1>2, <2>1 DEF WrittenAt
<1> HIDE DEF text, W, N
<1>10. PICK k \in 1 .. L : y = q[k] /\ W(n)[y] = line[k]
  <2>1. W(n)[y] \notin {"\\", "LF"}
    BY <1>8
  <2>2. \A z \in 1 .. Len(W(n)) : \/ W(n)[z] \in {"\\", "LF"}
                                  \/ \E k \in 1 .. L : z = q[k] /\ W(n)[z] = line[k]
    BY <1>6 DEF EscapedAs
  <2> QED
    BY <2>1, <2>2
<1>11. k # L
  BY <1>8, <1>9, <1>10 DEF Readable
<1>12. y + 1 \in 1 .. Len(W(n)) /\ W(n)[y + 1] # "LF"
  <2>1. k \in 0 .. L
    BY <1>5
  <2>2. q[k] \in Nat /\ q[k] + 1 <= Len(W(n)) /\ (W(n)[q[k] + 1] = "LF" <=> k = L)
    BY <1>5, <1>6, <2>1, BreakEndsLine
  <2>3. Len(W(n)) \in Nat
    BY <1>5
  <2>4. y + 1 <= Len(W(n)) /\ W(n)[y + 1] # "LF"
    <3>1. y = q[k] /\ k # L
      BY <1>10, <1>11
    <3> QED
      BY ONLY <2>2, <3>1
  <2>5. \A g, h \in Nat : g \in 1 .. h /\ g + 1 <= h => g + 1 \in 1 .. h
    OBVIOUS
  <2>6. y \in Nat
    BY <2>3
  <2> QED
    BY <2>3, <2>4, <2>5, <2>6
<1>14. text[off[n - 1] + (y + 1)] = text[i + 1]
  <2>1. Len(W(n)) \in Nat
    BY <1>5
  <2>2. off[n - 1] + (y + 1) = i + 1
    <3>1. y \in Nat
      BY <2>1
    <3>2. \A g, h \in Nat : g + (h + 1) = (g + h) + 1
      OBVIOUS
    <3> QED
      BY <1>4, <1>13, <3>1, <3>2
  <2> QED
    BY <2>2
<1> QED
  BY <1>7, <1>12, <1>14

-----------------------------------------------------------------------------
(***************************************************************************)
(* Reading a file, a character at a time.                                  *)
(***************************************************************************)
EscapesAt(text, i) == text[i] = "\\" /\ i < Len(text) /\ text[i + 1] = "LF"

ReadStep(text, i, acc) ==
    IF EscapesAt(text, i) THEN acc
    ELSE IF text[i] = "LF" /\ ~(i > 1 /\ EscapesAt(text, i - 1)) THEN EndLine(acc)
    ELSE [acc EXCEPT !.current = Append(@, text[i])]

Reads(r, text) ==
    /\ r[0] = [lines |-> <<>>, current |-> <<>>]
    /\ \A i \in 1 .. Len(text) : r[i] = ReadStep(text, i, r[i - 1])

LEMMA ReadIsRecursive ==
    ASSUME NEW text \in Seq(Chars)
    PROVE  \E r : Reads(r, text) /\ SplitUnescapedLines(text) = EndLine(r[Len(text)]).lines
<1> DEFINE L == Len(text)
           D == [lines : Seq(Seq(Chars)), current : Seq(Chars)]
           start == [lines |-> <<>>, current |-> <<>>]
           Escapes(i) == text[i] = "\\" /\ i < Len(text) /\ text[i + 1] = "LF"
           Is(f) == f = [i \in 0 .. Len(text) |->
                           IF i = 0 THEN [lines |-> <<>>, current |-> <<>>]
                           ELSE LET acc == f[i - 1] IN
                                IF Escapes(i) THEN acc
                                ELSE IF text[i] = "LF" /\ ~(i > 1 /\ Escapes(i - 1)) THEN EndLine(acc)
                                ELSE [acc EXCEPT !.current = Append(@, text[i])]]
           h == CHOOSE f : Is(f)
           F == [p \in Nat \X D |-> IF p[1] \in 1 .. L THEN ReadStep(text, p[1], p[2]) ELSE p[2]]
<1>1. SplitUnescapedLines(text) = EndLine(h[Len(text)]).lines
  BY DEF SplitUnescapedLines
<1>2. L \in Nat /\ \A i \in 1 .. L : text[i] \in Chars
  OBVIOUS
<1>3. start \in D
  <2>1. <<>> \in Seq(Chars) /\ <<>> \in Seq(Seq(Chars))
    OBVIOUS
  <2> QED
    BY <2>1
<1>4. \A i \in 1 .. L, acc \in D : ReadStep(text, i, acc) \in D
  <2> SUFFICES ASSUME NEW i \in 1 .. L, NEW acc \in D
               PROVE  ReadStep(text, i, acc) \in D
    OBVIOUS
  <2>1. acc.lines \in Seq(Seq(Chars)) /\ acc.current \in Seq(Chars) /\ <<>> \in Seq(Chars)
    OBVIOUS
  <2>2. EndLine(acc) \in D
    <3>1. Append(acc.lines, acc.current) \in Seq(Seq(Chars))
      BY <2>1
    <3> QED
      BY <2>1, <3>1 DEF EndLine
  <2>3. [acc EXCEPT !.current = Append(@, text[i])] \in D
    <3>1. Append(acc.current, text[i]) \in Seq(Chars)
      BY <1>2, <2>1
    <3> QED
      BY <3>1
  <2> HIDE DEF D
  <2> QED
    BY <2>2, <2>3 DEF ReadStep
<1>5. \A i \in 0 .. L : \A acc :
        (IF Escapes(i) THEN acc
         ELSE IF text[i] = "LF" /\ ~(i > 1 /\ Escapes(i - 1)) THEN EndLine(acc)
         ELSE [acc EXCEPT !.current = Append(@, text[i])]) = ReadStep(text, i, acc)
  BY DEF ReadStep, EscapesAt
<1> HIDE DEF Escapes, D
<1>6. F \in [Nat \X D -> D]
  BY <1>4
<1>7. \A i \in 1 .. L, acc \in D : F[<<i, acc>>] = ReadStep(text, i, acc)
  BY <1>2
<1> HIDE DEF F, L
<1>8. PICK g \in [0 .. L -> D] : Solves(g, F, start, L)
  BY <1>2, <1>3, <1>6, RecursionExists
<1> HIDE DEF start
<1>9. \A i \in 0 .. L : g[i] = IF i = 0 THEN start ELSE ReadStep(text, i, g[i - 1])
  <2> SUFFICES ASSUME NEW i \in 0 .. L
               PROVE  g[i] = IF i = 0 THEN start ELSE ReadStep(text, i, g[i - 1])
    OBVIOUS
  <2>1. CASE i = 0
    BY <1>8, <2>1 DEF Solves
  <2>2. CASE i # 0
    <3>1. i \in 1 .. L /\ i - 1 \in 0 .. L
      BY <1>2, <2>2
    <3>2. g[i] = F[<<i, g[i - 1]>>] /\ g[i - 1] \in D
      BY <1>8, <3>1 DEF Solves
    <3> QED
      BY <1>7, <2>2, <3>1, <3>2
  <2> QED
    BY <2>1, <2>2
<1>10. Is(g)
  <2>1. \A i \in 0 .. L :
          g[i] = IF i = 0 THEN [lines |-> <<>>, current |-> <<>>]
                 ELSE LET acc == g[i - 1] IN
                      IF Escapes(i) THEN acc
                      ELSE IF text[i] = "LF" /\ ~(i > 1 /\ Escapes(i - 1)) THEN EndLine(acc)
                      ELSE [acc EXCEPT !.current = Append(@, text[i])]
    BY <1>5, <1>9 DEF start
  <2> QED
    BY <2>1 DEF L
<1>11. Is(h)
  BY <1>10
<1> HIDE DEF h
<1>12. \A i \in 0 .. L :
         h[i] = IF i = 0 THEN [lines |-> <<>>, current |-> <<>>]
                ELSE LET acc == h[i - 1] IN
                     IF Escapes(i) THEN acc
                     ELSE IF text[i] = "LF" /\ ~(i > 1 /\ Escapes(i - 1)) THEN EndLine(acc)
                     ELSE [acc EXCEPT !.current = Append(@, text[i])]
  BY <1>11 DEF L
<1>13. Reads(h, text)
  <2>1. h[0] = [lines |-> <<>>, current |-> <<>>]
    <3>1. 0 \in 0 .. L
      BY <1>2
    <3> QED
      BY <1>12, <3>1
  <2>2. ASSUME NEW i \in 1 .. L PROVE h[i] = ReadStep(text, i, h[i - 1])
    <3>1. i \in 0 .. L /\ i # 0
      BY <1>2
    <3> QED
      BY <1>5, <1>12, <3>1
  <2> QED
    BY <2>1, <2>2 DEF Reads, L
<1> QED
  BY <1>1, <1>13

(***************************************************************************)
(* A line that can be read is read as it was before it was written.        *)
(***************************************************************************)
IsAt(W, base, text) ==
    base + Len(W) <= Len(text) /\ \A y \in 1 .. Len(W) : text[base + y] = W[y]

HasRead(r, i, ls) == r[i] = [lines |-> ls, current |-> <<>>]

LEMMA LineIsRead ==
    ASSUME NEW text \in Seq(Chars), NEW line \in Seq(Chars), Readable(line),
           NEW W \in Seq(Chars), NEW q, EscapedAs(q, line, W),
           NEW base \in Nat, IsAt(W, base, text),
           NEW r, Reads(r, text), NEW ls, HasRead(r, base, ls)
    PROVE  HasRead(r, base + Len(W), Append(ls, line))
<1> DEFINE L == Len(line)
           M == Len(W)
           Got(k) == r[base + q[k]] = [lines |-> ls, current |-> SubSeq(line, 1, k)]
           T == {k \in 0 .. L : Got(k)}
<1>1. /\ L \in Nat /\ L # 0 /\ M \in Nat /\ Len(text) \in Nat
      /\ line[L] # "\\" /\ \A k \in 1 .. L : line[k] \in Chars
  BY DEF Readable
<1>16. base + M <= Len(text) /\ \A y \in 1 .. M : text[base + y] = W[y]
  BY DEF IsAt
<1>2. q[0] = 0 /\ M = q[L] + 1 /\ W[M] = "LF" /\ \A k \in 0 .. L : q[k] \in Nat
  BY DEF EscapedAs
<1>3. \A k \in 1 .. L :
        /\ q[k] < M
        /\ line[k] = "LF" => q[k] = q[k - 1] + 2 /\ W[q[k - 1] + 1] = "\\" /\ W[q[k - 1] + 2] = "LF"
        /\ line[k] # "LF" => q[k] = q[k - 1] + 1 /\ W[q[k]] = line[k]
  BY DEF EscapedAs
<1>4. \A k \in 0 .. L : q[k] + 1 <= M /\ (W[q[k] + 1] = "LF" <=> k = L)
  BY BreakEndsLine
<1>5. \A k \in 0 .. L : /\ base + (q[k] + 1) \in 1 .. Len(text)
                        /\ text[base + (q[k] + 1)] = W[q[k] + 1]
  <2> SUFFICES ASSUME NEW k \in 0 .. L
               PROVE  /\ base + (q[k] + 1) \in 1 .. Len(text)
                      /\ text[base + (q[k] + 1)] = W[q[k] + 1]
    OBVIOUS
  <2>1. q[k] \in Nat /\ q[k] + 1 <= M
    BY <1>2, <1>4
  <2>2. \A b, g, m, t \in Nat : b + m <= t /\ g + 1 <= m => b + (g + 1) \in 1 .. t /\ g + 1 \in 1 .. m
    OBVIOUS
  <2> QED
    BY <1>1, <1>16, <2>1, <2>2
<1>6. SubSeq(line, 1, 0) = <<>> /\ SubSeq(line, 1, L) = line
  BY <1>1
<1>7. \A k \in 1 .. L : Append(SubSeq(line, 1, k - 1), line[k]) = SubSeq(line, 1, k)
  BY <1>1
<1>17. r[base] = [lines |-> ls, current |-> <<>>]
  BY DEF HasRead
<1>8. 0 \in T
  BY <1>1, <1>2, <1>6, <1>17
<1>9. ASSUME NEW k \in 1 .. L, k - 1 \in T
      PROVE  k \in T
  <2> DEFINE b == base + q[k - 1]
  <2>1. k \in 0 .. L /\ k - 1 \in 0 .. L /\ k - 1 # L
    BY <1>1
  <2>2. b \in Nat /\ b + 1 \in 1 .. Len(text) /\ text[b + 1] = W[q[k - 1] + 1] /\ text[b + 1] # "LF"
    <3>1. q[k - 1] \in Nat /\ base + (q[k - 1] + 1) = b + 1
      BY <1>2, <2>1
    <3>2. text[base + (q[k - 1] + 1)] = W[q[k - 1] + 1] /\ base + (q[k - 1] + 1) \in 1 .. Len(text)
      BY <1>5, <2>1
    <3>3. W[q[k - 1] + 1] # "LF"
      BY <1>4, <2>1
    <3>4. b \in Nat
      BY <3>1
    <3> HIDE DEF b
    <3> QED
      BY <3>1, <3>2, <3>3, <3>4
  <2>3. r[b] = [lines |-> ls, current |-> SubSeq(line, 1, k - 1)]
    BY <1>9
  <2> HIDE DEF T
  <2>4. /\ [r[b] EXCEPT !.current = Append(@, line[k])] = [lines |-> ls, current |-> SubSeq(line, 1, k)]
        /\ q[k] \in Nat /\ q[k - 1] \in Nat /\ q[k] < M
    <3>1. q[k] \in Nat /\ q[k - 1] \in Nat /\ q[k] < M
      BY <1>2, <1>3, <2>1
    <3>2. Append(SubSeq(line, 1, k - 1), line[k]) = SubSeq(line, 1, k)
      BY <1>7
    <3> HIDE DEF b
    <3>3. [r[b] EXCEPT !.current = Append(@, line[k])]
            = [lines |-> ls, current |-> Append(SubSeq(line, 1, k - 1), line[k])]
      <4> DEFINE sub == SubSeq(line, 1, k - 1)
                 rec == [lines |-> ls, current |-> sub]
      <4>1. rec.current = sub
        OBVIOUS
      <4> HIDE DEF sub
      <4>2. \A c : [rec EXCEPT !.current = c] = [lines |-> ls, current |-> c]
        OBVIOUS
      <4> HIDE DEF rec
      <4> QED
        BY <2>3, <4>1, <4>2 DEF sub, rec
    <3> QED
      BY <3>1, <3>2, <3>3
  <2>5. CASE line[k] = "LF"
    <3>1. q[k] = q[k - 1] + 2 /\ W[q[k - 1] + 1] = "\\" /\ W[q[k - 1] + 2] = "LF"
      BY <1>3, <2>5
    <3>2. base + q[k] = b + 2 /\ b + 2 \in 1 .. Len(text) /\ text[b + 2] = W[q[k - 1] + 2]
      <4>1. \A g, h, m, t \in Nat : h = g + 2 /\ h < m /\ base + m <= t =>
              base + h = (base + g) + 2 /\ (base + g) + 2 \in 1 .. t /\ g + 2 \in 1 .. m
        OBVIOUS
      <4>2. base + q[k] = b + 2 /\ b + 2 \in 1 .. Len(text) /\ q[k - 1] + 2 \in 1 .. M
        BY <1>1, <1>16, <2>4, <3>1, <4>1
      <4>3. base + (q[k - 1] + 2) = b + 2
        BY <2>4
      <4> QED
        BY <1>16, <4>2, <4>3
    <3>3. (b + 2) - 1 = b + 1 /\ (b + 1) + 1 = b + 2 /\ (b + 1) - 1 = b /\ b + 2 > 1 /\ b + 1 < Len(text)
      <4>1. \A g, t \in Nat : g + 2 \in 1 .. t =>
              (g + 2) - 1 = g + 1 /\ (g + 1) + 1 = g + 2 /\ (g + 1) - 1 = g /\ g + 2 > 1 /\ g + 1 < t
        OBVIOUS
      <4> HIDE DEF b
      <4> QED
        BY <1>1, <2>2, <3>2, <4>1
    <3>4. text[b + 1] = "\\" /\ text[b + 2] = "LF"
      BY <2>2, <3>1, <3>2
    <3> HIDE DEF b
    <3>5. EscapesAt(text, b + 1) /\ ~EscapesAt(text, b + 2)
      BY <3>3, <3>4 DEF EscapesAt
    <3>6. r[b + 1] = r[b]
      <4>1. r[b + 1] = ReadStep(text, b + 1, r[b])
        BY <2>2, <3>3 DEF Reads
      <4> QED
        BY <3>5, <4>1 DEF ReadStep
    <3>7. r[b + 2] = [r[b] EXCEPT !.current = Append(@, line[k])]
      <4>1. r[b + 2] = ReadStep(text, b + 2, r[b])
        BY <3>2, <3>3, <3>6 DEF Reads
      <4> QED
        BY <2>5, <3>3, <3>4, <3>5, <4>1 DEF ReadStep
    <3> QED
      BY <2>1, <2>4, <3>2, <3>7 DEF T
  <2>6. CASE line[k] # "LF"
    <3>1. q[k] = q[k - 1] + 1 /\ W[q[k]] = line[k]
      BY <1>3, <2>6
    <3>2. base + q[k] = b + 1 /\ text[b + 1] = line[k]
      BY <2>2, <2>4, <3>1
    <3>3. ~EscapesAt(text, b + 1)
      <4>1. CASE k = L
        BY <1>1, <3>2, <4>1 DEF EscapesAt
      <4>2. CASE k # L
        <5>1. text[base + (q[k] + 1)] # "LF"
          BY <1>4, <1>5, <2>1, <4>2
        <5>2. base + (q[k] + 1) = (b + 1) + 1
          BY <2>4, <3>1
        <5> QED
          BY <5>1, <5>2 DEF EscapesAt
      <4> QED
        BY <4>1, <4>2
    <3>4. r[b + 1] = ReadStep(text, b + 1, r[b])
      <4>1. (b + 1) - 1 = b
        BY <2>2
      <4> QED
        BY <2>2, <4>1 DEF Reads
    <3>5. r[b + 1] = [r[b] EXCEPT !.current = Append(@, line[k])]
      BY <2>2, <3>2, <3>3, <3>4 DEF ReadStep
    <3> QED
      BY <2>1, <2>4, <3>2, <3>5 DEF T
  <2> QED
    BY <2>5, <2>6
<1> HIDE DEF T
<1>10. \A k \in 0 .. L : k \in T
  BY <1>1, <1>8, <1>9, OneAfterTheOther
<1>11. r[base + q[L]] = [lines |-> ls, current |-> line]
  <2>1. L \in T
    BY <1>1, <1>10
  <2> QED
    BY <1>6, <2>1 DEF T
<1> DEFINE e == base + q[L]
<1>12. e \in Nat /\ base + M = e + 1 /\ e + 1 \in 1 .. Len(text) /\ text[e + 1] = "LF" /\ (e + 1) - 1 = e
  <2>1. L \in 0 .. L /\ q[L] \in Nat
    BY <1>1, <1>2
  <2>2. base + (q[L] + 1) = e + 1
    BY <2>1
  <2>3. base + (q[L] + 1) \in 1 .. Len(text) /\ text[base + (q[L] + 1)] = W[q[L] + 1]
    BY <1>5, <2>1
  <2>4. W[q[L] + 1] = "LF" /\ base + M = e + 1
    BY <1>2, <2>1, <2>2
  <2>5. e \in Nat /\ (e + 1) - 1 = e
    BY <2>1
  <2> HIDE DEF e
  <2> QED
    BY <2>2, <2>3, <2>4, <2>5
<1>13. ~EscapesAt(text, e)
  <2>1. CASE line[L] = "LF"
    <3>1. q[L] = q[L - 1] + 2 /\ W[q[L]] = "LF" /\ q[L] \in 1 .. M
      <4>1. L \in 1 .. L /\ L - 1 \in 0 .. L
        BY <1>1
      <4>2. q[L] = q[L - 1] + 2 /\ W[q[L - 1] + 2] = "LF" /\ q[L] < M /\ q[L - 1] \in Nat
        BY <1>2, <1>3, <2>1, <4>1
      <4> QED
        BY <1>1, <4>2
    <3>2. text[e] = "LF"
      BY <1>16, <3>1
    <3> QED
      BY <3>2 DEF EscapesAt
  <2>2. CASE line[L] # "LF"
    <3>1. q[L] = q[L - 1] + 1 /\ W[q[L]] = line[L] /\ q[L] \in 1 .. M
      <4>1. L \in 1 .. L /\ L - 1 \in 0 .. L
        BY <1>1
      <4>2. q[L] = q[L - 1] + 1 /\ W[q[L]] = line[L] /\ q[L] < M /\ q[L - 1] \in Nat
        BY <1>2, <1>3, <2>2, <4>1
      <4> QED
        BY <1>1, <4>2
    <3>2. text[e] = line[L]
      BY <1>16, <3>1
    <3> QED
      BY <1>1, <3>2 DEF EscapesAt
  <2> QED
    BY <2>1, <2>2
<1> HIDE DEF e
<1>14. r[e + 1] = EndLine(r[e])
  <2>1. r[e + 1] = ReadStep(text, e + 1, r[e])
    BY <1>12 DEF Reads
  <2>2. ~EscapesAt(text, e + 1)
    BY <1>12 DEF EscapesAt
  <2> QED
    BY <1>12, <1>13, <2>1, <2>2 DEF ReadStep
<1>15. EndLine(r[e]) = [lines |-> Append(ls, line), current |-> <<>>]
  <2>1. r[e] = [lines |-> ls, current |-> line] /\ line # <<>>
    BY <1>11 DEF e, Readable
  <2> QED
    BY <2>1 DEF EndLine
<1> QED
  BY <1>12, <1>14, <1>15 DEF HasRead

(***************************************************************************)
(* What save wrote, violations(rule) reads: the embedded line breaks, the  *)
(* backslashes and the carriage returns of readable lines come back.       *)
(***************************************************************************)
THEOREM SavedReadsBack ==
    ASSUME NEW lines \in Seq(Seq(Chars)), \A n \in DOMAIN lines : Readable(lines[n])
    PROVE  SplitUnescapedLines(UnixLineBreaks(Saved(lines))) = lines
<1> DEFINE text == Saved(lines)
           N == Len(lines)
           Empty(ls) == [lines |-> ls, current |-> <<>>]
<1>1. text \in Seq(Chars) /\ N \in Nat /\ DOMAIN lines = 1 .. N
  BY SavedIsWritten
<1>11. \A n \in 1 .. N : lines[n] \in Seq(Chars) /\ Readable(lines[n])
  <2>1. DOMAIN lines = 1 .. N
    OBVIOUS
  <2>2. \A n \in 1 .. N : lines[n] \in Seq(Chars)
    OBVIOUS
  <2>3. \A n \in 1 .. N : Readable(lines[n])
    BY <2>1
  <2> HIDE DEF N
  <2> QED
    BY <2>2, <2>3
<1>2. PICK off : WrittenAt(off, lines)
  BY SavedIsWritten
<1>3. UnixLineBreaks(text) = text
  BY SavedHasUnixBreaks
<1>4. /\ off[0] = 0 /\ off[N] = Len(text)
      /\ \A n \in 0 .. N : off[n] \in Nat
  BY <1>2 DEF WrittenAt
<1> HIDE DEF text
<1>5. PICK r : Reads(r, text) /\ SplitUnescapedLines(text) = EndLine(r[Len(text)]).lines
  BY <1>1, ReadIsRecursive
<1> DEFINE T == {n \in 0 .. N : r[off[n]] = Empty(SubSeq(lines, 1, n))}
<1>6. 0 \in T
  <2>1. SubSeq(lines, 1, 0) = <<>>
    OBVIOUS
  <2> QED
    BY <1>1, <1>4, <1>5, <2>1 DEF Reads
<1>7. ASSUME NEW n \in 1 .. N, n - 1 \in T
      PROVE  n \in T
  <2> DEFINE line == lines[n]
             W == EscapedLine(line)
             ls == SubSeq(lines, 1, n - 1)
  <2>1. line \in Seq(Chars) /\ Readable(line)
    BY <1>11
  <2>9. W \in Seq(Chars) /\ \E q : EscapedAs(q, line, W)
    <3> HIDE DEF line
    <3> QED
      BY <2>1, LinesAreEscaped
  <2>2. PICK q : EscapedAs(q, line, W)
    BY <2>9
  <2>3. /\ off[n] = off[n - 1] + Len(W) /\ off[n] <= Len(text)
        /\ \A y \in 1 .. Len(W) : text[off[n - 1] + y] = W[y]
    BY <1>2 DEF WrittenAt, text
  <2>4. n \in 0 .. N /\ n - 1 \in 0 .. N /\ off[n - 1] \in Nat
    BY <1>1, <1>4
  <2>5. r[off[n - 1]] = [lines |-> ls, current |-> <<>>]
    BY <1>7
  <2>6. Append(ls, line) = SubSeq(lines, 1, n)
    BY <1>1
  <2> HIDE DEF T, W, line, ls, N
  <2> DEFINE base == off[n - 1]
  <2>10. /\ base \in Nat /\ IsAt(W, base, text) /\ r[base] = [lines |-> ls, current |-> <<>>]
    BY <2>3, <2>4, <2>5 DEF IsAt
  <2>11. Reads(r, text)
    BY <1>5
  <2> HIDE DEF base
  <2>7. HasRead(r, base + Len(W), Append(ls, line))
    <3>1. text \in Seq(Chars) /\ W \in Seq(Chars) /\ line \in Seq(Chars) /\ base \in Nat
      BY <1>1, <2>1, <2>9, <2>10
    <3>2. Readable(line) /\ EscapedAs(q, line, W) /\ IsAt(W, base, text) /\ Reads(r, text)
      BY <2>1, <2>2, <2>10, <2>11
    <3>3. HasRead(r, base, ls)
      BY <2>10 DEF HasRead
    <3> QED
      BY ONLY <3>1, <3>2, <3>3, LineIsRead
  <2>8. r[off[n]] = [lines |-> SubSeq(lines, 1, n), current |-> <<>>]
    BY <2>3, <2>6, <2>7 DEF base, HasRead
  <2> QED
    BY <2>4, <2>8 DEF T
<1> HIDE DEF T
<1>8. \A n \in 0 .. N : n \in T
  BY <1>1, <1>6, <1>7, OneAfterTheOther
<1>9. r[Len(text)] = Empty(lines)
  <2>1. N \in 0 .. N /\ SubSeq(lines, 1, N) = lines
    BY <1>1
  <2> QED
    BY <1>4, <1>8, <2>1 DEF T
<1>10. EndLine(r[Len(text)]).lines = lines
  <2>1. Empty(lines).current = <<>> /\ Empty(lines).lines = lines
    OBVIOUS
  <2> QED
    BY <1>9, <2>1 DEF EndLine
<1> QED
  BY <1>3, <1>5, <1>10 DEF text

-----------------------------------------------------------------------------
(***************************************************************************)
(* The greedy matching: a stored line is taken once, by a line that it     *)
(* matches, and there is one such matching.                                *)
(***************************************************************************)
Greedy(m, lines, stored) ==
    m \in [DOMAIN lines -> 0 .. Len(stored)] /\ IsGreedyMatching(m, lines, stored)

LEMMA TakenOnce ==
    ASSUME NEW lines \in Seq(Lines), NEW stored \in Seq(Lines), NEW m, Greedy(m, lines, stored)
    PROVE  /\ DOMAIN m = DOMAIN lines /\ Matched(m) \subseteq DOMAIN lines
           /\ \A i \in DOMAIN lines : m[i] \in 0 .. Len(stored)
           /\ \A i \in Matched(m) : m[i] \in DOMAIN stored /\ <<lines[i], stored[m[i]]>> \in Matches
           /\ \A i, k \in Matched(m) : m[i] = m[k] => i = k
<1> DEFINE N == Len(lines)
<1>1. N \in Nat /\ DOMAIN lines = 1 .. N /\ Len(stored) \in Nat /\ DOMAIN stored = 1 .. Len(stored)
  OBVIOUS
<1>2. DOMAIN m = DOMAIN lines /\ \A i \in DOMAIN lines : m[i] \in 0 .. Len(stored)
  BY DEF Greedy
<1>3. Matched(m) \subseteq DOMAIN lines /\ \A i \in Matched(m) : m[i] # 0
  BY <1>2 DEF Matched
<1>4. \A i \in Matched(m) : m[i] \in StoredLeft(m, i, lines, stored)
  BY <1>3 DEF Greedy, IsGreedyMatching
<1>5. \A i \in Matched(m) : m[i] \in DOMAIN stored /\ <<lines[i], stored[m[i]]>> \in Matches
  BY <1>4 DEF StoredLeft
<1>6. \A i \in Matched(m) : \A k \in 1 .. (i - 1) : m[k] # m[i]
  BY <1>4 DEF StoredLeft
<1>7. ASSUME NEW i \in Matched(m), NEW k \in Matched(m), m[i] = m[k]
      PROVE  i = k
  <2>1. i \in 1 .. N /\ k \in 1 .. N
    BY <1>1, <1>3
  <2> HIDE DEF N
  <2>2. ~(k < i) /\ ~(i < k)
    <3>1. k < i => k \in 1 .. (i - 1)
      BY <1>1, <2>1
    <3>2. i < k => i \in 1 .. (k - 1)
      BY <1>1, <2>1
    <3> QED
      BY <1>6, <1>7, <3>1, <3>2
  <2> QED
    BY <1>1, <2>1, <2>2
<1> QED
  BY <1>2, <1>3, <1>5, <1>7

LEMMA GreedyIsUnique ==
    ASSUME NEW lines \in Seq(Lines), NEW stored \in Seq(Lines),
           NEW m, Greedy(m, lines, stored), NEW w, Greedy(w, lines, stored)
    PROVE  m = w
<1> DEFINE N == Len(lines)
           D == {i \in 1 .. N : m[i] # w[i]}
<1>1. N \in Nat /\ DOMAIN lines = 1 .. N
  OBVIOUS
<1>2. m \in [1 .. N -> 0 .. Len(stored)] /\ w \in [1 .. N -> 0 .. Len(stored)]
  BY <1>1 DEF Greedy
<1>3. CASE D # {}
  <2>1. PICK i \in D : \A k \in D : i <= k
    <3>1. D \in SUBSET Nat
      OBVIOUS
    <3> HIDE DEF D
    <3> QED
      BY <1>3, <3>1, LeastExists
  <2>2. \A k \in 1 .. (i - 1) : m[k] = w[k]
    BY <1>1, <2>1
  <2>3. StoredLeft(m, i, lines, stored) = StoredLeft(w, i, lines, stored)
    BY <2>2 DEF StoredLeft
  <2> DEFINE left == StoredLeft(m, i, lines, stored)
  <2>4. i \in DOMAIN lines
    BY <1>1
  <2>5. /\ (left = {} /\ m[i] = 0) \/ (m[i] \in left /\ \A j \in left : m[i] <= j)
        /\ (left = {} /\ w[i] = 0) \/ (w[i] \in left /\ \A j \in left : w[i] <= j)
    BY <2>3, <2>4 DEF Greedy, IsGreedyMatching
  <2>6. m[i] \in Nat /\ w[i] \in Nat
    BY <1>2
  <2> HIDE DEF left
  <2>7. m[i] = w[i]
    <3>1. CASE left = {}
      BY <2>5, <3>1
    <3>2. CASE left # {}
      <4>1. m[i] <= w[i] /\ w[i] <= m[i]
        BY <2>5, <3>2
      <4> QED
        BY <2>6, <4>1
    <3> QED
      BY <3>1, <3>2
  <2> QED
    BY <2>1, <2>7
<1>4. CASE D = {}
  <2>1. \A i \in 1 .. N : m[i] = w[i]
    BY <1>4
  <2> QED
    BY <1>2, <2>1
<1> QED
  BY <1>3, <1>4

(***************************************************************************)
(* What CategorizedViolations::new returns, from its matching.             *)
(***************************************************************************)
KeptInOrder(e, c, m, stored) ==
    /\ e \in [1 .. Cardinality(Matched(m)) -> Matched(m)]
    /\ IsVisitOrder(e, m)
    /\ c.storedUnsolved = [a \in 1 .. Cardinality(Matched(m)) |-> stored[m[e[a]]]]

ComesFrom(c, m, lines, stored) ==
    /\ Greedy(m, lines, stored)
    /\ c.knownActual = {lines[i] : i \in Matched(m)}
    /\ c.storedSolved = {j \in DOMAIN stored : \A i \in Matched(m) : stored[m[i]] # stored[j]}
    /\ \E e : KeptInOrder(e, c, m, stored)

LEMMA CategoriesComeFrom ==
    ASSUME NEW lines \in Seq(Lines), NEW stored \in Seq(Lines),
           NEW c \in CategorizedViolations(lines, stored)
    PROVE  \E m : ComesFrom(c, m, lines, stored)
<1>1. PICK m \in {m \in [DOMAIN lines -> 0 .. Len(stored)] : IsGreedyMatching(m, lines, stored)} :
        c \in {Categories(e, m, lines, stored) :
                 e \in {e \in [1 .. Cardinality(Matched(m)) -> Matched(m)] : IsVisitOrder(e, m)}}
  BY DEF CategorizedViolations
<1>2. PICK e \in [1 .. Cardinality(Matched(m)) -> Matched(m)] :
        IsVisitOrder(e, m) /\ c = Categories(e, m, lines, stored)
  BY <1>1
<1>3. Greedy(m, lines, stored)
  BY <1>1 DEF Greedy
<1>4. DOMAIN e = 1 .. Cardinality(Matched(m)) /\ Matched(m) = {e[a] : a \in DOMAIN e}
  BY <1>2 DEF IsVisitOrder
<1>5. /\ c.knownActual = {lines[i] : i \in Matched(m)}
      /\ c.storedUnsolved = [a \in DOMAIN e |-> stored[m[e[a]]]]
      /\ c.storedSolved = {j \in DOMAIN stored : \A a \in DOMAIN e : stored[m[e[a]]] # stored[j]}
  BY <1>2 DEF Categories, Unsolved
<1>6. \A j : (\A a \in DOMAIN e : stored[m[e[a]]] # stored[j])
               <=> (\A i \in Matched(m) : stored[m[i]] # stored[j])
  BY <1>4
<1>7. c.storedSolved = {j \in DOMAIN stored : \A i \in Matched(m) : stored[m[i]] # stored[j]}
  BY <1>5, <1>6
<1>8. KeptInOrder(e, c, m, stored)
  <2>1. c.storedUnsolved = [a \in 1 .. Cardinality(Matched(m)) |-> stored[m[e[a]]]]
    BY <1>4, <1>5
  <2> QED
    BY <1>2, <2>1 DEF KeptInOrder
<1>9. ComesFrom(c, m, lines, stored)
  BY <1>3, <1>5, <1>7, <1>8 DEF ComesFrom
<1> QED
  BY <1>9

(***************************************************************************)
(* The lines that are kept are stored lines, each kept once; matched again *)
(* with the same report, the a-th of them is taken by the line that took   *)
(* it before, and the others take nothing.                                 *)
(***************************************************************************)
Kept(e, m, stored) == [a \in 1 .. Cardinality(Matched(m)) |-> stored[m[e[a]]]]

LEMMA KeptAreStored ==
    ASSUME NEW lines \in Seq(Lines), NEW stored \in Seq(Lines), NEW m, Greedy(m, lines, stored),
           NEW e \in [1 .. Cardinality(Matched(m)) -> Matched(m)], IsVisitOrder(e, m)
    PROVE  /\ Cardinality(Matched(m)) \in Nat
           /\ Kept(e, m, stored) \in Seq(Lines)
           /\ DOMAIN Kept(e, m, stored) = 1 .. Cardinality(Matched(m))
           /\ PartOf(Kept(e, m, stored), stored)
           /\ \A a, b \in 1 .. Cardinality(Matched(m)) : e[a] = e[b] => a = b
<1> DEFINE K == Cardinality(Matched(m))
           kept == Kept(e, m, stored)
<1>1. K \in Nat
  <2>1. IsFiniteSet(1 .. Len(lines)) /\ DOMAIN lines = 1 .. Len(lines)
    BY FS_Interval
  <2>2. IsFiniteSet(Matched(m))
    BY <2>1, TakenOnce, FS_Subset
  <2> QED
    BY <2>2, FS_CardinalityType
<1>2. /\ \A i \in Matched(m) : m[i] \in DOMAIN stored
      /\ \A i, k \in Matched(m) : m[i] = m[k] => i = k
      /\ Matched(m) \subseteq Nat
  <2>1. DOMAIN lines \subseteq Nat
    OBVIOUS
  <2> QED
    BY <2>1, TakenOnce
<1> HIDE DEF K
<1>3. \A a \in 1 .. K : e[a] \in Matched(m) /\ e[a] \in Nat
  BY <1>2 DEF K
<1>4. \A a, b \in 1 .. K : a < b => e[a] < e[b]
  BY DEF IsVisitOrder, K
<1>5. \A a, b \in 1 .. K : e[a] = e[b] => a = b
  <2> SUFFICES ASSUME NEW a \in 1 .. K, NEW b \in 1 .. K, e[a] = e[b] PROVE a = b
    OBVIOUS
  <2>1. e[a] \in Nat /\ ~(e[a] < e[b]) /\ ~(e[b] < e[a])
    BY <1>3
  <2>2. ~(a < b) /\ ~(b < a)
    BY <1>4, <2>1
  <2> QED
    BY <1>1, <2>2
<1>6. DOMAIN kept = 1 .. K /\ \A a \in 1 .. K : kept[a] = stored[m[e[a]]]
  BY DEF Kept, K
<1>7. kept \in Seq(Lines)
  <2>1. \A j \in DOMAIN stored : stored[j] \in Lines
    OBVIOUS
  <2>2. \A a \in 1 .. K : stored[m[e[a]]] \in Lines
    BY <1>2, <1>3, <2>1
  <2>3. kept \in [1 .. K -> Lines]
    BY <2>2 DEF Kept, K
  <2> HIDE DEF kept
  <2> QED
    BY <1>1, <2>3
<1> HIDE DEF kept
<1>8. PartOf(kept, stored)
  <2> DEFINE at == [a \in DOMAIN kept |-> m[e[a]]]
  <2>1. at \in [DOMAIN kept -> DOMAIN stored]
    BY <1>2, <1>3, <1>6
  <2>2. \A a \in DOMAIN kept : at[a] = m[e[a]]
    OBVIOUS
  <2> HIDE DEF at
  <2>3. \A a, b \in DOMAIN kept : at[a] = at[b] => a = b
    BY <1>2, <1>3, <1>5, <1>6, <2>2
  <2>4. \A a \in DOMAIN kept : kept[a] = stored[at[a]]
    BY <1>6, <2>2
  <2> QED
    BY <2>1, <2>3, <2>4 DEF PartOf
<1> QED
  BY <1>1, <1>5, <1>6, <1>7, <1>8 DEF K, kept

LEMMA KeptAreTakenAgain ==
    ASSUME NEW lines \in Seq(Lines), NEW stored \in Seq(Lines), NEW m, Greedy(m, lines, stored),
           NEW e \in [1 .. Cardinality(Matched(m)) -> Matched(m)], IsVisitOrder(e, m)
    PROVE  \E w : /\ Greedy(w, lines, Kept(e, m, stored))
                  /\ Matched(w) = Matched(m)
                  /\ \A j \in DOMAIN Kept(e, m, stored) : \E i \in Matched(w) : w[i] = j
<1> DEFINE K == Cardinality(Matched(m))
           kept == Kept(e, m, stored)
           w == [i \in DOMAIN lines |-> IF m[i] = 0 THEN 0 ELSE CHOOSE a \in 1 .. K : e[a] = i]
<1>1. /\ K \in Nat /\ kept \in Seq(Lines) /\ DOMAIN kept = 1 .. K /\ Len(kept) = K
      /\ \A a, b \in 1 .. K : e[a] = e[b] => a = b
  BY KeptAreStored
<1>2. /\ DOMAIN m = DOMAIN lines /\ Matched(m) \subseteq DOMAIN lines
      /\ \A i \in DOMAIN lines : m[i] \in 0 .. Len(stored)
      /\ \A i \in Matched(m) : m[i] \in DOMAIN stored /\ <<lines[i], stored[m[i]]>> \in Matches
      /\ \A i, k \in Matched(m) : m[i] = m[k] => i = k
  BY TakenOnce
<1>3. \A a \in 1 .. K : kept[a] = stored[m[e[a]]] /\ e[a] \in Matched(m)
  BY DEF Kept
<1>4. \A a, b \in 1 .. K : a < b => e[a] < e[b]
  BY DEF IsVisitOrder
<1>5. \A i \in Matched(m) : \E a \in 1 .. K : e[a] = i
  BY DEF IsVisitOrder
<1>6. DOMAIN w = DOMAIN lines
  OBVIOUS
<1>7. \A i \in DOMAIN lines : m[i] = 0 => w[i] = 0
  OBVIOUS
<1>8. \A i \in Matched(m) : w[i] \in 1 .. K /\ e[w[i]] = i
  <2> SUFFICES ASSUME NEW i \in Matched(m) PROVE w[i] \in 1 .. K /\ e[w[i]] = i
    OBVIOUS
  <2>1. i \in DOMAIN lines /\ m[i] # 0
    BY <1>2 DEF Matched
  <2>2. w[i] = CHOOSE a \in 1 .. K : e[a] = i
    BY <2>1
  <2> HIDE DEF w, K
  <2> QED
    BY <1>5, <2>2
<1> HIDE DEF w, K, kept
<1>9. \A i \in DOMAIN lines : i \in Matched(m) \/ m[i] = 0
  BY <1>2 DEF Matched
<1>10. \A a \in 1 .. K : w[e[a]] = a
  BY <1>1, <1>3, <1>8
<1>11. Matched(w) = Matched(m)
  <2>1. \A i \in Matched(m) : i \in DOMAIN lines /\ w[i] # 0
    BY <1>1, <1>2, <1>8
  <2>2. \A i \in DOMAIN lines : w[i] # 0 => i \in Matched(m)
    BY <1>7, <1>9
  <2> QED
    BY <1>6, <2>1, <2>2 DEF Matched
<1>12. w \in [DOMAIN lines -> 0 .. Len(kept)]
  <2>1. \A i \in DOMAIN lines : w[i] \in 0 .. K
    BY <1>1, <1>7, <1>8, <1>9
  <2>2. w = [i \in DOMAIN lines |-> w[i]]
    BY DEF w
  <2> QED
    BY <1>1, <2>1, <2>2
<1>13. ASSUME NEW i \in DOMAIN lines
       PROVE  \/ StoredLeft(w, i, lines, kept) = {} /\ w[i] = 0
              \/ /\ w[i] \in StoredLeft(w, i, lines, kept)
                 /\ \A j \in StoredLeft(w, i, lines, kept) : w[i] <= j
  <2> DEFINE left == StoredLeft(w, i, lines, kept)
  <2>1. \A j : j \in left <=> /\ j \in 1 .. K /\ <<lines[i], kept[j]>> \in Matches
                              /\ \A k \in 1 .. (i - 1) : w[k] # j
    BY <1>1 DEF StoredLeft
  <2>2. i \in Nat /\ i - 1 \in Int /\ DOMAIN lines = 1 .. Len(lines) /\ Len(lines) \in Nat
    OBVIOUS
  <2> HIDE DEF left
  <2>3. \A j \in left : ~(e[j] < i)
    <3> SUFFICES ASSUME NEW j \in left, e[j] < i PROVE FALSE
      OBVIOUS
    <3>1. j \in 1 .. K /\ e[j] \in DOMAIN lines
      BY <1>2, <1>3, <2>1
    <3>2. e[j] \in 1 .. (i - 1)
      BY <2>2, <3>1
    <3> QED
      BY <1>10, <2>1, <3>1, <3>2
  <2>4. CASE i \in Matched(m)
    <3>1. w[i] \in 1 .. K /\ e[w[i]] = i
      BY <1>8, <2>4
    <3>2. <<lines[i], kept[w[i]]>> \in Matches
      BY <1>2, <1>3, <2>4, <3>1
    <3>3. \A k \in 1 .. (i - 1) : w[k] # w[i]
      <4> SUFFICES ASSUME NEW k \in 1 .. (i - 1), w[k] = w[i] PROVE FALSE
        OBVIOUS
      <4>1. k \in DOMAIN lines /\ k # i
        BY <2>2
      <4>2. k \in Matched(m)
        BY <1>1, <1>7, <1>9, <3>1, <4>1
      <4> QED
        BY <1>8, <3>1, <4>1, <4>2
    <3>4. \A j \in left : w[i] <= j
      <4> SUFFICES ASSUME NEW j \in left, ~(w[i] <= j) PROVE FALSE
        OBVIOUS
      <4>1. j \in 1 .. K /\ j < w[i]
        <5>1. j \in 1 .. K
          BY <2>1
        <5>2. \A g, h \in 1 .. K : ~(g <= h) => h < g
          BY <1>1
        <5> QED
          BY <3>1, <5>1, <5>2
      <4>2. e[j] < i
        BY <1>4, <3>1, <4>1
      <4> QED
        BY <2>3, <4>2
    <3> QED
      BY <2>1, <3>1, <3>2, <3>3, <3>4 DEF left
  <2>5. CASE i \notin Matched(m)
    <3>1. m[i] = 0 /\ w[i] = 0
      BY <1>7, <1>9, <2>5
    <3>2. StoredLeft(m, i, lines, stored) = {}
      <4>1. DOMAIN stored \subseteq Nat /\ 0 \notin DOMAIN stored
        OBVIOUS
      <4>2. m[i] \notin StoredLeft(m, i, lines, stored)
        BY <3>1, <4>1 DEF StoredLeft
      <4> QED
        BY <4>2 DEF Greedy, IsGreedyMatching
    <3>3. ASSUME NEW j \in left PROVE FALSE
      <4> DEFINE k == e[j]
      <4>1. j \in 1 .. K /\ k \in Matched(m) /\ k \in DOMAIN lines /\ kept[j] = stored[m[k]]
        BY <1>2, <1>3, <2>1, <3>3
      <4> HIDE DEF k
      <4>2. ~(k < i) /\ k # i
        BY <2>3, <2>5, <3>3, <4>1 DEF k
      <4>3. i < k
        BY <2>2, <4>1, <4>2
      <4>4. m[k] \in DOMAIN stored /\ <<lines[i], stored[m[k]]>> \in Matches
        BY <1>2, <2>1, <3>3, <4>1
      <4>5. \A l \in 1 .. (i - 1) : m[l] # m[k]
        <5> SUFFICES ASSUME NEW l \in 1 .. (i - 1), m[l] = m[k] PROVE FALSE
          OBVIOUS
        <5>1. l \in DOMAIN lines /\ l # k
          BY <2>2, <4>1, <4>3
        <5>2. m[k] # 0
          BY <4>1 DEF Matched
        <5>3. l \in Matched(m)
          BY <1>9, <5>1, <5>2
        <5> QED
          BY <1>2, <4>1, <5>1, <5>3
      <4>6. m[k] \in StoredLeft(m, i, lines, stored)
        BY <4>4, <4>5 DEF StoredLeft
      <4> QED
        BY <3>2, <4>6
    <3> QED
      BY <3>1, <3>3 DEF left
  <2> QED
    BY <2>4, <2>5
<1>14. Greedy(w, lines, kept)
  BY <1>12, <1>13 DEF Greedy, IsGreedyMatching
<1>15. \A j \in DOMAIN kept : \E i \in Matched(w) : w[i] = j
  BY <1>1, <1>3, <1>10, <1>11
<1> QED
  BY <1>11, <1>14, <1>15 DEF kept

-----------------------------------------------------------------------------
(***************************************************************************)
(* In every reachable state the file holds readable lines, and when the    *)
(* code was evaluated since it changed, the lines it reports are those     *)
(* that take none of the stored lines, of which none is left over.         *)
(***************************************************************************)
FileIsSaved == file # NotFrozen => \E stored \in Seq(Lines) : file = Saved(stored)

SettledOn(m, stored) ==
    /\ file = Saved(stored)
    /\ Greedy(m, actual, stored)
    /\ reported = NewLines(actual, {actual[i] : i \in Matched(m)})
    /\ \A j \in DOMAIN stored : \E i \in Matched(m) : stored[m[i]] = stored[j]

FreshIsSettled == fresh => \E stored \in Seq(Lines) : \E m : SettledOn(m, stored)

Saves == actual \in Seq(Lines) /\ FileIsSaved

Inv == Saves /\ FreshIsSettled

\* The matcher takes a line for itself.
LinesMatchThemselves == \A line \in Lines : <<line, line>> \in Matches

LEMMA KnownIsStored ==
    ASSUME LinesReadable, NEW stored \in Seq(Lines)
    PROVE  /\ SplitUnescapedLines(UnixLineBreaks(Saved(stored))) = stored
           /\ \A lines \in Seq(Lines) : Saved(lines) = Saved(stored) => lines = stored
<1>1. ASSUME NEW lines \in Seq(Lines)
      PROVE  SplitUnescapedLines(UnixLineBreaks(Saved(lines))) = lines
  <2>1. lines \in Seq(Seq(Chars))
    BY LinesAssumption
  <2>2. \A n \in DOMAIN lines : lines[n] \in Lines
    OBVIOUS
  <2>3. \A n \in DOMAIN lines : Readable(lines[n])
    BY <2>2 DEF LinesReadable
  <2> QED
    BY <2>1, <2>3, SavedReadsBack
<1>2. ASSUME NEW lines \in Seq(Lines), Saved(lines) = Saved(stored)
      PROVE  lines = stored
  <2>1. SplitUnescapedLines(UnixLineBreaks(Saved(lines))) = lines
    BY <1>1
  <2>2. SplitUnescapedLines(UnixLineBreaks(Saved(stored))) = stored
    BY <1>1
  <2> QED
    BY <1>2, <2>1, <2>2
<1> QED
  BY <1>1, <1>2

LEMMA ActualStaysLines ==
    ASSUME actual \in Seq(Lines), [Next]_vars
    PROVE  actual' \in Seq(Lines)
<1>1. ASSUME NEW line \in Lines, Introduce(line)
      PROVE  actual' \in Seq(Lines)
  <2>1. PICK i \in 1 .. (Len(actual) + 1) : actual' = InsertAt(actual, i, line)
    BY <1>1 DEF Introduce
  <2>2. Len(actual) \in Nat
    OBVIOUS
  <2>3. i - 1 \in Nat /\ i - 1 <= Len(actual) /\ i \in Nat
    BY <2>2
  <2>4. SubSeq(actual, 1, i - 1) \in Seq(Lines) /\ SubSeq(actual, i, Len(actual)) \in Seq(Lines)
    <3>1. \A j \in 1 .. Len(actual) : actual[j] \in Lines
      OBVIOUS
    <3> QED
      BY <2>2, <2>3, <3>1
  <2>5. <<line>> \in Seq(Lines)
    OBVIOUS
  <2> QED
    BY <2>1, <2>4, <2>5, Concatenated DEF InsertAt
<1>2. ASSUME NEW i \in DOMAIN actual, Fix(i)
      PROVE  actual' \in Seq(Lines)
  <2>1. actual' = RemoveAt(actual, i)
    BY <1>2 DEF Fix
  <2>2. Len(actual) \in Nat /\ i \in 1 .. Len(actual)
    OBVIOUS
  <2>3. i - 1 \in Nat /\ i - 1 <= Len(actual) /\ i + 1 \in Nat
    BY <2>2
  <2>4. SubSeq(actual, 1, i - 1) \in Seq(Lines) /\ SubSeq(actual, i + 1, Len(actual)) \in Seq(Lines)
    <3>1. \A j \in 1 .. Len(actual) : actual[j] \in Lines
      OBVIOUS
    <3> QED
      BY <2>2, <2>3, <3>1
  <2> QED
    BY <2>1, <2>4, Concatenated DEF RemoveAt
<1> QED
  BY <1>1, <1>2 DEF Next, FirstEvaluation, Evaluation, vars

(***************************************************************************)
(* A file that was just frozen tolerates all it was frozen with.           *)
(***************************************************************************)
LEMMA FrozenIsSettled ==
    ASSUME LinesMatchThemselves, NEW lines \in Seq(Lines)
    PROVE  \E m : Greedy(m, lines, lines) /\ Matched(m) = DOMAIN lines /\ \A i \in DOMAIN lines : m[i] = i
<1> DEFINE m == [i \in DOMAIN lines |-> i]
<1>1. /\ Len(lines) \in Nat /\ DOMAIN lines = 1 .. Len(lines)
      /\ \A i \in DOMAIN lines : lines[i] \in Lines
  OBVIOUS
<1>2. /\ m \in [DOMAIN lines -> 0 .. Len(lines)] /\ DOMAIN m = DOMAIN lines
      /\ \A i \in DOMAIN lines : m[i] = i /\ m[i] # 0
  BY <1>1
<1> HIDE DEF m
<1>3. ASSUME NEW i \in DOMAIN lines
      PROVE  /\ m[i] \in StoredLeft(m, i, lines, lines)
             /\ \A j \in StoredLeft(m, i, lines, lines) : m[i] <= j
  <2>1. \A k \in 1 .. (i - 1) : k \in DOMAIN lines /\ k # i
    BY <1>1
  <2>2. m[i] \in StoredLeft(m, i, lines, lines)
    BY <1>1, <1>2, <2>1 DEF StoredLeft, LinesMatchThemselves
  <2>3. ASSUME NEW j \in StoredLeft(m, i, lines, lines), ~(m[i] <= j)
        PROVE  FALSE
    <3>1. j \in DOMAIN lines /\ \A k \in 1 .. (i - 1) : m[k] # j
      BY DEF StoredLeft
    <3>2. j \in 1 .. (i - 1)
      BY <1>1, <1>2, <2>3, <3>1
    <3> QED
      BY <1>2, <3>1, <3>2
  <2> QED
    BY <2>2, <2>3
<1>4. Greedy(m, lines, lines)
  BY <1>2, <1>3 DEF Greedy, IsGreedyMatching
<1>5. Matched(m) = DOMAIN lines
  BY <1>2 DEF Matched
<1> QED
  BY <1>2, <1>4, <1>5

(***************************************************************************)
(* An evaluation of a frozen rule leaves a file that holds a part of the   *)
(* lines it held, on which the code is settled.                            *)
(***************************************************************************)
LEMMA EvaluationSettles ==
    ASSUME LinesReadable, Saves, Evaluation, NEW stored \in Seq(Lines), file = Saved(stored)
    PROVE  \E kept \in Seq(Lines) : /\ file' = Saved(kept)
                                    /\ PartOf(kept, stored) \/ kept = stored
                                    /\ \E w : SettledOn(w, kept)'
<1>1. actual \in Seq(Lines) /\ actual' = actual
  BY DEF Saves, Evaluation
<1>2. Known = stored
  BY KnownIsStored DEF Known
<1>3. PICK c \in CategorizedViolations(actual, stored) :
        /\ file' = IF c.storedSolved # {} THEN Saved(c.storedUnsolved) ELSE file
        /\ reported' = NewLines(actual, c.knownActual)
  BY <1>2 DEF Evaluation
<1>4. PICK m : ComesFrom(c, m, actual, stored)
  BY <1>1, CategoriesComeFrom
<1>5. /\ Greedy(m, actual, stored)
      /\ reported' = NewLines(actual, {actual[i] : i \in Matched(m)})
      /\ c.storedSolved = {j \in DOMAIN stored : \A i \in Matched(m) : stored[m[i]] # stored[j]}
      /\ \E e : KeptInOrder(e, c, m, stored)
  BY <1>3, <1>4 DEF ComesFrom
<1>6. CASE c.storedSolved = {}
  <2>1. file' = Saved(stored)
    BY <1>3, <1>6
  <2>2. \A j \in DOMAIN stored : \E i \in Matched(m) : stored[m[i]] = stored[j]
    BY <1>5, <1>6
  <2>3. SettledOn(m, stored)'
    BY <1>1, <1>5, <2>1, <2>2 DEF SettledOn
  <2> QED
    BY <2>1, <2>3
<1>7. CASE c.storedSolved # {}
  <2>1. PICK e \in [1 .. Cardinality(Matched(m)) -> Matched(m)] :
          IsVisitOrder(e, m) /\ c.storedUnsolved = Kept(e, m, stored)
    BY <1>5 DEF KeptInOrder, Kept
  <2> DEFINE kept == Kept(e, m, stored)
  <2>2. kept \in Seq(Lines) /\ PartOf(kept, stored)
    BY <1>1, <1>5, <2>1, KeptAreStored
  <2>3. file' = Saved(kept)
    BY <1>3, <1>7, <2>1
  <2>4. PICK w : /\ Greedy(w, actual, kept)
                 /\ Matched(w) = Matched(m)
                 /\ \A j \in DOMAIN kept : \E i \in Matched(w) : w[i] = j
    BY <1>1, <1>5, <2>1, KeptAreTakenAgain
  <2> HIDE DEF kept
  <2>5. \A j \in DOMAIN kept : \E i \in Matched(w) : kept[w[i]] = kept[j]
    BY <2>4
  <2>6. SettledOn(w, kept)'
    BY <1>1, <1>5, <2>3, <2>4, <2>5 DEF SettledOn
  <2> QED
    BY <2>2, <2>3, <2>6
<1> QED
  BY <1>6, <1>7

LEMMA SavesAlways ==
    ASSUME LinesReadable
    PROVE  Spec => []Saves
<1>1. Init => Saves
  <2> SUFFICES ASSUME Init PROVE Saves
    OBVIOUS
  <2>1. actual \in Seq(Lines)
    BY DEF Init
  <2> QED
    BY <2>1 DEF Init, Saves, FileIsSaved
<1>2. ASSUME Saves, [Next]_vars
      PROVE  Saves'
  <2>1. actual \in Seq(Lines) /\ actual' \in Seq(Lines)
    BY <1>2, ActualStaysLines DEF Saves
  <2>2. CASE Evaluation
    <3>1. PICK stored \in Seq(Lines) : file = Saved(stored)
      BY <1>2, <2>2 DEF Evaluation, Saves, FileIsSaved
    <3>2. PICK kept \in Seq(Lines) : file' = Saved(kept)
      BY <1>2, <2>2, <3>1, EvaluationSettles
    <3> QED
      BY <2>1, <3>2 DEF Saves, FileIsSaved
  <2>3. CASE FirstEvaluation
    BY <2>1, <2>3 DEF FirstEvaluation, Saves, FileIsSaved
  <2>4. ASSUME file' = file
        PROVE  Saves'
    BY <1>2, <2>1, <2>4 DEF Saves, FileIsSaved
  <2> QED
    BY <1>2, <2>2, <2>3, <2>4 DEF Next, Introduce, Fix, vars
<1> QED
  BY <1>1, <1>2, PTL DEF Spec

LEMMA FreshStep ==
    ASSUME LinesReadable, LinesMatchThemselves
    PROVE  Saves /\ FreshIsSettled /\ [Next]_vars => FreshIsSettled'
<1> SUFFICES ASSUME Saves, FreshIsSettled, [Next]_vars
             PROVE  FreshIsSettled'
  OBVIOUS
<1>1. actual \in Seq(Lines)
  BY DEF Saves
<1>2. ASSUME fresh' = FALSE
      PROVE  FreshIsSettled'
  BY <1>2 DEF FreshIsSettled
<1>3. CASE FirstEvaluation
  <2>1. file' = Saved(actual) /\ reported' = {} /\ actual' = actual
    BY <1>3 DEF FirstEvaluation
  <2>2. PICK m : /\ Greedy(m, actual, actual) /\ Matched(m) = DOMAIN actual
                 /\ \A i \in DOMAIN actual : m[i] = i
    BY <1>1, FrozenIsSettled
  <2>3. NewLines(actual, {actual[i] : i \in Matched(m)}) = {}
    BY <2>2 DEF NewLines
  <2>4. \A j \in DOMAIN actual : \E i \in Matched(m) : actual[m[i]] = actual[j]
    BY <2>2
  <2>5. SettledOn(m, actual)'
    BY <2>1, <2>2, <2>3, <2>4 DEF SettledOn
  <2> QED
    BY <1>1, <2>1, <2>5 DEF FreshIsSettled
<1>4. CASE Evaluation
  <2>1. PICK stored \in Seq(Lines) : file = Saved(stored)
    BY <1>4 DEF Evaluation, Saves, FileIsSaved
  <2>2. PICK kept \in Seq(Lines) : \E w : SettledOn(w, kept)'
    BY <1>4, <2>1, EvaluationSettles
  <2> QED
    BY <2>2 DEF FreshIsSettled
<1>5. CASE UNCHANGED vars
  <2>1. actual' = actual /\ file' = file /\ reported' = reported /\ fresh' = fresh
    BY <1>5 DEF vars
  <2>2. ASSUME NEW m, NEW stored, SettledOn(m, stored)
        PROVE  SettledOn(m, stored)'
    BY <2>1, <2>2 DEF SettledOn
  <2> QED
    BY <2>1, <2>2 DEF FreshIsSettled
<1> QED
  BY <1>2, <1>3, <1>4, <1>5 DEF Next, Introduce, Fix

LEMMA InvAlways ==
    ASSUME LinesReadable, LinesMatchThemselves
    PROVE  Spec => []Inv
<1>1. Init => FreshIsSettled
  BY DEF Init, FreshIsSettled
<1>2. Saves /\ FreshIsSettled /\ [Next]_vars => FreshIsSettled'
  BY FreshStep
<1>3. Spec => []Saves
  BY SavesAlways
<1> QED
  BY <1>1, <1>2, <1>3, PTL DEF Spec, Inv

(***************************************************************************)
(* For readable lines and a matcher that takes a line for itself:          *)
(* evaluating unchanged code again reports the same lines and leaves the   *)
(* violation file as it is.                                                *)
(***************************************************************************)
THEOREM EvaluatingAgainChangesNothing ==
    ASSUME LinesReadable, LinesMatchThemselves
    PROVE  Spec => []Settled
<1>1. ASSUME Inv PROVE Settled
  <2> SUFFICES ASSUME fresh, NEW c \in CategorizedViolations(actual, Known)
               PROVE  /\ NewLines(actual, c.knownActual) = reported
                      /\ c.storedSolved = {}
    BY DEF Settled
  <2>1. PICK stored \in Seq(Lines) : \E m : SettledOn(m, stored)
    BY <1>1 DEF Inv, FreshIsSettled
  <2>2. PICK m : SettledOn(m, stored)
    BY <2>1
  <2>3. Known = stored /\ actual \in Seq(Lines)
    BY <1>1, <2>2, KnownIsStored DEF Known, SettledOn, Inv, Saves
  <2>4. PICK w : ComesFrom(c, w, actual, stored)
    BY <2>3, CategoriesComeFrom
  <2>5. w = m
    BY <2>2, <2>3, <2>4, GreedyIsUnique DEF ComesFrom, SettledOn
  <2>6. NewLines(actual, c.knownActual) = reported
    BY <2>2, <2>4, <2>5 DEF ComesFrom, SettledOn
  <2>7. c.storedSolved = {}
    BY <2>2, <2>4, <2>5 DEF ComesFrom, SettledOn
  <2> QED
    BY <2>6, <2>7
<1>2. Spec => []Inv
  BY InvAlways
<1> QED
  BY <1>1, <1>2, PTL

(***************************************************************************)
(* For readable lines and any matcher: once a rule is frozen, its file     *)
(* only ever loses lines.                                                  *)
(***************************************************************************)
THEOREM FilesOnlyTighten ==
    ASSUME LinesReadable
    PROVE  Spec => OnlyTightens
<1>1. ASSUME Saves, [Next]_vars
      PROVE  [file # NotFrozen /\ file' # file =>
                \A new \in {Known'}, old \in {Known} : PartOf(new, old)]_vars
  <2> SUFFICES ASSUME file # NotFrozen, file' # file
               PROVE  PartOf(Known', Known)
    OBVIOUS
  <2>1. Evaluation
    BY <1>1 DEF Next, Introduce, Fix, FirstEvaluation, vars
  <2>2. PICK stored \in Seq(Lines) : file = Saved(stored)
    BY <1>1 DEF Saves, FileIsSaved
  <2>3. PICK kept \in Seq(Lines) : file' = Saved(kept) /\ (PartOf(kept, stored) \/ kept = stored)
    BY <1>1, <2>1, <2>2, EvaluationSettles
  <2>4. PartOf(kept, stored)
    BY <2>2, <2>3
  <2>5. Known = stored
    BY <2>2, KnownIsStored DEF Known
  <2>6. Known' = kept
    BY <2>3, KnownIsStored DEF Known
  <2> QED
    BY <2>4, <2>5, <2>6
<1>2. Spec => []Saves
  BY SavesAlways
<1> QED
  BY <1>1, <1>2, PTL DEF Spec, OnlyTightens

-----------------------------------------------------------------------------
(***************************************************************************)
(* The matcher sorts the lines into classes, as the one the code installs  *)
(* does: it compares the parts of the lines that are neither line numbers  *)
(* nor closure numbers.                                                    *)
(***************************************************************************)
MatchesAreAlike ==
    /\ LinesMatchThemselves
    /\ \A a, b \in Lines : <<a, b>> \in Matches => <<b, a>> \in Matches
    /\ \A a, b, c \in Lines : <<a, b>> \in Matches /\ <<b, c>> \in Matches => <<a, c>> \in Matches

(***************************************************************************)
(* Of the lines alike, either all take a stored line or as many do as are  *)
(* stored.                                                                 *)
(***************************************************************************)
LEMMA AsManyAsStored ==
    ASSUME MatchesAreAlike, NEW lines \in Seq(Lines), NEW stored \in Seq(Lines),
           NEW m, Greedy(m, lines, stored), NEW line \in Lines
    PROVE  LET found == Like(line, lines)
               known == Like(line, stored)
               took == found \cap Matched(m) IN
           /\ IsFiniteSet(found) /\ IsFiniteSet(known)
           /\ Cardinality(took) <= Cardinality(known)
           /\ took # found => Cardinality(took) = Cardinality(known)
<1> DEFINE found == Like(line, lines)
           known == Like(line, stored)
           took == found \cap Matched(m)
           taken == [i \in took |-> m[i]]
<1>1. /\ Len(lines) \in Nat /\ DOMAIN lines = 1 .. Len(lines) /\ \A i \in DOMAIN lines : lines[i] \in Lines
      /\ Len(stored) \in Nat /\ DOMAIN stored = 1 .. Len(stored) /\ \A j \in DOMAIN stored : stored[j] \in Lines
  OBVIOUS
<1>2. /\ Matched(m) \subseteq DOMAIN lines /\ DOMAIN m = DOMAIN lines
      /\ \A i \in Matched(m) : m[i] \in DOMAIN stored /\ <<lines[i], stored[m[i]]>> \in Matches
      /\ \A i, k \in Matched(m) : m[i] = m[k] => i = k
  BY TakenOnce
<1>3. /\ \A i : i \in found <=> i \in DOMAIN lines /\ <<line, lines[i]>> \in Matches
      /\ \A j : j \in known <=> j \in DOMAIN stored /\ <<line, stored[j]>> \in Matches
  BY DEF Like
<1>4. IsFiniteSet(found) /\ IsFiniteSet(known)
  <2>1. found \subseteq 1 .. Len(lines) /\ known \subseteq 1 .. Len(stored)
    BY <1>1, <1>3
  <2> HIDE DEF found, known
  <2>2. IsFiniteSet(1 .. Len(lines)) /\ IsFiniteSet(1 .. Len(stored))
    <3>1. \A n \in Nat : IsFiniteSet(1 .. n)
      BY FS_Interval
    <3>2. Len(lines) \in Nat /\ Len(stored) \in Nat
      BY <1>1
    <3> QED
      BY ONLY <3>1, <3>2
  <2> QED
    BY <2>1, <2>2, FS_Subset
<1>5. \A i : i \in took <=> i \in found /\ i \in Matched(m)
  OBVIOUS
<1>6. DOMAIN taken = took /\ \A i \in took : taken[i] = m[i]
  OBVIOUS
<1>7. IsFiniteSet(took)
  BY <1>4, FS_Subset
<1> HIDE DEF found, known, took
<1>8. \A i \in took : m[i] \in known
  BY <1>1, <1>2, <1>3, <1>5 DEF MatchesAreAlike
<1>9. taken \in [took -> known] /\ \A i, k \in took : taken[i] = taken[k] => i = k
  BY <1>2, <1>5, <1>8
<1>10. taken \in Injection(took, known)
  BY <1>9 DEF Injection, IsInjective
<1> HIDE DEF taken
<1>11. Cardinality(took) <= Cardinality(known)
  BY <1>4, <1>10, FS_Injection
<1>12. ASSUME took # found
       PROVE  Cardinality(took) = Cardinality(known)
  <2>1. PICK i \in found : i \notin took
    BY <1>5, <1>12
  <2>2. i \in DOMAIN lines /\ <<line, lines[i]>> \in Matches /\ i \notin Matched(m)
    BY <1>3, <1>5, <2>1
  <2>3. StoredLeft(m, i, lines, stored) = {}
    <3>1. m[i] = 0
      BY <1>2, <2>2 DEF Matched
    <3>2. 0 \notin DOMAIN stored
      BY <1>1
    <3>3. m[i] \notin StoredLeft(m, i, lines, stored)
      BY <3>1, <3>2 DEF StoredLeft
    <3> QED
      BY <2>2, <3>3 DEF Greedy, IsGreedyMatching
  <2>4. ASSUME NEW j \in known
        PROVE  \E k \in took : taken[k] = j
    <3>1. j \in DOMAIN stored /\ <<line, stored[j]>> \in Matches
      BY <1>3
    <3>2. <<lines[i], stored[j]>> \in Matches
      BY <1>1, <2>2, <3>1 DEF MatchesAreAlike
    <3>3. PICK k \in 1 .. (i - 1) : m[k] = j
      BY <2>3, <3>1, <3>2 DEF StoredLeft
    <3>4. k \in DOMAIN lines /\ m[k] # 0
      BY <1>1, <2>2, <3>1, <3>3
    <3>5. k \in Matched(m)
      BY <1>2, <3>4 DEF Matched
    <3>6. <<lines[k], stored[j]>> \in Matches
      BY <1>2, <3>3, <3>5
    <3>7. <<line, lines[k]>> \in Matches
      BY <1>1, <3>1, <3>4, <3>6 DEF MatchesAreAlike
    <3> QED
      BY <1>3, <1>5, <1>6, <3>3, <3>4, <3>5, <3>7
  <2>5. taken \in Surjection(took, known)
    BY <1>9, <2>4 DEF Surjection
  <2> QED
    BY <1>4, <1>10, <2>5, FS_Injection
<1> QED
  BY <1>4, <1>11, <1>12 DEF found, known, took

(***************************************************************************)
(* For readable lines that the matcher sorts into classes, of which no two *)
(* of a report are the same: exactly those beyond the stored number of     *)
(* their class are reported.                                               *)
(***************************************************************************)
THEOREM ExcessIsReported ==
    ASSUME LinesReadable, MatchesAreAlike
    PROVE  Spec => []ExcessReported
<1>1. ASSUME Inv PROVE ExcessReported
  <2> SUFFICES ASSUME fresh, \A i, j \in DOMAIN actual : actual[i] = actual[j] => i = j,
                      NEW line \in Lines
               PROVE  LET found == Cardinality(Like(line, actual))
                          known == Cardinality(Like(line, Known)) IN
                      Cardinality(Like(line, actual) \cap reported) =
                          IF found > known THEN found - known ELSE 0
    BY DEF ExcessReported
  <2>1. PICK stored \in Seq(Lines) : \E m : SettledOn(m, stored)
    BY <1>1 DEF Inv, FreshIsSettled
  <2>2. PICK m : SettledOn(m, stored)
    BY <2>1
  <2>3. Known = stored /\ actual \in Seq(Lines)
    BY <1>1, <2>2, KnownIsStored DEF Known, SettledOn, Inv, Saves
  <2>4. Greedy(m, actual, stored) /\ reported = NewLines(actual, {actual[i] : i \in Matched(m)})
    BY <2>2 DEF SettledOn
  <2> DEFINE found == Like(line, actual)
             known == Like(line, stored)
             took == found \cap Matched(m)
             rest == found \cap reported
  <2>5. /\ IsFiniteSet(found) /\ IsFiniteSet(known)
        /\ Cardinality(took) <= Cardinality(known)
        /\ took # found => Cardinality(took) = Cardinality(known)
    BY <2>3, <2>4, AsManyAsStored
  <2>6. Matched(m) \subseteq DOMAIN actual /\ found \subseteq DOMAIN actual
    BY <2>3, <2>4, TakenOnce DEF Like
  <2>7. \A i \in DOMAIN actual : i \in reported <=> i \notin Matched(m)
    BY <2>4, <2>6 DEF NewLines
  <2>8. rest = found \ took /\ took \subseteq found
    BY <2>6, <2>7
  <2>9. IsFiniteSet(took) /\ IsFiniteSet(rest)
    BY <2>5, <2>8, FS_Subset
  <2>10. /\ Cardinality(found) \in Nat /\ Cardinality(known) \in Nat
         /\ Cardinality(took) \in Nat /\ Cardinality(rest) \in Nat
    BY <2>5, <2>9, FS_CardinalityType
  <2> HIDE DEF found, known, took, rest
  <2>11. Cardinality(rest) = Cardinality(found) - Cardinality(took)
    <3>1. found \cap took = took
      BY <2>8
    <3>2. Cardinality(found \ took) = Cardinality(found) - Cardinality(found \cap took)
      BY <2>5, FS_Difference
    <3> QED
      BY <2>8, <3>1, <3>2
  <2>12. CASE took = found
    <3>1. Cardinality(found) <= Cardinality(known) /\ Cardinality(rest) = 0
      BY <2>5, <2>10, <2>11, <2>12
    <3>2. Cardinality(rest) = IF Cardinality(found) > Cardinality(known)
                              THEN Cardinality(found) - Cardinality(known) ELSE 0
      BY <2>10, <3>1
    <3> QED
      BY <2>3, <3>2 DEF found, known, rest
  <2>13. CASE took # found
    <3>1. Cardinality(took) = Cardinality(known)
      BY <2>5, <2>13
    <3>2. Cardinality(took) <= Cardinality(found)
      BY <2>5, <2>8, FS_Subset
    <3>3. Cardinality(rest) = IF Cardinality(found) > Cardinality(known)
                              THEN Cardinality(found) - Cardinality(known) ELSE 0
      BY <2>10, <2>11, <3>1, <3>2
    <3> QED
      BY <2>3, <3>3 DEF found, known, rest
  <2> QED
    BY <2>12, <2>13
<1>2. Spec => []Inv
  BY InvAlways DEF MatchesAreAlike
<1> QED
  BY <1>1, <1>2, PTL

-----------------------------------------------------------------------------
(***************************************************************************)
(* The loop of CategorizedViolations::new, round by round.                 *)
(***************************************************************************)
Loops == [left : Seq(Lines), known : SUBSET Lines, unsolved : Seq(Lines)]

NotLooped(stored) == [left |-> stored, known |-> {}, unsolved |-> <<>>]

LEMMA RemovedAt ==
    ASSUME NEW S, NEW s \in Seq(S), NEW j \in DOMAIN s
    PROVE  /\ RemoveAt(s, j) \in Seq(S) /\ Len(RemoveAt(s, j)) = Len(s) - 1
           /\ \A k \in 1 .. Len(s) - 1 : RemoveAt(s, j)[k] = IF k < j THEN s[k] ELSE s[k + 1]
<1> DEFINE a == SubSeq(s, 1, j - 1)
           b == SubSeq(s, j + 1, Len(s))
<1>1. Len(s) \in Nat /\ j \in 1 .. Len(s)
  OBVIOUS
<1>2. a \in Seq(S) /\ Len(a) = j - 1 /\ \A k \in 1 .. j - 1 : a[k] = s[k]
  BY <1>1
<1>3. b \in Seq(S) /\ Len(b) = Len(s) - j /\ \A k \in 1 .. Len(s) - j : b[k] = s[j + k]
  BY <1>1
<1>4. RemoveAt(s, j) = a \o b
  BY DEF RemoveAt
<1> HIDE DEF a, b
<1>5. /\ a \o b \in Seq(S) /\ Len(a \o b) = Len(a) + Len(b)
      /\ \A y \in 1 .. Len(a) : (a \o b)[y] = a[y]
      /\ \A y \in 1 .. Len(b) : (a \o b)[Len(a) + y] = b[y]
  <2>1. a \in Seq(S) /\ b \in Seq(S)
    BY <1>2, <1>3
  <2> QED
    BY ONLY <2>1, Concatenated
<1>6. ASSUME NEW k \in 1 .. Len(s) - 1
      PROVE  (a \o b)[k] = IF k < j THEN s[k] ELSE s[k + 1]
  <2>1. CASE k < j
    BY <1>1, <1>2, <1>5, <2>1
  <2>2. CASE ~(k < j)
    <3>1. PICK y \in 1 .. Len(s) - j : (j - 1) + y = k /\ j + y = k + 1
      <4>1. /\ k - (j - 1) \in 1 .. Len(s) - j
            /\ (j - 1) + (k - (j - 1)) = k /\ j + (k - (j - 1)) = k + 1
        BY <1>1, <2>2
      <4> QED
        BY <4>1
    <3>2. (a \o b)[(j - 1) + y] = b[y] /\ b[y] = s[j + y]
      BY <1>2, <1>3, <1>5
    <3> QED
      BY <2>2, <3>1, <3>2
  <2> QED
    BY <2>1, <2>2
<1>7. Len(a) + Len(b) = Len(s) - 1
  BY <1>1, <1>2, <1>3
<1> QED
  BY <1>4, <1>5, <1>6, <1>7

Hits(line, loop) == {j \in DOMAIN loop.left : <<line, loop.left[j]>> \in Matches}

LEMMA RoundTakesFirst ==
    ASSUME NEW line \in Lines, NEW loop \in Loops
    PROVE  /\ Round(line, loop) \in Loops
           /\ Hits(line, loop) = {} => Round(line, loop) = loop
           /\ Hits(line, loop) # {} =>
                \E j \in Hits(line, loop) :
                    /\ \A k \in Hits(line, loop) : j <= k
                    /\ Round(line, loop) = [left |-> RemoveAt(loop.left, j),
                                            known |-> loop.known \cup {line},
                                            unsolved |-> Append(loop.unsolved, loop.left[j])]
<1> DEFINE hits == Hits(line, loop)
           first == CHOOSE j \in hits : \A k \in hits : j <= k
<1>1. loop.left \in Seq(Lines) /\ loop.known \in SUBSET Lines /\ loop.unsolved \in Seq(Lines)
  BY DEF Loops
<1>2. Round(line, loop) = IF hits = {} THEN loop
                          ELSE [left |-> RemoveAt(loop.left, first),
                                known |-> loop.known \cup {line},
                                unsolved |-> Append(loop.unsolved, loop.left[first])]
  BY DEF Round, Hits
<1>3. hits \in SUBSET Nat /\ hits \subseteq DOMAIN loop.left
  BY <1>1 DEF Hits
<1>4. CASE hits = {}
  BY <1>2, <1>4
<1>5. CASE hits # {}
  <2>1. first \in hits /\ \A k \in hits : first <= k
    <3>1. \E j \in hits : \A k \in hits : j <= k
      BY <1>3, <1>5, LeastExists
    <3> HIDE DEF hits
    <3> QED
      BY <3>1
  <2> HIDE DEF first, hits
  <2>2. first \in DOMAIN loop.left
    BY <1>3, <2>1
  <2>3. RemoveAt(loop.left, first) \in Seq(Lines)
    BY <1>1, <2>2, RemovedAt
  <2>4. loop.left[first] \in Lines
    BY <1>1, <2>2
  <2>5. Append(loop.unsolved, loop.left[first]) \in Seq(Lines)
    BY <1>1, <2>4
  <2>6. Round(line, loop) = [left |-> RemoveAt(loop.left, first),
                             known |-> loop.known \cup {line},
                             unsolved |-> Append(loop.unsolved, loop.left[first])]
    BY <1>2, <1>5
  <2>7. Round(line, loop) \in Loops
    BY <1>1, <2>3, <2>5, <2>6 DEF Loops
  <2> QED
    BY <1>5, <2>1, <2>6, <2>7 DEF hits
<1> QED
  BY <1>4, <1>5 DEF Loops

LEMMA LoopIsRounds ==
    ASSUME NEW lines \in Seq(Lines), NEW stored \in Seq(Lines)
    PROVE  \E f \in [0 .. Len(lines) -> Loops] :
              /\ f[0] = NotLooped(stored)
              /\ \A i \in 1 .. Len(lines) : f[i] = Round(lines[i], f[i - 1])
              /\ Loop(lines, stored) = f[Len(lines)]
<1> DEFINE L == Len(lines)
           Is(f) == f = [i \in 0 .. Len(lines) |->
                           IF i = 0 THEN [left |-> stored, known |-> {}, unsolved |-> <<>>]
                           ELSE Round(lines[i], f[i - 1])]
           h == CHOOSE f : Is(f)
           start == NotLooped(stored)
           F == [p \in Nat \X Loops |-> IF p[1] \in 1 .. L THEN Round(lines[p[1]], p[2]) ELSE p[2]]
<1>1. Loop(lines, stored) = h[Len(lines)]
  BY DEF Loop
<1>2. L \in Nat /\ \A i \in 1 .. L : lines[i] \in Lines
  OBVIOUS
<1>3. start \in Loops
  BY DEF NotLooped, Loops
<1>4. \A i \in 1 .. L, loop \in Loops : Round(lines[i], loop) \in Loops
  BY <1>2, RoundTakesFirst
<1>5. F \in [Nat \X Loops -> Loops]
  BY <1>4
<1>6. \A i \in 1 .. L, loop \in Loops : F[<<i, loop>>] = Round(lines[i], loop)
  BY <1>2
<1> HIDE DEF F, L, start
<1>7. PICK g \in [0 .. L -> Loops] : Solves(g, F, start, L)
  BY <1>2, <1>3, <1>5, RecursionExists
<1>8. \A i \in 1 .. L : g[i] = Round(lines[i], g[i - 1])
  <2> SUFFICES ASSUME NEW i \in 1 .. L PROVE g[i] = Round(lines[i], g[i - 1])
    OBVIOUS
  <2>1. i - 1 \in 0 .. L
    BY <1>2
  <2> QED
    BY <1>6, <1>7, <2>1 DEF Solves
<1>9. \A i \in 0 .. L : g[i] = IF i = 0 THEN [left |-> stored, known |-> {}, unsolved |-> <<>>]
                               ELSE Round(lines[i], g[i - 1])
  <2> SUFFICES ASSUME NEW i \in 0 .. L
               PROVE  g[i] = IF i = 0 THEN [left |-> stored, known |-> {}, unsolved |-> <<>>]
                             ELSE Round(lines[i], g[i - 1])
    OBVIOUS
  <2>1. CASE i = 0
    BY <1>7, <2>1 DEF Solves, start, NotLooped
  <2>2. CASE i # 0
    BY <1>2, <1>8, <2>2
  <2> QED
    BY <2>1, <2>2
<1>10. Is(g)
  BY <1>9 DEF L
<1>11. Is(h)
  BY <1>10
<1> HIDE DEF h
<1>12. \A i \in 0 .. L : h[i] = IF i = 0 THEN [left |-> stored, known |-> {}, unsolved |-> <<>>]
                                ELSE Round(lines[i], h[i - 1])
  BY <1>11 DEF L
<1>13. DOMAIN h = 0 .. L
  BY <1>11 DEF L
<1>14. h[0] = start
  <2>1. 0 \in 0 .. L
    BY <1>2
  <2> QED
    BY <1>12, <2>1 DEF start, NotLooped
<1>15. \A i \in 1 .. L : h[i] = Round(lines[i], h[i - 1])
  <2> SUFFICES ASSUME NEW i \in 1 .. L PROVE h[i] = Round(lines[i], h[i - 1])
    OBVIOUS
  <2>1. i \in 0 .. L /\ i # 0
    BY <1>2
  <2> QED
    BY <1>12, <2>1
<1>16. h \in [0 .. L -> Loops]
  <2> DEFINE S == {i \in 0 .. L : h[i] \in Loops}
  <2>1. 0 \in S
    BY <1>2, <1>3, <1>14
  <2>2. ASSUME NEW i \in 1 .. L, i - 1 \in S PROVE i \in S
    BY <1>2, <1>4, <1>15, <2>2
  <2> HIDE DEF S
  <2>3. \A i \in 0 .. L : i \in S
    BY <1>2, <2>1, <2>2, OneAfterTheOther
  <2>4. \A i \in 0 .. L : h[i] \in Loops
    BY <2>3 DEF S
  <2>5. h = [i \in 0 .. L |-> h[i]]
    BY <1>11 DEF L
  <2> QED
    BY <2>4, <2>5
<1> QED
  BY <1>1, <1>14, <1>15, <1>16 DEF L, start

(***************************************************************************)
(* What the loop has after i lines, in terms of the matching m of these    *)
(* lines: p is where the lines that are left were stored, and e visits the *)
(* lines that took one.                                                    *)
(***************************************************************************)
TakesFirst(m, k, lines, stored) ==
    LET left == StoredLeft(m, k, lines, stored) IN
    (left = {} /\ m[k] = 0) \/ (m[k] \in left /\ \A j \in left : m[k] <= j)

IsLeft(p, m, i, left, stored) ==
    /\ p \in [1 .. Len(left) -> 1 .. Len(stored)]
    /\ \A a, b \in 1 .. Len(left) : a < b => p[a] < p[b]
    /\ \A x \in 1 .. Len(stored) : (\A k \in 1 .. i : m[k] # x) <=> \E a \in 1 .. Len(left) : p[a] = x
    /\ \A a \in 1 .. Len(left) : left[a] = stored[p[a]]

IsVisited(e, m, unsolved, stored) ==
    /\ IsFiniteSet(Matched(m)) /\ Len(unsolved) = Cardinality(Matched(m))
    /\ e \in [1 .. Len(unsolved) -> Matched(m)] /\ IsVisitOrder(e, m)
    /\ \A a \in 1 .. Len(unsolved) : unsolved[a] = stored[m[e[a]]]

LoopedTo(i, loop, m, lines, stored) ==
    /\ m \in [1 .. i -> 0 .. Len(stored)]
    /\ \A k \in 1 .. i : TakesFirst(m, k, lines, stored)
    /\ \E p : IsLeft(p, m, i, loop.left, stored)
    /\ loop.known = {lines[k] : k \in Matched(m)}
    /\ \E e : IsVisited(e, m, loop.unsolved, stored)

\* The matching of one line more.
Longer(m, i, x) == [k \in 1 .. i |-> IF k = i THEN x ELSE m[k]]

LEMMA LongerAgrees ==
    ASSUME NEW lines \in Seq(Lines), NEW stored \in Seq(Lines), NEW i \in Nat, i >= 1,
           NEW m \in [1 .. i - 1 -> 0 .. Len(stored)], NEW x \in 0 .. Len(stored),
           \A k \in 1 .. i - 1 : TakesFirst(m, k, lines, stored)
    PROVE  /\ Longer(m, i, x) \in [1 .. i -> 0 .. Len(stored)] /\ Longer(m, i, x)[i] = x
           /\ \A k \in 1 .. i - 1 : /\ Longer(m, i, x)[k] = m[k]
                                   /\ TakesFirst(Longer(m, i, x), k, lines, stored)
           /\ StoredLeft(Longer(m, i, x), i, lines, stored) = StoredLeft(m, i, lines, stored)
           /\ x = 0 => Matched(Longer(m, i, x)) = Matched(m)
           /\ x # 0 => Matched(Longer(m, i, x)) = Matched(m) \cup {i}
           /\ Matched(m) \subseteq 1 .. i - 1
<1> DEFINE w == Longer(m, i, x)
<1>1. w \in [1 .. i -> 0 .. Len(stored)]
  <2>1. \A k \in 1 .. i : k # i => k \in 1 .. i - 1
    OBVIOUS
  <2> QED
    BY <2>1 DEF Longer
<1>2. w[i] = x /\ \A k \in 1 .. i - 1 : w[k] = m[k]
  BY DEF Longer
<1> HIDE DEF w
<1>3. \A k \in 1 .. i : \A j \in 1 .. k - 1 : w[j] = m[j]
  BY <1>2
<1>4. \A k \in 1 .. i : StoredLeft(w, k, lines, stored) = StoredLeft(m, k, lines, stored)
  BY <1>3 DEF StoredLeft
<1>5. ASSUME NEW k \in 1 .. i - 1 PROVE TakesFirst(w, k, lines, stored)
  <2>1. k \in 1 .. i
    OBVIOUS
  <2> QED
    BY <1>2, <1>4, <2>1 DEF TakesFirst
<1>6. Matched(m) \subseteq 1 .. i - 1
  BY DEF Matched
<1>7. Matched(w) = IF x = 0 THEN Matched(m) ELSE Matched(m) \cup {i}
  <2>1. DOMAIN w = 1 .. i /\ DOMAIN m = 1 .. i - 1
    BY <1>1
  <2>2. 1 .. i = (1 .. i - 1) \cup {i} /\ i \notin 1 .. i - 1
    OBVIOUS
  <2> QED
    BY <1>2, <2>1, <2>2 DEF Matched
<1>8. i \in 1 .. i
  OBVIOUS
<1> QED
  BY <1>1, <1>2, <1>4, <1>5, <1>6, <1>7, <1>8 DEF w

LEMMA NothingLeftToTake ==
    ASSUME NEW lines \in Seq(Lines), NEW stored \in Seq(Lines), NEW i \in 1 .. Len(lines),
           NEW loop \in Loops, NEW m, LoopedTo(i - 1, loop, m, lines, stored),
           Hits(lines[i], loop) = {}
    PROVE  LoopedTo(i, loop, Longer(m, i, 0), lines, stored)
<1> DEFINE w == Longer(m, i, 0)
<1>1. i \in Nat /\ i >= 1 /\ i - 1 \in Nat /\ Len(stored) \in Nat /\ 0 \in 0 .. Len(stored)
  OBVIOUS
<1>2. /\ m \in [1 .. i - 1 -> 0 .. Len(stored)]
      /\ \A k \in 1 .. i - 1 : TakesFirst(m, k, lines, stored)
  BY DEF LoopedTo
<1>3. /\ w \in [1 .. i -> 0 .. Len(stored)] /\ w[i] = 0
      /\ \A k \in 1 .. i - 1 : w[k] = m[k] /\ TakesFirst(w, k, lines, stored)
      /\ StoredLeft(w, i, lines, stored) = StoredLeft(m, i, lines, stored)
      /\ Matched(w) = Matched(m) /\ Matched(m) \subseteq 1 .. i - 1
  <2>1. lines \in Seq(Lines) /\ stored \in Seq(Lines)
    OBVIOUS
  <2>2. i \in Nat /\ i >= 1 /\ 0 \in 0 .. Len(stored)
    BY <1>1
  <2>3. m \in [1 .. i - 1 -> 0 .. Len(stored)]
    BY <1>2
  <2>4. \A k \in 1 .. i - 1 : TakesFirst(m, k, lines, stored)
    BY <1>2
  <2>5. /\ Longer(m, i, 0) \in [1 .. i -> 0 .. Len(stored)] /\ Longer(m, i, 0)[i] = 0
        /\ \A k \in 1 .. i - 1 : /\ Longer(m, i, 0)[k] = m[k]
                                /\ TakesFirst(Longer(m, i, 0), k, lines, stored)
        /\ StoredLeft(Longer(m, i, 0), i, lines, stored) = StoredLeft(m, i, lines, stored)
        /\ 0 = 0 => Matched(Longer(m, i, 0)) = Matched(m)
        /\ 0 # 0 => Matched(Longer(m, i, 0)) = Matched(m) \cup {i}
        /\ Matched(m) \subseteq 1 .. i - 1
    <3> HIDE DEF w
    <3> QED
      BY ONLY <2>1, <2>2, <2>3, <2>4, LongerAgrees, Zenon
  <2> QED
    BY ONLY <2>5 DEF w
<1> HIDE DEF w
<1>4. PICK p : IsLeft(p, m, i - 1, loop.left, stored)
  BY DEF LoopedTo
<1>5. PICK e : IsVisited(e, m, loop.unsolved, stored)
  BY DEF LoopedTo
<1>6. StoredLeft(m, i, lines, stored) = {}
  <2> SUFFICES ASSUME NEW x \in StoredLeft(m, i, lines, stored) PROVE FALSE
    OBVIOUS
  <2>1. /\ x \in 1 .. Len(stored) /\ <<lines[i], stored[x]>> \in Matches
        /\ \A k \in 1 .. i - 1 : m[k] # x
    BY DEF StoredLeft
  <2>2. PICK a \in 1 .. Len(loop.left) : p[a] = x
    BY <1>4, <2>1 DEF IsLeft
  <2>3. loop.left[a] = stored[x]
    BY <1>4, <2>2 DEF IsLeft
  <2>4. a \in DOMAIN loop.left
    BY DEF Loops
  <2> QED
    BY <2>1, <2>3, <2>4 DEF Hits
<1>7. TakesFirst(w, i, lines, stored)
  BY <1>3, <1>6 DEF TakesFirst
<1>8. \A k \in 1 .. i : TakesFirst(w, k, lines, stored)
  <2>1. \A k \in 1 .. i : k = i \/ k \in 1 .. i - 1
    BY <1>1
  <2> QED
    BY <1>3, <1>7, <2>1
<1>9. IsLeft(p, w, i, loop.left, stored)
  <2>1. \A x \in 1 .. Len(stored) : (\A k \in 1 .. i : w[k] # x) <=> (\A k \in 1 .. i - 1 : m[k] # x)
    <3>1. \A k \in 1 .. i : k = i \/ k \in 1 .. i - 1
      BY <1>1
    <3>2. \A k \in 1 .. i - 1 : k \in 1 .. i
      BY <1>1
    <3> QED
      BY <1>3, <3>1, <3>2
  <2> QED
    BY <1>4, <2>1 DEF IsLeft
<1>10. loop.known = {lines[k] : k \in Matched(w)}
  BY <1>3 DEF LoopedTo
<1>11. IsVisited(e, w, loop.unsolved, stored)
  <2>1. \A k \in Matched(m) : w[k] = m[k]
    BY <1>3
  <2>2. \A a \in 1 .. Len(loop.unsolved) : e[a] \in Matched(m)
    BY <1>5 DEF IsVisited
  <2> QED
    BY <1>3, <1>5, <2>1, <2>2 DEF IsVisited, IsVisitOrder
<1> QED
  BY <1>3, <1>8, <1>9, <1>10, <1>11 DEF LoopedTo, w

LEMMA FirstLeftIsTaken ==
    ASSUME NEW lines \in Seq(Lines), NEW stored \in Seq(Lines), NEW i \in 1 .. Len(lines),
           NEW loop \in Loops, NEW m, LoopedTo(i - 1, loop, m, lines, stored),
           NEW j \in Hits(lines[i], loop), \A k \in Hits(lines[i], loop) : j <= k
    PROVE  \E w : LoopedTo(i, [left |-> RemoveAt(loop.left, j), known |-> loop.known \cup {lines[i]},
                               unsolved |-> Append(loop.unsolved, loop.left[j])], w, lines, stored)
<1> DEFINE L == Len(loop.left)
           left == RemoveAt(loop.left, j)
           unsolved == Append(loop.unsolved, loop.left[j])
           U == Len(loop.unsolved)
<1>1. i \in Nat /\ i >= 1 /\ i - 1 \in Nat /\ Len(stored) \in Nat
  OBVIOUS
<1>2. /\ m \in [1 .. i - 1 -> 0 .. Len(stored)]
      /\ \A k \in 1 .. i - 1 : TakesFirst(m, k, lines, stored)
  BY DEF LoopedTo
<1>3. PICK p : IsLeft(p, m, i - 1, loop.left, stored)
  BY DEF LoopedTo
<1>4. PICK e : IsVisited(e, m, loop.unsolved, stored)
  BY DEF LoopedTo
<1>5. /\ loop.left \in Seq(Lines) /\ loop.unsolved \in Seq(Lines) /\ L \in Nat /\ U \in Nat
      /\ DOMAIN loop.left = 1 .. L /\ j \in 1 .. L /\ j \in DOMAIN loop.left
      /\ <<lines[i], loop.left[j]>> \in Matches
  BY DEF Loops, Hits
<1>6. /\ left \in Seq(Lines) /\ Len(left) = L - 1
      /\ \A k \in 1 .. L - 1 : left[k] = IF k < j THEN loop.left[k] ELSE loop.left[k + 1]
  BY <1>5, RemovedAt
<1>7. /\ unsolved \in Seq(Lines) /\ Len(unsolved) = U + 1 /\ unsolved[U + 1] = loop.left[j]
      /\ \A a \in 1 .. U : unsolved[a] = loop.unsolved[a]
  <2>1. loop.left[j] \in Lines
    BY <1>5
  <2> QED
    BY <1>5, <2>1
<1> DEFINE x == p[j]
           w == Longer(m, i, x)
<1>8. x \in 1 .. Len(stored) /\ x \in 0 .. Len(stored) /\ x # 0 /\ stored[x] = loop.left[j]
  <2>1. x \in 1 .. Len(stored) /\ stored[x] = loop.left[j]
    BY <1>3, <1>5 DEF IsLeft
  <2> QED
    BY <1>1, <2>1
<1> HIDE DEF x, left, unsolved, L, U
<1>9. /\ w \in [1 .. i -> 0 .. Len(stored)] /\ w[i] = x
      /\ \A k \in 1 .. i - 1 : w[k] = m[k] /\ TakesFirst(w, k, lines, stored)
      /\ StoredLeft(w, i, lines, stored) = StoredLeft(m, i, lines, stored)
      /\ Matched(w) = Matched(m) \cup {i} /\ Matched(m) \subseteq 1 .. i - 1
  <2>1. lines \in Seq(Lines) /\ stored \in Seq(Lines)
    OBVIOUS
  <2>2. i \in Nat /\ i >= 1 /\ x \in 0 .. Len(stored)
    BY <1>1, <1>8
  <2>3. m \in [1 .. i - 1 -> 0 .. Len(stored)]
    BY <1>2
  <2>4. \A k \in 1 .. i - 1 : TakesFirst(m, k, lines, stored)
    BY <1>2
  <2>5. /\ Longer(m, i, x) \in [1 .. i -> 0 .. Len(stored)] /\ Longer(m, i, x)[i] = x
        /\ \A k \in 1 .. i - 1 : /\ Longer(m, i, x)[k] = m[k]
                                /\ TakesFirst(Longer(m, i, x), k, lines, stored)
        /\ StoredLeft(Longer(m, i, x), i, lines, stored) = StoredLeft(m, i, lines, stored)
        /\ x = 0 => Matched(Longer(m, i, x)) = Matched(m)
        /\ x # 0 => Matched(Longer(m, i, x)) = Matched(m) \cup {i}
        /\ Matched(m) \subseteq 1 .. i - 1
    <3> HIDE DEF w
    <3> QED
      BY ONLY <2>1, <2>2, <2>3, <2>4, LongerAgrees, Zenon
  <2> QED
    BY ONLY <1>8, <2>5 DEF w
<1> HIDE DEF w
<1>10. \A k \in 1 .. i : k = i \/ k \in 1 .. i - 1
  BY <1>1
<1>11. i \notin 1 .. i - 1 /\ i \in 1 .. i /\ \A k \in 1 .. i - 1 : k \in 1 .. i
  BY <1>1
<1>12. TakesFirst(w, i, lines, stored)
  <2>1. x \in StoredLeft(m, i, lines, stored)
    <3>1. \A k \in 1 .. i - 1 : m[k] # x
      BY <1>3, <1>5, <1>8 DEF IsLeft, x, L
    <3>2. x \in DOMAIN stored /\ <<lines[i], stored[x]>> \in Matches
      BY <1>5, <1>8
    <3> QED
      BY ONLY <3>1, <3>2 DEF StoredLeft
  <2>2. ASSUME NEW y \in StoredLeft(m, i, lines, stored) PROVE x <= y
    <3>1. /\ y \in 1 .. Len(stored) /\ <<lines[i], stored[y]>> \in Matches
          /\ \A k \in 1 .. i - 1 : m[k] # y
      BY DEF StoredLeft
    <3>2. PICK a \in 1 .. L : p[a] = y
      BY <1>3, <3>1 DEF IsLeft, L
    <3>3. loop.left[a] = stored[y]
      BY <1>3, <3>2 DEF IsLeft, L
    <3>4. a \in Hits(lines[i], loop)
      BY <1>5, <3>1, <3>2, <3>3 DEF Hits
    <3>5. j = a \/ j < a
      BY <1>5, <3>4
    <3>6. j < a => p[j] < p[a]
      BY <1>3, <1>5 DEF IsLeft, L
    <3> QED
      BY <1>8, <3>1, <3>2, <3>5, <3>6 DEF x
  <2> QED
    BY <1>9, <2>1, <2>2 DEF TakesFirst
<1>13. \A k \in 1 .. i : TakesFirst(w, k, lines, stored)
  BY <1>9, <1>10, <1>12
<1> DEFINE q == [a \in 1 .. L - 1 |-> IF a < j THEN p[a] ELSE p[a + 1]]
<1>14. IsLeft(q, w, i, left, stored)
  <2>1. \A a \in 1 .. L - 1 : a \in 1 .. L /\ a + 1 \in 1 .. L
    BY <1>5
  <2>2. \A a \in 1 .. L : p[a] \in 1 .. Len(stored)
    BY <1>3 DEF IsLeft, L
  <2>3. q \in [1 .. Len(left) -> 1 .. Len(stored)]
    BY <1>6, <2>1, <2>2
  <2>4. \A a \in 1 .. L - 1 : q[a] = IF a < j THEN p[a] ELSE p[a + 1]
    OBVIOUS
  <2> HIDE DEF q
  <2>5. ASSUME NEW a \in 1 .. L - 1, NEW b \in 1 .. L - 1, a < b PROVE q[a] < q[b]
    <3>1. \A c, d \in 1 .. L : c < d => p[c] < p[d]
      BY <1>3 DEF IsLeft, L
    <3>2. a < b /\ a + 1 < b + 1 /\ a < b + 1
      BY <2>5
    <3>3. b < j => a < j
      BY <1>5, <2>5
    <3> QED
      BY <2>1, <2>4, <3>1, <3>2, <3>3
  <2>6. \A c, d \in 1 .. L : p[c] = p[d] => c = d
    <3>1. \A c, d \in 1 .. L : c < d => p[c] < p[d]
      BY <1>3 DEF IsLeft, L
    <3>2. \A c, d \in 1 .. L : c < d \/ d < c \/ c = d
      BY <1>5
    <3>3. \A c, d \in 1 .. L : p[c] < p[d] => p[c] # p[d]
      BY <2>2
    <3> QED
      BY <3>1, <3>2, <3>3
  <2>7. ASSUME NEW y \in 1 .. Len(stored)
        PROVE  (\A k \in 1 .. i : w[k] # y) <=> \E a \in 1 .. L - 1 : q[a] = y
    <3>1. (\A k \in 1 .. i : w[k] # y) <=> y # x /\ (\A k \in 1 .. i - 1 : m[k] # y)
      BY <1>9, <1>10, <1>11
    <3>2. (\A k \in 1 .. i - 1 : m[k] # y) <=> \E a \in 1 .. L : p[a] = y
      BY <1>3 DEF IsLeft, L
    <3>3. ASSUME NEW a \in 1 .. L, p[a] = y, y # x PROVE \E b \in 1 .. L - 1 : q[b] = y
      <4>1. a # j
        BY <3>3 DEF x
      <4>2. CASE a < j
        <5>1. a \in 1 .. L - 1
          BY <1>5, <4>2
        <5> QED
          BY <2>4, <3>3, <4>2, <5>1
      <4>3. CASE ~(a < j)
        <5>1. a - 1 \in 1 .. L - 1 /\ ~(a - 1 < j) /\ (a - 1) + 1 = a
          BY <1>5, <4>1, <4>3
        <5> QED
          BY <2>4, <3>3, <5>1
      <4> QED
        BY <4>2, <4>3
    <3>4. ASSUME NEW b \in 1 .. L - 1, q[b] = y PROVE y # x /\ \E a \in 1 .. L : p[a] = y
      <4>1. CASE b < j
        <5>1. b # j
          BY <1>5, <4>1
        <5> QED
          BY <1>5, <2>1, <2>4, <2>6, <3>4, <4>1, <5>1 DEF x
      <4>2. CASE ~(b < j)
        <5>1. b + 1 # j
          BY <1>5, <4>2
        <5> QED
          BY <1>5, <2>1, <2>4, <2>6, <3>4, <4>2, <5>1 DEF x
      <4> QED
        BY <4>1, <4>2
    <3> QED
      BY <3>1, <3>2, <3>3, <3>4
  <2>8. \A a \in 1 .. L - 1 : left[a] = stored[q[a]]
    <3>1. \A a \in 1 .. L : loop.left[a] = stored[p[a]]
      BY <1>3 DEF IsLeft, L
    <3> QED
      BY <1>6, <2>1, <2>4, <3>1
  <2> QED
    BY <1>6, <2>3, <2>5, <2>7, <2>8 DEF IsLeft
<1>15. loop.known \cup {lines[i]} = {lines[k] : k \in Matched(w)}
  BY <1>9 DEF LoopedTo
<1> DEFINE v == [a \in 1 .. U + 1 |-> IF a = U + 1 THEN i ELSE e[a]]
<1>16. IsVisited(v, w, unsolved, stored)
  <2>1. /\ IsFiniteSet(Matched(m)) /\ U = Cardinality(Matched(m))
        /\ e \in [1 .. U -> Matched(m)] /\ IsVisitOrder(e, m)
        /\ \A a \in 1 .. U : loop.unsolved[a] = stored[m[e[a]]]
    BY <1>4 DEF IsVisited, U
  <2>2. i \notin Matched(m)
    BY <1>9, <1>11
  <2>3. IsFiniteSet(Matched(w)) /\ Cardinality(Matched(w)) = U + 1
    <3>1. Cardinality(Matched(m) \cup {i}) = Cardinality(Matched(m)) + 1 /\ IsFiniteSet(Matched(m) \cup {i})
      BY <2>1, <2>2, FS_AddElement
    <3> QED
      BY <1>9, <2>1, <3>1
  <2>4. /\ \A a \in 1 .. U : a \in 1 .. U + 1 /\ a # U + 1
        /\ \A a \in 1 .. U + 1 : a = U + 1 \/ a \in 1 .. U
        /\ U + 1 \in 1 .. U + 1
    BY <1>5
  <2>5. v \in [1 .. U + 1 -> Matched(w)]
    BY <1>9, <2>1, <2>4
  <2>6. v[U + 1] = i /\ \A a \in 1 .. U : v[a] = e[a]
    BY <2>4
  <2> HIDE DEF v
  <2>7. \A a \in 1 .. U : e[a] \in Matched(m) /\ e[a] \in 1 .. i - 1
    BY <1>9, <2>1
  <2>8. ASSUME NEW a \in 1 .. U + 1, NEW b \in 1 .. U + 1, a < b PROVE v[a] < v[b]
    <3>1. a \in 1 .. U
      BY <1>5, <2>8
    <3>2. CASE b = U + 1
      <4>1. e[a] < i
        BY <1>1, <2>7, <3>1
      <4> QED
        BY <2>6, <3>1, <3>2, <4>1
    <3>3. CASE b # U + 1
      <4>1. b \in 1 .. U
        BY <2>4, <3>3
      <4> QED
        BY <2>1, <2>6, <2>8, <3>1, <4>1 DEF IsVisitOrder
    <3> QED
      BY <3>2, <3>3
  <2>9. Matched(w) = {v[a] : a \in 1 .. U + 1}
    <3>1. Matched(m) = {e[a] : a \in 1 .. U}
      BY <2>1 DEF IsVisitOrder
    <3> QED
      BY <1>9, <2>4, <2>6, <3>1
  <2>10. IsVisitOrder(v, w)
    BY <2>5, <2>8, <2>9 DEF IsVisitOrder
  <2>11. ASSUME NEW a \in 1 .. U + 1 PROVE unsolved[a] = stored[w[v[a]]]
    <3>1. CASE a = U + 1
      BY <1>7, <1>8, <1>9, <2>6, <3>1
    <3>2. CASE a # U + 1
      <4>1. a \in 1 .. U
        BY <2>4, <3>2
      <4> QED
        BY <1>7, <1>9, <2>1, <2>6, <2>7, <4>1
    <3> QED
      BY <3>1, <3>2
  <2> QED
    BY <1>7, <2>3, <2>5, <2>10, <2>11 DEF IsVisited
<1> DEFINE loop2 == [left |-> left, known |-> loop.known \cup {lines[i]}, unsolved |-> unsolved]
<1>17. loop2.left = left /\ loop2.known = loop.known \cup {lines[i]} /\ loop2.unsolved = unsolved
  OBVIOUS
<1> HIDE DEF loop2
<1>18. LoopedTo(i, loop2, w, lines, stored)
  BY <1>9, <1>13, <1>14, <1>15, <1>16, <1>17 DEF LoopedTo
<1> QED
  BY <1>18 DEF loop2, left, unsolved

LEMMA NothingTaken ==
    ASSUME NEW lines \in Seq(Lines), NEW stored \in Seq(Lines)
    PROVE  \E m : LoopedTo(0, NotLooped(stored), m, lines, stored)
<1> DEFINE m == [k \in 1 .. 0 |-> 0]
           p == [a \in 1 .. Len(stored) |-> a]
           e == [a \in 1 .. 0 |-> 0]
<1>1. 1 .. 0 = {} /\ Len(stored) \in Nat
  OBVIOUS
<1>2. m \in [1 .. 0 -> 0 .. Len(stored)] /\ DOMAIN m = {}
  BY <1>1
<1>3. p \in [1 .. Len(stored) -> 1 .. Len(stored)] /\ \A a \in 1 .. Len(stored) : p[a] = a
  OBVIOUS
<1>4. Matched(m) = {}
  BY <1>2 DEF Matched
<1> HIDE DEF m, p
<1>5. /\ NotLooped(stored).left = stored /\ NotLooped(stored).known = {}
      /\ NotLooped(stored).unsolved = <<>>
  BY DEF NotLooped
<1>6. IsLeft(p, m, 0, stored, stored)
  BY <1>1, <1>3 DEF IsLeft
<1>7. IsVisited(e, m, <<>>, stored)
  <2>1. IsFiniteSet(Matched(m)) /\ Cardinality(Matched(m)) = 0 /\ Len(<<>>) = 0
    BY <1>4, FS_EmptySet
  <2>2. e \in [1 .. 0 -> Matched(m)] /\ DOMAIN e = {}
    BY <1>1
  <2> HIDE DEF e
  <2>3. IsVisitOrder(e, m)
    BY <1>4, <2>2 DEF IsVisitOrder
  <2> QED
    BY <1>1, <2>1, <2>2, <2>3 DEF IsVisited
<1>8. {lines[k] : k \in Matched(m)} = {}
  BY <1>4
<1>9. LoopedTo(0, NotLooped(stored), m, lines, stored)
  BY <1>1, <1>2, <1>5, <1>6, <1>7, <1>8 DEF LoopedTo
<1> QED
  BY <1>9

LEMMA LoopTakesGreedily ==
    ASSUME NEW lines \in Seq(Lines), NEW stored \in Seq(Lines)
    PROVE  \E m : LoopedTo(Len(lines), Loop(lines, stored), m, lines, stored)
<1> DEFINE N == Len(lines)
<1>1. N \in Nat
  OBVIOUS
<1>2. PICK f \in [0 .. N -> Loops] : /\ f[0] = NotLooped(stored)
                                     /\ \A i \in 1 .. N : f[i] = Round(lines[i], f[i - 1])
                                     /\ Loop(lines, stored) = f[N]
  BY LoopIsRounds
<1> DEFINE S == {i \in 0 .. N : \E m : LoopedTo(i, f[i], m, lines, stored)}
<1>3. 0 \in S
  BY <1>1, <1>2, NothingTaken
<1>4. ASSUME NEW i \in 1 .. N, i - 1 \in S PROVE i \in S
  <2>1. i \in 0 .. N /\ i - 1 \in 0 .. N /\ lines[i] \in Lines
    BY <1>1
  <2> DEFINE loop == f[i - 1]
  <2>2. loop \in Loops /\ f[i] = Round(lines[i], loop)
    BY <1>2, <2>1
  <2>3. PICK m : LoopedTo(i - 1, loop, m, lines, stored)
    BY <1>4
  <2> HIDE DEF loop
  <2>4. /\ Hits(lines[i], loop) = {} => f[i] = loop
        /\ Hits(lines[i], loop) # {} =>
             \E j \in Hits(lines[i], loop) :
                 /\ \A k \in Hits(lines[i], loop) : j <= k
                 /\ f[i] = [left |-> RemoveAt(loop.left, j), known |-> loop.known \cup {lines[i]},
                            unsolved |-> Append(loop.unsolved, loop.left[j])]
    BY <2>1, <2>2, RoundTakesFirst
  <2>5. CASE Hits(lines[i], loop) = {}
    <3>1. LoopedTo(i, loop, Longer(m, i, 0), lines, stored)
      BY <2>2, <2>3, <2>5, NothingLeftToTake
    <3>2. \E w : LoopedTo(i, f[i], w, lines, stored)
      BY <2>4, <2>5, <3>1
    <3> QED
      BY <2>1, <3>2
  <2>6. CASE Hits(lines[i], loop) # {}
    <3>1. PICK j \in Hits(lines[i], loop) :
                 /\ \A k \in Hits(lines[i], loop) : j <= k
                 /\ f[i] = [left |-> RemoveAt(loop.left, j), known |-> loop.known \cup {lines[i]},
                            unsolved |-> Append(loop.unsolved, loop.left[j])]
      BY <2>4, <2>6
    <3>2. lines \in Seq(Lines) /\ stored \in Seq(Lines) /\ i \in 1 .. Len(lines) /\ loop \in Loops
      BY <2>2
    <3>3. j \in Hits(lines[i], loop) /\ \A k \in Hits(lines[i], loop) : j <= k
      BY <3>1
    <3>4. \E w : LoopedTo(i, [left |-> RemoveAt(loop.left, j), known |-> loop.known \cup {lines[i]},
                              unsolved |-> Append(loop.unsolved, loop.left[j])], w, lines, stored)
      BY ONLY <2>3, <3>2, <3>3, FirstLeftIsTaken, Zenon
    <3>5. \E w : LoopedTo(i, f[i], w, lines, stored)
      BY ONLY <3>1, <3>4
    <3> QED
      BY <2>1, <3>5
  <2> QED
    BY <2>5, <2>6
<1>5. \A i \in 0 .. N : i \in S
  <2> HIDE DEF S, N
  <2> QED
    BY <1>1, <1>3, <1>4, OneAfterTheOther
<1>6. N \in 0 .. N
  BY <1>1
<1> QED
  BY <1>2, <1>5, <1>6

LEMMA VisitOrderIsUnique ==
    ASSUME NEW m, Matched(m) \subseteq Nat, NEW K \in Nat,
           NEW e \in [1 .. K -> Matched(m)], IsVisitOrder(e, m),
           NEW d \in [1 .. K -> Matched(m)], IsVisitOrder(d, m)
    PROVE  e = d
<1> DEFINE D == {a \in 1 .. K : e[a] # d[a]}
<1>1. CASE D = {}
  BY <1>1
<1>2. CASE D # {}
  <2>1. PICK a \in D : \A k \in D : a <= k
    <3>1. D \in SUBSET Nat
      OBVIOUS
    <3> HIDE DEF D
    <3> QED
      BY <1>2, <3>1, LeastExists
  <2>2. a \in 1 .. K /\ e[a] # d[a] /\ \A b \in 1 .. K : b < a => e[b] = d[b]
    BY <2>1
  <2>3. \A b \in 1 .. K : e[b] \in Nat /\ d[b] \in Nat
    OBVIOUS
  <2>4. /\ \A b, c \in 1 .. K : b < c => e[b] < e[c]
        /\ \A b, c \in 1 .. K : b < c => d[b] < d[c]
    BY DEF IsVisitOrder
  <2>5. (\E b \in 1 .. K : d[b] = e[a]) /\ (\E b \in 1 .. K : e[b] = d[a])
    <3>1. Matched(m) = {e[b] : b \in 1 .. K} /\ Matched(m) = {d[b] : b \in 1 .. K}
      BY DEF IsVisitOrder
    <3> QED
      BY <2>2, <3>1
  <2>6. PICK b \in 1 .. K : d[b] = e[a]
    BY <2>5
  <2>7. PICK c \in 1 .. K : e[c] = d[a]
    BY <2>5
  <2>8. b > a
    <3>1. b # a
      BY <2>2, <2>6
    <3>2. b < a => e[b] < e[a] /\ e[b] = e[a]
      BY <2>2, <2>4, <2>6
    <3>3. ~(e[a] < e[a])
      BY <2>2, <2>3
    <3> QED
      BY <2>2, <3>1, <3>2, <3>3
  <2>9. c > a
    <3>1. c # a
      BY <2>2, <2>7
    <3>2. c < a => d[c] < d[a] /\ d[c] = d[a]
      BY <2>2, <2>4, <2>7
    <3>3. ~(d[a] < d[a])
      BY <2>2, <2>3
    <3> QED
      BY <2>2, <3>1, <3>2, <3>3
  <2>10. d[a] < e[a] /\ e[a] < d[a]
    BY <2>2, <2>4, <2>6, <2>7, <2>8, <2>9
  <2> QED
    BY <2>2, <2>3, <2>10
<1> QED
  BY <1>1, <1>2

LEMMA CategoriesAreTheLoops ==
    ASSUME NEW lines \in Seq(Lines), NEW stored \in Seq(Lines)
    PROVE  CategorizedViolations(lines, stored) =
             {[ knownActual    |-> Loop(lines, stored).known,
                storedUnsolved |-> Loop(lines, stored).unsolved,
                storedSolved   |-> {j \in DOMAIN stored :
                                      \A a \in DOMAIN Loop(lines, stored).unsolved :
                                          Loop(lines, stored).unsolved[a] # stored[j]} ]}
<1> DEFINE N == Len(lines)
           loop == Loop(lines, stored)
           result == [ knownActual    |-> loop.known,
                       storedUnsolved |-> loop.unsolved,
                       storedSolved   |-> {j \in DOMAIN stored :
                                             \A a \in DOMAIN loop.unsolved :
                                                 loop.unsolved[a] # stored[j]} ]
<1>1. N \in Nat /\ DOMAIN lines = 1 .. N
  OBVIOUS
<1>2. loop \in Loops
  <2>1. PICK f \in [0 .. N -> Loops] : loop = f[N]
    <3> HIDE DEF loop
    <3> QED
      BY LoopIsRounds DEF loop
  <2>2. N \in 0 .. N
    BY <1>1
  <2> HIDE DEF loop, N
  <2> QED
    BY <2>1, <2>2
<1>3. PICK m : LoopedTo(N, loop, m, lines, stored)
  BY LoopTakesGreedily
<1>4. PICK e : IsVisited(e, m, loop.unsolved, stored)
  BY <1>3 DEF LoopedTo
<1>5. Greedy(m, lines, stored)
  BY <1>1, <1>3 DEF LoopedTo, TakesFirst, Greedy, IsGreedyMatching
<1> DEFINE K == Cardinality(Matched(m))
<1>6. loop.unsolved \in Seq(Lines) /\ Len(loop.unsolved) = K /\ K \in Nat
  <2>1. loop.unsolved \in Seq(Lines)
    BY <1>2 DEF Loops
  <2>2. Len(loop.unsolved) \in Nat
    BY <2>1
  <2> QED
    BY <1>4, <2>1, <2>2 DEF IsVisited
<1> HIDE DEF loop, K
<1>7. /\ e \in [1 .. K -> Matched(m)] /\ IsVisitOrder(e, m)
      /\ \A a \in 1 .. K : loop.unsolved[a] = stored[m[e[a]]]
  BY <1>4, <1>6 DEF IsVisited
<1>8. loop.unsolved = Unsolved(e, m, lines, stored)
  <2>1. loop.unsolved = [a \in 1 .. K |-> loop.unsolved[a]]
    <3> DEFINE u == loop.unsolved
    <3>1. u \in Seq(Lines) /\ Len(u) = K
      BY <1>6
    <3> HIDE DEF u
    <3>2. u = [a \in 1 .. Len(u) |-> u[a]]
      BY <3>1
    <3> QED
      BY <3>1, <3>2 DEF u
  <2>2. DOMAIN e = 1 .. K
    BY <1>7
  <2> QED
    BY <1>7, <2>1, <2>2 DEF Unsolved
<1>9. DOMAIN e = 1 .. K /\ DOMAIN loop.unsolved = 1 .. K
  BY <1>6, <1>7
<1>10. Categories(e, m, lines, stored) = result
  <2>1. {j \in DOMAIN stored : \A a \in DOMAIN e : stored[m[e[a]]] # stored[j]}
          = {j \in DOMAIN stored : \A a \in DOMAIN loop.unsolved : loop.unsolved[a] # stored[j]}
    BY <1>7, <1>9
  <2>2. loop.known = {lines[i] : i \in Matched(m)}
    BY <1>3 DEF LoopedTo
  <2> QED
    BY <1>8, <2>1, <2>2 DEF Categories
<1> HIDE DEF result
<1>11. \A w \in [DOMAIN lines -> 0 .. Len(stored)] : IsGreedyMatching(w, lines, stored) => w = m
  BY <1>5, GreedyIsUnique DEF Greedy
<1>12. m \in [DOMAIN lines -> 0 .. Len(stored)] /\ IsGreedyMatching(m, lines, stored)
  BY <1>5 DEF Greedy
<1>13. Matched(m) \subseteq Nat
  BY <1>1, <1>12 DEF Matched
<1>14. \A d \in [1 .. K -> Matched(m)] : IsVisitOrder(d, m) => d = e
  BY <1>6, <1>7, <1>13, VisitOrderIsUnique
<1>15. {Categories(d, m, lines, stored) :
          d \in {d \in [1 .. K -> Matched(m)] : IsVisitOrder(d, m)}} = {result}
  <2>1. {d \in [1 .. K -> Matched(m)] : IsVisitOrder(d, m)} = {e}
    BY <1>7, <1>14
  <2> QED
    BY <1>10, <2>1
<1>16. {w \in [DOMAIN lines -> 0 .. Len(stored)] : IsGreedyMatching(w, lines, stored)} = {m}
  BY <1>11, <1>12
<1>17. CategorizedViolations(lines, stored) = {result}
  <2> DEFINE Results(w) == {Categories(d, w, lines, stored) :
                              d \in {d \in [1 .. Cardinality(Matched(w)) -> Matched(w)] : IsVisitOrder(d, w)}}
             M == {w \in [DOMAIN lines -> 0 .. Len(stored)] : IsGreedyMatching(w, lines, stored)}
  <2>1. CategorizedViolations(lines, stored) = UNION {Results(w) : w \in M}
    BY DEF CategorizedViolations
  <2>2. Results(m) = {result}
    BY <1>15 DEF K
  <2>3. M = {m}
    BY <1>16
  <2> HIDE DEF Results, M
  <2>4. {Results(w) : w \in M} = {Results(m)}
    BY <2>3
  <2>5. UNION {{result}} = {result}
    OBVIOUS
  <2> QED
    BY <2>1, <2>2, <2>4, <2>5
<1> QED
  BY <1>17 DEF result, loop

(***************************************************************************)
(* For readable lines: what every evaluation compares by has one result,   *)
(* and it is the one the loop of CategorizedViolations::new arrives at.    *)
(***************************************************************************)
THEOREM LoopIsGreedy ==
    ASSUME LinesReadable
    PROVE  Spec => []GreedyIsTheLoop
<1>1. ASSUME Saves PROVE GreedyIsTheLoop
  <2> SUFFICES ASSUME file # NotFrozen PROVE GreedyIsTheLoop
    BY DEF GreedyIsTheLoop
  <2>1. PICK stored \in Seq(Lines) : file = Saved(stored)
    BY <1>1 DEF Saves, FileIsSaved
  <2>2. Known = stored
    BY <2>1, KnownIsStored DEF Known
  <2>3. actual \in Seq(Lines)
    BY <1>1 DEF Saves
  <2> QED
    BY <2>2, <2>3, CategoriesAreTheLoops DEF GreedyIsTheLoop
<1>2. Spec => []Saves
  BY SavesAlways
<1> QED
  BY <1>1, <1>2, PTL
=============================================================================
