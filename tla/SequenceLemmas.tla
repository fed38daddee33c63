---------------------------- MODULE SequenceLemmas ----------------------------
(***************************************************************************)
(* Facts about numbers and sequences that the proofs of several components *)
(* rest on: the least number of a set, induction over numbers as a fact    *)
(* about sets, and what FlattenSeq puts together.                          *)
(***************************************************************************)
EXTENDS Integers, FiniteSets, SequencesExt, TLAPS, WellFoundedInduction, NaturalsInduction,
        SequenceTheorems

-----------------------------------------------------------------------------
(* The least number of a set.                                              *)
LessThan == {p \in Nat \X Nat : p[1] < p[2]}

LEMMA SomeLeast ==
  ASSUME NEW T, T \subseteq Nat, T # {}
  PROVE  \E x \in T : \A y \in T : x <= y
<1>1. LessThan = OpToRel(<, Nat)
  BY DEF LessThan, OpToRel
<1>2. IsWellFoundedOn(LessThan, Nat)
  BY <1>1, NatLessThanWellFounded
<1>3. PICK x \in T : \A y \in T : ~ (<<y, x>> \in LessThan)
  BY <1>2, WFMin
<1>4. ASSUME NEW y \in T PROVE x <= y
  <2>1. x \in Nat /\ y \in Nat /\ ~ (<<y, x>> \in LessThan)
    BY <1>3
  <2>2. <<y, x>> \in LessThan <=> y < x
    BY <2>1 DEF LessThan
  <2>. QED
    BY <2>1, <2>2
<1>. QED
  BY <1>4

LEMMA FirstNumber ==
  ASSUME NEW T, T \subseteq Nat, NEW i \in T, \A j \in T : i <= j
  PROVE  Min(T) = i /\ T # {}
<1>1. \A x \in T : (\A y \in T : x <= y) => x = i
  OBVIOUS
<1>2. \E x \in T : \A y \in T : x <= y
  OBVIOUS
<1>. QED
  BY <1>1, <1>2 DEF Min

\* Induction over the numbers of a set.
LEMMA AllNumbers ==
  ASSUME NEW T, 0 \in T, \A k \in Nat : k \in T => k + 1 \in T
  PROVE  Nat \subseteq T
<1>. DEFINE U == Nat \ T
<1>. SUFFICES ASSUME U # {} PROVE FALSE
  OBVIOUS
<1>1. \E m \in U : \A y \in U : m <= y
  BY SomeLeast
<1>3. PICK m \in Nat : m \in U /\ \A y \in U : m <= y
  BY <1>1
<1>. HIDE DEF U
<1>4. m # 0
  BY <1>3 DEF U
<1>5. m - 1 \in Nat /\ ~(m <= m - 1) /\ m - 1 + 1 = m
  BY <1>4
<1>6. m - 1 \in T
  BY <1>3, <1>5 DEF U
<1>. QED
  BY <1>3, <1>5, <1>6 DEF U

-----------------------------------------------------------------------------
(* What FlattenSeq puts together.                                          *)
LEMMA Inside == ASSUME NEW a \in Nat, NEW l \in Nat, NEW k \in 1 .. l PROVE a + k \in 1 .. a + l
  OBVIOUS

LEMMA Within == ASSUME NEW a \in Nat, NEW l \in Nat, NEW j \in 1 .. a PROVE j \in 1 .. a + l
  OBVIOUS

LEMMA ConcatFacts ==
  ASSUME NEW S, NEW a \in Seq(S), NEW b \in Seq(S)
  PROVE  /\ a \o b \in Seq(S) /\ Len(a \o b) = Len(a) + Len(b)
         /\ \A k \in 1 .. Len(a) : (a \o b)[k] = a[k]
         /\ \A k \in 1 .. Len(b) : (a \o b)[Len(a) + k] = b[k]
<1>1. /\ a \o b \in Seq(S) /\ Len(a \o b) = Len(a) + Len(b) /\ Len(a) \in Nat /\ Len(b) \in Nat
      /\ \A k \in 1 .. Len(a) + Len(b) : (a \o b)[k] = IF k <= Len(a) THEN a[k] ELSE b[k - Len(a)]
  BY ConcatProperties
<1>. QED
  BY <1>1

Joins(f, seqs, S, n) ==
  /\ f \in [1 .. n -> Seq(S)] /\ f[1] = seqs[1] /\ FlattenSeq(seqs) = f[n]
  /\ \A i \in 2 .. n : f[i] = f[i - 1] \o seqs[i]

LEMMA FlattenFunction ==
  ASSUME NEW S, NEW n \in Nat, n # 0, NEW seqs \in [1 .. n -> Seq(S)]
  PROVE  \E f : Joins(f, seqs, S, n)
<1>. DEFINE G(h, m) == [i \in 1 .. m |-> IF i = 1 THEN seqs[i] ELSE h[i - 1] \o seqs[i]]
            Fixed(m) == \E h : h = G(h, m)
            T == {m \in Nat : m > n \/ Fixed(m)}
            f == CHOOSE h : h = G(h, n)
<1>1. 0 \in T
  <2>1. 1 .. 0 = {}
    OBVIOUS
  <2>2. [i \in {} |-> 0] = G([i \in {} |-> 0], 0)
    BY <2>1
  <2>3. Fixed(0)
    BY <2>2
  <2>. HIDE DEF Fixed
  <2>. QED
    BY <2>3
<1>2. ASSUME NEW m \in Nat, m \in T PROVE m + 1 \in T
  <2>1. CASE m + 1 > n
    <3>. HIDE DEF Fixed
    <3>. QED
      BY <2>1
  <2>2. CASE m + 1 <= n
    <3>0. Fixed(m)
      <4>. HIDE DEF Fixed
      <4>. QED
        BY <1>2, <2>2
    <3>1. PICK h : h = G(h, m)
      BY <3>0
    <3>. DEFINE x == IF m = 0 THEN seqs[1] ELSE h[m] \o seqs[m + 1]
                g == [i \in 1 .. m + 1 |-> IF i = m + 1 THEN x ELSE h[i]]
    <3>2. ASSUME NEW i \in 1 .. m + 1
          PROVE  g[i] = IF i = 1 THEN seqs[i] ELSE g[i - 1] \o seqs[i]
      <4>1. CASE i = m + 1
        <5>1. CASE m = 0
          BY <4>1, <5>1
        <5>2. CASE m # 0
          <6>1. m \in 1 .. m + 1 /\ m # m + 1 /\ i # 1 /\ i - 1 = m
            BY <4>1, <5>2
          <6>. QED
            BY <4>1, <5>2, <6>1
        <5>. QED
          BY <5>1, <5>2
      <4>2. CASE i # m + 1
        <5>1. i \in 1 .. m /\ (i # 1 => i - 1 \in 1 .. m /\ i - 1 \in 1 .. m + 1 /\ i - 1 # m + 1)
          BY <4>2
        <5>2. h[i] = IF i = 1 THEN seqs[i] ELSE h[i - 1] \o seqs[i]
          BY <3>1, <5>1
        <5>. QED
          BY <4>2, <5>1, <5>2
      <4>. QED
        BY <4>1, <4>2
    <3>3. g = G(g, m + 1)
      BY <3>2
    <3>4. Fixed(m + 1)
      BY <3>3
    <3>. HIDE DEF Fixed, g, G
    <3>. QED
      BY <3>4
  <2>3. m + 1 > n \/ m + 1 <= n
    OBVIOUS
  <2>. HIDE DEF Fixed
  <2>. QED
    BY <2>1, <2>2, <2>3
<1>3. \E h : h = G(h, n)
  <2>1. Nat \subseteq T
    <3>. HIDE DEF T
    <3>. QED
      BY <1>1, <1>2, AllNumbers
  <2>2. Fixed(n)
    <3>. HIDE DEF Fixed
    <3>. QED
      BY <2>1
  <2>. QED
    BY <2>2
<1>4. f = G(f, n)
  BY <1>3
<1>5. Len(seqs) = n /\ Len(seqs) # 0
  OBVIOUS
<1>6. FlattenSeq(seqs) = f[n]
  BY <1>5 DEF FlattenSeq
<1>. HIDE DEF f
<1>7. /\ DOMAIN f = 1 .. n /\ f[1] = seqs[1]
      /\ \A i \in 2 .. n : f[i] = f[i - 1] \o seqs[i]
  <2>1. DOMAIN f = 1 .. n
    BY <1>4
  <2>2. \A i \in 1 .. n : f[i] = IF i = 1 THEN seqs[i] ELSE f[i - 1] \o seqs[i]
    BY <1>4
  <2>3. 1 \in 1 .. n /\ \A i \in 2 .. n : i \in 1 .. n /\ i # 1
    OBVIOUS
  <2>. QED
    BY <2>1, <2>2, <2>3, ZenonT(30)
<1>8. \A i \in 1 .. n : f[i] \in Seq(S)
  <2>. DEFINE V == {m \in Nat : m + 1 > n \/ f[m + 1] \in Seq(S)}
  <2>1. 0 \in V
    BY <1>7
  <2>2. ASSUME NEW m \in Nat, m \in V PROVE m + 1 \in V
    <3>1. CASE m + 2 > n
      BY <3>1
    <3>2. CASE m + 2 <= n
      <4>1. PICK j \in 2 .. n : j = m + 2
        BY <3>2
      <4>2. j - 1 = m + 1 /\ j \in 1 .. n /\ m + 1 + 1 = j
        BY <4>1
      <4>3. f[j] = f[j - 1] \o seqs[j]
        BY <1>7
      <4>4. f[m + 1] \in Seq(S) /\ seqs[j] \in Seq(S)
        BY <2>2, <3>2, <4>2
      <4>5. f[j] \in Seq(S)
        BY <4>2, <4>3, <4>4
      <4>. QED
        BY <4>2, <4>5
    <3>. QED
      BY <3>1, <3>2
  <2>3. Nat \subseteq V
    <3>. HIDE DEF V
    <3>. QED
      BY <2>1, <2>2, AllNumbers
  <2>4. ASSUME NEW i \in 1 .. n PROVE f[i] \in Seq(S)
    <3>1. i - 1 \in Nat /\ i - 1 + 1 = i /\ ~(i > n)
      OBVIOUS
    <3>. QED
      BY <2>3, <3>1
  <2>. QED
    BY <2>4
<1>9. f \in [1 .. n -> Seq(S)]
  <2>1. f = [i \in 1 .. n |-> f[i]]
    <3>1. f = G(f, n)
      BY <1>4
    <3>2. \E E : f = [i \in 1 .. n |-> E[i]]
      <4>1. G(f, n) = [i \in 1 .. n |-> G(f, n)[i]]
        OBVIOUS
      <4>. QED
        BY <3>1, <4>1
    <3>. QED
      BY <3>2
  <2>. QED
    BY <1>8, <2>1
<1>10. Joins(f, seqs, S, n)
  BY <1>6, <1>7, <1>9, ZenonT(30) DEF Joins
<1>. QED
  BY <1>10


\* Where in the whole the parts are: part i begins behind at[i - 1].
Spread(at, seqs, S, n) ==
  /\ at \in [0 .. n -> Nat] /\ at[0] = 0
  /\ \A i \in 1 .. n : at[i] = at[i - 1] + Len(seqs[i])
  /\ FlattenSeq(seqs) \in Seq(S) /\ Len(FlattenSeq(seqs)) = at[n]
  /\ \A i \in 1 .. n : \A k \in 1 .. Len(seqs[i]) :
       /\ at[i - 1] + k \in 1 .. at[n]
       /\ FlattenSeq(seqs)[at[i - 1] + k] = seqs[i][k]

LEMMA FlattenFacts ==
  ASSUME NEW S, NEW n \in Nat, NEW seqs \in [1 .. n -> Seq(S)]
  PROVE  \E at : Spread(at, seqs, S, n)
<1>1. CASE n = 0
  <2>1. seqs = << >> /\ Len(seqs) = 0 /\ 1 .. n = {} /\ 0 .. n = {0}
    BY <1>1
  <2>2. FlattenSeq(seqs) = << >>
    BY <2>1 DEF FlattenSeq
  <2>3. PICK at : at = [i \in {0} |-> 0]
    OBVIOUS
  <2>4. at \in [0 .. n -> Nat] /\ at[0] = 0
    BY <2>1, <2>3
  <2>5. << >> \in Seq(S) /\ Len(<< >>) = 0
    OBVIOUS
  <2>6. Spread(at, seqs, S, n)
    BY <1>1, <2>1, <2>2, <2>4, <2>5 DEF Spread
  <2>. QED
    BY <2>6
<1>2. CASE n # 0
  <2>1. n \in Nat \ {0}
    BY <1>2
  <2>2. PICK f \in [1 .. n -> Seq(S)] :
          /\ f[1] = seqs[1] /\ FlattenSeq(seqs) = f[n]
          /\ \A i \in 2 .. n : f[i] = f[i - 1] \o seqs[i]
    <3>1. PICK f : Joins(f, seqs, S, n)
      BY <1>2, FlattenFunction
    <3>. QED
      BY <3>1 DEF Joins
  <2>. DEFINE at == [i \in 0 .. n |-> IF i = 0 THEN 0 ELSE Len(f[i])]
  <2>3. at \in [0 .. n -> Nat] /\ at[0] = 0 /\ \A i \in 1 .. n : at[i] = Len(f[i])
    <3>1. \A i \in 1 .. n : Len(f[i]) \in Nat
      OBVIOUS
    <3>2. \A i \in 0 .. n : i = 0 \/ i \in 1 .. n
      OBVIOUS
    <3>. QED
      BY <3>1, <3>2
  <2>. HIDE DEF at
  <2>4. ASSUME NEW i \in 2 .. n
        PROVE  /\ at[i] = at[i - 1] + Len(seqs[i]) /\ at[i - 1] <= at[i]
               /\ \A k \in 1 .. at[i - 1] : f[i][k] = f[i - 1][k]
               /\ \A k \in 1 .. Len(seqs[i]) : f[i][at[i - 1] + k] = seqs[i][k]
    <3>1. i \in 1 .. n /\ i - 1 \in 1 .. n
      OBVIOUS
    <3>2. f[i] = f[i - 1] \o seqs[i] /\ at[i] = Len(f[i]) /\ at[i - 1] = Len(f[i - 1])
      BY <2>2, <2>3, <3>1
    <3>3. PICK a \in Seq(S), b \in Seq(S) : a = f[i - 1] /\ b = seqs[i]
      BY <3>1
    <3>4. /\ Len(a \o b) = Len(a) + Len(b) /\ Len(a) \in Nat /\ Len(b) \in Nat
          /\ \A k \in 1 .. Len(a) : (a \o b)[k] = a[k]
          /\ \A k \in 1 .. Len(b) : (a \o b)[Len(a) + k] = b[k]
      BY ConcatFacts
    <3>5. f[i] = a \o b /\ at[i - 1] = Len(a) /\ at[i] = Len(a) + Len(b) /\ f[i - 1] = a /\ seqs[i] = b
      BY <3>2, <3>3, <3>4
    <3>6. Len(a) <= Len(a) + Len(b)
      BY <3>4
    <3>. QED
      BY <3>4, <3>5, <3>6, ZenonT(30)
  <2>5. ASSUME NEW i \in 1 .. n
        PROVE  at[i] = at[i - 1] + Len(seqs[i])
    <3>1. CASE i = 1
      <4>1. at[1] = Len(seqs[1]) /\ Len(seqs[1]) \in Nat /\ i - 1 = 0
        BY <2>2, <2>3, <3>1
      <4>. QED
        BY <2>3, <3>1, <4>1
    <3>2. CASE i # 1
      <4>1. i \in 2 .. n
        BY <3>2
      <4>. QED
        BY <2>4, <4>1
    <3>. QED
      BY <3>1, <3>2
  \* What is in place stays there.
  <2>. DEFINE Placed(m) == \A i \in 1 .. m : \A k \in 1 .. Len(seqs[i]) :
                             at[i - 1] + k \in 1 .. at[m] /\ f[m][at[i - 1] + k] = seqs[i][k]
              T == {m \in Nat : m + 1 > n \/ Placed(m + 1)}
  <2>6. Placed(1)
    <3>1. 1 \in 1 .. n /\ 1 - 1 = 0 /\ at[1] = Len(seqs[1]) /\ Len(seqs[1]) \in Nat
      BY <2>1, <2>2, <2>3
    <3>2. \A i \in 1 .. 1 : i = 1
      OBVIOUS
    <3>3. ASSUME NEW k \in 1 .. Len(seqs[1])
          PROVE  at[0] + k \in 1 .. at[1] /\ f[1][at[0] + k] = seqs[1][k]
      <4>1. at[0] + k = k
        BY <2>3, <3>1
      <4>. QED
        BY <2>2, <3>1, <4>1
    <3>. QED
      BY <3>1, <3>2, <3>3
  <2>7. ASSUME NEW m \in 2 .. n, Placed(m - 1) PROVE Placed(m)
    <3>. SUFFICES ASSUME NEW i \in 1 .. m, NEW k \in 1 .. Len(seqs[i])
                  PROVE  at[i - 1] + k \in 1 .. at[m] /\ f[m][at[i - 1] + k] = seqs[i][k]
      OBVIOUS
    <3>1. m \in 1 .. n /\ m - 1 \in 1 .. n /\ i \in 1 .. n /\ i - 1 \in 0 .. n /\ m - 1 \in 0 .. n /\ m \in 0 .. n
      OBVIOUS
    <3>2. at[m] \in Nat /\ at[m - 1] \in Nat /\ at[i - 1] \in Nat /\ Len(seqs[m]) \in Nat
      BY <2>3, <3>1
    <3>3. /\ at[m] = at[m - 1] + Len(seqs[m])
          /\ \A j \in 1 .. at[m - 1] : f[m][j] = f[m - 1][j]
          /\ \A j \in 1 .. Len(seqs[m]) : f[m][at[m - 1] + j] = seqs[m][j]
      BY <2>4
    <3>4. CASE i = m
      <4>1. at[m - 1] + k \in 1 .. at[m]
        <5>1. PICK a \in Nat, b \in Nat, l \in Nat : a = at[m - 1] /\ b = at[m] /\ l = Len(seqs[m]) /\ b = a + l
          BY <3>2, <3>3
        <5>2. k \in 1 .. l
          BY <3>4, <5>1
        <5>3. a + k \in 1 .. b
          BY <5>1, <5>2, Inside
        <5>. QED
          BY <5>1, <5>3
      <4>. QED
        BY <3>3, <3>4, <4>1
    <3>5. CASE i # m
      <4>1. i \in 1 .. m - 1
        BY <3>5
      <4>2. at[i - 1] + k \in 1 .. at[m - 1] /\ f[m - 1][at[i - 1] + k] = seqs[i][k]
        BY <2>7, <4>1
      <4>3. at[i - 1] + k \in 1 .. at[m]
        <5>1. PICK a \in Nat, b \in Nat, l \in Nat : a = at[m - 1] /\ b = at[m] /\ l = Len(seqs[m]) /\ b = a + l
          BY <3>2, <3>3
        <5>2. PICK j : j = at[i - 1] + k /\ j \in 1 .. a
          BY <4>2, <5>1
        <5>3. j \in 1 .. b
          BY <5>1, <5>2, Within
        <5>. QED
          BY <5>1, <5>2, <5>3
      <4>. QED
        BY <3>3, <4>2, <4>3
    <3>. QED
      BY <3>4, <3>5
  <2>8. Nat \subseteq T
    <3>1. 0 \in T
      <4>1. 0 + 1 = 1
        OBVIOUS
      <4>. HIDE DEF Placed
      <4>. QED
        BY <2>6, <4>1
    <3>2. ASSUME NEW m \in Nat, m \in T PROVE m + 1 \in T
      <4>. HIDE DEF Placed
      <4>1. CASE m + 1 + 1 > n
        BY <4>1
      <4>2. CASE ~(m + 1 + 1 > n)
        <5>1. m + 1 + 1 \in 2 .. n /\ m + 1 + 1 - 1 = m + 1 /\ ~(m + 1 > n)
          BY <4>2
        <5>2. Placed(m + 1)
          BY <3>2, <5>1
        <5>3. Placed(m + 1 + 1)
          BY <2>7, <5>1, <5>2
        <5>. QED
          BY <5>3
      <4>. QED
        BY <4>1, <4>2
    <3>. HIDE DEF T
    <3>. QED
      BY <3>1, <3>2, AllNumbers
  <2>9. Placed(n)
    <3>. HIDE DEF Placed
    <3>1. n - 1 \in Nat /\ n - 1 + 1 = n /\ ~(n > n)
      BY <2>1
    <3>. QED
      BY <2>8, <3>1
  <2>10. FlattenSeq(seqs) \in Seq(S) /\ Len(FlattenSeq(seqs)) = at[n]
    BY <2>1, <2>2, <2>3
  <2>11. Spread(at, seqs, S, n)
    BY <2>2, <2>3, <2>5, <2>9, <2>10 DEF Spread
  <2>. QED
    BY <2>11
<1>. QED
  BY <1>1, <1>2

-----------------------------------------------------------------------------
(* Sequences of which no more is known.                                    *)
IsSeq(s) == \E S : s \in Seq(S)

LEMMA AppendFacts ==
  ASSUME NEW s, IsSeq(s), NEW x
  PROVE  /\ IsSeq(Append(s, x)) /\ s \o <<x>> = Append(s, x)
         /\ \A i \in DOMAIN Append(s, x) : Append(s, x)[i] = x \/ (i \in DOMAIN s /\ Append(s, x)[i] = s[i])
         /\ Append(s, x) # << >>
         /\ s = << >> => Append(s, x)[1] = x
         /\ s # << >> => Append(s, x)[1] = s[1]
<1>1. PICK S : s \in Seq(S)
  BY DEF IsSeq
<1>2. s \in Seq(S \cup {x}) /\ x \in S \cup {x}
  BY <1>1
<1>3. PICK T : T = S \cup {x}
  OBVIOUS
<1>4. s \in Seq(T) /\ x \in T
  BY <1>2, <1>3
<1>5. Append(s, x) \in Seq(T) /\ s \o <<x>> = Append(s, x)
  BY <1>4
<1>6. /\ Len(s) \in Nat /\ DOMAIN s = 1 .. Len(s) /\ Append(s, x)[Len(s) + 1] = x
      /\ Len(Append(s, x)) = Len(s) + 1 /\ DOMAIN Append(s, x) = 1 .. Len(s) + 1
      /\ \A i \in 1 .. Len(s) : Append(s, x)[i] = s[i]
  BY <1>4
<1>7. \A i \in DOMAIN Append(s, x) : Append(s, x)[i] = x \/ (i \in DOMAIN s /\ Append(s, x)[i] = s[i])
  BY <1>6
<1>8. Append(s, x) # << >>
  <2>1. Append(s, x) = << >> => Len(Append(s, x)) = 0
    OBVIOUS
  <2>. QED
    BY <1>6, <2>1
<1>9. s = << >> => Append(s, x)[1] = x
  <2>1. s = << >> => Len(s) = 0
    OBVIOUS
  <2>. QED
    BY <1>6, <2>1
<1>10. s # << >> => Append(s, x)[1] = s[1]
  <2>1. s # << >> => 1 \in 1 .. Len(s)
    BY <1>4
  <2>. QED
    BY <1>6, <2>1
<1>. QED
  BY <1>5, <1>7, <1>8, <1>9, <1>10 DEF IsSeq

LEMMA TailFacts ==
  ASSUME NEW s, IsSeq(s), s # << >>
  PROVE  /\ IsSeq(Tail(s)) /\ 1 \in DOMAIN s
         /\ \A i \in DOMAIN Tail(s) : i + 1 \in DOMAIN s /\ Tail(s)[i] = s[i + 1]
<1>1. PICK S : s \in Seq(S)
  BY DEF IsSeq
<1>2. Tail(s) \in Seq(S) /\ 1 \in DOMAIN s
  BY <1>1
<1>3. \A i \in DOMAIN Tail(s) : i + 1 \in DOMAIN s /\ Tail(s)[i] = s[i + 1]
  BY <1>1
<1>. QED
  BY <1>2, <1>3 DEF IsSeq

-----------------------------------------------------------------------------
(* Sequences and the sets of their elements.                               *)
LEMMA Elements ==
  ASSUME NEW s, IsSeq(s)
  PROVE  s \in Seq(Range(s)) /\ Len(s) \in Nat /\ DOMAIN s = 1 .. Len(s)
<1>1. PICK S : s \in Seq(S)
  BY DEF IsSeq
<1>2. Len(s) \in Nat /\ DOMAIN s = 1 .. Len(s) /\ s \in [1 .. Len(s) -> S]
  BY <1>1
<1>3. \A i \in 1 .. Len(s) : s[i] \in Range(s)
  BY <1>2 DEF Range
<1>4. s \in [1 .. Len(s) -> Range(s)]
  BY <1>2, <1>3
<1>. QED
  BY <1>2, <1>4

LEMMA ElementsOf ==
  ASSUME NEW S, NEW s \in Seq(S)
  PROVE  IsSeq(s) /\ Range(s) \subseteq S
<1>1. DOMAIN s = 1 .. Len(s) /\ \A i \in 1 .. Len(s) : s[i] \in S
  OBVIOUS
<1>. QED
  BY <1>1 DEF IsSeq, Range

LEMMA ConcatElements ==
  ASSUME NEW a, IsSeq(a), NEW b, IsSeq(b)
  PROVE  IsSeq(a \o b) /\ Range(a \o b) = Range(a) \cup Range(b)
<1>. DEFINE S == Range(a) \cup Range(b)
<1>1. a \in Seq(S) /\ b \in Seq(S) /\ DOMAIN a = 1 .. Len(a) /\ DOMAIN b = 1 .. Len(b)
  <2>1. Range(a) \subseteq S /\ Range(b) \subseteq S
    OBVIOUS
  <2>2. a \in Seq(Range(a)) /\ b \in Seq(Range(b)) /\ DOMAIN a = 1 .. Len(a) /\ DOMAIN b = 1 .. Len(b)
    BY Elements
  <2>. HIDE DEF S
  <2>. QED
    BY <2>1, <2>2
<1>. HIDE DEF S
<1>2. /\ a \o b \in Seq(S) /\ Len(a \o b) = Len(a) + Len(b)
      /\ \A k \in 1 .. Len(a) : (a \o b)[k] = a[k]
      /\ \A k \in 1 .. Len(b) : (a \o b)[Len(a) + k] = b[k]
  BY <1>1, ConcatFacts
<1>3. IsSeq(a \o b) /\ Range(a \o b) \subseteq S
  BY <1>2, ElementsOf
<1>4. Len(a) \in Nat /\ Len(b) \in Nat /\ DOMAIN (a \o b) = 1 .. Len(a) + Len(b)
  BY <1>1, <1>2
<1>5. ASSUME NEW k \in 1 .. Len(a) PROVE a[k] \in Range(a \o b)
  <2>1. k \in DOMAIN (a \o b) /\ (a \o b)[k] = a[k]
    BY <1>2, <1>4
  <2>. QED
    BY <2>1 DEF Range
<1>6. ASSUME NEW k \in 1 .. Len(b) PROVE b[k] \in Range(a \o b)
  <2>1. Len(a) + k \in DOMAIN (a \o b) /\ (a \o b)[Len(a) + k] = b[k]
    BY <1>2, <1>4
  <2>. QED
    BY <2>1 DEF Range
<1>7. S \subseteq Range(a \o b)
  <2>1. \A x \in Range(a) : \E k \in 1 .. Len(a) : x = a[k]
    BY <1>1 DEF Range
  <2>2. \A x \in Range(b) : \E k \in 1 .. Len(b) : x = b[k]
    BY <1>1 DEF Range
  <2>. QED
    BY <1>5, <1>6, <2>1, <2>2 DEF S
<1>. QED
  BY <1>3, <1>7 DEF S

LEMMA HeadElement ==
  ASSUME NEW s, IsSeq(s), s # << >>
  PROVE  Head(s) \in Range(s) /\ IsSeq(Tail(s)) /\ Range(s) = {Head(s)} \cup Range(Tail(s))
<1>1. PICK S : s \in Seq(S)
  BY DEF IsSeq
<1>2. /\ Len(s) \in Nat /\ DOMAIN s = 1 .. Len(s) /\ 1 \in DOMAIN s /\ Head(s) = s[1]
      /\ Tail(s) \in Seq(S) /\ DOMAIN Tail(s) = 1 .. Len(s) - 1
      /\ \A i \in 1 .. Len(s) - 1 : Tail(s)[i] = s[i + 1]
  BY <1>1
<1>3. Head(s) \in Range(s) /\ IsSeq(Tail(s))
  BY <1>2 DEF Range, IsSeq
<1>4. Range(Tail(s)) \subseteq Range(s)
  BY <1>2 DEF Range
<1>5. ASSUME NEW i \in DOMAIN s PROVE s[i] \in {Head(s)} \cup Range(Tail(s))
  <2>1. CASE i = 1
    BY <1>2, <2>1
  <2>2. CASE i # 1
    <3>1. i - 1 \in 1 .. Len(s) - 1 /\ i - 1 + 1 = i
      BY <1>2, <2>2
    <3>2. Tail(s)[i - 1] = s[i]
      BY <1>2, <3>1
    <3>. QED
      BY <1>2, <3>1, <3>2 DEF Range
  <2>. QED
    BY <2>1, <2>2
<1>. QED
  BY <1>3, <1>4, <1>5 DEF Range

LEMMA AppendElement ==
  ASSUME NEW s, IsSeq(s), NEW x
  PROVE  IsSeq(Append(s, x)) /\ Range(Append(s, x)) = Range(s) \cup {x}
<1>1. << x >> \in Seq({x}) /\ DOMAIN << x >> = 1 .. 1 /\ << x >>[1] = x /\ 1 .. 1 = {1}
  OBVIOUS
<1>2. IsSeq(<< x >>) /\ Range(<< x >>) = {x}
  <2>1. IsSeq(<< x >>)
    BY <1>1 DEF IsSeq
  <2>2. PICK y : y = << x >>
    OBVIOUS
  <2>3. DOMAIN y = {1} /\ y[1] = x
    BY <1>1, <2>2
  <2>4. Range(y) = {x}
    BY <2>3 DEF Range
  <2>. QED
    BY <2>1, <2>2, <2>4
<1>3. s \o << x >> = Append(s, x)
  BY AppendFacts
<1>. QED
  BY <1>2, <1>3, ConcatElements

\* What FlattenSeq puts together has the elements of its parts.
LEMMA FlattenElements ==
  ASSUME NEW S, NEW n \in Nat, NEW seqs \in [1 .. n -> Seq(S)]
  PROVE  /\ FlattenSeq(seqs) \in Seq(S)
         /\ \A i \in 1 .. n : Range(seqs[i]) \subseteq Range(FlattenSeq(seqs))
<1>1. PICK at : Spread(at, seqs, S, n)
  BY FlattenFacts
<1>2. /\ FlattenSeq(seqs) \in Seq(S) /\ Len(FlattenSeq(seqs)) = at[n]
      /\ \A i \in 1 .. n : \A k \in 1 .. Len(seqs[i]) :
           at[i - 1] + k \in 1 .. at[n] /\ FlattenSeq(seqs)[at[i - 1] + k] = seqs[i][k]
  BY <1>1 DEF Spread
<1>3. DOMAIN FlattenSeq(seqs) = 1 .. at[n]
  BY <1>2
<1>4. ASSUME NEW i \in 1 .. n, NEW x \in Range(seqs[i]) PROVE x \in Range(FlattenSeq(seqs))
  <2>1. seqs[i] \in Seq(S)
    OBVIOUS
  <2>2. DOMAIN seqs[i] = 1 .. Len(seqs[i])
    BY <2>1
  <2>3. PICK k \in 1 .. Len(seqs[i]) : x = seqs[i][k]
    BY <2>2 DEF Range
  <2>. QED
    BY <1>2, <1>3, <2>3 DEF Range
<1>. QED
  BY <1>2, <1>4

=============================================================================
