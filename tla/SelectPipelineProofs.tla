------------------------ MODULE SelectPipelineProofs ------------------------
(***************************************************************************)
(* Proofs about SelectPipeline.                                            *)
(***************************************************************************)
EXTENDS SelectPipeline, InductionTheorems

(* Selecting rows *)

(* What is picked is a sequence of members of the whole. *)
LEMMA PickedType ==
    ASSUME NEW V, NEW s \in Seq(V), NEW P \in SUBSET DOMAIN s
    PROVE  /\ IsFiniteSet(P) /\ P \in SUBSET Nat
           /\ Picked(s, P) = [n \in 1..Cardinality(P) |-> s[NumbersOf(P)[n]]]
           /\ Picked(s, P) \in Seq(V) /\ Len(Picked(s, P)) = Cardinality(P)
           /\ DOMAIN Picked(s, P) = 1..Cardinality(P)
           /\ \A n \in 1..Cardinality(P) : NumbersOf(P)[n] \in P
<1>1. DOMAIN s = 1..Len(s) /\ Len(s) \in Nat
    BY LenProperties
<1>2. IsFiniteSet(P) /\ P \in SUBSET Nat
    <2>1. Len(s) \in Int /\ 1 \in Int
        BY <1>1
    <2>2. IsFiniteSet(1..Len(s))
        BY <2>1, FS_Interval
    <2>3. IsFiniteSet(P)
        BY <1>1, <2>2, FS_Subset
    <2> QED
        BY <1>1, <2>3
<1>3. /\ Cardinality(P) \in Nat
      /\ \A n \in 1..Cardinality(P) : NumbersOf(P)[n] \in P
    BY <1>2, NumbersByRank
<1>4. Picked(s, P) = [n \in 1..Cardinality(P) |-> s[NumbersOf(P)[n]]]
    BY DEF Picked, InOrder, NumbersOf
<1>5. \A i \in P : s[i] \in V
    BY <1>1, ElementOfSeq
<1>6. Picked(s, P) \in [1..Cardinality(P) -> V]
    BY <1>3, <1>4, <1>5
<1>7. Picked(s, P) \in Seq(V) /\ Len(Picked(s, P)) = Cardinality(P)
    BY <1>3, <1>6, IntervalSeq
<1> QED
    BY <1>2, <1>3, <1>4, <1>6, <1>7

(* The members of two sequences, one after the other. *)
LEMMA ConcatParts ==
    ASSUME NEW V, NEW a \in Seq(V), NEW b \in Seq(V), NEW s, s = a \o b
    PROVE  /\ Len(a) \in Nat /\ Len(b) \in Nat /\ s \in Seq(V) /\ Len(s) = Len(a) + Len(b)
           /\ DOMAIN a = 1..Len(a) /\ DOMAIN b = 1..Len(b) /\ DOMAIN s = 1..(Len(a) + Len(b))
           /\ \A i \in 1..Len(a) : s[i] = a[i]
           /\ \A i \in 1..Len(b) : s[i + Len(a)] = b[i]
<1> DEFINE l == Len(a)
           m == Len(b)
<1>1. l \in Nat /\ m \in Nat /\ DOMAIN a = 1..l /\ DOMAIN b = 1..m
    BY LenProperties
<1>2. s \in Seq(V) /\ Len(s) = l + m
    BY ConcatProperties
<1>3. DOMAIN s = 1..(l + m)
    BY <1>2, LenProperties
<1>4. \A i \in 1..(l + m) : s[i] = IF i <= l THEN a[i] ELSE b[i - l]
    BY ConcatProperties
<1> HIDE DEF l, m
<1>5. ASSUME NEW i \in 1..l PROVE s[i] = a[i]
    <2>1. i \in 1..(l + m) /\ i <= l
        BY <1>1
    <2> QED
        BY <1>4, <2>1
<1>6. ASSUME NEW i \in 1..m PROVE s[i + l] = b[i]
    <2>1. i + l \in 1..(l + m) /\ ~(i + l <= l) /\ (i + l) - l = i
        BY <1>1
    <2> QED
        BY <1>4, <2>1
<1> QED
    BY <1>1, <1>2, <1>3, <1>5, <1>6 DEF l, m

(* Places in two sequences, one after the other. *)
Both(A, B, c) == A \cup {n + c : n \in B}
LEMMA PickedOfConcat ==
    ASSUME NEW V, NEW a \in Seq(V), NEW b \in Seq(V),
           NEW A \in SUBSET DOMAIN a, NEW B \in SUBSET DOMAIN b
    PROVE  Picked(a \o b, Both(A, B, Len(a))) = Picked(a, A) \o Picked(b, B)
<1> DEFINE c == Len(a)
           C == {n + c : n \in B}
           s == a \o b
<1>0. C = {n + c : n \in B}
    OBVIOUS
<1>1. /\ DOMAIN a = 1..c /\ c \in Nat /\ DOMAIN b = 1..Len(b) /\ Len(b) \in Nat
      /\ s \in Seq(V) /\ DOMAIN s = 1..(c + Len(b))
      /\ \A i \in 1..c : s[i] = a[i]
      /\ \A i \in 1..Len(b) : s[i + c] = b[i]
    BY ConcatParts
<1> HIDE DEF s, c, C
<1>2. C \in SUBSET DOMAIN s /\ A \in SUBSET DOMAIN s /\ \A i \in A : \A k \in C : i < k
    BY <1>0, <1>1
<1>3. IsFiniteSet(B) /\ B \in SUBSET Nat /\ IsFiniteSet(A) /\ A \in SUBSET Nat
    BY PickedType
<1>4. /\ IsFiniteSet(C) /\ C \in SUBSET Nat /\ Cardinality(C) = Cardinality(B)
      /\ \A n \in 1..Cardinality(B) : NumbersOf(C)[n] = NumbersOf(B)[n] + c
    <2> DEFINE D == {n + c : n \in B}
    <2>1. /\ IsFiniteSet(D) /\ D \in SUBSET Nat /\ Cardinality(D) = Cardinality(B)
          /\ \A n \in 1..Cardinality(B) : NumbersOf(D)[n] = NumbersOf(B)[n] + c
        BY <1>1, <1>3, NumbersShifted
    <2>2. C = D
        BY <1>0
    <2> HIDE DEF D
    <2> QED
        BY <2>1, <2>2
<1>5. NumbersOf(A \cup C) = NumbersOf(A) \o NumbersOf(C)
    BY <1>2, <1>3, <1>4, NumbersOfUnion
<1> DEFINE m == Cardinality(A)
           k == Cardinality(B)
<1>6. m \in Nat /\ k \in Nat /\ Cardinality(A \cup C) = m + k
    <2>1. A \cap C = {}
        <3>1. \A i \in A : \A j \in C : i < j /\ i \in Nat /\ j \in Nat
            BY <1>2, <1>3, <1>4
        <3>2. \A i \in Nat : ~(i < i)
            OBVIOUS
        <3> QED
            BY <3>1, <3>2
    <2>2. Cardinality(A \cup C) = Cardinality(A) + Cardinality(C)
        <3>1. Cardinality(A \cap C) = 0
            BY <2>1, FS_EmptySet
        <3>2. Cardinality(A \cup C) = Cardinality(A) + Cardinality(C) - Cardinality(A \cap C)
            BY <1>3, <1>4, FS_Union
        <3>3. Cardinality(A) \in Nat /\ Cardinality(C) \in Nat
            BY <1>3, <1>4, FS_CardinalityType
        <3> QED
            BY <3>1, <3>2, <3>3
    <2> QED
        BY <1>3, <1>4, <2>2, FS_CardinalityType
<1>7. /\ Picked(s, A \cup C) = [n \in 1..(m + k) |-> s[NumbersOf(A \cup C)[n]]]
      /\ Picked(a, A) = [n \in 1..m |-> a[NumbersOf(A)[n]]]
      /\ Picked(b, B) = [n \in 1..k |-> b[NumbersOf(B)[n]]]
      /\ Picked(a, A) \in Seq(V) /\ Len(Picked(a, A)) = m
      /\ Picked(b, B) \in Seq(V) /\ Len(Picked(b, B)) = k
      /\ \A n \in 1..m : NumbersOf(A)[n] \in A
      /\ \A n \in 1..k : NumbersOf(B)[n] \in B
    <2>1. A \cup C \in SUBSET DOMAIN s
        BY <1>2
    <2>2. Picked(s, A \cup C) = [n \in 1..Cardinality(A \cup C) |-> s[NumbersOf(A \cup C)[n]]]
        <3> DEFINE U == A \cup C
        <3> HIDE DEF U
        <3>1. s \in Seq(V) /\ U \in SUBSET DOMAIN s
            BY <1>1, <2>1 DEF U
        <3>2. Picked(s, U) = [n \in 1..Cardinality(U) |-> s[NumbersOf(U)[n]]]
            BY <3>1, PickedType
        <3> QED BY <3>2 DEF U
    <2>3. /\ Picked(a, A) = [n \in 1..m |-> a[NumbersOf(A)[n]]]
          /\ Picked(a, A) \in Seq(V) /\ Len(Picked(a, A)) = m
          /\ \A n \in 1..m : NumbersOf(A)[n] \in A
        BY PickedType
    <2>4. /\ Picked(b, B) = [n \in 1..k |-> b[NumbersOf(B)[n]]]
          /\ Picked(b, B) \in Seq(V) /\ Len(Picked(b, B)) = k
          /\ \A n \in 1..k : NumbersOf(B)[n] \in B
        BY PickedType
    <2> QED BY <1>6, <2>2, <2>3, <2>4
<1>8. /\ \A n \in 1..m : NumbersOf(A \cup C)[n] = NumbersOf(A)[n]
      /\ \A n \in 1..k : NumbersOf(A \cup C)[n + m] = NumbersOf(C)[n]
    <2>1. NumbersOf(A) \in Seq(Nat) /\ Len(NumbersOf(A)) = m
        <3>1. NumbersOf(A) \in Seq(A) /\ Len(NumbersOf(A)) = m
            BY <1>3, NumbersInOrder
        <3> QED BY <1>3, <3>1, SeqMonotonic
    <2>2. NumbersOf(C) \in Seq(Nat) /\ Len(NumbersOf(C)) = k
        <3>1. NumbersOf(C) \in Seq(C) /\ Len(NumbersOf(C)) = k
            BY <1>4, NumbersInOrder
        <3> QED BY <1>4, <3>1, SeqMonotonic
    <2> DEFINE x == NumbersOf(A)
               y == NumbersOf(C)
    <2> HIDE DEF x, y, m, k
    <2>3. x \in Seq(Nat) /\ Len(x) = m /\ y \in Seq(Nat) /\ Len(y) = k
        BY <2>1, <2>2 DEF x, y
    <2>4. \A n \in 1..(m + k) : (x \o y)[n] = IF n <= m THEN x[n] ELSE y[n - m]
        BY <2>3, ConcatProperties
    <2>5. ASSUME NEW n \in 1..m PROVE (x \o y)[n] = x[n]
        <3>1. n \in 1..(m + k) /\ n <= m
            BY <1>6
        <3> QED BY <2>4, <3>1
    <2>6. ASSUME NEW n \in 1..k PROVE (x \o y)[n + m] = y[n]
        <3>1. n + m \in 1..(m + k) /\ ~(n + m <= m) /\ (n + m) - m = n
            BY <1>6
        <3> QED BY <2>4, <3>1
    <2> QED
        BY <1>5, <2>5, <2>6 DEF x, y
<1> DEFINE l == Picked(a, A)
           r == Picked(b, B)
           t == Picked(s, A \cup C)
<1> HIDE DEF m, k
<1>9. /\ \A n \in 1..m : t[n] = l[n]
      /\ \A n \in 1..k : t[n + m] = r[n]
    <2>1. ASSUME NEW n \in 1..m PROVE t[n] = l[n]
        <3>1. n \in 1..(m + k)
            BY <1>6
        <3>2. NumbersOf(A)[n] \in 1..c
            BY <1>1, <1>7
        <3>3. t[n] = s[NumbersOf(A \cup C)[n]]
            BY <1>7, <3>1
        <3>4. t[n] = a[NumbersOf(A)[n]]
            BY <1>1, <1>8, <3>2, <3>3
        <3>5. l[n] = a[NumbersOf(A)[n]]
            BY <1>7
        <3> QED
            BY <3>4, <3>5
    <2>2. ASSUME NEW n \in 1..k PROVE t[n + m] = r[n]
        <3>1. n + m \in 1..(m + k)
            BY <1>6
        <3>2. NumbersOf(B)[n] \in 1..Len(b)
            BY <1>1, <1>7
        <3>3. NumbersOf(A \cup C)[n + m] = NumbersOf(B)[n] + c
            BY <1>4, <1>8 DEF k
        <3>4. t[n + m] = s[NumbersOf(A \cup C)[n + m]]
            BY <1>7, <3>1
        <3>5. t[n + m] = b[NumbersOf(B)[n]]
            BY <1>1, <3>2, <3>3, <3>4
        <3>6. r[n] = b[NumbersOf(B)[n]]
            BY <1>7
        <3> QED
            BY <3>5, <3>6
    <2> QED
        BY <2>1, <2>2
<1>10. t = [n \in 1..(m + k) |-> t[n]]
    BY <1>7
<1> HIDE DEF l, r, t
<1>11. t = l \o r
    <2>1. l \in Seq(V) /\ Len(l) = m /\ r \in Seq(V) /\ Len(r) = k
        BY <1>7 DEF l, r
    <2>2. l \o r \in Seq(V) /\ Len(l \o r) = m + k
        BY <2>1, ConcatProperties
    <2>3. l \o r = [n \in 1..(m + k) |-> (l \o r)[n]]
        BY <2>2, LenProperties
    <2>4. \A n \in 1..(m + k) : (l \o r)[n] = IF n <= m THEN l[n] ELSE r[n - m]
        BY <2>1, ConcatProperties
    <2>5. ASSUME NEW n \in 1..(m + k) PROVE t[n] = (l \o r)[n]
        <3>1. CASE n <= m
            <4>1. n \in 1..m
                BY <1>6, <3>1
            <4> QED BY <1>9, <2>4, <3>1, <4>1
        <3>2. CASE ~(n <= m)
            <4>1. n - m \in 1..k /\ (n - m) + m = n
                BY <1>6, <3>2
            <4> QED BY <1>9, <2>4, <3>2, <4>1
        <3> QED BY <3>1, <3>2
    <2> QED
        BY <1>10, <2>3, <2>5
<1> QED
    BY <1>11 DEF t, l, r, s, C, c, Both

(* Rows that match, of two parts of a table. *)
LEMMA WhereType ==
    ASSUME NEW V, NEW s \in Seq(V), NEW conds
    PROVE  Where(s, conds) \in Seq(V)
<1> DEFINE P == {n \in DOMAIN s : Matches(s[n], conds)}
<1>1. P \in SUBSET DOMAIN s
    OBVIOUS
<1> HIDE DEF P
<1>2. Picked(s, P) \in Seq(V)
    BY <1>1, PickedType
<1> QED
    BY <1>2 DEF P, Where

LEMMA WhereOfConcat ==
    ASSUME NEW V, NEW a \in Seq(V), NEW b \in Seq(V), NEW conds
    PROVE  Where(a \o b, conds) = Where(a, conds) \o Where(b, conds)
<1> DEFINE s == a \o b
           l == Len(a)
           m == Len(b)
           P(t) == {n \in DOMAIN t : Matches(t[n], conds)}
           A == P(a)
           B == P(b)
<1>1. /\ l \in Nat /\ m \in Nat /\ DOMAIN a = 1..l /\ DOMAIN b = 1..m /\ DOMAIN s = 1..(l + m)
      /\ \A n \in 1..(l + m) : s[n] = IF n <= l THEN a[n] ELSE b[n - l]
    <2>1. s \in Seq(V) /\ Len(s) = l + m
        BY ConcatProperties
    <2> HIDE DEF s
    <2>2. DOMAIN s = 1..(l + m)
        BY <2>1, LenProperties
    <2> QED
        BY <2>2, LenProperties, ConcatProperties DEF s
<1> HIDE DEF s, l, m
<1>2. P(s) = A \cup {n + l : n \in B}
    <2>1. ASSUME NEW n \in P(s) PROVE n \in A \cup {i + l : i \in B}
        <3>1. n \in 1..(l + m) /\ Matches(s[n], conds)
            BY <1>1
        <3>2. CASE n <= l
            <4>1. n \in 1..l /\ s[n] = a[n]
                BY <1>1, <3>1, <3>2
            <4> QED BY <1>1, <3>1, <4>1
        <3>3. CASE ~(n <= l)
            <4>1. n - l \in 1..m /\ s[n] = b[n - l] /\ (n - l) + l = n
                BY <1>1, <3>1, <3>3
            <4>2. n - l \in B
                BY <1>1, <3>1, <4>1
            <4> QED BY <4>1, <4>2
        <3> QED BY <3>2, <3>3
    <2>2. ASSUME NEW n \in A PROVE n \in P(s)
        <3>1. n \in 1..l /\ n \in 1..(l + m) /\ n <= l /\ Matches(a[n], conds)
            BY <1>1
        <3>2. s[n] = a[n]
            BY <1>1, <3>1
        <3> QED BY <1>1, <3>1, <3>2
    <2>3. ASSUME NEW n \in B PROVE n + l \in P(s)
        <3>1. n \in 1..m /\ Matches(b[n], conds)
            BY <1>1
        <3>2. n + l \in 1..(l + m) /\ ~(n + l <= l) /\ (n + l) - l = n
            BY <1>1, <3>1
        <3>3. s[n + l] = b[n]
            BY <1>1, <3>2
        <3> QED BY <1>1, <3>1, <3>2, <3>3
    <2> HIDE DEF P
    <2> QED BY <2>1, <2>2, <2>3
<1>3. A \in SUBSET DOMAIN a /\ B \in SUBSET DOMAIN b
    OBVIOUS
<1>4. Where(a, conds) = Picked(a, A) /\ Where(b, conds) = Picked(b, B) /\ Where(s, conds) = Picked(s, P(s))
    BY DEF Where
<1> HIDE DEF P, A, B
<1>5. Picked(s, A \cup {n + l : n \in B}) = Picked(a, A) \o Picked(b, B)
    <2>1. Picked(a \o b, Both(A, B, Len(a))) = Picked(a, A) \o Picked(b, B)
        BY <1>3, PickedOfConcat
    <2> QED
        BY <2>1 DEF s, l, Both
<1> QED
    BY <1>2, <1>4, <1>5 DEF s

(* Pages *)

LEMMA PageType ==
    ASSUME NEW V, NEW s \in Seq(V), NEW skip \in Nat, NEW limit \in Int
    PROVE  Page(s, skip, limit) \in Seq(V)
<1> DEFINE m == skip + 1
           n == IF limit >= 0 /\ skip + limit < Len(s) THEN skip + limit ELSE Len(s)
<1>1. Len(s) \in Nat
    BY LenProperties
<1>2. m \in Int /\ n \in Int /\ n <= Len(s) /\ m >= 1
    BY <1>1
<1> HIDE DEF m, n
<1>3. ASSUME NEW i \in m..n PROVE s[i] \in V
    <2>1. i \in 1..Len(s)
        BY <1>1, <1>2
    <2> QED BY <2>1, ElementOfSeq
<1>4. SubSeq(s, m, n) \in Seq(V)
    BY <1>2, <1>3, SubSeqProperties
<1> QED
    BY <1>4 DEF Page, m, n

LEMMA PageOfAll ==
    ASSUME NEW V, NEW s \in Seq(V)
    PROVE  Page(s, 0, -1) = s
<1>1. Page(s, 0, -1) = SubSeq(s, 0 + 1, Len(s)) /\ 0 + 1 = 1
    BY DEF Page
<1>2. Page(s, 0, -1) = SubSeq(s, 1, Len(s))
    BY <1>1
<1> QED
    BY <1>2, SubSeqFull

(* What comes before a page, the page and what comes after it. *)
LEMMA ThreePages ==
    ASSUME NEW V, NEW s \in Seq(V), NEW k \in Nat, NEW l \in Nat
    PROVE  Page(s, 0, k) \o Page(s, k, l) \o Page(s, k + l, -1) = s
<1> DEFINE n == Len(s)
           d == IF k < n THEN k ELSE n
           e == IF k + l < n THEN k + l ELSE n
<1>1. n \in Nat
    BY LenProperties
<1>2. d \in 0..n /\ e \in d..n
    BY <1>1
<1>3. Page(s, 0, k) = SubSeq(s, 1, d)
    <2>1. 0 + k = k /\ 0 + 1 = 1 /\ k >= 0
        OBVIOUS
    <2> QED BY <2>1 DEF Page
<1>4. Page(s, k, l) = SubSeq(s, d + 1, e)
    <2>1. Page(s, k, l) = SubSeq(s, k + 1, e)
        BY DEF Page
    <2>2. CASE k < n
        BY <2>1, <2>2
    <2>3. CASE ~(k < n)
        <3>1. e = n /\ n < k + 1 /\ n < d + 1 /\ d + 1 \in Int /\ k + 1 \in Int /\ n \in Int
            BY <1>1, <2>3
        <3> HIDE DEF n, d, e
        <3>2. SubSeq(s, k + 1, n) = << >> /\ SubSeq(s, d + 1, n) = << >>
            BY <3>1, SubSeqEmpty
        <3> QED BY <2>1, <3>1, <3>2
    <2> QED BY <2>2, <2>3
<1>5. Page(s, k + l, -1) = SubSeq(s, e + 1, n)
    <2>1. Page(s, k + l, -1) = SubSeq(s, (k + l) + 1, n)
        BY DEF Page
    <2>2. CASE k + l < n
        BY <2>1, <2>2
    <2>3. CASE ~(k + l < n)
        <3>1. e = n /\ n < (k + l) + 1 /\ n < e + 1 /\ e + 1 \in Int /\ (k + l) + 1 \in Int /\ n \in Int
            BY <1>1, <2>3
        <3> HIDE DEF n, d, e
        <3>2. SubSeq(s, (k + l) + 1, n) = << >> /\ SubSeq(s, e + 1, n) = << >>
            BY <3>1, SubSeqEmpty
        <3> QED BY <2>1, <3>2
    <2> QED BY <2>2, <2>3
<1> HIDE DEF d, e
<1>6. SubSeq(s, 1, d) \o SubSeq(s, d + 1, e) = SubSeq(s, 1, e)
    <2>1. 1 \in 1..(n + 1) /\ d \in 1 - 1..n /\ e \in d..n
        BY <1>1, <1>2
    <2> QED BY <2>1, ConcatAdjacentSubSeq DEF n
<1>7. SubSeq(s, 1, e) \o SubSeq(s, e + 1, n) = SubSeq(s, 1, n)
    <2>1. 1 \in 1..(n + 1) /\ e \in 1 - 1..n /\ n \in e..n
        BY <1>1, <1>2
    <2> QED BY <2>1, ConcatAdjacentSubSeq DEF n
<1>8. SubSeq(s, 1, n) = s
    BY SubSeqFull DEF n
<1> QED
    BY <1>3, <1>4, <1>5, <1>6, <1>7, <1>8

-----------------------------------------------------------------------------
(* The pipeline's steps *)

(* The members of a sequence, each turned into another.                     *)
Mapped(f, s) == [n \in DOMAIN s |-> f[s[n]]]

LEMMA MappedType ==
    ASSUME NEW V, NEW W, NEW f, \A x \in V : f[x] \in W, NEW s \in Seq(V)
    PROVE  Mapped(f, s) \in Seq(W) /\ Len(Mapped(f, s)) = Len(s)
<1>1. Len(s) \in Nat /\ DOMAIN s = 1..Len(s) /\ \A n \in 1..Len(s) : s[n] \in V
    BY LenProperties, ElementOfSeq
<1>2. Mapped(f, s) \in [1..Len(s) -> W]
    BY <1>1 DEF Mapped
<1> QED
    BY <1>1, <1>2, IntervalSeq

LEMMA MappedOfConcat ==
    ASSUME NEW V, NEW f, NEW a \in Seq(V), NEW b \in Seq(V)
    PROVE  Mapped(f, a \o b) = Mapped(f, a) \o Mapped(f, b)
<1> DEFINE W == {f[x] : x \in V}
           s == a \o b
           l == Len(a)
           m == Len(b)
           x == Mapped(f, a)
           y == Mapped(f, b)
           z == Mapped(f, s)
<1>1. s \in Seq(V) /\ Len(s) = l + m /\ l \in Nat /\ m \in Nat
      /\ DOMAIN a = 1..l /\ DOMAIN b = 1..m
    BY ConcatProperties, LenProperties
<1>2. \A n \in 1..(l + m) : s[n] = IF n <= l THEN a[n] ELSE b[n - l]
    BY ConcatProperties
<1> HIDE DEF s, l, m
<1>3. DOMAIN s = 1..(l + m)
    BY <1>1, LenProperties
<1>4. x \in Seq(W) /\ Len(x) = l /\ y \in Seq(W) /\ Len(y) = m /\ z \in Seq(W) /\ Len(z) = l + m
    <2>1. \A v \in V : f[v] \in W
        OBVIOUS
    <2> HIDE DEF W
    <2> QED
        BY <1>1, <2>1, MappedType DEF l, m
<1> HIDE DEF W
<1>5. /\ \A n \in 1..l : x[n] = f[a[n]]
      /\ \A n \in 1..m : y[n] = f[b[n]]
      /\ \A n \in 1..(l + m) : z[n] = f[s[n]]
    BY <1>1, <1>3 DEF Mapped
<1> HIDE DEF x, y, z
<1>6. x \o y \in Seq(W) /\ Len(x \o y) = l + m
      /\ \A n \in 1..(l + m) : (x \o y)[n] = IF n <= l THEN x[n] ELSE y[n - l]
    BY <1>4, ConcatProperties
<1>7. ASSUME NEW n \in 1..(l + m) PROVE z[n] = (x \o y)[n]
    <2>1. CASE n <= l
        <3>1. n \in 1..l
            BY <1>1, <2>1
        <3>2. s[n] = a[n] /\ (x \o y)[n] = x[n]
            BY <1>2, <1>6, <2>1
        <3>3. z[n] = f[s[n]] /\ x[n] = f[a[n]]
            BY <1>5, <3>1
        <3> QED BY <3>2, <3>3
    <2>2. CASE ~(n <= l)
        <3>1. n - l \in 1..m
            BY <1>1, <2>2
        <3>2. s[n] = b[n - l] /\ (x \o y)[n] = y[n - l]
            BY <1>2, <1>6, <2>2
        <3>3. z[n] = f[s[n]] /\ y[n - l] = f[b[n - l]]
            BY <1>5, <3>1
        <3> QED BY <3>2, <3>3
    <2> QED BY <2>1, <2>2
<1>8. z = x \o y
    BY <1>4, <1>6, <1>7, SeqEqual
<1> QED
    BY <1>8 DEF x, y, z, s

Joins(f, d, q, r) ==
    /\ f[0] = r
    /\ \A i \in 1..Len(q.joins) : f[i] = JoinedTo(d, f[i - 1], q.joins[i])
    /\ f[Len(q.joins)] = Joined(d, q, r)

(* The tables joined one after the other.                                   *)
LEMMA JoinedInOrder ==
    ASSUME NEW d, NEW q, NEW V, NEW r \in V, NEW J, q.joins \in Seq(J),
           \A v \in V : \A j \in J : JoinedTo(d, v, j) \in V
    PROVE  \E f \in [0..Len(q.joins) -> V] : Joins(f, d, q, r)
<1> DEFINE ls == q.joins
           n == Len(ls)
           S == 1..n
           pick == LastOf(n)
           G == [a \in S \X V |-> JoinedTo(d, a[2], ls[a[1]])]
           Step(f, s) == IF s = {} THEN r ELSE JoinedTo(d, f[s \ {Max(s)}], ls[Max(s)])
           P(f) == f = [s \in SUBSET S |-> Step(f, s)]
           F == CHOOSE f : P(f)
<1>1. n \in Nat /\ DOMAIN ls = S /\ \A i \in S : ls[i] \in J
    BY LenProperties
<1>2. \A s \in (SUBSET S) \ {{}} : pick[s] = Max(s) /\ Max(s) \in s /\ \A i \in s : i <= Max(s)
    BY <1>1, LastOfNumbers DEF LastOf
<1>3. Picks(pick, S)
    BY <1>1, LastPicks
<1>4. G \in [S \X V -> V]
    BY <1>1
<1>5. PICK f \in [SUBSET S -> V] : Folds(f, S, pick, r, G)
    <2> HIDE DEF S, pick, G
    <2> QED
        BY <1>3, <1>4, FoldExists
<1>6. P(f)
    <2>1. ASSUME NEW s \in SUBSET S PROVE f[s] = Step(f, s)
        <3>1. CASE s # {}
            <4>1. pick[s] = Max(s) /\ Max(s) \in S /\ f[s \ {Max(s)}] \in V
                BY <1>2, <3>1
            <4>2. f[s] = G[<<Max(s), f[s \ {Max(s)}]>>]
                BY <1>5, <3>1, <4>1 DEF Folds
            <4> QED
                BY <3>1, <4>1, <4>2
        <3> QED
            BY <1>5, <3>1 DEF Folds
    <2> HIDE DEF Step
    <2> QED
        BY <2>1
<1>7. P(F)
    <2> HIDE DEF P
    <2> QED BY <1>6
<1>8. Joined(d, q, r) = F[S]
    BY <1>1 DEF Joined, FoldLeft, MapThenFoldSet
<1> HIDE DEF F, ls
<1>9. F[{}] = r
    BY <1>7
<1>10. ASSUME NEW i \in S
       PROVE  F[1..i] = JoinedTo(d, F[1..(i - 1)], ls[i])
    <2>1. 1..i \in (SUBSET S) \ {{}} /\ (1..i) \ {i} = 1..(i - 1) /\ Max(1..i) = i
        BY <1>1, FirstNumbers
    <2>3. F[1..i] = Step(F, 1..i)
        <3> HIDE DEF Step
        <3> QED BY <1>7, <2>1
    <2> QED
        BY <2>1, <2>3
<1> DEFINE f2 == [i \in 0..n |-> F[1..i]]
           T == {i \in 0..n : f2[i] \in V}
           size == [i \in 0..n |-> i]
<1>11. f2[0] = r /\ \A i \in 1..n : f2[i] = JoinedTo(d, f2[i - 1], ls[i])
    <2>1. 1..0 = {} /\ 0 \in 0..n
        BY <1>1
    <2>2. f2[0] = r
        BY <1>9, <2>1
    <2>3. ASSUME NEW i \in 1..n PROVE f2[i] = JoinedTo(d, f2[i - 1], ls[i])
        <3>1. i \in 0..n /\ i - 1 \in 0..n
            BY <1>1
        <3> QED
            BY <1>10, <3>1
    <2> QED
        BY <2>2, <2>3
<1>12. f2 \in [0..n -> V]
    <2>1. ASSUME NEW i \in 0..n, \A j \in 0..n : size[j] < size[i] => j \in T
          PROVE  i \in T
        <3>1. CASE i = 0
            BY <1>11, <3>1
        <3>2. CASE i # 0
            <4>1. i - 1 \in 0..n /\ size[i - 1] < size[i] /\ i \in 1..n
                BY <1>1, <3>2
            <4>2. f2[i - 1] \in V
                BY <2>1, <4>1
            <4>3. f2[i] = JoinedTo(d, f2[i - 1], ls[i]) /\ ls[i] \in J
                BY <1>1, <1>11, <4>1
            <4> HIDE DEF f2
            <4> QED
                BY <4>2, <4>3
        <3> QED
            BY <3>1, <3>2
    <2>2. size \in [0..n -> Nat]
        BY <1>1
    <2>3. 0..n \subseteq T
        <3> DEFINE D == 0..n
        <3>1. size \in [D -> Nat] /\ \A i \in D : (\A j \in D : size[j] < size[i] => j \in T) => i \in T
            BY <2>1, <2>2
        <3> HIDE DEF size, T, D
        <3>2. D \subseteq T
            BY <3>1, InductionBySize
        <3> QED
            BY <3>2 DEF D
    <2> QED
        BY <2>3
<1>13. f2[n] = F[S] /\ n \in 0..n
    BY <1>1
<1> HIDE DEF f2
<1>14. Joins(f2, d, q, r)
    BY <1>8, <1>11, <1>13 DEF Joins, ls
<1> QED
    BY <1>12, <1>14 DEF ls

-----------------------------------------------------------------------------
(* What an answer is *)

Rows == UNION {[C -> Nat \cup {Empty}] : C \in SUBSET STRING}

LEMMA RowsOfTable ==
    ASSUME NEW s, IsTable(s)
    PROVE  s \in Seq(Rows)
<1>1. \A n \in DOMAIN s : s[n] \in Rows
    BY DEF IsTable, IsRow, Rows
<1>2. Range(s) \subseteq Rows
    BY <1>1 DEF Range
<1> QED
    BY <1>2, SeqMonotonic DEF IsTable

LEMMA TablesAreRows ==
    ASSUME NEW d \in Databases, NEW t
    PROVE  Table(d, t) \in Seq(Rows)
<1>1. CASE t \in DOMAIN d.tables
    <2> DEFINE s == d.tables[t]
    <2>1. IsTable(s)
        BY <1>1, DatabaseAssumption
    <2> HIDE DEF s
    <2>2. s \in Seq(Rows)
        BY <2>1, RowsOfTable
    <2> QED
        BY <1>1, <2>2 DEF Table, s
<1>2. CASE t \notin DOMAIN d.tables
    BY <1>2, EmptySeq DEF Table
<1> QED
    BY <1>1, <1>2

(* The tables of the time when the indices were built, and where their rows *)
(* are now.                                                                 *)
LEMMA BuiltAreRows ==
    ASSUME NEW d \in Databases, NEW t
    PROVE  /\ Built(d, t) \in Seq(Rows)
           /\ \A n \in DOMAIN Built(d, t) : d.kept[t][n] \in 0..Len(Table(d, t))
<1>1. CASE t \in DOMAIN d.built
    <2>1. t \in DOMAIN d.tables /\ IsTable(d.built[t])
        BY <1>1, DatabaseAssumption
    <2>2. d.kept[t] \in [DOMAIN d.built[t] -> 0..Len(d.tables[t])]
        BY <1>1, DatabaseAssumption
    <2> DEFINE s == d.built[t]
    <2>3. Built(d, t) = s /\ Table(d, t) = d.tables[t]
        BY <1>1, <2>1 DEF Built, Table
    <2>4. IsTable(s)
        BY <2>1
    <2> HIDE DEF s
    <2>5. s \in Seq(Rows)
        BY <2>4, RowsOfTable
    <2>6. \A n \in DOMAIN s : d.kept[t][n] \in 0..Len(d.tables[t])
        BY <2>2 DEF s
    <2> QED
        BY <2>3, <2>5, <2>6
<1>2. CASE t \notin DOMAIN d.built
    BY <1>2, EmptySeq DEF Built
<1> QED
    BY <1>1, <1>2

(* The last answer was given by one of the two paths.                       *)
SelectInv ==
    /\ db \in Databases
    /\ query = NoQuery \/ query \in Queries
    /\ query # NoQuery => \/ answer \in Generic(db, query)
                          \/ /\ PushesOrder(query) /\ HasIndex(db, query.table, query.order)
                             /\ answer = Indexed(db, query)

LEMMA SelectInvHolds == Spec => []SelectInv
<1>1. Init => SelectInv
    BY DEF Init, SelectInv
<1>2. ASSUME SelectInv, [Next]_vars
      PROVE  SelectInv'
    <2>1. ASSUME NEW q \in Queries, SelectGeneric(q)
          PROVE  SelectInv'
        BY <1>2, <2>1 DEF SelectGeneric, SelectInv
    <2>2. ASSUME NEW q \in Queries, SelectIndexed(q)
          PROVE  SelectInv'
        BY <1>2, <2>2 DEF SelectIndexed, SelectInv
    <2>3. CASE UNCHANGED vars
        BY <1>2, <2>3 DEF SelectInv, vars
    <2> QED
        BY <1>2, <2>1, <2>2, <2>3 DEF Next
<1> QED
    BY <1>1, <1>2, PTL DEF Spec

(* Without JOIN, GROUP BY and COUNT the rows go through filter and          *)
(* projection one by one.                                                   *)
Shown(q, rows) == Projected(q, Filtered(q, rows))

LEMMA ShownOfConcat ==
    ASSUME NEW V, NEW a \in Seq(V), NEW b \in Seq(V), NEW q
    PROVE  Shown(q, a \o b) = Shown(q, a) \o Shown(q, b)
<1>0. \A f : \A s, t \in Seq(V) : Mapped(f, s \o t) = Mapped(f, s) \o Mapped(f, t)
    BY MappedOfConcat
<1> DEFINE K == {c.key : c \in PostConds(q)}
           T == [r \in V |-> Touch(r, K)]
           W == {Touch(r, K) : r \in V}
           P == [r \in W |-> [c \in q.cols |-> Field(r, c)]]
           X == {[c \in q.cols |-> Field(r, c)] : r \in W}
<1>1. T \in [V -> W] /\ P \in [W -> X]
    OBVIOUS
<1>2. ASSUME NEW s \in Seq(V)
      PROVE  /\ Where(s, PostConds(q)) \in Seq(V)
             /\ Filtered(q, s) = Mapped(T, Where(s, PostConds(q)))
             /\ Filtered(q, s) \in Seq(W)
    <2> DEFINE kept == Where(s, PostConds(q))
    <2>1. kept \in Seq(V)
        BY WhereType
    <2>2. Filtered(q, s) = [n \in DOMAIN kept |-> Touch(kept[n], K)]
        BY DEF Filtered
    <2> HIDE DEF kept
    <2>3. \A n \in DOMAIN kept : kept[n] \in V
        BY <2>1, LenProperties, ElementOfSeq
    <2>4. Filtered(q, s) = Mapped(T, kept)
        BY <2>2, <2>3 DEF Mapped
    <2> HIDE DEF T, W
    <2>5. Mapped(T, kept) \in Seq(W)
        BY <1>1, <2>1, MappedType
    <2> QED
        BY <2>1, <2>4, <2>5 DEF kept
<1>3. Filtered(q, a \o b) = Filtered(q, a) \o Filtered(q, b)
    <2> HIDE DEF T, W, P, X
    <2>1. a \o b \in Seq(V)
        BY ConcatProperties
    <2>2. Where(a \o b, PostConds(q)) = Where(a, PostConds(q)) \o Where(b, PostConds(q))
        BY WhereOfConcat
    <2>3. Where(a, PostConds(q)) \in Seq(V) /\ Where(b, PostConds(q)) \in Seq(V)
        BY <1>2
    <2>4. Mapped(T, Where(a, PostConds(q)) \o Where(b, PostConds(q)))
              = Mapped(T, Where(a, PostConds(q))) \o Mapped(T, Where(b, PostConds(q)))
        BY <1>0, <2>3
    <2> QED
        BY <1>2, <2>1, <2>2, <2>4
<1>4. ASSUME NEW s \in Seq(W), q.cols # {"*"}
      PROVE  Projected(q, s) = Mapped(P, s)
    <2>1. \A n \in DOMAIN s : s[n] \in W
        <3> HIDE DEF W
        <3> QED BY LenProperties, ElementOfSeq
    <2>2. Projected(q, s) = [n \in DOMAIN s |-> [c \in q.cols |-> Field(s[n], c)]]
        BY <1>4 DEF Projected
    <2>3. \A n \in DOMAIN s : P[s[n]] = [c \in q.cols |-> Field(s[n], c)]
        BY <2>1
    <2> HIDE DEF P
    <2> QED
        BY <2>2, <2>3 DEF Mapped
<1>5. CASE q.cols = {"*"}
    BY <1>3, <1>5 DEF Shown, Projected
<1>6. CASE q.cols # {"*"}
    <2> DEFINE x == Filtered(q, a)
               y == Filtered(q, b)
    <2>1. x \in Seq(W) /\ y \in Seq(W) /\ x \o y \in Seq(W)
        <3> HIDE DEF W
        <3> QED BY <1>2, ConcatProperties
    <2> HIDE DEF x, y, T, W, P, X
    <2>2. Mapped(P, x \o y) = Mapped(P, x) \o Mapped(P, y)
        BY <1>1, <2>1, MappedOfConcat
    <2>3. Projected(q, x \o y) = Projected(q, x) \o Projected(q, y)
        BY <1>4, <1>6, <2>1, <2>2
    <2> QED
        BY <1>3, <2>3 DEF Shown, x, y
<1> QED
    BY <1>5, <1>6

LEMMA NothingJoined ==
    ASSUME NEW d, NEW q, q.joins = << >>, NEW rows
    PROVE  Joined(d, q, rows) = rows
<1> DEFINE V == {rows}
           J == {}
<1>1. q.joins \in Seq(J) /\ Len(q.joins) = 0
    BY EmptySeq
<1>2. rows \in V /\ \A v \in V : \A j \in J : JoinedTo(d, v, j) \in V
    OBVIOUS
<1> HIDE DEF V, J
<1>3. PICK f \in [0..Len(q.joins) -> V] : Joins(f, d, q, rows)
    BY <1>1, <1>2, JoinedInOrder
<1> QED
    BY <1>1, <1>3 DEF Joins

LEMMA PlainSelect ==
    ASSUME NEW d, NEW q, ~Aggregates(q), q.order = NoName
    PROVE  Generic(d, q) = {Shown(q, Scan(Table(d, q.table), BaseConds(q), q.skip, q.limit))}
<1> DEFINE base == Scan(Table(d, q.table), BaseConds(q), q.skip, q.limit)
<1>1. q.joins = << >> /\ q.group = NoName
    BY DEF Aggregates
<1>2. Joined(d, q, base) = base
    BY <1>1, NothingJoined
<1>3. Sorted(q, Shown(q, base)) = {Shown(q, base)}
    BY DEF Sorted
<1> HIDE DEF base
<1>4. Generic(d, q) = {s : s \in Sorted(q, Shown(q, base))}
    BY <1>1, <1>2 DEF Generic, base, Shown
<1> QED
    BY <1>3, <1>4 DEF base
-----------------------------------------------------------------------------
(* Pages of a query *)

(* The same query for another page. *)
Repaged(q, k, l) == [q EXCEPT !.skip = k, !.limit = l]

LEMMA RepagedFields ==
    ASSUME NEW q, IsQuery(q), NEW k, NEW l
    PROVE  LET r == Repaged(q, k, l)
           IN  /\ r.table = q.table /\ r.joins = q.joins /\ r.conds = q.conds
               /\ r.cols = q.cols /\ r.group = q.group /\ r.count = q.count
               /\ r.order = q.order /\ r.skip = k /\ r.limit = l
               /\ r.sums = q.sums /\ r.desc = q.desc
  BY DEF IsQuery, Repaged

LEMMA RepagedIsSame ==
    ASSUME NEW q, IsQuery(q), NEW k, NEW l
    PROVE  /\ Aggregates(Repaged(q, k, l)) <=> Aggregates(q)
           /\ BaseConds(Repaged(q, k, l)) = BaseConds(q)
           /\ \A rows : Shown(Repaged(q, k, l), rows) = Shown(q, rows)
<1> DEFINE r == Repaged(q, k, l)
<1>1. /\ r.table = q.table /\ r.joins = q.joins /\ r.conds = q.conds
      /\ r.cols = q.cols /\ r.group = q.group /\ r.count = q.count
    BY RepagedFields
<1> HIDE DEF r
<1>2. Aggregates(r) <=> Aggregates(q)
    BY <1>1 DEF Aggregates
<1>3. BaseConds(r) = BaseConds(q)
    BY <1>1 DEF BaseConds
<1>4. PostConds(r) = PostConds(q)
    BY <1>1, <1>3 DEF PostConds
<1>5. ASSUME NEW rows PROVE Shown(r, rows) = Shown(q, rows)
    <2>1. Filtered(r, rows) = Filtered(q, rows)
        BY <1>4 DEF Filtered
    <2> QED
        BY <1>1, <2>1 DEF Shown, Projected
<1> QED
    BY <1>2, <1>3, <1>5 DEF r

(* Every page of a plain query is the part of its table's matching rows,    *)
(* shown row by row.                                                        *)
LEMMA PageOfQuery ==
    ASSUME NEW d, NEW q, IsQuery(q), ~Aggregates(q), q.order = NoName, NEW k, NEW l
    PROVE  Generic(d, Repaged(q, k, l))
               = {Shown(q, Page(Where(Table(d, q.table), BaseConds(q)), k, IF l > 0 THEN l ELSE -1))}
<1> DEFINE r == Repaged(q, k, l)
<1>1. /\ r.table = q.table /\ r.order = q.order /\ r.skip = k /\ r.limit = l
    BY RepagedFields
<1>2. /\ ~Aggregates(r) /\ BaseConds(r) = BaseConds(q)
      /\ \A rows : Shown(r, rows) = Shown(q, rows)
    BY RepagedIsSame
<1> HIDE DEF r
<1>3. Generic(d, r) = {Shown(r, Scan(Table(d, r.table), BaseConds(r), r.skip, r.limit))}
    BY <1>1, <1>2, PlainSelect
<1> QED
    BY <1>1, <1>2, <1>3 DEF Scan, r

(* The pages of a SELECT without ORDER BY tile its answer. *)
THEOREM PagesTileHolds == Spec => []PagesTile
<1>1. ASSUME SelectInv PROVE PagesTile
    <2> DEFINE q == query
               k == query.skip
               l == query.limit
               s == Where(Table(db, q.table), BaseConds(q))
               front == [q EXCEPT !.skip = 0, !.limit = k]
               back  == [q EXCEPT !.skip = k + l, !.limit = -1]
    <2>1. SUFFICES ASSUME q # NoQuery, q.order = NoName, ~Aggregates(q), k > 0, l > 0
                   PROVE  Only(Generic(db, front)) \o answer \o Only(Generic(db, back))
                              = Only(Generic(db, Unpaged(q)))
        BY DEF PagesTile
    <2>2. q \in Queries /\ db \in Databases /\ answer \in Generic(db, q)
        BY <1>1, <2>1 DEF SelectInv, PushesOrder
    <2>3. IsQuery(q) /\ k \in Nat /\ l \in Nat
        <3>1. IsQuery(q)
            BY <2>2, QueryAssumption
        <3>2. k \in Nat /\ l \in Nat \cup {-1}
            BY <3>1 DEF IsQuery
        <3> QED
            BY <2>1, <3>1, <3>2
    <2>4. s \in Seq(Rows)
        <3>1. Table(db, q.table) \in Seq(Rows)
            BY <2>2, TablesAreRows
        <3> QED
            BY <3>1, WhereType
    <2>5. front = Repaged(q, 0, k) /\ back = Repaged(q, k + l, -1) /\ Unpaged(q) = Repaged(q, 0, -1)
        BY DEF Repaged, Unpaged
    <2>6. q = Repaged(q, k, l)
        BY <2>3 DEF Repaged, IsQuery
    <2> DEFINE Part(i, n) == Shown(q, Page(s, i, n))
    <2>7. \A i, n : Generic(db, Repaged(q, i, n)) = {Part(i, IF n > 0 THEN n ELSE -1)}
        <3> SUFFICES ASSUME NEW i, NEW n
                     PROVE  Generic(db, Repaged(q, i, n)) = {Part(i, IF n > 0 THEN n ELSE -1)}
            OBVIOUS
        <3> QED
            BY <2>1, <2>3, PageOfQuery
    <2> HIDE DEF q, k, l, s, front, back
    <2>8. /\ Generic(db, front) = {Part(0, k)}
          /\ Generic(db, q) = {Part(k, l)}
          /\ Generic(db, back) = {Part(k + l, -1)}
          /\ Generic(db, Unpaged(q)) = {Part(0, -1)}
        <3>1. ~(-1 > 0) /\ k > 0 /\ l > 0
            BY <2>1
        <3> HIDE DEF Part
        <3> QED
            BY <2>5, <2>6, <2>7, <3>1
    <2>9. \A x : Only({x}) = x
        BY DEF Only
    <2>10. Part(0, k) \o Part(k, l) \o Part(k + l, -1) = Part(0, -1)
        <3> DEFINE x == Page(s, 0, k)
                   y == Page(s, k, l)
                   z == Page(s, k + l, -1)
        <3>1. x \in Seq(Rows) /\ y \in Seq(Rows) /\ z \in Seq(Rows)
            <4>1. k + l \in Nat /\ k \in Int /\ l \in Int /\ -1 \in Int /\ 0 \in Nat
                BY <2>3
            <4> QED
                BY <2>3, <2>4, <4>1, PageType
        <3>2. x \o y \o z = s
            BY <2>3, <2>4, ThreePages
        <3>3. Page(s, 0, -1) = s
            BY <2>4, PageOfAll
        <3> HIDE DEF x, y, z
        <3>4. x \o y \in Seq(Rows)
            BY <3>1, ConcatProperties
        <3>5. Shown(q, x \o y) = Shown(q, x) \o Shown(q, y)
            BY <3>1, ShownOfConcat
        <3>6. Shown(q, x \o y \o z) = Shown(q, x \o y) \o Shown(q, z)
            BY <3>1, <3>4, ShownOfConcat
        <3> QED
            BY <3>2, <3>3, <3>5, <3>6 DEF x, y, z
    <2> HIDE DEF Part
    <2>11. answer = Part(k, l)
        BY <2>2, <2>8 DEF q
    <2> QED
        BY <2>8, <2>9, <2>10, <2>11
<1> QED
    BY <1>1, SelectInvHolds, PTL

-----------------------------------------------------------------------------
(* The shortcut *)

LEMMA AllNumbers ==
    ASSUME NEW n \in Nat
    PROVE  Cardinality(1..n) = n /\ \A i \in 1..n : NumbersOf(1..n)[i] = i
<1> DEFINE S == 1..n
<1>1. ASSUME NEW i \in Nat PROVE IsFiniteSet(1..i) /\ Cardinality(1..i) = i
    <2>1. i \in Int /\ 1 \in Int /\ (1 > i => i = 0) /\ i - 1 + 1 = i
        OBVIOUS
    <2> QED
        BY <2>1, FS_Interval
<1>2. ASSUME NEW i \in S PROVE NumbersOf(S)[i] = i
    <2>1. {y \in S : y < i} = 1..(i - 1) /\ i - 1 \in Nat /\ (i - 1) + 1 = i
        OBVIOUS
    <2>2. Cardinality({y \in S : y < i}) = i - 1
        BY <1>1, <2>1
    <2>3. S \in SUBSET Nat /\ IsFiniteSet(S)
        BY <1>1
    <2>4. NumbersOf(S)[Cardinality({y \in S : y < i}) + 1] = i
        <3> HIDE DEF S
        <3> QED BY <2>3, NumbersByRank
    <2> QED
        BY <2>1, <2>2, <2>4
<1> QED
    BY <1>1, <1>2

LEMMA WhereOfNone ==
    ASSUME NEW V, NEW s \in Seq(V)
    PROVE  Where(s, {}) = s
<1> DEFINE n == Len(s)
           P == {i \in DOMAIN s : Matches(s[i], {})}
<1>1. n \in Nat /\ DOMAIN s = 1..n /\ s \in [1..n -> V]
    BY LenProperties
<1>2. P = 1..n
    BY <1>1 DEF Matches
<1>3. Where(s, {}) = Picked(s, P)
    BY DEF Where
<1> HIDE DEF n, P
<1>4. Picked(s, 1..n) = [i \in 1..Cardinality(1..n) |-> s[NumbersOf(1..n)[i]]]
    BY DEF Picked, InOrder, NumbersOf
<1>5. Cardinality(1..n) = n /\ \A i \in 1..n : NumbersOf(1..n)[i] = i
    BY <1>1, AllNumbers
<1> QED
    BY <1>1, <1>2, <1>3, <1>4, <1>5

LEMMA TouchNothing ==
    ASSUME NEW row \in Rows, NEW C \in SUBSET DOMAIN row
    PROVE  Touch(row, C) = row
  BY DEF Touch, Extend, Rows

(* Different values have different places in the order of strings. *)
LEMMA LexicalOrder ==
    ASSUME NEW v \in Nat \cup {Empty}, NEW w \in Nat \cup {Empty}
    PROVE  /\ Lexical(v) \in Int
           /\ Lexical(v) = Lexical(w) => v = w
<1>1. ASSUME NEW x \in Nat \cup {Empty}
      PROVE  \/ x = Empty /\ Lexical(x) = -1
             \/ x \in Nat /\ x < 10 /\ Lexical(x) = 11 * x
             \/ \E a \in Nat : \E b \in 0..9 : x = 10 * a + b /\ a >= 1 /\ Lexical(x) = 11 * a + 1 + b
    <2>1. CASE x = Empty
        BY <2>1 DEF Lexical
    <2>2. CASE x \in Nat /\ x < 10
        BY <2>2 DEF Lexical, Empty
    <2>3. CASE x \in Nat /\ ~(x < 10)
        <3> DEFINE a == x \div 10
                   b == x % 10
        <3>1. a \in Nat /\ b \in 0..9 /\ x = 10 * a + b /\ a >= 1
            BY <2>3
        <3>2. Lexical(x) = 11 * a + 1 + b
            BY <2>3 DEF Lexical, Empty
        <3> HIDE DEF a, b
        <3> QED
            BY <3>1, <3>2
    <2> QED
        BY <2>1, <2>2, <2>3
<1> DEFINE l == Lexical(v)
           m == Lexical(w)
<1>2. \/ v = Empty /\ l = -1
      \/ v \in Nat /\ v < 10 /\ l = 11 * v
      \/ \E a \in Nat : \E b \in 0..9 : v = 10 * a + b /\ a >= 1 /\ l = 11 * a + 1 + b
    BY <1>1
<1>3. \/ w = Empty /\ m = -1
      \/ w \in Nat /\ w < 10 /\ m = 11 * w
      \/ \E a \in Nat : \E b \in 0..9 : w = 10 * a + b /\ a >= 1 /\ m = 11 * a + 1 + b
    BY <1>1
<1> HIDE DEF l, m
<1> QED
    BY <1>2, <1>3 DEF l, m, Empty

LEMMA CellType ==
    ASSUME NEW row \in Rows, NEW c \in DOMAIN row
    PROVE  row[c] \in Nat \cup {Empty}
<1>1. PICK C \in SUBSET STRING : row \in [C -> Nat \cup {Empty}]
    BY DEF Rows
<1> QED
    BY <1>1

(* The entries of an index, in the order of its multimap. *)
Earlier(s, c, m, n) ==
    \/ Lexical(s[m][c]) < Lexical(s[n][c])
    \/ s[m][c] = s[n][c] /\ m < n

Before(s, c) == {p \in (DOMAIN s) \X (DOMAIN s) : Earlier(s, c, p[1], p[2])}

Column(s, c) == \A n \in DOMAIN s : c \in DOMAIN s[n]

LEMMA EntriesOrdered ==
    ASSUME NEW s \in Seq(Rows), NEW c, Column(s, c)
    PROVE  IsOrder(Before(s, c), DOMAIN s)
<1> DEFINE S == DOMAIN s
           L == [n \in S |-> Lexical(s[n][c])]
           R == Before(s, c)
<1>1. \A n \in S : n \in Nat /\ s[n][c] \in Nat \cup {Empty}
    <2>1. \A n \in S : n \in Nat /\ s[n] \in Rows /\ c \in DOMAIN s[n]
        BY LenProperties, ElementOfSeq DEF Column
    <2> QED
        BY <2>1, CellType
<1>2. \A n \in S : L[n] \in Int
    BY <1>1, LexicalOrder
<1>3. \A m, n \in S : L[m] = L[n] <=> s[m][c] = s[n][c]
    BY <1>1, LexicalOrder
<1>4. \A m, n \in S : <<m, n>> \in R <=> (L[m] < L[n] \/ (s[m][c] = s[n][c] /\ m < n))
    BY DEF Before, Earlier
<1> HIDE DEF R, L, S
<1>5. \A m, n \in S : <<m, n>> \in R <=> (L[m] < L[n] \/ (L[m] = L[n] /\ m < n))
    <2> SUFFICES ASSUME NEW m \in S, NEW n \in S
                 PROVE  <<m, n>> \in R <=> (L[m] < L[n] \/ (L[m] = L[n] /\ m < n))
        OBVIOUS
    <2>1. L[m] = L[n] <=> s[m][c] = s[n][c]
        BY <1>3
    <2>2. <<m, n>> \in R <=> (L[m] < L[n] \/ (s[m][c] = s[n][c] /\ m < n))
        BY <1>4
    <2> QED
        BY <2>1, <2>2
<1>6. \A n \in S : n \in Nat /\ L[n] \in Int
    BY <1>1, <1>2
<1>7. \A x \in S : <<x, x>> \notin R
    BY <1>5, <1>6
<1>8. \A x, y, z \in S : <<x, y>> \in R /\ <<y, z>> \in R => <<x, z>> \in R
    BY <1>5, <1>6
<1>9. \A x, y \in S : x = y \/ <<x, y>> \in R \/ <<y, x>> \in R
    <2> SUFFICES ASSUME NEW x \in S, NEW y \in S
                 PROVE  x = y \/ <<x, y>> \in R \/ <<y, x>> \in R
        OBVIOUS
    <2>1. x = y \/ x < y \/ y < x
        BY <1>6
    <2>2. L[x] = L[y] \/ L[x] < L[y] \/ L[y] < L[x]
        BY <1>6
    <2> QED
        BY <1>5, <2>1, <2>2
<1> QED
    BY <1>7, <1>8, <1>9 DEF IsOrder, R, S

LEMMA EntriesListed ==
    ASSUME NEW s \in Seq(Rows), NEW c, Column(s, c)
    PROVE  /\ Entries(s, c) \in Seq(DOMAIN s) /\ Len(Entries(s, c)) = Len(s)
           /\ \A x \in DOMAIN s : \E n \in DOMAIN Entries(s, c) : Entries(s, c)[n] = x
           /\ \A m, n \in DOMAIN s : m < n =>
                 Lexical(s[Entries(s, c)[m]][c]) <= Lexical(s[Entries(s, c)[n]][c])
<1> DEFINE S == DOMAIN s
           R == Before(s, c)
           e == Entries(s, c)
           below(x) == Cardinality({y \in S : Earlier(s, c, y, x)})
<1>1. S = 1..Len(s) /\ Len(s) \in Nat
    BY LenProperties
<1>2. IsFiniteSet(S) /\ Cardinality(S) = Len(s)
    <2>1. Len(s) \in Int /\ 1 \in Int
        BY <1>1
    <2>2. IsFiniteSet(S)
        BY <1>1, <2>1, FS_Interval
    <2> QED
        BY <1>1, <2>2, AllNumbers
<1>3. IsOrder(R, S)
    BY EntriesOrdered
<1>4. {n \in DOMAIN s : c \in DOMAIN s[n]} = S
    BY DEF Column
<1>5. e = [n \in 1..Cardinality(S) |-> CHOOSE x \in S : below(x) = n - 1]
    <2> DEFINE W == {n \in DOMAIN s : c \in DOMAIN s[n]}
    <2>1. e = [n \in 1..Cardinality(W) |->
                  CHOOSE x \in W : Cardinality({y \in W : Earlier(s, c, y, x)}) = n - 1]
        BY DEF Entries, InOrder, Earlier
    <2>2. W = S
        BY <1>4
    <2> HIDE DEF W, e, S
    <2> QED
        BY <2>1, <2>2
<1>6. \A x \in S : below(x) = Cardinality(Lesser(S, R, x))
    <2> SUFFICES ASSUME NEW x \in S PROVE below(x) = Cardinality(Lesser(S, R, x))
        OBVIOUS
    <2>1. Lesser(S, R, x) = {y \in S : Earlier(s, c, y, x)}
        BY DEF Lesser, Before
    <2> QED
        BY <2>1
<1> HIDE DEF below, R, e
<1>7. IsListing(e, S, R)
    <2> HIDE DEF S
    <2> QED BY <1>5, <1>6 DEF IsListing
<1>8. /\ e \in Seq(S) /\ Len(e) = Cardinality(S)
      /\ \A x \in S : \E n \in DOMAIN e : e[n] = x
    BY <1>2, <1>3, <1>7, InOrderLists
<1>9. \A m, n \in 1..Cardinality(S) : m < n => <<e[m], e[n]>> \in R
    BY <1>2, <1>3, <1>7, ListingIncreases
<1>10. ASSUME NEW m \in S, NEW n \in S, m < n
       PROVE  Lexical(s[e[m]][c]) <= Lexical(s[e[n]][c])
    <2>1. <<e[m], e[n]>> \in R
        BY <1>1, <1>2, <1>9, <1>10
    <2>2. e[m] \in S /\ e[n] \in S
        BY <2>1 DEF R, Before
    <2> DEFINE x == s[e[m]][c]
               y == s[e[n]][c]
    <2>3. x \in Nat \cup {Empty} /\ y \in Nat \cup {Empty}
        <3>1. s[e[m]] \in Rows /\ s[e[n]] \in Rows
            BY <1>1, <2>2, ElementOfSeq
        <3>2. c \in DOMAIN s[e[m]] /\ c \in DOMAIN s[e[n]]
            BY <2>2 DEF Column
        <3> QED
            BY <3>1, <3>2, CellType
    <2>4. Lexical(x) < Lexical(y) \/ x = y
        BY <2>1 DEF R, Before, Earlier
    <2> HIDE DEF x, y
    <2>5. Lexical(x) \in Int /\ Lexical(y) \in Int
        BY <2>3, LexicalOrder
    <2>6. Lexical(x) <= Lexical(y)
        BY <2>4, <2>5
    <2> QED
        BY <2>6 DEF x, y
<1> QED
    BY <1>1, <1>2, <1>8, <1>10 DEF e

(* Whatever order of all rows std::sort may give.                           *)
Follows(s, p, c, m, n) == Lexical(s[p[m]][c]) <= Lexical(s[p[n]][c])

LEMMA AnOrderOfAll ==
    ASSUME NEW s \in Seq(Rows), NEW q, q.order # NoName, Column(s, q.order),
           NEW p \in [DOMAIN s -> DOMAIN s],
           \A x \in DOMAIN s : \E n \in DOMAIN s : p[n] = x,
           \A n \in 2..Len(s) : IF q.desc THEN Follows(s, p, q.order, n, n - 1)
                                ELSE Follows(s, p, q.order, n - 1, n)
    PROVE  [n \in DOMAIN s |-> s[p[n]]] \in Sorted(q, s)
<1> DEFINE S == DOMAIN s
           Place(r) == Lexical(Field(r, q.order))
           Sorts(o) == /\ Cardinality({o[n] : n \in S}) = Len(s)
                       /\ \A n \in 2..Len(s) :
                             IF q.desc THEN Place(s[o[n]]) <= Place(s[o[n - 1]])
                             ELSE Place(s[o[n - 1]]) <= Place(s[o[n]])
           touched == IF Len(s) < 2 THEN s ELSE [n \in S |-> Touch(s[n], {q.order})]
<1>1. S = 1..Len(s) /\ Len(s) \in Nat /\ s = [n \in S |-> s[n]] /\ \A n \in S : s[n] \in Rows
    BY LenProperties, ElementOfSeq
<1>2. touched = s
    <2>1. \A n \in S : Touch(s[n], {q.order}) = s[n]
        <3> SUFFICES ASSUME NEW n \in S PROVE Touch(s[n], {q.order}) = s[n]
            OBVIOUS
        <3>1. s[n] \in Rows /\ {q.order} \in SUBSET DOMAIN s[n]
            BY <1>1 DEF Column
        <3> QED
            BY <3>1, TouchNothing
    <2> QED
        BY <1>1, <2>1
<1>3. Sorts(p)
    <2>1. {p[n] : n \in S} = S
        <3>1. \A n \in S : p[n] \in S
            OBVIOUS
        <3>2. \A x \in S : \E n \in S : p[n] = x
            OBVIOUS
        <3> HIDE DEF S
        <3> QED
            BY <3>1, <3>2
    <2>2. Cardinality(S) = Len(s)
        BY <1>1, AllNumbers
    <2>3. ASSUME NEW n \in 2..Len(s)
          PROVE  IF q.desc THEN Place(s[p[n]]) <= Place(s[p[n - 1]])
                 ELSE Place(s[p[n - 1]]) <= Place(s[p[n]])
        <3>1. n \in S /\ n - 1 \in S
            BY <1>1
        <3>2. Place(s[p[n]]) = Lexical(s[p[n]][q.order])
            BY <3>1 DEF Field, Column
        <3>3. Place(s[p[n - 1]]) = Lexical(s[p[n - 1]][q.order])
            BY <3>1 DEF Field, Column
        <3> QED
            BY <3>2, <3>3 DEF Follows
    <2> HIDE DEF S, Place
    <2> QED
        BY <2>1, <2>2, <2>3
<1>4. Sorted(q, s) = {[n \in S |-> touched[o[n]]] : o \in {o \in [S -> S] : Sorts(o)}}
    BY DEF Sorted
<1> HIDE DEF Sorts, touched, S
<1>5. p \in {o \in [S -> S] : Sorts(o)}
    BY <1>3 DEF S
<1>6. [n \in S |-> touched[p[n]]] \in Sorted(q, s)
    BY <1>4, <1>5
<1> QED
    BY <1>2, <1>6 DEF S

(* A query that the index may answer, on whole rows and on all of them.     *)
LEMMA AllRowsSorted ==
    ASSUME NEW d, NEW q, Table(d, q.table) \in Seq(Rows), PushesOrder(q),
           q.cols = {"*"}, IsUnpaged(q)
    PROVE  Generic(d, q) = Sorted(q, Table(d, q.table))
<1> DEFINE s == Table(d, q.table)
<1>1. s \in Seq(Rows) /\ q.conds = {} /\ ~Aggregates(q) /\ q.skip = 0 /\ q.limit = -1
    BY DEF PushesOrder, IsUnpaged
<1>2. q.joins = << >> /\ q.group = NoName
    BY <1>1 DEF Aggregates
<1> HIDE DEF s
<1>3. BaseConds(q) = {} /\ PostConds(q) = {}
    BY <1>1 DEF BaseConds, PostConds
<1>4. Where(s, {}) = s
    BY <1>1, WhereOfNone
<1>5. Scan(s, {}, 0, -1) = s
    BY <1>1, <1>4, PageOfAll DEF Scan
<1>6. Joined(d, q, s) = s
    BY <1>2, NothingJoined
<1>7. Filtered(q, s) = s
    <2>1. \A n \in DOMAIN s : Touch(s[n], {}) = s[n]
        <3> SUFFICES ASSUME NEW n \in DOMAIN s PROVE Touch(s[n], {}) = s[n]
            OBVIOUS
        <3>1. s[n] \in Rows /\ {} \in SUBSET DOMAIN s[n]
            BY <1>1, LenProperties, ElementOfSeq
        <3> QED
            BY <3>1, TouchNothing
    <2>2. {c.key : c \in {}} = {}
        OBVIOUS
    <2>3. Filtered(q, s) = [n \in DOMAIN s |-> Touch(s[n], {})]
        BY <1>3, <1>4, <2>2 DEF Filtered
    <2>4. s = [n \in DOMAIN s |-> s[n]]
        BY <1>1, LenProperties
    <2> QED
        BY <2>1, <2>3, <2>4
<1>8. Projected(q, s) = s
    BY DEF Projected
<1>9. Generic(d, q) = {t : t \in Sorted(q, s)}
    BY <1>1, <1>2, <1>3, <1>5, <1>6, <1>7, <1>8 DEF Generic, s
<1> QED
    BY <1>9 DEF s

LEMMA IndexSorts ==
    ASSUME NEW d, NEW q, Table(d, q.table) \in Seq(Rows), PushesOrder(q), IsUnpaged(q),
           Column(Table(d, q.table), q.order), Current(d, q.table)
    PROVE  Indexed(d, q) \in Sorted(q, Table(d, q.table))
<1> DEFINE s == Table(d, q.table)
           c == q.order
           e == Entries(s, c)
           p == IF q.desc THEN Reverse(e) ELSE e
           S == DOMAIN s
           l == Len(s)
<1>1. c # NoName /\ q.skip = 0 /\ q.limit = -1 /\ s \in Seq(Rows) /\ Column(s, c)
    BY DEF PushesOrder, IsUnpaged
<1>2. S = 1..l /\ l \in Nat
    BY LenProperties
<1>3. /\ Indexed(d, q) = [n \in DOMAIN Page(p, 0, -1) |-> s[d.kept[q.table][Page(p, 0, -1)[n]]]]
      /\ \A n \in S : d.kept[q.table][n] = n
    BY <1>1 DEF Indexed, Visited, Current
<1> HIDE DEF s, c, S, l
<1>4. /\ e \in Seq(S) /\ Len(e) = l
      /\ \A x \in S : \E n \in DOMAIN e : e[n] = x
      /\ \A m, n \in S : m < n => Follows(s, e, c, m, n)
    BY <1>1, EntriesListed DEF Follows, S, l
<1> HIDE DEF e
<1>5. e \in [S -> S]
    BY <1>2, <1>4, LenProperties
<1>6. /\ p \in [S -> S]
      /\ \A x \in S : \E n \in S : p[n] = x
      /\ \A n \in 2..l : IF q.desc THEN Follows(s, p, c, n, n - 1) ELSE Follows(s, p, c, n - 1, n)
    <2>1. CASE q.desc
        <3>1. p = [i \in S |-> e[(l - i) + 1]]
            BY <1>2, <1>4, <2>1 DEF Reverse
        <3>2. \A i \in S : (l - i) + 1 \in S /\ (l - ((l - i) + 1)) + 1 = i
            BY <1>2
        <3>3. p \in [S -> S]
            BY <1>5, <3>1, <3>2
        <3>4. ASSUME NEW x \in S PROVE \E n \in S : p[n] = x
            <4>1. PICK i \in S : e[i] = x
                BY <1>4, <1>5
            <4>2. p[(l - i) + 1] = x /\ (l - i) + 1 \in S
                BY <3>1, <3>2, <4>1
            <4> QED
                BY <4>2
        <3>5. ASSUME NEW n \in 2..l PROVE Follows(s, p, c, n, n - 1)
            <4> DEFINE i == (l - n) + 1
                       j == (l - (n - 1)) + 1
            <4>1. n \in S /\ n - 1 \in S /\ i \in S /\ j \in S /\ i < j
                BY <1>2
            <4>2. p[n] = e[i] /\ p[n - 1] = e[j]
                BY <3>1, <4>1
            <4> HIDE DEF i, j
            <4>3. Follows(s, e, c, i, j)
                BY <1>4, <4>1
            <4> QED
                BY <4>2, <4>3 DEF Follows
        <3> HIDE DEF p
        <3> QED
            BY <2>1, <3>3, <3>4, <3>5
    <2>2. CASE ~q.desc
        <3>1. p = e
            BY <2>2
        <3>2. ASSUME NEW n \in 2..l PROVE Follows(s, p, c, n - 1, n)
            <4>1. n - 1 \in S /\ n \in S /\ n - 1 < n
                BY <1>2
            <4> QED
                BY <1>4, <3>1, <4>1
        <3> HIDE DEF p
        <3> QED
            BY <1>4, <1>5, <2>2, <3>1, <3>2
    <2> QED
        BY <2>1, <2>2
<1> HIDE DEF p
<1>7. Page(p, 0, -1) = p /\ DOMAIN p = S
    <2>1. p \in [1..l -> S]
        BY <1>2, <1>6
    <2>2. p \in Seq(S)
        BY <1>2, <2>1, IntervalSeq
    <2> QED
        BY <1>6, <2>2, PageOfAll
<1>8. Indexed(d, q) = [n \in S |-> s[p[n]]]
    <2>1. \A n \in S : p[n] \in S
        BY <1>6
    <2> QED
        BY <1>3, <1>7, <2>1
<1>9. [n \in S |-> s[p[n]]] \in Sorted(q, s)
    BY <1>1, <1>6, AnOrderOfAll DEF c, S, l
<1> QED
    BY <1>8, <1>9 DEF s

(* The shortcut through an index that no write came after gives what the    *)
(* generic path may give.                                                   *)
THEOREM ShortcutAgreesHolds == Spec => []ShortcutAgrees
<1>1. ASSUME SelectInv PROVE ShortcutAgrees
    <2> SUFFICES ASSUME query # NoQuery, PushesOrder(query), query.cols = {"*"}, IsUnpaged(query),
                        HasIndex(db, query.table, query.order) => Current(db, query.table),
                        Column(Table(db, query.table), query.order)
                 PROVE  answer \in Generic(db, query)
        BY DEF ShortcutAgrees, Column
    <2>1. Table(db, query.table) \in Seq(Rows)
        BY <1>1, TablesAreRows DEF SelectInv
    <2>2. CASE HasIndex(db, query.table, query.order) /\ answer = Indexed(db, query)
        <3>1. Indexed(db, query) \in Sorted(query, Table(db, query.table))
            BY <2>1, <2>2, IndexSorts
        <3>2. Generic(db, query) = Sorted(query, Table(db, query.table))
            BY <2>1, AllRowsSorted
        <3> QED
            BY <2>2, <3>1, <3>2
    <2> QED
        BY <1>1, <2>2 DEF SelectInv
<1> QED
    BY <1>1, SelectInvHolds, PTL

-----------------------------------------------------------------------------
(* Joined rows *)

Flattens(f, seqs) ==
    /\ f[0] = << >>
    /\ \A i \in 1..Len(seqs) : f[i] = f[i - 1] \o seqs[i]
    /\ f[Len(seqs)] = FlattenSeq(seqs)

(* FlattenSeq puts one sequence after the other. *)
LEMMA FlattenInOrder ==
    ASSUME NEW V, NEW seqs \in Seq(Seq(V))
    PROVE  \E f \in [0..Len(seqs) -> Seq(V)] : Flattens(f, seqs)
<1> DEFINE n == Len(seqs)
           S == 1..n
           P(f) == f = [i \in S |-> IF i = 1 THEN seqs[i] ELSE f[i - 1] \o seqs[i]]
           F == CHOOSE f : P(f)
           f2 == [i \in 0..n |-> IF i = 0 THEN << >> ELSE F[i]]
<1>1. n \in Nat /\ DOMAIN seqs = S /\ \A i \in S : seqs[i] \in Seq(V)
    BY LenProperties, ElementOfSeq
<1>2. << >> \in Seq(V)
    BY EmptySeq
<1>3. CASE n = 0
    <2>1. seqs = << >>
        BY <1>3, EmptySeq
    <2>2. FlattenSeq(seqs) = << >>
        BY <1>3, <2>1 DEF FlattenSeq
    <2> DEFINE g == [i \in 0..0 |-> << >>]
    <2>3. g \in [0..0 -> Seq(V)] /\ g[0] = << >>
        BY <1>2
    <2> HIDE DEF g
    <2>4. Flattens(g, seqs)
        BY <1>3, <2>2, <2>3 DEF Flattens
    <2> QED
        BY <1>3, <2>3, <2>4
<1>4. CASE n # 0
    <2>1. P(F)
        <3> DEFINE size == [i \in S |-> i]
                   first == [i \in {1} |-> seqs[1]]
                   next == [i \in S \ {1} |-> i - 1]
                   G == [a \in (S \ {1}) \X Seq(V) |-> a[2] \o seqs[a[1]]]
        <3>1. 1 \in S /\ \A i \in S \ {1} : i - 1 \in S /\ i - 1 < i
            BY <1>1, <1>4
        <3>2. Descends(S, size, {1}, next)
            BY <1>1, <3>1 DEF Descends
        <3>3. first \in [{1} -> Seq(V)]
            BY <1>1, <3>1
        <3>4. G \in [(S \ {1}) \X Seq(V) -> Seq(V)]
            <4> SUFFICES ASSUME NEW i \in S \ {1}, NEW v \in Seq(V) PROVE v \o seqs[i] \in Seq(V)
                OBVIOUS
            <4> QED
                BY <1>1, ConcatProperties
        <3> HIDE DEF size, next
        <3>5. PICK g \in [S -> Seq(V)] : Solves(g, S, {1}, first, next, G)
            <4> HIDE DEF S, first, G
            <4> DEFINE T == {1}
                       W == Seq(V)
            <4>1. Descends(S, size, T, next) /\ first \in [T -> W] /\ G \in [(S \ T) \X W -> W]
                BY <3>2, <3>3, <3>4
            <4> HIDE DEF T, W
            <4>2. \E g \in [S -> W] : Solves(g, S, T, first, next, G)
                BY <4>1, RecursionBySize
            <4> QED
                BY <4>2 DEF T, W
        <3>6. \A i \in S : g[i] = IF i = 1 THEN seqs[i] ELSE g[i - 1] \o seqs[i]
            BY <3>1, <3>5 DEF Solves, next
        <3>7. P(g)
            BY <3>6
        <3> HIDE DEF P
        <3> QED
            BY <3>7
    <2>2. FlattenSeq(seqs) = F[n]
        BY <1>1, <1>4 DEF FlattenSeq
    <2>3. \A i \in S : F[i] = IF i = 1 THEN seqs[i] ELSE F[i - 1] \o seqs[i]
        BY <2>1
    <2> HIDE DEF F
    <2>4. f2[0] = << >> /\ f2[n] = F[n]
        BY <1>1, <1>4
    <2>5. ASSUME NEW i \in S PROVE f2[i] = f2[i - 1] \o seqs[i]
        <3>1. i \in 0..n /\ i # 0 /\ i - 1 \in 0..n /\ f2[i] = F[i]
            BY <1>1
        <3>2. CASE i = 1
            <4>1. f2[i - 1] = << >> /\ f2[i] = seqs[i]
                BY <2>3, <3>1, <3>2
            <4>2. << >> \o seqs[i] = seqs[i]
                BY <1>1, ConcatEmptySeq
            <4> QED
                BY <4>1, <4>2
        <3>3. CASE i # 1
            <4>1. i - 1 # 0 /\ f2[i - 1] = F[i - 1]
                BY <3>1, <3>3
            <4> QED
                BY <2>3, <3>1, <3>3, <4>1
        <3> QED
            BY <3>2, <3>3
    <2>6. f2 \in [0..n -> Seq(V)]
        <3> DEFINE size == [i \in 0..n |-> i]
                   T == {i \in 0..n : f2[i] \in Seq(V)}
                   D == 0..n
        <3>1. ASSUME NEW i \in D, \A j \in D : size[j] < size[i] => j \in T PROVE i \in T
            <4>1. CASE i = 0
                BY <1>2, <2>4, <4>1
            <4>2. CASE i # 0
                <5>1. i - 1 \in D /\ size[i - 1] < size[i] /\ i \in S
                    BY <1>1, <4>2
                <5>2. f2[i - 1] \in Seq(V) /\ seqs[i] \in Seq(V)
                    BY <1>1, <3>1, <5>1
                <5>3. f2[i - 1] \o seqs[i] \in Seq(V)
                    BY <5>2, ConcatProperties
                <5> HIDE DEF f2
                <5> QED
                    BY <2>5, <5>1, <5>3
            <4> QED
                BY <4>1, <4>2
        <3>2. size \in [D -> Nat]
            BY <1>1
        <3> HIDE DEF size, T, D
        <3>3. D \subseteq T
            BY <3>1, <3>2, InductionBySize
        <3> QED
            BY <3>3 DEF D, T
    <2> HIDE DEF f2
    <2>7. Flattens(f2, seqs)
        BY <2>2, <2>4, <2>5 DEF Flattens
    <2> QED
        BY <2>6, <2>7
<1> QED
    BY <1>3, <1>4

LEMMA FlattenType ==
    ASSUME NEW V, NEW seqs \in Seq(Seq(V))
    PROVE  FlattenSeq(seqs) \in Seq(V)
<1>1. PICK f \in [0..Len(seqs) -> Seq(V)] : Flattens(f, seqs)
    BY FlattenInOrder
<1>2. Len(seqs) \in 0..Len(seqs)
    BY LenProperties
<1> QED
    BY <1>1, <1>2 DEF Flattens

LEMMA ExtendType ==
    ASSUME NEW row \in Rows, NEW more \in Rows
    PROVE  Extend(row, more) \in Rows
<1>1. /\ DOMAIN row \in SUBSET STRING /\ \A c \in DOMAIN row : row[c] \in Nat \cup {Empty}
      /\ DOMAIN more \in SUBSET STRING /\ \A c \in DOMAIN more : more[c] \in Nat \cup {Empty}
    BY CellType DEF Rows
<1> DEFINE C == DOMAIN row \cup DOMAIN more
<1>2. C \in SUBSET STRING
    BY <1>1
<1>3. Extend(row, more) \in [C -> Nat \cup {Empty}]
    BY <1>1 DEF Extend
<1> HIDE DEF C
<1> QED
    BY <1>2, <1>3 DEF Rows

LEMMA TouchType ==
    ASSUME NEW row \in Rows, NEW C \in SUBSET STRING
    PROVE  Touch(row, C) \in Rows
<1> DEFINE more == [c \in C |-> Empty]
<1>1. more \in [C -> Nat \cup {Empty}]
    OBVIOUS
<1>2. more \in Rows
    BY <1>1 DEF Rows
<1> HIDE DEF more
<1> QED
    BY <1>2, ExtendType DEF Touch, more

LEMMA WithType ==
    ASSUME NEW V, NEW s \in Seq(V), NEW c, NEW v
    PROVE  With(s, c, v) \in Seq(V)
<1> DEFINE P == {n \in DOMAIN s : Field(s[n], c) = v}
<1>1. P \in SUBSET DOMAIN s
    OBVIOUS
<1> HIDE DEF P
<1>2. Picked(s, P) \in Seq(V)
    BY <1>1, PickedType
<1> QED
    BY <1>2 DEF P, With

(* What a row on the left is joined with are rows. *)
LEMMA HitsType ==
    ASSUME NEW d \in Databases, NEW j, j.rightField \in STRING, NEW v
    PROVE  Hits(d, j, v) \in Seq(Rows)
<1> DEFINE right == Table(d, j.rightTable)
           moved == d.kept[j.rightTable]
           left == {n \in Entered(d, j, v) : moved[n] # 0}
           found == With(right, j.rightField, v)
<1>1. right \in Seq(Rows)
    BY TablesAreRows
<1>2. Fetched(d, j, v) \in Seq(Rows)
    <2> DEFINE built == Built(d, j.rightTable)
               D == 1..Cardinality(left)
               b == NumbersOf(left)
    <2>1. built \in Seq(Rows) /\ \A n \in DOMAIN built : moved[n] \in 0..Len(right)
        BY BuiltAreRows
    <2>2. left \in SUBSET DOMAIN built
        BY DEF Entered
    <2> HIDE DEF built
    <2>3. IsFiniteSet(left) /\ \A n \in D : b[n] \in left
        <3> HIDE DEF left
        <3> QED BY <2>1, <2>2, PickedType
    <2>4. Fetched(d, j, v) = [k \in D |-> right[moved[b[k]]]]
        BY DEF Fetched, InOrder, NumbersOf
    <2>5. ASSUME NEW k \in D PROVE right[moved[b[k]]] \in Rows
        <3>1. b[k] \in DOMAIN built /\ moved[b[k]] # 0
            BY <2>2, <2>3
        <3> HIDE DEF right, moved, b
        <3>2. moved[b[k]] \in 1..Len(right)
            BY <1>1, <2>1, <3>1, LenProperties
        <3> QED
            BY <1>1, <3>2, LenProperties, ElementOfSeq
    <2>6. Cardinality(left) \in Nat
        BY <2>3, FS_CardinalityType
    <2> DEFINE x == [k \in D |-> right[moved[b[k]]]]
    <2>7. x \in [D -> Rows]
        BY <2>5
    <2> HIDE DEF x
    <2>8. x \in Seq(Rows)
        BY <2>6, <2>7, IntervalSeq
    <2> QED
        BY <2>4, <2>8 DEF x
<1>3. Scanned(d, j, v) \in Seq(Rows)
    <2> DEFINE x == [k \in DOMAIN found |-> Touch(found[k], {j.rightField})]
    <2>1. found \in Seq(Rows)
        <3> HIDE DEF right
        <3> QED BY <1>1, WithType
    <2> HIDE DEF found
    <2>2. Len(found) \in Nat /\ DOMAIN found = 1..Len(found) /\ \A k \in DOMAIN found : found[k] \in Rows
        BY <2>1, LenProperties, ElementOfSeq
    <2>3. x \in [1..Len(found) -> Rows]
        BY <2>2, TouchType
    <2>4. x \in Seq(Rows)
        BY <2>2, <2>3, IntervalSeq
    <2> QED
        BY <2>4 DEF Scanned, found
<1> QED
    BY <1>2, <1>3 DEF Hits

(* An index that no write came after finds what a scan finds. *)
LEMMA IndexFinds ==
    ASSUME NEW d \in Databases, NEW j, RightIsFound(d, j), NEW v
    PROVE  Hits(d, j, v) = Scanned(d, j, v)
<1> DEFINE right == Table(d, j.rightTable)
           moved == d.kept[j.rightTable]
           f == j.rightField
           left == {n \in Entered(d, j, v) : moved[n] # 0}
           P == {n \in DOMAIN right : Field(right[n], f) = v}
           D == 1..Cardinality(P)
           b == NumbersOf(P)
           found == With(right, f, v)
<1>1. ASSUME HasIndex(d, j.rightTable, f)
      PROVE  Fetched(d, j, v) = Scanned(d, j, v)
    <2>1. /\ Built(d, j.rightTable) = right
          /\ \A n \in DOMAIN right : moved[n] = n /\ f \in DOMAIN right[n]
        BY <1>1 DEF RightIsFound, Current
    <2>2. right \in Seq(Rows)
        BY TablesAreRows
    <2>3. \A n \in DOMAIN right : n # 0 /\ right[n] \in Rows
        <3> HIDE DEF right
        <3> QED BY <2>2, LenProperties, ElementOfSeq
    <2>4. left = P
        BY <2>1, <2>3 DEF Entered, Field
    <2>5. Fetched(d, j, v) = [k \in D |-> right[moved[b[k]]]]
        <3>1. Fetched(d, j, v) = [k \in 1..Cardinality(left) |-> right[moved[NumbersOf(left)[k]]]]
            BY DEF Fetched, InOrder, NumbersOf
        <3> HIDE DEF left, P
        <3> QED BY <2>4, <3>1
    <2>6. P \in SUBSET DOMAIN right
        OBVIOUS
    <2>7. found = Picked(right, P)
        BY DEF With
    <2> HIDE DEF right, moved, P, found
    <2>8. /\ Picked(right, P) = [k \in D |-> right[b[k]]]
          /\ \A k \in D : b[k] \in P
        BY <2>2, <2>6, PickedType
    <2>9. Scanned(d, j, v) = [k \in D |-> Touch(right[b[k]], {f})]
        BY <2>7, <2>8 DEF Scanned, found, right
    <2>10. ASSUME NEW k \in D PROVE right[moved[b[k]]] = Touch(right[b[k]], {f})
        <3>1. b[k] \in DOMAIN right
            BY <2>6, <2>8
        <3>2. moved[b[k]] = b[k] /\ {f} \in SUBSET DOMAIN right[b[k]] /\ right[b[k]] \in Rows
            BY <2>1, <2>3, <3>1
        <3>3. Touch(right[b[k]], {f}) = right[b[k]]
            BY <3>2, TouchNothing
        <3> QED
            BY <3>2, <3>3
    <2> QED
        BY <2>5, <2>9, <2>10
<1> QED
    BY <1>1 DEF Hits

LEMMA JoinRowType ==
    ASSUME NEW d \in Databases, NEW row \in Rows, NEW j, j.rightField \in STRING
    PROVE  JoinRow(d, row, j) \in Seq(Rows)
<1> DEFINE hits == Hits(d, j, Field(row, j.leftField))
           l == Len(hits)
           x == [k \in DOMAIN hits |-> Extend(row, hits[k])]
<1>1. hits \in Seq(Rows)
    BY HitsType
<1> HIDE DEF hits
<1>2. l \in Nat /\ DOMAIN hits = 1..l /\ \A k \in 1..l : hits[k] \in Rows
    BY <1>1, LenProperties, ElementOfSeq
<1> HIDE DEF l
<1>3. x \in [1..l -> Rows]
    BY <1>2, ExtendType
<1>4. x \in Seq(Rows)
    BY <1>2, <1>3, IntervalSeq
<1>5. <<row>> \in Seq(Rows)
    OBVIOUS
<1> QED
    BY <1>4, <1>5 DEF JoinRow, hits

(* The rows of a join. *)
LEMMA JoinedType ==
    ASSUME NEW d \in Databases, NEW q, IsQuery(q), NEW rows \in Seq(Rows)
    PROVE  /\ Joined(d, q, rows) \in Seq(Rows)
           /\ Len(q.joins) = 1 => Joined(d, q, rows) = JoinedTo(d, rows, q.joins[1])
<1> DEFINE V == Seq(Rows)
           J == Range(q.joins)
<1>1. q.joins \in Seq(J) /\ \A j \in J : j.rightField \in STRING
    BY DEF IsQuery
<1>2. ASSUME NEW left \in V, NEW j \in J PROVE JoinedTo(d, left, j) \in V
    <2> DEFINE x == [n \in DOMAIN left |-> JoinRow(d, left[n], j)]
    <2>2. Len(left) \in Nat /\ DOMAIN left = 1..Len(left) /\ \A n \in DOMAIN left : left[n] \in Rows
        BY LenProperties, ElementOfSeq
    <2> HIDE DEF J
    <2>3. ASSUME NEW n \in DOMAIN left PROVE JoinRow(d, left[n], j) \in Seq(Rows)
        BY <1>1, <2>2, JoinRowType
    <2>4. x \in [1..Len(left) -> Seq(Rows)]
        BY <2>2, <2>3
    <2>5. x \in Seq(Seq(Rows))
        BY <2>2, <2>4, IntervalSeq
    <2> HIDE DEF x
    <2>6. FlattenSeq(x) \in Seq(Rows)
        BY <2>5, FlattenType
    <2> QED
        BY <2>6 DEF JoinedTo, x
<1> HIDE DEF V, J
<1>3. rows \in V
    BY DEF V
<1>4. PICK f \in [0..Len(q.joins) -> V] : Joins(f, d, q, rows)
    BY <1>1, <1>2, <1>3, JoinedInOrder
<1>5. Len(q.joins) \in 0..Len(q.joins)
    BY <1>1, LenProperties
<1>6. ASSUME Len(q.joins) = 1 PROVE Joined(d, q, rows) = JoinedTo(d, rows, q.joins[1])
    <2>1. f[1] = JoinedTo(d, f[1 - 1], q.joins[1]) /\ 1 - 1 = 0
        BY <1>4, <1>6 DEF Joins
    <2> QED
        BY <1>4, <1>6, <2>1 DEF Joins
<1> QED
    BY <1>4, <1>5, <1>6 DEF Joins, V

LEMMA FilteredType ==
    ASSUME NEW q, IsQuery(q), NEW rows \in Seq(Rows)
    PROVE  Filtered(q, rows) \in Seq(Rows)
<1> DEFINE kept == Where(rows, PostConds(q))
           K == {c.key : c \in PostConds(q)}
           x == [n \in DOMAIN kept |-> Touch(kept[n], K)]
<1>1. K \in SUBSET STRING
    BY DEF IsQuery, PostConds
<1>2. kept \in Seq(Rows)
    BY WhereType
<1> HIDE DEF kept, K
<1>3. Len(kept) \in Nat /\ DOMAIN kept = 1..Len(kept) /\ \A n \in DOMAIN kept : kept[n] \in Rows
    BY <1>2, LenProperties, ElementOfSeq
<1>4. \A n \in DOMAIN kept : Touch(kept[n], K) \in Rows
    BY <1>1, <1>3, TouchType
<1>5. x \in [1..Len(kept) -> Rows]
    BY <1>3, <1>4
<1>6. x \in Seq(Rows)
    BY <1>3, <1>5, IntervalSeq
<1> QED
    BY <1>6 DEF Filtered, kept, K

(* The rows that GROUP BY, the projection and ORDER BY work on.             *)
Gathered(d, q) ==
    Filtered(q, Joined(d, q, Scan(Table(d, q.table), BaseConds(q), q.skip, q.limit)))

LEMMA GatheredType ==
    ASSUME NEW d \in Databases, NEW q, IsQuery(q)
    PROVE  Gathered(d, q) \in Seq(Rows)
<1> DEFINE base == Scan(Table(d, q.table), BaseConds(q), q.skip, q.limit)
           hits == Where(Table(d, q.table), BaseConds(q))
           l == IF q.limit > 0 THEN q.limit ELSE -1
<1>1. hits \in Seq(Rows)
    BY TablesAreRows, WhereType
<1>2. l \in Int /\ q.skip \in Nat
    BY DEF IsQuery
<1> HIDE DEF hits, l
<1>3. Page(hits, q.skip, l) \in Seq(Rows)
    BY <1>1, <1>2, PageType
<1>4. base \in Seq(Rows)
    BY <1>3 DEF Scan, hits, l
<1> HIDE DEF base
<1>5. Joined(d, q, base) \in Seq(Rows)
    BY <1>4, JoinedType
<1>6. Filtered(q, Joined(d, q, base)) \in Seq(Rows)
    BY <1>5, FilteredType
<1> QED
    BY <1>6 DEF Gathered, base

-----------------------------------------------------------------------------
(* Groups *)

(* ORDER BY permutes the rows and keeps what is in them.                    *)
Permutes(p, s, rows) ==
    /\ DOMAIN s = DOMAIN rows /\ p \in Bijection(DOMAIN rows, DOMAIN rows)
    /\ \A n \in DOMAIN rows : \A c \in DOMAIN rows[p[n]] : c \in DOMAIN s[n] /\ s[n][c] = rows[p[n]][c]

LEMMA SortingPermutes ==
    ASSUME NEW V, NEW rows \in Seq(V), NEW q, NEW s \in Sorted(q, rows)
    PROVE  \E p : Permutes(p, s, rows)
<1> DEFINE S == DOMAIN rows
           touched == IF Len(rows) < 2 THEN rows ELSE [n \in S |-> Touch(rows[n], {q.order})]
<1>1. S = 1..Len(rows) /\ Len(rows) \in Nat
    BY LenProperties
<1>2. IsFiniteSet(S) /\ Cardinality(S) = Len(rows)
    <2>1. Len(rows) \in Int /\ 1 \in Int
        BY <1>1
    <2>2. IsFiniteSet(S)
        BY <1>1, <2>1, FS_Interval
    <2> QED
        BY <1>1, <2>2, AllNumbers
<1>3. \A n \in S : \A c \in DOMAIN rows[n] : c \in DOMAIN touched[n] /\ touched[n][c] = rows[n][c]
    BY DEF Touch, Extend
<1>4. CASE q.order = NoName
    <2> DEFINE p == [n \in S |-> n]
    <2>1. s = rows
        BY <1>4 DEF Sorted
    <2>2. p \in Bijection(S, S)
        BY DEF Bijection, Injection, IsInjective, Surjection
    <2>3. Permutes(p, s, rows)
        BY <2>1, <2>2 DEF Permutes
    <2> QED
        BY <2>3
<1>5. CASE q.order # NoName
    <2>1. PICK p \in [S -> S] : /\ Cardinality({p[n] : n \in S}) = Len(rows)
                                /\ s = [n \in S |-> touched[p[n]]]
        BY <1>5 DEF Sorted
    <2> DEFINE T == {p[n] : n \in S}
    <2>2. T \in SUBSET S /\ Cardinality(T) = Cardinality(S)
        BY <1>2, <2>1
    <2>3. T = S
        <3> HIDE DEF T, S
        <3> QED BY <1>2, <2>2, FS_Subset
    <2>4. p \in Surjection(S, S)
        BY <2>1, <2>3 DEF Surjection
    <2>5. p \in Injection(S, S)
        BY <1>2, <2>4, FS_Surjection
    <2>6. p \in Bijection(S, S)
        BY <2>4, <2>5 DEF Bijection
    <2> HIDE DEF touched
    <2>7. Permutes(p, s, rows)
        BY <1>3, <2>1, <2>6 DEF Permutes
    <2> QED
        BY <2>7
<1> QED
    BY <1>4, <1>5

(* The values of the column, in the order of their strings.                 *)
Smaller(K) == {p \in K \X K : Lexical(p[1]) < Lexical(p[2])}

KeysOf(K) ==
    [n \in 1..Cardinality(K) |->
        CHOOSE v \in K : Cardinality({w \in K : Lexical(w) < Lexical(v)}) = n - 1]

LEMMA KeysListed ==
    ASSUME NEW K \in SUBSET (Nat \cup {Empty}), IsFiniteSet(K)
    PROVE  /\ Cardinality(K) \in Nat
           /\ KeysOf(K) \in Bijection(1..Cardinality(K), K)
<1> DEFINE R == Smaller(K)
           k == KeysOf(K)
           below(x) == Cardinality({y \in K : Lexical(y) < Lexical(x)})
           N == Cardinality(K)
<1>1. N \in Nat
    BY FS_CardinalityType
<1>2. IsOrder(R, K)
    <2>1. \A v \in K : Lexical(v) \in Int
        BY LexicalOrder
    <2>2. \A v, w \in K : Lexical(v) = Lexical(w) => v = w
        BY LexicalOrder
    <2>3. \A v, w \in K : <<v, w>> \in R <=> Lexical(v) < Lexical(w)
        BY DEF Smaller
    <2> HIDE DEF R
    <2>4. \A v \in K : <<v, v>> \notin R
        BY <2>1, <2>3
    <2>5. \A x, y, z \in K : <<x, y>> \in R /\ <<y, z>> \in R => <<x, z>> \in R
        BY <2>1, <2>3
    <2>6. \A x, y \in K : x = y \/ <<x, y>> \in R \/ <<y, x>> \in R
        <3> SUFFICES ASSUME NEW x \in K, NEW y \in K PROVE x = y \/ <<x, y>> \in R \/ <<y, x>> \in R
            OBVIOUS
        <3>1. Lexical(x) = Lexical(y) \/ Lexical(x) < Lexical(y) \/ Lexical(y) < Lexical(x)
            BY <2>1
        <3> QED
            BY <2>2, <2>3, <3>1
    <2> QED
        BY <2>4, <2>5, <2>6 DEF IsOrder
<1>3. k = [n \in 1..N |-> CHOOSE x \in K : below(x) = n - 1]
    BY DEF KeysOf
<1>4. \A x \in K : below(x) = Cardinality(Lesser(K, R, x))
    <2> SUFFICES ASSUME NEW x \in K PROVE below(x) = Cardinality(Lesser(K, R, x))
        OBVIOUS
    <2>1. Lesser(K, R, x) = {y \in K : Lexical(y) < Lexical(x)}
        BY DEF Lesser, Smaller
    <2> QED
        BY <2>1
<1> HIDE DEF below, R, k
<1>5. IsListing(k, K, R)
    <2>1. k = [n \in 1..N |-> k[n]]
        BY <1>3
    <2>2. ASSUME NEW n \in 1..N, \E x \in K : Cardinality(Lesser(K, R, x)) = n - 1
          PROVE  k[n] \in K /\ Cardinality(Lesser(K, R, k[n])) = n - 1
        <3>1. k[n] = CHOOSE x \in K : below(x) = n - 1
            BY <1>3
        <3>2. \E x \in K : below(x) = n - 1
            BY <1>4, <2>2
        <3>3. k[n] \in K /\ below(k[n]) = n - 1
            BY <3>1, <3>2
        <3> QED
            BY <1>4, <3>3
    <2> QED
        BY <2>1, <2>2 DEF IsListing
<1>6. k \in Seq(K) /\ Len(k) = N /\ \A x \in K : \E n \in DOMAIN k : k[n] = x
    BY <1>2, <1>5, InOrderLists
<1>7. k \in [1..N -> K]
    BY <1>6, LenProperties
<1>8. k \in Surjection(1..N, K)
    BY <1>6, <1>7 DEF Surjection
<1>9. \A m, n \in 1..N : m < n => <<k[m], k[n]>> \in R
    BY <1>2, <1>5, ListingIncreases
<1>10. ASSUME NEW m \in 1..N, NEW n \in 1..N, k[m] = k[n] PROVE m = n
    <2>1. <<k[m], k[n]>> \notin R /\ <<k[n], k[m]>> \notin R
        BY <1>2, <1>7, <1>10 DEF IsOrder
    <2>2. ~(m < n) /\ ~(n < m)
        BY <1>9, <2>1
    <2> QED
        BY <1>1, <2>2
<1>11. k \in Injection(1..N, K)
    BY <1>7, <1>10 DEF Injection, IsInjective
<1> QED
    BY <1>1, <1>8, <1>11 DEF Bijection, k, N

(* How many rows there are in a group, and what they add up to.             *)
InGroup(rows, c, v) == {n \in DOMAIN rows : Field(rows[n], c) = v}

LEMMA GroupSize ==
    ASSUME NEW V, NEW rows \in Seq(V), NEW c, NEW v
    PROVE  Len(With(rows, c, v)) = Cardinality(InGroup(rows, c, v))
<1>1. InGroup(rows, c, v) \in SUBSET DOMAIN rows
    BY DEF InGroup
<1> QED
    BY <1>1, PickedType DEF With, InGroup

LEMMA SumOfOnes ==
    ASSUME NEW S, IsFiniteSet(S)
    PROVE  \A s \in SUBSET S : SumFunctionOnSet([x \in S |-> 1], s) = Cardinality(s)
<1> DEFINE f == [x \in S |-> 1]
<1>1. f \in [S -> Int] /\ \A x \in S : f[x] = 1
    OBVIOUS
<1> HIDE DEF f
<1>2. ASSUME NEW s \in SUBSET S PROVE SumFunctionOnSet(f, s) = Cardinality(s)
    <2>0. IsFiniteSet(s)
        BY FS_Subset
    <2> DEFINE T == {t \in SUBSET s : SumFunctionOnSet(f, t) = Cardinality(t)}
    <2>1. {} \in T
        BY <1>1, SumsOnSubsets, FS_EmptySet
    <2>2. ASSUME NEW t \in SUBSET s, NEW x \in s \ t, t \in T PROVE t \cup {x} \in T
        <3>1. SumFunctionOnSet(f, t \cup {x}) = f[x] + SumFunctionOnSet(f, t)
            BY <1>1, SumsOnSubsets
        <3>2. IsFiniteSet(t) /\ Cardinality(t) \in Nat
            BY <2>0, FS_Subset, FS_CardinalityType
        <3>3. Cardinality(t \cup {x}) = Cardinality(t) + 1
            BY <3>2, FS_AddElement
        <3> QED
            BY <1>1, <2>2, <3>1, <3>2, <3>3
    <2> HIDE DEF T
    <2>3. s \in T
        BY <2>0, <2>1, <2>2, OneMemberMore
    <2> QED
        BY <2>3 DEF T
<1> QED
    BY <1>2 DEF f

Amounts(rows, c) == [n \in DOMAIN rows |-> Number(Field(rows[n], c))]

LEMMA AmountsType ==
    ASSUME NEW rows \in Seq(Rows), NEW c
    PROVE  /\ IsFiniteSet(DOMAIN rows) /\ Amounts(rows, c) \in [DOMAIN rows -> Int]
           /\ \A n \in DOMAIN rows : Field(rows[n], c) \in Nat \cup {Empty}
<1>1. DOMAIN rows = 1..Len(rows) /\ Len(rows) \in Nat /\ \A n \in DOMAIN rows : rows[n] \in Rows
    BY LenProperties, ElementOfSeq
<1>2. IsFiniteSet(DOMAIN rows)
    <2>1. Len(rows) \in Int /\ 1 \in Int
        BY <1>1
    <2> QED
        BY <1>1, <2>1, FS_Interval
<1>3. ASSUME NEW n \in DOMAIN rows
      PROVE  Field(rows[n], c) \in Nat \cup {Empty} /\ Number(Field(rows[n], c)) \in Int
    <2>1. Field(rows[n], c) \in Nat \cup {Empty}
        BY <1>1, CellType DEF Field
    <2> QED
        BY <2>1 DEF Number, Empty
<1> QED
    BY <1>2, <1>3 DEF Amounts

LEMMA GroupTotal ==
    ASSUME NEW rows \in Seq(Rows), NEW c, NEW v, NEW a
    PROVE  Total(With(rows, c, v), a) = SumFunctionOnSet(Amounts(rows, a), InGroup(rows, c, v))
<1> DEFINE P == InGroup(rows, c, v)
           D == 1..Cardinality(P)
           b == NumbersOf(P)
           x == With(rows, c, v)
           f == [n \in P |-> Amounts(rows, a)[n]]
           g == Amounts(x, a)
<1>1. P \in SUBSET DOMAIN rows
    BY DEF InGroup
<1>2. x = Picked(rows, P)
    BY DEF With, InGroup
<1> HIDE DEF P, x
<1>3. /\ IsFiniteSet(P) /\ P \in SUBSET Nat /\ x = [n \in D |-> rows[b[n]]] /\ x \in Seq(Rows)
      /\ \A n \in D : b[n] \in P
    BY <1>1, <1>2, PickedType
<1>4. b \in Bijection(D, P)
    <2>1. Cardinality(P) \in Nat /\ b \in Seq(P) /\ Len(b) = Cardinality(P)
          /\ \A i \in P : \E n \in DOMAIN b : b[n] = i
        BY <1>3, NumbersInOrder, FS_CardinalityType
    <2>2. b \in [D -> P] /\ \A i \in P : \E n \in D : b[n] = i
        BY <2>1, LenProperties
    <2> DEFINE below(i) == Cardinality({y \in P : y < i})
    <2>3. \A n \in D : below(b[n]) = n - 1
        BY <1>3, NumbersByRank
    <2> HIDE DEF below, b
    <2>4. ASSUME NEW m \in D, NEW n \in D, b[m] = b[n] PROVE m = n
        <3>1. m - 1 = n - 1 /\ m \in Int /\ n \in Int
            BY <2>3, <2>4
        <3> QED
            BY <3>1
    <2> QED
        BY <2>2, <2>4 DEF Bijection, Injection, IsInjective, Surjection
<1> HIDE DEF b, D
<1>5. Amounts(rows, a) \in [DOMAIN rows -> Int] /\ IsFiniteSet(DOMAIN rows)
    BY AmountsType
<1>6. f \in [P -> Int]
    BY <1>1, <1>5
<1>7. DOMAIN x = D
    BY <1>3
<1>8. g \in [D -> Int]
    BY <1>3, <1>7, AmountsType
<1>9. \A k \in D : g[k] = f[b[k]]
    BY <1>1, <1>3, <1>7 DEF Amounts
<1>10. SumFunction(f) = SumFunctionOnSet(Amounts(rows, a), P)
    <2>1. \A n \in P : f[n] = Amounts(rows, a)[n]
        OBVIOUS
    <2> HIDE DEF f
    <2> QED
        BY <1>1, <1>5, <1>6, <2>1, SameSum
<1> HIDE DEF f, g
<1>11. SumFunction(g) = SumFunction(f)
    <2>1. Counts(g, D, b, f, P)
        BY <1>4, <1>6, <1>8, <1>9 DEF Counts
    <2> QED
        BY <1>3, <2>1, SumByBijection
<1>12. Total(x, a) = SumFunction(g)
    BY DEF Total, g, Amounts
<1> QED
    BY <1>10, <1>11, <1>12 DEF x, P

Groupings(rows, c) == {Field(rows[n], c) : n \in DOMAIN rows}

LEMMA GroupingsType ==
    ASSUME NEW rows \in Seq(Rows), NEW c
    PROVE  Groupings(rows, c) \in SUBSET (Nat \cup {Empty}) /\ IsFiniteSet(Groupings(rows, c))
<1> DEFINE K == Groupings(rows, c)
           S == DOMAIN rows
           f == [n \in S |-> Field(rows[n], c)]
<1>1. IsFiniteSet(S) /\ \A n \in S : Field(rows[n], c) \in Nat \cup {Empty}
    BY AmountsType
<1>2. f \in Surjection(S, K)
    BY DEF Surjection, Groupings
<1> HIDE DEF f, S, K
<1>3. IsFiniteSet(K)
    BY <1>1, <1>2, FS_Surjection
<1> QED
    BY <1>1, <1>3 DEF K, S, Groupings

(* The rows GROUP BY gives, before they are sorted.                         *)
LEMMA GroupedRows ==
    ASSUME NEW rows \in Seq(Rows), NEW q,
           q.group \notin (IF q.sums = {} THEN {"count"} ELSE q.sums)
    PROVE  LET K == Groupings(rows, q.group)
               G == Grouped(q, rows)
               In(n) == With(rows, q.group, KeysOf(K)[n])
           IN  /\ DOMAIN G = 1..Cardinality(K) /\ G \in Seq(Range(G))
               /\ \A n \in DOMAIN G :
                     /\ q.group \in DOMAIN G[n] /\ G[n][q.group] = KeysOf(K)[n]
                     /\ q.sums = {} => "count" \in DOMAIN G[n] /\ G[n]["count"] = Len(In(n))
                     /\ \A c \in q.sums : c \in DOMAIN G[n] /\ G[n][c] = Total(In(n), c)
<1> DEFINE g == q.group
           K == Groupings(rows, g)
           k == KeysOf(K)
           G == Grouped(q, rows)
           In(n) == With(rows, g, k[n])
           D == 1..Cardinality(K)
           Sums(n) == [s \in q.sums |-> Total(In(n), s)]
           Count(n) == [c \in {"count"} |-> Len(In(n))]
           Key(n) == [c \in {g} |-> k[n]]
<1>1. k = InOrder(K, LAMBDA v, w : Lexical(v) < Lexical(w)) /\ DOMAIN k = D
    BY DEF InOrder, KeysOf
<1>2. G = [n \in D |-> Extend(IF q.sums # {} THEN Sums(n) ELSE Count(n), Key(n))]
    <2> DEFINE l == InOrder({Field(rows[n], q.group) : n \in DOMAIN rows},
                            LAMBDA v, w : Lexical(v) < Lexical(w))
    <2>1. l = k
        BY <1>1 DEF Groupings
    <2>2. G = [n \in DOMAIN l |->
                  Extend(IF q.sums # {} THEN [s \in q.sums |-> Total(With(rows, q.group, l[n]), s)]
                         ELSE [c \in {"count"} |-> Len(With(rows, q.group, l[n]))],
                         [c \in {q.group} |-> l[n]])]
        BY DEF Grouped
    <2> HIDE DEF l, k, G, K
    <2> QED
        BY <1>1, <2>1, <2>2
<1>3. Cardinality(K) \in Nat
    BY GroupingsType, FS_CardinalityType
<1>4. DOMAIN G = D
    BY <1>2
<1>5. G \in Seq(Range(G))
    <2> HIDE DEF G, K
    <2>1. G \in [D -> Range(G)]
        BY <1>2, <1>4 DEF Range
    <2> QED
        BY <1>3, <2>1, IntervalSeq
<1>6. ASSUME NEW n \in D
      PROVE  /\ g \in DOMAIN G[n] /\ G[n][g] = k[n]
             /\ q.sums = {} => "count" \in DOMAIN G[n] /\ G[n]["count"] = Len(In(n))
             /\ \A c \in q.sums : c \in DOMAIN G[n] /\ G[n][c] = Total(In(n), c)
    <2> DEFINE x == IF q.sums # {} THEN Sums(n) ELSE Count(n)
    <2>1. G[n] = Extend(x, Key(n))
        BY <1>2
    <2>2. /\ q.sums = {} => DOMAIN x = {"count"} /\ x["count"] = Len(In(n))
          /\ q.sums # {} => DOMAIN x = q.sums /\ \A c \in q.sums : x[c] = Total(In(n), c)
        OBVIOUS
    <2>3. g \notin DOMAIN x
        BY <2>2
    <2> HIDE DEF x, In, G, k
    <2>4. /\ DOMAIN G[n] = DOMAIN x \cup {g}
          /\ \A c \in DOMAIN x : G[n][c] = x[c]
          /\ G[n][g] = k[n]
        BY <2>1, <2>3 DEF Extend
    <2> QED
        BY <2>2, <2>4
<1> QED
    BY <1>4, <1>5, <1>6

(* The query without its grouping. *)
Flat(q) == [q EXCEPT !.group = NoName, !.order = NoName, !.sums = {}, !.cols = {"*"}]

LEMMA FlatAnswer ==
    ASSUME NEW d \in Databases, NEW q, IsQuery(q), IsUnpaged(q)
    PROVE  Generic(d, Flat(q)) = {Gathered(d, q)}
<1> DEFINE r == Flat(q)
           rows == Gathered(d, q)
<1>1. /\ r.table = q.table /\ r.joins = q.joins /\ r.conds = q.conds /\ r.skip = q.skip
      /\ r.limit = q.limit /\ r.group = NoName /\ r.order = NoName /\ r.cols = {"*"}
    BY DEF Flat, IsQuery
<1> HIDE DEF r
<1>2. BaseConds(r) = BaseConds(q) /\ PostConds(r) = PostConds(q)
    BY <1>1 DEF BaseConds, PostConds
<1>3. \A x : Joined(d, r, x) = Joined(d, q, x) /\ Filtered(r, x) = Filtered(q, x)
    BY <1>1, <1>2 DEF Joined, Filtered
<1>4. rows = Filtered(r, Joined(d, r, Scan(Table(d, r.table), BaseConds(r), r.skip, r.limit)))
    BY <1>1, <1>2, <1>3 DEF Gathered
<1>5. Page(rows, 0, -1) = rows
    BY GatheredType, PageOfAll
<1> HIDE DEF rows
<1>6. Sorted(r, Projected(r, rows)) = {rows}
    BY <1>1 DEF Sorted, Projected
<1>7. Generic(d, r) = {IF Aggregates(r) THEN Page(s, r.skip, r.limit) ELSE s : s \in Sorted(r, Projected(r, rows))}
    BY <1>1, <1>4 DEF Generic
<1>8. r.skip = 0 /\ r.limit = -1
    BY <1>1 DEF IsUnpaged
<1> QED
    BY <1>5, <1>6, <1>7, <1>8 DEF r, rows

LEMMA GroupedAnswer ==
    ASSUME NEW d, NEW q, q.group # NoName, IsUnpaged(q),
           NEW a \in Generic(d, q), NEW V, Grouped(q, Gathered(d, q)) \in Seq(V)
    PROVE  \E p : Permutes(p, a, Grouped(q, Gathered(d, q)))
<1> DEFINE G == Grouped(q, Gathered(d, q))
<1>1. Aggregates(q) /\ q.skip = 0 /\ q.limit = -1
    BY DEF Aggregates, IsUnpaged
<1>2. Generic(d, q) = {Page(s, 0, -1) : s \in Sorted(q, G)}
    BY <1>1 DEF Generic, Gathered
<1>3. PICK s \in Sorted(q, G) : a = Page(s, 0, -1)
    BY <1>2
<1> HIDE DEF G
<1>4. PICK p : Permutes(p, s, G)
    BY <1>3, SortingPermutes DEF G
<1>5. s \in Seq(Range(s))
    <2>1. DOMAIN s = 1..Len(G) /\ Len(G) \in Nat
        BY <1>4, LenProperties DEF Permutes, G
    <2>2. s = [n \in DOMAIN s |-> s[n]]
        <3>1. CASE q.order = NoName
            BY <1>3, <3>1, LenProperties DEF Sorted, G
        <3>2. CASE q.order # NoName
            BY <1>3, <3>2 DEF Sorted
        <3> QED
            BY <3>1, <3>2
    <2>3. s \in [1..Len(G) -> Range(s)]
        BY <2>1, <2>2 DEF Range
    <2> QED
        BY <2>1, <2>3, IntervalSeq
<1>6. a = s
    BY <1>3, <1>5, PageOfAll
<1> QED
    BY <1>4, <1>6 DEF G

(* What is added up group by group is added up once.                        *)
LEMMA SumInGroups ==
    ASSUME NEW rows \in Seq(Rows), NEW g, NEW f \in [DOMAIN rows -> Int],
           NEW h, h = [v \in Groupings(rows, g) |-> SumFunctionOnSet(f, InGroup(rows, g, v))]
    PROVE  h \in [Groupings(rows, g) -> Int] /\ SumFunction(h) = SumFunction(f)
<1> DEFINE S == DOMAIN rows
           K == Groupings(rows, g)
           of == [n \in S |-> Field(rows[n], g)]
<1>1. IsFiniteSet(S) /\ IsFiniteSet(K)
    BY AmountsType, GroupingsType
<1>2. of \in [S -> K]
    BY DEF Groupings
<1>3. \A v \in K : h[v] = SumFunctionOnSet(f, {n \in S : of[n] = v})
    <2> SUFFICES ASSUME NEW v \in K PROVE h[v] = SumFunctionOnSet(f, {n \in S : of[n] = v})
        OBVIOUS
    <2>1. InGroup(rows, g, v) = {n \in S : of[n] = v}
        BY DEF InGroup
    <2> QED
        BY <2>1
<1> HIDE DEF S, K, of
<1>4. h \in [K -> Int]
    <2>1. \A v \in K : SumFunctionOnSet(f, InGroup(rows, g, v)) \in Int
        <3> SUFFICES ASSUME NEW v \in K PROVE SumFunctionOnSet(f, InGroup(rows, g, v)) \in Int
            OBVIOUS
        <3>1. InGroup(rows, g, v) \in SUBSET S
            BY DEF InGroup, S
        <3> QED
            BY <1>1, <3>1, SumsOnSubsets DEF S
    <2> QED
        BY <2>1 DEF K
<1>5. Groups(f, S, of, K, h)
    BY <1>2, <1>3, <1>4 DEF Groups, S
<1> QED
    BY <1>1, <1>4, <1>5, SumByGroups DEF K

(* GROUP BY counts, and adds up, every row in exactly one group. *)
THEOREM GroupsPartitionRowsHolds == Spec => []GroupsPartitionRows
<1>1. ASSUME SelectInv PROVE GroupsPartitionRows
    <2> DEFINE g == query.group
               flat == Only(Generic(db, Flat(query)))
               Col(c) == [n \in DOMAIN answer |-> answer[n][c]]
    <2> SUFFICES ASSUME query # NoQuery, g # NoName, IsUnpaged(query),
                        g \notin (IF query.sums = {} THEN {"count"} ELSE query.sums)
                 PROVE  /\ \A m, n \in DOMAIN answer : answer[m][g] = answer[n][g] => m = n
                        /\ query.sums = {} => SumFunction(Col("count")) = Len(flat)
                        /\ \A c \in query.sums : SumFunction(Col(c)) = Total(flat, c)
        BY DEF GroupsPartitionRows, Flat
    <2> DEFINE rows == Gathered(db, query)
               G == Grouped(query, rows)
               K == Groupings(rows, g)
               k == KeysOf(K)
               D == DOMAIN G
    <2>1. db \in Databases /\ query \in Queries /\ IsQuery(query) /\ answer \in Generic(db, query)
        BY <1>1, QueryAssumption DEF SelectInv, PushesOrder, Aggregates
    <2>2. flat = rows
        BY <2>1, FlatAnswer DEF Only
    <2>3. rows \in Seq(Rows)
        BY <2>1, GatheredType
    <2>4. /\ D = 1..Cardinality(K) /\ G \in Seq(Range(G))
          /\ \A n \in D :
                /\ g \in DOMAIN G[n] /\ G[n][g] = k[n]
                /\ query.sums = {} => "count" \in DOMAIN G[n] /\ G[n]["count"] = Len(With(rows, g, k[n]))
                /\ \A c \in query.sums : c \in DOMAIN G[n] /\ G[n][c] = Total(With(rows, g, k[n]), c)
        <3> HIDE DEF rows
        <3> QED BY <2>3, GroupedRows
    <2>5. PICK p : Permutes(p, answer, G)
        BY <2>1, <2>4, GroupedAnswer
    <2>6. k \in Bijection(D, K) /\ IsFiniteSet(K)
        BY <2>3, <2>4, GroupingsType, KeysListed
    <2> HIDE DEF rows, G, K, k
    <2> DEFINE b == [n \in D |-> k[p[n]]]
    <2>7. DOMAIN answer = D /\ p \in Bijection(D, D)
        BY <2>5 DEF Permutes
    <2> HIDE DEF D
    <2>8. b \in Bijection(D, K)
        BY <2>6, <2>7 DEF Bijection, Injection, IsInjective, Surjection
    <2>9. ASSUME NEW n \in D
          PROVE  /\ answer[n][g] = b[n]
                 /\ query.sums = {} => answer[n]["count"] = Len(With(rows, g, b[n]))
                 /\ \A c \in query.sums : answer[n][c] = Total(With(rows, g, b[n]), c)
        <3>1. p[n] \in D /\ b[n] = k[p[n]]
            BY <2>7 DEF Bijection, Injection
        <3>2. \A c \in DOMAIN G[p[n]] : answer[n][c] = G[p[n]][c]
            BY <2>5 DEF Permutes, D
        <3> HIDE DEF b
        <3> QED
            BY <2>4, <3>1, <3>2
    <2> HIDE DEF b
    <2>10. \A m, n \in DOMAIN answer : answer[m][g] = answer[n][g] => m = n
        BY <2>7, <2>8, <2>9 DEF Bijection, Injection, IsInjective
    <2>11. ASSUME NEW c, NEW f \in [DOMAIN rows -> Int],
                  \A n \in D : answer[n][c] = SumFunctionOnSet(f, InGroup(rows, g, b[n]))
           PROVE  SumFunction(Col(c)) = SumFunction(f)
        <3> DEFINE h == [v \in K |-> SumFunctionOnSet(f, InGroup(rows, g, v))]
                   x == Col(c)
        <3>1. h \in [K -> Int] /\ SumFunction(h) = SumFunction(f)
            BY <2>3, SumInGroups DEF K
        <3>2. \A n \in D : b[n] \in K /\ h[b[n]] = SumFunctionOnSet(f, InGroup(rows, g, b[n]))
            BY <2>8 DEF Bijection, Injection
        <3>3. \A n \in D : x[n] = h[b[n]]
            BY <2>7, <2>11, <3>2
        <3> HIDE DEF h
        <3>4. x \in [D -> Int]
            BY <2>7, <3>1, <3>2, <3>3
        <3> HIDE DEF x
        <3>5. Counts(x, D, b, h, K)
            BY <2>8, <3>1, <3>3, <3>4 DEF Counts
        <3>6. SumFunction(x) = SumFunction(h)
            BY <2>6, <3>5, SumByBijection
        <3> QED
            BY <3>1, <3>6 DEF x
    <2>12. ASSUME query.sums = {} PROVE SumFunction(Col("count")) = Len(rows)
        <3> DEFINE S == DOMAIN rows
                   f == [n \in S |-> 1]
        <3>1. IsFiniteSet(S) /\ S = 1..Len(rows) /\ Len(rows) \in Nat
            BY <2>3, AmountsType, LenProperties
        <3>2. \A s \in SUBSET S : SumFunctionOnSet(f, s) = Cardinality(s)
            <4> HIDE DEF S
            <4> QED BY <3>1, SumOfOnes
        <3>3. f \in [S -> Int]
            OBVIOUS
        <3> HIDE DEF f
        <3>4. \A n \in D : answer[n]["count"] = SumFunctionOnSet(f, InGroup(rows, g, b[n]))
            <4> SUFFICES ASSUME NEW n \in D
                         PROVE  answer[n]["count"] = SumFunctionOnSet(f, InGroup(rows, g, b[n]))
                OBVIOUS
            <4>1. answer[n]["count"] = Len(With(rows, g, b[n]))
                BY <2>9, <2>12
            <4>2. Len(With(rows, g, b[n])) = Cardinality(InGroup(rows, g, b[n]))
                BY <2>3, GroupSize
            <4>3. InGroup(rows, g, b[n]) \in SUBSET S
                BY DEF InGroup
            <4> QED
                BY <3>2, <4>1, <4>2, <4>3
        <3>5. SumFunction(Col("count")) = SumFunction(f)
            BY <2>11, <3>3, <3>4
        <3>6. SumFunction(f) = SumFunctionOnSet(f, S)
            BY <3>1, <3>3, SumsOnSubsets
        <3>7. Cardinality(S) = Len(rows)
            BY <3>1, AllNumbers
        <3> QED
            BY <3>2, <3>5, <3>6, <3>7
    <2>13. ASSUME NEW c \in query.sums PROVE SumFunction(Col(c)) = Total(rows, c)
        <3>1. Amounts(rows, c) \in [DOMAIN rows -> Int]
            BY <2>3, AmountsType
        <3>2. \A n \in D : answer[n][c] = SumFunctionOnSet(Amounts(rows, c), InGroup(rows, g, b[n]))
            <4> SUFFICES ASSUME NEW n \in D
                         PROVE  answer[n][c] = SumFunctionOnSet(Amounts(rows, c), InGroup(rows, g, b[n]))
                OBVIOUS
            <4>1. answer[n][c] = Total(With(rows, g, b[n]), c)
                BY <2>9
            <4>2. Total(With(rows, g, b[n]), c) = SumFunctionOnSet(Amounts(rows, c), InGroup(rows, g, b[n]))
                BY <2>3, GroupTotal
            <4> QED
                BY <4>1, <4>2
        <3>3. SumFunction(Col(c)) = SumFunction(Amounts(rows, c))
            BY <2>11, <3>1, <3>2
        <3> QED
            BY <3>3 DEF Total, Amounts
    <2> QED
        BY <2>2, <2>10, <2>12, <2>13
<1> QED
    BY <1>1, SelectInvHolds, PTL

-----------------------------------------------------------------------------
(* A join and its pairs *)

Sooner(p, r) == p[1] < r[1] \/ (p[1] = r[1] /\ p[2] < r[2])

Couples == Nat \X Nat

(* A sequence has these pairs, each of them once, in their order.           *)
Lists(l, A) ==
    /\ l \in Seq(Couples) /\ \A n \in DOMAIN l : l[n] \in A
    /\ \A x \in A : \E n \in DOMAIN l : l[n] = x
    /\ \A m, n \in DOMAIN l : m < n => Sooner(l[m], l[n])

(* A row has the columns of the left row, and then those of the right one.  *)
Merges(d, q, row, p) ==
    LET left == Table(d, q.table)[p[1]]
    IN  /\ DOMAIN left \subseteq DOMAIN row
        /\ \A c : Field(row, c) = IF c \in DOMAIN left THEN left[c] ELSE OnRight(d, q, p, c)

(* These rows answer for these pairs. *)
AnswersFor(d, q, s, l, A) ==
    /\ Lists(l, A) /\ Len(s) = Len(l)
    /\ \A n \in 1..Len(l) : Merges(d, q, s[n], l[n])

LEMMA NothingListed ==
    ASSUME NEW d, NEW q
    PROVE  AnswersFor(d, q, << >>, << >>, {})
<1>1. << >> \in Seq(Couples) /\ Len(<< >>) = 0 /\ DOMAIN << >> = {}
    BY EmptySeq
<1> QED
    BY <1>1 DEF AnswersFor, Lists

LEMMA ListsOneAfterTheOther ==
    ASSUME NEW A \in SUBSET Couples, NEW B \in SUBSET Couples, NEW a, NEW b, Lists(a, A), Lists(b, B),
           \A x \in A : \A y \in B : Sooner(x, y)
    PROVE  Lists(a \o b, A \cup B)
<1> DEFINE s == a \o b
           l == Len(a)
           m == Len(b)
<1>1. a \in Seq(Couples) /\ b \in Seq(Couples)
    BY DEF Lists
<1>2. /\ l \in Nat /\ m \in Nat /\ s \in Seq(Couples) /\ Len(s) = l + m
      /\ DOMAIN a = 1..l /\ DOMAIN b = 1..m /\ DOMAIN s = 1..(l + m)
      /\ \A i \in 1..l : s[i] = a[i]
      /\ \A i \in 1..m : s[i + l] = b[i]
    BY <1>1, ConcatParts
<1>3. /\ \A i \in 1..l : a[i] \in A
      /\ \A x \in A : \E i \in 1..l : a[i] = x
      /\ \A i, j \in 1..l : i < j => Sooner(a[i], a[j])
    BY <1>2 DEF Lists
<1>4. /\ \A i \in 1..m : b[i] \in B
      /\ \A x \in B : \E i \in 1..m : b[i] = x
      /\ \A i, j \in 1..m : i < j => Sooner(b[i], b[j])
    BY <1>2 DEF Lists
<1> HIDE DEF s, l, m
<1>5. \A n \in 1..(l + m) : n \in 1..l \/ \E i \in 1..m : n = i + l
    <2> SUFFICES ASSUME NEW n \in 1..(l + m), n \notin 1..l PROVE \E i \in 1..m : n = i + l
        OBVIOUS
    <2>1. n - l \in 1..m /\ n = (n - l) + l
        BY <1>2
    <2> QED
        BY <2>1
<1>6. ASSUME NEW n \in 1..(l + m) PROVE s[n] \in A \cup B
    <2>1. CASE n \in 1..l
        BY <1>2, <1>3, <2>1
    <2>2. CASE \E i \in 1..m : n = i + l
        BY <1>2, <1>4, <2>2
    <2> QED
        BY <1>5, <2>1, <2>2
<1>7. \A x \in A \cup B : \E n \in 1..(l + m) : s[n] = x
    <2>1. \A i \in 1..l : i \in 1..(l + m)
        BY <1>2
    <2>2. \A i \in 1..m : i + l \in 1..(l + m)
        BY <1>2
    <2> QED
        BY <1>2, <1>3, <1>4, <2>1, <2>2
<1>8. ASSUME NEW i \in 1..(l + m), NEW j \in 1..(l + m), i < j PROVE Sooner(s[i], s[j])
    <2>1. CASE j \in 1..l
        <3>1. i \in 1..l
            BY <1>2, <1>8, <2>1
        <3> QED
            BY <1>2, <1>3, <1>8, <2>1, <3>1
    <2>2. CASE i \in 1..l /\ j \notin 1..l
        <3>1. PICK h \in 1..m : j = h + l
            BY <1>5, <2>2
        <3>2. s[i] = a[i] /\ a[i] \in A
            BY <1>2, <1>3, <2>2
        <3>3. s[j] = b[h] /\ b[h] \in B
            BY <1>2, <1>4, <3>1
        <3> QED
            BY <3>2, <3>3
    <2>3. CASE i \notin 1..l
        <3>1. PICK g \in 1..m : i = g + l
            BY <1>5, <2>3
        <3>2. j \notin 1..l
            BY <1>2, <1>8, <3>1
        <3>3. PICK h \in 1..m : j = h + l
            BY <1>5, <3>2
        <3>4. g < h
            BY <1>2, <1>8, <3>1, <3>3
        <3>5. Sooner(b[g], b[h])
            BY <1>4, <3>4
        <3> QED
            BY <1>2, <3>1, <3>3, <3>5
    <2> QED
        BY <2>1, <2>2, <2>3
<1> QED
    BY <1>2, <1>6, <1>7, <1>8 DEF Lists, s

LEMMA AnswersOneAfterTheOther ==
    ASSUME NEW d, NEW q, NEW A \in SUBSET Couples, NEW B \in SUBSET Couples,
           NEW s \in Seq(Rows), NEW t \in Seq(Rows), NEW a, NEW b,
           AnswersFor(d, q, s, a, A), AnswersFor(d, q, t, b, B),
           \A x \in A : \A y \in B : Sooner(x, y)
    PROVE  AnswersFor(d, q, s \o t, a \o b, A \cup B)
<1>1. Lists(a, A) /\ Lists(b, B) /\ Len(s) = Len(a) /\ Len(t) = Len(b)
    BY DEF AnswersFor
<1>2. Lists(a \o b, A \cup B)
    BY <1>1, ListsOneAfterTheOther
<1> DEFINE l == Len(a)
           m == Len(b)
           x == s \o t
           y == a \o b
<1>3. a \in Seq(Couples) /\ b \in Seq(Couples)
    BY <1>1 DEF Lists
<1>4. /\ l \in Nat /\ m \in Nat /\ Len(y) = l + m
      /\ \A i \in 1..l : y[i] = a[i]
      /\ \A i \in 1..m : y[i + l] = b[i]
    BY <1>3, ConcatParts
<1>5. /\ Len(x) = l + m
      /\ \A i \in 1..l : x[i] = s[i]
      /\ \A i \in 1..m : x[i + l] = t[i]
    <2>1. /\ Len(x) = Len(s) + Len(t)
          /\ \A i \in 1..Len(s) : x[i] = s[i]
          /\ \A i \in 1..Len(t) : x[i + Len(s)] = t[i]
        BY ConcatParts
    <2> HIDE DEF x
    <2> QED
        BY <1>1, <2>1
<1>6. /\ \A i \in 1..l : Merges(d, q, s[i], a[i])
      /\ \A i \in 1..m : Merges(d, q, t[i], b[i])
    BY DEF AnswersFor
<1> HIDE DEF l, m, x, y
<1>7. ASSUME NEW n \in 1..(l + m) PROVE Merges(d, q, x[n], y[n])
    <2>1. CASE n \in 1..l
        BY <1>4, <1>5, <1>6, <2>1
    <2>2. CASE n \notin 1..l
        <3> DEFINE i == n - l
        <3>1. i \in 1..m /\ n = i + l
            BY <1>4, <2>2
        <3> HIDE DEF i
        <3> QED
            BY <1>4, <1>5, <1>6, <3>1
    <2> QED
        BY <2>1, <2>2
<1> QED
    BY <1>2, <1>4, <1>5, <1>7 DEF AnswersFor, x, y

LEMMA AnswersPicked ==
    ASSUME NEW d, NEW q, NEW A, NEW s \in Seq(Rows), NEW l,
           AnswersFor(d, q, s, l, A), NEW P \in SUBSET DOMAIN s
    PROVE  AnswersFor(d, q, Picked(s, P), Picked(l, P), {l[n] : n \in P})
<1> DEFINE b == NumbersOf(P)
           D == 1..Cardinality(P)
           x == Picked(s, P)
           y == Picked(l, P)
           B == {l[n] : n \in P}
<1>1. /\ l \in Seq(Couples) /\ DOMAIN l = DOMAIN s /\ DOMAIN l = 1..Len(l)
      /\ \A m, n \in DOMAIN l : m < n => Sooner(l[m], l[n])
      /\ \A n \in DOMAIN l : Merges(d, q, s[n], l[n])
    BY LenProperties DEF AnswersFor, Lists
<1>2. /\ IsFiniteSet(P) /\ P \in SUBSET Nat /\ x = [n \in D |-> s[b[n]]]
      /\ Len(x) = Cardinality(P) /\ \A n \in D : b[n] \in P
    BY PickedType
<1>3. y = [n \in D |-> l[b[n]]] /\ y \in Seq(Couples) /\ Len(y) = Cardinality(P) /\ DOMAIN y = D
    <2>1. P \in SUBSET DOMAIN l
        BY <1>1
    <2> QED
        BY <1>1, <2>1, PickedType
<1>4. \A m, n \in D : m < n => b[m] < b[n]
    BY <1>2, NumbersIncrease
<1>5. \A i \in P : \E n \in D : b[n] = i
    <2>1. b \in Seq(P) /\ Len(b) = Cardinality(P) /\ \A i \in P : \E n \in DOMAIN b : b[n] = i
        BY <1>2, NumbersInOrder
    <2> QED
        BY <2>1, LenProperties
<1> HIDE DEF b, D, x, y
<1>6. Lists(y, B)
    <2>1. \A n \in D : y[n] \in B
        BY <1>2, <1>3
    <2>2. \A i \in P : \E n \in D : y[n] = l[i]
        BY <1>3, <1>5
    <2>3. ASSUME NEW m \in D, NEW n \in D, m < n PROVE Sooner(y[m], y[n])
        <3>1. b[m] \in DOMAIN l /\ b[n] \in DOMAIN l /\ b[m] < b[n]
            BY <1>1, <1>2, <1>4, <2>3
        <3> QED
            BY <1>1, <1>3, <3>1
    <2> QED
        BY <1>3, <2>1, <2>2, <2>3 DEF Lists
<1>7. \A n \in D : Merges(d, q, x[n], y[n])
    BY <1>1, <1>2, <1>3
<1> HIDE DEF B
<1>8. AnswersFor(d, q, x, y, B)
    BY <1>2, <1>3, <1>6, <1>7 DEF AnswersFor, D
<1> QED
    BY <1>8 DEF x, y, B

(* The pairs of one row of the left table.                                  *)
PairsOf(d, q, m) ==
    ({m} \X Partners(d, q, m))
        \cup (IF q.joins[1].type = "LEFT" /\ Partners(d, q, m) = {} THEN {<<m, 0>>} ELSE {})

LEMMA PairsType ==
    ASSUME NEW d \in Databases, NEW q, NEW m \in Nat
    PROVE  /\ PairsOf(d, q, m) \in SUBSET Couples /\ \A p \in PairsOf(d, q, m) : p[1] = m
           /\ Partners(d, q, m) \in SUBSET DOMAIN Table(d, q.joins[1].rightTable)
           /\ \A n \in Partners(d, q, m) : n \in Nat /\ n # 0
<1> DEFINE right == Table(d, q.joins[1].rightTable)
<1>1. \A n \in DOMAIN right : n \in Nat /\ n # 0
    BY TablesAreRows, LenProperties
<1>2. Partners(d, q, m) \in SUBSET DOMAIN right
    BY DEF Partners
<1> HIDE DEF right
<1>3. \A n \in Partners(d, q, m) : n \in Nat /\ n # 0
    BY <1>1, <1>2
<1> QED
    BY <1>2, <1>3 DEF PairsOf, Couples, right

(* What the join makes of one row on the left.                              *)
LEMMA AnswersOfOneRow ==
    ASSUME NEW d \in Databases, NEW q, NEW m \in DOMAIN Table(d, q.table),
           RightIsFound(d, q.joins[1])
    PROVE  \E l : AnswersFor(d, q, JoinRow(d, Table(d, q.table)[m], q.joins[1]),
                             l, PairsOf(d, q, m))
<1> DEFINE j == q.joins[1]
           right == Table(d, j.rightTable)
           row == Table(d, q.table)[m]
           Q == Partners(d, q, m)
           hits == With(right, j.rightField, Field(row, j.leftField))
           D == 1..Cardinality(Q)
           b == NumbersOf(Q)
<1>1. m \in Nat /\ right \in Seq(Rows) /\ row \in Rows
    BY TablesAreRows, LenProperties, ElementOfSeq
<1>2. Q \in SUBSET DOMAIN right /\ \A n \in Q : n \in Nat /\ n # 0
    BY <1>1, PairsType
<1>3. hits = Picked(right, Q)
    BY DEF With, Partners
<1>4. /\ IsFiniteSet(Q) /\ Q \in SUBSET Nat /\ hits = [n \in D |-> right[b[n]]] /\ DOMAIN hits = D
      /\ hits \in Seq(Rows) /\ Len(hits) = Cardinality(Q) /\ \A n \in D : b[n] \in Q
    <2> HIDE DEF right, Q, hits
    <2> QED BY <1>1, <1>2, <1>3, PickedType
<1>5. hits = << >> <=> Q = {}
    <2>1. Cardinality(Q) = 0 <=> Q = {}
        BY <1>4, FS_EmptySet
    <2>2. Len(hits) = 0 <=> hits = << >>
        <3> HIDE DEF hits
        <3> QED BY <1>4, EmptySeq
    <2> QED
        BY <1>4, <2>1, <2>2
<1> DEFINE merged == [k \in DOMAIN hits |-> Extend(row, Touch(hits[k], {j.rightField}))]
<1>0. /\ hits = << >> /\ j.type = "LEFT" => JoinRow(d, row, j) = <<row>>
      /\ ~(hits = << >> /\ j.type = "LEFT") => JoinRow(d, row, j) = merged
    <2> DEFINE v == Field(row, j.leftField)
               x == [k \in DOMAIN hits |-> Touch(hits[k], {j.rightField})]
    <2>1. Hits(d, j, v) = x
        BY IndexFinds DEF Scanned
    <2>2. hits = << >> <=> x = << >>
        <3>1. DOMAIN x = DOMAIN hits
            OBVIOUS
        <3>2. hits = << >> <=> DOMAIN hits = {}
            <4> HIDE DEF hits
            <4> QED BY <1>4, LenProperties, EmptySeq
        <3>3. x = << >> <=> DOMAIN x = {}
            <4>1. x \in Seq(Range(x))
                <5>1. Cardinality(Q) \in Nat
                    BY <1>4, FS_CardinalityType
                <5>2. x \in [D -> Range(x)]
                    BY <1>4 DEF Range
                <5> HIDE DEF x
                <5> QED BY <5>1, <5>2, IntervalSeq
            <4> DEFINE R == Range(x)
            <4> HIDE DEF x
            <4> QED BY <4>1, LenProperties, EmptySeq
        <3> QED
            BY <3>1, <3>2, <3>3
    <2>3. JoinRow(d, row, j) = IF x = << >> /\ j.type = "LEFT" THEN <<row>>
                               ELSE [k \in DOMAIN x |-> Extend(row, x[k])]
        BY <2>1 DEF JoinRow
    <2>4. [k \in DOMAIN x |-> Extend(row, x[k])] = merged
        OBVIOUS
    <2> HIDE DEF x, hits, merged
    <2> QED
        BY <2>2, <2>3, <2>4
<1>6. CASE hits = << >> /\ j.type = "LEFT"
    <2> DEFINE p == <<m, 0>>
               l == <<p>>
    <2>1. JoinRow(d, row, j) = <<row>>
        BY <1>0, <1>6
    <2>2. PairsOf(d, q, m) = {p}
        BY <1>5, <1>6 DEF PairsOf
    <2>3. l \in Seq(Couples) /\ DOMAIN l = {1} /\ l[1] = p /\ Len(l) = 1 /\ ~(1 < 1)
        BY <1>1 DEF Couples
    <2>4. Lists(l, {p})
        <3> HIDE DEF l
        <3> QED BY <2>3 DEF Lists
    <2>5. Merges(d, q, row, p)
        BY DEF Merges, OnRight, Field
    <2>6. Len(<<row>>) = 1 /\ <<row>>[1] = row
        OBVIOUS
    <2> HIDE DEF l, p
    <2>7. \A n \in 1..1 : n = 1
        OBVIOUS
    <2>8. AnswersFor(d, q, <<row>>, l, {p})
        BY <2>3, <2>4, <2>5, <2>6, <2>7 DEF AnswersFor
    <2> QED
        BY <2>1, <2>2, <2>8
<1>7. CASE ~(hits = << >> /\ j.type = "LEFT")
    <2> DEFINE l == [n \in D |-> <<m, b[n]>>]
               s == [k \in DOMAIN hits |-> Extend(row, Touch(hits[k], {j.rightField}))]
    <2>1. JoinRow(d, row, j) = s
        BY <1>0, <1>7
    <2>2. PairsOf(d, q, m) = {m} \X Q
        BY <1>5, <1>7 DEF PairsOf
    <2>3. Cardinality(Q) \in Nat
        BY <1>4, FS_CardinalityType
    <2>4. l \in Seq(Couples) /\ Len(l) = Cardinality(Q) /\ DOMAIN l = D
        <3>1. l \in [D -> Couples]
            BY <1>1, <1>4 DEF Couples
        <3> HIDE DEF l
        <3> QED
            BY <2>3, <3>1, IntervalSeq
    <2>5. Lists(l, {m} \X Q)
        <3> DEFINE B == {m} \X Q
        <3>1. \A n \in D : l[n] \in B
            BY <1>4
        <3>2. ASSUME NEW x \in B PROVE \E n \in D : l[n] = x
            <4>1. PICK i \in Q : x = <<m, i>>
                OBVIOUS
            <4>2. \A k \in Q : \E n \in D : b[n] = k
                <5>1. b \in Seq(Q) /\ Len(b) = Cardinality(Q) /\ \A k \in Q : \E n \in DOMAIN b : b[n] = k
                    <6> HIDE DEF Q
                    <6> QED BY <1>4, NumbersInOrder
                <5> HIDE DEF b, Q
                <5> QED
                    BY <5>1, LenProperties
            <4> QED
                BY <4>1, <4>2
        <3>3. \A k, n \in D : k < n => b[k] < b[n]
            <4> HIDE DEF Q
            <4> QED BY <1>4, NumbersIncrease
        <3>4. \A k, n \in D : k < n => Sooner(l[k], l[n])
            BY <3>3 DEF Sooner
        <3> HIDE DEF l, B, D
        <3>5. Lists(l, B)
            BY <2>4, <3>1, <3>2, <3>4 DEF Lists
        <3> QED
            BY <3>5 DEF B
    <2>6. Len(s) = Cardinality(Q)
        <3> DEFINE V == Range(s)
        <3>1. s \in [D -> V]
            BY <1>4 DEF Range
        <3> HIDE DEF s, V
        <3> QED
            BY <2>3, <3>1, IntervalSeq
    <2>7. ASSUME NEW n \in D PROVE Merges(d, q, s[n], l[n])
        <3> DEFINE i == b[n]
                   other == Touch(right[i], {j.rightField})
        <3>1. s[n] = Extend(row, other) /\ l[n] = <<m, i>> /\ i # 0
            BY <1>2, <1>4
        <3>2. \A c : Field(other, c) = Field(right[i], c)
            BY DEF Field, Touch, Extend
        <3>3. \A c : OnRight(d, q, <<m, i>>, c) = Field(right[i], c)
            BY <3>1 DEF OnRight
        <3> HIDE DEF other, i, right
        <3>4. /\ DOMAIN row \subseteq DOMAIN Extend(row, other)
              /\ \A c : Field(Extend(row, other), c) = IF c \in DOMAIN row THEN row[c] ELSE Field(other, c)
            BY DEF Field, Extend
        <3> HIDE DEF s, l
        <3>5. l[n][1] = m
            BY <3>1
        <3> QED
            BY <3>1, <3>2, <3>3, <3>4, <3>5 DEF Merges
    <2> HIDE DEF l, s, Q
    <2>8. AnswersFor(d, q, s, l, {m} \X Q)
        BY <2>4, <2>5, <2>6, <2>7 DEF AnswersFor
    <2> QED
        BY <2>1, <2>2, <2>8
<1> QED
    BY <1>6, <1>7

(* And of the rows on the left that were scanned.                           *)
LEMMA AnswersOfJoin ==
    ASSUME NEW d \in Databases, NEW q, IsQuery(q), Len(q.joins) = 1,
           NEW B \in SUBSET DOMAIN Table(d, q.table), RightIsFound(d, q.joins[1])
    PROVE  \E l : AnswersFor(d, q, JoinedTo(d, Picked(Table(d, q.table), B), q.joins[1]), l,
                             UNION {PairsOf(d, q, m) : m \in B})
<1> DEFINE T == Table(d, q.table)
           j == q.joins[1]
           right == Table(d, j.rightTable)
           base == Picked(T, B)
           N == Cardinality(B)
           D == 1..N
           b == NumbersOf(B)
           seqs == [n \in DOMAIN base |-> JoinRow(d, base[n], j)]
           UpTo(i) == UNION {PairsOf(d, q, b[k]) : k \in 1..i}
<1>1. T \in Seq(Rows) /\ right \in Seq(Rows)
    BY TablesAreRows
<1>2. /\ IsFiniteSet(B) /\ B \in SUBSET Nat /\ base = [n \in D |-> T[b[n]]] /\ DOMAIN base = D
      /\ \A n \in D : b[n] \in B
    <2>1. B \in SUBSET DOMAIN T
        OBVIOUS
    <2> HIDE DEF T
    <2> QED BY <1>1, <2>1, PickedType
<1>3. N \in Nat
    BY <1>2, FS_CardinalityType
<1>4. j.rightField \in STRING
    <2>1. q.joins \in Seq(Range(q.joins)) /\ \A x \in Range(q.joins) : x.rightField \in STRING
        BY DEF IsQuery
    <2>2. j \in Range(q.joins)
        BY <2>1, ElementOfSeq
    <2> HIDE DEF j
    <2> QED
        BY <2>1, <2>2
<1> HIDE DEF T, j, right, base, b
<1>5. \A n \in D : T[b[n]] \in Rows /\ b[n] \in DOMAIN T
    BY <1>1, <1>2, LenProperties, ElementOfSeq DEF T
<1>6. seqs \in Seq(Seq(Rows)) /\ Len(seqs) = N
    <2>1. ASSUME NEW n \in D PROVE JoinRow(d, base[n], j) \in Seq(Rows)
        BY <1>1, <1>2, <1>4, <1>5, JoinRowType
    <2>2. seqs \in [D -> Seq(Rows)]
        BY <1>2, <2>1
    <2> HIDE DEF seqs
    <2> QED
        BY <1>3, <2>2, IntervalSeq
<1>7. PICK f \in [0..N -> Seq(Rows)] : Flattens(f, seqs)
    <2> HIDE DEF seqs, N
    <2> QED BY <1>6, FlattenInOrder
<1>8. \A n \in D : seqs[n] = JoinRow(d, T[b[n]], j)
    BY <1>2
<1>9. FlattenSeq(seqs) = JoinedTo(d, base, j)
    BY DEF JoinedTo
<1>10. /\ f[0] = << >> /\ f[N] = JoinedTo(d, base, j)
       /\ \A i \in D : f[i] = f[i - 1] \o seqs[i]
    <2> HIDE DEF seqs
    <2> QED BY <1>6, <1>7, <1>9 DEF Flattens
<1>11. \A m, n \in D : m < n => b[m] < b[n]
    BY <1>2, NumbersIncrease DEF b
<1> DEFINE Good == {i \in 0..N : \E l : AnswersFor(d, q, f[i], l, UpTo(i))}
           size == [i \in 0..N |-> i]
           I == 0..N
<1> HIDE DEF N
<1>12. 0 \in Good
    <2>1. UpTo(0) = {}
        OBVIOUS
    <2>2. 0 \in 0..N
        BY <1>3
    <2> QED
        <3>1. AnswersFor(d, q, f[0], << >>, {})
            BY <1>10, NothingListed
        <3> HIDE DEF UpTo
        <3>2. AnswersFor(d, q, f[0], << >>, UpTo(0))
            BY <2>1, <3>1
        <3> QED
            BY <2>2, <3>2
<1>13. ASSUME NEW i \in D, i - 1 \in Good PROVE i \in Good
    <2> DEFINE A == UpTo(i - 1)
               C == PairsOf(d, q, b[i])
    <2>1. i \in 0..N /\ i - 1 \in 0..N /\ (\A k \in 1..(i - 1) : k \in D /\ k < i)
          /\ 1..i = 1..(i - 1) \cup {i}
        BY <1>3
    <2>2. UpTo(i) = A \cup C
        BY <2>1
    <2>3. \A k \in D : /\ PairsOf(d, q, b[k]) \in SUBSET Couples
                       /\ \A p \in PairsOf(d, q, b[k]) : p[1] = b[k]
        <3> SUFFICES ASSUME NEW k \in D
                     PROVE  /\ PairsOf(d, q, b[k]) \in SUBSET Couples
                            /\ \A p \in PairsOf(d, q, b[k]) : p[1] = b[k]
            OBVIOUS
        <3>1. b[k] \in Nat
            BY <1>2
        <3> QED
            BY <3>1, PairsType
    <2>4. A \in SUBSET Couples /\ C \in SUBSET Couples
        BY <2>1, <2>3
    <2>5. \A x \in A : \A y \in C : Sooner(x, y)
        <3> SUFFICES ASSUME NEW k \in 1..(i - 1), NEW x \in PairsOf(d, q, b[k]), NEW y \in C
                     PROVE  Sooner(x, y)
            OBVIOUS
        <3>1. x[1] = b[k] /\ y[1] = b[i] /\ b[k] < b[i]
            BY <1>11, <2>1, <2>3
        <3> QED
            BY <3>1 DEF Sooner
    <2>6. PICK l : AnswersFor(d, q, f[i - 1], l, A)
        BY <1>13
    <2>7. PICK r : AnswersFor(d, q, seqs[i], r, C)
        <3>1. b[i] \in DOMAIN T
            BY <1>5
        <3>2. \E r : AnswersFor(d, q, JoinRow(d, T[b[i]], j), r, PairsOf(d, q, b[i]))
            BY <3>1, AnswersOfOneRow DEF T, j, right
        <3> QED
            BY <1>8, <3>2
    <2>8. f[i - 1] \in Seq(Rows) /\ seqs[i] \in Seq(Rows)
        <3>1. i \in 1..Len(seqs)
            BY <1>6
        <3> HIDE DEF seqs
        <3>2. seqs[i] \in Seq(Rows)
            BY <1>6, <3>1, ElementOfSeq
        <3> QED
            BY <1>7, <2>1, <3>2
    <2> HIDE DEF A, C, seqs
    <2>9. AnswersFor(d, q, f[i - 1] \o seqs[i], l \o r, A \cup C)
        BY <2>4, <2>5, <2>6, <2>7, <2>8, AnswersOneAfterTheOther
    <2>10. AnswersFor(d, q, f[i], l \o r, UpTo(i))
        BY <1>10, <2>2, <2>9
    <2> HIDE DEF UpTo
    <2> QED
        BY <2>1, <2>10
<1>14. ASSUME NEW i \in I, \A k \in I : size[k] < size[i] => k \in Good PROVE i \in Good
    <2>1. CASE i = 0
        BY <1>12, <2>1
    <2>2. CASE i # 0
        <3>1. i \in D /\ i - 1 \in I /\ size[i - 1] < size[i]
            BY <1>3, <2>2
        <3>2. i - 1 \in Good
            BY <1>14, <3>1
        <3> HIDE DEF Good
        <3> QED
            BY <1>13, <3>1, <3>2
    <2> QED
        BY <2>1, <2>2
<1>15. size \in [I -> Nat]
    BY <1>3
<1>16. N \in Good
    <2> HIDE DEF Good, size
    <2>1. N \in I
        BY <1>3
    <2> HIDE DEF I
    <2> QED
        BY <1>14, <1>15, <2>1, InductionBySize
<1>17. PICK l : AnswersFor(d, q, JoinedTo(d, base, j), l, UpTo(N))
    BY <1>10, <1>16
<1>18. UpTo(N) = UNION {PairsOf(d, q, m) : m \in B}
    <2>1. b \in Seq(B) /\ Len(b) = N /\ \A m \in B : \E n \in DOMAIN b : b[n] = m
        BY <1>2, NumbersInOrder DEF N, b
    <2>2. \A m \in B : \E n \in D : b[n] = m
        BY <2>1, LenProperties
    <2> QED
        BY <1>2, <2>2
<1> QED
    BY <1>17, <1>18 DEF base, T, j

(* The pairs that belong together and meet all conditions.                  *)
PairsMet(d, q) == {p \in Pairs(d, q) : Meets(d, q, p)}

(* A condition on the second table names no column of the first.            *)
Apart(d, q) ==
    \A m \in DOMAIN Table(d, q.table) : \A c \in PostConds(q) :
        c.key \notin DOMAIN Table(d, q.table)[m]

LEMMA PairsByRow ==
    ASSUME NEW d, NEW q, NEW p
    PROVE  /\ p \in Pairs(d, q) <=> \E m \in DOMAIN Table(d, q.table) : p \in PairsOf(d, q, m)
           /\ \A m : p \in PairsOf(d, q, m) => p[1] = m
  BY DEF Pairs, PairsOf

LEMMA MergesTouched ==
    ASSUME NEW d, NEW q, NEW row, NEW p, Merges(d, q, row, p), NEW C
    PROVE  Merges(d, q, Touch(row, C), p)
<1>1. \A c : Field(Touch(row, C), c) = Field(row, c)
    BY DEF Field, Touch, Extend
<1>2. DOMAIN row \subseteq DOMAIN Touch(row, C)
    BY DEF Touch, Extend
<1> QED
    BY <1>1, <1>2 DEF Merges

LEMMA AnswersOfQuery ==
    ASSUME NEW d \in Databases, NEW q, IsQuery(q), Len(q.joins) = 1, IsUnpaged(q), Apart(d, q),
           RightIsFound(d, q.joins[1])
    PROVE  \E l : AnswersFor(d, q, Gathered(d, q), l, PairsMet(d, q))
<1> DEFINE T == Table(d, q.table)
           B == {n \in DOMAIN T : Matches(T[n], BaseConds(q))}
           base == Picked(T, B)
           s == Joined(d, q, base)
           A == UNION {PairsOf(d, q, m) : m \in B}
           P == {n \in DOMAIN s : Matches(s[n], PostConds(q))}
           kept == Picked(s, P)
           K == {c.key : c \in PostConds(q)}
           shown == [n \in DOMAIN kept |-> Touch(kept[n], K)]
<1>1. T \in Seq(Rows) /\ B \in SUBSET DOMAIN T
    BY TablesAreRows
<1>2. base \in Seq(Rows)
    <2> HIDE DEF T, B
    <2> QED BY <1>1, PickedType
<1>3. Gathered(d, q) = shown
    <2>1. q.skip = 0 /\ q.limit = -1 /\ ~(q.limit > 0)
        BY DEF IsUnpaged
    <2>2. Scan(T, BaseConds(q), q.skip, q.limit) = Page(base, 0, -1)
        BY <2>1 DEF Scan, Where
    <2>3. Page(base, 0, -1) = base
        <3> HIDE DEF base
        <3> QED BY <1>2, PageOfAll
    <2>4. Gathered(d, q) = Filtered(q, s)
        <3> HIDE DEF base
        <3> QED BY <2>2, <2>3 DEF Gathered
    <2> HIDE DEF s
    <2> QED
        BY <2>4 DEF Filtered, Where
<1>4. s \in Seq(Rows) /\ s = JoinedTo(d, base, q.joins[1])
    <2> HIDE DEF base
    <2> QED BY <1>2, JoinedType
<1>5. PICK l : AnswersFor(d, q, s, l, A)
    <2>1. B \in SUBSET DOMAIN Table(d, q.table)
        BY <1>1
    <2> HIDE DEF B
    <2>2. \E l : AnswersFor(d, q, JoinedTo(d, Picked(Table(d, q.table), B), q.joins[1]), l,
                            UNION {PairsOf(d, q, m) : m \in B})
        BY <2>1, AnswersOfJoin
    <2> HIDE DEF s
    <2> QED BY <1>4, <2>2
<1> HIDE DEF base, s
<1>6. /\ l \in Seq(Couples) /\ DOMAIN l = DOMAIN s /\ DOMAIN l = 1..Len(l)
      /\ \A n \in DOMAIN l : l[n] \in A /\ Merges(d, q, s[n], l[n])
      /\ \A p \in A : \E n \in DOMAIN l : l[n] = p
    <2> HIDE DEF A
    <2> QED BY <1>4, <1>5, LenProperties DEF AnswersFor, Lists
<1>7. \A p : p \in A <=> p \in Pairs(d, q) /\ p[1] \in B
    BY PairsByRow
<1>8. ASSUME NEW n \in DOMAIN l
      PROVE  n \in P <=> \A c \in PostConds(q) : Holds(OnRight(d, q, l[n], c.key), c.op, c.value)
    <2>1. l[n][1] \in DOMAIN T /\ Merges(d, q, s[n], l[n])
        BY <1>6, <1>7
    <2>2. \A c \in PostConds(q) : Field(s[n], c.key) = OnRight(d, q, l[n], c.key)
        BY <2>1 DEF Merges, Apart
    <2> QED
        BY <1>6, <2>2 DEF Matches
<1>9. \A p \in Pairs(d, q) : p[1] \in B <=> \A c \in BaseConds(q) : Holds(OnLeft(d, q, p, c.key), c.op, c.value)
    <2> SUFFICES ASSUME NEW p \in Pairs(d, q)
                 PROVE  p[1] \in B <=> \A c \in BaseConds(q) : Holds(OnLeft(d, q, p, c.key), c.op, c.value)
        OBVIOUS
    <2>1. p[1] \in DOMAIN T
        BY PairsByRow
    <2> QED
        BY <2>1 DEF Matches, OnLeft
<1>10. \A p : p \in PairsMet(d, q) <=>
                /\ p \in A
                /\ \A c \in PostConds(q) : Holds(OnRight(d, q, p, c.key), c.op, c.value)
    <2> HIDE DEF A, B
    <2> QED
        BY <1>7, <1>9 DEF PairsMet, Meets
<1> HIDE DEF A, B
<1>11. {l[n] : n \in P} = PairsMet(d, q)
    <2>1. \A n \in P : l[n] \in PairsMet(d, q)
        BY <1>6, <1>8, <1>10
    <2>2. ASSUME NEW p \in PairsMet(d, q) PROVE \E n \in P : l[n] = p
        <3>1. PICK n \in DOMAIN l : l[n] = p
            BY <1>6, <1>10
        <3> QED
            BY <1>8, <1>10, <3>1
    <2> HIDE DEF P
    <2> QED
        BY <2>1, <2>2
<1> DEFINE r == Picked(l, P)
<1>12. AnswersFor(d, q, kept, r, PairsMet(d, q))
    <2>1. P \in SUBSET DOMAIN s
        OBVIOUS
    <2> HIDE DEF P, r, kept
    <2>2. AnswersFor(d, q, kept, r, {l[n] : n \in P})
        BY <1>4, <1>5, <2>1, AnswersPicked DEF r, kept
    <2> QED
        BY <1>11, <2>2
<1>13. kept \in Seq(Rows)
    <2>1. P \in SUBSET DOMAIN s
        OBVIOUS
    <2> HIDE DEF P
    <2> QED
        BY <1>4, <2>1, PickedType
<1> HIDE DEF kept, r
<1>14. AnswersFor(d, q, shown, r, PairsMet(d, q))
    <2>1. DOMAIN kept = 1..Len(kept) /\ Len(kept) \in Nat /\ Len(kept) = Len(r)
        BY <1>12, <1>13, LenProperties DEF AnswersFor
    <2>2. Len(shown) = Len(kept)
        <3> DEFINE V == Range(shown)
        <3>1. shown \in [1..Len(kept) -> V]
            BY <2>1 DEF Range
        <3> HIDE DEF shown, V
        <3> QED
            BY <2>1, <3>1, IntervalSeq
    <2>3. ASSUME NEW n \in 1..Len(r) PROVE Merges(d, q, shown[n], r[n])
        <3>1. Merges(d, q, kept[n], r[n])
            BY <1>12 DEF AnswersFor
        <3>2. shown[n] = Touch(kept[n], K)
            BY <2>1
        <3> HIDE DEF K, shown
        <3>3. Merges(d, q, Touch(kept[n], K), r[n])
            BY <3>1, MergesTouched
        <3> QED
            BY <3>2, <3>3
    <2> HIDE DEF shown
    <2> QED
        BY <1>12, <2>1, <2>2, <2>3 DEF AnswersFor
<1> QED
    BY <1>3, <1>14

(* The pairs, listed by the order of the rows they are made of. *)
PairOrder(S) == {x \in S \X S : Sooner(x[1], x[2])}

LEMMA PairsAreOrdered ==
    ASSUME NEW S \in SUBSET Couples
    PROVE  IsOrder(PairOrder(S), S) /\ \A p \in S : Lesser(S, PairOrder(S), p) = {r \in S : Sooner(r, p)}
<1>1. \A p, r : <<p, r>> \in PairOrder(S) <=> p \in S /\ r \in S /\ Sooner(p, r)
    BY DEF PairOrder
<1>2. \A p \in S : p[1] \in Nat /\ p[2] \in Nat /\ p = <<p[1], p[2]>>
    BY DEF Couples
<1>3. \A p \in S : ~Sooner(p, p)
    BY <1>2 DEF Sooner
<1>4. \A p, r, t \in S : Sooner(p, r) /\ Sooner(r, t) => Sooner(p, t)
    BY <1>2 DEF Sooner
<1>5. ASSUME NEW p \in S, NEW r \in S PROVE p = r \/ Sooner(p, r) \/ Sooner(r, p)
    BY <1>2 DEF Sooner
<1> QED
    BY <1>1, <1>3, <1>4, <1>5 DEF IsOrder, Lesser

LEMMA OnlyList ==
    ASSUME NEW d, NEW q, NEW l, Lists(l, PairsMet(d, q))
    PROVE  Answers(d, q) = l
<1> DEFINE S == PairsMet(d, q)
           R == PairOrder(S)
           s == Answers(d, q)
           below(p) == Cardinality({r \in S : Sooner(r, p)})
<1>1. S \in SUBSET Couples
    BY ElementOfSeq, LenProperties DEF Lists
<1>2. s = [n \in 1..Cardinality(S) |-> CHOOSE p \in S : below(p) = n - 1]
    BY DEF Answers, InOrder, PairsMet, Sooner
<1> HIDE DEF S, s
<1>3. IsOrder(R, S) /\ \A p \in S : below(p) = Cardinality(Lesser(S, R, p))
    <2>1. IsOrder(R, S) /\ \A p \in S : Lesser(S, R, p) = {r \in S : Sooner(r, p)}
        BY <1>1, PairsAreOrdered
    <2> QED
        BY <2>1
<1> HIDE DEF below
<1>4. IsListing(s, S, R)
    <2> HIDE DEF R
    <2> QED BY <1>2, <1>3 DEF IsListing
<1>5. Ascends(l, S, R)
    <2>1. l \in Seq(S)
        <3>1. l \in Seq(Couples) /\ \A n \in DOMAIN l : l[n] \in S
            BY DEF Lists, S
        <3>2. Len(l) \in Nat /\ l \in [1..Len(l) -> S]
            BY <3>1, LenProperties
        <3> QED
            BY <3>2, IntervalSeq
    <2>2. \A m, n \in DOMAIN l : m < n => <<l[m], l[n]>> \in R
        BY DEF Lists, PairOrder, S
    <2> QED
        BY <2>1, <2>2 DEF Ascends, Lists, S
<1> HIDE DEF R
<1>6. s = l
    BY <1>3, <1>4, <1>5, OnlyListing
<1> QED
    BY <1>6 DEF s

(* A join of two tables is the relational one, when the second has no index *)
(* on the joined column or was not written to since it was built.           *)
THEOREM JoinIsRelationalHolds == Spec => []JoinIsRelational
<1>1. ASSUME SelectInv PROVE JoinIsRelational
    <2> DEFINE q == query
               T == Table(db, q.table)
               pairs == Answers(db, q)
    <2> SUFFICES ASSUME q # NoQuery, Len(q.joins) = 1, q.group = NoName, q.order = NoName,
                        q.cols = {"*"}, IsUnpaged(q), Apart(db, q),
                        RightIsFound(db, q.joins[1])
                 PROVE  /\ Len(answer) = Len(pairs)
                        /\ \A k \in DOMAIN answer :
                              /\ DOMAIN T[pairs[k][1]] \subseteq DOMAIN answer[k]
                              /\ \A c \in DOMAIN answer[k] :
                                    answer[k][c] = IF c \in DOMAIN T[pairs[k][1]] THEN T[pairs[k][1]][c]
                                                   ELSE OnRight(db, q, pairs[k], c)
        BY DEF JoinIsRelational, Apart
    <2>1. db \in Databases /\ IsQuery(q) /\ answer \in Generic(db, q)
        BY <1>1, QueryAssumption DEF SelectInv, PushesOrder
    <2>2. answer = Gathered(db, q) /\ answer \in Seq(Rows)
        <3> DEFINE rows == Gathered(db, q)
        <3>1. rows \in Seq(Rows)
            BY <2>1, GatheredType
        <3>2. Page(rows, 0, -1) = rows
            <4> HIDE DEF rows
            <4> QED BY <3>1, PageOfAll
        <3>3. Sorted(q, Projected(q, rows)) = {rows}
            BY DEF Sorted, Projected
        <3>4. Generic(db, q) = {IF Aggregates(q) THEN Page(s, 0, -1) ELSE s : s \in {rows}}
            BY <3>3 DEF Generic, Gathered, IsUnpaged
        <3> HIDE DEF rows
        <3> QED
            BY <2>1, <3>1, <3>2, <3>4 DEF rows
    <2>3. PICK l : AnswersFor(db, q, answer, l, PairsMet(db, q))
        BY <2>1, <2>2, AnswersOfQuery
    <2>4. pairs = l
        BY <2>3, OnlyList DEF AnswersFor
    <2> HIDE DEF pairs, T
    <2>5. DOMAIN answer = 1..Len(l) /\ Len(answer) = Len(l)
        BY <2>2, <2>3, LenProperties DEF AnswersFor
    <2>6. ASSUME NEW k \in DOMAIN answer
          PROVE  /\ DOMAIN T[l[k][1]] \subseteq DOMAIN answer[k]
                 /\ \A c \in DOMAIN answer[k] :
                       answer[k][c] = IF c \in DOMAIN T[l[k][1]] THEN T[l[k][1]][c]
                                      ELSE OnRight(db, q, l[k], c)
        <3>1. Merges(db, q, answer[k], l[k])
            BY <2>3, <2>5 DEF AnswersFor
        <3>2. \A c \in DOMAIN answer[k] : Field(answer[k], c) = answer[k][c]
            BY DEF Field
        <3> QED
            BY <3>1, <3>2 DEF Merges, T
    <2> QED
        BY <2>4, <2>5, <2>6
<1> QED
    BY <1>1, SelectInvHolds, PTL
=============================================================================
