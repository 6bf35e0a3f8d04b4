------------------------- MODULE InductionTheorems -------------------------
(***************************************************************************)
(* Induction and recursion without operators as parameters: on a set whose *)
(* members have a size, what holds of each member once it holds of all     *)
(* smaller ones holds of all, and a function defined from its values at    *)
(* smaller members exists.  The folds of the community modules, the frames *)
(* of an event stream and the like are such functions.                     *)
(***************************************************************************)
EXTENDS Integers, SequencesExt, FiniteSetTheorems, SequenceTheorems, TLAPS

(* A function on an interval from 1 is a sequence of that length. *)
LEMMA IntervalSeq ==
    ASSUME NEW S, NEW n \in Nat, NEW f \in [1..n -> S]
    PROVE  f \in Seq(S) /\ Len(f) = n
<1>1. f \in Seq(S)
  BY SeqDef
<1>2. Len(f) \in Nat /\ 1..Len(f) = 1..n
  BY <1>1, LenProperties
<1>3. /\ n = 0 \/ n \in 1..Len(f)
      /\ Len(f) = 0 \/ Len(f) \in 1..n
  BY <1>2
<1> QED  BY <1>1, <1>2, <1>3

(* A set of numbers that is not empty has a least one: the numbers below    *)
(* all of S are finitely many, and else with each of them the next one      *)
(* would be below S as well.                                                *)
LEMMA LeastNumber ==
    ASSUME NEW S \in SUBSET Nat, S # {}
    PROVE  \E x \in S : \A y \in S : x <= y
<1>1. SUFFICES ASSUME \A x \in S : \E y \in S : ~(x <= y) PROVE FALSE
    OBVIOUS
<1> DEFINE L == {n \in Nat : \A x \in S : n < x}
           f == [n \in L |-> n + 1]
<1>2. PICK b \in S : TRUE
    OBVIOUS
<1>3. 0 \in L
    BY <1>1
<1>4. IsFiniteSet(L)
    <2>1. L \in SUBSET Nat /\ b \in Nat /\ \A n \in L : n <= b
        BY <1>2
    <2> QED
        BY <2>1, FS_BoundedSetOfNaturals
<1>5. f \in [L -> L \ {0}]
    <2>1. SUFFICES ASSUME NEW n \in L PROVE n + 1 \in L \ {0}
        OBVIOUS
    <2>2. n + 1 \in Nat /\ n + 1 # 0
        OBVIOUS
    <2>3. ASSUME NEW x \in S PROVE n + 1 < x
        <3>1. PICK y \in S : ~(x <= y)
            BY <1>1
        <3>2. n < y /\ n \in Nat /\ x \in Nat /\ y \in Nat
            OBVIOUS
        <3> QED
            BY <3>1, <3>2
    <2> QED
        BY <2>2, <2>3
<1>6. /\ IsFiniteSet(L \ {0}) /\ Cardinality(L \ {0}) = Cardinality(L) - 1
      /\ Cardinality(L) \in Nat
    BY <1>3, <1>4, FS_RemoveElement, FS_CardinalityType
<1>7. \A m, n \in L : f[m] = f[n] => m = n
    OBVIOUS
<1> QED
    <2> HIDE DEF L, f
    <2>1. Cardinality(L \ {0}) < Cardinality(L)
        BY <1>6
    <2>2. \E m, n \in L : m # n /\ f[m] = f[n]
        BY <1>4, <1>5, <1>6, <2>1, FS_PigeonHole
    <2> QED
        BY <1>7, <2>2

(* Induction over the members of a set by their size.                       *)
LEMMA InductionBySize ==
    ASSUME NEW S, NEW size \in [S -> Nat], NEW T,
           \A s \in S : (\A x \in S : size[x] < size[s] => x \in T) => s \in T
    PROVE  S \subseteq T
<1>1. SUFFICES ASSUME NEW c \in S, c \notin T PROVE FALSE
    OBVIOUS
<1> DEFINE N == {size[s] : s \in S \ T}
<1>2. N \in SUBSET Nat /\ N # {}
    BY <1>1
<1>3. PICK k \in N : \A n \in N : k <= n
    <2> HIDE DEF N
    <2> QED BY <1>2, LeastNumber
<1>4. PICK s \in S \ T : size[s] = k
    OBVIOUS
<1>5. ASSUME NEW x \in S, size[x] < size[s] PROVE x \in T
    <2>1. ~(k <= size[x])
        BY <1>4, <1>5
    <2> QED
        BY <1>3, <2>1
<1> QED
    BY <1>4, <1>5
(* Recursion: a function that is given where it stops, and elsewhere by its *)
(* value at one smaller member, exists.  Its parts, each defined on members *)
(* that it reaches, agree with each other and together cover the set.       *)
Descends(S, size, Stop, next) ==
    /\ size \in [S -> Nat] /\ Stop \in SUBSET S
    /\ next \in [S \ Stop -> S]
    /\ \A s \in S \ Stop : size[next[s]] < size[s]

Solves(f, S, Stop, base, next, G) ==
    \A s \in S : f[s] = IF s \in Stop THEN base[s] ELSE G[<<s, f[next[s]]>>]

LEMMA RecursionBySize ==
    ASSUME NEW S, NEW size, NEW Stop, NEW next, Descends(S, size, Stop, next),
           NEW V, NEW base \in [Stop -> V], NEW G \in [(S \ Stop) \X V -> V]
    PROVE  \E f \in [S -> V] : Solves(f, S, Stop, base, next, G)
<1> USE DEF Descends
<1> DEFINE Partial == UNION {[D -> V] : D \in SUBSET S}
           Obeys(g, s) == IF s \in Stop THEN g[s] = base[s]
                          ELSE next[s] \in DOMAIN g /\ g[s] = G[<<s, g[next[s]]>>]
           Parts == {g \in Partial : \A s \in DOMAIN g : Obeys(g, s)}
           Agreed == {s \in S : \A g, h \in Parts :
                          s \in DOMAIN g /\ s \in DOMAIN h => g[s] = h[s]}
           Covered == {s \in S : \E g \in Parts : s \in DOMAIN g}
           f == [s \in S |-> (CHOOSE g \in Parts : s \in DOMAIN g)[s]]
<1>1. S \subseteq Agreed
    <2>1. ASSUME NEW s \in S, \A x \in S : size[x] < size[s] => x \in Agreed
          PROVE  s \in Agreed
        <3>1. SUFFICES ASSUME NEW g \in Parts, NEW h \in Parts,
                              s \in DOMAIN g, s \in DOMAIN h
                       PROVE  g[s] = h[s]
            OBVIOUS
        <3>2. Obeys(g, s) /\ Obeys(h, s)
            BY <3>1
        <3>3. CASE s \in Stop
            BY <3>2, <3>3
        <3>4. CASE s \notin Stop
            <4>1. /\ next[s] \in DOMAIN g /\ g[s] = G[<<s, g[next[s]]>>]
                  /\ next[s] \in DOMAIN h /\ h[s] = G[<<s, h[next[s]]>>]
                BY <3>2, <3>4
            <4>2. next[s] \in S /\ next[s] \in Agreed
                BY <2>1, <3>4
            <4>3. g[next[s]] = h[next[s]]
                BY <4>1, <4>2
            <4> QED
                BY <4>1, <4>3
        <3> QED
            BY <3>3, <3>4
    <2> HIDE DEF Agreed
    <2> QED
        BY <2>1, InductionBySize
<1>2. S \subseteq Covered
    <2>1. ASSUME NEW s \in S, \A x \in S : size[x] < size[s] => x \in Covered
          PROVE  s \in Covered
        <3>1. CASE s \in Stop
            <4> DEFINE g == [x \in {s} |-> base[s]]
            <4>1. g \in Partial
                <5>1. base[s] \in V /\ {s} \in SUBSET S
                    BY <3>1
                <5>2. g \in [{s} -> V]
                    BY <5>1
                <5> QED
                    BY <5>1, <5>2
            <4>2. DOMAIN g = {s} /\ Obeys(g, s)
                BY <3>1
            <4>3. g \in Parts
                BY <4>1, <4>2
            <4> QED
                BY <4>2, <4>3
        <3>2. CASE s \notin Stop
            <4>1. next[s] \in S /\ next[s] \in Covered
                BY <2>1, <3>2
            <4>2. PICK g \in Parts : next[s] \in DOMAIN g
                BY <4>1
            <4>3. PICK D \in SUBSET S : g \in [D -> V]
                OBVIOUS
            <4> DEFINE h == [x \in D \cup {s} |->
                                IF x \in D THEN g[x] ELSE G[<<s, g[next[s]]>>]]
            <4>4. DOMAIN g = D /\ g[next[s]] \in V /\ next[s] \in D
                BY <4>2, <4>3
            <4>5. G[<<s, g[next[s]]>>] \in V
                BY <3>2, <4>4
            <4>6. h \in [D \cup {s} -> V] /\ D \cup {s} \in SUBSET S
                BY <4>3, <4>5
            <4>7. h \in Partial
                <5>1. [D \cup {s} -> V] \in {[C -> V] : C \in SUBSET S}
                    BY <4>6
                <5> HIDE DEF h
                <5> QED
                    BY <4>6, <5>1
            <4>8. ASSUME NEW x \in D \cup {s} PROVE Obeys(h, x)
                <5>1. CASE x \in D
                    <6>1. Obeys(g, x) /\ h[x] = g[x] /\ DOMAIN h = D \cup {s}
                        BY <4>4, <5>1
                    <6>2. CASE x \in Stop
                        BY <6>1, <6>2
                    <6>3. CASE x \notin Stop
                        <7>1. next[x] \in D /\ g[x] = G[<<x, g[next[x]]>>]
                            BY <4>4, <6>1, <6>3
                        <7>2. h[next[x]] = g[next[x]] /\ next[x] \in DOMAIN h
                            BY <6>1, <7>1
                        <7> QED
                            BY <6>1, <6>3, <7>1, <7>2
                    <6> QED
                        BY <6>2, <6>3
                <5>2. CASE x \notin D
                    <6>1. x = s /\ h[x] = G[<<s, g[next[s]]>>] /\ h[next[s]] = g[next[s]]
                        BY <4>4, <5>2
                    <6>2. next[s] \in DOMAIN h
                        BY <4>4
                    <6> QED
                        BY <3>2, <6>1, <6>2
                <5> QED
                    BY <5>1, <5>2
            <4>9. h \in Parts /\ s \in DOMAIN h
                <5>1. DOMAIN h = D \cup {s}
                    OBVIOUS
                <5> HIDE DEF h, Obeys, Partial
                <5> QED
                    BY <4>7, <4>8, <5>1
            <4> QED
                BY <4>9
        <3> QED
            BY <3>1, <3>2
    <2> HIDE DEF Covered
    <2> QED
        BY <2>1, InductionBySize
<1>3. ASSUME NEW s \in S
      PROVE  \E g \in Parts : s \in DOMAIN g /\ f[s] = g[s]
    <2>1. \E g \in Parts : s \in DOMAIN g
        BY <1>2
    <2> DEFINE c == CHOOSE g \in Parts : s \in DOMAIN g
    <2>2. c \in Parts /\ s \in DOMAIN c
        <3> HIDE DEF Parts
        <3> QED BY <2>1
    <2>3. f[s] = c[s]
        OBVIOUS
    <2> HIDE DEF c, f, Parts
    <2> QED
        BY <2>2, <2>3
<1>4. ASSUME NEW s \in S, NEW g \in Parts, s \in DOMAIN g
      PROVE  f[s] = g[s]
    <2>1. PICK h \in Parts : s \in DOMAIN h /\ f[s] = h[s]
        BY <1>3
    <2>2. s \in Agreed
        BY <1>1
    <2> HIDE DEF f, Parts
    <2> QED
        BY <1>4, <2>1, <2>2
<1>5. f \in [S -> V]
    <2>1. ASSUME NEW s \in S PROVE f[s] \in V
        <3>1. PICK g \in Parts : s \in DOMAIN g /\ f[s] = g[s]
            BY <1>3
        <3>2. PICK D \in SUBSET S : g \in [D -> V]
            OBVIOUS
        <3> HIDE DEF f
        <3> QED
            BY <3>1, <3>2
    <2> QED
        BY <2>1
<1>6. ASSUME NEW s \in S
      PROVE  f[s] = IF s \in Stop THEN base[s] ELSE G[<<s, f[next[s]]>>]
    <2>1. PICK g \in Parts : s \in DOMAIN g /\ f[s] = g[s]
        BY <1>3
    <2>2. Obeys(g, s)
        BY <2>1
    <2>3. CASE s \in Stop
        <3> HIDE DEF f, Parts
        <3> QED BY <2>1, <2>2, <2>3
    <2>4. CASE s \notin Stop
        <3>1. next[s] \in DOMAIN g /\ g[s] = G[<<s, g[next[s]]>>] /\ next[s] \in S
            BY <2>2, <2>4
        <3>2. f[next[s]] = g[next[s]]
            <4> HIDE DEF f, Parts
            <4> QED BY <1>4, <3>1
        <3> HIDE DEF f, Parts
        <3> QED
            BY <2>1, <2>4, <3>1, <3>2
    <2> QED
        BY <2>3, <2>4
<1> QED
    <2>1. Solves(f, S, Stop, base, next, G)
        BY <1>6 DEF Solves
    <2> HIDE DEF f
    <2> QED
        BY <1>5, <2>1
(* The same for what is defined on the subsets of a finite set by taking    *)
(* one member after the other: a fold.  pick[s] is the member of s taken    *)
(* first.                                                                   *)
Picks(pick, S) ==
    /\ IsFiniteSet(S)
    /\ pick \in [(SUBSET S) \ {{}} -> S]
    /\ \A s \in (SUBSET S) \ {{}} : pick[s] \in s

Folds(f, S, pick, base, G) ==
    \A s \in SUBSET S : f[s] = IF s = {} THEN base ELSE G[<<pick[s], f[s \ {pick[s]}]>>]

LEMMA FoldExists ==
    ASSUME NEW S, NEW pick, Picks(pick, S), NEW V, NEW base \in V, NEW G \in [S \X V -> V]
    PROVE  \E f \in [SUBSET S -> V] : Folds(f, S, pick, base, G)
<1> USE DEF Picks
<1> DEFINE size == [s \in SUBSET S |-> Cardinality(s)]
           first == [s \in {{}} |-> base]
           next == [s \in (SUBSET S) \ {{}} |-> s \ {pick[s]}]
           H == [a \in ((SUBSET S) \ {{}}) \X V |-> G[<<pick[a[1]], a[2]>>]]
<1>0. \A s, x : IsFiniteSet(s) /\ x \in s => Cardinality(s \ {x}) = Cardinality(s) - 1
    BY FS_RemoveElement
<1>1. \A s \in SUBSET S : IsFiniteSet(s) /\ Cardinality(s) \in Nat
    BY FS_Subset, FS_CardinalityType
<1>2. size \in [SUBSET S -> Nat]
    BY <1>1
<1>3. first \in [{{}} -> V] /\ {{}} \in SUBSET SUBSET S
    OBVIOUS
<1>4. next \in [(SUBSET S) \ {{}} -> SUBSET S]
    OBVIOUS
<1>5. H \in [((SUBSET S) \ {{}}) \X V -> V]
    OBVIOUS
<1>6. \A s \in (SUBSET S) \ {{}} : size[next[s]] < size[s]
    <2>1. SUFFICES ASSUME NEW s \in (SUBSET S) \ {{}} PROVE size[next[s]] < size[s]
        OBVIOUS
    <2>2. pick[s] \in s /\ IsFiniteSet(s) /\ Cardinality(s) \in Nat
        BY <1>1
    <2>3. Cardinality(s \ {pick[s]}) = Cardinality(s) - 1
        BY <1>0, <2>2
    <2>4. size[next[s]] = Cardinality(s \ {pick[s]}) /\ size[s] = Cardinality(s)
        OBVIOUS
    <2> QED
        BY <2>2, <2>3, <2>4
<1>7. PICK f \in [SUBSET S -> V] : \A s \in SUBSET S :
          f[s] = IF s \in {{}} THEN first[s] ELSE H[<<s, f[next[s]]>>]
    <2> DEFINE P == SUBSET S
               Q == {{}}
    <2>1. /\ size \in [P -> Nat] /\ Q \in SUBSET P /\ first \in [Q -> V]
          /\ next \in [P \ Q -> P] /\ H \in [(P \ Q) \X V -> V]
          /\ \A s \in P \ Q : size[next[s]] < size[s]
        BY <1>2, <1>3, <1>4, <1>5, <1>6
    <2> HIDE DEF size, first, next, H, P, Q
    <2>2. Descends(P, size, Q, next)
        BY <2>1 DEF Descends
    <2>3. \E f \in [P -> V] : Solves(f, P, Q, first, next, H)
        BY <2>1, <2>2, RecursionBySize
    <2> QED
        BY <2>3 DEF P, Q, Solves
<1>8. ASSUME NEW s \in (SUBSET S) \ {{}}
      PROVE  H[<<s, f[next[s]]>>] = G[<<pick[s], f[s \ {pick[s]}]>>]
    <2>1. f[s \ {pick[s]}] \in V /\ next[s] = s \ {pick[s]}
        OBVIOUS
    <2> QED
        BY <2>1
<1> QED
    <2>1. Folds(f, S, pick, base, G)
        BY <1>7, <1>8 DEF Folds
    <2> QED
        BY <2>1

(* Induction along such a fold.                                             *)
Inductive(T, S, pick) ==
    /\ {} \in T
    /\ \A s \in (SUBSET S) \ {{}} : s \ {pick[s]} \in T => s \in T

LEMMA InductionOnSubsets ==
    ASSUME NEW S, NEW pick, Picks(pick, S), NEW T, Inductive(T, S, pick)
    PROVE  SUBSET S \subseteq T
<1> USE DEF Picks, Inductive
<1> DEFINE size == [s \in SUBSET S |-> Cardinality(s)]
<1>0. \A s, x : IsFiniteSet(s) /\ x \in s => Cardinality(s \ {x}) = Cardinality(s) - 1
    BY FS_RemoveElement
<1>1. \A s \in SUBSET S : IsFiniteSet(s) /\ Cardinality(s) \in Nat
    BY FS_Subset, FS_CardinalityType
<1>2. size \in [SUBSET S -> Nat]
    BY <1>1
<1>3. ASSUME NEW s \in SUBSET S, \A x \in SUBSET S : size[x] < size[s] => x \in T
      PROVE  s \in T
    <2>1. CASE s # {}
        <3>1. pick[s] \in s /\ IsFiniteSet(s) /\ Cardinality(s) \in Nat
            BY <1>1, <2>1
        <3>2. Cardinality(s \ {pick[s]}) = Cardinality(s) - 1
            BY <1>0, <3>1
        <3>3. size[s \ {pick[s]}] < size[s] /\ s \ {pick[s]} \in SUBSET S
            BY <3>1, <3>2
        <3>4. s \ {pick[s]} \in T
            BY <1>3, <3>3
        <3> QED
            BY <2>1, <3>4
    <2> QED
        BY <2>1
<1> QED
    <2> HIDE DEF size
    <2> QED BY <1>2, <1>3, InductionBySize

(* FoldLeft takes the last member of a sequence first.                      *)
LEMMA LastOfNumbers ==
    ASSUME NEW n \in Nat
    PROVE  \A s \in (SUBSET (1..n)) \ {{}} : Max(s) \in s /\ \A i \in s : i <= Max(s)
<1>1. SUFFICES ASSUME NEW s \in (SUBSET (1..n)) \ {{}}
               PROVE  Max(s) \in s /\ \A i \in s : i <= Max(s)
    OBVIOUS
<1> DEFINE L == {n - i : i \in s}
<1>2. L \in SUBSET Nat /\ L # {}
    OBVIOUS
<1>3. PICK x \in L : \A y \in L : x <= y
    <2> HIDE DEF L
    <2> QED BY <1>2, LeastNumber
<1>4. PICK m \in s : x = n - m
    OBVIOUS
<1>5. \A i \in s : m >= i
    <2>1. SUFFICES ASSUME NEW i \in s PROVE m >= i
        OBVIOUS
    <2>2. n - m <= n - i /\ m \in 1..n /\ i \in 1..n
        BY <1>3, <1>4
    <2> QED
        BY <2>2
<1>6. Max(s) \in s /\ \A i \in s : Max(s) >= i
    BY <1>5 DEF Max
<1> QED
    <2>1. ASSUME NEW i \in s PROVE i <= Max(s)
        BY <1>6
    <2> QED
        BY <1>6, <2>1
(* The last of some places in a sequence of n *)
LastOf(n) == [s \in (SUBSET (1..n)) \ {{}} |-> Max(s)]

LEMMA LastPicks ==
    ASSUME NEW n \in Nat
    PROVE  Picks(LastOf(n), 1..n)
<1>1. IsFiniteSet(1..n)
    BY FS_Interval
<1>2. \A s \in (SUBSET (1..n)) \ {{}} : Max(s) \in s
    BY LastOfNumbers
<1> QED
    BY <1>1, <1>2 DEF Picks, LastOf

(* The first numbers, and the last of them.                                 *)
LEMMA FirstNumbers ==
    ASSUME NEW n \in Nat, NEW i \in 1..n
    PROVE  /\ 1..i \in (SUBSET (1..n)) \ {{}} /\ (1..i) \ {i} = 1..(i - 1)
           /\ Max(1..i) = i
<1>1. i \in Nat /\ i >= 1 /\ i <= n /\ i \in 1..i
    OBVIOUS
<1>2. \A j \in 1..i : j \in 1..n
    BY <1>1
<1>3. ASSUME NEW j PROVE j \in (1..i) \ {i} <=> j \in 1..(i - 1)
    BY <1>1
<1>4. 1..i \in (SUBSET (1..n)) \ {{}}
    BY <1>1, <1>2
<1> DEFINE s == 1..i
           m == Max(s)
<1>5. m \in s /\ \A j \in s : j <= m
    <2> HIDE DEF s
    <2> QED BY <1>4, LastOfNumbers DEF s
<1>6. m \in 1..i /\ i <= m
    BY <1>1, <1>5
<1> HIDE DEF m
<1>7. m = i
    BY <1>1, <1>6
<1> QED
    BY <1>3, <1>4, <1>7 DEF m
-----------------------------------------------------------------------------
(* Putting a finite set in order *)

Lesser(S, R, x) == {y \in S : <<y, x>> \in R}

IsOrder(R, S) ==
    /\ \A x \in S : <<x, x>> \notin R
    /\ \A x, y, z \in S : <<x, y>> \in R /\ <<y, z>> \in R => <<x, z>> \in R
    /\ \A x, y \in S : x = y \/ <<x, y>> \in R \/ <<y, x>> \in R

(* The members of a finite set have as many lesser ones as their place says: *)
(* 0, 1, 2 and so on, each number once.                                      *)
LEMMA RanksAreAll ==
    ASSUME NEW S, IsFiniteSet(S), NEW R, IsOrder(R, S)
    PROVE  /\ Cardinality(S) \in Nat
           /\ \A x \in S : Cardinality(Lesser(S, R, x)) + 1 \in 1..Cardinality(S)
           /\ \A n \in 1..Cardinality(S) :
                 \E x \in S : Cardinality(Lesser(S, R, x)) = n - 1
           /\ \A x, y \in S : Cardinality(Lesser(S, R, x)) = Cardinality(Lesser(S, R, y)) => x = y
<1> DEFINE rank(x) == Cardinality(Lesser(S, R, x))
           N == Cardinality(S)
<1>1. N \in Nat
    BY FS_CardinalityType
<1>2. ASSUME NEW x \in S
      PROVE  /\ Lesser(S, R, x) \subseteq S \ {x}
             /\ IsFiniteSet(Lesser(S, R, x))
             /\ rank(x) \in Nat /\ rank(x) + 1 \in 1..N
    <2>1. Lesser(S, R, x) \subseteq S \ {x}
        BY DEF Lesser, IsOrder
    <2>2. IsFiniteSet(S \ {x}) /\ Cardinality(S \ {x}) = N - 1
        BY FS_RemoveElement
    <2>3. IsFiniteSet(Lesser(S, R, x)) /\ rank(x) <= N - 1
        BY <2>1, <2>2, FS_Subset
    <2>4. rank(x) \in Nat
        BY <2>3, FS_CardinalityType
    <2> HIDE DEF rank, N
    <2> QED
        BY <1>1, <2>1, <2>3, <2>4
<1>3. ASSUME NEW x \in S, NEW y \in S, <<x, y>> \in R
      PROVE  rank(x) < rank(y)
    <2>1. Lesser(S, R, x) \subseteq Lesser(S, R, y)
        BY <1>3 DEF Lesser, IsOrder
    <2>2. x \in Lesser(S, R, y) /\ x \notin Lesser(S, R, x)
        BY <1>2, <1>3 DEF Lesser
    <2>3. rank(x) <= rank(y) /\ rank(x) # rank(y)
        BY <1>2, <2>1, <2>2, FS_Subset
    <2>4. rank(x) \in Nat /\ rank(y) \in Nat
        BY <1>2
    <2> HIDE DEF rank
    <2> QED
        BY <2>3, <2>4
<1>4. ASSUME NEW x \in S, NEW y \in S, rank(x) = rank(y)
      PROVE  x = y
    <2>1. rank(x) \in Nat /\ rank(y) \in Nat
        BY <1>2
    <2>2. <<x, y>> \notin R /\ <<y, x>> \notin R
        <3> HIDE DEF rank
        <3> QED  BY <1>3, <1>4, <2>1
    <2> QED
        BY <2>2 DEF IsOrder
<1>5. ASSUME NEW n \in 1..N
      PROVE  \E x \in S : rank(x) = n - 1
    <2> HIDE DEF rank
    <2> DEFINE f == [x \in S |-> rank(x) + 1]
    <2>1. f \in Injection(S, 1..N)
        <3>1. \A x, y \in S : f[x] = f[y] => x = y
            BY <1>2, <1>4
        <3>2. f \in [S -> 1..N]
            BY <1>2
        <3> QED
            BY <3>1, <3>2 DEF Injection, IsInjective
    <2>2. IsFiniteSet(1..N) /\ Cardinality(1..N) = N
        <3> HIDE DEF N
        <3>1. 1 \in Int /\ N \in Int
            BY <1>1
        <3>2. IsFiniteSet(1..N) /\ Cardinality(1..N) = IF 1 > N THEN 0 ELSE N - 1 + 1
            BY <3>1, FS_Interval
        <3> QED
            BY <1>1, <3>2
    <2>3. f \in Surjection(S, 1..N)
        BY <2>1, <2>2, FS_Injection
    <2>4. PICK x \in S : f[x] = n
        BY <2>3 DEF Surjection
    <2>5. rank(x) \in Nat /\ rank(x) + 1 = n
        BY <1>2, <2>4
    <2> QED
        BY <2>5
<1> QED
    BY <1>1, <1>2, <1>4, <1>5

(* s has at each place the member with that rank *)
IsListing(s, S, R) ==
    /\ s = [n \in 1..Cardinality(S) |-> s[n]]
    /\ \A n \in 1..Cardinality(S) :
          (\E x \in S : Cardinality(Lesser(S, R, x)) = n - 1)
              => s[n] \in S /\ Cardinality(Lesser(S, R, s[n])) = n - 1

(* What InOrder makes of a set has its members, all of them. *)
LEMMA InOrderLists ==
    ASSUME NEW S, IsFiniteSet(S), NEW R, IsOrder(R, S), NEW s,
           IsListing(s, S, R)
    PROVE  /\ s \in Seq(S) /\ Len(s) = Cardinality(S)
           /\ \A x \in S : \E n \in DOMAIN s : s[n] = x
<1> DEFINE rank(x) == Cardinality(Lesser(S, R, x))
           N == Cardinality(S)
<1>1. /\ N \in Nat
      /\ \A x \in S : rank(x) + 1 \in 1..N
      /\ \A n \in 1..N : \E x \in S : rank(x) = n - 1
      /\ \A x, y \in S : rank(x) = rank(y) => x = y
    BY RanksAreAll
<1>2. /\ s = [n \in 1..N |-> s[n]]
      /\ \A n \in 1..N : (\E x \in S : rank(x) = n - 1) => s[n] \in S /\ rank(s[n]) = n - 1
    BY DEF IsListing
<1>3. \A x \in S : rank(x) \in Nat
    BY <1>2, FS_CardinalityType, FS_Subset DEF Lesser
<1> HIDE DEF rank, N
<1>4. s \in [1..N -> S] /\ \A n \in 1..N : rank(s[n]) = n - 1
    BY <1>1, <1>2
<1>5. s \in Seq(S) /\ Len(s) = N /\ DOMAIN s = 1..N
    <2>1. N \in Nat /\ s \in [1..N -> S]
        BY <1>1, <1>4
    <2>2. s \in Seq(S)
        BY <2>1, SeqDef
    <2>3. Len(s) \in Nat /\ 1..Len(s) = 1..N
        BY <2>1, <2>2, LenProperties
    <2>4. ASSUME NEW a \in Nat, NEW b \in Nat, 1..a = 1..b
          PROVE  ~(a < b)
        <3>1. a < b => b \in 1..b /\ b \notin 1..a
            OBVIOUS
        <3> QED
            BY <2>4, <3>1
    <2>5. ~(Len(s) < N) /\ ~(N < Len(s))
        BY <2>1, <2>3, <2>4
    <2>6. Len(s) = N
        <3> DEFINE l == Len(s)
        <3>1. l \in Nat /\ N \in Nat /\ ~(l < N) /\ ~(N < l)
            BY <2>1, <2>3, <2>5
        <3> HIDE DEF l
        <3>2. l = N
            BY <3>1
        <3> QED  BY <3>2 DEF l
    <2>7. DOMAIN s = 1..N
        BY <2>1
    <2> QED
        BY <2>2, <2>6, <2>7
<1>6. ASSUME NEW x \in S
      PROVE  \E n \in DOMAIN s : s[n] = x
    <2> DEFINE m == rank(x) + 1
    <2>1. m \in 1..N /\ m - 1 = rank(x)
        BY <1>1, <1>3
    <2> HIDE DEF m
    <2>2. s[m] \in S /\ rank(s[m]) = rank(x)
        BY <1>4, <2>1
    <2> QED
        BY <1>1, <1>5, <2>1, <2>2
<1> QED
    BY <1>5, <1>6 DEF N

(* It lists lesser members before greater ones. *)
LEMMA ListingIncreases ==
    ASSUME NEW S, IsFiniteSet(S), NEW R, IsOrder(R, S), NEW s, IsListing(s, S, R)
    PROVE  \A m, n \in 1..Cardinality(S) : m < n => <<s[m], s[n]>> \in R
<1> DEFINE rank(x) == Cardinality(Lesser(S, R, x))
           N == Cardinality(S)
<1>1. N \in Nat /\ \A n \in 1..N : s[n] \in S /\ rank(s[n]) = n - 1
    BY RanksAreAll DEF IsListing
<1>2. ASSUME NEW x \in S, NEW y \in S, <<x, y>> \in R PROVE rank(x) <= rank(y)
    <2>1. Lesser(S, R, x) \in SUBSET Lesser(S, R, y)
        BY <1>2 DEF Lesser, IsOrder
    <2>2. Lesser(S, R, y) \in SUBSET S
        BY DEF Lesser
    <2>3. IsFiniteSet(Lesser(S, R, y))
        BY <2>2, FS_Subset
    <2> QED
        BY <2>1, <2>3, FS_Subset
<1> HIDE DEF rank, N
<1>3. ASSUME NEW m \in 1..N, NEW n \in 1..N, m < n PROVE <<s[m], s[n]>> \in R
    <2>1. s[m] \in S /\ s[n] \in S /\ rank(s[m]) = m - 1 /\ rank(s[n]) = n - 1
        BY <1>1
    <2>2. s[m] # s[n]
        BY <1>1, <1>3, <2>1
    <2>3. <<s[n], s[m]>> \notin R
        <3>1. ~(n - 1 <= m - 1)
            BY <1>1, <1>3
        <3> QED
            BY <1>2, <2>1, <3>1
    <2> QED
        BY <2>1, <2>2, <2>3 DEF IsOrder
<1> QED
    BY <1>3 DEF N

(* Only one sequence lists the members in their order, each of them once.   *)
Ascends(l, S, R) ==
    /\ l \in Seq(S) /\ \A x \in S : \E n \in DOMAIN l : l[n] = x
    /\ \A m, n \in DOMAIN l : m < n => <<l[m], l[n]>> \in R

LEMMA OnlyListing ==
    ASSUME NEW S, NEW R, IsOrder(R, S), NEW l, Ascends(l, S, R), NEW s, IsListing(s, S, R)
    PROVE  IsFiniteSet(S) /\ Len(l) = Cardinality(S) /\ s = l
<1> DEFINE N == Len(l)
           D == DOMAIN l
           rank(x) == Cardinality(Lesser(S, R, x))
<1>1. N \in Nat /\ D = 1..N /\ l \in [D -> S]
    BY LenProperties DEF Ascends
<1>2. \A m, n \in D : l[m] = l[n] => m = n
    <2> SUFFICES ASSUME NEW m \in D, NEW n \in D, l[m] = l[n] PROVE m = n
        OBVIOUS
    <2>1. <<l[m], l[n]>> \notin R /\ <<l[n], l[m]>> \notin R
        BY <1>1 DEF IsOrder
    <2>2. ~(m < n) /\ ~(n < m)
        BY <2>1 DEF Ascends
    <2> QED
        BY <1>1, <2>2
<1>3. l \in Bijection(D, S)
    BY <1>1, <1>2 DEF Bijection, Injection, IsInjective, Surjection, Ascends
<1>4. \A i \in Nat : IsFiniteSet(1..i) /\ Cardinality(1..i) = i
    <2> SUFFICES ASSUME NEW i \in Nat PROVE IsFiniteSet(1..i) /\ Cardinality(1..i) = i
        OBVIOUS
    <2>1. i \in Int /\ 1 \in Int /\ (1 > i => i = 0) /\ i - 1 + 1 = i
        OBVIOUS
    <2> QED
        BY <2>1, FS_Interval
<1>5. IsFiniteSet(S) /\ Cardinality(S) = N
    <2>1. ExistsBijection(D, S)
        BY <1>3 DEF ExistsBijection
    <2> HIDE DEF D, N
    <2> QED
        BY <1>1, <1>4, <2>1, FS_Bijection
<1>6. ASSUME NEW n \in D PROVE rank(l[n]) = n - 1
    <2> DEFINE E == 1..(n - 1)
               L == Lesser(S, R, l[n])
               b == [i \in E |-> l[i]]
    <2>1. n - 1 \in Nat /\ \A i \in E : i \in D /\ i < n
        BY <1>1
    <2>2. \A i \in E : l[i] \in L
        BY <1>1, <2>1 DEF Lesser, Ascends
    <2>3. ASSUME NEW x \in L PROVE \E i \in E : l[i] = x
        <3>1. x \in S /\ <<x, l[n]>> \in R /\ l[n] \in S
            BY <1>1 DEF Lesser
        <3>2. PICK i \in D : l[i] = x
            BY <3>1 DEF Ascends
        <3>3. i # n
            BY <3>1, <3>2 DEF IsOrder
        <3>4. ~(n < i)
            <4> SUFFICES ASSUME n < i PROVE FALSE
                OBVIOUS
            <4>1. <<l[n], x>> \in R
                BY <3>2 DEF Ascends
            <4>2. <<x, x>> \in R
                BY <3>1, <4>1 DEF IsOrder
            <4> QED
                BY <3>1, <4>2 DEF IsOrder
        <3>5. i \in E
            BY <1>1, <3>3, <3>4
        <3> QED
            BY <3>2, <3>5
    <2> HIDE DEF L, E
    <2>4. b \in Bijection(E, L)
        BY <1>2, <2>1, <2>2, <2>3 DEF Bijection, Injection, IsInjective, Surjection
    <2> HIDE DEF b
    <2>5. ExistsBijection(E, L)
        BY <2>4 DEF ExistsBijection
    <2>6. IsFiniteSet(E) /\ Cardinality(E) = n - 1
        BY <1>4, <2>1 DEF E
    <2>7. Cardinality(L) = n - 1
        BY <2>5, <2>6, FS_Bijection
    <2> QED
        BY <2>7 DEF L
<1>7. ASSUME NEW n \in D PROVE s[n] = l[n]
    <2>1. l[n] \in S /\ rank(l[n]) = n - 1
        BY <1>1, <1>6
    <2>2. s[n] \in S /\ rank(s[n]) = n - 1
        BY <1>1, <1>5, <2>1 DEF IsListing
    <2> HIDE DEF rank
    <2>3. \A x, y \in S : rank(x) = rank(y) => x = y
        BY <1>5, RanksAreAll DEF rank
    <2> QED
        BY <2>1, <2>2, <2>3
<1>8. s = [n \in D |-> s[n]]
    BY <1>1, <1>5 DEF IsListing
<1> QED
    BY <1>1, <1>5, <1>7, <1>8

(* The numbers of a set *)
NatOrder(S) == {p \in S \X S : p[1] < p[2]}

LEMMA NumbersAreOrdered ==
    ASSUME NEW S \in SUBSET Nat
    PROVE  /\ IsOrder(NatOrder(S), S)
           /\ \A x \in S : Lesser(S, NatOrder(S), x) = {y \in S : y < x}
<1>1. \A x, y : <<x, y>> \in NatOrder(S) <=> x \in S /\ y \in S /\ x < y
    BY DEF NatOrder
<1>2. \A x, y, z \in S : ~(x < x) /\ (x < y /\ y < z => x < z) /\ (x = y \/ x < y \/ y < x)
    OBVIOUS
<1> QED
    BY <1>1, <1>2 DEF IsOrder, Lesser

(* Numbers listed by their ranks.                                           *)
NumbersOf(S) ==
    [n \in 1..Cardinality(S) |-> CHOOSE x \in S : Cardinality({y \in S : y < x}) = n - 1]

LEMMA NumbersListed ==
    ASSUME NEW S \in SUBSET Nat, IsFiniteSet(S), NEW s, s = NumbersOf(S)
    PROVE  IsListing(s, S, NatOrder(S))
<1> DEFINE R == NatOrder(S)
           below(x) == Cardinality({y \in S : y < x})
<1>1. \A x \in S : Lesser(S, R, x) = {y \in S : y < x}
    BY NumbersAreOrdered
<1> HIDE DEF R
<1>2. s = [n \in 1..Cardinality(S) |-> CHOOSE x \in S : below(x) = n - 1]
    BY DEF NumbersOf
<1>3. \A x \in S : below(x) = Cardinality(Lesser(S, R, x))
    BY <1>1
<1> HIDE DEF below
<1>4. IsListing(s, S, R)
    BY <1>2, <1>3 DEF IsListing
<1> QED
    BY <1>4 DEF R

LEMMA NumbersInOrder ==
    ASSUME NEW S \in SUBSET Nat, IsFiniteSet(S), NEW s, s = NumbersOf(S)
    PROVE  /\ s \in Seq(S) /\ Len(s) = Cardinality(S)
           /\ \A x \in S : \E n \in DOMAIN s : s[n] = x
<1>1. IsOrder(NatOrder(S), S) /\ IsListing(s, S, NatOrder(S))
    BY NumbersAreOrdered, NumbersListed
<1> QED
    BY <1>1, InOrderLists

LEMMA NumbersIncrease ==
    ASSUME NEW S \in SUBSET Nat, IsFiniteSet(S)
    PROVE  \A m, n \in 1..Cardinality(S) : m < n => NumbersOf(S)[m] < NumbersOf(S)[n]
<1> DEFINE R == NatOrder(S)
           s == NumbersOf(S)
<1>1. IsOrder(R, S) /\ IsListing(s, S, R)
    BY NumbersAreOrdered, NumbersListed
<1>2. \A x, y : <<x, y>> \in R => x < y
    BY DEF NatOrder
<1> HIDE DEF s, R
<1>3. \A m, n \in 1..Cardinality(S) : m < n => <<s[m], s[n]>> \in R
    BY <1>1, ListingIncreases
<1> QED
    BY <1>2, <1>3 DEF s

(* Each number of a set is listed at its rank.                              *)
LEMMA NumbersByRank ==
    ASSUME NEW S \in SUBSET Nat, IsFiniteSet(S)
    PROVE  /\ Cardinality(S) \in Nat
           /\ \A n \in 1..Cardinality(S) :
                 /\ NumbersOf(S)[n] \in S
                 /\ Cardinality({y \in S : y < NumbersOf(S)[n]}) = n - 1
           /\ \A x \in S : /\ Cardinality({y \in S : y < x}) + 1 \in 1..Cardinality(S)
                           /\ NumbersOf(S)[Cardinality({y \in S : y < x}) + 1] = x
<1> DEFINE R == NatOrder(S)
           below(x) == Cardinality({y \in S : y < x})
           N == Cardinality(S)
<1>1. IsOrder(R, S) /\ \A x \in S : Lesser(S, R, x) = {y \in S : y < x}
    BY NumbersAreOrdered
<1> HIDE DEF R
<1>2. /\ N \in Nat
      /\ \A x \in S : below(x) + 1 \in 1..N
      /\ \A n \in 1..N : \E x \in S : below(x) = n - 1
      /\ \A x, y \in S : below(x) = below(y) => x = y
    <2>1. /\ N \in Nat
          /\ \A x \in S : Cardinality(Lesser(S, R, x)) + 1 \in 1..N
          /\ \A n \in 1..N : \E x \in S : Cardinality(Lesser(S, R, x)) = n - 1
          /\ \A x, y \in S : Cardinality(Lesser(S, R, x)) = Cardinality(Lesser(S, R, y)) => x = y
        BY <1>1, RanksAreAll
    <2>2. \A x \in S : Cardinality(Lesser(S, R, x)) = below(x)
        BY <1>1
    <2> HIDE DEF below, N
    <2> QED
        BY <2>1, <2>2
<1>3. \A n \in 1..N : NumbersOf(S)[n] = CHOOSE x \in S : below(x) = n - 1
    BY DEF NumbersOf
<1>4. \A x \in S : below(x) \in Nat
    BY FS_CardinalityType, FS_Subset
<1> HIDE DEF below, N
<1>5. \A n \in 1..N : NumbersOf(S)[n] \in S /\ below(NumbersOf(S)[n]) = n - 1
    BY <1>2, <1>3
<1>6. ASSUME NEW x \in S PROVE NumbersOf(S)[below(x) + 1] = x
    <2> DEFINE m == below(x) + 1
    <2>1. m \in 1..N /\ m - 1 = below(x)
        BY <1>2, <1>4
    <2> HIDE DEF m
    <2>2. NumbersOf(S)[m] \in S /\ below(NumbersOf(S)[m]) = below(x)
        BY <1>5, <2>1
    <2> QED
        BY <1>2, <2>2 DEF m
<1> QED
    BY <1>2, <1>5, <1>6 DEF below, N

(* A set of numbers below another one is listed before it.                  *)
LEMMA NumbersOfUnion ==
    ASSUME NEW A \in SUBSET Nat, NEW B \in SUBSET Nat, IsFiniteSet(A), IsFiniteSet(B),
           \A a \in A : \A b \in B : a < b
    PROVE  NumbersOf(A \cup B) = NumbersOf(A) \o NumbersOf(B)
<1> DEFINE S == A \cup B
           m == Cardinality(A)
           n == Cardinality(B)
           below(T, x) == {y \in T : y < x}
<1>1. S \in SUBSET Nat /\ IsFiniteSet(S) /\ Cardinality(S) = m + n /\ m \in Nat /\ n \in Nat
    <2>1. IsFiniteSet(S)
        BY FS_Union
    <2>2. m \in Nat /\ n \in Nat
        BY FS_CardinalityType
    <2>3. A \cap B = {}
        OBVIOUS
    <2>4. Cardinality(S) = m + n
        <3>1. Cardinality(A \cup B) = Cardinality(A) + Cardinality(B) - Cardinality(A \cap B)
            BY FS_Union
        <3>2. Cardinality(A \cap B) = 0
            BY <2>3, FS_EmptySet
        <3> QED
            BY <2>2, <3>1, <3>2
    <2> QED
        BY <2>1, <2>2, <2>4
<1>2. ASSUME NEW k \in 1..m PROVE NumbersOf(S)[k] = NumbersOf(A)[k]
    <2> DEFINE x == NumbersOf(A)[k]
    <2>1. x \in A /\ Cardinality(below(A, x)) = k - 1
        BY NumbersByRank
    <2> HIDE DEF x
    <2>2. below(S, x) = below(A, x)
        <3>1. \A y \in B : ~(y < x)
            <4>1. \A y \in B : x < y /\ x \in Nat /\ y \in Nat
                BY <2>1
            <4> QED
                BY <4>1
        <3> QED
            BY <3>1
    <2>3. NumbersOf(S)[Cardinality(below(S, x)) + 1] = x
        BY <1>1, <2>1, NumbersByRank
    <2>4. Cardinality(below(S, x)) + 1 = k
        BY <2>1, <2>2
    <2> QED
        BY <2>3, <2>4 DEF x
<1>3. ASSUME NEW k \in 1..n PROVE NumbersOf(S)[m + k] = NumbersOf(B)[k]
    <2> DEFINE x == NumbersOf(B)[k]
    <2>1. x \in B /\ Cardinality(below(B, x)) = k - 1
        BY NumbersByRank
    <2> HIDE DEF x
    <2>2. below(S, x) = A \cup below(B, x) /\ A \cap below(B, x) = {}
        <3>1. \A y \in A : y < x
            BY <2>1
        <3>2. \A y \in A : y \notin B
            <4>1. \A y \in A : ~(y < y)
                OBVIOUS
            <4> QED
                BY <4>1
        <3> QED
            BY <3>1, <3>2
    <2>3. IsFiniteSet(below(B, x))
        BY FS_Subset
    <2>4. Cardinality(below(S, x)) = m + (k - 1)
        <3>1. Cardinality(A \cup below(B, x))
                 = Cardinality(A) + Cardinality(below(B, x)) - Cardinality(A \cap below(B, x))
            BY <2>3, FS_Union
        <3>2. Cardinality(A \cap below(B, x)) = 0
            BY <2>2, FS_EmptySet
        <3>3. k - 1 \in Nat
            OBVIOUS
        <3> HIDE DEF below
        <3>4. m + (k - 1) - 0 = m + (k - 1)
            BY <1>1, <3>3
        <3> QED
            BY <2>1, <2>2, <3>1, <3>2, <3>4
    <2>5. NumbersOf(S)[Cardinality(below(S, x)) + 1] = x
        BY <1>1, <2>1, NumbersByRank
    <2>6. Cardinality(below(S, x)) + 1 = m + k
        <3> HIDE DEF below, m
        <3> QED
            BY <1>1, <2>4
    <2> QED
        BY <2>5, <2>6 DEF x
<1>4. /\ NumbersOf(A) \in Seq(A) /\ Len(NumbersOf(A)) = m
      /\ NumbersOf(B) \in Seq(B) /\ Len(NumbersOf(B)) = n
      /\ NumbersOf(S) \in Seq(S) /\ Len(NumbersOf(S)) = m + n
    BY <1>1, NumbersInOrder
<1> DEFINE u == NumbersOf(A)
           v == NumbersOf(B)
           w == NumbersOf(S)
<1>5. u \in Seq(S) /\ v \in Seq(S)
    <2>1. ASSUME NEW T \in SUBSET S, NEW t \in Seq(T) PROVE t \in Seq(S)
        <3>1. Len(t) \in Nat /\ t \in [1..Len(t) -> T]
            BY LenProperties
        <3> HIDE DEF S
        <3>2. t \in [1..Len(t) -> S]
            BY <3>1
        <3> QED
            BY <3>1, <3>2, SeqDef
    <2>2. A \in SUBSET S /\ B \in SUBSET S
        OBVIOUS
    <2> HIDE DEF S, m, n
    <2> QED
        BY <1>4, <2>1, <2>2
<1>6. /\ u \o v \in Seq(S) /\ Len(u \o v) = m + n
      /\ \A k \in 1..(m + n) : (u \o v)[k] = IF k <= m THEN u[k] ELSE v[k - m]
    <2> HIDE DEF u, v, S, m, n
    <2> QED
        BY <1>4, <1>5, ConcatProperties DEF u, v
<1>7. ASSUME NEW k \in 1..(m + n) PROVE w[k] = (u \o v)[k]
    <2>1. CASE k <= m
        <3>1. k \in 1..m
            BY <1>1, <2>1
        <3> QED
            BY <1>2, <1>6, <2>1, <3>1
    <2>2. CASE ~(k <= m)
        <3>1. k - m \in 1..n /\ m + (k - m) = k
            <4> HIDE DEF m, n
            <4> QED
                BY <1>1, <2>2
        <3>2. NumbersOf(S)[m + (k - m)] = NumbersOf(B)[k - m]
            BY <1>3, <3>1
        <3> QED
            BY <1>6, <2>2, <3>1, <3>2
    <2> QED
        BY <2>1, <2>2
<1>8. w = u \o v
    <2> HIDE DEF u, v, w, S, m, n
    <2> QED
        BY <1>1, <1>4, <1>6, <1>7, SeqEqual DEF w
<1> QED
    BY <1>8

(* A set of numbers, and the same numbers counted from elsewhere.           *)
LEMMA NumbersShifted ==
    ASSUME NEW A \in SUBSET Nat, IsFiniteSet(A), NEW c \in Nat
    PROVE  LET B == {a + c : a \in A}
           IN  /\ IsFiniteSet(B) /\ B \in SUBSET Nat
               /\ Cardinality(B) = Cardinality(A)
               /\ \A n \in 1..Cardinality(A) : NumbersOf(B)[n] = NumbersOf(A)[n] + c
<1> DEFINE B == {a + c : a \in A}
           shift(T) == {a + c : a \in T}
<1>1. ASSUME NEW T \in SUBSET A
      PROVE  IsFiniteSet(T) /\ IsFiniteSet(shift(T)) /\ Cardinality(shift(T)) = Cardinality(T)
    <2> DEFINE f == [a \in T |-> a + c]
    <2>1. IsFiniteSet(T)
        BY FS_Subset
    <2>2. f \in Bijection(T, shift(T))
        <3>1. f \in [T -> shift(T)]
            OBVIOUS
        <3>2. \A x, y \in T : f[x] = f[y] => x = y
            OBVIOUS
        <3>3. \A z \in shift(T) : \E x \in T : f[x] = z
            OBVIOUS
        <3> HIDE DEF f, shift
        <3> QED
            BY <3>1, <3>2, <3>3 DEF Bijection, Injection, IsInjective, Surjection
    <2> HIDE DEF f, shift
    <2> QED
        BY <2>1, <2>2, FS_Bijection DEF ExistsBijection
<1>2. IsFiniteSet(B) /\ Cardinality(B) = Cardinality(A) /\ B \in SUBSET Nat
    BY <1>1
<1>3. ASSUME NEW n \in 1..Cardinality(A) PROVE NumbersOf(B)[n] = NumbersOf(A)[n] + c
    <2> DEFINE x == NumbersOf(A)[n]
               z == x + c
    <2>1. x \in A /\ Cardinality({y \in A : y < x}) = n - 1
        BY NumbersByRank
    <2> HIDE DEF x
    <2>2. z \in B /\ {y \in B : y < z} = shift({y \in A : y < x})
        BY <2>1
    <2>3. {y \in A : y < x} \in SUBSET A
        OBVIOUS
    <2> HIDE DEF z, B
    <2>4. Cardinality({y \in B : y < z}) = n - 1
        <3> HIDE DEF shift
        <3> QED
            BY <1>1, <2>1, <2>2, <2>3
    <2>5. NumbersOf(B)[Cardinality({y \in B : y < z}) + 1] = z
        BY <1>2, <2>2, NumbersByRank
    <2> QED
        BY <2>4, <2>5 DEF z, x
<1> QED
    BY <1>2, <1>3
-----------------------------------------------------------------------------
(* Sums of the values of a function *)

(* The member that a fold over a function takes first *)
AnyOf(S) == [s \in (SUBSET S) \ {{}} |-> CHOOSE x \in s : TRUE]

LEMMA AnyPicks ==
    ASSUME NEW S, IsFiniteSet(S)
    PROVE  Picks(AnyOf(S), S)
  BY DEF Picks, AnyOf

(* SumFunctionOnSet, unrolled by the member its fold takes first.           *)
LEMMA SumsUnroll ==
    ASSUME NEW S, IsFiniteSet(S), NEW f \in [S -> Int]
    PROVE  \A s \in SUBSET S :
              /\ SumFunctionOnSet(f, s) \in Int
              /\ s = {} => SumFunctionOnSet(f, s) = 0
              /\ s # {} => LET x == CHOOSE x \in s : TRUE
                           IN  SumFunctionOnSet(f, s) = f[x] + SumFunctionOnSet(f, s \ {x})
<1> DEFINE pick == AnyOf(S)
           G == [a \in S \X Int |-> f[a[1]] + a[2]]
           Chosen(s) == CHOOSE x \in s : TRUE
           Step(h, s) == IF s = {} THEN 0 ELSE f[Chosen(s)] + h[s \ {Chosen(s)}]
           P(h, t) == h = [s \in SUBSET t |-> Step(h, s)]
           F(t) == CHOOSE h : P(h, t)
<1>1. G \in [S \X Int -> Int]
    OBVIOUS
<1>2. PICK h \in [SUBSET S -> Int] : Folds(h, S, pick, 0, G)
    <2>1. Picks(pick, S)
        BY AnyPicks
    <2> DEFINE V == Int
    <2>2. 0 \in V /\ G \in [S \X V -> V]
        BY <1>1
    <2> HIDE DEF pick, G, V
    <2>3. \E h \in [SUBSET S -> V] : Folds(h, S, pick, 0, G)
        BY <2>1, <2>2, FoldExists
    <2> QED
        BY <2>3 DEF V
<1>3. \A s \in SUBSET S : s # {} => Chosen(s) \in s /\ pick[s] = Chosen(s)
    BY DEF AnyOf
<1>4. ASSUME NEW s \in SUBSET S PROVE h[s] = Step(h, s)
    <2>1. CASE s # {}
        <3>1. pick[s] = Chosen(s) /\ Chosen(s) \in S /\ h[s \ {Chosen(s)}] \in Int
            BY <1>3, <2>1
        <3>2. h[s] = G[<<Chosen(s), h[s \ {Chosen(s)}]>>]
            BY <1>2, <2>1, <3>1 DEF Folds
        <3> HIDE DEF Chosen
        <3> QED
            BY <2>1, <3>1, <3>2
    <2> QED
        BY <1>2, <2>1 DEF Folds
<1>5. ASSUME NEW t \in SUBSET S PROVE SumFunctionOnSet(f, t) = h[t]
    <2> DEFINE g == [s \in SUBSET t |-> h[s]]
    <2>1. P(g, t)
        <3>1. ASSUME NEW s \in SUBSET t PROVE g[s] = Step(g, s)
            <4>1. s # {} => s \ {Chosen(s)} \in SUBSET t
                OBVIOUS
            <4>2. g[s] = h[s] /\ (s # {} => g[s \ {Chosen(s)}] = h[s \ {Chosen(s)}])
                BY <4>1
            <4> HIDE DEF Chosen, g
            <4> QED
                BY <1>4, <4>2
        <3>2. g = [s \in SUBSET t |-> g[s]]
            OBVIOUS
        <3> HIDE DEF Step, g
        <3> QED
            BY <3>1, <3>2
    <2>2. P(F(t), t)
        <3> HIDE DEF P, g
        <3> QED BY <2>1
    <2>3. SumFunctionOnSet(f, t) = F(t)[t]
        BY DEF SumFunctionOnSet, FoldFunctionOnSet, MapThenFoldSet
    <2> DEFINE E == F(t)
               T == {s \in SUBSET t : E[s] = h[s]}
    <2> HIDE DEF F
    <2>4. \A s \in SUBSET t : E[s] = Step(E, s)
        <3> HIDE DEF Step, E
        <3> QED BY <2>2 DEF E
    <2>5. Inductive(T, t, AnyOf(t))
        <3>1. {} \in T
            <4> HIDE DEF E
            <4> QED BY <1>4, <2>4
        <3>2. ASSUME NEW s \in (SUBSET t) \ {{}}, s \ {AnyOf(t)[s]} \in T
              PROVE  s \in T
            <4>1. AnyOf(t)[s] = Chosen(s)
                BY DEF AnyOf
            <4>2. E[s \ {Chosen(s)}] = h[s \ {Chosen(s)}]
                BY <3>2, <4>1
            <4> HIDE DEF E, Chosen
            <4> QED
                BY <1>4, <2>4, <4>2
        <3> HIDE DEF T
        <3> QED
            BY <3>1, <3>2 DEF Inductive
    <2>6. IsFiniteSet(t)
        BY FS_Subset
    <2>7. SUBSET t \subseteq T
        <3> HIDE DEF T
        <3> QED BY <2>5, <2>6, AnyPicks, InductionOnSubsets
    <2> QED
        <3> t \in T
            BY <2>7
        <3> QED
            BY <2>3
<1> QED
    <2>1. ASSUME NEW s \in SUBSET S
          PROVE  /\ SumFunctionOnSet(f, s) \in Int
                 /\ s = {} => SumFunctionOnSet(f, s) = 0
                 /\ s # {} => SumFunctionOnSet(f, s) = f[Chosen(s)] + SumFunctionOnSet(f, s \ {Chosen(s)})
        <3> HIDE DEF Chosen
        <3>1. s \ {Chosen(s)} \in SUBSET S /\ h[s] \in Int
            OBVIOUS
        <3>2. SumFunctionOnSet(f, s) = h[s] /\ SumFunctionOnSet(f, s \ {Chosen(s)}) = h[s \ {Chosen(s)}]
            BY <1>5, <3>1
        <3> QED
            BY <1>4, <3>1, <3>2
    <2> QED
        BY <2>1

(* Induction over the subsets of a finite set: one member more.             *)
LEMMA OneMemberMore ==
    ASSUME NEW S, IsFiniteSet(S), NEW T, {} \in T,
           \A s \in SUBSET S : \A x \in S \ s : s \in T => s \cup {x} \in T
    PROVE  S \in T
<1>1. ASSUME NEW s \in (SUBSET S) \ {{}}, s \ {AnyOf(S)[s]} \in T PROVE s \in T
    <2> DEFINE x == AnyOf(S)[s]
    <2>1. x \in s
        BY DEF AnyOf
    <2>2. s = (s \ {x}) \cup {x} /\ s \ {x} \in SUBSET S /\ x \in S \ (s \ {x})
        BY <2>1
    <2> HIDE DEF x
    <2>3. s \ {x} \in T
        BY <1>1 DEF x
    <2> QED
        BY <2>2, <2>3
<1>2. Inductive(T, S, AnyOf(S))
    BY <1>1 DEF Inductive
<1> QED
    BY <1>2, AnyPicks, InductionOnSubsets

(* The order in which a sum is taken does not matter.                       *)
LEMMA SumOfOneMore ==
    ASSUME NEW S, IsFiniteSet(S), NEW f \in [S -> Int]
    PROVE  \A s \in SUBSET S : \A x \in s :
              SumFunctionOnSet(f, s) = f[x] + SumFunctionOnSet(f, s \ {x})
<1> DEFINE H(s) == SumFunctionOnSet(f, s)
           T == {s \in SUBSET S : \A x \in s : H(s) = f[x] + H(s \ {x})}
           size == [s \in SUBSET S |-> Cardinality(s)]
<1>1. ASSUME NEW s \in SUBSET S, s # {}
      PROVE  \E c \in s : H(s) = f[c] + H(s \ {c})
    <2> DEFINE c == CHOOSE x \in s : TRUE
    <2>1. c \in s
        BY <1>1
    <2>2. H(s) = f[c] + H(s \ {c})
        BY <1>1, SumsUnroll
    <2> QED
        BY <2>1, <2>2
<1>2. \A s \in SUBSET S : IsFiniteSet(s) /\ Cardinality(s) \in Nat
    BY FS_Subset, FS_CardinalityType
<1>3. \A s \in SUBSET S : \A x \in s : size[s \ {x}] < size[s]
    <2>1. SUFFICES ASSUME NEW s \in SUBSET S, NEW x \in s PROVE size[s \ {x}] < size[s]
        OBVIOUS
    <2>2. Cardinality(s \ {x}) = Cardinality(s) - 1
        BY <1>2, FS_RemoveElement
    <2> QED
        BY <1>2, <2>2
<1>4. ASSUME NEW s \in SUBSET S, \A t \in SUBSET S : size[t] < size[s] => t \in T
      PROVE  s \in T
    <2>1. SUFFICES ASSUME NEW x \in s PROVE H(s) = f[x] + H(s \ {x})
        OBVIOUS
    <2>2. PICK c \in s : H(s) = f[c] + H(s \ {c})
        <3>1. s # {}
            OBVIOUS
        <3> QED
            BY <1>1, <3>1
    <2> DEFINE u == s \ {x, c}
    <2>3. H(s) = f[c] + H(s \ {c})
        BY <2>2
    <2>4. CASE x # c
        <3>1. s \ {c} \in T /\ s \ {x} \in T
            <4> HIDE DEF T, size
            <4> QED BY <1>3, <1>4, <2>2
        <3>2. x \in s \ {c} /\ c \in s \ {x} /\ (s \ {c}) \ {x} = u /\ (s \ {x}) \ {c} = u
            BY <2>2, <2>4
        <3> HIDE DEF u
        <3>3. H(s \ {c}) = f[x] + H(u) /\ H(s \ {x}) = f[c] + H(u)
            BY <3>1, <3>2
        <3>4. f[x] \in Int /\ f[c] \in Int /\ H(u) \in Int
            <4>1. u \in SUBSET S /\ c \in S /\ x \in S
                BY <2>2 DEF u
            <4>2. H(u) \in Int
                BY <4>1, SumsUnroll
            <4> QED
                BY <4>1, <4>2
        <3> QED
            BY <2>3, <3>3, <3>4
    <2> QED
        BY <2>3, <2>4
<1>5. SUBSET S \subseteq T
    <2>1. size \in [SUBSET S -> Nat]
        BY <1>2
    <2> HIDE DEF T, size
    <2> QED
        BY <1>4, <2>1, InductionBySize
<1> QED
    BY <1>5

(* Sums of finitely many integers, member by member.                        *)
LEMMA SumsOnSubsets ==
    ASSUME NEW S, IsFiniteSet(S), NEW f \in [S -> Int]
    PROVE  /\ SumFunctionOnSet(f, {}) = 0
           /\ \A s \in SUBSET S : SumFunctionOnSet(f, s) \in Int
           /\ \A s \in SUBSET S : \A x \in S \ s :
                 SumFunctionOnSet(f, s \cup {x}) = f[x] + SumFunctionOnSet(f, s)
           /\ SumFunction(f) = SumFunctionOnSet(f, S)
<1>1. ASSUME NEW s \in SUBSET S, NEW x \in S \ s
      PROVE  SumFunctionOnSet(f, s \cup {x}) = f[x] + SumFunctionOnSet(f, s)
    <2> DEFINE t == s \cup {x}
    <2>1. t \in SUBSET S /\ x \in t /\ t \ {x} = s
        OBVIOUS
    <2> HIDE DEF t
    <2>2. SumFunctionOnSet(f, t) = f[x] + SumFunctionOnSet(f, t \ {x})
        BY <2>1, SumOfOneMore
    <2> QED
        BY <2>1, <2>2 DEF t
<1>2. SumFunction(f) = SumFunctionOnSet(f, S)
    BY DEF SumFunction
<1>3. /\ SumFunctionOnSet(f, {}) = 0
      /\ \A s \in SUBSET S : SumFunctionOnSet(f, s) \in Int
    BY SumsUnroll
<1> QED
    BY <1>1, <1>2, <1>3

(* A sum is that of any function with the same values.                      *)
LEMMA SameSum ==
    ASSUME NEW S, NEW D \in SUBSET S, IsFiniteSet(S),
           NEW f \in [S -> Int], NEW g \in [D -> Int], \A x \in D : g[x] = f[x]
    PROVE  SumFunction(g) = SumFunctionOnSet(f, D)
<1>1. IsFiniteSet(D)
    BY FS_Subset
<1> DEFINE T == {s \in SUBSET D : SumFunctionOnSet(g, s) = SumFunctionOnSet(f, s)}
<1>2. D \in T
    <2>1. {} \in T
        BY <1>1, SumsOnSubsets
    <2>2. ASSUME NEW s \in SUBSET D, NEW x \in D \ s, s \in T PROVE s \cup {x} \in T
        <3>1. SumFunctionOnSet(g, s \cup {x}) = g[x] + SumFunctionOnSet(g, s)
            BY <1>1, SumsOnSubsets
        <3>2. SumFunctionOnSet(f, s \cup {x}) = f[x] + SumFunctionOnSet(f, s)
            <4>1. s \in SUBSET S /\ x \in S \ s
                OBVIOUS
            <4> QED
                BY <4>1, SumsOnSubsets
        <3> QED
            BY <2>2, <3>1, <3>2
    <2> HIDE DEF T
    <2> QED
        BY <1>1, <2>1, <2>2, OneMemberMore
<1> QED
    <2>1. SumFunction(g) = SumFunctionOnSet(g, D)
        BY <1>1, SumsOnSubsets
    <2> QED
        BY <1>2, <2>1

(* Sums are in every set of integers that has 0 and is closed under +.      *)
LEMMA SumsAreClosed ==
    ASSUME NEW S, IsFiniteSet(S), NEW V \in SUBSET Int, 0 \in V,
           \A v, w \in V : v + w \in V, NEW f \in [S -> V]
    PROVE  SumFunction(f) \in V
<1>1. f \in [S -> Int]
    OBVIOUS
<1> DEFINE T == {s \in SUBSET S : SumFunctionOnSet(f, s) \in V}
<1>2. {} \in T
    BY <1>1, SumsOnSubsets
<1>3. ASSUME NEW s \in SUBSET S, NEW x \in S \ s, s \in T PROVE s \cup {x} \in T
    <2>1. SumFunctionOnSet(f, s \cup {x}) = f[x] + SumFunctionOnSet(f, s)
        BY <1>1, SumsOnSubsets
    <2>2. f[x] \in V
        OBVIOUS
    <2> QED
        BY <1>3, <2>1, <2>2
<1>4. S \in T
    <2> HIDE DEF T
    <2> QED BY <1>2, <1>3, OneMemberMore
<1> QED
    BY <1>1, <1>4, SumsOnSubsets

(* Sums are linear.                                                         *)
LEMMA SumOfDifferences ==
    ASSUME NEW S, IsFiniteSet(S), NEW f \in [S -> Int], NEW g \in [S -> Int]
    PROVE  SumFunction([x \in S |-> f[x] - g[x]]) = SumFunction(f) - SumFunction(g)
<1> DEFINE d == [x \in S |-> f[x] - g[x]]
           T == {s \in SUBSET S : SumFunctionOnSet(d, s)
                                      = SumFunctionOnSet(f, s) - SumFunctionOnSet(g, s)}
<1>1. d \in [S -> Int]
    OBVIOUS
<1>2. {} \in T
    <2> HIDE DEF d
    <2> QED BY <1>1, SumsOnSubsets
<1>3. ASSUME NEW s \in SUBSET S, NEW x \in S \ s, s \in T PROVE s \cup {x} \in T
    <2>1. d[x] = f[x] - g[x] /\ f[x] \in Int /\ g[x] \in Int
        OBVIOUS
    <2> HIDE DEF d
    <2>2. /\ SumFunctionOnSet(d, s \cup {x}) = d[x] + SumFunctionOnSet(d, s)
          /\ SumFunctionOnSet(f, s \cup {x}) = f[x] + SumFunctionOnSet(f, s)
          /\ SumFunctionOnSet(g, s \cup {x}) = g[x] + SumFunctionOnSet(g, s)
          /\ SumFunctionOnSet(f, s) \in Int /\ SumFunctionOnSet(g, s) \in Int
        BY <1>1, SumsOnSubsets
    <2> QED
        BY <1>3, <2>1, <2>2
<1>4. S \in T
    <2> HIDE DEF T
    <2> QED BY <1>2, <1>3, OneMemberMore
<1> QED
    <2> HIDE DEF d
    <2>1. /\ SumFunction(d) = SumFunctionOnSet(d, S)
          /\ SumFunction(f) = SumFunctionOnSet(f, S)
          /\ SumFunction(g) = SumFunctionOnSet(g, S)
        BY <1>1, SumsOnSubsets
    <2>2. SumFunction(d) = SumFunction(f) - SumFunction(g)
        BY <1>4, <2>1
    <2> QED
        BY <2>2 DEF d

(* A sum counted in another way, one for one.                               *)
Counts(g, D, b, f, S) ==
    /\ b \in Bijection(D, S) /\ f \in [S -> Int] /\ g \in [D -> Int]
    /\ \A k \in D : g[k] = f[b[k]]

LEMMA SumByBijection ==
    ASSUME NEW S, NEW D, IsFiniteSet(S), NEW b, NEW f, NEW g, Counts(g, D, b, f, S)
    PROVE  SumFunction(g) = SumFunction(f)
<1> USE DEF Counts
<1> DEFINE H(t) == {b[k] : k \in t}
           T == {t \in SUBSET D : SumFunctionOnSet(g, t) = SumFunctionOnSet(f, H(t))}
<1>1. /\ b \in [D -> S] /\ \A k, l \in D : b[k] = b[l] => k = l
      /\ \A x \in S : \E k \in D : b[k] = x
    BY DEF Bijection, Injection, IsInjective, Surjection
<1>2. IsFiniteSet(D)
    <2>1. b \in Injection(D, S)
        BY DEF Bijection
    <2> QED
        BY <2>1, FS_Injection
<1>4. {} \in T
    <2>1. H({}) = {}
        OBVIOUS
    <2> HIDE DEF H
    <2> QED
        BY <1>2, <2>1, SumsOnSubsets
<1>5. ASSUME NEW t \in SUBSET D, NEW k \in D \ t, t \in T PROVE t \cup {k} \in T
    <2>1. H(t \cup {k}) = H(t) \cup {b[k]} /\ H(t) \in SUBSET S /\ b[k] \in S \ H(t)
        BY <1>1
    <2>2. g[k] = f[b[k]]
        OBVIOUS
    <2> HIDE DEF H
    <2>3. SumFunctionOnSet(g, t \cup {k}) = g[k] + SumFunctionOnSet(g, t)
        BY <1>2, SumsOnSubsets
    <2>4. SumFunctionOnSet(f, H(t) \cup {b[k]}) = f[b[k]] + SumFunctionOnSet(f, H(t))
        BY <2>1, SumsOnSubsets
    <2> QED
        BY <1>5, <2>1, <2>2, <2>3, <2>4
<1>6. D \in T
    <2> HIDE DEF T
    <2> QED BY <1>2, <1>4, <1>5, OneMemberMore
<1>7. H(D) = S
    BY <1>1
<1> HIDE DEF H
<1> QED
    BY <1>2, <1>6, <1>7, SumsOnSubsets
(* The sum over two parts is the sum of their sums.                         *)
LEMMA SumOfUnion ==
    ASSUME NEW S, IsFiniteSet(S), NEW f \in [S -> Int],
           NEW A \in SUBSET S, NEW B \in SUBSET S, A \cap B = {}
    PROVE  SumFunctionOnSet(f, A \cup B) = SumFunctionOnSet(f, A) + SumFunctionOnSet(f, B)
<1> DEFINE F(s) == SumFunctionOnSet(f, s)
           T == {s \in SUBSET B : F(A \cup s) = F(A) + F(s)}
<1>1. \A s \in SUBSET S : F(s) \in Int
    BY SumsOnSubsets
<1>2. {} \in T
    <2>1. A \cup {} = A /\ F({}) = 0
        BY SumsOnSubsets
    <2> HIDE DEF F
    <2> QED
        BY <1>1, <2>1
<1>3. ASSUME NEW s \in SUBSET B, NEW x \in B \ s, s \in T PROVE s \cup {x} \in T
    <2> DEFINE u == A \cup s
               v == s \cup {x}
    <2>1. /\ u \in SUBSET S /\ s \in SUBSET S /\ v \in SUBSET B
          /\ x \in S \ u /\ x \in S \ s /\ A \cup v = u \cup {x}
        OBVIOUS
    <2>2. F(u \cup {x}) = f[x] + F(u) /\ F(s \cup {x}) = f[x] + F(s)
        <3> HIDE DEF u
        <3> QED
            BY <2>1, SumsOnSubsets
    <2>3. f[x] \in Int /\ F(A) \in Int /\ F(s) \in Int /\ F(u) = F(A) + F(s)
        BY <1>1, <1>3, <2>1
    <2>4. F(A \cup v) = F(A) + F(v)
        <3>1. F(v) = f[x] + F(s)
            BY <2>2
        <3> HIDE DEF F, u, v
        <3>2. F(A \cup v) = f[x] + (F(A) + F(s))
            BY <2>1, <2>2, <2>3
        <3>3. ASSUME NEW i \in Int, NEW j \in Int, NEW k \in Int
              PROVE  i + (j + k) = j + (i + k)
            OBVIOUS
        <3> QED
            BY <2>3, <3>1, <3>2, <3>3
    <2> QED
        BY <2>1, <2>4
<1>4. B \in T
    <2>1. IsFiniteSet(B)
        BY FS_Subset
    <2> HIDE DEF T
    <2> QED
        BY <1>2, <1>3, <2>1, OneMemberMore
<1> QED
    BY <1>4

(* GROUP BY: the sum of what the groups sum up to.                          *)
Groups(f, S, g, C, h) ==
    /\ f \in [S -> Int] /\ g \in [S -> C]
    /\ h \in [C -> Int]
    /\ \A c \in C : h[c] = SumFunctionOnSet(f, {x \in S : g[x] = c})

LEMMA SumByGroups ==
    ASSUME NEW S, IsFiniteSet(S), NEW C, IsFiniteSet(C),
           NEW f, NEW g, NEW h, Groups(f, S, g, C, h)
    PROVE  SumFunction(h) = SumFunction(f)
<1> USE DEF Groups
<1> DEFINE In(s) == {x \in S : g[x] \in s}
           T == {s \in SUBSET C : SumFunctionOnSet(h, s) = SumFunctionOnSet(f, In(s))}
<1>1. {} \in T
    <2>1. In({}) = {}
        OBVIOUS
    <2> HIDE DEF In
    <2> QED
        BY <2>1, SumsOnSubsets
<1>2. ASSUME NEW s \in SUBSET C, NEW c \in C \ s, s \in T PROVE s \cup {c} \in T
    <2> DEFINE G == {x \in S : g[x] = c}
    <2>1. In(s \cup {c}) = In(s) \cup G /\ In(s) \cap G = {} /\ In(s) \in SUBSET S /\ G \in SUBSET S
        OBVIOUS
    <2>2. h[c] = SumFunctionOnSet(f, G)
        OBVIOUS
    <2> HIDE DEF In, G
    <2>3. SumFunctionOnSet(h, s \cup {c}) = h[c] + SumFunctionOnSet(h, s)
        BY SumsOnSubsets
    <2>4. SumFunctionOnSet(f, In(s) \cup G) = SumFunctionOnSet(f, In(s)) + SumFunctionOnSet(f, G)
        BY <2>1, SumOfUnion
    <2>5. SumFunctionOnSet(f, In(s)) \in Int /\ h[c] \in Int
        BY <2>1, SumsOnSubsets
    <2>6. SumFunctionOnSet(h, s) = SumFunctionOnSet(f, In(s)) /\ SumFunctionOnSet(f, G) \in Int
        BY <1>2, <2>1, SumsOnSubsets
    <2>7. SumFunctionOnSet(h, s \cup {c}) = SumFunctionOnSet(f, In(s \cup {c}))
        <3>1. ASSUME NEW i \in Int, NEW j \in Int PROVE i + j = j + i
            OBVIOUS
        <3>2. SumFunctionOnSet(f, In(s \cup {c})) = SumFunctionOnSet(f, In(s)) + h[c]
            BY <2>1, <2>2, <2>4
        <3>3. SumFunctionOnSet(h, s \cup {c}) = h[c] + SumFunctionOnSet(f, In(s))
            BY <2>3, <2>6
        <3> QED
            BY <2>5, <3>1, <3>2, <3>3
    <2>8. s \cup {c} \in SUBSET C
        OBVIOUS
    <2> QED
        BY <2>7, <2>8
<1>3. C \in T
    <2> HIDE DEF T
    <2> QED BY <1>1, <1>2, OneMemberMore
<1>4. In(C) = S
    OBVIOUS
<1>5. SumFunction(h) = SumFunctionOnSet(h, C) /\ SumFunction(f) = SumFunctionOnSet(f, S)
    BY SumsOnSubsets
<1> HIDE DEF In
<1> QED
    BY <1>3, <1>4, <1>5
=============================================================================
