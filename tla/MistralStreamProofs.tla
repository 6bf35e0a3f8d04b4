------------------------ MODULE MistralStreamProofs ------------------------
(***************************************************************************)
(* Theorems about MistralStream, for every set of requests and every text  *)
(* upstream may send, of any length and cut anywhere: write_cb consumes    *)
(* whole frames only, what it relays is what the text says, whatever the   *)
(* chunks, and a response that was ended has one end mark.                 *)
(***************************************************************************)
EXTENDS MistralStream, InductionTheorems

Tokens    == UNION {Range(t) : t \in Texts}
Payloads  == Tokens \cup {""}
Parts     == [type : {"error", "done", "delta", "raw", "reply", "final"}, data : Payloads]
Responses == [body : Seq(Parts), sent : Seq(Parts), ended : BOOLEAN]
Drained   == [lines : Seq(Payloads), rest : Seq(Tokens)]

(* Texts are sequences of their tokens.                                     *)
LEMMA TextsAreTokens == Texts \subseteq Seq(Tokens)
BY TextAssumption DEF Tokens

-----------------------------------------------------------------------------
(* Parts of a text *)

(* A part of a text.                                                        *)
LEMMA PartOfText ==
    ASSUME NEW V, NEW t \in Seq(V), NEW b \in 0..Len(t), NEW a \in 1..(b + 1)
    PROVE  /\ SubSeq(t, a, b) \in Seq(V) /\ Len(SubSeq(t, a, b)) = b - a + 1
           /\ \A i \in 1..(b - a + 1) : SubSeq(t, a, b)[i] = t[a + i - 1]
<1>1. Len(t) \in Nat
    BY LenProperties
<1>2. \A i \in a..b : t[i] \in V
    <2>1. \A i \in a..b : i \in 1..Len(t)
        BY <1>1
    <2> QED
        BY <2>1, ElementOfSeq
<1>3. a \in Int /\ b \in Int /\ a <= b + 1
    BY <1>1
<1> QED
    BY <1>2, <1>3, SubSeqProperties

(* A part of a part is a part.                                               *)
LEMMA PartOfPart ==
    ASSUME NEW V, NEW t \in Seq(V), NEW b \in 0..Len(t), NEW a \in 1..(b + 1),
           NEW j \in 0..(b - a + 1), NEW i \in 1..(j + 1)
    PROVE  SubSeq(SubSeq(t, a, b), i, j) = SubSeq(t, a + i - 1, a + j - 1)
<1> DEFINE s == SubSeq(t, a, b)
           c == a + i - 1
           d == a + j - 1
<1>1. Len(t) \in Nat
    BY LenProperties
<1>2. s \in Seq(V) /\ Len(s) = b - a + 1 /\ \A k \in 1..(b - a + 1) : s[k] = t[a + k - 1]
    BY PartOfText
<1>3. j \in 0..Len(s) /\ c \in 1..(d + 1) /\ d \in 0..Len(t)
    BY <1>1, <1>2
<1> HIDE DEF s
<1>4. /\ SubSeq(s, i, j) \in Seq(V) /\ Len(SubSeq(s, i, j)) = j - i + 1
      /\ \A k \in 1..(j - i + 1) : SubSeq(s, i, j)[k] = s[i + k - 1]
    BY <1>2, <1>3, PartOfText
<1>5. /\ SubSeq(t, c, d) \in Seq(V) /\ Len(SubSeq(t, c, d)) = d - c + 1
      /\ \A k \in 1..(d - c + 1) : SubSeq(t, c, d)[k] = t[c + k - 1]
    <2> HIDE DEF c, d
    <2> QED BY <1>3, PartOfText
<1>6. ASSUME NEW k \in 1..(j - i + 1)
      PROVE  s[i + k - 1] = t[c + k - 1]
    <2>1. i + k - 1 \in 1..(b - a + 1)
        BY <1>1
    <2>2. s[i + k - 1] = t[a + (i + k - 1) - 1]
        BY <1>2, <2>1
    <2>3. a + (i + k - 1) - 1 = c + k - 1
        BY <1>1, <2>1
    <2> QED
        BY <2>2, <2>3
<1>7. d - c + 1 = j - i + 1
    BY <1>1
<1> HIDE DEF c, d
<1>8. SubSeq(s, i, j) = SubSeq(t, c, d)
    <2> DEFINE u == SubSeq(s, i, j)
               v == SubSeq(t, c, d)
               n == j - i + 1
    <2>1. /\ u \in Seq(V) /\ Len(u) = n /\ v \in Seq(V) /\ Len(v) = n
          /\ \A k \in 1..n : u[k] = v[k]
        BY <1>4, <1>5, <1>6, <1>7
    <2> HIDE DEF u, v, n
    <2>2. u = v
        BY <2>1, SeqEqual
    <2> QED
        BY <2>2 DEF u, v
<1> QED
    BY <1>8 DEF c, d, s

(* The end of a text is a text.                                             *)
LEMMA RestIsText ==
    ASSUME NEW s \in Seq(Tokens), NEW k \in 1..(Len(s) + 1)
    PROVE  /\ SubSeq(s, k, Len(s)) \in Seq(Tokens)
           /\ Len(SubSeq(s, k, Len(s))) = Len(s) - k + 1
<1>1. Len(s) \in 0..Len(s)
    BY LenProperties
<1> QED
    BY <1>1, PartOfText

-----------------------------------------------------------------------------
(* Delimiters and data lines *)

(* A pattern starts at places of the text from which it fits.               *)
LEMMA StartsFit ==
    ASSUME NEW s \in Seq(Tokens), NEW A, NEW pattern \in Seq(A)
    PROVE  /\ Starts(s, pattern) \in SUBSET Int /\ IsFiniteSet(Starts(s, pattern))
           /\ \A i \in Starts(s, pattern) : i >= 1 /\ i + Len(pattern) - 1 <= Len(s)
<1>1. Len(s) \in Nat /\ Len(pattern) \in Nat
    BY LenProperties
<1>2. \A i \in Starts(s, pattern) : i \in 1..(Len(s) - Len(pattern) + 1)
    BY DEF Starts
<1>3. IsFiniteSet(1..(Len(s) - Len(pattern) + 1))
    BY <1>1, FS_Interval
<1>4. IsFiniteSet(Starts(s, pattern))
    BY <1>2, <1>3, FS_Subset
<1> QED
    BY <1>1, <1>2, <1>4

(* s has the pattern p of l tokens at i.                                     *)
Matches(s, p, l, i) ==
    i \in 1..Len(s) /\ i + l - 1 <= Len(s) /\ \A j \in 1..l : s[i + j - 1] = p[j]

LEMMA StartsAt ==
    ASSUME NEW V, NEW s \in Seq(V), NEW p \in Seq(V), NEW l \in Nat, Len(p) = l, l >= 1, NEW i
    PROVE  i \in Starts(s, p) <=> Matches(s, p, l, i)
<1>1. Len(s) \in Nat
    BY LenProperties
<1>2. ASSUME i \in 1..Len(s), i + l - 1 <= Len(s)
      PROVE  SubSeq(s, i, i + l - 1) = p <=> \A j \in 1..l : s[i + j - 1] = p[j]
    <2> DEFINE e == i + l - 1
               u == SubSeq(s, i, e)
    <2>1. e \in 0..Len(s) /\ i \in 1..(e + 1) /\ e - i + 1 = l
        BY <1>1, <1>2
    <2>2. u \in Seq(V) /\ Len(u) = l /\ \A j \in 1..l : u[j] = s[i + j - 1]
        <3> HIDE DEF e
        <3> QED BY <2>1, PartOfText
    <2> HIDE DEF u, e
    <2>3. (\A j \in 1..l : u[j] = p[j]) => u = p
        BY <2>2, SeqEqual
    <2>4. u = p <=> \A j \in 1..l : s[i + j - 1] = p[j]
        BY <2>2, <2>3
    <2> QED
        BY <2>4 DEF u, e
<1>3. i \in Starts(s, p) <=> /\ i \in 1..Len(s) /\ i + l - 1 <= Len(s)
                             /\ SubSeq(s, i, i + l - 1) = p
    BY <1>1 DEF Starts
<1> QED
    BY <1>2, <1>3 DEF Matches

(* The payloads of data lines are tokens of the text, or nothing.           *)
LEMMA DataLinesArePayloads ==
    ASSUME NEW s \in Seq(Tokens)
    PROVE  DataLines(s) \in Seq(Payloads)
<1> DEFINE places == {i \in Starts(s, <<"data:">>) : i = 1 \/ s[i - 1] \in {CR, LF}}
           lines == Listed(places)
           Payload(n) == IF lines[n] < Len(s) /\ s[lines[n] + 1] \notin {CR, LF}
                         THEN s[lines[n] + 1] ELSE ""
<1>1. <<"data:">> \in Seq({"data:"}) /\ Len(<<"data:">>) = 1
    OBVIOUS
<1>2. /\ Starts(s, <<"data:">>) \in SUBSET Int /\ IsFiniteSet(Starts(s, <<"data:">>))
      /\ \A i \in Starts(s, <<"data:">>) : i >= 1 /\ i + 1 - 1 <= Len(s)
    BY <1>1, StartsFit
<1>3. places \in SUBSET Nat /\ IsFiniteSet(places) /\ \A i \in places : i >= 1
    BY <1>2, FS_Subset
<1>4. lines = NumbersOf(places)
    BY DEF Listed, NumbersOf
<1>5. DataLines(s) = [n \in DOMAIN lines |-> Payload(n)]
    BY DEF DataLines
<1> HIDE DEF places
<1>6. lines \in Seq(places)
    <2> HIDE DEF lines
    <2> QED BY <1>3, <1>4, NumbersInOrder
<1> HIDE DEF lines
<1>7. Len(lines) \in Nat /\ DOMAIN lines = 1..Len(lines) /\ \A n \in DOMAIN lines : lines[n] \in places
    BY <1>6, LenProperties
<1>8. ASSUME NEW n \in DOMAIN lines PROVE Payload(n) \in Payloads
    <2>1. lines[n] \in Nat /\ lines[n] >= 1
        BY <1>3, <1>7
    <2>2. CASE lines[n] < Len(s)
        <3>1. lines[n] + 1 \in 1..Len(s)
            BY <2>1, <2>2, LenProperties
        <3>2. s[lines[n] + 1] \in Tokens
            BY <3>1, ElementOfSeq
        <3> QED
            BY <3>2 DEF Payloads
    <2>3. CASE ~(lines[n] < Len(s))
        BY <2>3 DEF Payloads
    <2> QED
        BY <2>2, <2>3
<1> HIDE DEF Payload
<1>9. [n \in 1..Len(lines) |-> Payload(n)] \in [1..Len(lines) -> Payloads]
    BY <1>7, <1>8
<1> QED
    BY <1>5, <1>7, <1>9, SeqDef

(* No data line begins by a line end.                                        *)
LEMMA DistinctTokens == "data:" \notin {CR, LF} /\ CR # LF
BY DEF CR, LF

(* Line ends.                                                               *)
Break(x) == x \in {CR, LF}

Breaks(t, i, j) == \A n \in i..j : Break(t[n])

(* A delimiter of l tokens at i.                                            *)
DelimiterAt(t, i, l) ==
    \/ l = 2 /\ t[i] = LF /\ t[i + 1] = LF
    \/ l = 4 /\ t[i] = CR /\ t[i + 1] = LF /\ t[i + 2] = CR /\ t[i + 3] = LF

LEMMA DelimitersAt ==
    ASSUME NEW s \in Seq(Tokens)
    PROVE  Delimiters(s) = {d \in (1..Len(s)) \X {2, 4} :
                               d[1] + d[2] - 1 <= Len(s) /\ DelimiterAt(s, d[1], d[2])}
<1> DEFINE V == Tokens \cup {CR, LF}
           two == <<LF, LF>>
           four == <<CR, LF, CR, LF>>
           D == {d \in (1..Len(s)) \X {2, 4} :
                    d[1] + d[2] - 1 <= Len(s) /\ DelimiterAt(s, d[1], d[2])}
<1>1. s \in Seq(V) /\ Len(s) \in Nat
    <2>1. Tokens \subseteq V
        OBVIOUS
    <2> QED
        BY <2>1, SeqMonotonic, LenProperties
<1>2. /\ 2 \in Nat /\ 4 \in Nat /\ 2 >= 1 /\ 4 >= 1
      /\ two \in Seq(V) /\ Len(two) = 2 /\ two[1] = LF /\ two[2] = LF
      /\ four \in Seq(V) /\ Len(four) = 4
      /\ four[1] = CR /\ four[2] = LF /\ four[3] = CR /\ four[4] = LF
    OBVIOUS
<1>3. Delimiters(s) = {<<i, 2>> : i \in Starts(s, two)} \cup {<<i, 4>> : i \in Starts(s, four)}
    BY DEF Delimiters
<1> HIDE DEF two, four, V
<1>4. ASSUME NEW i
      PROVE  i \in Starts(s, two) <=> i \in 1..Len(s) /\ i + 1 <= Len(s) /\ DelimiterAt(s, i, 2)
    <2>1. i \in Starts(s, two) <=> Matches(s, two, 2, i)
        BY <1>1, <1>2, StartsAt
    <2>2. ASSUME i \in 1..Len(s)
          PROVE  (\A j \in 1..2 : s[i + j - 1] = two[j]) <=> s[i] = LF /\ s[i + 1] = LF
        <3>1. 1..2 = {1, 2} /\ i + 1 - 1 = i /\ i + 2 - 1 = i + 1
            BY <1>1, <2>2
        <3> QED
            BY <1>2, <3>1
    <2> QED
        BY <1>1, <2>1, <2>2 DEF DelimiterAt, Matches
<1>5. ASSUME NEW i
      PROVE  i \in Starts(s, four) <=> i \in 1..Len(s) /\ i + 3 <= Len(s) /\ DelimiterAt(s, i, 4)
    <2>1. i \in Starts(s, four) <=> Matches(s, four, 4, i)
        BY <1>1, <1>2, StartsAt
    <2>2. ASSUME i \in 1..Len(s)
          PROVE  (\A j \in 1..4 : s[i + j - 1] = four[j])
                    <=> s[i] = CR /\ s[i + 1] = LF /\ s[i + 2] = CR /\ s[i + 3] = LF
        <3>1. 1..4 = {1, 2, 3, 4} /\ i + 1 - 1 = i /\ i + 2 - 1 = i + 1
              /\ i + 3 - 1 = i + 2 /\ i + 4 - 1 = i + 3
            BY <1>1, <2>2
        <3> QED
            BY <1>2, <3>1
    <2> QED
        BY <1>1, <2>1, <2>2 DEF DelimiterAt, Matches
<1>6. Delimiters(s) \subseteq D
    <2>1. SUFFICES ASSUME NEW d \in Delimiters(s) PROVE d \in D
        OBVIOUS
    <2>2. PICK i : \/ d = <<i, 2>> /\ i \in Starts(s, two)
                   \/ d = <<i, 4>> /\ i \in Starts(s, four)
        BY <1>3
    <2> QED
        BY <1>1, <1>4, <1>5, <2>2
<1>7. D \subseteq Delimiters(s)
    <2>1. SUFFICES ASSUME NEW d \in D PROVE d \in Delimiters(s)
        OBVIOUS
    <2>2. PICK i \in 1..Len(s), l \in {2, 4} : d = <<i, l>>
        OBVIOUS
    <2>3. i + l - 1 <= Len(s) /\ DelimiterAt(s, i, l)
        BY <2>2
    <2>4. CASE l = 2
        <3>1. i \in Starts(s, two)
            BY <1>1, <1>4, <2>3, <2>4
        <3> QED
            BY <1>3, <2>2, <2>4, <3>1
    <2>5. CASE l = 4
        <3>1. i \in Starts(s, four)
            BY <1>1, <1>5, <2>3, <2>5
        <3> QED
            BY <1>3, <2>2, <2>5, <3>1
    <2> QED
        BY <2>4, <2>5
<1> QED
    BY <1>6, <1>7

LEMMA DelimitersAreBreaks ==
    ASSUME NEW t, NEW i \in Nat, NEW l \in {2, 4}, DelimiterAt(t, i, l)
    PROVE  Breaks(t, i, i + l - 1)
<1>1. SUFFICES ASSUME NEW n \in i..(i + l - 1) PROVE t[n] \in {CR, LF}
    BY DEF Breaks, Break
<1>2. CASE l = 2
    <2>1. n \in {i, i + 1}
        BY <1>2
    <2> QED
        BY <1>2, <2>1 DEF DelimiterAt
<1>3. CASE l = 4
    <2>1. n \in {i, i + 1, i + 2, i + 3}
        BY <1>3
    <2> QED
        BY <1>3, <2>1 DEF DelimiterAt
<1> QED
    BY <1>2, <1>3

(* A frame of t ends before k.                                              *)
EndsFrame(t, k) ==
    \E i \in 1..k : \E l \in {2, 4} : i + l = k /\ DelimiterAt(t, i, l)

(* The delimiters of a part of a text are those of the text.                *)
LEMMA DelimiterOfPart ==
    ASSUME NEW t \in Seq(Tokens), NEW b \in 0..Len(t), NEW a \in 1..(b + 1),
           NEW i \in 1..(b - a + 1), NEW l \in {2, 4}, i + l - 1 <= b - a + 1
    PROVE  DelimiterAt(SubSeq(t, a, b), i, l) <=> DelimiterAt(t, a + i - 1, l)
<1> DEFINE s == SubSeq(t, a, b)
           j == a + i - 1
<1>1. Len(t) \in Nat /\ a \in Nat /\ b \in Nat /\ a >= 1 /\ a <= b + 1 /\ i \in Nat
    BY LenProperties
<1>2. \A n \in 1..(b - a + 1) : s[n] = t[a + n - 1]
    BY PartOfText
<1> HIDE DEF s
<1>3. \A n \in 0..(l - 1) : s[i + n] = t[j + n]
    <2>1. SUFFICES ASSUME NEW n \in 0..(l - 1) PROVE s[i + n] = t[j + n]
        OBVIOUS
    <2>2. i + n \in 1..(b - a + 1) /\ a + (i + n) - 1 = j + n
        BY <1>1
    <2> QED
        BY <1>2, <2>2
<1>4. CASE l = 2
    <2>1. 0 \in 0..(l - 1) /\ 1 \in 0..(l - 1) /\ i + 0 = i /\ j + 0 = j
        BY <1>1, <1>4
    <2> HIDE DEF j
    <2>2. s[i] = t[j] /\ s[i + 1] = t[j + 1]
        BY <1>3, <2>1
    <2>3. DelimiterAt(s, i, l) <=> DelimiterAt(t, j, l)
        BY <1>4, <2>2 DEF DelimiterAt
    <2> QED
        BY <2>3 DEF j, s
<1>5. CASE l = 4
    <2>1. /\ 0 \in 0..(l - 1) /\ 1 \in 0..(l - 1) /\ 2 \in 0..(l - 1) /\ 3 \in 0..(l - 1)
          /\ i + 0 = i /\ j + 0 = j
        BY <1>1, <1>5
    <2> HIDE DEF j
    <2>2. s[i] = t[j] /\ s[i + 1] = t[j + 1] /\ s[i + 2] = t[j + 2] /\ s[i + 3] = t[j + 3]
        BY <1>3, <2>1
    <2>3. DelimiterAt(s, i, l) <=> DelimiterAt(t, j, l)
        BY <1>5, <2>2 DEF DelimiterAt
    <2> QED
        BY <2>3 DEF j, s
<1> QED
    BY <1>4, <1>5

(* A frame that ends in a part of a text ends in the text.                  *)
LEMMA FrameOfPart ==
    ASSUME NEW t \in Seq(Tokens), NEW b \in 0..Len(t), NEW a \in 1..(b + 1),
           NEW k \in 1..(b - a + 2), EndsFrame(SubSeq(t, a, b), k)
    PROVE  EndsFrame(t, a + k - 1)
<1> DEFINE s == SubSeq(t, a, b)
<1>1. Len(t) \in Nat /\ a \in Nat /\ b \in Nat /\ a >= 1 /\ a <= b + 1 /\ k \in Nat /\ k >= 1 /\ k <= b - a + 2
    BY LenProperties
<1> HIDE DEF s
<1>2. PICK i \in 1..k, l \in {2, 4} : i + l = k /\ DelimiterAt(s, i, l)
    BY DEF EndsFrame, s
<1>3. i \in 1..(b - a + 1) /\ i + l - 1 <= b - a + 1
    BY <1>1, <1>2
<1>4. DelimiterAt(t, a + i - 1, l)
    BY <1>2, <1>3, DelimiterOfPart DEF s
<1>5. a + i - 1 \in 1..(a + k - 1) /\ (a + i - 1) + l = a + k - 1
    BY <1>1, <1>2
<1> QED
    BY <1>4, <1>5 DEF EndsFrame

(* The data lines of the part of t from a to b.                             *)
Places(t, a, b) == {i \in a..b : t[i] = "data:" /\ (i = a \/ Break(t[i - 1]))}

Payload(t, b, i) == IF i < b /\ ~Break(t[i + 1]) THEN t[i + 1] ELSE ""

LinesIn(t, a, b) ==
    [n \in 1..Cardinality(Places(t, a, b)) |-> Payload(t, b, NumbersOf(Places(t, a, b))[n])]

LEMMA PlacesAreFinite ==
    ASSUME NEW t, NEW a \in Nat, NEW b \in Nat
    PROVE  /\ Places(t, a, b) \in SUBSET Nat /\ IsFiniteSet(Places(t, a, b))
           /\ Cardinality(Places(t, a, b)) \in Nat
<1>1. Places(t, a, b) \subseteq a..b /\ a..b \subseteq Nat
    BY DEF Places
<1>2. IsFiniteSet(Places(t, a, b))
    BY <1>1, FS_Interval, FS_Subset
<1> QED
    BY <1>1, <1>2, FS_CardinalityType

LEMMA DataLinesOfPart ==
    ASSUME NEW t \in Seq(Tokens), NEW b \in 0..Len(t), NEW a \in 1..(b + 1)
    PROVE  DataLines(SubSeq(t, a, b)) = LinesIn(t, a, b)
<1> DEFINE s == SubSeq(t, a, b)
           m == b - a + 1
           c == a - 1
           places == {i \in Starts(s, <<"data:">>) : i = 1 \/ s[i - 1] \in {CR, LF}}
           P == Places(s, 1, m)
           Q == Places(t, a, b)
<1>1. Len(t) \in Nat /\ a \in Nat /\ b \in Nat /\ a >= 1 /\ a <= b + 1 /\ m \in Nat /\ c \in Nat
    BY LenProperties
<1>2. s \in Seq(Tokens) /\ Len(s) = m /\ \A i \in 1..m : s[i] = t[i + c]
    <2>1. s \in Seq(Tokens) /\ Len(s) = m /\ \A i \in 1..m : s[i] = t[a + i - 1]
        BY PartOfText
    <2>2. \A i \in 1..m : a + i - 1 = i + c
        BY <1>1
    <2> QED
        BY <2>1, <2>2
<1> HIDE DEF s
<1>3. places = P
    <2> DEFINE V == Tokens \cup {"data:"}
               p == <<"data:">>
    <2>1. s \in Seq(V)
        <3>1. Tokens \subseteq V
            OBVIOUS
        <3> QED
            BY <1>2, <3>1, SeqMonotonic
    <2>2. 1 \in Nat /\ 1 >= 1 /\ p \in Seq(V) /\ Len(p) = 1 /\ p[1] = "data:" /\ 1..1 = {1}
        OBVIOUS
    <2> HIDE DEF p, V
    <2>3. ASSUME NEW i
          PROVE  i \in Starts(s, p) <=> Matches(s, p, 1, i)
        BY <2>1, <2>2, StartsAt
    <2>4. Starts(s, p) = {i \in 1..m : s[i] = "data:"}
        <3>1. ASSUME NEW i \in 1..m
              PROVE  /\ i + 1 - 1 <= m
                     /\ (\A j \in 1..1 : s[i + j - 1] = p[j]) <=> s[i] = "data:"
            <4>1. i + 1 - 1 = i
                BY <1>1
            <4> QED
                BY <1>1, <2>2, <4>1
        <3> QED
            BY <1>2, <2>2, <2>3, <3>1 DEF Matches
    <2>5. \A i \in places : i \in 1..m
        BY <2>4 DEF p
    <2> QED
        BY <2>4 DEF Places, Break, p
<1>4. Q = {i + c : i \in P}
    <2>1. ASSUME NEW i \in 1..m
          PROVE  i \in P <=> i + c \in Q
        <3>1. i + c \in a..b /\ (i = 1 <=> i + c = a)
            BY <1>1
        <3>2. i # 1 => i - 1 \in 1..m /\ i - 1 + c = i + c - 1
            BY <1>1
        <3>3. s[i] = t[i + c] /\ (i # 1 => s[i - 1] = t[i + c - 1])
            BY <1>2, <3>2
        <3> QED
            BY <3>1, <3>3 DEF Places
    <2>2. \A i \in P : i \in 1..m
        BY DEF Places
    <2>3. ASSUME NEW j \in Q PROVE j - c \in 1..m /\ j = (j - c) + c
        <3>1. j \in a..b
            BY DEF Places
        <3> QED
            BY <1>1, <3>1
    <2> HIDE DEF P, Q, c, m
    <2> QED
        BY <2>1, <2>2, <2>3
<1>5. /\ P \in SUBSET Nat /\ IsFiniteSet(P) /\ Cardinality(P) \in Nat
    BY <1>1, PlacesAreFinite
<1>6. /\ Cardinality(Q) = Cardinality(P)
      /\ \A n \in 1..Cardinality(P) : NumbersOf(Q)[n] = NumbersOf(P)[n] + c
    <2> HIDE DEF P, Q, c
    <2> QED
        BY <1>1, <1>4, <1>5, NumbersShifted
<1>7. DataLines(s) = [n \in DOMAIN Listed(places) |->
          IF Listed(places)[n] < Len(s) /\ s[Listed(places)[n] + 1] \notin {CR, LF}
          THEN s[Listed(places)[n] + 1] ELSE ""]
    BY DEF DataLines
<1>8. Listed(places) = NumbersOf(P) /\ DOMAIN Listed(places) = 1..Cardinality(P)
    <2>1. Listed(P) = NumbersOf(P) /\ DOMAIN Listed(P) = 1..Cardinality(P)
        <3> HIDE DEF P
        <3> QED BY DEF Listed, NumbersOf
    <2> HIDE DEF places, P
    <2> QED
        BY <1>3, <2>1
<1>9. DataLines(s) = [n \in 1..Cardinality(P) |-> Payload(s, m, NumbersOf(P)[n])]
    <2> HIDE DEF places, P
    <2> QED BY <1>2, <1>7, <1>8 DEF Payload, Break
<1>10. ASSUME NEW n \in 1..Cardinality(P)
       PROVE  Payload(s, m, NumbersOf(P)[n]) = Payload(t, b, NumbersOf(Q)[n])
    <2> DEFINE i == NumbersOf(P)[n]
    <2>1. i \in P /\ NumbersOf(Q)[n] = i + c
        <3> HIDE DEF P, Q, c
        <3> QED BY <1>5, <1>6, NumbersByRank
    <2>2. i \in 1..m
        BY <2>1 DEF Places
    <2> HIDE DEF i, P, Q
    <2>3. i < m <=> i + c < b
        BY <1>1, <2>2
    <2>4. i < m => s[i + 1] = t[i + c + 1]
        <3>1. i < m => i + 1 \in 1..m /\ i + 1 + c = i + c + 1
            BY <1>1, <2>2
        <3> QED
            BY <1>2, <3>1
    <2> QED
        BY <2>1, <2>3, <2>4 DEF Payload, i
<1> QED
    <2> HIDE DEF P, Q
    <2>1. DataLines(s) = [n \in 1..Cardinality(Q) |-> Payload(t, b, NumbersOf(Q)[n])]
        BY <1>6, <1>9, <1>10
    <2> QED
        BY <2>1 DEF LinesIn, Q, s

(* Line ends between two parts of a text belong to no data line: the data   *)
(* lines of both parts are those of the whole.                              *)
LEMMA LinesJoin ==
    ASSUME NEW t \in Seq(Tokens), NEW e \in 0..Len(t), NEW a \in 1..(e + 1),
           NEW p \in a..e, NEW q \in (p + 1)..(e + 1), Breaks(t, p, q - 1)
    PROVE  DataLines(SubSeq(t, a, e)) = DataLines(SubSeq(t, a, p - 1)) \o DataLines(SubSeq(t, q, e))
<1> DEFINE A == Places(t, a, p - 1)
           B == Places(t, q, e)
           C == Places(t, a, e)
           m == Cardinality(A)
           k == Cardinality(B)
           u == LinesIn(t, a, p - 1)
           v == LinesIn(t, q, e)
           w == LinesIn(t, a, e)
<1>1. /\ Len(t) \in Nat /\ e \in Nat /\ a \in Nat /\ p \in Nat /\ q \in Nat /\ p - 1 \in Nat
      /\ 1 <= a /\ a <= p /\ p < q /\ q <= e + 1 /\ e <= Len(t)
    BY LenProperties
<1>2. /\ A \in SUBSET Nat /\ IsFiniteSet(A) /\ m \in Nat
      /\ B \in SUBSET Nat /\ IsFiniteSet(B) /\ k \in Nat
    BY <1>1, PlacesAreFinite
<1>3. \A i \in p..(q - 1) : t[i] # "data:"
    BY DistinctTokens DEF Breaks, Break
<1>4. C = A \cup B
    <2>1. ASSUME NEW i \in C PROVE i \in A \cup B
        <3>1. i \in a..e /\ t[i] = "data:" /\ (i = a \/ Break(t[i - 1]))
            BY DEF Places
        <3>2. i \notin p..(q - 1)
            BY <1>3, <3>1
        <3>3. i \in a..(p - 1) \/ i \in q..e
            BY <1>1, <3>1, <3>2
        <3>4. i \in q..e => i # a
            BY <1>1
        <3> QED
            BY <3>1, <3>3, <3>4 DEF Places
    <2>2. ASSUME NEW i \in A PROVE i \in C
        <3>1. i \in a..(p - 1) /\ t[i] = "data:" /\ (i = a \/ Break(t[i - 1]))
            BY DEF Places
        <3>2. i \in a..e
            BY <1>1, <3>1
        <3> QED
            BY <3>1, <3>2 DEF Places
    <2>3. ASSUME NEW i \in B PROVE i \in C
        <3>1. i \in q..e /\ t[i] = "data:" /\ (i = q \/ Break(t[i - 1]))
            BY DEF Places
        <3>2. i \in a..e /\ q - 1 \in p..(q - 1)
            BY <1>1, <3>1
        <3>3. Break(t[i - 1])
            BY <3>1, <3>2 DEF Breaks
        <3> QED
            BY <3>1, <3>2, <3>3 DEF Places
    <2> HIDE DEF A, B, C
    <2> QED
        BY <2>1, <2>2, <2>3
<1>5. \A x \in A : \A y \in B : x < y
    <2>1. \A x \in A : x \in a..(p - 1)
        BY DEF Places
    <2>2. \A y \in B : y \in q..e
        BY DEF Places
    <2> HIDE DEF A, B
    <2> QED
        BY <1>1, <2>1, <2>2
<1>6. NumbersOf(C) = NumbersOf(A) \o NumbersOf(B)
    <2> HIDE DEF A, B, C
    <2> QED
        BY <1>2, <1>4, <1>5, NumbersOfUnion
<1>7. /\ NumbersOf(A) \in Seq(Nat) /\ Len(NumbersOf(A)) = m
      /\ NumbersOf(B) \in Seq(Nat) /\ Len(NumbersOf(B)) = k
      /\ IsFiniteSet(C) /\ C \in SUBSET Nat
      /\ NumbersOf(C) \in Seq(Nat) /\ Len(NumbersOf(C)) = Cardinality(C)
    <2> HIDE DEF A, B, C
    <2>1. IsFiniteSet(C) /\ C \in SUBSET Nat
        BY <1>2, <1>4, FS_Union
    <2>2. ASSUME NEW S \in SUBSET Nat, IsFiniteSet(S)
          PROVE  NumbersOf(S) \in Seq(Nat) /\ Len(NumbersOf(S)) = Cardinality(S)
        <3>1. NumbersOf(S) \in Seq(S) /\ Len(NumbersOf(S)) = Cardinality(S)
            BY <2>2, NumbersInOrder
        <3> QED
            BY <3>1, SeqMonotonic
    <2> QED
        BY <1>2, <2>1, <2>2
<1>8. /\ Cardinality(C) = m + k
      /\ \A n \in 1..(m + k) : NumbersOf(C)[n] = IF n <= m THEN NumbersOf(A)[n] ELSE NumbersOf(B)[n - m]
    <2> HIDE DEF A, B, C
    <2>1. /\ Len(NumbersOf(A) \o NumbersOf(B)) = m + k
          /\ \A n \in 1..(m + k) : (NumbersOf(A) \o NumbersOf(B))[n]
                                     = IF n <= m THEN NumbersOf(A)[n] ELSE NumbersOf(B)[n - m]
        <3> DEFINE x == NumbersOf(A)
                   y == NumbersOf(B)
        <3> HIDE DEF x, y
        <3>1. /\ Len(x \o y) = Len(x) + Len(y)
              /\ \A n \in 1..(Len(x) + Len(y)) : (x \o y)[n] = IF n <= Len(x) THEN x[n] ELSE y[n - Len(x)]
            <4>1. x \in Seq(Nat) /\ y \in Seq(Nat)
                BY <1>7 DEF x, y
            <4> QED
                BY <4>1, ConcatProperties
        <3>2. Len(x) = m /\ Len(y) = k
            BY <1>7 DEF x, y
        <3>3. /\ Len(x \o y) = m + k
              /\ \A n \in 1..(m + k) : (x \o y)[n] = IF n <= m THEN x[n] ELSE y[n - m]
            BY <3>1, <3>2, Zenon
        <3> QED
            BY <3>3 DEF x, y
    <2> QED
        BY <1>6, <1>7, <2>1
<1>9. /\ DataLines(SubSeq(t, a, e)) = w /\ DataLines(SubSeq(t, a, p - 1)) = u
      /\ DataLines(SubSeq(t, q, e)) = v
      /\ u \in Seq(Payloads) /\ v \in Seq(Payloads) /\ w \in Seq(Payloads)
    <2>1. ASSUME NEW f \in 0..Len(t), NEW b \in 1..(f + 1)
          PROVE  DataLines(SubSeq(t, b, f)) = LinesIn(t, b, f) /\ LinesIn(t, b, f) \in Seq(Payloads)
        <3>1. SubSeq(t, b, f) \in Seq(Tokens)
            BY PartOfText
        <3> QED
            BY <3>1, DataLinesOfPart, DataLinesArePayloads
    <2>2. /\ p - 1 \in 0..Len(t) /\ a \in 1..(p - 1 + 1) /\ q \in 1..(e + 1)
        BY <1>1
    <2> HIDE DEF u, v, w
    <2> QED
        BY <2>1, <2>2 DEF u, v, w
<1>10. /\ Len(u) = m /\ Len(v) = k /\ Len(w) = m + k
       /\ \A n \in 1..m : u[n] = Payload(t, p - 1, NumbersOf(A)[n])
       /\ \A n \in 1..k : v[n] = Payload(t, e, NumbersOf(B)[n])
       /\ \A n \in 1..(m + k) : w[n] = Payload(t, e, NumbersOf(C)[n])
    <2>1. /\ u = [n \in 1..m |-> Payload(t, p - 1, NumbersOf(A)[n])]
          /\ v = [n \in 1..k |-> Payload(t, e, NumbersOf(B)[n])]
          /\ w = [n \in 1..(m + k) |-> Payload(t, e, NumbersOf(C)[n])]
        BY <1>8 DEF LinesIn
    <2> HIDE DEF u, v, w, A, B, C
    <2>2. DOMAIN u = 1..m /\ DOMAIN v = 1..k /\ DOMAIN w = 1..(m + k) /\ m + k \in Nat
        BY <1>2, <2>1
    <2>3. DOMAIN u = 1..Len(u) /\ DOMAIN v = 1..Len(v) /\ DOMAIN w = 1..Len(w)
          /\ Len(u) \in Nat /\ Len(v) \in Nat /\ Len(w) \in Nat
        BY <1>9, LenProperties
    <2>4. Len(u) = m /\ Len(v) = k /\ Len(w) = m + k
        <3>1. ASSUME NEW i \in Nat, NEW j \in Nat, 1..i = 1..j PROVE i = j
            <4>1. i \in 0..j /\ j \in 0..i
                BY <3>1
            <4> QED
                BY <4>1
        <3> HIDE DEF m, k
        <3> QED
            BY <1>2, <2>2, <2>3, <3>1
    <2> QED
        BY <2>1, <2>4
<1>11. ASSUME NEW n \in 1..(m + k)
       PROVE  w[n] = IF n <= m THEN u[n] ELSE v[n - m]
    <2>1. CASE n <= m
        <3> DEFINE i == NumbersOf(A)[n]
        <3>1. n \in 1..m
            BY <1>2, <2>1
        <3>2. i \in A
            <4> HIDE DEF A
            <4> QED BY <1>2, <3>1, NumbersByRank
        <3>3. i \in a..(p - 1)
            BY <3>2 DEF Places
        <3>4. Payload(t, e, i) = Payload(t, p - 1, i)
            <4>1. CASE i < p - 1
                <5>1. i < e
                    BY <1>1, <3>3
                <5> QED
                    BY <4>1, <5>1 DEF Payload
            <4>2. CASE ~(i < p - 1)
                <5>1. i + 1 = p /\ p \in p..(q - 1)
                    BY <1>1, <3>3, <4>2
                <5>2. Break(t[i + 1])
                    BY <5>1 DEF Breaks
                <5> QED
                    BY <4>2, <5>2 DEF Payload
            <4> QED
                BY <4>1, <4>2
        <3>5. w[n] = Payload(t, e, i)
            BY <1>8, <1>10, <2>1
        <3>6. u[n] = Payload(t, p - 1, i)
            BY <1>10, <3>1
        <3> QED
            BY <2>1, <3>4, <3>5, <3>6
    <2>2. CASE ~(n <= m)
        <3> HIDE DEF A, B, C, u, v, w
        <3>1. n - m \in 1..k
            <4> HIDE DEF m, k
            <4> QED BY <1>2, <2>2
        <3>2. w[n] = Payload(t, e, NumbersOf(B)[n - m])
            BY <1>8, <1>10, <2>2
        <3> QED
            BY <1>10, <2>2, <3>1, <3>2
    <2> QED
        BY <2>1, <2>2
<1>12. w = u \o v
    <2> HIDE DEF u, v, w, m, k
    <2>1. /\ u \o v \in Seq(Payloads) /\ Len(u \o v) = m + k
          /\ \A n \in 1..(m + k) : (u \o v)[n] = IF n <= m THEN u[n] ELSE v[n - m]
        <3>1. /\ u \o v \in Seq(Payloads) /\ Len(u \o v) = Len(u) + Len(v)
              /\ \A n \in 1..(Len(u) + Len(v)) : (u \o v)[n] = IF n <= Len(u) THEN u[n] ELSE v[n - Len(u)]
            BY <1>9, ConcatProperties
        <3>2. Len(u) = m /\ Len(v) = k
            BY <1>10
        <3> QED
            BY <3>1, <3>2, Zenon
    <2>2. \A n \in 1..Len(w) : w[n] = (u \o v)[n]
        <3>1. Len(w) = m + k /\ \A n \in 1..(m + k) : w[n] = IF n <= m THEN u[n] ELSE v[n - m]
            BY <1>10, <1>11
        <3> QED
            BY <2>1, <3>1
    <2> QED
        BY <1>9, <1>10, <2>1, <2>2, SeqEqual
<1> QED
    BY <1>9, <1>12

(* Line ends after a text add nothing to it.                                *)
LEMMA LinesBeforeBreaks ==
    ASSUME NEW t \in Seq(Tokens), NEW e \in 0..Len(t), NEW p \in 1..(e + 1), Breaks(t, p, e)
    PROVE  DataLines(SubSeq(t, 1, e)) = DataLines(SubSeq(t, 1, p - 1))
<1>1. Len(t) \in Nat
    BY LenProperties
<1>2. CASE p = e + 1
    BY <1>1, <1>2
<1>3. CASE p # e + 1
    <2> DEFINE q == e + 1
    <2>1. 1 \in 1..(e + 1) /\ p \in 1..e /\ q \in (p + 1)..(e + 1) /\ q - 1 = e
        BY <1>1, <1>3
    <2>2. DataLines(SubSeq(t, 1, e)) = DataLines(SubSeq(t, 1, p - 1)) \o DataLines(SubSeq(t, q, e))
        <3>1. Breaks(t, p, q - 1)
            BY <2>1
        <3> HIDE DEF q
        <3> QED
            BY <2>1, <3>1, LinesJoin
    <2>3. DataLines(SubSeq(t, q, e)) = <<>>
        <3>1. q \in 1..(e + 1) /\ q..e = {}
            BY <1>1
        <3>2. Places(t, q, e) = {}
            BY <3>1 DEF Places
        <3>3. Cardinality(Places(t, q, e)) = 0
            BY <3>2, FS_EmptySet
        <3>4. DataLines(SubSeq(t, q, e)) = LinesIn(t, q, e)
            BY <3>1, DataLinesOfPart
        <3> QED
            BY <3>3, <3>4 DEF LinesIn
    <2>4. p - 1 \in 0..Len(t) /\ 1 \in 1..(p - 1 + 1)
        BY <1>1, <2>1
    <2>5. SubSeq(t, 1, p - 1) \in Seq(Tokens)
        BY <2>4, PartOfText
    <2>6. DataLines(SubSeq(t, 1, p - 1)) \in Seq(Payloads)
        BY <2>5, DataLinesArePayloads
    <2> QED
        BY <2>2, <2>3, <2>6, ConcatEmptySeq
<1> QED
    BY <1>2, <1>3

(* Nothing has no data line.                                                *)
LEMMA NoLines ==
    ASSUME NEW t \in Seq(Tokens)
    PROVE  SubSeq(t, 1, 0) = <<>> /\ DataLines(SubSeq(t, 1, 0)) = <<>>
<1>1. 0 \in 0..Len(t) /\ 1 \in 1..(0 + 1) /\ 1..0 = {}
    BY LenProperties
<1>2. DataLines(SubSeq(t, 1, 0)) = LinesIn(t, 1, 0)
    BY <1>1, DataLinesOfPart
<1>3. Places(t, 1, 0) = {}
    BY <1>1 DEF Places
<1>4. Cardinality(Places(t, 1, 0)) = 0
    BY <1>3, FS_EmptySet
<1> QED
    BY <1>1, <1>2, <1>4, SubSeqEmpty DEF LinesIn

-----------------------------------------------------------------------------
(* Frames *)

(* The first frame is what is before a delimiter, of which there is a first. *)
LEMMA FirstFrameAt ==
    ASSUME NEW s \in Seq(Tokens), Delimiters(s) # {}
    PROVE  \E i \in 1..Len(s) : \E l \in {2, 4} :
              /\ i + l - 1 <= Len(s) /\ DelimiterAt(s, i, l)
              /\ FirstFrame(s).lines = DataLines(SubSeq(s, 1, i - 1))
              /\ FirstFrame(s).rest = SubSeq(s, i + l, Len(s))
<1> DEFINE D == Delimiters(s)
           first == {d[1] : d \in D}
           d == CHOOSE d \in D : \A x \in D : d[1] <= x[1]
<1>1. Len(s) \in Nat
    BY LenProperties
<1>2. \A e \in D : /\ e[1] \in 1..Len(s) /\ e[2] \in {2, 4}
                   /\ e[1] + e[2] - 1 <= Len(s) /\ DelimiterAt(s, e[1], e[2])
    BY DelimitersAt
<1>3. d \in D
    <2>1. first \in SUBSET Nat /\ first # {}
        BY <1>1, <1>2
    <2>2. PICK n \in first : \A m \in first : n <= m
        <3> HIDE DEF first
        <3> QED BY <2>1, LeastNumber
    <2>3. PICK e \in D : e[1] = n
        OBVIOUS
    <2>4. \A x \in D : e[1] <= x[1]
        BY <2>2, <2>3
    <2> HIDE DEF D
    <2> QED
        BY <2>4
<1>4. FirstFrame(s) = [lines |-> DataLines(SubSeq(s, 1, d[1] - 1)),
                       rest |-> SubSeq(s, d[1] + d[2], Len(s))]
    BY DEF FirstFrame
<1> DEFINE i == d[1]
           l == d[2]
<1> HIDE DEF d, D
<1>6. /\ FirstFrame(s).lines = DataLines(SubSeq(s, 1, i - 1))
      /\ FirstFrame(s).rest = SubSeq(s, i + l, Len(s))
    <2> DEFINE lines == DataLines(SubSeq(s, 1, i - 1))
               rest == SubSeq(s, i + l, Len(s))
    <2>1. FirstFrame(s) = [lines |-> lines, rest |-> rest]
        BY <1>4, Zenon
    <2> HIDE DEF lines, rest
    <2>2. FirstFrame(s).lines = lines /\ FirstFrame(s).rest = rest
        BY <2>1
    <2> QED
        BY <2>2 DEF lines, rest
<1>7. i \in 1..Len(s) /\ l \in {2, 4} /\ i + l - 1 <= Len(s) /\ DelimiterAt(s, i, l)
    BY <1>2, <1>3
<1> HIDE DEF i, l
<1> QED
    BY <1>6, <1>7

(* The first frame ends in the text; what is left is its end, and shorter.  *)
LEMMA FirstFrameIsInText ==
    ASSUME NEW s \in Seq(Tokens), Delimiters(s) # {}
    PROVE  \E k \in 2..(Len(s) + 1) :
              /\ FirstFrame(s).rest = SubSeq(s, k, Len(s))
              /\ FirstFrame(s).lines \in Seq(Payloads)
<1>1. PICK i \in 1..Len(s), l \in {2, 4} :
          /\ i + l - 1 <= Len(s) /\ DelimiterAt(s, i, l)
          /\ FirstFrame(s).lines = DataLines(SubSeq(s, 1, i - 1))
          /\ FirstFrame(s).rest = SubSeq(s, i + l, Len(s))
    BY FirstFrameAt
<1>2. i + l \in 2..(Len(s) + 1) /\ i - 1 \in 0..Len(s) /\ 1 \in 1..(i - 1 + 1)
    <2>1. Len(s) \in Nat
        BY LenProperties
    <2> QED
        BY <1>1, <2>1
<1>3. SubSeq(s, 1, i - 1) \in Seq(Tokens)
    BY <1>2, PartOfText
<1>4. DataLines(SubSeq(s, 1, i - 1)) \in Seq(Payloads)
    BY <1>3, DataLinesArePayloads
<1> QED
    BY <1>1, <1>2, <1>4

(* The loop of write_cb as an equation: it takes the first frame and goes   *)
(* on with the rest, and ends because the rest is shorter each time.        *)
FramesOf(f, s) ==
    IF Delimiters(s) = {} THEN [lines |-> <<>>, rest |-> s]
    ELSE [lines |-> FirstFrame(s).lines \o f[FirstFrame(s).rest].lines,
          rest  |-> f[FirstFrame(s).rest].rest]

LEMMA FramesAreDefined ==
    /\ DOMAIN Frames = Seq(Tokens)
    /\ \A s \in Seq(Tokens) : Frames[s] = FramesOf(Frames, s)
<1> DEFINE S == Seq(Tokens)
           size == [s \in S |-> Len(s)]
           Stop == {s \in S : Delimiters(s) = {}}
           next == [s \in S \ Stop |-> FirstFrame(s).rest]
           base == [s \in Stop |-> [lines |-> <<>>, rest |-> s]]
           G == [a \in (S \ Stop) \X Drained |->
                    [lines |-> FirstFrame(a[1]).lines \o a[2].lines, rest |-> a[2].rest]]
<1>1. ASSUME NEW s \in S \ Stop
      PROVE  /\ FirstFrame(s).rest \in S /\ FirstFrame(s).lines \in Seq(Payloads)
             /\ Len(FirstFrame(s).rest) < Len(s)
    <2>1. PICK k \in 2..(Len(s) + 1) :
              /\ FirstFrame(s).rest = SubSeq(s, k, Len(s))
              /\ FirstFrame(s).lines \in Seq(Payloads)
        BY FirstFrameIsInText
    <2>2. Len(s) \in Nat /\ k \in 1..(Len(s) + 1) /\ k >= 2
        BY LenProperties
    <2>3. SubSeq(s, k, Len(s)) \in S /\ Len(SubSeq(s, k, Len(s))) = Len(s) - k + 1
        BY <2>2, RestIsText
    <2> QED
        BY <2>1, <2>2, <2>3
<1>2. Descends(S, size, Stop, next)
    <2>1. size \in [S -> Nat] /\ Stop \in SUBSET S
        BY LenProperties
    <2>2. next \in [S \ Stop -> S]
        BY <1>1
    <2>3. \A s \in S \ Stop : size[next[s]] < size[s]
        BY <1>1
    <2> HIDE DEF S, size, Stop, next
    <2> QED
        BY <2>1, <2>2, <2>3 DEF Descends
<1>3. base \in [Stop -> Drained]
    <2>1. <<>> \in Seq(Payloads)
        OBVIOUS
    <2> QED
        BY <2>1 DEF Drained
<1>4. G \in [(S \ Stop) \X Drained -> Drained]
    <2>1. SUFFICES ASSUME NEW s \in S \ Stop, NEW v \in Drained
                   PROVE  [lines |-> FirstFrame(s).lines \o v.lines, rest |-> v.rest] \in Drained
        OBVIOUS
    <2>2. FirstFrame(s).lines \in Seq(Payloads)
        BY <1>1
    <2>3. v.lines \in Seq(Payloads) /\ v.rest \in Seq(Tokens)
        BY DEF Drained
    <2>4. FirstFrame(s).lines \o v.lines \in Seq(Payloads)
        BY <2>2, <2>3, ConcatProperties
    <2> QED
        BY <2>3, <2>4 DEF Drained
<1>5. PICK f \in [S -> Drained] : Solves(f, S, Stop, base, next, G)
    <2> HIDE DEF S, size, Stop, next, base, G
    <2> QED
        BY <1>2, <1>3, <1>4, RecursionBySize
<1>6. ASSUME NEW s \in S PROVE f[s] = FramesOf(f, s)
    <2>1. f[s] = IF s \in Stop THEN base[s] ELSE G[<<s, f[next[s]]>>]
        BY <1>5 DEF Solves
    <2>2. CASE s \in Stop
        BY <2>1, <2>2 DEF FramesOf
    <2>3. CASE s \notin Stop
        <3>1. next[s] = FirstFrame(s).rest /\ next[s] \in S
            BY <1>1, <2>3
        <3>2. f[next[s]] \in Drained
            BY <3>1
        <3>3. f[s] = [lines |-> FirstFrame(s).lines \o f[next[s]].lines, rest |-> f[next[s]].rest]
            BY <2>1, <2>3, <3>2
        <3> QED
            BY <2>3, <3>1, <3>3 DEF FramesOf
    <2> QED
        BY <2>2, <2>3
<1>7. f = [s \in S |-> FramesOf(f, s)]
    BY <1>6
<1>8. Frames = CHOOSE g : g = [s \in S |-> FramesOf(g, s)]
    BY DEF Frames, FramesOf, Tokens
<1>9. Frames = [s \in S |-> FramesOf(Frames, s)]
    <2> DEFINE P(g) == g = [s \in S |-> FramesOf(g, s)]
    <2>1. P(f)
        BY <1>7
    <2>2. Frames = CHOOSE g : P(g)
        BY <1>8
    <2> HIDE DEF P, S
    <2>3. P(Frames)
        BY <2>1, <2>2
    <2> QED
        BY <2>3 DEF P
<1> QED
    BY <1>9

(* Whatever is in the buffer, the loop leaves no frame of it complete.       *)
LEMMA DrainLeavesNoFrame ==
    ASSUME NEW s \in Seq(Tokens)
    PROVE  Drain(s).lines \in Seq(Payloads) /\ Delimiters(Drain(s).rest) = {}
<1> DEFINE S == Seq(Tokens)
           size == [x \in S |-> Len(x)]
           Holds(x) == Frames[x].lines \in Seq(Payloads) /\ Delimiters(Frames[x].rest) = {}
           T == {x \in S : Holds(x)}
<1>1. size \in [S -> Nat]
    BY LenProperties
<1>2. ASSUME NEW x \in S, \A y \in S : size[y] < size[x] => y \in T
      PROVE  Holds(x)
    <2>1. Frames[x] = FramesOf(Frames, x) /\ Len(x) \in Nat
        BY FramesAreDefined, LenProperties
    <2>2. CASE Delimiters(x) = {}
        BY <2>1, <2>2 DEF FramesOf
    <2>3. CASE Delimiters(x) # {}
        <3> DEFINE y == FirstFrame(x).rest
                   lines == FirstFrame(x).lines \o Frames[y].lines
                   rest == Frames[y].rest
        <3>1. y \in S /\ size[y] < size[x] /\ FirstFrame(x).lines \in Seq(Payloads)
            <4>1. PICK k \in 2..(Len(x) + 1) :
                      /\ FirstFrame(x).rest = SubSeq(x, k, Len(x))
                      /\ FirstFrame(x).lines \in Seq(Payloads)
                BY <2>3, FirstFrameIsInText
            <4>2. k \in 1..(Len(x) + 1) /\ k >= 2
                BY <2>1
            <4>3. y \in S /\ Len(y) = Len(x) - k + 1
                BY <4>1, <4>2, RestIsText
            <4> QED
                BY <2>1, <4>1, <4>2, <4>3
        <3>2. Frames[x] = [lines |-> lines, rest |-> rest]
            BY <2>1, <2>3 DEF FramesOf
        <3>3. Holds(y)
            BY <1>2, <3>1
        <3>4. lines \in Seq(Payloads) /\ Delimiters(rest) = {}
            <4> HIDE DEF y
            <4> QED BY <3>1, <3>3, ConcatProperties
        <3> HIDE DEF lines, rest
        <3> QED
            BY <3>2, <3>4
    <2> QED
        BY <2>2, <2>3
<1>3. S \subseteq T
    <2>1. \A x \in S : (\A y \in S : size[y] < size[x] => y \in T) => x \in T
        BY <1>2
    <2> HIDE DEF S, size, T
    <2> QED
        BY <1>1, <2>1, InductionBySize
<1> QED
    BY <1>3 DEF Drain

(* The loop of write_cb relays the data lines of all that is before what it *)
(* leaves in the buffer, and that is whole frames.                          *)
LEMMA DrainTakesFrames ==
    ASSUME NEW s \in Seq(Tokens)
    PROVE  \E k \in 1..(Len(s) + 1) :
              /\ Drain(s).rest = SubSeq(s, k, Len(s))
              /\ Drain(s).lines = DataLines(SubSeq(s, 1, k - 1))
              /\ k = 1 \/ EndsFrame(s, k)
<1> DEFINE S == Seq(Tokens)
           size == [x \in S |-> Len(x)]
           Taken(x, k) == /\ Frames[x].rest = SubSeq(x, k, Len(x))
                          /\ Frames[x].lines = DataLines(SubSeq(x, 1, k - 1))
                          /\ k = 1 \/ EndsFrame(x, k)
           T == {x \in S : \E k \in 1..(Len(x) + 1) : Taken(x, k)}
<1>1. size \in [S -> Nat]
    BY LenProperties
<1>2. ASSUME NEW x \in S, \A y \in S : size[y] < size[x] => y \in T
      PROVE  \E k \in 1..(Len(x) + 1) : Taken(x, k)
    <2> DEFINE n == Len(x)
    <2>1. Frames[x] = FramesOf(Frames, x) /\ n \in Nat
        BY FramesAreDefined, LenProperties
    <2>2. CASE Delimiters(x) = {}
        <3>1. Frames[x] = [lines |-> <<>>, rest |-> x]
            BY <2>1, <2>2 DEF FramesOf
        <3>2. SubSeq(x, 1, n) = x /\ 1 \in 1..(n + 1)
            BY <2>1, SubSeqFull
        <3>3. DataLines(SubSeq(x, 1, 1 - 1)) = <<>>
            <4>1. 1 - 1 = 0
                OBVIOUS
            <4> QED
                BY <4>1, NoLines
        <3> QED
            BY <3>1, <3>2, <3>3
    <2>3. CASE Delimiters(x) # {}
        <3>1. PICK i \in 1..n, l \in {2, 4} :
                  /\ i + l - 1 <= n /\ DelimiterAt(x, i, l)
                  /\ FirstFrame(x).lines = DataLines(SubSeq(x, 1, i - 1))
                  /\ FirstFrame(x).rest = SubSeq(x, i + l, n)
            BY <2>3, FirstFrameAt
        <3> DEFINE m == i + l
                   y == SubSeq(x, m, n)
        <3>2. m \in 1..(n + 1) /\ n \in 0..Len(x) /\ m >= 3 /\ i \in Nat /\ i >= 1 /\ i < m
            BY <2>1, <3>1
        <3>3. y \in S /\ Len(y) = n - m + 1
            <4> HIDE DEF m
            <4> QED BY <3>2, PartOfText
        <3>4. PICK j \in 1..(Len(y) + 1) : Taken(y, j)
            <4>1. size[y] < size[x]
                BY <2>1, <3>2, <3>3
            <4> HIDE DEF y, size, n, Taken
            <4> QED
                BY <1>2, <3>3, <4>1
        <3>5. /\ Frames[x].lines = FirstFrame(x).lines \o Frames[y].lines
              /\ Frames[x].rest = Frames[y].rest
            <4> DEFINE z == FirstFrame(x).rest
            <4> DEFINE lines == FirstFrame(x).lines \o Frames[z].lines
                       rest == Frames[z].rest
            <4>1. Frames[x] = [lines |-> lines, rest |-> rest]
                BY <2>1, <2>3 DEF FramesOf
            <4>2. z = y
                BY <3>1
            <4> HIDE DEF lines, rest, z, y
            <4>3. Frames[x].lines = lines /\ Frames[x].rest = rest
                BY <4>1
            <4> QED
                BY <4>2, <4>3 DEF lines, rest
        <3> DEFINE k == m + j - 1
                   e == k - 1
        <3>6. /\ j \in Nat /\ j >= 1 /\ j <= n - m + 2
              /\ k \in 1..(n + 1) /\ e \in 0..n /\ m \in (i + 1)..(e + 1) /\ i \in 1..e
            BY <2>1, <3>2, <3>3, <3>4
        <3>7. SubSeq(y, j, Len(y)) = SubSeq(x, k, n)
            <4>1. Len(y) \in 0..(n - m + 1) /\ j \in 1..(Len(y) + 1) /\ m + Len(y) - 1 = n
                <5> HIDE DEF y, m, n
                <5> QED BY <2>1, <3>2, <3>3
            <4> HIDE DEF m
            <4> QED BY <3>2, <4>1, PartOfPart
        <3>8. SubSeq(y, 1, j - 1) = SubSeq(x, m, e)
            <4>1. j - 1 \in 0..(n - m + 1) /\ 1 \in 1..((j - 1) + 1) /\ m + 1 - 1 = m /\ m + (j - 1) - 1 = e
                BY <2>1, <3>2, <3>3, <3>6
            <4>2. SubSeq(y, 1, j - 1) = SubSeq(x, m + 1 - 1, m + (j - 1) - 1)
                <5> HIDE DEF m
                <5> QED BY <3>2, <4>1, PartOfPart
            <4> HIDE DEF m, k, e
            <4> QED
                BY <4>1, <4>2
        <3>9. Frames[x].rest = SubSeq(x, k, n)
            BY <3>4, <3>5, <3>7
        <3>10. Frames[x].lines = DataLines(SubSeq(x, 1, k - 1))
            <4>1. Breaks(x, i, m - 1)
                BY <3>1, <3>2, DelimitersAreBreaks
            <4>2. DataLines(SubSeq(x, 1, e)) = DataLines(SubSeq(x, 1, i - 1)) \o DataLines(SubSeq(x, m, e))
                <5>1. 1 \in 1..(e + 1)
                    BY <3>6
                <5> HIDE DEF m, k, e
                <5> QED
                    BY <3>6, <4>1, <5>1, LinesJoin DEF n
            <4>3. Frames[y].lines = DataLines(SubSeq(x, m, e))
                BY <3>4, <3>8
            <4> HIDE DEF m, y
            <4> QED
                BY <3>1, <3>5, <4>2, <4>3
        <3>11. EndsFrame(x, k)
            <4>1. CASE j = 1
                <5>1. k = m /\ i \in 1..k
                    BY <3>2, <4>1
                <5> QED
                    BY <3>1, <5>1 DEF EndsFrame
            <4>2. CASE j # 1
                <5>1. EndsFrame(y, j) /\ j \in 1..(n - m + 2)
                    BY <3>4, <3>6, <4>2
                <5> HIDE DEF m
                <5> QED
                    BY <3>2, <5>1, FrameOfPart
            <4> QED
                BY <4>1, <4>2
        <3> QED
            BY <3>6, <3>9, <3>10, <3>11
    <2> QED
        BY <2>2, <2>3
<1>3. S \subseteq T
    <2>1. \A x \in S : (\A y \in S : size[y] < size[x] => y \in T) => x \in T
        BY <1>2
    <2> HIDE DEF S, size, T
    <2> QED
        BY <1>1, <2>1, InductionBySize
<1> QED
    BY <1>3 DEF Drain

-----------------------------------------------------------------------------
(* Folds over payloads and parts *)

Emitted(route, r, ls) == FoldLeft(LAMBDA x, p : Emit(route, x, p), r, ls)

Emits(f, route, r, ls) ==
    /\ f[0] = r
    /\ \A i \in 1..Len(ls) : f[i] = Emit(route, f[i - 1], ls[i])
    /\ f[Len(ls)] = Emitted(route, r, ls)

(* The data lines relayed one after the other.                              *)
LEMMA EmittedInOrder ==
    ASSUME NEW route, NEW V, NEW r \in V, NEW ls \in Seq(Payloads),
           \A v \in V : \A p \in Payloads : Emit(route, v, p) \in V
    PROVE  \E f \in [0..Len(ls) -> V] : Emits(f, route, r, ls)
<1> DEFINE n == Len(ls)
           S == 1..n
           pick == LastOf(n)
           G == [a \in S \X V |-> Emit(route, a[2], ls[a[1]])]
           Step(f, s) == IF s = {} THEN r ELSE Emit(route, f[s \ {Max(s)}], ls[Max(s)])
           P(f) == f = [s \in SUBSET S |-> Step(f, s)]
           F == CHOOSE f : P(f)
<1>1. n \in Nat /\ DOMAIN ls = S /\ \A i \in S : ls[i] \in Payloads
    BY LenProperties
<1>2. \A s \in (SUBSET S) \ {{}} : pick[s] = Max(s) /\ Max(s) \in s /\ \A i \in s : i <= Max(s)
    BY <1>1, LastOfNumbers DEF LastOf
<1>3. Picks(pick, S)
    BY <1>1, LastPicks
<1>4. G \in [S \X V -> V]
    BY <1>1
<1>5. PICK f \in [SUBSET S -> V] : Folds(f, S, pick, r, G)
    <2> HIDE DEF S, pick, G
    <2> QED
        BY <1>3, <1>4, FoldExists
<1>6. P(f)
    <2>1. ASSUME NEW s \in SUBSET S PROVE f[s] = Step(f, s)
        <3>1. CASE s # {}
            <4>1. pick[s] = Max(s) /\ Max(s) \in S /\ f[s \ {Max(s)}] \in V
                BY <1>2, <3>1
            <4>2. f[s] = G[<<Max(s), f[s \ {Max(s)}]>>]
                BY <1>5, <3>1, <4>1 DEF Folds
            <4> QED
                BY <3>1, <4>1, <4>2
        <3> QED
            BY <1>5, <3>1 DEF Folds
    <2> HIDE DEF Step
    <2> QED
        BY <2>1
<1>7. P(F)
    <2> HIDE DEF P
    <2> QED BY <1>6
<1>8. Emitted(route, r, ls) = F[S]
    BY <1>1 DEF Emitted, FoldLeft, MapThenFoldSet
<1> HIDE DEF F
<1>9. F[{}] = r
    BY <1>7
<1>10. ASSUME NEW i \in S
       PROVE  F[1..i] = Emit(route, F[1..(i - 1)], ls[i])
    <2>1. 1..i \in (SUBSET S) \ {{}} /\ (1..i) \ {i} = 1..(i - 1) /\ Max(1..i) = i
        BY <1>1, FirstNumbers
    <2>3. F[1..i] = Step(F, 1..i)
        <3> HIDE DEF Step
        <3> QED BY <1>7, <2>1
    <2> QED
        BY <2>1, <2>3
<1> DEFINE f2 == [i \in 0..n |-> F[1..i]]
           T == {i \in 0..n : f2[i] \in V}
           size == [i \in 0..n |-> i]
<1>11. f2[0] = r /\ \A i \in 1..n : f2[i] = Emit(route, f2[i - 1], ls[i])
    <2>1. 1..0 = {} /\ 0 \in 0..n
        BY <1>1
    <2>2. f2[0] = r
        BY <1>9, <2>1
    <2>3. ASSUME NEW i \in 1..n PROVE f2[i] = Emit(route, f2[i - 1], ls[i])
        <3>1. i \in 0..n /\ i - 1 \in 0..n
            BY <1>1
        <3> QED
            BY <1>10, <3>1
    <2> QED
        BY <2>2, <2>3
<1>12. f2 \in [0..n -> V]
    <2>1. ASSUME NEW i \in 0..n, \A j \in 0..n : size[j] < size[i] => j \in T
          PROVE  i \in T
        <3>1. CASE i = 0
            BY <1>11, <3>1
        <3>2. CASE i # 0
            <4>1. i - 1 \in 0..n /\ size[i - 1] < size[i] /\ i \in 1..n
                BY <1>1, <3>2
            <4>2. f2[i - 1] \in V
                BY <2>1, <4>1
            <4>3. f2[i] = Emit(route, f2[i - 1], ls[i]) /\ ls[i] \in Payloads
                BY <1>1, <1>11, <4>1
            <4> HIDE DEF f2
            <4> QED
                BY <4>2, <4>3
        <3> QED
            BY <3>1, <3>2
    <2>2. size \in [0..n -> Nat]
        BY <1>1
    <2>3. 0..n \subseteq T
        <3> DEFINE D == 0..n
        <3>1. size \in [D -> Nat] /\ \A i \in D : (\A j \in D : size[j] < size[i] => j \in T) => i \in T
            BY <2>1, <2>2
        <3> HIDE DEF size, T, D
        <3>2. D \subseteq T
            BY <3>1, InductionBySize
        <3> QED
            BY <3>2 DEF D
    <2> QED
        BY <2>3
<1>13. f2[n] = F[S] /\ n \in 0..n
    BY <1>1
<1> HIDE DEF f2
<1> QED
    BY <1>8, <1>11, <1>12, <1>13 DEF Emits

(* What each line of a frame keeps, all lines keep.                         *)
LEMMA EmittedStays ==
    ASSUME NEW route, NEW V, NEW r \in V, NEW ls \in Seq(Payloads),
           \A v \in V : \A p \in Payloads : Emit(route, v, p) \in V
    PROVE  Emitted(route, r, ls) \in V
<1>1. PICK f \in [0..Len(ls) -> V] : Emits(f, route, r, ls)
    BY EmittedInOrder
<1>2. Len(ls) \in 0..Len(ls)
    BY LenProperties
<1> QED
    BY <1>1, <1>2 DEF Emits

(* What a handler writes or sends keeps a response a response.              *)
LEMMA PartsKeepTypes ==
    ASSUME NEW r \in Responses
    PROVE  /\ \A p \in Parts : Write(r, p) \in Responses /\ Send(r, p) \in Responses
           /\ End(r) \in Responses
<1>1. r.body \in Seq(Parts) /\ r.sent \in Seq(Parts) /\ r.ended \in BOOLEAN
      /\ r = [body |-> r.body, sent |-> r.sent, ended |-> r.ended]
    BY DEF Responses
<1>2. \A p \in Parts : Append(r.body, p) \in Seq(Parts) /\ Append(r.sent, p) \in Seq(Parts)
    BY <1>1, AppendProperties
<1>3. \A p \in Parts : Write(r, p) \in Responses
    BY <1>1, <1>2 DEF Write, Responses
<1>4. \A p \in Parts : Send(r, p) \in Responses
    BY <1>1, <1>2 DEF Send, Responses
<1>5. End(r) \in Responses
    BY <1>1 DEF End, Responses
<1> QED
    BY <1>3, <1>4, <1>5

(* Parts are written one after the other.                                   *)
LEMMA WrittenParts ==
    ASSUME NEW r \in Responses, NEW ls \in Seq(Parts)
    PROVE  \E f \in [SUBSET (1..Len(ls)) -> Responses] :
               /\ FoldLeft(Write, r, ls) = f[1..Len(ls)]
               /\ f[{}] = r
               /\ \A s \in (SUBSET (1..Len(ls))) \ {{}} :
                     f[s] = Write(f[s \ {Max(s)}], ls[Max(s)])
<1> DEFINE n == Len(ls)
           V == Responses
           S == 1..n
           pick == LastOf(n)
           G == [a \in S \X V |-> Write(a[2], ls[a[1]])]
           Step(f, s) == IF s = {} THEN r ELSE Write(f[s \ {Max(s)}], ls[Max(s)])
           P(f) == f = [s \in SUBSET S |-> Step(f, s)]
           F == CHOOSE f : P(f)
<1>1. n \in Nat /\ DOMAIN ls = S /\ \A i \in S : ls[i] \in Parts
    BY LenProperties
<1>2. \A s \in (SUBSET S) \ {{}} : pick[s] = Max(s) /\ Max(s) \in s
    BY <1>1, LastOfNumbers DEF LastOf
<1>3. Picks(pick, S)
    BY <1>1, LastPicks
<1>4. G \in [S \X V -> V]
    BY <1>1, PartsKeepTypes
<1>5. PICK f \in [SUBSET S -> V] : Folds(f, S, pick, r, G)
    <2>1. r \in V
        OBVIOUS
    <2> HIDE DEF S, V, pick, G
    <2> QED
        BY <2>1, <1>3, <1>4, FoldExists
<1>6. P(f)
    <2>1. ASSUME NEW s \in SUBSET S PROVE f[s] = Step(f, s)
        <3>1. CASE s # {}
            <4>1. pick[s] = Max(s) /\ Max(s) \in S /\ f[s \ {Max(s)}] \in V
                BY <1>2, <3>1
            <4>2. f[s] = G[<<Max(s), f[s \ {Max(s)}]>>]
                BY <1>5, <3>1, <4>1 DEF Folds
            <4> QED
                BY <3>1, <4>1, <4>2
        <3> QED
            BY <1>5, <3>1 DEF Folds
    <2> HIDE DEF Step
    <2> QED
        BY <2>1
<1>7. P(F)
    <2> HIDE DEF P
    <2> QED BY <1>6
<1>8. FoldLeft(Write, r, ls) = F[S]
    BY <1>1 DEF FoldLeft, MapThenFoldSet
<1> HIDE DEF F, S
<1>9. F[{}] \in V
    BY <1>7
<1>10. ASSUME NEW s \in (SUBSET S) \ {{}}, F[s \ {pick[s]}] \in V
       PROVE  F[s] \in V
    <2>1. F[s] = Write(F[s \ {Max(s)}], ls[Max(s)]) /\ pick[s] = Max(s) /\ Max(s) \in S
        <3>1. F[s] = Step(F, s)
            <4> HIDE DEF Step
            <4> QED BY <1>7
        <3>2. F[s] = Write(F[s \ {Max(s)}], ls[Max(s)])
            BY <3>1
        <3>3. pick[s] = Max(s) /\ Max(s) \in s /\ s \subseteq S
            BY <1>2
        <3> QED
            BY <3>2, <3>3
    <2> DEFINE v == F[s \ {Max(s)}]
               x == ls[Max(s)]
    <2>2. v \in V /\ x \in Parts
        BY <1>1, <1>10, <2>1
    <2> HIDE DEF v, x, F
    <2>3. Write(v, x) \in Responses
        BY <2>2, PartsKeepTypes
    <2> QED
        BY <2>1, <2>3 DEF v, x
<1> DEFINE T == {s \in SUBSET S : F[s] \in V}
<1>11. SUBSET S \subseteq T
    <2>1. Inductive(T, S, pick)
        BY <1>9, <1>10 DEF Inductive
    <2> HIDE DEF T, pick
    <2> QED
        BY <1>3, <2>1, InductionOnSubsets
<1>12. F \in [SUBSET S -> V]
    BY <1>7, <1>11
<1>13. F[{}] = r /\ \A s \in (SUBSET S) \ {{}} : F[s] = Write(F[s \ {Max(s)}], ls[Max(s)])
    BY <1>7
<1> QED
    BY <1>8, <1>12, <1>13 DEF S

(* Parts are sent one after the other.                                      *)
LEMMA SentParts ==
    ASSUME NEW r \in Responses, NEW ls \in Seq(Parts)
    PROVE  \E f \in [SUBSET (1..Len(ls)) -> Responses] :
               /\ FoldLeft(Send, r, ls) = f[1..Len(ls)]
               /\ f[{}] = r
               /\ \A s \in (SUBSET (1..Len(ls))) \ {{}} :
                     f[s] = Send(f[s \ {Max(s)}], ls[Max(s)])
<1> DEFINE n == Len(ls)
           V == Responses
           S == 1..n
           pick == LastOf(n)
           G == [a \in S \X V |-> Send(a[2], ls[a[1]])]
           Step(f, s) == IF s = {} THEN r ELSE Send(f[s \ {Max(s)}], ls[Max(s)])
           P(f) == f = [s \in SUBSET S |-> Step(f, s)]
           F == CHOOSE f : P(f)
<1>1. n \in Nat /\ DOMAIN ls = S /\ \A i \in S : ls[i] \in Parts
    BY LenProperties
<1>2. \A s \in (SUBSET S) \ {{}} : pick[s] = Max(s) /\ Max(s) \in s
    BY <1>1, LastOfNumbers DEF LastOf
<1>3. Picks(pick, S)
    BY <1>1, LastPicks
<1>4. G \in [S \X V -> V]
    BY <1>1, PartsKeepTypes
<1>5. PICK f \in [SUBSET S -> V] : Folds(f, S, pick, r, G)
    <2>1. r \in V
        OBVIOUS
    <2> HIDE DEF S, V, pick, G
    <2> QED
        BY <2>1, <1>3, <1>4, FoldExists
<1>6. P(f)
    <2>1. ASSUME NEW s \in SUBSET S PROVE f[s] = Step(f, s)
        <3>1. CASE s # {}
            <4>1. pick[s] = Max(s) /\ Max(s) \in S /\ f[s \ {Max(s)}] \in V
                BY <1>2, <3>1
            <4>2. f[s] = G[<<Max(s), f[s \ {Max(s)}]>>]
                BY <1>5, <3>1, <4>1 DEF Folds
            <4> QED
                BY <3>1, <4>1, <4>2
        <3> QED
            BY <1>5, <3>1 DEF Folds
    <2> HIDE DEF Step
    <2> QED
        BY <2>1
<1>7. P(F)
    <2> HIDE DEF P
    <2> QED BY <1>6
<1>8. FoldLeft(Send, r, ls) = F[S]
    BY <1>1 DEF FoldLeft, MapThenFoldSet
<1> HIDE DEF F, S
<1>9. F[{}] \in V
    BY <1>7
<1>10. ASSUME NEW s \in (SUBSET S) \ {{}}, F[s \ {pick[s]}] \in V
       PROVE  F[s] \in V
    <2>1. F[s] = Send(F[s \ {Max(s)}], ls[Max(s)]) /\ pick[s] = Max(s) /\ Max(s) \in S
        <3>1. F[s] = Step(F, s)
            <4> HIDE DEF Step
            <4> QED BY <1>7
        <3>2. F[s] = Send(F[s \ {Max(s)}], ls[Max(s)])
            BY <3>1
        <3>3. pick[s] = Max(s) /\ Max(s) \in s /\ s \subseteq S
            BY <1>2
        <3> QED
            BY <3>2, <3>3
    <2> DEFINE v == F[s \ {Max(s)}]
               x == ls[Max(s)]
    <2>2. v \in V /\ x \in Parts
        BY <1>1, <1>10, <2>1
    <2> HIDE DEF v, x, F
    <2>3. Send(v, x) \in Responses
        BY <2>2, PartsKeepTypes
    <2> QED
        BY <2>1, <2>3 DEF v, x
<1> DEFINE T == {s \in SUBSET S : F[s] \in V}
<1>11. SUBSET S \subseteq T
    <2>1. Inductive(T, S, pick)
        BY <1>9, <1>10 DEF Inductive
    <2> HIDE DEF T, pick
    <2> QED
        BY <1>3, <2>1, InductionOnSubsets
<1>12. F \in [SUBSET S -> V]
    BY <1>7, <1>11
<1>13. F[{}] = r /\ \A s \in (SUBSET S) \ {{}} : F[s] = Send(F[s \ {Max(s)}], ls[Max(s)])
    BY <1>7
<1> QED
    BY <1>8, <1>12, <1>13 DEF S

(* Two parts written one after the other.                                   *)
LEMMA TwoWritten ==
    ASSUME NEW r \in Responses, NEW a \in Parts, NEW b \in Parts
    PROVE  FoldLeft(Write, r, <<a, b>>) = Write(Write(r, a), b)
<1> DEFINE ls == <<a, b>>
<1>1. ls \in Seq(Parts) /\ Len(ls) = 2 /\ ls[1] = a /\ ls[2] = b
    OBVIOUS
<1> HIDE DEF ls
<1>2. PICK f \in [SUBSET (1..Len(ls)) -> Responses] :
          /\ FoldLeft(Write, r, ls) = f[1..Len(ls)]
          /\ f[{}] = r
          /\ \A s \in (SUBSET (1..Len(ls))) \ {{}} : f[s] = Write(f[s \ {Max(s)}], ls[Max(s)])
    <2>1. ls \in Seq(Parts)
        BY <1>1
    <2> QED
        BY <2>1, WrittenParts, Zenon
<1>3. 1..Len(ls) = {1, 2} /\ {1} \in (SUBSET (1..2)) \ {{}} /\ {1, 2} \in (SUBSET (1..2)) \ {{}}
    BY <1>1
<1>4. \A s \in (SUBSET (1..2)) \ {{}} : Max(s) \in s /\ \A i \in s : i <= Max(s)
    BY LastOfNumbers
<1>5. Max({1}) = 1 /\ Max({1, 2}) = 2
    BY <1>3, <1>4
<1>6. f[{1}] = Write(f[{1} \ {1}], a) /\ f[{1, 2}] = Write(f[{1, 2} \ {2}], b)
    BY <1>1, <1>2, <1>3, <1>5
<1>7. {1} \ {1} = {} /\ {1, 2} \ {2} = {1}
    OBVIOUS
<1>8. f[{1, 2}] = Write(Write(r, a), b)
    BY <1>2, <1>6, <1>7
<1> QED
    BY <1>2, <1>3, <1>8 DEF ls

(* What is written or sent of any number of parts is a response.            *)
LEMMA FoldsAreResponses ==
    ASSUME NEW r \in Responses, NEW ls \in Seq(Parts)
    PROVE  FoldLeft(Write, r, ls) \in Responses /\ FoldLeft(Send, r, ls) \in Responses
<1>1. 1..Len(ls) \in SUBSET (1..Len(ls))
    OBVIOUS
<1>2. PICK f \in [SUBSET (1..Len(ls)) -> Responses] :
          /\ FoldLeft(Write, r, ls) = f[1..Len(ls)]
          /\ f[{}] = r
          /\ \A s \in (SUBSET (1..Len(ls))) \ {{}} : f[s] = Write(f[s \ {Max(s)}], ls[Max(s)])
    BY WrittenParts
<1>3. PICK g \in [SUBSET (1..Len(ls)) -> Responses] :
          /\ FoldLeft(Send, r, ls) = g[1..Len(ls)]
          /\ g[{}] = r
          /\ \A s \in (SUBSET (1..Len(ls))) \ {{}} : g[s] = Send(g[s \ {Max(s)}], ls[Max(s)])
    BY SentParts
<1> QED
    BY <1>1, <1>2, <1>3

(* An answer is a response.                                                  *)
LEMMA AnswersAreResponses ==
    ASSUME NEW ls \in Seq(Parts), response \in Responses, Answer(ls)
    PROVE  response' \in Responses
<1>1. FoldLeft(Write, response, ls) \in Responses /\ FoldLeft(Send, response, ls) \in Responses
    BY FoldsAreResponses
<1>2. End(FoldLeft(Write, response, ls)) \in Responses
    BY <1>1, PartsKeepTypes
<1> HIDE DEF Responses
<1> QED
    BY <1>1, <1>2 DEF Answer

-----------------------------------------------------------------------------
(* End marks *)

OneMark(s) == \A n \in DOMAIN s : (s[n].type = "done") <=> n = Len(s)

(* A response has no end mark while it is open, and one, the last, when it  *)
(* was ended.                                                               *)
Marked(r) == IF r.ended THEN OneMark(r.sent)
             ELSE \A n \in DOMAIN r.body : r.body[n].type # "done"

(* Writing anything else, or [DONE] and the end, keeps it so.               *)
LEMMA WritingKeepsMarks ==
    ASSUME NEW r \in Responses, Marked(r)
    PROVE  /\ \A p \in Parts : p.type # "done" => Marked(Write(r, p))
           /\ Marked(Finish(r))
<1>1. r.body \in Seq(Parts) /\ r.sent \in Seq(Parts) /\ r.ended \in BOOLEAN
      /\ r = [body |-> r.body, sent |-> r.sent, ended |-> r.ended]
    BY DEF Responses
<1>2. ASSUME NEW p \in Parts
      PROVE  /\ Append(r.body, p) \in Seq(Parts)
             /\ Len(Append(r.body, p)) = Len(r.body) + 1
             /\ DOMAIN Append(r.body, p) = 1..(Len(r.body) + 1)
             /\ \A n \in 1..Len(r.body) : Append(r.body, p)[n] = r.body[n]
             /\ Append(r.body, p)[Len(r.body) + 1] = p
             /\ DOMAIN r.body = 1..Len(r.body) /\ Len(r.body) \in Nat
    <2>1. Append(r.body, p) \in Seq(Parts)
        BY <1>1, AppendProperties
    <2> QED
        BY <1>1, <2>1, AppendProperties, LenProperties
<1>3. ASSUME NEW p \in Parts, p.type # "done" PROVE Marked(Write(r, p))
    <2>1. CASE r.ended
        BY <2>1 DEF Write
    <2>2. CASE ~r.ended
        <3>1. Write(r, p) = [body |-> Append(r.body, p), sent |-> r.sent, ended |-> r.ended]
            BY <1>1, <2>2 DEF Write
        <3>2. \A n \in DOMAIN Append(r.body, p) : Append(r.body, p)[n].type # "done"
            <4>1. SUFFICES ASSUME NEW n \in 1..(Len(r.body) + 1)
                           PROVE  Append(r.body, p)[n].type # "done"
                BY <1>2
            <4>2. n \in 1..Len(r.body) \/ n = Len(r.body) + 1
                BY <1>2
            <4> QED
                BY <1>2, <1>3, <2>2, <4>2 DEF Marked
        <3> QED
            BY <2>2, <3>1, <3>2 DEF Marked
    <2> QED
        BY <2>1, <2>2
<1>4. Marked(Finish(r))
    <2> DEFINE done == Part("done", "")
    <2>1. done \in Parts /\ done.type = "done"
        BY DEF Part, Parts, Payloads
    <2> HIDE DEF done
    <2>2. CASE r.ended
        BY <2>2 DEF Finish, Write, End
    <2>3. CASE ~r.ended
        <3> DEFINE body == Append(r.body, done)
        <3>1. Finish(r) = [body |-> body, sent |-> body, ended |-> TRUE]
            BY <1>1, <2>3 DEF Finish, Write, End, done
        <3>2. OneMark(body)
            <4>1. SUFFICES ASSUME NEW n \in 1..(Len(r.body) + 1)
                           PROVE  (body[n].type = "done") <=> n = Len(r.body) + 1
                BY <1>2, <2>1 DEF OneMark
            <4>2. CASE n \in 1..Len(r.body)
                BY <1>2, <2>1, <2>3, <4>2 DEF Marked
            <4>3. CASE n = Len(r.body) + 1
                BY <1>2, <2>1, <4>3
            <4> QED
                BY <1>2, <4>2, <4>3
        <3> HIDE DEF body
        <3> QED
            BY <3>1, <3>2 DEF Marked
    <2> QED
        BY <2>2, <2>3
<1> QED
    BY <1>3, <1>4

(* So does each data line that write_cb relays to an event stream.          *)
LEMMA EmitKeepsMarks ==
    ASSUME NEW route, NEW r \in Responses, NEW p \in Payloads
    PROVE  /\ Emit(route, r, p) \in Responses
           /\ route = "sse" /\ Marked(r) => Marked(Emit(route, r, p))
<1>1. /\ Part("done", "") \in Parts /\ Part("delta", p) \in Parts /\ Part("raw", p) \in Parts
      /\ Part("delta", p).type # "done" /\ Part("raw", p).type # "done"
    BY DEF Part, Parts, Payloads
<1>2. Finish(r) \in Responses
    BY <1>1, PartsKeepTypes DEF Finish
<1>3. CASE route = "ws"
    BY <1>1, <1>3, PartsKeepTypes DEF Emit
<1>4. CASE route # "ws"
    <2>1. \/ Emit(route, r, p) = Finish(r)
          \/ Emit(route, r, p) = Write(r, Part("delta", p))
          \/ Emit(route, r, p) = Write(r, Part("raw", p))
          \/ Emit(route, r, p) = r
        BY <1>4 DEF Emit
    <2> QED
        BY <1>1, <1>2, <2>1, PartsKeepTypes, WritingKeepsMarks
<1> QED
    BY <1>3, <1>4

-----------------------------------------------------------------------------
(* The invariant *)

Fresh == [body |-> <<>>, sent |-> <<>>, ended |-> FALSE]

IsEnd(end, t, n) == \E k \in 1..(n + 1) : end = SubSeq(t, k, n)

(* The buffer is what has come since the last frame that is complete.       *)
BufferInv ==
    /\ text \in Texts /\ got \in 0..Len(text)
    /\ IsEnd(buffer, text, got)
    /\ Delimiters(buffer) = {}

(* Nothing is answered before the handler's last step or the stream, which  *)
(* needs a prompt.                                                          *)
ResponseInv ==
    /\ request \in Requests \cup {NoRequest}
    /\ at \in {"idle", "begun", "called", "perform", "returned"}
    /\ performed \in {"not yet", "ok", "failed"}
    /\ response \in Responses
    /\ at \in {"idle", "begun", "called"} => response = Fresh
    /\ request.route = "sse" /\ request.prompt # "" => Marked(response)

StreamInv == BufferInv /\ ResponseInv

(* The end of what has been received is a suffix of it.                     *)
LEMMA EndIsSuffix ==
    ASSUME NEW s \in Seq(Tokens), NEW n \in 0..Len(s), NEW k \in 1..(n + 1)
    PROVE  IsSuffix(SubSeq(s, k, n), SubSeq(s, 1, n))
<1> DEFINE u == SubSeq(s, k, n)
           v == SubSeq(s, 1, n)
<1>1. Len(s) \in Nat /\ n \in Nat /\ k \in Nat /\ k >= 1 /\ k <= n + 1 /\ n <= Len(s)
    BY LenProperties
<1>2. \A i \in 1..n : s[i] \in Tokens
    BY <1>1, ElementOfSeq
<1>3. /\ u \in Seq(Tokens) /\ Len(u) = n - k + 1 /\ \A i \in 1..(n - k + 1) : u[i] = s[k + i - 1]
      /\ v \in Seq(Tokens) /\ Len(v) = n /\ \A i \in 1..n : v[i] = s[i]
    <2>1. \A i \in k..n : s[i] \in Tokens
        BY <1>1, <1>2
    <2>2. /\ u \in Seq(Tokens) /\ Len(u) = IF k <= n THEN n - k + 1 ELSE 0
          /\ \A i \in 1..(n - k + 1) : u[i] = s[k + i - 1]
        BY <1>1, <2>1, SubSeqProperties
    <2>3. /\ v \in Seq(Tokens) /\ Len(v) = IF 1 <= n THEN n - 1 + 1 ELSE 0
          /\ \A i \in 1..(n - 1 + 1) : v[i] = s[1 + i - 1]
        BY <1>1, <1>2, SubSeqProperties
    <2>4. Len(v) = n /\ \A i \in 1..n : v[i] = s[i]
        BY <1>1, <2>3
    <2> QED
        BY <1>1, <2>2, <2>3, <2>4
<1> HIDE DEF u, v
<1> DEFINE m == n - k + 1
           ru == Reverse(u)
           rv == Reverse(v)
<1>4. m \in Nat /\ m <= n
    BY <1>1
<1>5. /\ ru = [i \in 1..m |-> u[m - i + 1]] /\ rv = [i \in 1..n |-> v[n - i + 1]]
    BY <1>3 DEF Reverse
<1>6. /\ ru \in Seq(Tokens) /\ Len(ru) = m
      /\ rv \in Seq(Tokens) /\ Len(rv) = n
    <2>1. \A i \in 1..m : u[m - i + 1] \in Tokens
        <3>1. \A i \in 1..m : m - i + 1 \in 1..Len(u)
            BY <1>3, <1>4
        <3> QED
            BY <1>3, <3>1, ElementOfSeq
    <2>2. \A i \in 1..n : v[n - i + 1] \in Tokens
        <3>1. \A i \in 1..n : n - i + 1 \in 1..Len(v)
            BY <1>1, <1>3
        <3> QED
            BY <1>3, <3>1, ElementOfSeq
    <2> HIDE DEF m, ru, rv
    <2> QED
        BY <1>1, <1>4, <1>5, <2>1, <2>2, IsASeq
<1>7. \A i \in 1..m : ru[i] = rv[i]
    <2>1. SUFFICES ASSUME NEW i \in 1..m PROVE u[m - i + 1] = v[n - i + 1]
        BY <1>1, <1>4, <1>5
    <2>2. m - i + 1 \in 1..m /\ n - i + 1 \in 1..n /\ k + (m - i + 1) - 1 = n - i + 1
        BY <1>1, <1>4
    <2>3. u[m - i + 1] = s[k + (m - i + 1) - 1] /\ v[n - i + 1] = s[n - i + 1]
        BY <1>3, <2>2
    <2> QED
        BY <2>2, <2>3
<1>8. SubSeq(ru, 1, m) = SubSeq(rv, 1, m)
    <2> HIDE DEF m, ru, rv
    <2> QED
        BY <1>1, <1>4, <1>6, <1>7
<1> QED
    <2> HIDE DEF m, ru, rv
    <2>1. IsPrefix(ru, rv)
        BY <1>4, <1>6, <1>8 DEF IsPrefix
    <2> QED
        BY <2>1 DEF IsSuffix, u, v, ru, rv

(* The types of the variables.                                               *)
LEMMA TypesFollow == StreamInv => TypeOK
<1> SUFFICES ASSUME StreamInv PROVE TypeOK
    OBVIOUS
<1>1. PICK k \in 1..(got + 1) : buffer = SubSeq(text, k, got)
    BY DEF StreamInv, BufferInv, IsEnd
<1>2. text \in Seq(Tokens) /\ got \in 0..Len(text)
    BY TextsAreTokens DEF StreamInv, BufferInv
<1>3. IsSuffix(buffer, Received)
    BY <1>1, <1>2, EndIsSuffix DEF Received
<1>4. response.ended \in BOOLEAN
    BY DEF StreamInv, ResponseInv, Responses
<1> QED
    BY <1>3, <1>4 DEF StreamInv, BufferInv, ResponseInv, TypeOK

(* A chunk put to the buffer is drained to an end of what has come.         *)
LEMMA DrainKeepsEnd ==
    ASSUME NEW t \in Seq(Tokens), NEW g \in 0..Len(t), NEW n \in g..Len(t),
           NEW b, IsEnd(b, t, g)
    PROVE  LET drained == Drain(b \o SubSeq(t, g + 1, n))
           IN  /\ drained.lines \in Seq(Payloads)
               /\ Delimiters(drained.rest) = {}
               /\ IsEnd(drained.rest, t, n)
<1> DEFINE s == b \o SubSeq(t, g + 1, n)
<1>0. PICK k \in 1..(g + 1) : b = SubSeq(t, k, g)
    BY DEF IsEnd
<1>1. /\ Len(t) \in Nat /\ g \in Nat /\ n \in Nat /\ k \in Nat
      /\ g <= n /\ n <= Len(t) /\ k >= 1 /\ k <= g + 1
    BY LenProperties
<1>2. s = SubSeq(t, k, n)
    <2>1. k \in 1..(Len(t) + 1) /\ g \in (k - 1)..Len(t) /\ n \in g..Len(t)
        BY <1>1
    <2> QED
        BY <1>0, <1>1, <2>1, ConcatAdjacentSubSeq
<1> HIDE DEF s
<1>3. n \in 0..Len(t) /\ k \in 1..(n + 1) /\ s \in Seq(Tokens) /\ Len(s) = n - k + 1
    <2>1. n \in 0..Len(t) /\ k \in 1..(n + 1)
        BY <1>1
    <2> QED
        BY <1>2, <2>1, PartOfText
<1>4. Drain(s).lines \in Seq(Payloads) /\ Delimiters(Drain(s).rest) = {}
    BY <1>3, DrainLeavesNoFrame
<1>5. PICK j \in 1..(Len(s) + 1) : Drain(s).rest = SubSeq(s, j, Len(s))
    BY <1>3, DrainTakesFrames
<1>6. SubSeq(s, j, Len(s)) = SubSeq(t, k + j - 1, n) /\ k + j - 1 \in 1..(n + 1)
    <2> DEFINE m == n - k + 1
    <2>1. m \in 0..(n - k + 1) /\ j \in 1..(m + 1) /\ k + m - 1 = n /\ k + j - 1 \in 1..(n + 1)
        BY <1>1, <1>3
    <2> HIDE DEF m
    <2>2. SubSeq(SubSeq(t, k, n), j, m) = SubSeq(t, k + j - 1, k + m - 1)
        BY <1>3, <2>1, PartOfPart
    <2> QED
        BY <1>2, <1>3, <2>1, <2>2 DEF m
<1>7. IsEnd(Drain(s).rest, t, n)
    BY <1>5, <1>6 DEF IsEnd
<1> QED
    BY <1>4, <1>7 DEF s

(* write_cb keeps the buffer so.                                             *)
LEMMA ReceiveKeepsBuffer ==
    ASSUME BufferInv, NEW bytes \in 1..Len(text), Receive(bytes)
    PROVE  /\ BufferInv'
           /\ Drain(buffer \o SubSeq(text, got + 1, got + bytes)).lines \in Seq(Payloads)
<1> DEFINE n == got + bytes
           s == buffer \o SubSeq(text, got + 1, n)
<1>1. text \in Seq(Tokens) /\ Len(text) \in Nat
    BY TextsAreTokens, LenProperties DEF BufferInv
<1>2. /\ got + bytes <= Len(text) /\ got' = n /\ buffer' = Drain(s).rest
      /\ UNCHANGED <<request, at, text, performed>>
    BY Zenon DEF Receive
<1>3. text \in Texts /\ got \in 0..Len(text) /\ n \in got..Len(text) /\ n \in 0..Len(text)
    BY <1>1, <1>2 DEF BufferInv
<1>4. IsEnd(buffer, text, got)
    BY DEF BufferInv
<1> HIDE DEF n
<1>7. /\ Drain(s).lines \in Seq(Payloads) /\ Delimiters(Drain(s).rest) = {}
      /\ IsEnd(Drain(s).rest, text, n)
    BY <1>1, <1>3, <1>4, DrainKeepsEnd
<1> HIDE DEF s
<1>8. BufferInv'
    BY <1>2, <1>3, <1>7 DEF BufferInv
<1> QED
    BY <1>7, <1>8 DEF s, n

(* A response nobody has written to.                                         *)
LEMMA FreshIsMarked == Fresh \in Responses /\ Marked(Fresh)
<1>1. Fresh.ended = FALSE /\ Fresh.body = <<>> /\ DOMAIN <<>> = {}
    BY DEF Fresh
<1>2. Marked(Fresh)
    BY <1>1 DEF Marked
<1>3. <<>> \in Seq(Parts)
    OBVIOUS
<1> QED
    BY <1>2, <1>3 DEF Fresh, Responses

LEMMA AnswerKeeps ==
    ASSUME ResponseInv, NEW ls \in Seq(Parts), at \in {"begun", "called"}, Answer(ls),
           request.route = "sse" /\ request.prompt # "" => ls = <<Error, Part("done", "")>>
    PROVE  ResponseInv' /\ UNCHANGED Upstream
<1>1. response \in Responses /\ response' \in Responses
    BY AnswersAreResponses DEF ResponseInv
<1>2. /\ at' = "returned" /\ request' = request /\ UNCHANGED Upstream /\ performed' = performed
      /\ response' = IF request.route = "ws" THEN FoldLeft(Send, response, ls)
                     ELSE End(FoldLeft(Write, response, ls))
    BY Zenon DEF Answer, Goto, Upstream
<1>3. response = Fresh
    BY DEF ResponseInv
<1>4. ASSUME request.route = "sse", request.prompt # ""
      PROVE  Marked(response')
    <2>1. /\ Error \in Parts /\ Part("done", "") \in Parts /\ Error.type # "done"
        BY DEF Error, Part, Parts, Payloads
    <2>2. ls = <<Error, Part("done", "")>>
        BY <1>4
    <2>3. FoldLeft(Write, response, <<Error, Part("done", "")>>)
             = Write(Write(response, Error), Part("done", ""))
        BY <1>1, <2>1, TwoWritten
    <2>4. response' = End(FoldLeft(Write, response, ls))
        BY <1>2, <1>4
    <2>5. response' = Finish(Write(response, Error))
        BY <2>2, <2>3, <2>4 DEF Finish
    <2>6. Marked(response)
        BY <1>3, FreshIsMarked
    <2>7. Write(response, Error) \in Responses /\ Marked(Write(response, Error))
        BY <1>1, <2>1, <2>6, PartsKeepTypes, WritingKeepsMarks
    <2>8. Marked(Finish(Write(response, Error)))
        BY <2>7, WritingKeepsMarks
    <2> QED
        BY <2>5, <2>8
<1> QED
    BY <1>1, <1>2, <1>4 DEF ResponseInv

(* One step: the stream relays to an open response or one that is ended,    *)
(* the other handlers answer once.                                          *)
LEMMA StepResponse ==
    ASSUME StreamInv, [Next]_vars
    PROVE  StreamInv'
<1>1. BufferInv /\ ResponseInv /\ response \in Responses
    BY DEF StreamInv, ResponseInv
<1>2. ASSUME UNCHANGED Upstream PROVE BufferInv'
    BY <1>1, <1>2 DEF Upstream, BufferInv
<1>3. /\ Error \in Parts /\ Error.type # "done"
      /\ \A type \in {"done", "reply", "final", "error"} : Part(type, "") \in Parts
    BY DEF Error, Part, Parts, Payloads
<1>4. /\ \A p \in Parts : <<p>> \in Seq(Parts)
      /\ \A p, q \in Parts : <<p, q>> \in Seq(Parts)
    OBVIOUS
<1>5. ASSUME NEW r \in Requests, Arrive(r)
      PROVE  StreamInv'
    <2>1. response = Fresh /\ response' = Fresh /\ Marked(Fresh) /\ UNCHANGED Upstream
        BY <1>1, <1>5, FreshIsMarked DEF ResponseInv, Arrive
    <2>2. ResponseInv'
        BY <1>1, <1>5, <2>1 DEF ResponseInv, Arrive, Upstream
    <2> QED
        BY <1>2, <2>1, <2>2 DEF StreamInv
<1>6. ASSUME NEW ls \in Seq(Parts), at \in {"begun", "called"}, Answer(ls),
             request.route = "sse" /\ request.prompt # "" => ls = <<Error, Part("done", "")>>
      PROVE  StreamInv'
    <2>1. ResponseInv' /\ UNCHANGED Upstream
        BY <1>1, <1>6, AnswerKeeps
    <2> QED
        BY <1>2, <2>1 DEF StreamInv
<1>7. CASE Malformed \/ CurlInitFails
    <2> DEFINE ls == IF request.route = "sse" THEN <<Error, Part("done", "")>> ELSE <<Error>>
    <2>1. ls \in Seq(Parts)
        BY <1>3, <1>4
    <2>2. request.route = "sse" => ls = <<Error, Part("done", "")>>
        OBVIOUS
    <2>3. Answer(ls)
        BY <1>7, Zenon DEF Malformed, CurlInitFails
    <2>4. at \in {"begun", "called"}
        BY <1>7 DEF Malformed, CurlInitFails, Ready
    <2> HIDE DEF ls
    <2> QED
        BY <1>6, <2>1, <2>2, <2>3, <2>4
<1>8. CASE CallReplies
    <2>1. Answer(<<Part("reply", "")>>) /\ at = "begun" /\ request.route = "ws"
        BY <1>8, Zenon DEF CallReplies
    <2> QED
        BY <1>3, <1>4, <1>6, <2>1
<1>9. CASE MissingPrompt
    <2>1. Answer(<<Error>>) /\ request.prompt = "" /\ Ready
        BY <1>9, Zenon DEF MissingPrompt
    <2> QED
        BY <1>3, <1>4, <1>6, <2>1 DEF Ready
<1>10. CASE Ask
    <2>1. PICK type \in {"final", "error"} : Answer(<<Part(type, "")>>)
        BY <1>10, Zenon DEF Ask
    <2>2. request.route # "sse" /\ at \in {"begun", "called"}
        BY <1>10 DEF Ask, Ready
    <2> QED
        BY <1>3, <1>4, <1>6, <2>1, <2>2
<1>11. CASE CallThrows \/ StartStream \/ PerformOk
    <2>1. /\ response' = response /\ request' = request /\ text' = text /\ got' = got /\ buffer' = buffer
          /\ at' \in {"called", "perform", "returned"}
          /\ at' = "called" => at = "begun"
          /\ performed' \in {performed, "ok"}
        BY <1>11 DEF CallThrows, StartStream, PerformOk, Goto, Upstream
    <2>2. BufferInv'
        BY <1>1, <2>1 DEF BufferInv
    <2>3. ResponseInv'
        BY <1>1, <2>1 DEF ResponseInv
    <2> QED
        BY <2>2, <2>3 DEF StreamInv
<1>12. CASE PerformFails
    <2>1. /\ request' = request /\ text' = text /\ got' = got /\ buffer' = buffer
          /\ at' = "returned" /\ performed' = "failed"
          /\ response' = IF request.route = "ws" THEN Send(response, Error)
                         ELSE Finish(Write(response, Error))
        BY <1>12 DEF PerformFails
    <2>2. BufferInv'
        BY <1>1, <2>1 DEF BufferInv
    <2>3. /\ Send(response, Error) \in Responses
          /\ Write(response, Error) \in Responses
          /\ Finish(Write(response, Error)) \in Responses
        BY <1>1, <1>3, PartsKeepTypes DEF Finish
    <2>4. request.route = "sse" /\ request.prompt # "" => Marked(Finish(Write(response, Error)))
        BY <1>1, <1>3, <2>3, WritingKeepsMarks DEF ResponseInv
    <2>5. response' \in Responses /\ (request.route = "sse" /\ request.prompt # "" => Marked(response'))
        BY <2>1, <2>3, <2>4
    <2>6. ResponseInv'
        BY <1>1, <2>1, <2>5 DEF ResponseInv
    <2> QED
        BY <2>2, <2>6 DEF StreamInv
<1>13. ASSUME NEW bytes \in 1..Len(text), Receive(bytes)
       PROVE  StreamInv'
    <2> DEFINE ls == Drain(buffer \o SubSeq(text, got + 1, got + bytes)).lines
               route == request.route
               V == {r \in Responses : route = "sse" /\ request.prompt # "" => Marked(r)}
    <2>1. BufferInv' /\ ls \in Seq(Payloads)
        BY <1>1, <1>13, ReceiveKeepsBuffer
    <2>2. /\ response' = FoldLeft(LAMBDA r, p : Emit(route, r, p), response, ls)
          /\ UNCHANGED <<request, at, performed>> /\ at = "perform"
        BY <1>13, Zenon DEF Receive
    <2>3. response \in V
        BY <1>1 DEF ResponseInv
    <2>4. \A v \in V : \A p \in Payloads : Emit(route, v, p) \in V
        <3>1. SUFFICES ASSUME NEW v \in V, NEW p \in Payloads PROVE Emit(route, v, p) \in V
            OBVIOUS
        <3>2. v \in Responses /\ (route = "sse" /\ request.prompt # "" => Marked(v))
            OBVIOUS
        <3> HIDE DEF route
        <3>3. /\ Emit(route, v, p) \in Responses
              /\ route = "sse" /\ Marked(v) => Marked(Emit(route, v, p))
            BY <3>2, EmitKeepsMarks
        <3> QED
            BY <3>2, <3>3
    <2> HIDE DEF ls, V, route
    <2>5. Emitted(route, response, ls) \in V
        BY <2>1, <2>3, <2>4, EmittedStays
    <2>6. response' \in V
        BY <2>2, <2>5, Zenon DEF Emitted
    <2>7. UNCHANGED <<request, at, performed>> /\ at = "perform"
        BY <2>2
    <2>8. ResponseInv'
        BY <1>1, <2>6, <2>7 DEF ResponseInv, V, route
    <2> QED
        BY <2>1, <2>8 DEF StreamInv
<1>14. CASE UNCHANGED vars
    BY <1>1, <1>14 DEF vars, StreamInv, BufferInv, ResponseInv
<1> QED
    BY <1>5, <1>7, <1>8, <1>9, <1>10, <1>11, <1>12, <1>13, <1>14 DEF Next, Handler

(* It holds before the request.                                              *)
LEMMA InitStream == Init => StreamInv
<1> SUFFICES ASSUME Init PROVE StreamInv
    OBVIOUS
<1>1. /\ text \in Texts /\ got = 0 /\ buffer = <<>> /\ request = NoRequest /\ at = "idle"
      /\ response = Fresh /\ performed = "not yet"
    BY DEF Init, Fresh
<1>2. text \in Seq(Tokens) /\ Len(text) \in Nat
    BY <1>1, TextsAreTokens, LenProperties
<1>3. SubSeq(text, 1, 0) = <<>>
    BY <1>2, SubSeqEmpty
<1>4. IsEnd(buffer, text, got)
    <2>1. 1 \in 1..(0 + 1)
        OBVIOUS
    <2>2. IsEnd(<<>>, text, 0)
        BY <1>3, <2>1, Zenon DEF IsEnd
    <2> QED
        BY <1>1, <2>2
<1>5. Delimiters(<<>>) = {}
    <2>1. <<>> \in Seq(Tokens) /\ Len(<<>>) = 0
        OBVIOUS
    <2>2. ASSUME NEW e \in Delimiters(<<>>) PROVE FALSE
        <3>1. PICK k \in 2..(Len(<<>>) + 1) : FirstFrame(<<>>).rest = SubSeq(<<>>, k, Len(<<>>))
            BY <2>1, <2>2, FirstFrameIsInText
        <3> QED
            BY <2>1, <3>1
    <2> QED
        BY <2>2
<1>6. BufferInv
    <2>1. Delimiters(buffer) = {}
        BY <1>1, <1>5
    <2>2. got \in 0..Len(text)
        <3>1. ASSUME NEW l \in Nat PROVE 0 \in 0..l
            OBVIOUS
        <3> QED
            BY <1>1, <1>2, <3>1
    <2> QED
        BY <1>1, <1>4, <2>1, <2>2 DEF BufferInv
<1>7. NoRequest.route = "none"
    BY DEF NoRequest
<1>8. ResponseInv
    BY <1>1, <1>7, FreshIsMarked DEF ResponseInv
<1> QED
    BY <1>6, <1>8 DEF StreamInv

(* The types of all variables of an exchange; write_cb keeps in its buffer  *)
(* the end of what has come, without any frame that is complete, whatever   *)
(* the text and however it is cut into chunks.                              *)
THEOREM StreamTypes == Spec => []TypeOK
<1>1. StreamInv /\ [Next]_vars => StreamInv'
    BY StepResponse
<1> QED
    BY <1>1, InitStream, TypesFollow, PTL DEF Spec

(* An answered event stream ends by the one [DONE] in it, whatever upstream *)
(* sends: more than one [DONE], frames after it, a failure before or after. *)
THEOREM OneDonePerStream == Spec => []OneEndMark
<1>1. StreamInv /\ [Next]_vars => StreamInv'
    BY StepResponse
<1>2. StreamInv => OneEndMark
    BY DEF StreamInv, ResponseInv, OneEndMark, OneMark, Marked
<1> QED
    BY <1>1, <1>2, InitStream, PTL DEF Spec

-----------------------------------------------------------------------------
(* What is relayed *)

(* What is picked of a sequence that grows.                                 *)
LEMMA PickedFrom ==
    ASSUME NEW V, NEW s \in Seq(V), NEW places \in SUBSET (1..Len(s)), NEW x \in V,
           NEW last, last = Len(s) + 1
    PROVE  /\ Picked(s, places) \in Seq(V)
           /\ Picked(Append(s, x), places) = Picked(s, places)
           /\ Picked(Append(s, x), places \cup {last}) = Append(Picked(s, places), x)
<1> DEFINE n == Len(s)
           m == Cardinality(places)
           l == NumbersOf(places)
<1>1. n \in Nat /\ places \in SUBSET Nat /\ IsFiniteSet(places) /\ m \in Nat
    <2>1. n \in Nat
        BY LenProperties
    <2>2. IsFiniteSet(places)
        <3>1. IsFiniteSet(1..n)
            BY <2>1, FS_Interval
        <3> QED
            BY <3>1, FS_Subset
    <2> QED
        BY <2>1, <2>2, FS_CardinalityType
<1>2. \A k \in 1..m : l[k] \in places
    <2> HIDE DEF l
    <2> QED BY <1>1, NumbersByRank DEF l
<1>3. \A t, S : Picked(t, S) = [k \in 1..Cardinality(S) |-> t[NumbersOf(S)[k]]]
    BY DEF Picked, Listed, NumbersOf
<1> HIDE DEF l, m
<1>4. Picked(s, places) = [k \in 1..m |-> s[l[k]]]
    BY <1>3 DEF l, m
<1>5. \A k \in 1..m : l[k] \in 1..n /\ s[l[k]] \in V
    BY <1>2, ElementOfSeq
<1>6. Picked(s, places) \in Seq(V) /\ Len(Picked(s, places)) = m
    <2> DEFINE u == Picked(s, places)
    <2>1. u \in [1..m -> V]
        BY <1>4, <1>5
    <2> HIDE DEF u
    <2>2. u \in Seq(V)
        BY <1>1, <2>1, SeqDef
    <2>3. Len(u) = m
        BY <1>1, <2>1, <2>2, LenProperties
    <2> QED
        BY <2>2, <2>3 DEF u
<1>7. Picked(Append(s, x), places) = Picked(s, places)
    <2>1. \A i \in 1..n : Append(s, x)[i] = s[i]
        BY AppendProperties
    <2>2. Picked(Append(s, x), places) = [k \in 1..m |-> Append(s, x)[l[k]]]
        BY <1>3 DEF l, m
    <2> QED
        BY <1>4, <1>5, <2>1, <2>2
<1>8. Picked(Append(s, x), places \cup {n + 1}) = Append(Picked(s, places), x)
    <2> DEFINE more == places \cup {n + 1}
               t == Append(s, x)
               u == Picked(s, places)
               w == Append(u, x)
               o == NumbersOf({n + 1})
    <2>1. /\ {n + 1} \in SUBSET Nat /\ IsFiniteSet({n + 1}) /\ Cardinality({n + 1}) = 1
          /\ \A a \in places : \A b \in {n + 1} : a < b
        <3>1. \A a \in places : a \in 1..n
            OBVIOUS
        <3>2. IsFiniteSet({n + 1}) /\ Cardinality({n + 1}) = 1
            BY FS_Singleton
        <3>3. \A a \in places : a < n + 1
            BY <1>1, <3>1
        <3> QED
            BY <1>1, <3>2, <3>3
    <2>2. NumbersOf(more) = l \o o
        BY <1>1, <2>1, NumbersOfUnion DEF l
    <2>3. l \in Seq(Nat) /\ Len(l) = m
        <3>1. l \in Seq(places) /\ Len(l) = m
            BY <1>1, NumbersInOrder DEF l, m
        <3> QED
            BY <1>1, <3>1, SeqMonotonic
    <2>4. o \in Seq(Nat) /\ Len(o) = 1 /\ o[1] = n + 1
        <3>1. o \in Seq({n + 1}) /\ Len(o) = 1
            BY <2>1, NumbersInOrder
        <3>2. o[1] \in {n + 1}
            BY <3>1, ElementOfSeq
        <3> HIDE DEF o
        <3> QED
            BY <2>1, <3>1, <3>2, SeqMonotonic
    <2>5. /\ Len(l \o o) = m + 1 /\ l \o o \in Seq(Nat)
          /\ \A k \in 1..m : (l \o o)[k] = l[k]
          /\ (l \o o)[m + 1] = n + 1
        <3> HIDE DEF o
        <3>1. /\ l \o o \in Seq(Nat) /\ Len(l \o o) = Len(l) + Len(o)
              /\ \A k \in 1..(Len(l) + Len(o)) : (l \o o)[k] = IF k <= Len(l) THEN l[k] ELSE o[k - Len(l)]
            BY <2>3, <2>4, ConcatProperties
        <3>2. \A k \in 1..m : k \in 1..(Len(l) + Len(o)) /\ k <= Len(l)
            BY <1>1, <2>3, <2>4
        <3>3. m + 1 \in 1..(Len(l) + Len(o)) /\ ~(m + 1 <= Len(l)) /\ m + 1 - Len(l) = 1
            BY <1>1, <2>3, <2>4
        <3>4. Len(l \o o) = m + 1
            BY <2>3, <2>4, <3>1
        <3> QED
            BY <2>4, <3>1, <3>2, <3>3, <3>4
    <2>6. IsFiniteSet(more) /\ more \in SUBSET Nat /\ Cardinality(more) = m + 1
        <3>1. IsFiniteSet(more) /\ more \in SUBSET Nat
            BY <1>1, <2>1, FS_Union
        <3>2. Len(NumbersOf(more)) = Cardinality(more)
            <4> HIDE DEF more
            <4> QED BY <3>1, NumbersInOrder
        <3> HIDE DEF more, o
        <3> QED
            BY <2>2, <2>5, <3>1, <3>2
    <2>7. Picked(t, more) = [k \in 1..(m + 1) |-> t[(l \o o)[k]]]
        <3> HIDE DEF more, o, t
        <3>1. Picked(t, more) = [k \in 1..Cardinality(more) |-> t[NumbersOf(more)[k]]]
            BY <1>3
        <3> QED
            BY <2>2, <2>6, <3>1
    <2>8. /\ t \in Seq(V) /\ Len(t) = n + 1 /\ (\A i \in 1..n : t[i] = s[i]) /\ t[n + 1] = x
        BY AppendProperties
    <2>9. /\ w \in Seq(V) /\ Len(w) = m + 1 /\ (\A i \in 1..m : w[i] = u[i]) /\ w[m + 1] = x
        <3> HIDE DEF u
        <3>1. u \in Seq(V) /\ Len(u) = m
            BY <1>6 DEF u
        <3> QED
            BY <3>1, AppendProperties
    <2>10. ASSUME NEW k \in 1..(m + 1) PROVE t[(l \o o)[k]] = w[k]
        <3> HIDE DEF o, t, u, w
        <3>1. CASE k = m + 1
            BY <2>5, <2>8, <2>9, <3>1
        <3>2. CASE k # m + 1
            <4>1. k \in 1..m
                BY <1>1, <3>2
            <4>2. u[k] = s[l[k]] /\ l[k] \in 1..n
                BY <1>4, <1>5, <4>1 DEF u
            <4> QED
                BY <2>5, <2>8, <2>9, <4>1, <4>2
        <3> QED
            BY <3>1, <3>2
    <2>11. w = [k \in 1..(m + 1) |-> w[k]]
        <3> HIDE DEF w
        <3>1. w \in [1..Len(w) -> V] /\ Len(w) = m + 1
            BY <2>9, LenProperties
        <3> QED
            BY <3>1
    <2> HIDE DEF t, o, w, more
    <2>12. Picked(t, more) = w
        BY <2>7, <2>10, <2>11
    <2> QED
        BY <2>12 DEF t, w, more, u
<1> QED
    BY <1>6, <1>7, <1>8

Seen == Deltas \cup Unparsable

(* One line more: what the client should be shown.                           *)
LEMMA ShownMore ==
    ASSUME NEW s \in Seq(Payloads), NEW p \in Payloads
    PROVE  /\ Shown(s) \in Seq(Payloads)
           /\ Shown(Append(s, p)) = IF p \in Seen THEN Append(Shown(s), p) ELSE Shown(s)
<1> DEFINE n == Len(s)
           t == Append(s, p)
           P == {k \in DOMAIN s : s[k] \in Seen}
           Q == {k \in DOMAIN t : t[k] \in Seen}
<1>1. n \in Nat /\ DOMAIN s = 1..n
    BY LenProperties
<1>2. /\ t \in Seq(Payloads) /\ DOMAIN t = 1..(n + 1)
      /\ (\A k \in 1..n : t[k] = s[k]) /\ t[n + 1] = p
    BY AppendProperties, LenProperties
<1>3. Q = IF p \in Seen THEN P \cup {n + 1} ELSE P
    <2>1. \A k : k \in 1..(n + 1) <=> k \in 1..n \/ k = n + 1
        BY <1>1
    <2> HIDE DEF t
    <2> QED
        BY <1>1, <1>2, <2>1
<1>4. Shown(s) = Picked(s, P) /\ Shown(t) = Picked(t, Q) /\ P \in SUBSET (1..n)
    BY <1>1 DEF Shown, Seen
<1>5. /\ Picked(s, P) \in Seq(Payloads)
      /\ Picked(t, P) = Picked(s, P)
      /\ Picked(t, P \cup {n + 1}) = Append(Picked(s, P), p)
    <2>1. P \in SUBSET (1..Len(s)) /\ n + 1 = Len(s) + 1
        BY <1>4
    <2> HIDE DEF P
    <2> QED
        BY <2>1, PickedFrom
<1> HIDE DEF P, Q, t
<1> QED
    BY <1>3, <1>4, <1>5 DEF t

IsShown(x) == x.type \in {"delta", "raw"}

(* One part more: what the client is shown.                                  *)
LEMMA DataMore ==
    ASSUME NEW s \in Seq(Parts), NEW x \in Parts
    PROVE  /\ Data(s) \in Seq(Payloads)
           /\ Data(Append(s, x)) = IF IsShown(x) THEN Append(Data(s), x.data) ELSE Data(s)
<1> DEFINE n == Len(s)
           t == Append(s, x)
           P == {k \in DOMAIN s : s[k].type \in {"delta", "raw"}}
           Q == {k \in DOMAIN t : t[k].type \in {"delta", "raw"}}
           u == Picked(s, P)
           D(w) == [k \in DOMAIN w |-> w[k].data]
<1>1. n \in Nat /\ DOMAIN s = 1..n
    BY LenProperties
<1>2. /\ t \in Seq(Parts) /\ DOMAIN t = 1..(n + 1)
      /\ (\A k \in 1..n : t[k] = s[k]) /\ t[n + 1] = x
    BY AppendProperties, LenProperties
<1>3. Q = IF IsShown(x) THEN P \cup {n + 1} ELSE P
    <2>1. \A k : k \in 1..(n + 1) <=> k \in 1..n \/ k = n + 1
        BY <1>1
    <2> HIDE DEF t
    <2> QED
        BY <1>1, <1>2, <2>1 DEF IsShown
<1>4. Data(s) = D(u) /\ Data(t) = D(Picked(t, Q)) /\ P \in SUBSET (1..n)
    BY <1>1 DEF Data
<1>5. /\ u \in Seq(Parts)
      /\ Picked(t, P) = u
      /\ Picked(t, P \cup {n + 1}) = Append(u, x)
    <2>1. P \in SUBSET (1..Len(s)) /\ n + 1 = Len(s) + 1
        BY <1>4
    <2> HIDE DEF P
    <2> QED
        BY <2>1, PickedFrom
<1> HIDE DEF P, Q, t, u
<1>6. ASSUME NEW w \in Seq(Parts)
      PROVE  /\ D(w) \in Seq(Payloads) /\ Len(D(w)) = Len(w)
             /\ \A k \in 1..Len(w) : D(w)[k] = w[k].data
    <2>1. Len(w) \in Nat /\ DOMAIN w = 1..Len(w) /\ \A k \in 1..Len(w) : w[k] \in Parts
        BY LenProperties
    <2>2. \A k \in 1..Len(w) : w[k].data \in Payloads
        BY <2>1 DEF Parts
    <2> DEFINE v == D(w)
    <2>3. v \in [1..Len(w) -> Payloads] /\ \A k \in 1..Len(w) : v[k] = w[k].data
        BY <2>1, <2>2
    <2> HIDE DEF v
    <2>4. v \in Seq(Payloads)
        BY <2>1, <2>3, SeqDef
    <2>5. Len(v) = Len(w)
        BY <2>1, <2>3, <2>4, LenProperties
    <2> QED
        BY <2>3, <2>4, <2>5 DEF v
<1>7. D(Append(u, x)) = Append(D(u), x.data)
    <2> DEFINE a == D(Append(u, x))
               b == Append(D(u), x.data)
               m == Len(u)
    <2>1. m \in Nat /\ Append(u, x) \in Seq(Parts) /\ Len(Append(u, x)) = m + 1
          /\ (\A k \in 1..m : Append(u, x)[k] = u[k]) /\ Append(u, x)[m + 1] = x
        BY <1>5, LenProperties, AppendProperties
    <2>2. a \in Seq(Payloads) /\ Len(a) = m + 1 /\ \A k \in 1..(m + 1) : a[k] = Append(u, x)[k].data
        <3> HIDE DEF D, m
        <3>1. a \in Seq(Payloads) /\ Len(a) = Len(Append(u, x))
              /\ \A k \in 1..Len(Append(u, x)) : a[k] = Append(u, x)[k].data
            BY <1>6, <2>1
        <3> HIDE DEF a
        <3> QED
            BY <2>1, <3>1
    <2>3. x.data \in Payloads
        BY DEF Parts
    <2>4. /\ b \in Seq(Payloads) /\ Len(b) = m + 1
          /\ (\A k \in 1..m : b[k] = u[k].data) /\ b[m + 1] = x.data
        <3> DEFINE v == D(u)
        <3>1. v \in Seq(Payloads) /\ Len(v) = m /\ \A k \in 1..m : v[k] = u[k].data
            <4> HIDE DEF D
            <4> QED BY <1>5, <1>6
        <3> HIDE DEF v
        <3>2. /\ Append(v, x.data) \in Seq(Payloads) /\ Len(Append(v, x.data)) = Len(v) + 1
              /\ (\A k \in 1..Len(v) : Append(v, x.data)[k] = v[k])
              /\ Append(v, x.data)[Len(v) + 1] = x.data
            BY <2>3, <3>1, AppendProperties
        <3>3. /\ Append(v, x.data) \in Seq(Payloads) /\ Len(Append(v, x.data)) = m + 1
              /\ (\A k \in 1..m : Append(v, x.data)[k] = u[k].data)
              /\ Append(v, x.data)[m + 1] = x.data
            BY <3>1, <3>2
        <3> QED
            BY <3>3 DEF v
    <2> HIDE DEF a, b, m
    <2>5. \A k \in 1..(m + 1) : a[k] = b[k]
        <3>1. SUFFICES ASSUME NEW k \in 1..(m + 1) PROVE a[k] = b[k]
            OBVIOUS
        <3>2. CASE k = m + 1
            BY <2>1, <2>2, <2>4, <3>2
        <3>3. CASE k # m + 1
            <4>1. k \in 1..m
                BY <2>1, <3>3
            <4> QED
                BY <2>1, <2>2, <2>4, <4>1
        <3> QED
            BY <3>2, <3>3
    <2>6. a = b
        BY <2>2, <2>4, <2>5, SeqEqual
    <2> QED
        BY <2>6 DEF a, b
<1>8. D(u) \in Seq(Payloads)
    <2> HIDE DEF D
    <2> QED BY <1>5, <1>6
<1> HIDE DEF D
<1>9. Data(t) = IF IsShown(x) THEN Append(D(u), x.data) ELSE D(u)
    BY <1>3, <1>4, <1>5, <1>7
<1> QED
    BY <1>4, <1>8, <1>9 DEF t

Stopped(lines) == \E n \in DOMAIN lines : lines[n] = Done

(* One line more: the lines that count on an event stream.                   *)
LEMMA UpToDoneMore ==
    ASSUME NEW s \in Seq(Payloads), NEW p \in Payloads
    PROVE  /\ ~Stopped(s) => UpToDone(s) = s /\ UpToDone(Append(s, p)) = Append(s, p)
           /\ Stopped(s) => UpToDone(Append(s, p)) = UpToDone(s)
           /\ Stopped(Append(s, p)) <=> Stopped(s) \/ p = Done
<1> DEFINE n == Len(s)
           t == Append(s, p)
           A == {k \in DOMAIN s : s[k] = Done}
           B == {k \in DOMAIN t : t[k] = Done}
<1>1. n \in Nat /\ DOMAIN s = 1..n
    BY LenProperties
<1>2. /\ t \in Seq(Payloads) /\ Len(t) = n + 1 /\ DOMAIN t = 1..(n + 1)
      /\ (\A k \in 1..n : t[k] = s[k]) /\ t[n + 1] = p
    BY AppendProperties, LenProperties
<1>3. B = IF p = Done THEN A \cup {n + 1} ELSE A
    <2>1. \A k : k \in 1..(n + 1) <=> k \in 1..n \/ k = n + 1
        BY <1>1
    <2> HIDE DEF t
    <2> QED
        BY <1>1, <1>2, <2>1
<1>4. (Stopped(s) <=> A # {}) /\ (Stopped(t) <=> B # {})
    BY DEF Stopped
<1>5. /\ UpToDone(s) = IF A = {} THEN s ELSE SubSeq(s, 1, Min(A))
      /\ UpToDone(t) = IF B = {} THEN t ELSE SubSeq(t, 1, Min(B))
    BY DEF UpToDone
<1>6. A \in SUBSET (1..n)
    BY <1>1
<1> HIDE DEF A, B, t
<1>7. Stopped(t) <=> Stopped(s) \/ p = Done
    BY <1>3, <1>4
<1>8. ASSUME NEW S \in SUBSET Nat, S # {}
      PROVE  Min(S) \in S /\ \A k \in S : Min(S) <= k
    <2>1. \E x \in S : \A y \in S : x <= y
        BY <1>8, LeastNumber
    <2> QED
        BY <2>1 DEF Min
<1>9. ASSUME ~Stopped(s) PROVE UpToDone(s) = s /\ UpToDone(t) = t
    <2>1. A = {}
        BY <1>4, <1>9
    <2>2. CASE p # Done
        BY <1>3, <1>5, <2>1, <2>2
    <2>3. CASE p = Done
        <3>1. B = {n + 1}
            BY <1>3, <2>1, <2>3
        <3>2. Min(B) = n + 1
            <4>1. B \in SUBSET Nat /\ B # {}
                BY <1>1, <3>1
            <4> QED
                BY <1>8, <3>1, <4>1
        <3>3. SubSeq(t, 1, n + 1) = t
            BY <1>2, SubSeqFull
        <3> QED
            BY <1>5, <2>1, <3>1, <3>2, <3>3
    <2> QED
        BY <2>2, <2>3
<1>10. ASSUME Stopped(s) PROVE UpToDone(t) = UpToDone(s)
    <2> DEFINE m == Min(A)
    <2>1. A # {} /\ B # {}
        BY <1>3, <1>4, <1>10
    <2>2. A \in SUBSET Nat /\ m \in A /\ \A k \in A : m <= k
        <3>1. A \in SUBSET Nat
            BY <1>6
        <3> QED
            BY <1>8, <2>1, <3>1
    <2> HIDE DEF m
    <2>3. m \in 1..n /\ m \in Nat
        BY <1>6, <2>2
    <2>4. Min(B) = m
        <3> DEFINE x == Min(B)
        <3>1. B \in SUBSET Nat
            <4>1. n + 1 \in Nat /\ \A k \in A : k \in Nat
                BY <1>1, <2>2
            <4> QED
                BY <1>3, <4>1
        <3>2. x \in B /\ \A k \in B : x <= k
            BY <1>8, <2>1, <3>1
        <3> HIDE DEF x
        <3>3. m \in B
            BY <1>3, <2>2
        <3>4. x <= m /\ x \in Nat
            BY <3>1, <3>2, <3>3
        <3>5. x \in A
            BY <1>1, <1>3, <2>3, <3>2, <3>4
        <3>6. m <= x
            BY <2>2, <3>5
        <3>7. x = m
            BY <2>3, <3>4, <3>6
        <3> QED
            BY <3>7 DEF x
    <2>5. SubSeq(t, 1, m) = SubSeq(s, 1, m)
        <3>1. m \in 0..Len(s) /\ m \in 0..Len(t) /\ 1 \in 1..(m + 1) /\ m - 1 + 1 = m
            BY <1>1, <1>2, <2>3
        <3>2. /\ SubSeq(t, 1, m) \in Seq(Payloads) /\ Len(SubSeq(t, 1, m)) = m
              /\ \A k \in 1..m : SubSeq(t, 1, m)[k] = t[k]
            <4>1. /\ SubSeq(t, 1, m) \in Seq(Payloads) /\ Len(SubSeq(t, 1, m)) = m - 1 + 1
                  /\ \A k \in 1..(m - 1 + 1) : SubSeq(t, 1, m)[k] = t[1 + k - 1]
                BY <1>2, <3>1, PartOfText
            <4>2. \A k \in 1..m : 1 + k - 1 = k
                OBVIOUS
            <4> QED
                BY <3>1, <4>1, <4>2
        <3>3. /\ SubSeq(s, 1, m) \in Seq(Payloads) /\ Len(SubSeq(s, 1, m)) = m
              /\ \A k \in 1..m : SubSeq(s, 1, m)[k] = s[k]
            <4>1. /\ SubSeq(s, 1, m) \in Seq(Payloads) /\ Len(SubSeq(s, 1, m)) = m - 1 + 1
                  /\ \A k \in 1..(m - 1 + 1) : SubSeq(s, 1, m)[k] = s[1 + k - 1]
                BY <3>1, PartOfText
            <4>2. \A k \in 1..m : 1 + k - 1 = k
                OBVIOUS
            <4> QED
                BY <3>1, <4>1, <4>2
        <3>4. \A k \in 1..m : t[k] = s[k]
            BY <1>1, <1>2, <2>3
        <3> DEFINE a == SubSeq(t, 1, m)
                   b == SubSeq(s, 1, m)
        <3> HIDE DEF a, b
        <3>5. a = b
            <4>1. a \in Seq(Payloads) /\ b \in Seq(Payloads) /\ Len(a) = m /\ Len(b) = m
                  /\ \A k \in 1..m : a[k] = b[k]
                BY <3>2, <3>3, <3>4 DEF a, b
            <4> QED
                BY <4>1, SeqEqual
        <3> QED
            BY <3>5 DEF a, b
    <2> QED
        BY <1>5, <2>1, <2>4, <2>5 DEF m
<1> QED
    BY <1>7, <1>9, <1>10 DEF t

(* What the client has been given is what these data lines show.            *)
Relays(route, r, lines) ==
    IF route = "ws" THEN Data(r.sent) = Shown(lines)
    ELSE Data(r.body) = Shown(UpToDone(lines)) /\ (r.ended <=> Stopped(lines))

LEMMA NothingRelayed ==
    ASSUME NEW route
    PROVE  Relays(route, Fresh, <<>>)
<1>1. DOMAIN <<>> = {}
    OBVIOUS
<1>2. Shown(<<>>) = <<>> /\ Data(<<>>) = <<>>
    <2> DEFINE A == {n \in DOMAIN <<>> : <<>>[n] \in Deltas \cup Unparsable}
               B == {n \in DOMAIN <<>> : <<>>[n].type \in {"delta", "raw"}}
    <2>1. A = {} /\ B = {}
        BY <1>1
    <2>2. Picked(<<>>, {}) = <<>>
        <3>1. Cardinality({}) = 0 /\ 1..0 = {}
            BY FS_EmptySet
        <3> QED
            BY <3>1 DEF Picked
    <2>3. Shown(<<>>) = Picked(<<>>, A)
        BY DEF Shown
    <2>4. Data(<<>>) = [n \in DOMAIN Picked(<<>>, B) |-> Picked(<<>>, B)[n].data]
        BY DEF Data
    <2> HIDE DEF A, B
    <2> QED
        BY <1>1, <2>1, <2>2, <2>3, <2>4
<1>3. ~Stopped(<<>>)
    BY <1>1 DEF Stopped
<1>4. UpToDone(<<>>) = <<>>
    <2>1. {n \in DOMAIN <<>> : <<>>[n] = Done} = {}
        BY <1>1
    <2> QED
        BY <2>1 DEF UpToDone
<1>5. Fresh.sent = <<>> /\ Fresh.body = <<>> /\ Fresh.ended = FALSE
    BY DEF Fresh
<1> QED
    BY <1>2, <1>3, <1>4, <1>5 DEF Relays

(* What a data line makes write_cb send on a WebSocket.                     *)
LEMMA EmitOnSocket ==
    ASSUME NEW r, NEW p
    PROVE  /\ p = Done => Emit("ws", r, p) = Send(r, Part("done", ""))
           /\ p \in Seen => Emit("ws", r, p) = Send(r, Part("delta", p))
           /\ p # Done /\ p \notin Seen => Emit("ws", r, p) = r
<1>1. Done \notin Deltas /\ Done \notin Unparsable /\ \A q \in Deltas : q \notin Unparsable
    BY PayloadAssumption DEF Done
<1>2. CASE p = Done
    BY <1>1, <1>2 DEF Emit, Seen
<1>3. CASE p \in Deltas
    BY <1>1, <1>3 DEF Emit, Seen
<1>4. CASE p \in Unparsable
    BY <1>1, <1>4 DEF Emit, Seen
<1>5. CASE p # Done /\ p \notin Deltas /\ p \notin Unparsable
    BY <1>5 DEF Emit, Seen
<1> QED
    BY <1>2, <1>3, <1>4, <1>5

(* What it makes write_cb write to an event stream.                         *)
LEMMA EmitOnStream ==
    ASSUME NEW route, route # "ws", NEW r, NEW p
    PROVE  /\ p = Done => Emit(route, r, p) = Finish(r)
           /\ p \in Seen => Emit(route, r, p) \in {Write(r, Part("delta", p)), Write(r, Part("raw", p))}
           /\ p # Done /\ p \notin Seen => Emit(route, r, p) = r
<1>1. Done \notin Deltas /\ Done \notin Unparsable /\ \A q \in Deltas : q \notin Unparsable
    BY PayloadAssumption DEF Done
<1>2. CASE p = Done
    BY <1>1, <1>2 DEF Emit, Seen
<1>3. CASE p \in Deltas
    BY <1>1, <1>3 DEF Emit, Seen
<1>4. CASE p \in Unparsable
    BY <1>1, <1>4 DEF Emit, Seen
<1>5. CASE p # Done /\ p \notin Deltas /\ p \notin Unparsable
    BY <1>5 DEF Emit, Seen
<1> QED
    BY <1>2, <1>3, <1>4, <1>5

(* One data line more is relayed as it should be.                           *)
LEMMA EmitRelays ==
    ASSUME NEW route, NEW r \in Responses, NEW s \in Seq(Payloads), NEW p \in Payloads,
           Relays(route, r, s)
    PROVE  Relays(route, Emit(route, r, p), Append(s, p))
<1> DEFINE t == Append(s, p)
           done == Part("done", "")
           delta == Part("delta", p)
           raw == Part("raw", p)
<1>1. /\ done \in Parts /\ ~IsShown(done)
      /\ delta \in Parts /\ IsShown(delta) /\ delta.data = p
      /\ raw \in Parts /\ IsShown(raw) /\ raw.data = p
    BY DEF Part, Parts, Payloads, IsShown
<1>2. Done \notin Seen
    BY PayloadAssumption DEF Seen, Done
<1>3. /\ r.body \in Seq(Parts) /\ r.sent \in Seq(Parts) /\ r.ended \in BOOLEAN
      /\ r = [body |-> r.body, sent |-> r.sent, ended |-> r.ended]
    BY DEF Responses
<1>4. Shown(t) = IF p \in Seen THEN Append(Shown(s), p) ELSE Shown(s)
    BY ShownMore
<1>5. /\ \A x \in Parts : Data(Append(r.body, x)) = IF IsShown(x) THEN Append(Data(r.body), x.data) ELSE Data(r.body)
      /\ \A x \in Parts : Data(Append(r.sent, x)) = IF IsShown(x) THEN Append(Data(r.sent), x.data) ELSE Data(r.sent)
    BY <1>3, DataMore
<1>6. /\ ~Stopped(s) => UpToDone(s) = s /\ UpToDone(t) = t
      /\ Stopped(s) => UpToDone(t) = UpToDone(s)
      /\ Stopped(t) <=> Stopped(s) \/ p = Done
    BY UpToDoneMore
<1> HIDE DEF t, done, delta, raw
<1>7. CASE route = "ws"
    <2>0. /\ p = Done => Emit(route, r, p) = Send(r, done)
          /\ p \in Seen => Emit(route, r, p) = Send(r, delta)
          /\ p # Done /\ p \notin Seen => Emit(route, r, p) = r
        <3>1. /\ p = Done => Emit("ws", r, p) = Send(r, Part("done", ""))
              /\ p \in Seen => Emit("ws", r, p) = Send(r, Part("delta", p))
              /\ p # Done /\ p \notin Seen => Emit("ws", r, p) = r
            BY EmitOnSocket
        <3> QED
            BY <1>7, <3>1 DEF done, delta
    <2>1. \A x \in Parts : Send(r, x).sent = Append(r.sent, x)
        BY <1>3 DEF Send
    <2>2. Data(r.sent) = Shown(s)
        BY <1>7 DEF Relays
    <2>3. CASE p = Done
        <3>1. Emit(route, r, p) = Send(r, done)
            BY <2>0, <2>3
        <3>2. Shown(t) = Shown(s)
            BY <1>2, <1>4, <2>3
        <3> QED
            BY <1>1, <1>5, <1>7, <2>1, <2>2, <3>1, <3>2 DEF Relays, t
    <2>4. CASE p # Done /\ p \in Seen
        <3>1. Emit(route, r, p) = Send(r, delta)
            BY <2>0, <2>4
        <3>2. Shown(t) = Append(Shown(s), p)
            BY <1>4, <2>4
        <3> QED
            BY <1>1, <1>5, <1>7, <2>1, <2>2, <3>1, <3>2 DEF Relays, t
    <2>5. CASE p # Done /\ p \notin Seen
        <3>1. Emit(route, r, p) = r
            BY <2>0, <2>5
        <3> QED
            BY <1>4, <1>7, <2>2, <2>5, <3>1 DEF Relays, t
    <2> QED
        BY <2>3, <2>4, <2>5
<1>8. CASE route # "ws"
    <2>1. Data(r.body) = Shown(UpToDone(s)) /\ (r.ended <=> Stopped(s))
        BY <1>8 DEF Relays
    <2>2. \/ p = Done /\ Emit(route, r, p) = Finish(r)
          \/ p # Done /\ p \in Seen /\ Emit(route, r, p) \in {Write(r, delta), Write(r, raw)}
          \/ p # Done /\ p \notin Seen /\ Emit(route, r, p) = r
        <3>1. /\ p = Done => Emit(route, r, p) = Finish(r)
              /\ p \in Seen => Emit(route, r, p) \in {Write(r, Part("delta", p)), Write(r, Part("raw", p))}
              /\ p # Done /\ p \notin Seen => Emit(route, r, p) = r
            BY <1>8, EmitOnStream
        <3>2. p = Done => p \notin Seen
            BY <1>2
        <3> QED
            BY <3>1, <3>2 DEF delta, raw
    <2>3. CASE r.ended
        <3>1. Write(r, delta) = r /\ Write(r, raw) = r /\ Finish(r) = r
            BY <2>3 DEF Finish, Write, End
        <3>2. Emit(route, r, p) = r
            BY <2>2, <3>1
        <3>3. UpToDone(t) = UpToDone(s) /\ Stopped(t)
            BY <1>6, <2>1, <2>3
        <3> QED
            BY <1>8, <2>1, <2>3, <3>2, <3>3 DEF Relays, t
    <2>4. CASE ~r.ended
        <3>1. /\ UpToDone(s) = s /\ UpToDone(t) = t /\ ~Stopped(s)
              /\ Stopped(t) <=> p = Done
            BY <1>6, <2>1, <2>4
        <3>2. \A x \in Parts : /\ Write(r, x).body = Append(r.body, x) /\ Write(r, x).ended = FALSE
            BY <1>3, <2>4 DEF Write
        <3>3. CASE p = Done
            <4>1. Finish(r).body = Append(r.body, done) /\ Finish(r).ended = TRUE
                <5>1. Write(r, done) = [body |-> Append(r.body, done), sent |-> r.sent, ended |-> FALSE]
                    BY <1>3, <2>4 DEF Write
                <5>2. Finish(r) = End(Write(r, done))
                    BY DEF Finish, done
                <5> QED
                    BY <5>1, <5>2 DEF End
            <4>2. Shown(t) = Shown(s)
                BY <1>2, <1>4, <3>3
            <4>3. Data(Append(r.body, done)) = Data(r.body)
                BY <1>1, <1>5
            <4>4. Emit(route, r, p) = Finish(r)
                BY <2>2, <3>3
            <4> QED
                BY <1>8, <2>1, <3>1, <3>3, <4>1, <4>2, <4>3, <4>4 DEF Relays, t
        <3>4. CASE p # Done /\ p \in Seen
            <4>1. PICK x \in {delta, raw} : Emit(route, r, p) = Write(r, x)
                BY <2>2, <3>4
            <4>2. Data(Append(r.body, x)) = Append(Data(r.body), p)
                BY <1>1, <1>5
            <4>3. Write(r, x).body = Append(r.body, x) /\ Write(r, x).ended = FALSE
                BY <1>1, <3>2
            <4>4. Shown(t) = Append(Shown(s), p)
                BY <1>4, <3>4
            <4> QED
                BY <1>8, <2>1, <3>1, <3>4, <4>1, <4>2, <4>3, <4>4 DEF Relays, t
        <3>5. CASE p # Done /\ p \notin Seen
            <4>1. Emit(route, r, p) = r /\ Shown(t) = Shown(s)
                BY <1>4, <2>2, <3>5
            <4> QED
                BY <1>8, <2>1, <2>4, <3>1, <3>5, <4>1 DEF Relays, t
        <3> QED
            BY <3>3, <3>4, <3>5
    <2> QED
        BY <1>3, <2>3, <2>4
<1> QED
    BY <1>7, <1>8

(* So are all lines that one call of write_cb relays.                       *)
LEMMA AllRelayed ==
    ASSUME NEW route, NEW r \in Responses, NEW s \in Seq(Payloads), NEW ls \in Seq(Payloads),
           Relays(route, r, s)
    PROVE  Relays(route, Emitted(route, r, ls), s \o ls)
<1> DEFINE n == Len(ls)
           D == 0..n
           upto(i) == s \o SubSeq(ls, 1, i)
           size == [i \in D |-> i]
<1>1. n \in Nat /\ \A i \in 1..n : ls[i] \in Payloads
    BY LenProperties
<1>2. \A v \in Responses : \A p \in Payloads : Emit(route, v, p) \in Responses
    BY EmitKeepsMarks
<1>3. PICK f \in [D -> Responses] : Emits(f, route, r, ls)
    BY <1>2, EmittedInOrder
<1>4. upto(0) = s
    <2>1. SubSeq(ls, 1, 0) = <<>>
        BY SubSeqEmpty
    <2> QED
        BY <2>1, ConcatEmptySeq
<1>5. ASSUME NEW i \in 1..n
      PROVE  upto(i) = Append(upto(i - 1), ls[i]) /\ upto(i - 1) \in Seq(Payloads)
    <2> DEFINE a == SubSeq(ls, 1, i - 1)
    <2>1. a \in Seq(Payloads)
        <3>1. i - 1 \in 0..n /\ 1 \in 1..(i - 1 + 1)
            BY <1>1
        <3> QED
            BY <3>1, PartOfText
    <2>2. SubSeq(ls, 1, i) = a \o <<ls[i]>>
        <3>1. 1 \in 1..n /\ i \in 1..n
            BY <1>1
        <3> QED
            BY <3>1, SubSeqRecursiveSecond
    <2>3. <<ls[i]>> \in Seq(Payloads) /\ ls[i] \in Payloads
        BY <1>1
    <2> HIDE DEF a
    <2>4. s \o (a \o <<ls[i]>>) = (s \o a) \o <<ls[i]>>
        BY <2>1, <2>3, ConcatAssociative
    <2>5. s \o a \in Seq(Payloads)
        BY <2>1, ConcatProperties
    <2>6. Append(s \o a, ls[i]) = (s \o a) \o <<ls[i]>>
        BY <2>3, <2>5, AppendIsConcat
    <2> QED
        BY <2>2, <2>4, <2>5, <2>6 DEF a
<1> HIDE DEF upto
<1> DEFINE T == {i \in D : Relays(route, f[i], upto(i))}
<1>6. ASSUME NEW i \in D, \A j \in D : size[j] < size[i] => j \in T
      PROVE  i \in T
    <2>1. CASE i = 0
        BY <1>3, <1>4, <2>1 DEF Emits
    <2>2. CASE i # 0
        <3>1. i - 1 \in D /\ i \in 1..n /\ size[i - 1] < size[i]
            BY <1>1, <2>2
        <3>2. Relays(route, f[i - 1], upto(i - 1)) /\ f[i - 1] \in Responses
            BY <1>6, <3>1
        <3>3. f[i] = Emit(route, f[i - 1], ls[i])
            BY <1>3, <3>1 DEF Emits
        <3>4. ls[i] \in Payloads /\ upto(i) = Append(upto(i - 1), ls[i]) /\ upto(i - 1) \in Seq(Payloads)
            BY <1>1, <1>5, <3>1
        <3>5. Relays(route, Emit(route, f[i - 1], ls[i]), Append(upto(i - 1), ls[i]))
            BY <3>2, <3>4, EmitRelays
        <3> QED
            BY <3>3, <3>4, <3>5
    <2> QED
        BY <2>1, <2>2
<1>7. D \subseteq T
    <2>1. size \in [D -> Nat]
        BY <1>1
    <2>2. \A i \in D : (\A j \in D : size[j] < size[i] => j \in T) => i \in T
        BY <1>6
    <2> HIDE DEF size, T, D
    <2> QED
        BY <2>1, <2>2, InductionBySize
<1>8. n \in D /\ f[n] = Emitted(route, r, ls)
    BY <1>1, <1>3 DEF Emits
<1>9. upto(n) = s \o ls
    BY SubSeqFull DEF upto
<1> HIDE DEF D, n
<1>10. Relays(route, f[n], upto(n))
    BY <1>7, <1>8
<1> QED
    BY <1>8, <1>9, <1>10

(* All that is before the buffer has been relayed, and that is whole frames. *)
RelayedTo(t, g, b, route, r) ==
    \E k \in 1..(g + 1) : /\ b = SubSeq(t, k, g)
                          /\ k = 1 \/ EndsFrame(t, k)
                          /\ Relays(route, r, DataLines(SubSeq(t, 1, k - 1)))

RelayInv ==
    /\ at \in {"idle", "begun", "called"} => got = 0 /\ buffer = <<>>
    /\ at = "perform" => RelayedTo(text, got, buffer, request.route, response)

(* A chunk relayed from the buffer keeps it so.                             *)
LEMMA DrainRelays ==
    ASSUME NEW t \in Seq(Tokens), NEW g \in 0..Len(t), NEW n \in g..Len(t),
           NEW b, NEW route, NEW r \in Responses, RelayedTo(t, g, b, route, r),
           NEW d, d = Drain(b \o SubSeq(t, g + 1, n))
    PROVE  RelayedTo(t, n, d.rest, route, Emitted(route, r, d.lines))
<1>1. PICK k \in 1..(g + 1) : /\ b = SubSeq(t, k, g)
                              /\ k = 1 \/ EndsFrame(t, k)
                              /\ Relays(route, r, DataLines(SubSeq(t, 1, k - 1)))
    BY DEF RelayedTo
<1>2. /\ Len(t) \in Nat /\ g \in Nat /\ n \in Nat /\ k \in Nat
      /\ g <= n /\ n <= Len(t) /\ k >= 1 /\ k <= g + 1
    BY LenProperties
<1> DEFINE s == SubSeq(t, k, n)
           m == n - k + 1
<1>3. b \o SubSeq(t, g + 1, n) = s
    <2>1. k \in 1..(Len(t) + 1) /\ g \in (k - 1)..Len(t) /\ n \in g..Len(t)
        BY <1>2
    <2> QED
        BY <1>1, <1>2, <2>1, ConcatAdjacentSubSeq
<1>4. n \in 0..Len(t) /\ k \in 1..(n + 1) /\ m \in Nat /\ n - k + 2 = m + 1
    BY <1>2
<1>5. s \in Seq(Tokens) /\ Len(s) = m
    BY <1>4, PartOfText
<1> HIDE DEF s
<1>6. PICK j \in 1..(Len(s) + 1) : /\ Drain(s).rest = SubSeq(s, j, Len(s))
                                   /\ Drain(s).lines = DataLines(SubSeq(s, 1, j - 1))
                                   /\ j = 1 \/ EndsFrame(s, j)
    BY <1>5, DrainTakesFrames
<1> DEFINE K == k + j - 1
           e == K - 1
           before == DataLines(SubSeq(t, 1, k - 1))
           lines == DataLines(SubSeq(t, k, e))
<1>7. /\ j \in 1..(m + 1) /\ j \in Nat /\ K \in 1..(n + 1) /\ e \in 0..Len(t) /\ k \in 1..(e + 1)
      /\ k - 1 \in 0..Len(t) /\ 1 \in 1..(k - 1 + 1) /\ K >= k /\ j >= 1
      /\ K \in Nat /\ e \in Nat /\ e + 1 = K
    BY <1>2, <1>4, <1>5, <1>6
<1>8. SubSeq(s, j, Len(s)) = SubSeq(t, K, n)
    <2>1. m \in 0..(n - k + 1) /\ j \in 1..(m + 1) /\ k + m - 1 = n
        BY <1>2, <1>4, <1>7
    <2> HIDE DEF m
    <2>2. SubSeq(SubSeq(t, k, n), j, m) = SubSeq(t, k + j - 1, k + m - 1)
        BY <1>4, <2>1, PartOfPart
    <2> QED
        BY <1>5, <2>1, <2>2 DEF s
<1>9. SubSeq(s, 1, j - 1) = SubSeq(t, k, e)
    <2> DEFINE i == j - 1
    <2>1. i \in 0..(n - k + 1) /\ 1 \in 1..(i + 1) /\ k + 1 - 1 = k /\ k + i - 1 = e
        BY <1>2, <1>4, <1>7
    <2> HIDE DEF i, e, m, K
    <2>2. SubSeq(SubSeq(t, k, n), 1, i) = SubSeq(t, k + 1 - 1, k + i - 1)
        BY <1>4, <2>1, PartOfPart
    <2> QED
        BY <2>1, <2>2 DEF s, i
<1>10. K = 1 \/ EndsFrame(t, K)
    <2>1. CASE j = 1
        <3>1. K = k
            BY <1>2, <2>1
        <3> HIDE DEF K
        <3> QED
            BY <1>1, <3>1
    <2>2. CASE j # 1
        <3>1. EndsFrame(s, j) /\ j \in 1..(n - k + 2)
            BY <1>4, <1>6, <1>7, <2>2
        <3>2. EndsFrame(SubSeq(t, k, n), j)
            BY <3>1 DEF s
        <3> QED
            BY <1>4, <3>1, <3>2, FrameOfPart
    <2> QED
        BY <2>1, <2>2
<1>11. before \in Seq(Payloads) /\ lines \in Seq(Payloads)
    <2> HIDE DEF e, K
    <2>1. SubSeq(t, 1, k - 1) \in Seq(Tokens) /\ SubSeq(t, k, e) \in Seq(Tokens)
        BY <1>7, PartOfText
    <2> QED
        BY <2>1, DataLinesArePayloads
<1>12. DataLines(SubSeq(t, 1, e)) = before \o lines
    <2>1. CASE K = k
        <3>1. e = k - 1 /\ SubSeq(t, k, e) = <<>>
            <4>1. e = k - 1 /\ e < k /\ e \in Int /\ k \in Int
                BY <1>7, <2>1
            <4> HIDE DEF e
            <4> QED BY <4>1, SubSeqEmpty
        <3>2. DataLines(<<>>) = <<>>
            BY NoLines
        <3> HIDE DEF e, K
        <3>3. lines = <<>>
            BY <3>1, <3>2
        <3> HIDE DEF lines
        <3>4. before \o <<>> = before
            <4> HIDE DEF before
            <4> QED BY <1>11, ConcatEmptySeq
        <3> QED
            BY <3>1, <3>3, <3>4
    <2>2. CASE K # k /\ k = 1
        <3>1. before = <<>>
            <4>1. k - 1 = 0
                BY <2>2
            <4> QED
                BY <4>1, NoLines
        <3> HIDE DEF before, e, K
        <3>2. lines = DataLines(SubSeq(t, 1, e))
            BY <2>2
        <3> HIDE DEF lines
        <3>3. <<>> \o lines = lines
            BY <1>11, ConcatEmptySeq
        <3> QED
            BY <3>1, <3>2, <3>3
    <2>3. CASE K # k /\ k # 1
        <3> DEFINE p == k - 1
        <3>1. p \in Nat /\ p >= 1 /\ p \in 1..e /\ k \in (p + 1)..(e + 1) /\ k - 1 = p
              /\ 1 \in 1..(e + 1)
            BY <1>2, <1>7, <2>3
        <3>2. Breaks(t, p, k - 1)
            <4>1. PICK i \in 1..k, l \in {2, 4} : i + l = k /\ DelimiterAt(t, i, l)
                BY <1>1, <2>3 DEF EndsFrame
            <4>2. i \in Nat /\ i + l - 1 = p /\ p..(k - 1) = {p} /\ p \in i..(i + l - 1)
                BY <1>2, <3>1, <4>1
            <4>3. Breaks(t, i, i + l - 1)
                BY <4>1, <4>2, DelimitersAreBreaks
            <4> QED
                BY <4>2, <4>3 DEF Breaks
        <3> HIDE DEF p, e, K
        <3>3. DataLines(SubSeq(t, 1, e)) = DataLines(SubSeq(t, 1, p - 1)) \o DataLines(SubSeq(t, k, e))
            BY <1>7, <3>1, <3>2, LinesJoin
        <3>4. DataLines(SubSeq(t, 1, p)) = DataLines(SubSeq(t, 1, p - 1))
            <4>1. p \in 0..Len(t) /\ p \in 1..(p + 1)
                BY <1>7, <3>1
            <4>2. Breaks(t, p, p)
                BY <3>1, <3>2
            <4> QED
                BY <4>1, <4>2, LinesBeforeBreaks
        <3>5. before = DataLines(SubSeq(t, 1, p))
            BY <3>1
        <3> QED
            BY <3>3, <3>4, <3>5
    <2> QED
        BY <2>1, <2>2, <2>3
<1>13. d.rest = SubSeq(t, K, n) /\ d.lines = lines
    <2> HIDE DEF K, e
    <2> QED
        BY <1>3, <1>6, <1>8, <1>9
<1>14. Relays(route, Emitted(route, r, lines), before \o lines)
    <2>1. Relays(route, r, before)
        BY <1>1
    <2> HIDE DEF before, lines, K, e
    <2> QED
        BY <1>11, <2>1, AllRelayed
<1>15. Relays(route, Emitted(route, r, d.lines), DataLines(SubSeq(t, 1, K - 1)))
    <2>1. Relays(route, Emitted(route, r, lines), DataLines(SubSeq(t, 1, e)))
        BY <1>12, <1>14
    <2> HIDE DEF lines, before
    <2> QED
        BY <1>13, <2>1
<1> HIDE DEF K, e, lines, before
<1> QED
    BY <1>7, <1>10, <1>13, <1>15 DEF RelayedTo

CompleteOf(s) ==
    LET ends == {d[1] + d[2] - 1 : d \in Delimiters(s)}
    IN  IF ends = {} THEN <<>> ELSE SubSeq(s, 1, Max(ends))

(* Where no frame is left in the buffer, what is before it has the data     *)
(* lines of all that is complete: the rest of that are line ends.           *)
LEMMA CompleteIsBeforeBuffer ==
    ASSUME NEW t \in Seq(Tokens), NEW g \in 0..Len(t), NEW k \in 1..(g + 1),
           k = 1 \/ EndsFrame(t, k), Delimiters(SubSeq(t, k, g)) = {}
    PROVE  DataLines(CompleteOf(SubSeq(t, 1, g))) = DataLines(SubSeq(t, 1, k - 1))
<1> DEFINE s == SubSeq(t, 1, g)
           b == SubSeq(t, k, g)
           D == Delimiters(s)
           E == {d[1] + d[2] - 1 : d \in D}
<1>1. Len(t) \in Nat /\ g \in Nat /\ k \in Nat /\ k >= 1 /\ k <= g + 1 /\ g <= Len(t)
      /\ 1 \in 1..(g + 1) /\ g - 1 + 1 = g
    BY LenProperties
<1>2. s \in Seq(Tokens) /\ Len(s) = g /\ b \in Seq(Tokens) /\ Len(b) = g - k + 1
    <2>1. s \in Seq(Tokens) /\ Len(s) = g - 1 + 1
        BY <1>1, PartOfText
    <2> QED
        BY <1>1, <2>1, PartOfText
<1>3. D = {d \in (1..g) \X {2, 4} : d[1] + d[2] - 1 <= g /\ DelimiterAt(s, d[1], d[2])}
    <2> HIDE DEF s
    <2> QED BY <1>2, DelimitersAt
<1>4. ASSUME NEW i \in 1..g, NEW l \in {2, 4}, i + l - 1 <= g
      PROVE  <<i, l>> \in D <=> DelimiterAt(t, i, l)
    <2>1. DelimiterAt(s, i, l) <=> DelimiterAt(t, 1 + i - 1, l)
        <3>1. i \in 1..(g - 1 + 1) /\ i + l - 1 <= g - 1 + 1
            BY <1>1, <1>4
        <3> QED
            BY <1>1, <3>1, DelimiterOfPart
    <2>2. 1 + i - 1 = i
        BY <1>1
    <2>3. <<i, l>> \in D <=> DelimiterAt(s, i, l)
        <3> HIDE DEF D, s
        <3> QED BY <1>3, <1>4
    <2> QED
        BY <2>1, <2>2, <2>3
<1>5. ASSUME NEW d \in D
      PROVE  /\ d[1] \in 1..g /\ d[2] \in {2, 4} /\ d[1] + d[2] - 1 <= g /\ d = <<d[1], d[2]>>
             /\ DelimiterAt(t, d[1], d[2]) /\ d[1] < k
    <2>1. d[1] \in 1..g /\ d[2] \in {2, 4} /\ d[1] + d[2] - 1 <= g /\ d = <<d[1], d[2]>>
        <3> HIDE DEF D, s
        <3> QED BY <1>3
    <2>2. DelimiterAt(t, d[1], d[2])
        BY <1>4, <2>1
    <2>3. ASSUME ~(d[1] < k) PROVE FALSE
        <3> DEFINE i == d[1] - k + 1
                   l == d[2]
        <3>1. /\ i \in 1..(g - k + 1) /\ l \in {2, 4} /\ i + l - 1 <= g - k + 1 /\ k + i - 1 = d[1]
            <4>1. ASSUME NEW x \in 1..g, NEW y \in {2, 4}, x + y - 1 <= g, ~(x < k)
                  PROVE  /\ x - k + 1 \in 1..(g - k + 1) /\ x - k + 1 + y - 1 <= g - k + 1
                         /\ k + (x - k + 1) - 1 = x
                BY <1>1, <4>1
            <4> QED
                BY <2>1, <2>3, <4>1
        <3>2. DelimiterAt(t, k + i - 1, l)
            BY <2>2, <3>1
        <3> HIDE DEF i, l
        <3>3. DelimiterAt(b, i, l)
            BY <3>1, <3>2, DelimiterOfPart
        <3> HIDE DEF b
        <3>4. <<i, l>> \in Delimiters(b)
            <4>1. Delimiters(b) = {x \in (1..Len(b)) \X {2, 4} :
                                      x[1] + x[2] - 1 <= Len(b) /\ DelimiterAt(b, x[1], x[2])}
                BY <1>2, DelimitersAt
            <4> QED
                BY <1>2, <3>1, <3>3, <4>1
        <3> QED
            BY <3>4 DEF b
    <2> QED
        BY <2>1, <2>2, <2>3
<1> HIDE DEF D
<1>6. CompleteOf(s) = IF E = {} THEN <<>> ELSE SubSeq(s, 1, Max(E))
    BY DEF CompleteOf, D
<1>7. CASE k = 1
    <2>1. D = {}
        <3>1. \A d \in D : d[1] \in 1..g /\ d[1] < 1
            BY <1>5, <1>7
        <3> QED
            BY <1>1, <3>1
    <2>2. E = {}
        BY <2>1
    <2>3. CompleteOf(s) = <<>>
        BY <1>6, <2>2
    <2>4. k - 1 = 0
        BY <1>7
    <2>5. SubSeq(t, 1, 0) = <<>>
        BY NoLines
    <2> QED
        BY <2>3, <2>4, <2>5
<1>8. CASE k # 1
    <2>1. PICK i \in 1..k, l \in {2, 4} : i + l = k /\ DelimiterAt(t, i, l)
        BY <1>8 DEF EndsFrame
    <2>2. i \in 1..g /\ i + l - 1 <= g /\ i + l - 1 = k - 1
        BY <1>1, <2>1
    <2>3. <<i, l>> \in D
        BY <1>4, <2>1, <2>2
    <2>4. k - 1 \in E
        BY <2>2, <2>3
    <2>5. E \in (SUBSET (1..g)) \ {{}}
        <3>1. \A d \in D : d[1] + d[2] - 1 \in 1..g
            BY <1>1, <1>5
        <3> QED
            BY <2>4, <3>1
    <2> DEFINE M == Max(E)
    <2>6. M \in E /\ \A j \in E : j <= M
        <3> HIDE DEF E
        <3> QED BY <1>1, <2>5, LastOfNumbers
    <2>7. M \in 1..g /\ k - 1 <= M
        <3> HIDE DEF E, M
        <3> QED BY <2>4, <2>5, <2>6
    <2>8. PICK d \in D : M = d[1] + d[2] - 1
        <3> HIDE DEF M
        <3> QED BY <2>6
    <2> HIDE DEF M
    <2>9. Breaks(t, k, M)
        <3>1. d[1] \in Nat /\ d[1] < k /\ d[2] \in {2, 4} /\ DelimiterAt(t, d[1], d[2])
            BY <1>5
        <3>2. Breaks(t, d[1], M)
            BY <2>8, <3>1, DelimitersAreBreaks
        <3>3. \A x \in k..M : x \in d[1]..M
            BY <1>1, <2>7, <3>1
        <3> QED
            BY <3>2, <3>3 DEF Breaks
    <2>10. M \in 0..Len(t) /\ k \in 1..(M + 1) /\ M \in 0..(g - 1 + 1) /\ 1 \in 1..(M + 1)
           /\ 1 + 1 - 1 = 1 /\ 1 + M - 1 = M
        BY <1>1, <2>7
    <2>11. SubSeq(s, 1, M) = SubSeq(t, 1, M)
        <3>1. SubSeq(SubSeq(t, 1, g), 1, M) = SubSeq(t, 1 + 1 - 1, 1 + M - 1)
            BY <1>1, <2>10, PartOfPart
        <3> QED
            BY <2>10, <3>1
    <2>12. CompleteOf(s) = SubSeq(s, 1, M)
        BY <1>6, <2>4 DEF M
    <2>13. DataLines(SubSeq(t, 1, M)) = DataLines(SubSeq(t, 1, k - 1))
        BY <2>9, <2>10, LinesBeforeBreaks
    <2> HIDE DEF s
    <2> QED
        BY <2>11, <2>12, <2>13 DEF s
<1> QED
    BY <1>7, <1>8

(* The invariant says what the property says.                                *)
LEMMA RelayFollows == StreamInv /\ RelayInv => RelayIsThatOfTheText
<1> SUFFICES ASSUME StreamInv, RelayInv, at = "perform" PROVE RelayIsThatOfTheText
    BY DEF RelayIsThatOfTheText
<1>1. text \in Seq(Tokens) /\ got \in 0..Len(text) /\ Delimiters(buffer) = {}
    BY TextsAreTokens DEF StreamInv, BufferInv
<1>2. PICK k \in 1..(got + 1) : /\ buffer = SubSeq(text, k, got)
                                /\ k = 1 \/ EndsFrame(text, k)
                                /\ Relays(request.route, response, DataLines(SubSeq(text, 1, k - 1)))
    BY DEF RelayInv, RelayedTo
<1>3. Complete = CompleteOf(SubSeq(text, 1, got))
    BY DEF Complete, CompleteOf, Received
<1>4. DataLines(Complete) = DataLines(SubSeq(text, 1, k - 1))
    <2>1. Delimiters(SubSeq(text, k, got)) = {}
        BY <1>1, <1>2
    <2> QED
        BY <1>1, <1>2, <1>3, <2>1, CompleteIsBeforeBuffer
<1>5. Relays(request.route, response, DataLines(Complete))
    BY <1>2, <1>4
<1> QED
    BY <1>5 DEF Relays, RelayIsThatOfTheText

(* Nothing has been relayed at first.                                        *)
LEMMA RelayStart == Init => RelayInv
BY DEF Init, RelayInv

(* A step of the handler relays a whole number of frames, or nothing.        *)
LEMMA RelayStep == StreamInv /\ RelayInv /\ [Next]_vars => RelayInv'
<1> SUFFICES ASSUME StreamInv, RelayInv, [Next]_vars PROVE RelayInv'
    OBVIOUS
<1>1. text \in Seq(Tokens) /\ got \in 0..Len(text) /\ response \in Responses
    BY TextsAreTokens DEF StreamInv, BufferInv, ResponseInv
<1>2. ASSUME at' = "returned" PROVE RelayInv'
    BY <1>2 DEF RelayInv
<1>3. ASSUME NEW ls, Answer(ls) PROVE RelayInv'
    BY <1>2, <1>3 DEF Answer, Goto
<1>4. ASSUME NEW r \in Requests, Arrive(r) PROVE RelayInv'
    BY <1>4 DEF Arrive, Upstream, RelayInv
<1>5. CASE CallThrows
    BY <1>5 DEF CallThrows, Goto, Upstream, RelayInv
<1>6. CASE StartStream
    <2>1. /\ at \in {"begun", "called"} /\ at' = "perform"
          /\ UNCHANGED <<request, text, got, buffer, response>>
        BY <1>6 DEF StartStream, Ready, Goto, Upstream
    <2>2. response = Fresh /\ got = 0 /\ buffer = <<>>
        BY <2>1 DEF StreamInv, ResponseInv, RelayInv
    <2>3. SubSeq(text, 1, 0) = <<>> /\ DataLines(SubSeq(text, 1, 0)) = <<>>
        BY <1>1, NoLines
    <2>4. Relays(request.route, response, DataLines(SubSeq(text, 1, 1 - 1)))
        BY <2>2, <2>3, NothingRelayed
    <2>5. RelayedTo(text, got, buffer, request.route, response)
        BY <2>2, <2>3, <2>4 DEF RelayedTo
    <2>6. RelayedTo(text, got, buffer, request.route, response)'
        BY <2>1, <2>5
    <2> QED
        BY <2>1, <2>6 DEF RelayInv
<1>7. ASSUME NEW bytes \in 1..Len(text), Receive(bytes) PROVE RelayInv'
    <2> DEFINE n == got + bytes
               d == Drain(buffer \o SubSeq(text, got + 1, n))
    <2>1. /\ at = "perform" /\ got + bytes <= Len(text) /\ got' = n /\ buffer' = d.rest
          /\ response' = FoldLeft(LAMBDA r, p : Emit(request.route, r, p), response, d.lines)
          /\ UNCHANGED <<request, at, text>>
        BY <1>7, Zenon DEF Receive
    <2>2. response' = Emitted(request.route, response, d.lines)
        BY <2>1, Zenon DEF Emitted
    <2>3. n \in got..Len(text)
        <3>1. Len(text) \in Nat
            BY <1>1, LenProperties
        <3>2. got + bytes <= Len(text) /\ got \in 0..Len(text)
            BY <1>1, <2>1
        <3> QED
            BY <3>1, <3>2
    <2>4. RelayedTo(text, got, buffer, request.route, response)
        BY <2>1 DEF RelayInv
    <2> HIDE DEF n
    <2>5. d = Drain(buffer \o SubSeq(text, got + 1, n))
        OBVIOUS
    <2> HIDE DEF d
    <2>6. RelayedTo(text, n, d.rest, request.route, Emitted(request.route, response, d.lines))
        BY <1>1, <2>3, <2>4, <2>5, DrainRelays
    <2>7. RelayedTo(text', got', buffer', request'.route, response')
        BY <2>1, <2>2, <2>6
    <2> QED
        BY <2>1, <2>7 DEF RelayInv
<1>8. CASE PerformOk
    BY <1>2, <1>8 DEF PerformOk
<1>9. CASE PerformFails
    BY <1>2, <1>9 DEF PerformFails
<1>10. CASE UNCHANGED vars
    BY <1>10 DEF vars, RelayInv
<1>11. CASE Malformed
    BY <1>3, <1>11 DEF Malformed
<1>12. CASE CallReplies
    BY <1>3, <1>12 DEF CallReplies
<1>13. CASE MissingPrompt
    BY <1>3, <1>13 DEF MissingPrompt
<1>14. CASE Ask
    BY <1>3, <1>14 DEF Ask
<1>15. CASE CurlInitFails
    BY <1>3, <1>15 DEF CurlInitFails
<1> QED
    BY <1>4, <1>5, <1>6, <1>7, <1>8, <1>9, <1>10, <1>11, <1>12, <1>13, <1>14, <1>15
       DEF Next, Handler

(* What write_cb relays to the client is what the data lines of the text    *)
(* that has come say, in their order: for texts of any length, wherever the *)
(* network cuts them into chunks, in a delimiter or in a data line, what    *)
(* reaches the client is the same.                                          *)
THEOREM RelayDoesNotDependOnChunks == Spec => []RelayIsThatOfTheText
<1>0. StreamInv /\ [Next]_vars => StreamInv'
    BY StepResponse
<1>1. Spec => []StreamInv
    BY <1>0, InitStream, PTL DEF Spec
<1>2. Spec => []RelayInv
    BY <1>1, RelayStart, RelayStep, PTL DEF Spec
<1> QED
    BY <1>1, <1>2, RelayFollows, PTL
=============================================================================
